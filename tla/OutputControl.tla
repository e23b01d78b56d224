----------------------------- MODULE OutputControl -----------------------------
(***************************************************************************)
(* The heart of sched (thread_io/tasks.c): four threads that switch the    *)
(* truck's outputs and share the list of output records.                   *)
(*                                                                         *)
(*   inputs    monitor_input_task       polls the dash switches            *)
(*   fake      monitor_fake_input_task  polls the inputs set by software   *)
(*   timer     timer_task               once a second                      *)
(*   controls  basic_controls_task      executes the queued commands       *)
(*                                                                         *)
(* A record is reached through a pointer that outlives the list's lock:    *)
(* ollist_find_data returns cur->datap after it has unlocked, and          *)
(* ollist_insert_data frees the record it replaces.  So the model keeps a  *)
(* heap of chunks, and `list' says which chunk each node points to.        *)
(*                                                                         *)
(* Every handler is a sequence of steps in `code' (module Handlers); a     *)
(* step may put further steps in front (a call, the branch taken by an     *)
(* if).  The calls protected by a lock are one step: see RdWrLock for the  *)
(* lock of the list and RelayBank for change_output.                       *)
(***************************************************************************)
EXTENDS Handlers, FiniteSets

CONSTANTS
  Chunk,           \* the heap blocks that hold an O_DATA
  NULL,            \* no chunk
  Switches,        \* the inputs that have a switch on the dash
  Commands,        \* the commands the host and the STM32 send
  HostBacklog,     \* bound: they add no command to a queue this long
  MSG_QUEUE_SIZE,
  LIGHTS_ON_AT,    \* the second of the hour at which the lights come on (15)
  HOUR,            \* the seconds after which running_minutes is 0 again (3600)
  UINT_MAX,        \* the largest UINT; TLC's integers end below 2^32 - 1
  Preempt,         \* is a thread preempted between two of its sleeps?
  Timely           \* do the 5 ms polls keep up with the 10 ms sleepers, and both
                   \* with the timer's second?

ASSUME OutputAssumption ==
  /\ Output # {}
  /\ NULL \notin Chunk
  /\ Switches \subseteq Number
  /\ \E f \in [Output -> Chunk] : IsInjective(f)
  /\ MSG_QUEUE_SIZE \in Nat /\ HOUR \in Nat \ {0}
  /\ UINT_MAX \in Nat \ (0..255)
  /\ Preempt \in BOOLEAN /\ Timely \in BOOLEAN

VARIABLES
  heap,            \* the contents of every chunk, freed ones included
  list,            \* the chunk of each node of `oll'
  otp,             \* the local pointer of each thread
  code,            \* the steps each thread has before it
  relays,          \* the outputs whose relay is on
  sw,              \* the input lines as the switches set them
  inportstatus, fake_inportstatus1, fake_inportstatus2,
  msg_queue,
  glob             \* the scalar globals of tasks.c

vars == <<heap, list, otp, code, relays, sw, inportstatus,
          fake_inportstatus1, fake_inportstatus2, msg_queue, glob>>
records   == <<heap, list>>
fakeVars  == <<fake_inportstatus1, fake_inportstatus2>>
inputVars == <<sw, inportstatus, fake_inportstatus1, fake_inportstatus2>>

Threads == {"inputs", "fake", "timer", "controls"}

\* sched.c: the monitors run at the top (PFIFO), the timer in the middle
\* (PTIME_SLICE), the others at the bottom (TIME_SLICE), on one core.
Prio == [t \in Threads |-> CASE t \in {"inputs", "fake"} -> 3
                             [] t = "timer"              -> 2
                             [] t = "controls"           -> 1]

\* olLoadConfig gives every node a record of its own.
Loaded == CHOOSE f \in [Output -> Chunk] : IsInjective(f)

(* The state once get_host_cmd_task has loaded odata.dat: every record off,  *)
(* every thread at its first sleep.                                          *)
Init ==
  /\ list = Loaded
  /\ heap = [c \in Chunk |->
               [port |-> IF \E p \in Output : Loaded[p] = c
                         THEN CHOOSE p \in Output : Loaded[p] = c
                         ELSE CHOOSE p \in Output : TRUE,
                onoff |-> 0, reset |-> 0, time_left |-> 0]]
  /\ otp = [t \in Threads |-> NULL]
  /\ code = [t \in Threads |-> <<>>]
  /\ relays = {}
  /\ sw = {} /\ inportstatus = {}
  /\ fake_inportstatus1 = {} /\ fake_inportstatus2 = {}
  /\ msg_queue = <<>>
  /\ glob = [engine_running |-> 0, run_time |-> 0, lights_on_countdown |-> 0,
             test_lblinkers |-> 0, test_rblinkers |-> 0,
             shutdown_all |-> 0, reboot_on_exit |-> 1]

--------------------------------------------------------------------------------
(* Scheduling *)

Idle(t) == code[t] = <<>>
Busy(t) == ~Idle(t) /\ Head(code[t]).op \notin {"sleep", "exit"}

\* t gets the processor if everyone else sleeps, or by preempting a lower priority.
CanRun(t) == \A u \in Threads \ {t} : Busy(u) => Preempt /\ Prio[t] > Prio[u]

\* Nobody is between two sleeps.
Quiet == \A t \in Threads : ~Busy(t)

\* t is about to execute a step of kind k.
At(t, k) == ~Idle(t) /\ Head(code[t]).op = k /\ CanRun(t)

Now(t)  == Head(code[t])
Rec(t)  == heap[otp[t]]                  \* *otp
Cfg(t)  == odata[Rec(t).port]

\* Go on with ops; a thread that has finished has no pointer any more.
Continue(t, ops, ptr) ==
  LET rest == ops \o Tail(code[t])
  IN  /\ code' = [code EXCEPT ![t] = rest]
      /\ otp' = [otp EXCEPT ![t] = IF rest = <<>> THEN NULL ELSE ptr]

Proceed(t, ops) == Continue(t, ops, otp[t])

--------------------------------------------------------------------------------
(* The list of output records *)

ollist_find_data(t) ==
  /\ At(t, "find")
  /\ Continue(t, <<>>, list[Now(t).a])
  /\ UNCHANGED <<records, relays, inputVars, msg_queue, glob>>

(* Under the write lock: malloc returns any free chunk, memcpy fills it from *)
(* what otp points to now, free releases the chunk the node had.             *)
ollist_insert_data(t) ==
  /\ At(t, "insert")
  /\ \E c \in Chunk :
       /\ \A p \in Output : list[p] # c
       /\ heap' = [heap EXCEPT ![c] = Rec(t)]
       /\ list' = [list EXCEPT ![Now(t).a] = c]
  /\ Proceed(t, <<>>)
  /\ UNCHANGED <<relays, inputVars, msg_queue, glob>>

\* ollist_insert_data(otp->port, ...): the argument is read before the lock is taken
EvalPort(t) ==
  /\ At(t, "insert_otp")
  /\ Proceed(t, <<Insert(Rec(t).port)>>)
  /\ UNCHANGED <<records, relays, inputVars, msg_queue, glob>>

\* otp->field = value, in the chunk itself
Write(t, field, value) ==
  /\ heap' = [heap EXCEPT ![otp[t]] = [@ EXCEPT ![field] = value]]
  /\ Proceed(t, <<>>)
  /\ UNCHANGED <<list, relays, inputVars, msg_queue, glob>>

WriteField(t) ==
  \/ At(t, "put") /\ Write(t, Now(t).a, Now(t).b)
  \/ At(t, "toggle") /\ Write(t, "onoff", IF Rec(t).onoff = 1 THEN 0 ELSE 1)
  \/ At(t, "start_timer") /\ Write(t, "time_left", Cfg(t).time_delay)

IfResetIsZero(t) ==
  /\ At(t, "if_reset0")
  /\ Proceed(t, IF Rec(t).reset = 0 THEN Now(t).b ELSE <<>>)
  /\ UNCHANGED <<records, relays, inputVars, msg_queue, glob>>

set_output(t) ==
  /\ At(t, "set_output")
  /\ Proceed(t, SetOutputBranch(Cfg(t), Rec(t).reset, Now(t).b))
  /\ UNCHANGED <<records, relays, inputVars, msg_queue, glob>>

--------------------------------------------------------------------------------
(* Relays, software inputs, the queue and the globals *)

Relay(t, p, v) ==
  /\ relays' = IF v = 1 THEN relays \cup {p} ELSE relays \ {p}
  /\ Proceed(t, <<>>)
  /\ UNCHANGED <<records, inputVars, msg_queue, glob>>

change_output(t) ==
  \/ At(t, "out") /\ Relay(t, Now(t).a, Now(t).b)
  \/ At(t, "out_otp") /\ Relay(t, Rec(t).port, Now(t).b)
  \/ At(t, "out_onoff") /\ Relay(t, Rec(t).port, Rec(t).onoff)
  \/ At(t, "blink") /\ Relay(t, Rec(t).port, (Cfg(t).time_delay - Rec(t).time_left) % 2)

\* fake_inportstatus2[bank] |= mask or &= ~mask: a load ...
change_input(t) ==
  /\ At(t, "change_input")
  /\ LET l    == Line(Now(t).a)
         old  == fake_inportstatus2 \cap Lines(l \div 8)
     IN  Proceed(t, <<Op("store2", l \div 8,
                         IF Now(t).b = 1 THEN old \cup {l} ELSE old \ {l})>>)
  /\ UNCHANGED <<records, relays, inputVars, msg_queue, glob>>

\* timer_task: fake_inportstatusN[bank] &= ~mask for the output's own number
ClearFakeInput(t) ==
  /\ At(t, "clear_fake")
  /\ LET l == Line(Rec(t).port)
     IN  Proceed(t, IF Now(t).a = 1
                    THEN <<Op("store1", l \div 8, (fake_inportstatus1 \cap Lines(l \div 8)) \ {l})>>
                    ELSE <<Op("store2", l \div 8, (fake_inportstatus2 \cap Lines(l \div 8)) \ {l})>>)
  /\ UNCHANGED <<records, relays, inputVars, msg_queue, glob>>

\* ... and a store of the byte
StoreFake(t) ==
  /\ \/ /\ At(t, "store1")
        /\ fake_inportstatus1' = (fake_inportstatus1 \ Lines(Now(t).a)) \cup Now(t).b
        /\ UNCHANGED fake_inportstatus2
     \/ /\ At(t, "store2")
        /\ fake_inportstatus2' = (fake_inportstatus2 \ Lines(Now(t).a)) \cup Now(t).b
        /\ UNCHANGED fake_inportstatus1
  /\ Proceed(t, <<>>)
  /\ UNCHANGED <<records, relays, sw, inportstatus, msg_queue, glob>>

\* A full queue drops the command.  The command that fills it is stored at
\* msg_queue[MSG_QUEUE_SIZE], one past the array: the compiler's padding holds it.
Enqueue(cmd) == IF Len(msg_queue) < MSG_QUEUE_SIZE THEN Append(msg_queue, cmd)
                                                   ELSE msg_queue

add_msg_queue(t) ==
  /\ At(t, "msg")
  /\ msg_queue' = Enqueue(Now(t).a)
  /\ Proceed(t, <<>>)
  /\ UNCHANGED <<records, relays, inputVars, glob>>

AssignGlobal(t) ==
  /\ At(t, "assign")
  /\ glob' = [glob EXCEPT ![Now(t).a] = Now(t).b]
  /\ Proceed(t, <<>>)
  /\ UNCHANGED <<records, relays, inputVars, msg_queue>>

--------------------------------------------------------------------------------
(* The two monitors *)

\* The lines of a bank that differ between two readings.
Mask(bank, now, old) == {l \in Lines(bank) : (l \in now) # (l \in old)}

\* mask > 0x80: line 7 together with any other
BadMask(mask) == Cardinality(mask) > 1 /\ \E l \in mask : l % 8 = 7

\* mask2int takes the highest changed line; the others are forgotten.
Served(bank, mask) == Translate(bank, Max(mask) - 8 * bank)
OnOff(mask, now)   == IF mask \subseteq now THEN 1 ELSE 0

Polls(t, bank, mask) ==
  /\ Idle(t) /\ CanRun(t) /\ glob.shutdown_all = 0
  /\ mask # {} /\ ~BadMask(mask)

monitor_input_task(bank) ==
  LET mask == Mask(bank, sw, inportstatus)
  IN  /\ Polls("inputs", bank, mask)
      /\ code' = [code EXCEPT !["inputs"] =
                    ServeInput(Served(bank, mask), OnOff(mask, sw))
                    \o <<Op("status", bank, sw \cap Lines(bank))>>]
      /\ UNCHANGED <<records, otp, relays, inputVars, msg_queue, glob>>

monitor_fake_input_task(bank) ==
  LET mask == Mask(bank, fake_inportstatus2, fake_inportstatus1)
  IN  /\ Polls("fake", bank, mask)
      /\ code' = [code EXCEPT !["fake"] =
                    ServeInput(Served(bank, mask), OnOff(mask, fake_inportstatus2))
                    \o <<Op("status_fake", bank, 0)>>]
      /\ fake_inportstatus2' = IF mask \subseteq fake_inportstatus2
                               THEN fake_inportstatus2
                               ELSE fake_inportstatus2 \ mask
      /\ UNCHANGED <<records, otp, relays, sw, inportstatus, fake_inportstatus1,
                     msg_queue, glob>>

\* The store at the end of the loop body: the change counts as served.
StoreStatus(t) ==
  /\ \/ /\ At(t, "status")
        /\ inportstatus' = (inportstatus \ Lines(Now(t).a)) \cup Now(t).b
        /\ UNCHANGED fake_inportstatus1
     \/ /\ At(t, "status_fake")
        /\ fake_inportstatus1' = (fake_inportstatus1 \ Lines(Now(t).a))
                                 \cup (fake_inportstatus2 \cap Lines(Now(t).a))
        /\ UNCHANGED inportstatus
  /\ Proceed(t, <<>>)
  /\ UNCHANGED <<records, relays, sw, fake_inportstatus2, msg_queue, glob>>

\* No monitor has a change left that it would serve.
Settled ==
  \A b \in Bank :
    /\ LET m == Mask(b, sw, inportstatus) IN m = {} \/ BadMask(m)
    /\ LET m == Mask(b, fake_inportstatus2, fake_inportstatus1) IN m = {} \/ BadMask(m)

\* A sleep of 10 ms or more ends after the monitors have polled, while they do.
LongSleepEnds ==
  Timely /\ glob.shutdown_all = 0 => Settled /\ Idle("inputs") /\ Idle("fake")

\* A second is longer than it takes to execute what the threads queued before.
SecondEnds ==
  LongSleepEnds /\ (Timely /\ glob.shutdown_all = 0 => Len(msg_queue) <= HostBacklog)

--------------------------------------------------------------------------------
(* The timer *)

\* uSleep(1,0) ends: the body of the loop, up to the test of shutdown_all
timer_task ==
  /\ Idle("timer") /\ CanRun("timer") /\ SecondEnds
  /\ code' = [code EXCEPT !["timer"] =
        (IF glob.engine_running = 1
           THEN <<Sleep, Op("run_time", 0, 0)>> ELSE <<Op("countdown", 0, 0)>>)
        \o <<Op("blinkers", 0, 0)>> \o TimerPass \o <<Op("loop", 0, 0)>>]
  /\ UNCHANGED <<records, otp, relays, inputVars, msg_queue, glob>>

\* One more second of engine time; at LIGHTS_ON_AT the lights are asked for.
RunTime ==
  /\ At("timer", "run_time")
  /\ LET now == (glob.run_time + 1) % HOUR
     IN  /\ glob' = [glob EXCEPT !.run_time = now]
         /\ Proceed("timer", IF now = LIGHTS_ON_AT THEN LightsOn ELSE <<>>)
  /\ UNCHANGED <<records, relays, inputVars, msg_queue>>

Countdown ==
  /\ At("timer", "countdown")
  /\ LET left == glob.lights_on_countdown
     IN  /\ glob' = [glob EXCEPT !.run_time = 0,
                                 !.lights_on_countdown = IF left > 0 THEN left - 1 ELSE 0]
         /\ Proceed("timer", IF left = 1 THEN LightsOff ELSE <<>>)
  /\ UNCHANGED <<records, relays, inputVars, msg_queue>>

EndBlinkerTests ==
  /\ At("timer", "blinkers")
  /\ Proceed("timer",
       (IF glob.test_lblinkers > 0
          THEN EndBlinkerTest("test_lblinkers", LEFTBLINKER_INPUT) ELSE <<>>)
       \o (IF glob.test_rblinkers > 0
             THEN EndBlinkerTest("test_rblinkers", RIGHTBLINKER_INPUT) ELSE <<>>))
  /\ UNCHANGED <<records, relays, inputVars, msg_queue, glob>>

\* if((otp->type == 2 || otp->type == 3) && otp->reset == 1)
TestTimed ==
  /\ At("timer", "timed")
  /\ Proceed("timer", IF Cfg("timer").type \in {2, 3} /\ Rec("timer").reset = 1
                      THEN TimedOutput(Now("timer").a, Cfg("timer")) ELSE <<>>)
  /\ UNCHANGED <<records, relays, inputVars, msg_queue, glob>>

\* otp->time_left-- on a UINT, and the test for 0
Count ==
  /\ At("timer", "count")
  /\ LET left == IF Rec("timer").time_left = 0 THEN UINT_MAX ELSE Rec("timer").time_left - 1
     IN  /\ heap' = [heap EXCEPT ![otp["timer"]].time_left = left]
         /\ Proceed("timer", IF left = 0 THEN TimeIsUp(Now("timer").a, Cfg("timer")) ELSE <<>>)
  /\ UNCHANGED <<list, relays, inputVars, msg_queue, glob>>

TimerLoop ==
  /\ At("timer", "loop")
  /\ Proceed("timer", IF glob.shutdown_all = 1 THEN <<Exit>> ELSE <<>>)
  /\ UNCHANGED <<records, relays, inputVars, msg_queue, glob>>

--------------------------------------------------------------------------------
(* The controls thread *)

\* get_msg_queue takes the newest command; 10 ms later the switch runs its handler.
basic_controls_task ==
  /\ Idle("controls") /\ CanRun("controls")
  /\ glob.shutdown_all = 0
  /\ msg_queue # <<>>
  /\ code' = [code EXCEPT !["controls"] = <<Sleep>> \o Program(Last(msg_queue))]
  /\ msg_queue' = Front(msg_queue)
  /\ UNCHANGED <<records, otp, relays, inputVars, glob>>

\* Mutant: the wait loop does not look at shutdown_all.
Return_Timer(t) ==
  /\ t \in {"inputs", "fake"}
  /\ Idle(t) /\ CanRun(t) /\ glob.shutdown_all = 1
  /\ code' = [code EXCEPT ![t] = <<Exit>>]
  /\ UNCHANGED <<records, otp, relays, inputVars, msg_queue, glob>>

\* The monitors and the controls thread see shutdown_all when their sleep ends.
Return(t) ==
  /\ t \in {"inputs", "fake", "controls"}
  /\ Idle(t) /\ CanRun(t) /\ glob.shutdown_all = 1
  /\ code' = [code EXCEPT ![t] = <<Exit>>]
  /\ UNCHANGED <<records, otp, relays, inputVars, msg_queue, glob>>

Wake(t) ==
  /\ At(t, "sleep")
  /\ t = "controls" => LongSleepEnds
  /\ Proceed(t, <<>>)
  /\ UNCHANGED <<records, relays, inputVars, msg_queue, glob>>

--------------------------------------------------------------------------------
(* The rest of the truck *)

\* The other threads share the priority of the controls thread.
HostRuns == \A t \in Threads : Busy(t) => Preempt /\ t = "controls"

\* get_host_cmd_task ends the program by itself, whatever the four threads are at.
ExitProgram ==
  /\ HostRuns /\ "EXIT_PROGRAM" \in Commands
  /\ glob.shutdown_all = 0
  /\ glob' = [glob EXCEPT !.shutdown_all = 1]
  /\ UNCHANGED <<records, otp, code, relays, inputVars, msg_queue>>

\* get_host_cmd_task or serial_recv_task calls add_msg_queue.
Command(cmd) ==
  /\ HostRuns /\ cmd # "EXIT_PROGRAM"
  /\ Len(msg_queue) < HostBacklog
  /\ msg_queue' = Enqueue(cmd)
  /\ UNCHANGED <<records, otp, code, relays, inputVars, glob>>

\* The driver moves some switches between two polls.
Dash(S) ==
  /\ S # {} /\ Idle("inputs") /\ CanRun("inputs")
  /\ sw' = {l \in sw \cup {Line(i) : i \in S} : (l \in sw) # (l \in {Line(i) : i \in S})}
  /\ UNCHANGED <<records, otp, code, relays, inportstatus, fakeVars, msg_queue, glob>>

--------------------------------------------------------------------------------

Step(t) ==
  \/ ollist_find_data(t) \/ ollist_insert_data(t) \/ EvalPort(t) \/ WriteField(t)
  \/ IfResetIsZero(t) \/ set_output(t) \/ change_output(t) \/ change_input(t)
  \/ ClearFakeInput(t) \/ StoreFake(t) \/ add_msg_queue(t) \/ AssignGlobal(t)
  \/ StoreStatus(t) \/ Wake(t) \/ Return(t)

TimerStep ==
  timer_task \/ RunTime \/ Countdown \/ EndBlinkerTests \/ TestTimed \/ Count \/ TimerLoop

Polling(t) ==
  \E b \in Bank : \/ t = "inputs" /\ monitor_input_task(b)
                  \/ t = "fake" /\ monitor_fake_input_task(b)

\* Whatever thread t does next.
Run(t) ==
  \/ Step(t)
  \/ Polling(t)
  \/ t = "timer" /\ TimerStep
  \/ t = "controls" /\ basic_controls_task

Next ==
  \/ \E t \in Threads : Run(t)
  \/ \E cmd \in Commands : Command(cmd)
  \/ ExitProgram
  \/ \E S \in SUBSET Switches : Dash(S)

Spec == Init /\ [][Next]_vars

(* The kernel runs a thread that is ready again and again: every handler is  *)
(* finite and ends in a sleep, so the higher priorities leave the processor  *)
(* again and again, and a sleep ends by the clock.  The driver and the host  *)
(* owe nothing.                                                              *)
Fairness == \A t \in Threads : SF_vars(Run(t))

FairSpec == Spec /\ Fairness

--------------------------------------------------------------------------------
(* Properties *)

Node(p) == heap[list[p]]
OfType(T) == {p \in Output : odata[p].type \in T}

(* Type invariant: pointers are chunks, and a record never leaves the values *)
(* its handlers give it (time_left counts down to 0 and does not wrap).      *)
TypeOK ==
  /\ heap \in [Chunk -> [port : Output, onoff : {0, 1}, reset : {0, 1, 3}, time_left : 0..255]]
  /\ list \in [Output -> Chunk]
  /\ otp \in [Threads -> Chunk \cup {NULL}]
  /\ relays \subseteq Output
  /\ glob.lights_on_countdown \in 0..actual_lights_on_delay
  /\ glob.run_time \in 0..(HOUR - 1)

(* Node p holds the record of output p: a handler that finds output p        *)
(* switches output p.                                                        *)
RecordsInPlace == \A p \in Output : Node(p).port = p

(* An output locked out by the E-Stop (reset not 0) is off whenever all      *)
(* threads sleep, so the engine cannot run with the E-Stop in force.         *)
LockoutHolds ==
  Quiet => \A p \in OfType({4}) : Node(p).reset # 0 => p \notin relays

(* Whenever all threads sleep, the relay of a timed output is on exactly     *)
(* while its record is counting, with time left and no more than time_delay. *)
TimedRelaysMatch ==
  Quiet => \A p \in OfType({2}) :
             /\ p \in relays <=> Node(p).reset = 1
             /\ Node(p).reset = 1 => Node(p).time_left \in 1..odata[p].time_delay

\* All threads are at the top of their loops and no change is left to serve.
AtRest == Settled /\ \A t \in Threads : Idle(t)

(* The fan and the running lights are only ever switched through their       *)
(* inputs, and no timed output shares a line number with those.  Where the   *)
(* dash has no switch for the line, the record, the relay and the software   *)
(* input agree once all that was sent has been served.  Not so with the      *)
(* commands TEST_LEFT_BLINKER and TEST_RIGHT_BLINKER: the timer then clears  *)
(* the line of the blinkers after a sleep of its own (a microsecond with the *)
(* engine running), when a command of the controls thread may still wait for *)
(* the monitor; the monitor sees both lines at once, serves the higher and   *)
(* forgets the lower.                                                        *)
InputDrivenInStep ==
  AtRest => \A p \in {q \in Output \cap {COOLINGFAN, RUNNINGLIGHTS} :
                         odata[q].input_port \notin Switches} :
              /\ (Node(p).onoff = 1) <=> (p \in relays)
              /\ (p \in relays) <=> (Line(odata[p].input_port) \in fake_inportstatus1)

(* While sched runs, every timed period ends, where threads are switched at  *)
(* their sleeps: several outputs of one input count at once, every edge and  *)
(* every end of a period moves their records to other chunks, and the timer  *)
(* sleeps in the middle of its pass; yet the relay of a timed or blinking    *)
(* output goes off and its record is ready for the next edge.                *)
TimedOutputsEndWhileUp ==
  \A p \in OfType({2, 3}) :
    (p \in relays \/ Node(p).reset = 1)
      ~> ((p \notin relays /\ Node(p).reset = 0) \/ glob.shutdown_all = 1)

(* Each START_SEQ the controls thread executes makes an edge for the starter: *)
(* of the two changes of the software input, 10 ms apart, the monitor has     *)
(* taken note of the first when the second is made, though the time-out of an *)
(* earlier period leaves the input on and the next START_SEQ finds it so.     *)
StartSeqIsSeen ==
  ~Idle("controls") /\ Now("controls") = Assign("engine_running", 1) =>
    Line(STARTER_INPUT) \in fake_inportstatus2 \ fake_inportstatus1

(* Once a command or the host has set shutdown_all, in the middle of a       *)
(* handler or not, every task returns: the pthread_join calls come back.     *)
AllTasksReturn ==
  (glob.shutdown_all = 1) ~> (\A t \in Threads : code[t] = <<Exit>>)

\* From some point on nobody sends commands.
CommandsStop == <>[][~\E cmd \in Commands : Command(cmd)]_vars

(* After SHUTDOWN the countdown runs out and each light is switched off,     *)
(* unless the engine is started again first.                                 *)
LightsGoOut ==
  CommandsStop =>
    \A p \in Output \cap {LHEADLAMP, RHEADLAMP, RUNNINGLIGHTS} :
      (glob.lights_on_countdown > 0) ~> (p \notin relays \/ glob.engine_running = 1)

(* io_box.txt: "when the E-Stop switch is pressed it will turn then off".    *)
(* Once the monitors have nothing left to serve, the position of the E-Stop  *)
(* switch is the one they have acted on.                                     *)
EStopIsServed ==
  Settled => ((Line(ESTOP_INPUT) \in sw) <=> (Line(ESTOP_INPUT) \in inportstatus))
================================================================================
