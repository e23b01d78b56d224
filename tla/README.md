# A TLA+ development of the truck's I/O box

The repository holds the software of a truck whose switches, lamps, ignition,
fuel pump and starter are run by a TS-7200 single-board computer ("I/O box",
`thread_io/`), an STM32 with FPGA and displays ("main box"), and a client that
talks to the I/O box over TCP. The program that matters most is `sched`, the
multi-threaded process on the TS-7200: it alone switches relays. The modules
here model its core, its life from boot to exit and upload, the serial line to
the STM32 and the tasks at the line's other end.

## The system

| part | state | operations | talks to |
|---|---|---|---|
| `sched.c` main | the threads, their scheduling class and priority | create, barrier, join, cancel, `close_mem`, exit code | everything |
| monitors (`monitor_input_task`, `monitor_fake_input_task`) | `inportstatus`, `fake_inportstatus1/2` | poll six banks every 5 ms, call `set_output` for every output assigned to the changed input | record list, relay cards |
| timer (`timer_task`) | `running_*`, `lights_on_countdown`, blinker tests | once a second: engine time, lights countdown, timed and blinking outputs | record list, relay cards, command queue |
| controls (`basic_controls_task`) | the globals, `shutdown_all`, `reboot_on_exit` | one handler per command | all of the above |
| command queue | `msg_queue`, `msg_queue_ptr` | `add_msg_queue` (drop when full), `get_msg_queue` (newest first) | host, serial, timer, monitors to controls |
| record list (`queue/ollist_threads_rw.c`) | a sorted list of `O_DATA` on the heap | `ollist_find_data` (returns the pointer), `ollist_insert_data` (copies, frees the old record) | reader/writer lock |
| reader/writer lock (`queue/rdwr.c`) | two counters, a mutex, one condition variable | rlock, runlock, wlock, wunlock | pthreads |
| relay cards (`ioports.c`) | shadow bytes `outportstatus`, card registers | read-modify-write under `io_mem_lock` | hardware |
| host commands and TCP (`cmd_tasks.c`, `tcp_monitor_task`) | `sock_open`, `global_socket`, `tcp_write_lock` | accept, receive and dispatch, send from any thread, `close_tcp` | client, queue |
| parameters (`config_file.c`) | `ps`, `param.conf` | `LoadParams` at start, `WriteParams` on a command and at exit | start-up script |
| start-up script (`mingetty/try_sched.sh`), `test_tcp/server.c`, `show_params.c` | the files `sched`, `sched2`, `root/sched`, `param.conf` | start, act on the exit code, receive, test, install | `sched` |
| serial link (`serial_io.c`, `send_serialother`, `StartRecv7200`) | `serial_write_lock`, the UART, a receive buffer | frames of a command and parameters, no start mark | STM32 |
| STM32 (`STM32/Src/freertos.c`) | four queues of ten, `server_up`, `engine_on`, `fan_on`, the alarm | keypad, temperatures, FPGA frames, commands of the TS-7200 | both ends |
| FPGA, AVR, XMEGA, C# tools | | | |

What is hard about it: nine threads of three priorities share records through
pointers that outlive the lock; the monitors see edges, not levels, so state
that gets out of step stays so; a relay register cannot be read back; commands
are executed newest first; the E-Stop has to win against handlers that sleep in
their middle; one socket is shared by all threads and closed by any of them;
the program ends through a flag, nine joins and two cancellations; the power
goes whenever the ignition does, also in the middle of an upload; the serial
line has nothing that marks the beginning of a frame; the STM32 drops what does
not fit into its queues. `PROJECT.json` lists these hazards at their lines.

## The modules

| module | what it is |
|---|---|
| `RWLockSpec` | abstract: what a reader/writer lock promises |
| `RdWrLock`, `RdWrLockProofs` | `rdwr.c`, one action per pthread call; implements `RWLockSpec` |
| `RealBanks` | the two numberings of inputs and outputs, `real_banks` and the loop that inverts it |
| `RelayPanel` | abstract: relays that are switched in one step, and what a restart costs |
| `RelayBank`, `RelayBankProofs` | `change_output` and `OutPortA..F`, step by step, with restarts; implements `RelayPanel` |
| `Wiring` | the enums of `mytypes.h` |
| `Handlers` | every handler of `tasks.c` as a sequence of steps |
| `HandlerOutlines` | proof outlines: what a handler knows of its record before each step, and that every handler has one; errands: the handlers that leave a given output alone |
| `OutputControl`, `OutputControlProofs` | the four threads that execute them: monitors, timer, controls |
| `MCOutputControl` | the constants of its runs, after `odata.csv` |
| `SchedLife`, `SchedLifeProofs` | `sched` from `pthread_create` to main's return: barrier, client, shared socket, end commands, joins, cancellation |
| `TrySched`, `TrySchedProofs` | the script that starts `sched`, uploads of programs and parameters, `param.conf`, crashes and power cuts |
| `SerialLink`, `SerialLinkProofs` | a command's way from `send_serialother` through the UART to `StartRecv7200` |
| `Stm32`, `Stm32Proofs` | the tasks of the main box and the queues between them |

`OutputControl` composes the modules above it: a lookup or insert is one step
there because `RdWrLock` shows the lock excludes, and `change_output` is one step
because `RelayBank` implements the one-step `RelayPanel`. The other four meet at
narrow interfaces: `SchedLife` ends with the exit code `TrySched` acts on, and
`ExitCodeIsOfCommand` is why `TrySched` may take the code as the command's;
`SerialLink` delivers the commands that `Stm32` receives in any order and
number; and the commands `SchedLife` queues for `basic_controls_task` are those
of `OutputControl`, reduced to the ones that end the program.

### How state and steps correspond to the code

**OutputControl**

* *Records.* `list[p]` is the `datap` of node `p`, `heap[c]` the record in
  chunk `c`, freed ones included, `otp[t]` the local pointer of thread `t`.
  `malloc` returns any chunk no node owns; a freed chunk keeps its contents
  until it is handed out again (the allocator's links overwrite the label, not
  the fields modelled). Only the fields that change are in the heap; `odata`
  holds those that do not (input, polarity, type, delay).
* *Handlers.* `code[t]` is what a thread still has to do, as steps of
  `Handlers`. A step is one access to something shared: a field of the record, a
  relay, an input byte, the queue, a global. `set_output` and the `if`s put the
  branch they take in front. `otp->port` as the argument of an insert is read in
  a step of its own (`EvalPort`), because the lock is taken after it.
  `fake_inportstatus2[bank] |= mask` is a load and a store. A loop over the
  outputs (`ForOutputs`) is laid out as its forty rounds, of which those of an
  output that is not concerned are empty.
* *Edges.* A bank is the set of its lines that are 1. `BadMask`, `Served`
  (the highest changed line wins) and `OnOff` are the monitors' arithmetic.
* *Sleeps.* A sleep is a step others may run in. The controls thread sleeps
  10 ms between fetching a command and executing it.
* *Left out.* Messages to the LCD, the STM32 and the client, text, and
  outputs that an instance does not use.

**SchedLife**

* `pc[t]` is where a thread is: in `work_routine`, in its loop, in a blocking
  call (`recv`, `accept`, `send`), or between two assignments of `close_tcp` or
  of an end command. `timer` stands for all tasks that only look at
  `shutdown_all` and are joined between the host and `SERIAL_RECV`.
* The socket is `sock_open`, `global_socket` and the open descriptors `fds`;
  `peer[c]` is what the client has done with connection `c`. `close_tcp` is
  three steps, as it has no lock. `send()` on a closed descriptor fails, on a
  connection the client has left it fails, vanishes, or raises SIGPIPE, which
  ends the process with 141. The host sends, too, while it handles a command
  (`GET_TIME`, `SET_PARAMS`, ...: an alternative of `RecvCommand`).
* `Cancel` ends a cancelled thread in a call that blocks, whatever it holds:
  pthread's deferred cancellation, and no cleanup handler in the code.
* *Left out.* What the threads do while the program runs (`OutputControl`),
  the bytes of a message, LCD and LEDs.

**TrySched**

* `pc` is the line of the script or the program that runs in its place; a
  file's content is one of six kinds (`none`, `empty`, `prog`, `params`, `torn`,
  `blank`); `exec` is the execute permission, which `mv` carries along and
  `chmod +x` gives. `mv` is one rename on one file system; `mv` and `chmod` are
  two steps. A user's copy of a program (`BeginCopy`, `EndCopy`) takes time and may
  be cut short by a reboot or the power, or be installed while it goes on; the
  file may or may not have the permission. Nobody is assumed to ask for an
  upload, or for `sched2` to be run, while copying that very file. Which test accepts what (`./sched2 test 1`,
  `./show_params 1`) follows from what each program reads of the file.
* A crash of `sched` and a power cut fall between any two steps. What has been
  written survives a power cut; a file that is open for writing is what its
  steps have left.
* `cut`, `spoiled`, `missed` and `unmarked` are history: they name the cases in which the
  code does lose a program or the parameters, so that the properties can
  say that there are no others.

**SerialLink**

* A byte is the triple sender, frame, place in the frame. `rx` is the HAL's
  count of received bytes, `DR` and `ORE` the UART's data register and overrun
  flag. `Receive_IT` is `HAL_UART_Receive_IT`, which does nothing while a
  reception is in progress and, if a byte has overrun the register, ends after
  one byte. `Read` is what `StartRecv7200` does with the buffer, complete
  or not. The buffer is a local array nobody initialises (the `memset` at
  `freertos.c:754` is commented out): each byte starts as zero or as `Junk`,
  something that is no known command. The task's stack comes out of FreeRTOS's
  zeroed static heap, so a command by accident is not to be expected there.
  `PollBusy` is a round that found the HAL locked by a transmission.
* `crowded` is history: a byte has come while nothing was ready to take it, or
  the next command while the last one was being executed.

**Stm32**

* The queues whose contents no property tells apart are their lengths
  (`keypressed`, `Send7200`); `SendFPGA` is the sequence of tone and setting
  messages. Every send has a time-out of 0 in the code and drops what does not
  fit (`Plus1`, `TellFPGA`); two sends in a row are two steps. A step goes from one delay or queue operation to the
  next, so the 100 ms between alarm and message, and the 20 ms of a beep, are
  places at which every other task may run.
* `raw_data` is the temperature read, as the set of those of the three tests
  (`engine_temp_limit`, `fan_on_temp`, `fan_off_temp`) that hold for it. All three
  are set by the TS-7200 and nothing orders them, so `Temp` may contain readings
  for which none holds, or several; `Recv7200` accepts any command at any time.

### Scheduling: two constants of `OutputControl`

`sched.c` gives the monitors `SCHED_FIFO` at the maximum, the timers
`SCHED_RR` in the middle and the others `SCHED_RR` at the minimum, on a
single-core ARM9. `CanRun` follows it:

* `Preempt = FALSE`: a thread runs from one sleep to the next.
* `Preempt = TRUE`: a higher priority may cut in between any two steps. Two
  threads of the top priority never interrupt each other.

`Timely = TRUE` says the clocks relate as their sleeps do: the 5 ms polls have
seen a change before a sleep of 10 ms or more ends, and a second is enough to
execute what the timer queued in the one before. With `FALSE` any sleep may
outlast any other.

The other modules let any thread run at any step.

## The runs

| run | instance | shows |
|---|---|---|
| `rdwr_lock` | 3 threads, spurious wakeups | exclusion, exact counters, no lost wakeup, somebody is always served, refinement |
| `relay_bank` | 2 threads, outputs 0, 4, 16, 20 (same bank, other bank, other card), restart anywhere | the shadow is the truth, exact numbering, refinement, the lock comes back |
| `estop` | starter, ignition, fuel pump; E-Stop switch; four commands | lock-out, timed relay and record agree, records in place, both edges of `START_SEQ` seen |
| `lights` | a headlamp and the running lights; start and shutdown; switched at sleeps | record, relay and software input of the running lights agree at rest; the lights go out |
| `timed` | outputs 8, 10, 14 of the left blinker's input; dash switch, blinker test, program end; switched at sleeps | every timed period ends; every task returns |
| `sched_life` | five kinds of task, one client that comes and goes, one end command | exit code, cards mapped while in use, `shutdown_all` final, the program ends |
| `try_sched` | all files, all contents, all exit codes, power cuts anywhere | what is started is a program and executable, the parameters survive, an upload leads back to `sched` |
| `serial_link` | 2 senders with 2 frames of 3 bytes | frames whole, commands in order and each handled |
| `stm32` | queues of 1; readings for which only the fan's lower limit, or all three limits hold | queues bounded, tones end, quiet after `SERVER_DOWN`, the temperature is watched |
| `estop_race` | as `estop`, preemption | *violated*: relay on although locked out |
| `two_switches` | E-Stop and another switch of its bank | *violated*: the press is ignored |
| `timed_race` | outputs 8 and 14 on one input, preemption | *violated*: a node gets another output's record, a relay is on and nothing counts its time |

The violated ones are disagreements between what the code does and what a
comment or document of the repository says; `findings` in `PROJECT.json` quotes
both and names the line. `LockoutHolds` holds when threads are switched only at
their sleeps, for every instance (see below), and fails under preemption: theorem
and run together show exactly what the handlers rely on. `TimedOutputsEndWhileUp`
is in the same position, with runs on both sides: `timed` has as many outputs on
one input as `odata.csv` and passes without preemption, `timed_race` fails with
it. On the way there `RecordsInPlace`, proved without preemption, fails too: a
handler's pointer outlives the read lock, a monitor that preempts it frees the
record and gets the chunk back for another output, and the handler inserts it
under the index of its own. In the end the node of output 8 holds a record
labelled 14 and the record of 14 has `reset` 0, so that the timer does not count
while relay 14 is on.

**Exceptions the properties name.** Several properties hold but for cases that
are in the code and that a reader should know of:

* `SchedIsAProgram`: `try_sched.sh:10-14` installs any `sched2` it finds at boot,
  so after a power cut during an upload an untested file becomes `sched`, and so
  does a user's copy that was not finished (`cut`);
  and `./sched2 test 1` runs the program, which a torn one may survive (`missed`):
  `server.c:348` writes chunks at full length whatever `recv` has returned, so
  the size is right.
* `SchedCanBeExecuted`: a power cut between `mv` and `chmod +x` (6/7, 12/13, 53/54)
  leaves a `sched` without its permission, and since the file it came from is
  gone the next boot does not mend it; line 87 has no `chmod` at all (`unmarked`).
* `ParamConfHoldsParameters`: `config_file.c:237` truncates `param.conf` before
  it writes it (`spoiled`). The next `sched` loads zeros from the torn file and,
  at its exit, saves them well-formed.
* `ShutdownEnds`: `sched` hangs in two ways. `pthread_cancel` (`sched.c:228`) may
  end a thread inside `send()` with `tcp_write_lock` (`LockOrphaned`); and
  `tcp_monitor_task`'s second return (`tasks.c:2149`) leaves `sock_open` at 1, so
  that the host, which looks at `shutdown_all` only between connections, never
  ends (`SocketLeftOpen`).
* `CommandsInOrder`, `CommandIsHandled`: a frame that comes within 50 ms of
  another, or while a command is executed, is lost or read out of step
  (`crowded`); nothing in `send_serialother` keeps that distance.
* `TonesEnd`, `TemperatureIsWatched`: unless a message did not fit into
  `SendFPGA` (`tone_lost`).

**Not exceptions but facts**, met while modelling:

* After a restart of `sched` the shadow bytes are zero while the relays keep
  their state, so the first relay switched in a bank drops its neighbours
  (`ioports.c:97-100`; `RelayPanel!Switch`).
* The time-out of a timed output clears the software input that has the
  *output's* number (`tasks.c:977`), where the comment at 971 announces that the
  input that switched it on is reset. STARTER (output 0, input 5) clears
  HEADLAMP_INPUT's line and leaves STARTER_INPUT on; that the next `START_SEQ`
  still makes an edge is what its own change to 0, 10 ms before, is good for
  (`StartSeqIsSeen`). The time-out of output 8 clears BRAKE_INPUT's line.
* The timer returns with a timed relay on when the program ends (`tasks.c:784`).
* An E-Stop in the 110 ms between `START_SEQ`'s ignition and its starter edge
  (`tasks.c:2630`) locks ignition and fuel pump out; the starter then cranks all
  the same and `engine_running` is set. No document says what should happen.
* `add_msg_queue` (`tasks.c:2229`) drops a command when the queue is full without
  telling anybody, and the command that fills it is stored at `msg_queue[50]` of
  an array of 50, whose first place is never used. The runs keep the host below
  that (`HostBacklog`), so no property says anything about it.
* A timed output with `time_delay` 0 would count from 0 downwards through
  `UINT_MAX` (`tasks.c:953`); `HandlerAssumption` excludes it.
* A blinker test that ends while a command for the running lights or the fan
  waits to be polled takes that command with it (`tasks.c:919`, `tasks.c:546`;
  see the hypotheses of `InputDrivenStaysInStep` below).
* The branches of `try_sched.sh` for 139 and 141 (lines 96-104) write
  "rebooting" and do not reboot; 141 is what a client that vanishes makes
  of `sched` (`cmd_tasks.c:1343`).
* The STM32 keeps `fan_on` whether its message fitted or not
  (`freertos.c:1534`), and the TS-7200 takes `ON_FAN` and `OFF_FAN` from the
  serial line without acting on them (`tasks.c:1763-1768`).
* The parameters of a command may be torn when a round falls inside its frame
  (`freertos.c:785`): `CommandsInOrder` is about the commands only.

**Bounds.** `OutputControl`: delays are 2 (an even delay takes the extra toggle
of a blinking output; a period has a second in its middle and one at its end),
the hour is 1 or 2 seconds long, the lights countdown 1. `UINT_MAX` stands for
the largest `UINT`: a `time_left` decremented at 0 wraps to it, and `TypeOK`
excludes that. There is one spare chunk: it is the least that lets an insert
succeed, and makes `malloc` return the chunk freed last, as the allocator does
for one size. The host keeps the queue below `HostBacklog` (1), so one command
waits while another is executed and the timer's come on top. `SYMMETRY` permutes
chunks in runs without liveness only. `timed` has three outputs on one input and
four chunks: with one output alone a freed chunk could only come back as the
record of the same output. What `lights` exercises is the byte of messages
between controls, timer and monitor, with two lines of one byte (inputs 0 and 1)
changed by the commands the timer queues for the lights; it has no timed output,
no blinker test and no preemption (the timed outputs and the blinker test are in
`timed`). A torn load and store of the byte needs preemption, where the swapped
records break the same property first, so no run separates it. `AllTasksReturn` is
checked with threads switched at their sleeps: the program may end at each of them.
`SchedLife`: one descriptor (`MaxConn`), given out again after a close, so that
a thread's stale `global_socket` may name the next connection; one end command,
as the exit codes differ in nothing else. `SerialLink`: two senders and two
frames each give every order of four frames; `SERIAL_BUFF_SIZE = 2` leaves a
first, a middle and a last byte. `Stm32`: the shortest queues, so that
each is full soon and often; of the temperatures, the reading that starts and the
one for which all three tests hold. What these bounds leave out, longer queues
and other readings, the theorems about `Stm32` cover for the safety properties.
`TrySched` has no bound.

**Fairness.** `RdWrLock`: a thread inside a lock function goes on, and a
mutex is handed out fairly enough that nobody starves on it alone. `RelayBank`:
a thread that owns the lock goes on. `OutputControl`: strong fairness of each
thread, because every handler is finite and ends in a sleep, so lower
priorities get the processor again and again, and sleeps end by the clock. The
driver and the host have no fairness; `LightsGoOut` asks in its statement that
commands stop at some point. `SchedLife`: every thread that can run does, and a
client that is connected leaves at some time: one that stays and is silent keeps
`get_host_cmd_task` in `recv()` (`cmd_tasks.c:377`), which has no time-out. What
the STM32 sends is not fair: a serial thread without input ends by cancellation
only. `TrySched`: the shell goes on, and whoever has sent `sched` into an upload
connects (the `accept` of `server.c` has no time-out); users, crashes and the
power owe nothing. `SerialLink`: a frame begun is finished, the wire is never
silent with bytes to carry, and the rounds are repeated; that the HAL is
locked is never required. `Stm32`: the timer's callback and the task that empties
`SendFPGA` run; the others owe nothing.

## What is proved

Checked by TLAPS for every value of the constants:

* `RdWrLock`: `LockInvariant`, an inductive invariant that ties the counters to
  the threads at each point, at most one thread in the mutex, and, the part that
  takes work, that a blocked thread always has somebody who will wake it. From it
  follow `TypeCorrect`, `WriterExclusion`, `CountersExact`, `WakeupsKept` and
  `RefinesRWLock`. Assumed: finitely many threads.
* `RelayBank`: `BankInvariant` says the owner of `io_mem_lock` is the only
  thread inside, that its `state` is the shadow with its own line changed, and
  that shadow and register differ only for its bank and only between the two
  stores. From it: `TypeCorrect`, `ShadowTrusted`, `RefinesPanel`. The lemmas
  `BanksTyped` and `BanksInjective` about `real_banks` carry the arithmetic.
  `NumberingExact` adds the monitors' loop, which overwrites the index it
  compares with: `TranslateExact` says that through its forty rounds the index
  stays what it was until the output is found, and is never matched again after.
* `OutputControl` without preemption, for any outputs, any configuration, any
  commands and any choice of `malloc`: `RecordsStayInPlace`, `LockoutAlwaysHolds`,
  `TimedRelaysAlwaysMatch`, `TypeCorrect`, all four from `OneThreadRuns`, and, with
  `Timely`, `InputDrivenStaysInStep`; the arguments are below.
* `SchedLife`, for any number of connections and any end commands: `TypeCorrect`,
  `ShutdownHolds`, `ExitCodeHolds`, `MappedHolds`. Every step is one of main's,
  an arrival at the barrier, a `Move` of one thread or `Still` (`StepForms`).
  The invariant counts the arrivals (`ready` is the number of threads that
  have left `start`), so whoever is past the barrier knows that no
  `work_routine` will clear `shutdown_all` any more (`BarrierHolds`); it says which
  threads main has created and joined (`JoinsHold`), and that
  `reboot_on_exit` lags behind `ended_by` only between
  `basic_controls_task`'s two assignments, when that thread is not yet joined
  (`CodeFollows`).
* `TrySched`: `TypeCorrect`, `SchedStaysAProgram`, `SchedStaysExecutable`,
  `ParametersSurvive`. The
  invariant follows `sched2` through the script: what is about to be installed
  has been tested, and whatever else it holds is named by `cut` or `missed`
  (`ProgramsKept`); what replaces `param.conf` is a file of parameters, and what
  `WriteParams` writes comes from parameters that were loaded from one, unless a
  save was cut short (`ParametersKept`).
* `SerialLink`, for any senders and any length of a frame: `TypeCorrect`,
  `FramesStayWhole` and `CommandsStayInOrder`. For the first two the
  invariant ties the last byte on the line to the place of the sender that holds
  `serial_write_lock` (`EndOfLine`). For the third, sender and receiver are each
  at a position of the stream of frames, and there are functions that give the
  position of every byte between them, each the successor of the one before
  (`OnTheWay`); while nothing is crowded, every step of the UART and of the rounds
  keeps the receiver's position in step with what it has executed. Assumed:
  `SERIAL_BUFF_SIZE > 0`.
* `Stm32`, for any lengths of the queues: `TypeCorrect`, `TonesAreEnded`,
  `QuietOnceDown`. The first of the last two needs that the last message on its
  way that is not a setting is a tone-off whenever nobody has a tone to end
  (`EndsSilent`); the other that only the frame being sent when `SERVER_DOWN`
  came may still end (`LateIsBounded`).

**The proof for `OutputControl`.** The handlers break the properties in their
middle and mend them later: `set_output` marks the record before it switches
the relay, the E-Stop marks it before it writes `onoff`, the timer switches the
relay off while the record still counts. An inductive invariant therefore has
to know where in its handler a thread is, and `code[t]` may be what is left of any
of them. `HandlerOutlines` does what a programmer's proof outline does.
There are eighteen facts a thread can know between two steps (`Kinds`), such as
`Counting(p)`: *otp is the record of p, which is timed, and its reset field is 1*.
`Does` says which step leads from which fact to which, and `Outline(k, s, m)`
that from `k` the steps `s` lead to `m` with a fact for every point between. The
rules follow the way `Handlers` builds its sequences (`OutlineJoin`, `SoundStep`,
`SoundInUse`, `SoundForOutputs`), and with them every handler is `Sound`: it needs
to know nothing and leaves the list in order (`SoundProgram`, `SoundServeInput`,
`SoundTimerPass`, ...). A loop is a recursive function over its forty rounds, and
`FortyRounds` goes through them one by one where one would like to use induction.

`OutputControlProofs` gives the facts their meaning in the state (`Knows`), and
shows step by step that each does to the state what `Does` says (`InsertAdvances`,
`SetOutputAdvances`, `CountAdvances`, ...). Its invariant `IInv` is, besides the
types and `RecordsInPlace`, `OneRuns`: one thread is where its outline says
(`Outlined`), and every other is at a sleep and counts on no more than that its
pointer is a chunk (`Rests`). That is why it holds after whatever the running thread
has done in the meantime: `Wipers`, which sleeps between the lookup of the second
wiper and the use of its result, survives because `set_output` reads the label
of the record it is given and inserts under that. A thread may start to run only
when no other is in the middle (`CanRun`), and by then the one that ran knows
nothing any more, so that the list is in order.

What the first four theorems assume, beside `HandlerAssumption` and
`OutputAssumption`:

* `~Preempt`. With preemption `LockoutHolds` and `RecordsInPlace` are false
  (`estop_race`, `timed_race`), and with the second goes the rest: a record
  under a foreign index is counted with another's delay.
* A delay greater than 0 for a timed output (`HandlerAssumption`): with 0 the
  first `time_left--` wraps. `odata.csv` has 10 or 15 wherever the type is 2 or 3.
* For `TimedRelaysAlwaysMatch`, that neither ignition nor fuel pump is of
  type 2: the controls thread switches these two relays by commands of their own,
  past `set_output` and the timer. In `odata.csv` both are of type 4.

`Timely` is not assumed: these properties do not need a clock.

**`InputDrivenStaysInStep`.** Fan and running lights are switched by a message
through shared memory: the controls thread changes a bit of
`fake_inportstatus2` (`change_input`, a load and a store without a lock), the monitor
finds the difference to `fake_inportstatus1`, switches the relay, and copies the
one byte to the other; the controls thread in the meantime writes the record. The
theorem says that for these outputs none of that gets lost. Three things could
go wrong: another thread touches the record, the relay or the line; a store
puts back an old bit; or two lines of the byte change between two polls, of
which the monitor serves one and forgets the other. The proof treats them in turn.

1. *Errands* (`HandlerOutlines`). `Spares(p, t, s)` says what a step may be
   that has nothing to do with output p, and `Errand(p, t, u)` that all the
   steps of `u` are, in an order that makes sense. Apart from `Drive(p, v)`,
   which is the two commands for p, every handler of every thread is an errand
   (`ProgramSpares`), and the monitor's is one but for its round for p
   (`ServeInputServes`).
2. *One step of an errand* (`StepSpares`, `RunSpares`) leaves the record, the relay
   and both bits of p as they are, and what is left is again an errand. That
   needs to know where the thread's pointer is not (`KeepsOff`): the monitors
   and the controls thread hold the record of another output, the timer looks at
   every record but writes only to timed ones.
3. *The byte* (`Wired`, `Alone`). The line of p belongs to nobody else, the software
   never sets the line of the E-Stop, and while p waits for the monitor no other line of
   its byte differs, unless the timer stands between the two stores of one
   clearing.
4. *Where p is*: `ControlsPart` follows the controls thread through `Drive`,
   `FakePart` the monitor through `set_output` and its copy; `Waited` says that
   the controls thread does not go on from a sleep before the monitor has answered.
   `RunKeepsInStep` puts one step together from these, `NextKeepsInStep` all.

`InStep`, the conjunction of these, is inductive together with `IInv`. Its
hypotheses, beside `~Preempt`:

* `Timely`: the sleeps of 10 ms and more end after the monitors' 5 ms polls. A
  monitor that falls behind sees two changes as one.
* `Driven(p)`, for those of the two outputs whose input has no switch on the
  dash: type 0, polarity 0, an input of its own, and no timed or blinking output
  *of the number of that input*, since the timer clears the line with the output's
  number (`tasks.c:977`). In `odata.csv` all of it holds (inputs 6 and 1; output 6
  has type 0, output 1 type 4). That the dash moves no line but its own is
  `Switches \subseteq Number` in `OutputAssumption`.
* The host sends neither `TEST_LEFT_BLINKER` nor `TEST_RIGHT_BLINKER`. Without this
  the property is false, as the attempt to prove it showed and TLC confirmed, on the
  instance of `lights` with `OFF_RUNNING_LIGHTS` and `TEST_LEFT_BLINKER` among the
  commands. With the engine running, `timer_task` sleeps several times for
  a microsecond inside its second (`uSleep(0,1000)`, `tasks.c:813`). If the controls thread executes
  `ON_RUNNING_LIGHTS` in such a sleep, the timer may come back before the monitor's
  next poll, and end the test with `change_input(LEFTBLINKER_INPUT,0)`
  (`tasks.c:919`). The monitor then finds two lines changed, one on and one
  off, takes them for one change to off, clears both (`tasks.c:546`) and serves
  the blinkers. The running lights stay dark, their record says they are on,
  and their input says they were never asked for. Nothing in the code or its
  documents says that this cannot happen (a TODO, `tasks.c:510`, asks what happens
  if two buttons are pushed), so it is no finding, but it is a command lost.

Only model-checked: all liveness, which is out of the prover's reach.

## What is not modelled, and the plan

Not modelled: the start-up race (the list is loaded after the threads are
released; `OutputControl` starts loaded, and `SchedLife` has no records); the
bytes of a TCP message, so neither the resynchronisation of `get_msg` nor two
messages whose pieces mix; the serial line from the STM32 to the TS-7200 (0xFF
and eight bytes), of which `Stm32` and `SchedLife` keep that something comes;
the parameters of serial commands; the displays, the key scan and the DS1620's
bits, GPS and way points; FPGA, AVR and XMEGA firmware; the C# tools, the home
server and the off-line tools. `PROJECT.json` gives the reason for each. Of FreeRTOS and the HAL
(vendored in `STM32/`) the modules have what the tasks use of them: a send
that does not wait, and the reception by interrupt. Of the commands, the
`OutputControl` runs execute `START_SEQ`, `SHUTDOWN`, `ON_ACC`, `ON_FUEL_PUMP`,
`ENABLE_START`, `ON/OFF_LIGHTS`, those the timer queues, the blinker test and
the program ends; the other entries of `Program` are the same building blocks.

Next, in this order:

1. The records and the monitors' lookups in `SchedLife`, for the start-up race.
2. The TCP stream: `get_msg` and `send_msg` over bytes cut anywhere, with
   several senders.
3. The serial line upwards, composed with `Stm32`'s `Transmit`.
4. Proofs: what of `OutputControl`'s types holds with preemption, where
   `time_left` leaves its delay but no field leaves its byte; and what is left of
   `InputDrivenInStep` with the blinker tests.
