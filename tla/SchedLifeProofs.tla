---------------------------- MODULE SchedLifeProofs ----------------------------
(***************************************************************************)
(* What holds of the start and the end of sched for any number of          *)
(* connections, any set of end commands and any interleaving of its        *)
(* threads, the client's steps and the cancellations.                      *)
(***************************************************************************)
EXTENDS SchedLife, FiniteSetTheorems, TLAPS

(* The threads that have counted themselves at the barrier. *)
Arrived == {t \in Task : pc[t] \notin {"none", "start"}}

(* The types of what the threads and their end are made of. *)
ThreadsTyped ==
  /\ main \in {"create", "join", "close_mem", "exited"} /\ k \in 1..NUM_TASKS
  /\ pc \in [Task -> Places] /\ cancelled \subseteq Task
  /\ shutdown_all \in BOOLEAN /\ reboot_on_exit \in 1..6 /\ exit_code \in (0..6) \cup {141}
  /\ queued \subseteq EndCode /\ ended_by \in EndCode \cup {0} /\ mem \in BOOLEAN

(* Nobody passes the barrier before all have arrived, and nobody is told to   *)
(* end before the host is past the last assignment that clears shutdown_all.  *)
BarrierHolds ==
  /\ ready = Cardinality(Arrived)
  /\ \A t \in Task : pc[t] \notin {"none", "start", "barrier"} => Arrived = Task
  /\ shutdown_all \/ queued # {} =>
       Arrived = Task /\ pc["host"] \notin {"none", "start", "barrier", "load"}

(* The threads not yet created, those joined, and all of them once main has   *)
(* left its loops in the regular way.                                         *)
JoinsHold ==
  /\ main = "create" => \A i \in k..NUM_TASKS : pc[JoinOrder[i]] = "none"
  /\ main = "join" => \A i \in 1..k - 1 : pc[JoinOrder[i]] = "done"
  /\ main = "close_mem" \/ ~mem \/ (main = "exited" /\ exit_code # 141)
       => \A t \in Task : pc[t] = "done"

(* The code in reboot_on_exit is that of the end command begun, except        *)
(* between basic_controls_task's two assignments.                             *)
CodeFollows ==
  /\ \A t \in Task : pc[t] = "end" => t = "controls" /\ ended_by # 0
  /\ ended_by # 0 => pc["controls"] = "end" \/ reboot_on_exit = ended_by
  /\ ExitCodeIsOfCommand

Inv == ThreadsTyped /\ BarrierHolds /\ JoinsHold /\ CodeFollows

--------------------------------------------------------------------------------
(* What a step does to these variables *)

(* What thread t leaves behind when it goes to the place `to'. *)
Leaves(t, to) ==
  \/ /\ UNCHANGED <<shutdown_all, reboot_on_exit, queued, ended_by>>
     /\ pc[t] # "end" /\ to # "end"
  \/ /\ t = "host" /\ pc[t] = "load" /\ to # "end"
     /\ shutdown_all' = FALSE /\ UNCHANGED <<reboot_on_exit, queued, ended_by>>
  \/ /\ t = "host" /\ pc[t] = "recv" /\ to # "end"
     /\ queued' \subseteq EndCode /\ UNCHANGED <<shutdown_all, reboot_on_exit, ended_by>>
  \/ /\ t = "host" /\ pc[t] = "bye" /\ to # "end"
     /\ shutdown_all' = TRUE /\ UNCHANGED <<reboot_on_exit, queued, ended_by>>
  \/ /\ t = "controls" /\ pc[t] = "loop" /\ to = "end"
     /\ queued # {} /\ queued' \subseteq queued /\ ended_by' \in EndCode
     /\ shutdown_all' = TRUE /\ UNCHANGED reboot_on_exit
  \/ /\ t = "controls" /\ pc[t] = "end" /\ to = "done"
     /\ reboot_on_exit' = ended_by /\ UNCHANGED <<shutdown_all, queued, ended_by>>

(* A step of thread t past its arrival. *)
Move(t) ==
  /\ main # "exited"
  /\ \E to \in Places \ {"none", "start", "barrier"} :
       /\ pc[t] \notin {"none", "start", "done"}
       /\ pc' = [pc EXCEPT ![t] = to]
       /\ pc[t] = "barrier" => ready = NUM_TASKS
       /\ to = "load" => pc[t] = "barrier"
       /\ Leaves(t, to)
  /\ UNCHANGED <<main, k, ready, cancelled, exit_code, mem>>

(* A step of the client, the death of the process, or none. *)
Still ==
  /\ \/ UNCHANGED <<main, exit_code>>
     \/ main # "exited" /\ main' = "exited" /\ exit_code' = 141
  /\ UNCHANGED <<k, pc, ready, cancelled, shutdown_all, reboot_on_exit, queued, ended_by, mem>>

(* Where a thread past the barrier can be. *)
LatePlaces == Places \ {"none", "start", "barrier"}

(* A step that leaves the end alone is a move. *)
LEMMA StepMoves ==
  ASSUME NEW t \in Task, NEW from \in Places \ {"none", "start", "done", "end"},
         NEW to \in LatePlaces \ {"end"},
         Step(t, from, to), main # "exited",
         from = "barrier" => ready = NUM_TASKS, to = "load" => from = "barrier",
         UNCHANGED <<shutdown_all, reboot_on_exit, exit_code, queued, ended_by, mem>>
  PROVE  Move(t)
<1>1. Leaves(t, to)
  BY DEF Leaves, Step, Goto
<1>2. pc[t] = from /\ pc' = [pc EXCEPT ![t] = to] /\ UNCHANGED <<main, k, ready, cancelled>>
  BY DEF Step, Goto
<1> QED
  BY <1>1, <1>2 DEF Move, LatePlaces, Places

LEMMA SomeStepMoves ==
  ASSUME NEW t \in Task, main # "exited", UNCHANGED <<ending, mem>>,
         \E from \in {"loop", "put", "sending", "close1", "close2", "close3", "lock", "accept",
                      "accepted", "greeted", "act", "use", "recv"},
            to \in {"loop", "put", "sending", "close1", "close2", "close3", "lock", "accept",
                    "accepted", "greeted", "act", "use", "recv", "done"} : Step(t, from, to)
  PROVE  Move(t)
<1>1. PICK from \in {"loop", "put", "sending", "close1", "close2", "close3", "lock", "accept",
                     "accepted", "greeted", "act", "use", "recv"},
           to \in {"loop", "put", "sending", "close1", "close2", "close3", "lock", "accept",
                   "accepted", "greeted", "act", "use", "recv", "done"} : Step(t, from, to)
  OBVIOUS
<1>2. UNCHANGED <<shutdown_all, reboot_on_exit, exit_code, queued, ended_by, mem>>
  BY DEF ending
<1>3. from \in Places \ {"none", "start", "done", "end"} /\ to \in LatePlaces \ {"end"}
  BY DEF Places, LatePlaces
<1>4. from # "barrier" /\ to # "load"
  OBVIOUS
<1> QED
  BY <1>1, <1>2, <1>3, <1>4, StepMoves

LEMMA SocketMoves ==
  ASSUME NEW t \in Task, Socket(t), main # "exited"
  PROVE  Move(t) \/ Still
<1>0. AfterSend(t) \in {"greeted", "act", "loop"} /\ AfterClose(t) \in {"greeted", "act", "loop", "done"}
  BY DEF AfterSend, AfterClose
<1>1. CASE PutSock(t)
  BY <1>0, <1>1, SomeStepMoves DEF PutSock
<1>2. CASE Send(t)
  BY <1>0, <1>2, SomeStepMoves DEF Send
<1>3. CASE SigPipe(t)
  BY <1>3 DEF SigPipe, Still
<1>4. CASE CloseTcp(t)
  BY <1>0, <1>4, SomeStepMoves DEF CloseTcp
<1> QED
  BY <1>1, <1>2, <1>3, <1>4 DEF Socket

LEMMA HostMoves ==
  ASSUME Host \/ RecvCommand, main # "exited", queued \subseteq EndCode
  PROVE  Move("host") \/ Still
<1>0. "host" \in Task
  BY DEF Task
<1>a. ASSUME NEW from \in {"load", "recv", "bye"}, NEW to \in LatePlaces \ {"load"},
             Step("host", from, to), Leaves("host", to), UNCHANGED <<exit_code, mem>>
      PROVE  Move("host")
  <2>1. pc["host"] = from /\ pc' = [pc EXCEPT !["host"] = to] /\ UNCHANGED <<main, k, ready, cancelled>>
    BY <1>a DEF Step, Goto
  <2> QED
    BY <1>a, <2>1 DEF Move, LatePlaces, Places
<1>1. CASE Load
  <2>1. "loop" \in LatePlaces \ {"load"} /\ Step("host", "load", "loop") /\ UNCHANGED <<exit_code, mem>>
    BY <1>1 DEF Load, LatePlaces, Places
  <2>2. Leaves("host", "loop")
    BY <1>1 DEF Load, Leaves, Step, Goto
  <2> QED
    BY <1>a, <2>1, <2>2
<1>2. CASE HostLoop
  BY <1>0, <1>2, SomeStepMoves DEF HostLoop
<1>3. CASE RecvNothing
  BY <1>0, <1>3, SomeStepMoves DEF RecvNothing
<1>4. CASE ExitProgram
  <2>1. "done" \in LatePlaces \ {"load"} /\ Step("host", "bye", "done") /\ UNCHANGED <<exit_code, mem>>
    BY <1>4 DEF ExitProgram, LatePlaces, Places
  <2>2. Leaves("host", "done")
    BY <1>4 DEF ExitProgram, Leaves, Step, Goto
  <2> QED
    BY <1>a, <2>1, <2>2
<1>5. CASE Socket("host")
  BY <1>0, <1>5, SocketMoves
<1>6. CASE RecvCommand
  <2>1. PICK to \in {"loop", "bye", "close1", "lock"} : Step("host", "recv", to)
    BY <1>6 DEF RecvCommand, SendMsg, AfterSend
  <2>2. queued' \subseteq EndCode /\ UNCHANGED <<shutdown_all, reboot_on_exit, exit_code, ended_by, mem>>
    BY <1>6 DEF RecvCommand
  <2>3. Leaves("host", to)
    BY <2>1, <2>2 DEF Leaves, Step, Goto
  <2>4. to \in LatePlaces \ {"load"}
    BY DEF LatePlaces, Places
  <2> QED
    BY <1>a, <2>1, <2>2, <2>3, <2>4
<1> QED
  BY <1>1, <1>2, <1>3, <1>4, <1>5, <1>6 DEF Host

LEMMA ControlsMoves ==
  ASSUME ControlsGet \/ ControlsEnd, main # "exited", queued \subseteq EndCode
  PROVE  Move("controls")
<1>0. "controls" \in Task
  BY DEF Task
<1>1. CASE SendMsg("controls", "loop") /\ UNCHANGED <<ending, mem>>
  BY <1>0, <1>1, SomeStepMoves DEF SendMsg, AfterSend
<1>2. ASSUME NEW from, NEW to, <<from, to>> \in {<<"loop", "end">>, <<"end", "done">>},
             Step("controls", from, to), Leaves("controls", to), UNCHANGED <<exit_code, mem>>
      PROVE  Move("controls")
  <2>1. pc["controls"] = from /\ pc' = [pc EXCEPT !["controls"] = to]
        /\ UNCHANGED <<main, k, ready, cancelled>>
    BY <1>2 DEF Step, Goto
  <2>2. from \in {"loop", "end"} /\ to \in {"end", "done"}
    BY <1>2
  <2> QED
    BY <1>2, <2>1, <2>2 DEF Move, Places
<1>3. ASSUME NEW c \in queued, Step("controls", "loop", "end"), queued' = queued \ {c},
             ended_by' = c, shutdown_all' = TRUE, UNCHANGED <<reboot_on_exit, exit_code, mem>>
      PROVE  Move("controls")
  <2>1. Leaves("controls", "end")
    BY <1>3 DEF Leaves, Step, Goto
  <2> QED
    BY <1>2, <1>3, <2>1
<1>4. CASE Step("controls", "loop", "done") /\ UNCHANGED <<ending, mem>>
  BY <1>0, <1>4, SomeStepMoves
<1>5. CASE ControlsEnd
  <2>1. Step("controls", "end", "done") /\ UNCHANGED <<exit_code, mem>>
    BY <1>5 DEF ControlsEnd
  <2>2. Leaves("controls", "done")
    BY <1>5 DEF ControlsEnd, Leaves, Step, Goto
  <2> QED
    BY <1>2, <2>1, <2>2
<1> QED
  BY <1>1, <1>3, <1>4, <1>5 DEF ControlsGet, ending

LEMMA TaskMoves ==
  ASSUME NEW t \in Task, main # "exited",
         \/ PassBarrier(t) \/ Cancel(t) \/ LockWrite(t)
         \/ t = "timer" /\ TimerLoop
         \/ t = "serial" /\ SerialLoop
         \/ t = "tcp" /\ (TcpLoop \/ Accept \/ Accepted \/ Greeted)
         \/ t = "controls" /\ ControlsAct
  PROVE  Move(t)
<1>1. CASE PassBarrier(t)
  <2>1. First(t) \in {"load", "loop"}
    BY DEF First
  <2>2. Step(t, "barrier", First(t)) /\ ready = NUM_TASKS
    BY <1>1 DEF PassBarrier
  <2>3. UNCHANGED <<shutdown_all, reboot_on_exit, exit_code, queued, ended_by, mem>>
    BY <1>1 DEF PassBarrier, ending
  <2>4. First(t) \in LatePlaces \ {"end"} /\ "barrier" \in Places \ {"none", "start", "done", "end"}
    BY <2>1 DEF LatePlaces, Places
  <2> QED
    BY <2>2, <2>3, <2>4, StepMoves
<1>2. CASE Cancel(t)
  <2>1. \E from \in {"loop", "accept", "sending", "close2"} : Step(t, from, "done")
    BY <1>2 DEF Cancel, Step, Goto
  <2>2. UNCHANGED <<ending, mem>>
    BY <1>2 DEF Cancel
  <2> QED
    BY <2>1, <2>2, SomeStepMoves
<1>3. CASE LockWrite(t)
  BY <1>3, SomeStepMoves DEF LockWrite
<1>4. CASE t = "timer" /\ TimerLoop
  BY <1>4, SomeStepMoves DEF TimerLoop, SendMsg, AfterSend
<1>5. CASE t = "serial" /\ SerialLoop
  BY <1>5, SomeStepMoves DEF SerialLoop, SendMsg, AfterSend
<1>6. CASE t = "tcp" /\ TcpLoop
  BY <1>6, SomeStepMoves DEF TcpLoop
<1>7. CASE t = "tcp" /\ Accept
  BY <1>7, SomeStepMoves DEF Accept
<1>8. CASE t = "tcp" /\ Accepted
  BY <1>8, SomeStepMoves DEF Accepted
<1>9. CASE t = "tcp" /\ Greeted
  BY <1>9, SomeStepMoves DEF Greeted
<1>12. CASE t = "controls" /\ ControlsAct
  BY <1>12, SomeStepMoves DEF ControlsAct
<1> QED
  BY <1>1, <1>2, <1>3, <1>4, <1>5, <1>6, <1>7, <1>8, <1>9, <1>12

\* Every step is one of main's three, an arrival, a move or none of these.
LEMMA StepForms ==
  ASSUME [Next]_vars, queued \subseteq EndCode
  PROVE  \/ Main \/ Still
         \/ main # "exited" /\ \E t \in Task : Arrive(t)
         \/ \E t \in Task : Move(t)
<1>0. "host" \in Task /\ "timer" \in Task /\ "serial" \in Task /\ "tcp" \in Task /\ "controls" \in Task
  BY DEF Task
<1>1. ASSUME NEW t \in Task, Thread(t)
      PROVE  Still \/ (main # "exited" /\ Arrive(t)) \/ Move(t)
  <2>1. main # "exited"
    BY <1>1 DEF Thread, Running
  <2>2. CASE Socket(t)
    BY <2>1, <2>2, SocketMoves
  <2>3. CASE t = "host" /\ Host
    BY <2>1, <2>3, HostMoves
  <2>4. CASE t = "controls" /\ (ControlsGet \/ ControlsEnd)
    BY <2>1, <2>4, ControlsMoves
  <2> QED
    BY <1>1, <2>1, <2>2, <2>3, <2>4, TaskMoves DEF Thread, Tcp, Controls
<1>2. CASE Running /\ RecvCommand
  BY <1>0, <1>2, HostMoves DEF Running
<1>3. CASE Running /\ (Accept \/ SerialLoop)
  BY <1>0, <1>3, TaskMoves DEF Running
<1>4. CASE \E c \in Conn : ClientConnects(c) \/ ClientCloses(c)
  BY <1>4 DEF ClientConnects, ClientCloses, threads, ending, Still
<1>5. CASE UNCHANGED vars
  BY <1>5 DEF vars, threads, ending, Still
<1> QED
  BY <1>1, <1>2, <1>3, <1>4, <1>5 DEF Next

--------------------------------------------------------------------------------
(* The threads and the order main joins them in *)

LEMMA FiveTasks ==
  /\ NUM_TASKS = 5
  /\ \A i \in 1..NUM_TASKS : JoinOrder[i] \in Task
  /\ \A i, j \in 1..NUM_TASKS : JoinOrder[i] = JoinOrder[j] => i = j
  /\ \A t \in Task : \E i \in 1..NUM_TASKS : t = JoinOrder[i]
<1>1. NUM_TASKS = 5
  BY DEF NUM_TASKS, JoinOrder
<1>2. /\ JoinOrder[1] = "host" /\ JoinOrder[2] = "timer" /\ JoinOrder[3] = "serial"
      /\ JoinOrder[4] = "tcp" /\ JoinOrder[5] = "controls"
  BY DEF JoinOrder
<1>3. \A i \in 1..NUM_TASKS : i = 1 \/ i = 2 \/ i = 3 \/ i = 4 \/ i = 5
  BY <1>1
<1>4. /\ 1 \in 1..NUM_TASKS /\ 2 \in 1..NUM_TASKS /\ 3 \in 1..NUM_TASKS
      /\ 4 \in 1..NUM_TASKS /\ 5 \in 1..NUM_TASKS
  BY <1>1
<1>5. \A i \in 1..NUM_TASKS : JoinOrder[i] \in Task
  BY <1>2, <1>3 DEF Task
<1>6. \A i, j \in 1..NUM_TASKS : JoinOrder[i] = JoinOrder[j] => i = j
  BY <1>2, <1>3
<1>7. \A t \in Task : \E i \in 1..NUM_TASKS : t = JoinOrder[i]
  BY <1>2, <1>4 DEF Task
<1> QED
  BY <1>1, <1>5, <1>6, <1>7

LEMMA TaskCount == IsFiniteSet(Task) /\ Cardinality(Task) = NUM_TASKS
<1>1. IsFiniteSet({}) /\ Cardinality({}) = 0
  BY FS_EmptySet
<1>2. IsFiniteSet({"host"}) /\ Cardinality({"host"}) = 1
  BY FS_Singleton
<1>3. IsFiniteSet({"host"} \cup {"timer"}) /\ Cardinality({"host"} \cup {"timer"}) = 2
  BY <1>2, FS_AddElement
<1>4. /\ IsFiniteSet({"host"} \cup {"timer"} \cup {"serial"})
      /\ Cardinality({"host"} \cup {"timer"} \cup {"serial"}) = 3
  BY <1>3, FS_AddElement
<1>5. /\ IsFiniteSet({"host"} \cup {"timer"} \cup {"serial"} \cup {"tcp"})
      /\ Cardinality({"host"} \cup {"timer"} \cup {"serial"} \cup {"tcp"}) = 4
  BY <1>4, FS_AddElement
<1>6. /\ IsFiniteSet({"host"} \cup {"timer"} \cup {"serial"} \cup {"tcp"} \cup {"controls"})
      /\ Cardinality({"host"} \cup {"timer"} \cup {"serial"} \cup {"tcp"} \cup {"controls"}) = 5
  BY <1>5, FS_AddElement
<1>7. Task = {"host"} \cup {"timer"} \cup {"serial"} \cup {"tcp"} \cup {"controls"}
  BY DEF Task
<1> QED
  BY <1>6, <1>7, FiveTasks

LEMMA ArrivedCount ==
  /\ IsFiniteSet(Arrived) /\ Cardinality(Arrived) \in 0..NUM_TASKS
  /\ Cardinality(Arrived) = NUM_TASKS => Arrived = Task
<1>1. Arrived \subseteq Task
  BY DEF Arrived
<1>2. /\ IsFiniteSet(Arrived) /\ Cardinality(Arrived) <= Cardinality(Task)
      /\ (Cardinality(Task) = Cardinality(Arrived) => Task = Arrived)
  BY <1>1, TaskCount, FS_Subset
<1> QED
  BY <1>2, TaskCount, FiveTasks, FS_CardinalityType

--------------------------------------------------------------------------------
(* Each part of the invariant is kept *)

LEMMA MoveKeeps ==
  ASSUME Inv, NEW t \in Task, Move(t)
  PROVE  Inv'
<1>1. PICK to \in Places \ {"none", "start", "barrier"} :
        /\ pc[t] \notin {"none", "start", "done"}
        /\ pc' = [pc EXCEPT ![t] = to]
        /\ pc[t] = "barrier" => ready = NUM_TASKS
        /\ to = "load" => pc[t] = "barrier"
        /\ Leaves(t, to)
  BY DEF Move
<1>2. main # "exited" /\ UNCHANGED <<main, k, ready, cancelled, exit_code, mem>>
  BY DEF Move
<1>3. pc' \in [Task -> Places] /\ pc'[t] = to /\ \A u \in Task \ {t} : pc'[u] = pc[u]
  BY <1>1 DEF Inv, ThreadsTyped
<1>4. Arrived' = Arrived
  BY <1>1, <1>3 DEF Arrived
<1>5. Arrived = Task
  BY <1>1, ArrivedCount DEF Inv, BarrierHolds
<1>6. "host" \in Task /\ "controls" \in Task /\ EndCode \subseteq 1..6
  BY ConstantsAssumption DEF Task
<1>7. ThreadsTyped'
  <2>1. queued' \subseteq EndCode /\ ended_by' \in EndCode \cup {0}
    BY <1>1 DEF Leaves, Inv, ThreadsTyped
  <2>3. shutdown_all' \in BOOLEAN
    <3>1. shutdown_all' = shutdown_all \/ shutdown_all' = FALSE \/ shutdown_all' = TRUE
      BY <1>1 DEF Leaves
    <3> QED
      BY <3>1 DEF Inv, ThreadsTyped
  <2>2. reboot_on_exit' \in 1..6
    BY <1>1, <1>6 DEF Leaves, Inv, ThreadsTyped, CodeFollows
  <2> QED
    BY <1>2, <1>3, <2>1, <2>2, <2>3 DEF Inv, ThreadsTyped
<1>8. BarrierHolds'
  <2>1. ready' = Cardinality(Arrived')
    BY <1>2, <1>4 DEF Inv, BarrierHolds
  <2>2. ASSUME shutdown_all' \/ queued' # {}
        PROVE  pc'["host"] \notin {"none", "start", "barrier", "load"}
    <3>1. CASE t = "host"
      <4>1. to # "load"
        BY <1>1, <2>2, <3>1, <1>6 DEF Leaves, Inv, BarrierHolds
      <4> QED
        BY <4>1, <1>3, <3>1
    <3>2. CASE t # "host"
      <4>1. shutdown_all \/ queued # {}
        BY <1>1, <2>2, <3>2 DEF Leaves
      <4> QED
        BY <4>1, <1>3, <1>6, <3>2 DEF Inv, BarrierHolds
    <3> QED
      BY <3>1, <3>2
  <2> QED
    BY <2>1, <2>2, <1>4, <1>5 DEF BarrierHolds
<1>9. JoinsHold'
  <2>1. \A u \in Task : pc[u] \in {"none", "done"} => pc'[u] = pc[u]
    BY <1>1, <1>3
  <2> QED
    BY <1>1, <1>2, <2>1, FiveTasks DEF Inv, JoinsHold, ThreadsTyped
<1>10. CodeFollows'
  <2>1. ASSUME NEW u \in Task, pc'[u] = "end"
        PROVE  u = "controls" /\ ended_by' # 0
    <3>1. CASE u = t
      BY <1>1, <1>3, <1>6, <2>1, <3>1 DEF Leaves, Inv, CodeFollows
    <3>2. CASE u # t
      BY <1>1, <1>3, <1>6, <2>1, <3>2 DEF Leaves, Inv, CodeFollows
    <3> QED
      BY <3>1, <3>2
  <2>2. ended_by' # 0 => pc'["controls"] = "end" \/ reboot_on_exit' = ended_by'
    BY <1>1, <1>3, <1>6 DEF Leaves, Inv, CodeFollows
  <2> QED
    BY <1>2, <2>1, <2>2 DEF CodeFollows, ExitCodeIsOfCommand
<1> QED
  BY <1>7, <1>8, <1>9, <1>10 DEF Inv

LEMMA StillKeeps ==
  ASSUME Inv, Still
  PROVE  Inv'
<1>1. ThreadsTyped'
  BY DEF Still, Inv, ThreadsTyped
<1>2. BarrierHolds'
  BY DEF Still, Inv, BarrierHolds, Arrived
<1>3. JoinsHold'
  BY DEF Still, Inv, JoinsHold
<1>4. CodeFollows'
  BY DEF Still, Inv, CodeFollows, ExitCodeIsOfCommand
<1> QED
  BY <1>1, <1>2, <1>3, <1>4 DEF Inv

LEMMA ArriveKeeps ==
  ASSUME Inv, NEW t \in Task, Arrive(t), main # "exited"
  PROVE  Inv' /\ ~shutdown_all
<1>1. /\ pc[t] = "start" /\ pc' = [pc EXCEPT ![t] = "barrier"]
      /\ shutdown_all' = FALSE /\ ready' = ready + 1
      /\ UNCHANGED <<main, k, cancelled, reboot_on_exit, exit_code, queued, ended_by, mem>>
  BY DEF Arrive, Goto
<1>2. pc' \in [Task -> Places] /\ pc'[t] = "barrier" /\ \A u \in Task \ {t} : pc'[u] = pc[u]
  BY <1>1 DEF Inv, ThreadsTyped, Places
<1>3. t \notin Arrived /\ Arrived' = Arrived \cup {t}
  BY <1>1, <1>2 DEF Arrived
<1>4. ~shutdown_all /\ queued = {}
  BY <1>3 DEF Inv, BarrierHolds
<1>5. ThreadsTyped'
  BY <1>1, <1>2 DEF Inv, ThreadsTyped
<1>6. BarrierHolds'
  <2>1. ready' = Cardinality(Arrived')
    BY <1>1, <1>3, ArrivedCount, FS_AddElement DEF Inv, BarrierHolds
  <2>2. \A u \in Task : pc'[u] \in {"none", "start", "barrier"}
    BY <1>2, <1>3 DEF Inv, BarrierHolds
  <2> QED
    BY <1>1, <1>4, <2>1, <2>2 DEF BarrierHolds
<1>7. JoinsHold'
  <2>1. \A u \in Task : pc[u] \in {"none", "done"} => pc'[u] = pc[u]
    BY <1>1, <1>2
  <2> QED
    BY <1>1, <2>1, FiveTasks DEF Inv, JoinsHold, ThreadsTyped
<1>8. CodeFollows'
  BY <1>1, <1>2 DEF Inv, CodeFollows, ExitCodeIsOfCommand, Task
<1> QED
  BY <1>4, <1>5, <1>6, <1>7, <1>8 DEF Inv

LEMMA MainKeeps ==
  ASSUME Inv, Main
  PROVE  Inv' /\ UNCHANGED shutdown_all
<1>1. CASE Create
  <2>1. /\ main = "create" /\ pc' = [pc EXCEPT ![JoinOrder[k]] = "start"]
        /\ (k < NUM_TASKS /\ k' = k + 1 /\ main' = main) \/ (k >= NUM_TASKS /\ k' = 1 /\ main' = "join")
        /\ UNCHANGED <<ready, cancelled, shutdown_all, reboot_on_exit, exit_code, queued, ended_by, mem>>
    BY <1>1, FiveTasks DEF Create, ending, Inv, ThreadsTyped
  <2>2. JoinOrder[k] \in Task /\ pc[JoinOrder[k]] = "none" /\ k \in 1..NUM_TASKS
    BY <2>1, FiveTasks DEF Inv, ThreadsTyped, JoinsHold
  <2>3. /\ pc' \in [Task -> Places] /\ pc'[JoinOrder[k]] = "start"
        /\ \A u \in Task \ {JoinOrder[k]} : pc'[u] = pc[u]
    BY <2>1, <2>2 DEF Inv, ThreadsTyped, Places
  <2>4. Arrived' = Arrived
    BY <2>2, <2>3 DEF Arrived
  <2>5. ThreadsTyped'
    BY <2>1, <2>2, <2>3, FiveTasks DEF Inv, ThreadsTyped
  <2>6. BarrierHolds'
    BY <2>1, <2>2, <2>3, <2>4 DEF Inv, BarrierHolds, Arrived
  <2>7. JoinsHold'
    <3>1. main' = "create" => \A i \in k'..NUM_TASKS : pc'[JoinOrder[i]] = "none"
      BY <2>1, <2>2, <2>3, FiveTasks DEF Inv, JoinsHold
    <3>2. main' = "join" => k' = 1
      BY <2>1
    <3>3. ~(main' = "close_mem" \/ ~mem' \/ (main' = "exited" /\ exit_code' # 141))
      BY <2>1, <2>2 DEF Inv, JoinsHold
    <3> QED
      BY <3>1, <3>2, <3>3 DEF JoinsHold
  <2>8. CodeFollows'
    BY <2>1, <2>2, <2>3 DEF Inv, CodeFollows, ExitCodeIsOfCommand, Task
  <2> QED
    BY <2>1, <2>5, <2>6, <2>7, <2>8 DEF Inv
<1>2. CASE Join
  <2>1. /\ main = "join" /\ pc[JoinOrder[k]] = "done"
        /\ cancelled' \subseteq Task
        /\ (k < NUM_TASKS /\ k' = k + 1 /\ main' = main) \/ (k >= NUM_TASKS /\ k' = k /\ main' = "close_mem")
        /\ UNCHANGED <<pc, ready, shutdown_all, reboot_on_exit, exit_code, queued, ended_by, mem>>
    BY <1>2, FiveTasks DEF Join, ending, Inv, ThreadsTyped, Task
  <2>2. k \in 1..NUM_TASKS /\ \A i \in 1..k : pc[JoinOrder[i]] = "done"
    BY <2>1, FiveTasks DEF Inv, ThreadsTyped, JoinsHold
  <2>3. main' = "close_mem" => \A t \in Task : pc[t] = "done"
    BY <2>1, <2>2, FiveTasks
  <2>4. ThreadsTyped'
    BY <2>1, <2>2, FiveTasks DEF Inv, ThreadsTyped
  <2>5. BarrierHolds'
    BY <2>1 DEF Inv, BarrierHolds, Arrived
  <2>6. JoinsHold'
    BY <2>1, <2>2, <2>3, FiveTasks DEF Inv, JoinsHold
  <2>7. CodeFollows'
    BY <2>1 DEF Inv, CodeFollows, ExitCodeIsOfCommand
  <2> QED
    BY <2>1, <2>4, <2>5, <2>6, <2>7 DEF Inv
<1>3. CASE CloseMem
  <2>1. /\ main = "close_mem" /\ main' = "exited" /\ mem' = FALSE
        /\ exit_code' = reboot_on_exit
        /\ UNCHANGED <<k, pc, ready, cancelled, shutdown_all, reboot_on_exit, queued, ended_by>>
    BY <1>3 DEF CloseMem
  <2>2. \A t \in Task : pc[t] = "done"
    BY <2>1 DEF Inv, JoinsHold
  <2>3. ThreadsTyped'
    <3>1. exit_code' \in (0..6) \cup {141}
      BY <2>1 DEF Inv, ThreadsTyped
    <3>2. mem' \in BOOLEAN /\ main' \in {"create", "join", "close_mem", "exited"}
      BY <2>1
    <3> QED
      BY <2>1, <3>1, <3>2 DEF Inv, ThreadsTyped
  <2>4. BarrierHolds'
    BY <2>1 DEF Inv, BarrierHolds, Arrived
  <2>5. JoinsHold'
    BY <2>1, <2>2 DEF Inv, JoinsHold
  <2>6. ended_by # 0 => exit_code' = ended_by
    BY <2>1, <2>2 DEF Inv, CodeFollows, Task
  <2>7. CodeFollows'
    BY <2>1, <2>6 DEF Inv, CodeFollows, ExitCodeIsOfCommand
  <2> QED
    BY <2>1, <2>3, <2>4, <2>5, <2>7 DEF Inv
<1> QED
  BY <1>1, <1>2, <1>3 DEF Main

LEMMA Initially == Init => Inv
<1> SUFFICES ASSUME Init PROVE Inv
  OBVIOUS
<1>1. Arrived = {}
  BY DEF Init, Arrived
<1>2. ThreadsTyped
  <2>1. pc \in [Task -> Places]
    BY DEF Init, Places
  <2>2. k \in 1..NUM_TASKS /\ reboot_on_exit \in 1..6 /\ exit_code \in (0..6) \cup {141}
    BY FiveTasks DEF Init
  <2>3. shutdown_all \in BOOLEAN /\ mem \in BOOLEAN
    BY DEF Init
  <2> QED
    BY <2>1, <2>2, <2>3 DEF Init, ThreadsTyped
<1>3. BarrierHolds
  BY <1>1, FS_EmptySet DEF Init, BarrierHolds
<1>4. JoinsHold
  <2>1. \A i \in 1..NUM_TASKS : pc[JoinOrder[i]] = "none"
    BY FiveTasks DEF Init
  <2>2. main = "create" /\ k = 1 /\ mem
    BY DEF Init
  <2> QED
    BY <2>1, <2>2 DEF JoinsHold
<1>5. CodeFollows
  BY DEF Init, CodeFollows, ExitCodeIsOfCommand
<1> QED
  BY <1>2, <1>3, <1>4, <1>5 DEF Inv

LEMMA NextKeeps == Inv /\ [Next]_vars => Inv'
<1> SUFFICES ASSUME Inv, [Next]_vars PROVE Inv'
  OBVIOUS
<1>1. queued \subseteq EndCode
  BY DEF Inv, ThreadsTyped
<1> QED
  BY <1>1, StepForms, MainKeeps, StillKeeps, ArriveKeeps, MoveKeeps

LEMMA InvHolds == Spec => []Inv
  BY Initially, NextKeeps, PTL DEF Spec

--------------------------------------------------------------------------------
(* The theorems *)

(* The descriptors and the mutex are what they are declared as. *)
SocketTyped ==
  /\ sock_open \in BOOLEAN /\ global_socket \in Conn \cup {0} /\ fds \subseteq Conn
  /\ peer \in [Conn -> {"none", "waiting", "open", "closed"}] /\ hsock \in Conn \cup {0}
  /\ tcp_write_lock \in Task \cup {Nobody}

LEMMA SharedSocketTyped ==
  ASSUME SocketTyped, NEW t \in Task, Socket(t) \/ LockWrite(t)
  PROVE  SocketTyped'
<1>1. CASE PutSock(t) \/ Send(t) \/ LockWrite(t)
  BY <1>1 DEF PutSock, Send, LockWrite, Release, SocketTyped
<1>2. CASE SigPipe(t)
  BY <1>2 DEF SigPipe, socket, SocketTyped
<1>3. CASE CloseTcp(t)
  BY <1>3 DEF CloseTcp, Release, SocketTyped
<1> QED
  BY <1>1, <1>2, <1>3 DEF Socket

LEMMA SocketTypedHolds == Spec => []SocketTyped
<1>1. Init => SocketTyped
  BY DEF Init, SocketTyped
<1>2. SocketTyped /\ [Next]_vars => SocketTyped'
  <2> SUFFICES ASSUME SocketTyped, [Next]_vars PROVE SocketTyped'
    OBVIOUS
  <2>0. "host" \in Task /\ "timer" \in Task /\ "serial" \in Task /\ "tcp" \in Task /\ "controls" \in Task
    BY DEF Task
  <2>1. CASE UNCHANGED socket
    BY <2>1 DEF socket, SocketTyped
  <2>2. CASE Main
    BY <2>1, <2>2 DEF Main, Create, Join, CloseMem
  <2>3. ASSUME NEW t \in Task, Thread(t)
        PROVE  SocketTyped'
    <3>1. CASE Arrive(t) \/ PassBarrier(t) \/ Cancel(t)
      BY <2>1, <3>1 DEF Arrive, PassBarrier, Cancel
    <3>2. CASE LockWrite(t) \/ Socket(t)
      BY <3>2, SharedSocketTyped
    <3>3. CASE Host
      <4>1. CASE Load \/ ExitProgram
        BY <2>1, <4>1 DEF Load, ExitProgram
      <4>2. CASE HostLoop \/ RecvNothing
        BY <4>2 DEF HostLoop, RecvNothing, SocketTyped
      <4>3. CASE Socket("host")
        BY <2>0, <4>3, SharedSocketTyped
      <4> QED
        BY <3>3, <4>1, <4>2, <4>3 DEF Host
    <3>4. CASE TimerLoop \/ TcpLoop \/ Greeted \/ ControlsGet \/ ControlsEnd \/ ControlsAct
      BY <2>1, <3>4 DEF TimerLoop, TcpLoop, Greeted, ControlsGet, ControlsEnd, ControlsAct
    <3>5. CASE Accepted
      BY <3>5 DEF Accepted, SocketTyped
    <3> QED
      BY <2>0, <2>3, <3>1, <3>2, <3>3, <3>4, <3>5, SharedSocketTyped
      DEF Thread, Tcp, Controls
  <2>4. CASE RecvCommand
    BY <2>4 DEF RecvCommand, SocketTyped
  <2>5. CASE Accept
    BY <2>5 DEF Accept, SocketTyped
  <2>6. CASE SerialLoop
    BY <2>1, <2>6 DEF SerialLoop
  <2>7. ASSUME NEW c \in Conn, ClientConnects(c) \/ ClientCloses(c) PROVE SocketTyped'
    BY <2>7 DEF ClientConnects, ClientCloses, SocketTyped
  <2>8. CASE UNCHANGED vars
    BY <2>1, <2>8 DEF vars
  <2> QED
    BY <2>2, <2>3, <2>4, <2>5, <2>6, <2>7, <2>8 DEF Next
<1> QED
  BY <1>1, <1>2, PTL DEF Spec

\* The state of the threads, of the shared socket and of the end has its types:
\* main's i stays within fptr, the barrier's count within NUM_TASKS, the exit code
\* is one of try_sched.sh's or the kernel's.
THEOREM TypeCorrect == Spec => []TypeOK
<1>1. Inv /\ SocketTyped => TypeOK
  BY ArrivedCount DEF Inv, ThreadsTyped, BarrierHolds, SocketTyped, TypeOK
<1> QED
  BY <1>1, InvHolds, SocketTypedHolds, PTL

\* shutdown_all is never cleared once it is set: the assignments of work_routine
\* (sched.c) and of get_host_cmd_task fall before the barrier opens or before the
\* host's loop, and whoever sets it is past both.
THEOREM ShutdownHolds == Spec => ShutdownIsFinal
<1>1. Inv /\ [Next]_vars => [shutdown_all => shutdown_all']_vars
  <2> SUFFICES ASSUME Inv, [Next]_vars, shutdown_all PROVE shutdown_all'
    OBVIOUS
  <2>1. queued \subseteq EndCode
    BY DEF Inv, ThreadsTyped
  <2>2. CASE Main
    BY <2>2, MainKeeps
  <2>3. CASE Still
    BY <2>3 DEF Still
  <2>4. ASSUME NEW t \in Task, Arrive(t), main # "exited" PROVE FALSE
    BY <2>4, ArriveKeeps
  <2>5. ASSUME NEW t \in Task, Move(t) PROVE shutdown_all'
    <3>1. pc["host"] # "load"
      BY DEF Inv, BarrierHolds
    <3>2. PICK to \in Places : Leaves(t, to)
      BY <2>5 DEF Move
    <3> QED
      BY <3>1, <3>2 DEF Leaves
  <2> QED
    BY <2>1, <2>2, <2>3, <2>4, <2>5, StepForms
<1> QED
  BY <1>1, InvHolds, PTL DEF Spec, ShutdownIsFinal

\* What try_sched.sh is told is the end command basic_controls_task has begun:
\* main cannot return reboot_on_exit before that thread is joined, and the
\* thread ends only after its second assignment.
THEOREM ExitCodeHolds == Spec => []ExitCodeIsOfCommand
<1>1. Inv => ExitCodeIsOfCommand
  BY DEF Inv, CodeFollows
<1> QED
  BY <1>1, InvHolds, PTL

\* close_mem comes after the last join: no task is still moving relays.
THEOREM MappedHolds == Spec => []MappedWhileInUse
<1>1. Inv => MappedWhileInUse
  BY DEF Inv, JoinsHold, MappedWhileInUse, Task
<1> QED
  BY <1>1, InvHolds, PTL

================================================================================
