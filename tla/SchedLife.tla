------------------------------- MODULE SchedLife -------------------------------
(***************************************************************************)
(* How sched starts, talks to its client and ends: the threads main        *)
(* creates, the barrier in work_routine, the client's socket shared by all *)
(* of them, the end commands, and main's joins and cancellations.          *)
(*                                                                         *)
(* timer stands for the two input monitors, the two timers and             *)
(* LCD_serial_queue: tasks that look at shutdown_all in their loop and are *)
(* joined between GET_HOST_CMD and SERIAL_RECV.                            *)
(*                                                                         *)
(* Places of a thread:                                                     *)
(*   none, start, barrier   not created, created, in work_routine's wait   *)
(*   load                   host: before its loop                          *)
(*   loop                   the test at the head of its loop               *)
(*   use                    timer: moves relays                            *)
(*   recv, bye              host: in recv(); in the 10 s of EXIT_PROGRAM   *)
(*   accept, accepted, greeted   tcp: in accept(); around its greeting     *)
(*   act, end               controls: executing a command; between its two *)
(*                          assignments                                    *)
(*   lock, put, sending     in send_tcp and put_sock                       *)
(*   close1, close2, close3 in close_tcp                                   *)
(*   done                   returned or cancelled                          *)
(***************************************************************************)
EXTENDS Naturals, Sequences, FiniteSets

CONSTANTS MaxConn,    \* how many descriptors the client's connections take
          EndCode     \* exit codes of the end commands in use

ASSUME ConstantsAssumption == MaxConn \in Nat /\ EndCode \subseteq 1..6

Conn == 1..MaxConn    \* connections, by their descriptor

JoinOrder == <<"host", "timer", "serial", "tcp", "controls">>
Task      == {"host", "timer", "serial", "tcp", "controls"}
Nobody    == "nobody"
NUM_TASKS == Len(JoinOrder)

VARIABLES main,            \* "create", "join", "close_mem" or "exited"
          k,               \* the i of main's two loops
          pc, ready, cancelled,
          shutdown_all, reboot_on_exit, exit_code,
          mem,             \* the I/O memory is mapped (init_mem, close_mem)
          queued,          \* end commands in msg_queue
          sock_open, global_socket,     \* 0 stands for -1
          fds,             \* connections whose descriptor is open
          peer,            \* the client's side of each connection
          hsock,           \* what the host's recv() was called on, else 0
          tcp_write_lock,
          ended_by         \* history: the end command basic_controls has begun

threads == <<main, k, pc, ready, cancelled>>
ending  == <<shutdown_all, reboot_on_exit, exit_code, queued, ended_by>>
socket  == <<sock_open, global_socket, fds, peer, hsock, tcp_write_lock>>
vars    == <<threads, ending, mem, socket>>

Init ==
  /\ main = "create" /\ k = 1
  /\ pc = [t \in Task |-> "none"] /\ ready = 0 /\ cancelled = {}
  /\ shutdown_all = FALSE /\ reboot_on_exit = 1 /\ exit_code = 0
  /\ queued = {} /\ ended_by = 0
  /\ mem = TRUE
  /\ sock_open = FALSE /\ global_socket = 0 /\ fds = {}
  /\ peer = [c \in Conn |-> "none"] /\ hsock = 0
  /\ tcp_write_lock = Nobody

Goto(t, from, to) == pc[t] = from /\ pc' = [pc EXCEPT ![t] = to]

\* A step of thread t that touches no other thread.
Step(t, from, to) == Goto(t, from, to) /\ UNCHANGED <<main, k, ready, cancelled>>

--------------------------------------------------------------------------------
(* main *)

Create ==
  /\ main = "create"
  /\ pc' = [pc EXCEPT ![JoinOrder[k]] = "start"]
  /\ IF k < NUM_TASKS THEN k' = k + 1 /\ UNCHANGED main
                      ELSE k' = 1 /\ main' = "join"
  /\ UNCHANGED <<ready, cancelled, ending, mem, socket>>

\* Mutant: the joins end with tcp_monitor's, as if there were one task less.
Join_OneLess ==
  /\ main = "join"
  /\ pc[JoinOrder[k]] = "done"
  /\ cancelled' = IF k = 1 THEN {"serial", "tcp"} ELSE cancelled
  /\ IF k < NUM_TASKS - 1 THEN k' = k + 1 /\ UNCHANGED main
                          ELSE main' = "close_mem" /\ UNCHANGED k
  /\ UNCHANGED <<pc, ready, ending, mem, socket>>

\* pthread_join in the order of creation; after the first, pthread_cancel of
\* SERIAL_RECV and TCP_MONITOR
Join ==
  /\ main = "join"
  /\ pc[JoinOrder[k]] = "done"
  /\ cancelled' = IF k = 1 THEN {"serial", "tcp"} ELSE cancelled
  /\ IF k < NUM_TASKS THEN k' = k + 1 /\ UNCHANGED main
                      ELSE main' = "close_mem" /\ UNCHANGED k
  /\ UNCHANGED <<pc, ready, ending, mem, socket>>

\* close_mem, and the return of reboot_on_exit
CloseMem ==
  /\ main = "close_mem"
  /\ main' = "exited"
  /\ mem' = FALSE
  /\ exit_code' = reboot_on_exit
  /\ UNCHANGED <<k, pc, ready, cancelled, shutdown_all, reboot_on_exit, queued, ended_by,
                 socket>>

--------------------------------------------------------------------------------
(* work_routine *)

First(t) == IF t = "host" THEN "load" ELSE "loop"

\* Mutant: the thread counts itself again after the mutex.
Arrive_Twice(t) ==
  /\ Goto(t, "start", "barrier")
  /\ shutdown_all' = FALSE
  /\ ready' = ready + 2
  /\ UNCHANGED <<main, k, cancelled, reboot_on_exit, exit_code, queued, ended_by, mem, socket>>

\* threads_ready_count++; the last one to arrive wakes the others
Arrive(t) ==
  /\ Goto(t, "start", "barrier")
  /\ shutdown_all' = FALSE
  /\ ready' = ready + 1
  /\ UNCHANGED <<main, k, cancelled, reboot_on_exit, exit_code, queued, ended_by, mem, socket>>

\* Mutant: a thread waits for the others of its own kind of scheduling only.
PassBarrier_Half(t) ==
  /\ ready >= NUM_TASKS \div 2
  /\ Step(t, "barrier", First(t))
  /\ UNCHANGED <<ending, mem, socket>>

PassBarrier(t) ==
  /\ ready = NUM_TASKS
  /\ Step(t, "barrier", First(t))
  /\ UNCHANGED <<ending, mem, socket>>

--------------------------------------------------------------------------------
(* send_msg, send_tcp, put_sock and close_tcp, called by several threads.    *)

\* Where a thread goes on after a message.
AfterSend(t) == CASE t = "tcp" -> "greeted" [] t = "controls" -> "act" [] OTHER -> "loop"

\* send_msg's if(test_sock())
SendMsg(t, from) == Step(t, from, IF sock_open THEN "lock" ELSE AfterSend(t))

LockWrite(t) ==    \* pthread_mutex_lock(&tcp_write_lock)
  /\ tcp_write_lock = Nobody
  /\ Step(t, "lock", "put")
  /\ tcp_write_lock' = t
  /\ UNCHANGED <<ending, mem, sock_open, global_socket, fds, peer, hsock>>

\* send_tcp's pthread_mutex_unlock, or a return without it
Release(t) == tcp_write_lock' = IF tcp_write_lock = t THEN Nobody ELSE tcp_write_lock

PutSock(t) ==      \* if(test_sock())
  /\ \/ sock_open /\ Step(t, "put", "sending") /\ UNCHANGED tcp_write_lock
     \/ ~sock_open /\ Step(t, "put", AfterSend(t)) /\ Release(t)
  /\ UNCHANGED <<ending, mem, sock_open, global_socket, fds, peer, hsock>>

\* send(): EBADF on a closed descriptor; an error, or nothing, when the client
\* is gone
Send(t) ==
  /\ \/ global_socket \notin fds /\ Step(t, "sending", "close1") /\ UNCHANGED tcp_write_lock
     \/ global_socket \in fds /\ Step(t, "sending", AfterSend(t)) /\ Release(t)
     \/ /\ global_socket \in fds /\ peer[global_socket] = "closed"
        /\ Step(t, "sending", "close1") /\ UNCHANGED tcp_write_lock
  /\ UNCHANGED <<ending, mem, sock_open, global_socket, fds, peer, hsock>>

\* ... or SIGPIPE, which nothing catches.
SigPipe(t) ==
  /\ pc[t] = "sending"
  /\ global_socket \in fds /\ peer[global_socket] = "closed"
  /\ main' = "exited" /\ exit_code' = 141
  /\ UNCHANGED <<k, pc, ready, cancelled, shutdown_all, reboot_on_exit, queued, ended_by,
                 mem, socket>>

\* Where close_tcp returns to: send_tcp, or the task itself.
AfterClose(t) == IF tcp_write_lock = t THEN AfterSend(t)
                 ELSE IF t = "tcp" THEN "done" ELSE "loop"

\* Mutant: put_sock's error path returns past the unlock.
CloseTcp_NoUnlock(t) ==
  /\ \/ /\ sock_open /\ Step(t, "close1", "close2")
        /\ sock_open' = FALSE /\ UNCHANGED <<fds, global_socket>>
     \/ /\ ~sock_open /\ Step(t, "close1", AfterClose(t))
        /\ UNCHANGED <<sock_open, fds, global_socket>>
     \/ /\ Step(t, "close2", "close3")
        /\ fds' = fds \ {global_socket} /\ UNCHANGED <<sock_open, global_socket>>
     \/ /\ Step(t, "close3", AfterClose(t))
        /\ global_socket' = 0 /\ UNCHANGED <<sock_open, fds>>
  /\ UNCHANGED <<ending, mem, peer, hsock, tcp_write_lock>>

\* close_tcp's test and its three assignments; it has no lock of its own.
CloseTcp(t) ==
  /\ \/ /\ sock_open /\ Step(t, "close1", "close2")
        /\ sock_open' = FALSE /\ UNCHANGED <<fds, global_socket, tcp_write_lock>>
     \/ /\ ~sock_open /\ Step(t, "close1", AfterClose(t)) /\ Release(t)
        /\ UNCHANGED <<sock_open, fds, global_socket>>
     \/ /\ Step(t, "close2", "close3")
        /\ fds' = fds \ {global_socket} /\ UNCHANGED <<sock_open, global_socket, tcp_write_lock>>
     \/ /\ Step(t, "close3", AfterClose(t)) /\ Release(t)
        /\ global_socket' = 0 /\ UNCHANGED <<sock_open, fds>>
  /\ UNCHANGED <<ending, mem, peer, hsock>>

Socket(t) == \/ PutSock(t) \/ Send(t) \/ SigPipe(t) \/ CloseTcp(t)

--------------------------------------------------------------------------------
(* get_host_cmd_task *)

Load ==            \* shutdown_all = 0, the tables, odata.dat and param.conf
  /\ Step("host", "load", "loop")
  /\ shutdown_all' = FALSE
  /\ UNCHANGED <<reboot_on_exit, exit_code, queued, ended_by, mem, socket>>

\* The end is noticed only while no client is connected.  (recv() on a closed
\* descriptor fails at once: the loop goes round.)
HostLoop ==
  /\ \/ /\ sock_open /\ global_socket \in fds
        /\ Step("host", "loop", "recv") /\ hsock' = global_socket
     \/ ~sock_open /\ shutdown_all /\ Step("host", "loop", "done") /\ UNCHANGED hsock
  /\ UNCHANGED <<ending, mem, sock_open, global_socket, fds, peer, tcp_write_lock>>

\* recv() returns 0 because the client has closed: no command.  A close() by
\* another thread does not wake it.
RecvNothing ==
  /\ Step("host", "recv", "loop")
  /\ peer[hsock] = "closed" /\ hsock' = 0
  /\ UNCHANGED <<ending, mem, sock_open, global_socket, fds, peer, tcp_write_lock>>

\* A message of the client, and what get_host_cmd_task does with it.
RecvCommand ==
  /\ pc["host"] = "recv" /\ peer[hsock] = "open" /\ hsock' = 0
  /\ \/ /\ \E c \in EndCode : queued' = queued \cup {c}     \* add_msg_queue(cmd)
        /\ Step("host", "recv", "loop")
     \/ /\ \/ Step("host", "recv", "bye")          \* EXIT_PROGRAM
           \/ Step("host", "recv", "close1")       \* DISCONNECT
           \/ SendMsg("host", "recv")              \* SET_PARAMS, GET_TIME, GET_VERSION
           \/ Step("host", "recv", "loop")         \* any other
        /\ UNCHANGED queued
  /\ UNCHANGED <<shutdown_all, reboot_on_exit, exit_code, ended_by, mem,
                 sock_open, global_socket, fds, peer, tcp_write_lock>>

ExitProgram ==
  /\ Step("host", "bye", "done")
  /\ shutdown_all' = TRUE
  /\ UNCHANGED <<reboot_on_exit, exit_code, queued, ended_by, mem, socket>>

Host == Load \/ HostLoop \/ RecvNothing \/ ExitProgram \/ Socket("host")

--------------------------------------------------------------------------------
(* The other tasks. *)

\* Each round moves relays and tells the client something.
TimerLoop ==
  /\ \/ ~shutdown_all /\ Step("timer", "loop", "use")
     \/ SendMsg("timer", "use")
     \/ shutdown_all /\ Step("timer", "loop", "done")
  /\ UNCHANGED <<ending, mem, socket>>

\* serial_recv_task sends on what comes from the STM32; without a frame it stays
\* in read() until it is cancelled.
SerialLoop ==
  /\ \/ ~shutdown_all /\ SendMsg("serial", "loop")
     \/ shutdown_all /\ Step("serial", "loop", "done")
  /\ UNCHANGED <<ending, mem, socket>>

\* tcp_monitor_task
TcpLoop ==
  /\ \/ sock_open /\ shutdown_all /\ Step("tcp", "loop", "close1")
     \/ ~sock_open /\ Step("tcp", "loop", "accept")
  /\ UNCHANGED <<ending, mem, socket>>

Accept ==
  /\ \E c \in Conn : /\ peer[c] = "waiting"
                     /\ peer' = [peer EXCEPT ![c] = "open"]
                     /\ global_socket' = c
                     /\ fds' = fds \cup {c}
  /\ Step("tcp", "accept", "accepted")
  /\ UNCHANGED <<ending, mem, sock_open, hsock, tcp_write_lock>>

Accepted ==
  /\ sock_open' = (sock_open \/ global_socket # 0)
  /\ Step("tcp", "accepted", IF sock_open' THEN "lock" ELSE "greeted")
  /\ UNCHANGED <<ending, mem, global_socket, fds, peer, hsock, tcp_write_lock>>

Greeted ==
  /\ Step("tcp", "greeted", IF shutdown_all THEN "done" ELSE "loop")
  /\ UNCHANGED <<ending, mem, socket>>

Tcp == TcpLoop \/ Accepted \/ Greeted \/ Socket("tcp")

\* basic_controls_task: a command that moves relays, an end command in its two
\* assignments, or the end
ControlsGet ==
  /\ \/ SendMsg("controls", "loop") /\ UNCHANGED <<shutdown_all, queued, ended_by>>
     \/ \E c \in queued : /\ Step("controls", "loop", "end")
                          /\ queued' = queued \ {c} /\ ended_by' = c
                          /\ shutdown_all' = TRUE
     \/ /\ shutdown_all /\ queued = {} /\ Step("controls", "loop", "done")
        /\ UNCHANGED <<shutdown_all, queued, ended_by>>
  /\ UNCHANGED <<reboot_on_exit, exit_code, mem, socket>>

ControlsEnd ==
  /\ Step("controls", "end", "done")
  /\ reboot_on_exit' = ended_by
  /\ UNCHANGED <<shutdown_all, exit_code, queued, ended_by, mem, socket>>

ControlsAct ==
  /\ Step("controls", "act", IF shutdown_all THEN "done" ELSE "loop")
  /\ UNCHANGED <<ending, mem, socket>>

Controls == ControlsGet \/ ControlsEnd \/ ControlsAct \/ Socket("controls")

\* A cancelled thread ends in the next call that blocks, whatever it holds.
Cancel(t) ==
  /\ t \in cancelled
  /\ pc[t] \in {"loop", "accept", "sending", "close2"}
  /\ pc' = [pc EXCEPT ![t] = "done"]
  /\ UNCHANGED <<main, k, ready, cancelled, ending, mem, socket>>

--------------------------------------------------------------------------------
(* The client *)

\* A descriptor that is closed and that no recv() holds is given out again.
ClientConnects(c) ==
  /\ peer[c] \in {"none", "closed"} /\ c \notin fds /\ hsock # c
  /\ peer' = [peer EXCEPT ![c] = "waiting"]
  /\ UNCHANGED <<threads, ending, mem, sock_open, global_socket, fds, hsock, tcp_write_lock>>

ClientCloses(c) ==
  /\ peer[c] = "open"
  /\ peer' = [peer EXCEPT ![c] = "closed"]
  /\ UNCHANGED <<threads, ending, mem, sock_open, global_socket, fds, hsock, tcp_write_lock>>

Main == Create \/ Join \/ CloseMem

Running == main # "exited"

\* The steps thread t takes without waiting for the client or the STM32.
Thread(t) ==
  /\ Running
  /\ \/ Arrive(t) \/ PassBarrier(t) \/ Cancel(t) \/ LockWrite(t)
     \/ t = "host" /\ Host
     \/ t = "timer" /\ (TimerLoop \/ Socket("timer"))
     \/ t = "serial" /\ Socket("serial")
     \/ t = "tcp" /\ Tcp
     \/ t = "controls" /\ Controls

Next ==
  \/ Main
  \/ \E t \in Task : Thread(t)
  \/ Running /\ RecvCommand
  \/ Running /\ Accept
  \/ Running /\ SerialLoop
  \/ \E c \in Conn : Running /\ (ClientConnects(c) \/ ClientCloses(c))

Spec == Init /\ [][Next]_vars

\* The kernel runs every thread that can run; a client that is connected leaves
\* at some time.
Fairness ==
  /\ WF_vars(Main)
  /\ \A t \in Task : WF_vars(Thread(t))
  /\ \A c \in Conn : WF_vars(Running /\ ClientCloses(c))
FairSpec == Spec /\ Fairness
--------------------------------------------------------------------------------
(* Properties. *)

Places == {"none", "start", "barrier", "load", "loop", "use", "recv", "bye",
           "accept", "accepted", "greeted", "act", "end", "lock", "put", "sending",
           "close1", "close2", "close3", "done"}

\* Types of the state.
TypeOK ==
  /\ main \in {"create", "join", "close_mem", "exited"} /\ k \in 1..NUM_TASKS
  /\ pc \in [Task -> Places] /\ ready \in 0..NUM_TASKS /\ cancelled \subseteq Task
  /\ shutdown_all \in BOOLEAN /\ reboot_on_exit \in 1..6 /\ exit_code \in (0..6) \cup {141}
  /\ queued \subseteq EndCode /\ ended_by \in EndCode \cup {0}
  /\ mem \in BOOLEAN
  /\ sock_open \in BOOLEAN /\ global_socket \in Conn \cup {0} /\ fds \subseteq Conn
  /\ peer \in [Conn -> {"none", "waiting", "open", "closed"}] /\ hsock \in Conn \cup {0}
  /\ tcp_write_lock \in Task \cup {Nobody}

\* Once a task has been told to end, none is told otherwise: shutdown_all is
\* also cleared by every work_routine and by get_host_cmd_task, and the barrier
\* is what keeps these assignments before the first client.
ShutdownIsFinal == [][shutdown_all => shutdown_all']_vars

\* The exit code, all that try_sched.sh learns, is the one of the end command
\* that basic_controls_task has begun, though it sets shutdown_all first and
\* main is by then waiting for the tasks to see it.
ExitCodeIsOfCommand ==
  main = "exited" /\ exit_code # 141 /\ ended_by # 0 => exit_code = ended_by

\* No task moves a relay after close_mem has unmapped the cards.
MappedWhileInUse == pc["timer"] = "use" \/ pc["controls"] = "act" => mem

\* A cancelled thread has taken tcp_write_lock with it (send() in put_sock).
LockOrphaned == tcp_write_lock # Nobody /\ pc[tcp_write_lock] = "done"

\* tcp_monitor_task has left by its second return, with a connection just
\* accepted: sock_open stays 1 and get_host_cmd_task never looks at shutdown_all.
SocketLeftOpen == pc["tcp"] = "done" /\ sock_open

\* sched ends once it has been told to, and there are two ways only in which it
\* does not: a lock that has gone with a cancelled thread and a client that
\* connects while sched is ending.
ShutdownEnds == shutdown_all ~> (main = "exited" \/ LockOrphaned \/ SocketLeftOpen)
================================================================================
