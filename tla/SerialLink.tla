------------------------------ MODULE SerialLink ------------------------------
(***************************************************************************)
(* The way of a command from sched to the STM32: send_serialother (tasks.c)*)
(* called by several threads, the wire, USART1 with the interrupt half of  *)
(* its HAL driver, and StartRecv7200 (freertos.c), which polls the buffer  *)
(* every 50 ms.                                                            *)
(*                                                                         *)
(* A frame is a command and SERIAL_BUFF_SIZE bytes of parameters; nothing  *)
(* on the wire marks its beginning.  A byte is <<s, n, i>>: byte i of the  *)
(* n-th frame of sender s; byte 0 is the command.  Commands are taken to be*)
(* ones StartRecv7200 knows; a byte of parameters may look like one.       *)
(***************************************************************************)
EXTENDS Naturals, Sequences, FiniteSets

CONSTANTS Sender,            \* threads that call send_serialother
          MaxFrames,         \* how often each does
          SERIAL_BUFF_SIZE

ASSUME ConstantsAssumption ==
  /\ MaxFrames \in Nat
  /\ SERIAL_BUFF_SIZE \in Nat \ {0}

Nobody == "nobody"
Zero   == <<>>               \* what memset leaves
Junk   == <<0>>              \* what a stack may hold before: no known command
Offset == 0..SERIAL_BUFF_SIZE
Ready  == SERIAL_BUFF_SIZE + 1      \* HAL_UART_STATE_READY: no reception
Idle   == SERIAL_BUFF_SIZE + 2

ASSUME NobodyAssumption == Nobody \notin Sender

VARIABLES serial_write_lock,
          off,          \* the next byte a sender writes, or Idle
          n,            \* frames it has begun
          line,         \* bytes on their way
          DR, ORE,      \* USART1: the unread byte or Zero; the overrun flag
          rx,           \* the bytes a reception has got so far, or Ready
          buff,
          task,         \* StartRecv7200: "wait" for its next round or "handle"
          \* History:
          sent,         \* frames, in the order they were begun
          handled,      \* bytes taken for commands
          crowded       \* a byte came when nothing was ready to take it

host  == <<serial_write_lock, off, n, line, sent>>
stm32 == <<DR, ORE, rx, buff, task, handled, crowded>>
vars  == <<host, stm32>>

Byte == Sender \X (1..MaxFrames) \X Offset

Init ==
  /\ serial_write_lock = Nobody /\ off = [s \in Sender |-> Idle]
  /\ n = [s \in Sender |-> 0] /\ line = <<>> /\ sent = <<>>
  /\ DR = Zero /\ ORE = FALSE /\ rx = Ready
  /\ buff \in [Offset -> {Zero, Junk}]       \* not initialised
  /\ task = "wait"
  /\ handled = <<>> /\ crowded = FALSE

--------------------------------------------------------------------------------
(* sched: send_serialother and send_serial *)

\* Mutant: the bytes of a frame are written without the lock.
Lock_None(s) ==
  /\ off[s] = Idle /\ n[s] < MaxFrames
  /\ serial_write_lock' = s
  /\ off' = [off EXCEPT ![s] = 0]
  /\ n' = [n EXCEPT ![s] = @ + 1]
  /\ sent' = Append(sent, <<s, n[s] + 1>>)
  /\ UNCHANGED <<line, stm32>>

Lock(s) ==
  /\ off[s] = Idle /\ n[s] < MaxFrames
  /\ serial_write_lock = Nobody /\ serial_write_lock' = s
  /\ off' = [off EXCEPT ![s] = 0]
  /\ n' = [n EXCEPT ![s] = @ + 1]
  /\ sent' = Append(sent, <<s, n[s] + 1>>)
  /\ UNCHANGED <<line, stm32>>

Write(s) ==                \* write_serial
  /\ off[s] \in Offset
  /\ line' = Append(line, <<s, n[s], off[s]>>)
  /\ off' = [off EXCEPT ![s] = @ + 1]
  /\ UNCHANGED <<serial_write_lock, n, sent, stm32>>

Unlock(s) ==
  /\ off[s] = SERIAL_BUFF_SIZE + 1
  /\ serial_write_lock' = Nobody
  /\ off' = [off EXCEPT ![s] = Idle]
  /\ UNCHANGED <<n, line, sent, stm32>>

--------------------------------------------------------------------------------
(* USART1 and its interrupt, stm32f1xx_hal_uart.c *)

\* UART_Receive_IT: the byte goes to the buffer; the last one ends the reception.
Take(b, k) ==
  /\ buff' = [buff EXCEPT ![k] = b]
  /\ rx' = k + 1

\* A byte is complete.  Without a reception it stays in the data register; the
\* next ones are lost.
Arrive ==
  /\ line # <<>> /\ line' = Tail(line)
  /\ \/ rx # Ready /\ Take(Head(line), rx) /\ UNCHANGED <<DR, ORE>>
     \/ rx = Ready /\ DR = Zero /\ DR' = Head(line) /\ UNCHANGED <<ORE, rx, buff>>
     \/ rx = Ready /\ DR # Zero /\ ORE' = TRUE /\ UNCHANGED <<DR, rx, buff>>
  /\ crowded' = (crowded \/ rx = Ready \/ (task = "handle" /\ Head(line)[3] = 0))
  /\ UNCHANGED <<serial_write_lock, off, n, sent, task, handled>>

--------------------------------------------------------------------------------
(* StartRecv7200 *)

\* Mutant: the reception goes on where the last one has ended.
Receive_IT_KeepPtr ==
  \/ rx # Ready /\ UNCHANGED <<DR, ORE, rx, buff>>
  \/ rx = Ready /\ rx' = 1 /\ UNCHANGED <<DR, ORE, buff>>

\* HAL_UART_Receive_IT: begins a reception unless one is in progress.  The
\* interrupt of a byte that is waiting follows at once, and an overrun (a
\* "blocking error" for the driver) ends the reception again after that byte.
Receive_IT ==
  \/ rx # Ready /\ UNCHANGED <<DR, ORE, rx, buff>>
  \/ rx = Ready /\ DR = Zero /\ rx' = 0 /\ UNCHANGED <<DR, ORE, buff>>
  \/ /\ rx = Ready /\ DR # Zero
     /\ buff' = [buff EXCEPT ![0] = DR] /\ DR' = Zero
     /\ rx' = IF ORE THEN Ready ELSE 1
     /\ ORE' = FALSE

\* A known command is executed with the parameters that are there; the rest of
\* the round is left to Handle.
Read ==
  \/ /\ buff'[0] \in Byte
     /\ handled' = Append(handled, buff'[0])
     /\ task' = "handle"
  \/ buff'[0] \in {Zero, Junk} /\ UNCHANGED <<handled, task>>
  \/ buff'[0] \in Byte /\ buff'[0][3] # 0 /\ UNCHANGED <<handled, task>>

\* A round.
Poll == task = "wait" /\ Receive_IT /\ Read /\ UNCHANGED <<host, crowded>>

\* A round in which the driver is locked by StartTask7200's HAL_UART_Transmit:
\* HAL_BUSY is not looked at.
PollBusy ==
  /\ task = "wait" /\ UNCHANGED <<DR, ORE, rx, buff>>
  /\ Read /\ UNCHANGED <<host, crowded>>

\* Mutant: the buffer keeps the command.
Handle_NoMemset ==
  /\ task = "handle" /\ task' = "wait"
  /\ UNCHANGED <<host, DR, ORE, rx, buff, handled, crowded>>

\* The command has been executed (SERVER_UP takes a second): memset of
\* SERIAL_BUFF_SIZE bytes, the last one stays.
Handle ==
  /\ task = "handle" /\ task' = "wait"
  /\ buff' = [i \in Offset |-> IF i = SERIAL_BUFF_SIZE THEN buff[i] ELSE Zero]
  /\ UNCHANGED <<host, DR, ORE, rx, handled, crowded>>

Next == \/ \E s \in Sender : Lock(s) \/ Write(s) \/ Unlock(s)
        \/ Arrive \/ Poll \/ PollBusy \/ Handle

Spec == Init /\ [][Next]_vars

\* A sender that has begun a frame ends it, the wire is never silent with bytes
\* to carry, and the round is repeated.  Nobody has to send; PollBusy does not
\* have to happen.
Fairness ==
  /\ \A s \in Sender : WF_vars(Write(s)) /\ WF_vars(Unlock(s))
  /\ WF_vars(Arrive) /\ WF_vars(Poll) /\ WF_vars(Handle)
FairSpec == Spec /\ Fairness
--------------------------------------------------------------------------------
(* Properties. *)

\* Types; the holder of the lock is the one sender that writes.
TypeOK ==
  /\ serial_write_lock \in Sender \cup {Nobody}
  /\ off \in [Sender -> 0..Idle]
  /\ n \in [Sender -> 0..MaxFrames]
  /\ line \in Seq(Byte)
  /\ DR \in Byte \cup {Zero} /\ ORE \in BOOLEAN
  /\ rx \in 0..Ready /\ buff \in [Offset -> Byte \cup {Zero, Junk}]
  /\ task \in {"wait", "handle"}
  /\ sent \in Seq(Sender \X (1..MaxFrames))
  /\ handled \in Seq(Byte)
  /\ crowded \in BOOLEAN
  /\ \A s \in Sender : off[s] # Idle => serial_write_lock = s

\* Byte b may follow byte a on the wire.
Follows(a, b) == IF a[3] = SERIAL_BUFF_SIZE THEN b[3] = 0
                 ELSE b = <<a[1], a[2], a[3] + 1>>

\* The frames of different threads are not mixed on the wire, where nothing but
\* the count of bytes says where one begins (tasks.c:339).
FramesAreWhole == \A i \in 1..(Len(line) - 1) : Follows(line[i], line[i + 1])

\* As long as frames come no closer than the rounds of StartRecv7200, it
\* executes each of them once, in the order they were sent, and takes nothing
\* else for a command, wherever in a frame its rounds fall (freertos.c:755).
CommandsInOrder ==
  crowded \/ /\ Len(handled) <= Len(sent)
             /\ \A i \in 1..Len(handled) : handled[i] = <<sent[i][1], sent[i][2], 0>>

\* ... and leaves none out, though a round may find the driver locked.
CommandIsHandled ==
  \A i \in 1..(MaxFrames * Cardinality(Sender)) : (Len(sent) >= i) ~> (Len(handled) >= i \/ crowded)
================================================================================
