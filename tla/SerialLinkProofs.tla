---------------------------- MODULE SerialLinkProofs ----------------------------
(***************************************************************************)
(* What holds of the serial line for any number of threads that send, any  *)
(* length of a frame and any rounds of StartRecv7200: serial_write_lock is *)
(* enough to keep the frames whole on a wire that does not mark them.      *)
(***************************************************************************)
EXTENDS SerialLink, SequenceTheorems, TLAPS

(* The thread that holds the lock is in its frame, and no other one is. *)
OneWriter ==
  /\ serial_write_lock \in Sender \cup {Nobody}
  /\ off \in [Sender -> 0..Idle] /\ n \in [Sender -> 0..MaxFrames]
  /\ \A s \in Sender : off[s] # Idle => serial_write_lock = s /\ n[s] # 0
  /\ \A s \in Sender : serial_write_lock = s => off[s] # Idle

(* Where the wire ends: with a frame, or with the last byte of the frame that *)
(* is being written.                                                          *)
EndOfLine ==
  LET b == line[Len(line)]
  IN  line # <<>> =>
        /\ serial_write_lock = Nobody => b[3] = SERIAL_BUFF_SIZE
        /\ \A s \in Sender : serial_write_lock = s =>
             b = IF off[s] = 0 THEN <<b[1], b[2], SERIAL_BUFF_SIZE>>
                               ELSE <<s, n[s], off[s] - 1>>

HostInv ==
  /\ OneWriter
  /\ line \in Seq(Byte) /\ sent \in Seq(Sender \X (1..MaxFrames))
  /\ EndOfLine
  /\ FramesAreWhole

(* The receiver's half of the types. *)
ReceiverTyped ==
  /\ DR \in Byte \cup {Zero} /\ ORE \in BOOLEAN
  /\ rx \in 0..Ready /\ buff \in [Offset -> Byte \cup {Zero, Junk}]
  /\ task \in {"wait", "handle"}
  /\ handled \in Seq(Byte)
  /\ crowded \in BOOLEAN

Inv == HostInv /\ ReceiverTyped

--------------------------------------------------------------------------------
(* sched's steps *)

LEMMA BytesAreBytes == Zero \notin Byte /\ Junk \notin Byte
  BY DEF Zero, Junk, Byte

LEMMA Numbers ==
  /\ SERIAL_BUFF_SIZE \in Nat /\ SERIAL_BUFF_SIZE > 0 /\ MaxFrames \in Nat
  /\ Ready = SERIAL_BUFF_SIZE + 1 /\ Idle = SERIAL_BUFF_SIZE + 2
  /\ Offset = 0..SERIAL_BUFF_SIZE
  BY ConstantsAssumption DEF Ready, Idle, Offset

LEMMA LockKeeps ==
  ASSUME HostInv, NEW s \in Sender, Lock(s)
  PROVE  HostInv'
<1>1. /\ off[s] = Idle /\ n[s] < MaxFrames
      /\ serial_write_lock = Nobody /\ serial_write_lock' = s
      /\ off' = [off EXCEPT ![s] = 0] /\ n' = [n EXCEPT ![s] = @ + 1]
      /\ sent' = Append(sent, <<s, n[s] + 1>>) /\ line' = line
  BY DEF Lock
<1>2. n[s] \in 0..MaxFrames /\ n[s] + 1 \in 1..MaxFrames
  BY <1>1, Numbers DEF HostInv, OneWriter
<1>3. /\ off' \in [Sender -> 0..Idle] /\ n' \in [Sender -> 0..MaxFrames]
      /\ off'[s] = 0 /\ n'[s] = n[s] + 1
      /\ \A u \in Sender \ {s} : off'[u] = off[u] /\ n'[u] = n[u]
  BY <1>1, <1>2, Numbers DEF HostInv, OneWriter
<1>4. OneWriter'
  <2>1. \A u \in Sender \ {s} : off[u] = Idle
    BY <1>1, NobodyAssumption DEF HostInv, OneWriter
  <2> QED
    BY <1>1, <1>2, <1>3, <2>1, Numbers DEF OneWriter
<1>5. sent' \in Seq(Sender \X (1..MaxFrames))
  BY <1>1, <1>2, AppendProperties DEF HostInv
<1>6. EndOfLine'
  <2> SUFFICES ASSUME line # <<>>
               PROVE  line[Len(line)] = <<line[Len(line)][1], line[Len(line)][2], SERIAL_BUFF_SIZE>>
    BY <1>1, <1>3, NobodyAssumption DEF EndOfLine
  <2>1. line[Len(line)] \in Byte
    BY LenProperties DEF HostInv
  <2>2. line[Len(line)][3] = SERIAL_BUFF_SIZE
    BY <1>1 DEF HostInv, EndOfLine
  <2> QED
    BY <2>1, <2>2 DEF Byte
<1>7. FramesAreWhole'
  BY <1>1 DEF HostInv, FramesAreWhole
<1> QED
  BY <1>1, <1>4, <1>5, <1>6, <1>7 DEF HostInv

LEMMA WriteKeeps ==
  ASSUME HostInv, NEW s \in Sender, Write(s)
  PROVE  HostInv'
<1> DEFINE b == <<s, n[s], off[s]>>
           a == line[Len(line)]
<1>1. /\ off[s] \in Offset /\ line' = Append(line, b)
      /\ off' = [off EXCEPT ![s] = @ + 1]
      /\ UNCHANGED <<serial_write_lock, n, sent>>
  BY DEF Write
<1>2. off[s] # Idle /\ serial_write_lock = s /\ n[s] \in 1..MaxFrames
  BY <1>1, Numbers DEF HostInv, OneWriter
<1>3. /\ off' \in [Sender -> 0..Idle] /\ off'[s] = off[s] + 1
      /\ \A u \in Sender \ {s} : off'[u] = off[u]
  BY <1>1, Numbers DEF HostInv, OneWriter
<1>4. OneWriter'
  BY <1>1, <1>2, <1>3, Numbers DEF HostInv, OneWriter
<1>5. b \in Byte
  BY <1>1, <1>2 DEF Byte
<1>6. /\ line' \in Seq(Byte) /\ Len(line') = Len(line) + 1
      /\ line'[Len(line) + 1] = b /\ \A i \in 1..Len(line) : line'[i] = line[i]
  BY <1>1, <1>5, AppendProperties DEF HostInv
<1>7. EndOfLine'
  <2>1. line'[Len(line')] = <<s, n'[s], off'[s] - 1>>
    BY <1>1, <1>3, <1>6, Numbers
  <2>2. off'[s] # 0 /\ serial_write_lock' = s /\ s # Nobody
    BY <1>1, <1>2, <1>3, Numbers, NobodyAssumption
  <2> QED
    BY <2>1, <2>2 DEF EndOfLine
<1>8. ASSUME line # <<>> PROVE Follows(a, b)
  <2>1. CASE off[s] = 0
    <3>1. a = <<a[1], a[2], SERIAL_BUFF_SIZE>>
      BY <1>2, <1>8, <2>1 DEF HostInv, EndOfLine
    <3>2. a[3] = SERIAL_BUFF_SIZE
      BY <3>1
    <3> QED
      BY <2>1, <3>2 DEF Follows
  <2>2. CASE off[s] # 0
    <3>1. a = <<s, n[s], off[s] - 1>>
      BY <1>2, <1>8, <2>2 DEF HostInv, EndOfLine
    <3>2. a[1] = s /\ a[2] = n[s] /\ a[3] = off[s] - 1
      BY <3>1
    <3>3. a[3] # SERIAL_BUFF_SIZE /\ a[3] + 1 = off[s]
      BY <1>1, <3>2, Numbers
    <3> QED
      BY <3>2, <3>3 DEF Follows
  <2> QED
    BY <2>1, <2>2
<1>9. FramesAreWhole'
  <2> SUFFICES ASSUME NEW i \in 1..Len(line) PROVE Follows(line'[i], line'[i + 1])
    BY <1>6, LenProperties DEF HostInv, FramesAreWhole, Follows
  <2> HIDE DEF b
  <2>1. CASE i = Len(line)
    BY <1>6, <1>8, <2>1
  <2>2. CASE i # Len(line)
    <3>1. i \in 1..(Len(line) - 1) /\ i + 1 \in 1..Len(line)
      BY <2>2, LenProperties DEF HostInv
    <3> QED
      BY <1>6, <3>1 DEF HostInv, FramesAreWhole
  <2> QED
    BY <2>1, <2>2
<1> QED
  BY <1>1, <1>4, <1>6, <1>7, <1>9 DEF HostInv

LEMMA UnlockKeeps ==
  ASSUME HostInv, NEW s \in Sender, Unlock(s)
  PROVE  HostInv'
<1>1. /\ off[s] = SERIAL_BUFF_SIZE + 1 /\ serial_write_lock' = Nobody
      /\ off' = [off EXCEPT ![s] = Idle] /\ UNCHANGED <<n, line, sent>>
  BY DEF Unlock
<1>2. serial_write_lock = s /\ off[s] # 0 /\ off[s] # Idle
  BY <1>1, Numbers DEF HostInv, OneWriter
<1>3. /\ off' \in [Sender -> 0..Idle] /\ off'[s] = Idle
      /\ \A u \in Sender \ {s} : off'[u] = off[u]
  BY <1>1, Numbers DEF HostInv, OneWriter
<1>4. OneWriter'
  BY <1>1, <1>2, <1>3, NobodyAssumption DEF HostInv, OneWriter
<1>5. EndOfLine'
  <2> SUFFICES ASSUME line # <<>> PROVE line[Len(line)][3] = SERIAL_BUFF_SIZE
    BY <1>1, NobodyAssumption DEF EndOfLine
  <2>1. line[Len(line)] = <<s, n[s], off[s] - 1>>
    BY <1>2 DEF HostInv, EndOfLine
  <2>2. line[Len(line)][3] = off[s] - 1
    BY <2>1
  <2> QED
    BY <1>1, <2>2, Numbers
<1>6. FramesAreWhole'
  BY <1>1 DEF HostInv, FramesAreWhole
<1> QED
  BY <1>1, <1>4, <1>5, <1>6 DEF HostInv

--------------------------------------------------------------------------------
(* The STM32's steps *)

LEMMA ArriveKeeps ==
  ASSUME Inv, Arrive
  PROVE  Inv'
<1>1. line # <<>> /\ line' = Tail(line)
      /\ UNCHANGED <<serial_write_lock, off, n, sent, task, handled>>
  BY DEF Arrive
<1>2. /\ line' \in Seq(Byte) /\ Len(line') = Len(line) - 1 /\ Len(line) \in Nat /\ Len(line) # 0
      /\ \A i \in 1..Len(line') : line'[i] = line[i + 1]
      /\ Head(line) \in Byte
  BY <1>1, HeadTailProperties, EmptySeq, LenProperties DEF Inv, HostInv
<1>3. EndOfLine'
  <2>1. line' # <<>> => line'[Len(line')] = line[Len(line)]
    BY <1>2, EmptySeq
  <2> QED
    BY <1>1, <2>1 DEF Inv, HostInv, EndOfLine
<1>4. FramesAreWhole'
  <2> SUFFICES ASSUME NEW i \in 1..(Len(line') - 1) PROVE Follows(line'[i], line'[i + 1])
    BY DEF FramesAreWhole, Follows
  <2>1. i + 1 \in 1..(Len(line) - 1) /\ i \in 1..Len(line') /\ i + 1 \in 1..Len(line')
    BY <1>2
  <2>2. Follows(line[i + 1], line[i + 1 + 1])
    BY <2>1 DEF Inv, HostInv, FramesAreWhole
  <2> QED
    BY <1>2, <2>1, <2>2
<1>5. HostInv'
  BY <1>1, <1>2, <1>3, <1>4 DEF Inv, HostInv, OneWriter
<1>6. ReceiverTyped'
  <2>1. CASE rx # Ready /\ Take(Head(line), rx) /\ UNCHANGED <<DR, ORE>>
    <3>1. rx \in Offset /\ rx + 1 \in 0..Ready
      BY <2>1, Numbers DEF Inv, ReceiverTyped
    <3>2. crowded' \in BOOLEAN
      BY DEF Arrive
    <3> QED
      BY <1>1, <1>2, <2>1, <3>1, <3>2 DEF Inv, ReceiverTyped, Take
  <2>2. CASE rx = Ready /\ UNCHANGED <<rx, buff>>
    <3>1. DR' \in Byte \cup {Zero} /\ ORE' \in BOOLEAN /\ crowded' \in BOOLEAN
      BY <1>2, <2>2 DEF Inv, ReceiverTyped, Arrive
    <3> QED
      BY <1>1, <2>2, <3>1 DEF Inv, ReceiverTyped
  <2> QED
    BY <2>1, <2>2 DEF Arrive
<1> QED
  BY <1>5, <1>6 DEF Inv

LEMMA RoundKeeps ==
  ASSUME Inv, Poll \/ PollBusy \/ Handle
  PROVE  Inv'
<1>1. UNCHANGED host
  BY DEF Poll, PollBusy, Handle
<1>2. HostInv'
  BY <1>1 DEF host, Inv, HostInv, OneWriter, EndOfLine, FramesAreWhole, Follows
<1>3. 0 \in Offset /\ SERIAL_BUFF_SIZE \in Offset
  BY Numbers
<1>4. ASSUME buff' \in [Offset -> Byte \cup {Zero, Junk}], Read
      PROVE  task' \in {"wait", "handle"} /\ handled' \in Seq(Byte)
  <2>1. CASE buff'[0] \in Byte /\ handled' = Append(handled, buff'[0]) /\ task' = "handle"
    <3>1. buff'[0] \in Byte
      BY <1>3, <1>4, <2>1
    <3> QED
      BY <2>1, <3>1, AppendProperties DEF Inv, ReceiverTyped
  <2> QED
    BY <1>4, <2>1 DEF Read, Inv, ReceiverTyped
<1>5. CASE Poll
  <2>1. /\ DR' \in Byte \cup {Zero} /\ ORE' \in BOOLEAN
        /\ rx' \in 0..Ready /\ buff' \in [Offset -> Byte \cup {Zero, Junk}]
    <3>1. CASE UNCHANGED <<DR, ORE, rx, buff>>
      BY <3>1 DEF Inv, ReceiverTyped
    <3>2. CASE rx' = 0 /\ UNCHANGED <<DR, ORE, buff>>
      BY <3>2, Numbers DEF Inv, ReceiverTyped
    <3>3. CASE /\ buff' = [buff EXCEPT ![0] = DR] /\ DR' = Zero
               /\ rx' = (IF ORE THEN Ready ELSE 1) /\ ORE' = FALSE
      <4>1. rx' \in 0..Ready
        BY <3>3, Numbers
      <4>2. buff' \in [Offset -> Byte \cup {Zero, Junk}]
        BY <1>3, <3>3 DEF Inv, ReceiverTyped
      <4> QED
        BY <3>3, <4>1, <4>2
    <3> QED
      BY <1>5, <3>1, <3>2, <3>3 DEF Poll, Receive_IT
  <2> QED
    BY <1>2, <1>4, <1>5, <2>1 DEF Poll, Inv, ReceiverTyped
<1>6. CASE PollBusy
  BY <1>2, <1>4, <1>6 DEF PollBusy, Inv, ReceiverTyped
<1>7. CASE Handle
  BY <1>2, <1>7 DEF Handle, Inv, ReceiverTyped
<1> QED
  BY <1>5, <1>6, <1>7

--------------------------------------------------------------------------------

LEMMA InvHolds == Spec => []Inv
<1>1. Init => Inv
  <2> SUFFICES ASSUME Init PROVE Inv
    OBVIOUS
  <2>1. OneWriter
    BY NobodyAssumption, Numbers DEF Init, OneWriter
  <2>2. line = <<>> /\ sent = <<>> /\ handled = <<>>
    BY DEF Init
  <2>3. line \in Seq(Byte) /\ sent \in Seq(Sender \X (1..MaxFrames)) /\ handled \in Seq(Byte)
    BY <2>2, EmptySeq
  <2>4. EndOfLine /\ FramesAreWhole
    BY <2>2, EmptySeq DEF EndOfLine, FramesAreWhole
  <2>5. ReceiverTyped
    <3>1. rx \in 0..Ready
      BY Numbers DEF Init
    <3> QED
      BY <2>3, <3>1 DEF Init, ReceiverTyped
  <2> QED
    BY <2>1, <2>3, <2>4, <2>5 DEF Inv, HostInv
<1>2. Inv /\ [Next]_vars => Inv'
  <2> SUFFICES ASSUME Inv, [Next]_vars PROVE Inv'
    OBVIOUS
  <2>1. ASSUME NEW s \in Sender, Lock(s) \/ Write(s) \/ Unlock(s) PROVE Inv'
    <3>1. HostInv'
      BY <2>1, LockKeeps, WriteKeeps, UnlockKeeps DEF Inv
    <3>2. UNCHANGED stm32
      BY <2>1 DEF Lock, Write, Unlock
    <3> QED
      BY <3>1, <3>2 DEF stm32, Inv, ReceiverTyped
  <2>2. CASE UNCHANGED vars
    BY <2>2 DEF vars, host, stm32, Inv, HostInv, OneWriter, EndOfLine, FramesAreWhole, Follows,
                ReceiverTyped
  <2> QED
    BY <2>1, <2>2, ArriveKeeps, RoundKeeps DEF Next
<1> QED
  BY <1>1, <1>2, PTL DEF Spec

\* The counts and buffers of both sides have their types: no reception runs past
\* the buffer, and only the holder of serial_write_lock is within a frame.
THEOREM TypeCorrect == Spec => []TypeOK
<1>1. Inv => TypeOK
  BY DEF Inv, HostInv, OneWriter, ReceiverTyped, TypeOK
<1> QED
  BY <1>1, InvHolds, PTL

\* The frames of threads that call send_serialother at the same time follow each
\* other on the wire whole: it is serial_write_lock that marks where one begins.
THEOREM FramesStayWhole == Spec => []FramesAreWhole
<1>1. Inv => FramesAreWhole
  BY DEF Inv, HostInv
<1> QED
  BY <1>1, InvHolds, PTL

--------------------------------------------------------------------------------
(* The order of the commands.  While nothing is crowded the receiver is at   *)
(* one position of the stream of frames, the sender at another, and the line *)
(* holds the bytes between them.                                             *)

(* Frames whose command has reached the buffer. *)
Begun == Len(handled) + (IF task = "wait" /\ buff[0] \notin {Zero, Junk} THEN 1 ELSE 0)

(* Position of the next byte to arrive, and of the next one to be written:    *)
(* the frame's place in `sent' and the byte's in the frame.                   *)
ReadOff    == IF rx \in 1..SERIAL_BUFF_SIZE THEN rx ELSE 0
ReadFrame  == IF rx \in 1..SERIAL_BUFF_SIZE THEN Begun ELSE Begun + 1
InFrame    == serial_write_lock # Nobody /\ off[serial_write_lock] \in Offset
WriteOff   == IF InFrame THEN off[serial_write_lock] ELSE 0
WriteFrame == IF InFrame THEN Len(sent) ELSE Len(sent) + 1

(* f and o give the position of each byte on the line and of the next one.    *)
OnTheWay(f, o) ==
  /\ f \in [1..Len(line) + 1 -> Nat \ {0}] /\ o \in [1..Len(line) + 1 -> Offset]
  /\ f[1] = ReadFrame /\ o[1] = ReadOff
  /\ f[Len(line) + 1] = WriteFrame /\ o[Len(line) + 1] = WriteOff
  /\ \A i \in 1..Len(line) :
       /\ f[i] <= Len(sent)
       /\ line[i] = <<sent[f[i]][1], sent[f[i]][2], o[i]>>
       /\ IF o[i] = SERIAL_BUFF_SIZE THEN f[i + 1] = f[i] + 1 /\ o[i + 1] = 0
                                     ELSE f[i + 1] = f[i] /\ o[i + 1] = o[i] + 1

(* What the buffer and `handled' hold.                                        *)
Received ==
  /\ DR = Zero
  /\ rx = 0 /\ task = "wait" => buff[0] \in {Zero, Junk}
  /\ task = "wait" /\ buff[0] \notin {Zero, Junk} =>
       /\ Len(handled) + 1 <= Len(sent)
       /\ buff[0] = <<sent[Len(handled) + 1][1], sent[Len(handled) + 1][2], 0>>
  /\ Len(handled) <= Len(sent)
  /\ \A i \in 1..Len(handled) : handled[i] = <<sent[i][1], sent[i][2], 0>>

Ordered ==
  /\ \A s \in Sender : serial_write_lock = s =>
       sent # <<>> /\ sent[Len(sent)] = <<s, n[s]>>
  /\ crowded \/ (Received /\ \E f, o : OnTheWay(f, o))

LEMMA LengthsTyped ==
  ASSUME Inv
  PROVE  Len(line) \in Nat /\ Len(sent) \in Nat /\ Len(handled) \in Nat /\ Begun \in Nat
<1>1. Len(line) \in Nat /\ Len(sent) \in Nat /\ Len(handled) \in Nat
  BY LenProperties DEF Inv, HostInv, ReceiverTyped
<1> QED
  BY <1>1 DEF Begun

LEMMA LockOrdered ==
  ASSUME Inv, Ordered, NEW s \in Sender, Lock(s)
  PROVE  Ordered'
<1>1. /\ serial_write_lock = Nobody /\ serial_write_lock' = s /\ off' = [off EXCEPT ![s] = 0]
      /\ n' = [n EXCEPT ![s] = @ + 1] /\ sent' = Append(sent, <<s, n[s] + 1>>)
      /\ UNCHANGED <<line, stm32>>
  BY DEF Lock
<1>2. n'[s] = n[s] + 1 /\ off'[s] = 0 /\ n[s] \in Nat /\ n[s] + 1 \in 1..MaxFrames
  BY <1>1, Numbers DEF Inv, HostInv, OneWriter, Lock
<1>3. /\ Len(sent') = Len(sent) + 1 /\ sent'[Len(sent) + 1] = <<s, n'[s]>> /\ sent' # <<>>
      /\ \A i \in 1..Len(sent) : sent'[i] = sent[i]
  BY <1>1, <1>2, AppendProperties DEF Inv, HostInv
<1>4. ASSUME ~crowded PROVE Received'
  BY <1>1, <1>3, <1>4, LengthsTyped DEF Ordered, Received, stm32
<1>5. ASSUME ~crowded PROVE \E f, o : OnTheWay(f, o)'
  <2>1. PICK f, o : OnTheWay(f, o)
    BY <1>5 DEF Ordered
  <2>2. WriteFrame' = WriteFrame /\ WriteOff' = WriteOff
    <3>1. InFrame' /\ ~InFrame
      BY <1>1, <1>2, NobodyAssumption, Numbers DEF InFrame
    <3> QED
      BY <1>1, <1>2, <1>3, <3>1 DEF WriteFrame, WriteOff
  <2>3. ReadFrame' = ReadFrame /\ ReadOff' = ReadOff
    BY <1>1 DEF ReadFrame, ReadOff, Begun, stm32
  <2>4. \A i \in 1..Len(line) : f[i] \in 1..Len(sent)
    BY <2>1, LengthsTyped DEF OnTheWay
  <2>5. /\ line' = line
        /\ \A i \in 1..Len(line) : f[i] <= Len(sent') /\ sent'[f[i]] = sent[f[i]]
    BY <1>1, <1>3, <2>4, LengthsTyped
  <2>6. OnTheWay(f, o)'
    BY <2>1, <2>2, <2>3, <2>5 DEF OnTheWay
  <2> QED
    BY <2>6
<1>6. \A u \in Sender : serial_write_lock' = u => sent' # <<>> /\ sent'[Len(sent')] = <<u, n'[u]>>
  BY <1>1, <1>3
<1>7. crowded' = crowded
  BY <1>1 DEF stm32
<1> QED
  BY <1>4, <1>5, <1>6, <1>7 DEF Ordered

LEMMA WriteOrdered ==
  ASSUME Inv, Ordered, NEW s \in Sender, Write(s)
  PROVE  Ordered'
<1>1. /\ off[s] \in Offset /\ line' = Append(line, <<s, n[s], off[s]>>)
      /\ off' = [off EXCEPT ![s] = @ + 1] /\ UNCHANGED <<serial_write_lock, n, sent, stm32>>
  BY DEF Write
<1>2. serial_write_lock = s /\ s # Nobody /\ off'[s] = off[s] + 1 /\ n[s] \in 1..MaxFrames
  BY <1>1, Numbers, NobodyAssumption DEF Inv, HostInv, OneWriter
<1>3. /\ Len(line') = Len(line) + 1 /\ line'[Len(line) + 1] = <<s, n[s], off[s]>>
      /\ \A i \in 1..Len(line) : line'[i] = line[i]
  BY <1>1, <1>2, AppendProperties DEF Inv, HostInv, Byte
<1>4. sent # <<>> /\ sent[Len(sent)] = <<s, n[s]>>
  BY <1>2 DEF Ordered
<1>5. ASSUME ~crowded PROVE Received'
  BY <1>1, <1>5 DEF Ordered, Received, stm32
<1>6. ASSUME ~crowded PROVE \E f, o : OnTheWay(f, o)'
  <2>1. PICK f, o : OnTheWay(f, o)
    BY <1>6 DEF Ordered
  <2>2. InFrame /\ WriteFrame = Len(sent) /\ WriteOff = off[s] /\ Len(sent) \in Nat \ {0}
    BY <1>1, <1>2, <1>4, LengthsTyped, EmptySeq DEF InFrame, WriteFrame, WriteOff, Inv, HostInv
  <2>3. IF off[s] = SERIAL_BUFF_SIZE THEN WriteFrame' = Len(sent) + 1 /\ WriteOff' = 0
                                     ELSE WriteFrame' = Len(sent) /\ WriteOff' = off[s] + 1
    BY <1>1, <1>2, Numbers DEF InFrame, WriteFrame, WriteOff
  <2>4. WriteFrame' \in Nat \ {0} /\ WriteOff' \in Offset
    BY <1>1, <2>2, <2>3, Numbers
  <2>5. ReadFrame' = ReadFrame /\ ReadOff' = ReadOff
    BY <1>1 DEF ReadFrame, ReadOff, Begun, stm32
  <2>6. PICK L \in Nat \ {0}, wf \in Nat \ {0}, wo \in Offset :
          L = Len(line) + 1 /\ wf = WriteFrame' /\ wo = WriteOff'
    BY <2>4, LengthsTyped
  <2> DEFINE F == [i \in 1..L + 1 |-> IF i <= L THEN f[i] ELSE wf]
             O == [i \in 1..L + 1 |-> IF i <= L THEN o[i] ELSE wo]
  <2>7. F \in [1..L + 1 -> Nat \ {0}] /\ O \in [1..L + 1 -> Offset]
    BY <2>1, <2>6 DEF OnTheWay
  <2>8. /\ F[1] = ReadFrame' /\ O[1] = ReadOff'
        /\ F[L + 1] = WriteFrame' /\ O[L + 1] = WriteOff'
    BY <2>1, <2>5, <2>6 DEF OnTheWay
  <2>9. ASSUME NEW i \in 1..L
        PROVE  /\ F[i] <= Len(sent)
               /\ line'[i] = <<sent[F[i]][1], sent[F[i]][2], O[i]>>
               /\ IF O[i] = SERIAL_BUFF_SIZE THEN F[i + 1] = F[i] + 1 /\ O[i + 1] = 0
                                             ELSE F[i + 1] = F[i] /\ O[i + 1] = O[i] + 1
    <3>1. CASE i = L
      <4>1. F[i] = Len(sent) /\ O[i] = off[s] /\ F[i + 1] = WriteFrame' /\ O[i + 1] = WriteOff'
        <5>1. i \in 1..L + 1 /\ i + 1 \in 1..L + 1 /\ ~(i + 1 <= L) /\ i <= L
          BY <3>1
        <5>2. F[i] = f[i] /\ O[i] = o[i] /\ F[i + 1] = wf /\ O[i + 1] = wo
          BY <5>1
        <5> QED
          BY <2>1, <2>2, <2>6, <3>1, <5>2 DEF OnTheWay
      <4>2. line'[i] = <<s, n[s], off[s]>>
        BY <1>3, <2>6, <3>1
      <4>3. sent[F[i]][1] = s /\ sent[F[i]][2] = n[s]
        BY <1>4, <4>1
      <4> HIDE DEF F, O
      <4> QED
        BY <2>2, <2>3, <4>1, <4>2, <4>3
    <3>2. CASE i # L
      <4>1. i \in 1..Len(line)
        BY <2>6, <3>2, LengthsTyped
      <4>2. F[i] = f[i] /\ O[i] = o[i] /\ F[i + 1] = f[i + 1] /\ O[i + 1] = o[i + 1]
        BY <2>6, <4>1
      <4> HIDE DEF F, O
      <4> QED
        BY <1>3, <2>1, <4>1, <4>2 DEF OnTheWay
    <3> QED
      BY <3>1, <3>2
  <2>10. OnTheWay(F, O)'
    <3> HIDE DEF F, O
    <3>1. Len(line') = L
      BY <1>3, <2>6, LengthsTyped
    <3> QED
      BY <1>1, <2>7, <2>8, <2>9, <3>1 DEF OnTheWay
  <2> QED
    BY <2>10
<1>7. \A u \in Sender : serial_write_lock' = u => sent' # <<>> /\ sent'[Len(sent')] = <<u, n'[u]>>
  BY <1>1 DEF Ordered
<1>8. crowded' = crowded
  BY <1>1 DEF stm32
<1> QED
  BY <1>5, <1>6, <1>7, <1>8 DEF Ordered

LEMMA UnlockOrdered ==
  ASSUME Inv, Ordered, NEW s \in Sender, Unlock(s)
  PROVE  Ordered'
<1>1. /\ off[s] = SERIAL_BUFF_SIZE + 1 /\ serial_write_lock' = Nobody
      /\ UNCHANGED <<n, line, sent, stm32>>
  BY DEF Unlock
<1>2. serial_write_lock = s /\ ~InFrame /\ ~InFrame'
  BY <1>1, Numbers DEF Inv, HostInv, OneWriter, InFrame
<1>3. ASSUME ~crowded PROVE Received' /\ \E f, o : OnTheWay(f, o)'
  <2>1. PICK f, o : OnTheWay(f, o)
    BY <1>3 DEF Ordered
  <2>2. WriteFrame' = WriteFrame /\ WriteOff' = WriteOff
    BY <1>1, <1>2 DEF WriteFrame, WriteOff
  <2>3. ReadFrame' = ReadFrame /\ ReadOff' = ReadOff
    BY <1>1 DEF ReadFrame, ReadOff, Begun, stm32
  <2>4. OnTheWay(f, o)'
    BY <1>1, <2>1, <2>2, <2>3 DEF OnTheWay
  <2> QED
    BY <1>1, <1>3, <2>4 DEF Ordered, Received, stm32
<1> QED
  BY <1>1, <1>3, NobodyAssumption DEF Ordered, stm32

LEMMA ArriveOrdered ==
  ASSUME Inv, Ordered, Arrive
  PROVE  Ordered'
<1>1. /\ line # <<>> /\ line' = Tail(line)
      /\ UNCHANGED <<serial_write_lock, off, n, sent, task, handled>>
  BY DEF Arrive
<1>2. /\ Len(line) \in Nat \ {0} /\ Len(line') = Len(line) - 1
      /\ \A i \in 1..Len(line') : line'[i] = line[i + 1]
      /\ Head(line) = line[1]
  BY <1>1, HeadTailProperties, EmptySeq, LengthsTyped DEF Inv, HostInv
<1>3. ASSUME ~crowded'
      PROVE  Received' /\ \E f, o : OnTheWay(f, o)'
  <2>1. /\ ~crowded /\ rx # Ready /\ Take(Head(line), rx) /\ UNCHANGED DR
        /\ ~(task = "handle" /\ Head(line)[3] = 0)
    BY <1>3 DEF Arrive
  <2>2. Received /\ \E f, o : OnTheWay(f, o)
    BY <2>1 DEF Ordered
  <2>3. PICK f, o : OnTheWay(f, o)
    BY <2>2
  <2>4. /\ rx \in Offset /\ buff' = [buff EXCEPT ![rx] = line[1]] /\ rx' = rx + 1
        /\ buff \in [Offset -> Byte \cup {Zero, Junk}] /\ task \in {"wait", "handle"}
    BY <1>2, <2>1, Numbers DEF Take, Inv, ReceiverTyped
  <2>5. /\ f[1] \in 1..Len(sent) /\ line[1] = <<sent[f[1]][1], sent[f[1]][2], o[1]>>
        /\ IF o[1] = SERIAL_BUFF_SIZE THEN f[2] = f[1] + 1 /\ o[2] = 0
                                      ELSE f[2] = f[1] /\ o[2] = o[1] + 1
        /\ f[1] = ReadFrame /\ o[1] = ReadOff
    <3>1. 1 \in 1..Len(line) /\ 1 \in 1..Len(line) + 1
      BY <1>2
    <3>2. f[1] \in Nat \ {0}
      BY <2>3, <3>1 DEF OnTheWay
    <3> QED
      BY <2>3, <3>1, <3>2, LengthsTyped DEF OnTheWay
  <2>6. o[1] = rx
    BY <2>4, <2>5, Numbers DEF ReadOff
  <2>7. line[1] \in Byte /\ line[1][3] = rx
    <3>1. line[1] \in Byte
      BY <1>2, ElementOfSeq DEF Inv, HostInv
    <3> QED
      BY <2>5, <2>6, <3>1
  <2>8. Received' /\ ReadFrame' = f[2] /\ ReadOff' = o[2]
    <3>1. CASE rx = 0
      <4>1. task = "wait" /\ buff[0] \in {Zero, Junk}
        BY <1>2, <2>1, <2>2, <2>4, <2>7, <3>1, BytesAreBytes DEF Received
      <4>2. buff'[0] = line[1]
        BY <2>4, <3>1
      <4>3. /\ ReadFrame = Len(handled) + 1 /\ ReadFrame' = Len(handled) + 1 /\ ReadOff' = 1
        <5>1. rx \notin 1..SERIAL_BUFF_SIZE /\ rx' = 1 /\ 1 \in 1..SERIAL_BUFF_SIZE
          BY <2>4, <3>1, Numbers
        <5>2. buff'[0] \notin {Zero, Junk} /\ task' = "wait" /\ handled' = handled
          BY <1>1, <2>7, <4>1, <4>2, BytesAreBytes
        <5>3. Begun = Len(handled) /\ Begun' = Len(handled) + 1
          BY <4>1, <5>2, LengthsTyped DEF Begun
        <5> QED
          BY <5>1, <5>3 DEF ReadFrame, ReadOff
      <4>4. f[2] = f[1] /\ o[2] = 1
        BY <2>5, <2>6, <3>1, Numbers
      <4>5. Received'
        <5>1. Len(handled) + 1 <= Len(sent)
          BY <2>5, <4>3, LengthsTyped
        <5>2. buff'[0] = <<sent[Len(handled) + 1][1], sent[Len(handled) + 1][2], 0>>
          BY <2>5, <2>6, <3>1, <4>2, <4>3
        <5> QED
          BY <1>1, <2>1, <2>2, <2>4, <3>1, <5>1, <5>2 DEF Received
      <4> QED
        BY <2>5, <4>3, <4>4, <4>5
    <3>2. CASE rx # 0
      <4>1. buff'[0] = buff[0] /\ rx \in 1..SERIAL_BUFF_SIZE /\ rx' # 0
        BY <2>4, <3>2, Numbers
      <4>2. Begun' = Begun
        BY <1>1, <4>1 DEF Begun
      <4>3. Received'
        BY <1>1, <2>1, <2>2, <4>1 DEF Received
      <4>4. ReadFrame = Begun /\ f[1] = Begun
        BY <2>5, <4>1 DEF ReadFrame
      <4>5. CASE rx = SERIAL_BUFF_SIZE
        <5>1. rx' \notin 1..SERIAL_BUFF_SIZE
          BY <2>4, <4>5, Numbers
        <5>2. ReadFrame' = Begun + 1 /\ ReadOff' = 0
          BY <4>2, <5>1 DEF ReadFrame, ReadOff
        <5> QED
          BY <2>5, <2>6, <4>3, <4>4, <4>5, <5>2
      <4>6. CASE rx # SERIAL_BUFF_SIZE
        <5>1. rx' \in 1..SERIAL_BUFF_SIZE
          BY <2>4, <4>1, <4>6, Numbers
        <5>2. ReadFrame' = Begun /\ ReadOff' = rx + 1
          BY <2>4, <4>2, <5>1 DEF ReadFrame, ReadOff
        <5> QED
          BY <2>5, <2>6, <4>3, <4>4, <4>6, <5>2
      <4> QED
        BY <4>5, <4>6
    <3> QED
      BY <3>1, <3>2
  <2>9. PICK L \in Nat : L = Len(line')
    BY <1>2
  <2> DEFINE F == [i \in 1..L + 1 |-> f[i + 1]]
             O == [i \in 1..L + 1 |-> o[i + 1]]
  <2>10. F \in [1..L + 1 -> Nat \ {0}] /\ O \in [1..L + 1 -> Offset]
    BY <1>2, <2>3, <2>9 DEF OnTheWay
  <2>11. F[1] = f[2] /\ O[1] = o[2] /\ F[L + 1] = WriteFrame' /\ O[L + 1] = WriteOff'
    <3>1. WriteFrame' = WriteFrame /\ WriteOff' = WriteOff
      BY <1>1 DEF WriteFrame, WriteOff, InFrame
    <3>2. F[1] = f[2] /\ O[1] = o[2] /\ F[L + 1] = f[Len(line) + 1] /\ O[L + 1] = o[Len(line) + 1]
      BY <1>2, <2>9
    <3> QED
      BY <2>3, <3>1, <3>2 DEF OnTheWay
  <2>12. ASSUME NEW i \in 1..L
         PROVE  /\ F[i] <= Len(sent)
                /\ line'[i] = <<sent[F[i]][1], sent[F[i]][2], O[i]>>
                /\ IF O[i] = SERIAL_BUFF_SIZE THEN F[i + 1] = F[i] + 1 /\ O[i + 1] = 0
                                              ELSE F[i + 1] = F[i] /\ O[i + 1] = O[i] + 1
    <3>1. i + 1 \in 1..Len(line) /\ line'[i] = line[i + 1]
      BY <1>2, <2>9
    <3>2. F[i] = f[i + 1] /\ O[i] = o[i + 1] /\ F[i + 1] = f[i + 1 + 1] /\ O[i + 1] = o[i + 1 + 1]
      BY <2>9
    <3> HIDE DEF F, O
    <3> QED
      BY <2>3, <3>1, <3>2 DEF OnTheWay
  <2>13. OnTheWay(F, O)'
    <3> HIDE DEF F, O
    <3> QED
      BY <1>1, <2>8, <2>9, <2>10, <2>11, <2>12 DEF OnTheWay
  <2> QED
    BY <2>8, <2>13
<1> QED
  BY <1>1, <1>3 DEF Ordered

LEMMA RoundOrdered ==
  ASSUME Inv, Ordered, Poll \/ PollBusy \/ Handle
  PROVE  Ordered'
<1>1. UNCHANGED <<serial_write_lock, off, n, line, sent, crowded>>
  BY DEF Poll, PollBusy, Handle, host
<1>2. ASSUME ~crowded
      PROVE  Received' /\ ReadFrame' = ReadFrame /\ ReadOff' = ReadOff
  <2>1. Received /\ DR = Zero
    BY <1>2 DEF Ordered, Received
  <2>2. 0 \in Offset /\ buff \in [Offset -> Byte \cup {Zero, Junk}] /\ handled \in Seq(Byte)
    BY Numbers DEF Inv, ReceiverTyped
  <2>3. ASSUME task = "wait", Read, UNCHANGED <<DR, buff>>,
               rx' = rx \/ (rx = Ready /\ rx' = 0)
        PROVE  Received' /\ ReadFrame' = ReadFrame /\ ReadOff' = ReadOff
    <3>1. (rx' \in 1..SERIAL_BUFF_SIZE) = (rx \in 1..SERIAL_BUFF_SIZE)
          /\ (rx \in 1..SERIAL_BUFF_SIZE => rx' = rx)
      BY <2>3, Numbers
    <3>2. CASE buff[0] \in {Zero, Junk}
      <4>1. UNCHANGED <<handled, task>>
        BY <2>3, <3>2, BytesAreBytes DEF Read
      <4>2. Begun' = Begun
        BY <2>3, <3>2, <4>1 DEF Begun
      <4>3. Received'
        BY <1>1, <2>1, <2>3, <3>2, <4>1 DEF Received
      <4> QED
        BY <3>1, <4>2, <4>3 DEF ReadFrame, ReadOff
    <3>3. CASE buff[0] \notin {Zero, Junk}
      <4>1. /\ Len(handled) + 1 <= Len(sent)
            /\ buff[0] = <<sent[Len(handled) + 1][1], sent[Len(handled) + 1][2], 0>>
        BY <2>1, <2>3, <3>3 DEF Received
      <4>2. buff[0][3] = 0 /\ buff[0] \in Byte
        BY <2>2, <3>3, <4>1
      <4>3. handled' = Append(handled, buff[0]) /\ task' = "handle"
        BY <2>3, <3>3, <4>2, BytesAreBytes DEF Read
      <4>4. /\ Len(handled') = Len(handled) + 1 /\ handled'[Len(handled) + 1] = buff[0]
            /\ \A i \in 1..Len(handled) : handled'[i] = handled[i]
        BY <2>2, <4>2, <4>3, AppendProperties
      <4>5. Begun' = Begun
        BY <2>3, <3>3, <4>3, <4>4, LengthsTyped DEF Begun
      <4>6. \A i \in 1..Len(handled') : handled'[i] = <<sent[i][1], sent[i][2], 0>>
        BY <2>1, <4>1, <4>4, LengthsTyped DEF Received
      <4>7. Received'
        BY <1>1, <2>1, <2>3, <4>1, <4>3, <4>4, <4>6 DEF Received
      <4> QED
        BY <3>1, <4>5, <4>7 DEF ReadFrame, ReadOff
    <3> QED
      BY <3>2, <3>3
  <2>4. CASE Poll
    <3>1. UNCHANGED <<DR, buff>> /\ (rx' = rx \/ (rx = Ready /\ rx' = 0))
      BY <2>1, <2>4 DEF Poll, Receive_IT
    <3> QED
      BY <2>3, <2>4, <3>1 DEF Poll
  <2>5. CASE PollBusy
    BY <2>3, <2>5 DEF PollBusy
  <2>6. CASE Handle
    <3>1. task = "handle" /\ task' = "wait" /\ UNCHANGED <<DR, rx, handled>>
      BY <2>6 DEF Handle
    <3>2. buff'[0] = Zero
      BY <2>2, <2>6, Numbers DEF Handle
    <3>3. Begun' = Begun
      BY <3>1, <3>2, BytesAreBytes DEF Begun
    <3> QED
      BY <1>1, <2>1, <3>1, <3>2, <3>3 DEF Received, ReadFrame, ReadOff
  <2> QED
    BY <2>4, <2>5, <2>6
<1>3. ASSUME ~crowded PROVE \E f, o : OnTheWay(f, o)'
  <2>1. PICK f, o : OnTheWay(f, o)
    BY <1>3 DEF Ordered
  <2>2. WriteFrame' = WriteFrame /\ WriteOff' = WriteOff
    BY <1>1 DEF WriteFrame, WriteOff, InFrame
  <2>3. OnTheWay(f, o)'
    BY <1>1, <1>2, <1>3, <2>1, <2>2 DEF OnTheWay
  <2> QED
    BY <2>3
<1> QED
  BY <1>1, <1>2, <1>3 DEF Ordered

\* As long as the frames keep their distance from the rounds, StartRecv7200
\* executes each once and in order and nothing else: the byte count of the
\* reception, the memset and the round's place in the frame never put it out of
\* step with the stream.
THEOREM CommandsStayInOrder == Spec => []CommandsInOrder
<1>1. Init => Ordered
  <2> SUFFICES ASSUME Init PROVE Ordered
    OBVIOUS
  <2>1. line = <<>> /\ sent = <<>> /\ handled = <<>> /\ Len(line) = 0 /\ Len(sent) = 0 /\ Len(handled) = 0
    BY EmptySeq DEF Init
  <2>2. \A s \in Sender : serial_write_lock # s
    BY NobodyAssumption DEF Init
  <2>3. buff[0] \in {Zero, Junk} /\ DR = Zero /\ task = "wait" /\ rx = Ready
    BY Numbers DEF Init
  <2>4. Received
    BY <2>1, <2>3, BytesAreBytes DEF Received
  <2>5. ReadFrame = 1 /\ ReadOff = 0 /\ WriteFrame = 1 /\ WriteOff = 0
    <3>1. rx \notin 1..SERIAL_BUFF_SIZE /\ Begun = 0
      BY <2>1, <2>3, BytesAreBytes, Numbers DEF Begun
    <3>2. ~InFrame
      BY DEF Init, InFrame
    <3> QED
      BY <2>1, <3>1, <3>2 DEF ReadFrame, ReadOff, WriteFrame, WriteOff
  <2>6. OnTheWay([i \in 1..Len(line) + 1 |-> 1], [i \in 1..Len(line) + 1 |-> 0])
    BY <2>1, <2>5, Numbers DEF OnTheWay
  <2> QED
    BY <2>2, <2>4, <2>6 DEF Ordered
<1>2. Inv /\ Ordered /\ [Next]_vars => Ordered'
  <2> SUFFICES ASSUME Inv, Ordered, [Next]_vars PROVE Ordered'
    OBVIOUS
  <2>1. CASE UNCHANGED vars
    <3>1. UNCHANGED <<serial_write_lock, off, n, line, sent, DR, rx, buff, task, handled, crowded>>
      BY <2>1 DEF vars, host, stm32
    <3>2. UNCHANGED <<Begun, InFrame>>
      BY <3>1 DEF Begun, InFrame
    <3>3. UNCHANGED <<ReadFrame, ReadOff, WriteFrame, WriteOff>>
      BY <3>1, <3>2 DEF ReadFrame, ReadOff, WriteFrame, WriteOff
    <3>4. Received => Received'
      BY <3>1 DEF Received
    <3>5. \A f, o : OnTheWay(f, o) => OnTheWay(f, o)'
      BY <3>1, <3>3 DEF OnTheWay
    <3> QED
      BY <3>1, <3>4, <3>5 DEF Ordered
  <2> QED
    BY <2>1, LockOrdered, WriteOrdered, UnlockOrdered, ArriveOrdered, RoundOrdered DEF Next
<1>3. Ordered => CommandsInOrder
  BY DEF Ordered, Received, CommandsInOrder
<1> QED
  BY <1>1, <1>2, <1>3, InvHolds, PTL DEF Spec

================================================================================
