---------------------------- MODULE RdWrLockProofs ----------------------------
(***************************************************************************)
(* Proofs about the reader/writer lock of rdwr.c for any finite set of     *)
(* threads.  The exclusion of writers is not inductive by itself: it needs *)
(* that the counters count the holders, which needs that only the owner of *)
(* the mutex changes them.                                                 *)
(***************************************************************************)
EXTENDS RdWrLock, FiniteSetTheorems, TLAPS

\* The owner of the mutex is the one thread at a point between lock and unlock.
MutexOwner == \A t \in Thread : pc[t] \in InMutex <=> mutex = t

\* Only threads inside pthread_cond_wait are blocked on lock_free.
WaitersWait == \A t \in waiters : pc[t] \in {"rwait", "wwait"}

\* The inductive invariant.
LockInv == /\ TypeOK
           /\ MutexOwner
           /\ WaitersWait
           /\ CountersMatchHolders
           /\ WriterExcludesAll

--------------------------------------------------------------------------------
\* What a step of one thread from one point to another does to the sets of
\* holders (every action of the lock moves one thread, by Goto).
LEMMA GotoHolders ==
  ASSUME TypeOK, NEW t \in Thread, NEW from, NEW to, Goto(t, from, to)
  PROVE  /\ ReadHolders' = IF to \in ReadPoints THEN ReadHolders \cup {t}
                                                ELSE ReadHolders \ {t}
         /\ WriteHolders' = IF to \in WritePoints THEN WriteHolders \cup {t}
                                                  ELSE WriteHolders \ {t}
         /\ t \in ReadHolders <=> from \in ReadPoints
         /\ t \in WriteHolders <=> from \in WritePoints
  BY DEF TypeOK, Goto, ReadHolders, WriteHolders

\* The sets of holders are finite and empty exactly when their counter is 0.
LEMMA HoldersCounted ==
  ASSUME CountersMatchHolders
  PROVE  /\ IsFiniteSet(ReadHolders) /\ IsFiniteSet(WriteHolders)
         /\ readers_reading = 0 <=> ReadHolders = {}
         /\ writer_writing = 0 <=> WriteHolders = {}
<1>1. IsFiniteSet(ReadHolders) /\ IsFiniteSet(WriteHolders)
  <2>1. ReadHolders \subseteq Thread /\ WriteHolders \subseteq Thread
    BY DEF ReadHolders, WriteHolders
  <2> QED  BY <2>1, FS_Subset, ThreadAssumption
<1> QED  BY <1>1, FS_EmptySet DEF CountersMatchHolders

--------------------------------------------------------------------------------
\* A step that leaves the holders and the counters alone keeps what relates
\* them.
LEMMA SameHolders ==
  ASSUME LockInv, ReadHolders' = ReadHolders, WriteHolders' = WriteHolders,
         UNCHANGED <<readers_reading, writer_writing>>
  PROVE  CountersMatchHolders' /\ WriterExcludesAll'
  BY DEF LockInv, CountersMatchHolders, WriterExcludesAll

LEMMA CallInv ==
  ASSUME LockInv, NEW t \in Thread, Call(t)
  PROVE  LockInv'
<1> USE DEF LockInv
<1>1. ReadHolders' = ReadHolders /\ WriteHolders' = WriteHolders
  BY GotoHolders DEF Call, ReadPoints, WritePoints
<1>2. CountersMatchHolders' /\ WriterExcludesAll'
  BY <1>1, SameHolders DEF Call
<1>3. TypeOK' /\ MutexOwner' /\ WaitersWait'
  BY ThreadAssumption
     DEF Call, Goto, TypeOK, MutexOwner, WaitersWait, InMutex, Points
<1> QED  BY <1>2, <1>3

LEMMA MutexLockInv ==
  ASSUME LockInv, NEW t \in Thread, MutexLock(t)
  PROVE  LockInv'
<1> USE DEF LockInv
<1>1. ReadHolders' = ReadHolders /\ WriteHolders' = WriteHolders
  BY GotoHolders DEF MutexLock, ReadPoints, WritePoints
<1>2. CountersMatchHolders' /\ WriterExcludesAll'
  BY <1>1, SameHolders DEF MutexLock
<1>3. TypeOK' /\ MutexOwner' /\ WaitersWait'
  BY ThreadAssumption
     DEF MutexLock, Goto, TypeOK, MutexOwner, WaitersWait, InMutex, Points
<1> QED  BY <1>2, <1>3

LEMMA MutexUnlockInv ==
  ASSUME LockInv, NEW t \in Thread, MutexUnlock(t)
  PROVE  LockInv'
<1> USE DEF LockInv
<1>1. ReadHolders' = ReadHolders /\ WriteHolders' = WriteHolders
  BY GotoHolders DEF MutexUnlock, ReadPoints, WritePoints
<1>2. CountersMatchHolders' /\ WriterExcludesAll'
  BY <1>1, SameHolders DEF MutexUnlock
<1>3. TypeOK' /\ MutexOwner' /\ WaitersWait'
  BY ThreadAssumption
     DEF MutexUnlock, Goto, TypeOK, MutexOwner, WaitersWait, InMutex, Points
<1> QED  BY <1>2, <1>3

LEMMA RLockBodyInv ==
  ASSUME LockInv, NEW t \in Thread, RLockBody(t)
  PROVE  LockInv'
<1> USE DEF LockInv
<1>1. TypeOK' /\ MutexOwner' /\ WaitersWait'
  BY ThreadAssumption
     DEF RLockBody, CondWait, Goto, TypeOK, MutexOwner, WaitersWait, InMutex, Points
<1>2. CASE writer_writing # 0
  <2>1. ReadHolders' = ReadHolders /\ WriteHolders' = WriteHolders
    BY <1>2, GotoHolders DEF RLockBody, CondWait, ReadPoints, WritePoints
  <2> QED  BY <1>1, <1>2, <2>1, SameHolders DEF RLockBody
<1>3. CASE writer_writing = 0
  <2>1. /\ ReadHolders' = ReadHolders \cup {t} /\ t \notin ReadHolders
        /\ WriteHolders' = WriteHolders /\ WriteHolders = {}
    BY <1>3, GotoHolders, HoldersCounted DEF RLockBody, ReadPoints, WritePoints
  <2>2. Cardinality(ReadHolders') = Cardinality(ReadHolders) + 1
    BY <2>1, HoldersCounted, FS_AddElement
  <2>3. CountersMatchHolders'
    BY <1>3, <2>1, <2>2 DEF RLockBody, CountersMatchHolders
  <2>4. WriterExcludesAll'
    BY <2>1 DEF WriterExcludesAll
  <2> QED  BY <1>1, <2>3, <2>4
<1> QED  BY <1>2, <1>3

LEMMA RUnlockBodyInv ==
  ASSUME LockInv, NEW t \in Thread, RUnlockBody(t)
  PROVE  LockInv'
<1> USE DEF LockInv
<1>1. /\ ReadHolders' = ReadHolders \ {t} /\ t \in ReadHolders
      /\ WriteHolders' = WriteHolders
  BY GotoHolders DEF RUnlockBody, ReadPoints, WritePoints
<1>2. readers_reading # 0
  BY <1>1, HoldersCounted
<1>3. Cardinality(ReadHolders') = Cardinality(ReadHolders) - 1
  BY <1>1, HoldersCounted, FS_RemoveElement
<1>4. CountersMatchHolders'
  BY <1>1, <1>2, <1>3 DEF RUnlockBody, CountersMatchHolders
<1>5. WriterExcludesAll'
  BY <1>1 DEF WriterExcludesAll
<1>6. TypeOK' /\ MutexOwner' /\ WaitersWait'
  BY <1>2, ThreadAssumption
     DEF RUnlockBody, CondSignal, Goto, TypeOK, MutexOwner, WaitersWait, InMutex, Points
<1> QED  BY <1>4, <1>5, <1>6

LEMMA WLockBodyInv ==
  ASSUME LockInv, NEW t \in Thread, WLockBody(t)
  PROVE  LockInv'
<1> USE DEF LockInv
<1>1. TypeOK' /\ MutexOwner' /\ WaitersWait'
  BY ThreadAssumption
     DEF WLockBody, CondWait, Goto, TypeOK, MutexOwner, WaitersWait, InMutex, Points
<1>2. CASE writer_writing # 0 \/ readers_reading # 0
  <2>1. ReadHolders' = ReadHolders /\ WriteHolders' = WriteHolders
    BY <1>2, GotoHolders DEF WLockBody, CondWait, ReadPoints, WritePoints
  <2> QED  BY <1>1, <1>2, <2>1, SameHolders DEF WLockBody
<1>3. CASE writer_writing = 0 /\ readers_reading = 0
  <2>1. /\ WriteHolders' = {t} /\ ReadHolders' = {}
    BY <1>3, GotoHolders, HoldersCounted DEF WLockBody, ReadPoints, WritePoints
  <2>2. Cardinality(WriteHolders') = 1 /\ Cardinality(ReadHolders') = 0
    BY <2>1, FS_Singleton, FS_EmptySet
  <2>3. CountersMatchHolders'
    BY <1>3, <2>2 DEF WLockBody, CountersMatchHolders
  <2>4. WriterExcludesAll'
    BY <2>1 DEF WriterExcludesAll
  <2> QED  BY <1>1, <2>3, <2>4
<1> QED  BY <1>2, <1>3

LEMMA WUnlockBodyInv ==
  ASSUME LockInv, NEW t \in Thread, WUnlockBody(t)
  PROVE  LockInv'
<1> USE DEF LockInv
<1>1. /\ WriteHolders' = {} /\ t \in WriteHolders
      /\ ReadHolders' = ReadHolders
  BY GotoHolders DEF WUnlockBody, ReadPoints, WritePoints, WriterExcludesAll
<1>2. writer_writing # 0
  BY <1>1, HoldersCounted
<1>3. CountersMatchHolders'
  BY <1>1, <1>2, FS_EmptySet DEF WUnlockBody, CountersMatchHolders
<1>4. WriterExcludesAll'
  BY <1>1 DEF WriterExcludesAll
<1>5. TypeOK' /\ MutexOwner' /\ WaitersWait'
  BY <1>2, ThreadAssumption
     DEF WUnlockBody, Goto, TypeOK, MutexOwner, WaitersWait, InMutex, Points
<1> QED  BY <1>3, <1>4, <1>5

LEMMA SpuriousWakeupInv ==
  ASSUME LockInv, NEW t \in Thread, SpuriousWakeup(t)
  PROVE  LockInv'
  BY DEF SpuriousWakeup, LockInv, TypeOK, MutexOwner, WaitersWait, WriterExcludesAll,
         CountersMatchHolders, ReadHolders, WriteHolders

--------------------------------------------------------------------------------
\* The inductive invariant holds in every behaviour of rdwr.c.
THEOREM LockInvariant == Spec => []LockInv
<1>1. Init => LockInv
  <2> SUFFICES ASSUME Init PROVE LockInv
    OBVIOUS
  <2>1. ReadHolders = {} /\ WriteHolders = {}
    BY DEF Init, ReadHolders, WriteHolders, ReadPoints, WritePoints
  <2>2. CountersMatchHolders /\ WriterExcludesAll
    BY <2>1, FS_EmptySet DEF Init, CountersMatchHolders, WriterExcludesAll
  <2> QED  BY <2>2, ThreadAssumption
           DEF Init, LockInv, TypeOK, MutexOwner, WaitersWait, InMutex, Points
<1>2. LockInv /\ [Next]_vars => LockInv'
  <2> SUFFICES ASSUME LockInv, [Next]_vars PROVE LockInv'
    OBVIOUS
  <2>1. CASE UNCHANGED vars
    BY <2>1 DEF vars, LockInv, TypeOK, MutexOwner, WaitersWait, WriterExcludesAll,
                CountersMatchHolders, ReadHolders, WriteHolders
  <2>2. ASSUME NEW t \in Thread, LockStep(t) PROVE LockInv'
    BY <2>2, MutexUnlockInv, RLockBodyInv, RUnlockBodyInv, WLockBodyInv,
       WUnlockBodyInv DEF LockStep
  <2> QED  BY <2>1, <2>2, CallInv, MutexLockInv, SpuriousWakeupInv DEF Next
<1> QED  BY <1>1, <1>2, PTL DEF Spec

\* Type correctness of the lock: in particular writer_writing, which wlock
\* increments, is never more than a flag.
THEOREM TypeCorrect == Spec => []TypeOK
  BY LockInvariant, PTL DEF LockInv

\* For any number of threads a writer is alone on the output list.
THEOREM WriterExclusion == Spec => []WriterExcludesAll
  BY LockInvariant, PTL DEF LockInv

\* For any number of threads the counters count the holders: the "return -1"
\* paths of the two unlock functions are never taken.
THEOREM CountersExact == Spec => []CountersMatchHolders
  BY LockInvariant, PTL DEF LockInv

--------------------------------------------------------------------------------
\* No wakeup is lost, for any number of threads.
THEOREM WakeupsKept == Spec => []NoLostWakeup
<1>1. Init => NoLostWakeup
  BY DEF Init, NoLostWakeup
<1>2. LockInv /\ NoLostWakeup /\ [Next]_vars => NoLostWakeup'
  <2> SUFFICES ASSUME LockInv, NoLostWakeup, [Next]_vars PROVE NoLostWakeup'
    OBVIOUS
  <2> USE DEF NoLostWakeup, LockInv, TypeOK
  <2>1. CASE UNCHANGED vars
    BY <2>1 DEF vars
  <2>2. ASSUME NEW t \in Thread, Call(t) PROVE NoLostWakeup'
    BY <2>2 DEF Call, Goto
  <2>3. ASSUME NEW t \in Thread, MutexLock(t) PROVE NoLostWakeup'
    <3>1. CASE pc'[t] \in {"rtest", "wtest"}
      <4>1. t \notin waiters
        BY <2>3 DEF MutexLock, Goto, WaitersWait
      <4> QED  BY <2>3, <3>1, <4>1 DEF MutexLock
    <3>2. CASE pc'[t] \in {"rdec", "wclr"}
      BY <2>3, <3>2 DEF MutexLock, Goto
    <3> QED  BY <2>3, <3>1, <3>2 DEF MutexLock, Goto
  <2>4. ASSUME NEW t \in Thread, MutexUnlock(t) PROVE NoLostWakeup'
    BY <2>4 DEF MutexUnlock, Goto
  <2>5. ASSUME NEW t \in Thread, RLockBody(t) PROVE NoLostWakeup'
    BY <2>5 DEF RLockBody, CondWait, Goto
  <2>6. ASSUME NEW t \in Thread, RUnlockBody(t) PROVE NoLostWakeup'
    <3>1. readers_reading # 0
      BY <2>6, GotoHolders, HoldersCounted DEF RUnlockBody, ReadPoints
    <3>2. CASE readers_reading' # 0
      BY <3>2
    <3>3. CASE readers_reading' = 0
      <4>1. CASE waiters = {}
        BY <2>6, <3>1, <3>3, <4>1 DEF RUnlockBody, CondSignal
      <4>2. ASSUME NEW w \in waiters, waiters' = waiters \ {w} PROVE NoLostWakeup'
        <5>1. pc'[w] \in {"rwait", "wwait"} /\ w \in Thread \ waiters'
          BY <2>6, <4>2 DEF RUnlockBody, Goto, WaitersWait
        <5> QED  BY <5>1
      <4> QED  BY <2>6, <3>1, <3>3, <4>1, <4>2 DEF RUnlockBody, CondSignal
    <3> QED  BY <3>2, <3>3
  <2>7. ASSUME NEW t \in Thread, WLockBody(t) PROVE NoLostWakeup'
    BY <2>7 DEF WLockBody, CondWait, Goto
  <2>8. ASSUME NEW t \in Thread, WUnlockBody(t) PROVE NoLostWakeup'
    <3>1. writer_writing # 0
      BY <2>8, GotoHolders, HoldersCounted DEF WUnlockBody, WritePoints
    <3> QED  BY <2>8, <3>1 DEF WUnlockBody
  <2>9. ASSUME NEW t \in Thread, SpuriousWakeup(t) PROVE NoLostWakeup'
    <3>1. pc'[t] \in {"rwait", "wwait"} /\ t \in Thread \ waiters'
      BY <2>9 DEF SpuriousWakeup, WaitersWait
    <3> QED  BY <3>1
  <2> QED  BY <2>1, <2>2, <2>3, <2>4, <2>5, <2>6, <2>7, <2>8, <2>9 DEF Next, LockStep
<1> QED  BY <1>1, <1>2, LockInvariant, PTL DEF Spec

--------------------------------------------------------------------------------
\* rdwr.c implements the abstract reader/writer lock: granting and giving back
\* happen at the counter updates, every other step is invisible to callers.
THEOREM RefinesRWLock == Spec => ImplementsRWLock
<1>1. Init => Abstract!AInit
  BY DEF Init, Abstract!AInit, ReadHolders, WriteHolders, ReadPoints, WritePoints
<1>2. LockInv /\ [Next]_vars => [Abstract!ANext]_(Abstract!absVars)
  <2> SUFFICES ASSUME LockInv, [Next]_vars
               PROVE  Abstract!ANext \/ UNCHANGED <<ReadHolders, WriteHolders>>
    BY DEF Abstract!absVars
  <2> USE DEF LockInv
  <2>1. CASE UNCHANGED vars
    BY <2>1 DEF vars, ReadHolders, WriteHolders
  <2>2. ASSUME NEW t \in Thread, Call(t) \/ MutexLock(t) \/ MutexUnlock(t)
        PROVE  UNCHANGED <<ReadHolders, WriteHolders>>
    BY <2>2, GotoHolders DEF Call, MutexLock, MutexUnlock, ReadPoints, WritePoints
  <2>3. ASSUME NEW t \in Thread, SpuriousWakeup(t)
        PROVE  UNCHANGED <<ReadHolders, WriteHolders>>
    BY <2>3 DEF SpuriousWakeup, ReadHolders, WriteHolders
  <2>4. ASSUME NEW t \in Thread, RLockBody(t)
        PROVE  Abstract!AcquireRead(t) \/ UNCHANGED <<ReadHolders, WriteHolders>>
    BY <2>4, GotoHolders, HoldersCounted
       DEF RLockBody, CondWait, ReadPoints, WritePoints, Abstract!AcquireRead
  <2>5. ASSUME NEW t \in Thread, RUnlockBody(t) PROVE Abstract!ReleaseRead(t)
    BY <2>5, GotoHolders DEF RUnlockBody, ReadPoints, WritePoints, Abstract!ReleaseRead
  <2>6. ASSUME NEW t \in Thread, WLockBody(t)
        PROVE  Abstract!AcquireWrite(t) \/ UNCHANGED <<ReadHolders, WriteHolders>>
    BY <2>6, GotoHolders, HoldersCounted
       DEF WLockBody, CondWait, ReadPoints, WritePoints, Abstract!AcquireWrite
  <2>7. ASSUME NEW t \in Thread, WUnlockBody(t) PROVE Abstract!ReleaseWrite(t)
    BY <2>7, GotoHolders DEF WUnlockBody, ReadPoints, WritePoints, Abstract!ReleaseWrite
  <2> QED  BY <2>1, <2>2, <2>3, <2>4, <2>5, <2>6, <2>7
           DEF Next, LockStep, Abstract!ANext
<1> QED  BY <1>1, <1>2, LockInvariant, PTL DEF Spec, ImplementsRWLock, Abstract!ASpec
================================================================================
