------------------------------- MODULE RdWrLock -------------------------------
(***************************************************************************)
(* The reader/writer lock of thread_io/queue/rdwr.c, at the granularity of *)
(* its pthread calls: one mutex, one condition variable `lock_free' and    *)
(* two counters.  Every thread of sched takes it (through ollist_...) each  *)
(* time it looks an output record up or rewrites one.                      *)
(*                                                                         *)
(* A thread is at one of these points (R: as a reader, W: as a writer):    *)
(*   idle      not using the lock                                          *)
(*   rlock     called pthread_rdwr_rlock_np, needs the mutex               *)
(*   rtest     owns the mutex, at the while(...) test                      *)
(*   rwait     inside pthread_cond_wait (blocked while it is in `waiters', *)
(*             otherwise woken and in need of the mutex)                   *)
(*   rgot      counted itself, about to release the mutex                  *)
(*   reading   returned from rlock: reads the list                         *)
(*   runlock   called pthread_rdwr_runlock_np, needs the mutex             *)
(*   rdec      owns the mutex, at the body of runlock                      *)
(*   ret       about to release the mutex and to return from an unlock     *)
(* and the same for a writer.                                              *)
(***************************************************************************)
EXTENDS Naturals, FiniteSets

CONSTANTS Thread,     \* the threads of sched that share the lock
          NoThread    \* "the mutex is free"

ASSUME ThreadAssumption ==
  /\ IsFiniteSet(Thread)
  /\ NoThread \notin Thread

VARIABLES pc,               \* where each thread is
          mutex,            \* owner of rdwrp->mutex
          waiters,          \* threads blocked on rdwrp->lock_free
          readers_reading,  \* the two counters of pthread_rdwr_t
          writer_writing

vars == <<pc, mutex, waiters, readers_reading, writer_writing>>

Points == {"idle", "ret",
           "rlock", "rtest", "rwait", "rgot", "reading", "runlock", "rdec",
           "wlock", "wtest", "wwait", "wgot", "writing", "wunlock", "wclr"}

\* pthread_rdwr_init_np
Init ==
  /\ pc = [t \in Thread |-> "idle"]
  /\ mutex = NoThread
  /\ waiters = {}
  /\ readers_reading = 0
  /\ writer_writing = 0

Goto(t, from, to) ==
  /\ pc[t] = from
  /\ pc' = [pc EXCEPT ![t] = to]

--------------------------------------------------------------------------------
(* The caller decides to use the lock, or is done with it. *)

Call(t) ==
  /\ \/ Goto(t, "idle", "rlock")    \/ Goto(t, "idle", "wlock")
     \/ Goto(t, "reading", "runlock") \/ Goto(t, "writing", "wunlock")
  /\ UNCHANGED <<mutex, waiters, readers_reading, writer_writing>>

\* pthread_mutex_lock, at the start of each function and on the way out of
\* pthread_cond_wait
MutexLock(t) ==
  /\ mutex = NoThread
  /\ mutex' = t
  /\ \/ Goto(t, "rlock", "rtest")  \/ Goto(t, "wlock", "wtest")
     \/ Goto(t, "runlock", "rdec") \/ Goto(t, "wunlock", "wclr")
     \/ t \notin waiters /\ Goto(t, "rwait", "rtest")
     \/ t \notin waiters /\ Goto(t, "wwait", "wtest")
  /\ UNCHANGED <<waiters, readers_reading, writer_writing>>

\* pthread_mutex_unlock, the last step of each function
MutexUnlock(t) ==
  /\ mutex = t
  /\ mutex' = NoThread
  /\ \/ Goto(t, "rgot", "reading") \/ Goto(t, "wgot", "writing")
     \/ Goto(t, "ret", "idle")
  /\ UNCHANGED <<waiters, readers_reading, writer_writing>>

\* pthread_cond_wait gives the mutex up and blocks, in one step
CondWait(t, from, to) ==
  /\ Goto(t, from, to)
  /\ mutex' = NoThread
  /\ waiters' = waiters \cup {t}

\* pthread_cond_signal wakes one blocked thread, if there is one
CondSignal ==
  \/ waiters = {} /\ UNCHANGED waiters
  \/ \E w \in waiters : waiters' = waiters \ {w}

\* POSIX lets pthread_cond_wait return without a signal
SpuriousWakeup(t) ==
  /\ t \in waiters
  /\ waiters' = waiters \ {t}
  /\ UNCHANGED <<pc, mutex, readers_reading, writer_writing>>

--------------------------------------------------------------------------------
(* The bodies of the four functions. *)

\* Mutant: the reader does not look at writer_writing.
RLockBody_NoTest(t) ==
  /\ Goto(t, "rtest", "rgot")
  /\ readers_reading' = readers_reading + 1
  /\ UNCHANGED <<mutex, waiters, writer_writing>>

\* while(writer_writing) cond_wait; readers_reading++
RLockBody(t) ==
  \/ /\ writer_writing # 0
     /\ CondWait(t, "rtest", "rwait")
     /\ UNCHANGED <<readers_reading, writer_writing>>
  \/ /\ writer_writing = 0
     /\ Goto(t, "rtest", "rgot")
     /\ readers_reading' = readers_reading + 1
     /\ UNCHANGED <<mutex, waiters, writer_writing>>

\* Mutant: the last-reader test is made before the count goes down.
RUnlockBody_TestFirst(t) ==
  /\ Goto(t, "rdec", "ret")
  /\ IF readers_reading = 0
       THEN CondSignal /\ UNCHANGED readers_reading
       ELSE readers_reading' = readers_reading - 1 /\ UNCHANGED waiters
  /\ UNCHANGED <<mutex, writer_writing>>

\* Mutant: the count is cleared, as wunlock clears its flag.
RUnlockBody_Clear(t) ==
  /\ Goto(t, "rdec", "ret")
  /\ readers_reading' = 0
  /\ CondSignal
  /\ UNCHANGED <<mutex, writer_writing>>

\* nothing to release: return -1; else count down and, at 0, signal
RUnlockBody(t) ==
  /\ Goto(t, "rdec", "ret")
  /\ IF readers_reading = 0
       THEN UNCHANGED <<readers_reading, waiters>>
       ELSE /\ readers_reading' = readers_reading - 1
            /\ IF readers_reading' = 0 THEN CondSignal ELSE UNCHANGED waiters
  /\ UNCHANGED <<mutex, writer_writing>>

\* Mutants: the writer waits for the readers only, or for the writer only.
WLockBody_ReadersOnly(t) ==
  \/ /\ readers_reading # 0
     /\ CondWait(t, "wtest", "wwait")
     /\ UNCHANGED <<readers_reading, writer_writing>>
  \/ /\ readers_reading = 0
     /\ Goto(t, "wtest", "wgot")
     /\ writer_writing' = writer_writing + 1
     /\ UNCHANGED <<mutex, waiters, readers_reading>>

WLockBody_WriterOnly(t) ==
  \/ /\ writer_writing # 0
     /\ CondWait(t, "wtest", "wwait")
     /\ UNCHANGED <<readers_reading, writer_writing>>
  \/ /\ writer_writing = 0
     /\ Goto(t, "wtest", "wgot")
     /\ writer_writing' = writer_writing + 1
     /\ UNCHANGED <<mutex, waiters, readers_reading>>

\* while(writer_writing || readers_reading) cond_wait; writer_writing++
WLockBody(t) ==
  \/ /\ writer_writing # 0 \/ readers_reading # 0
     /\ CondWait(t, "wtest", "wwait")
     /\ UNCHANGED <<readers_reading, writer_writing>>
  \/ /\ writer_writing = 0 /\ readers_reading = 0
     /\ Goto(t, "wtest", "wgot")
     /\ writer_writing' = writer_writing + 1
     /\ UNCHANGED <<mutex, waiters, readers_reading>>

\* Mutant: the writer leaves without waking anybody.
WUnlockBody_NoBroadcast(t) ==
  /\ Goto(t, "wclr", "ret")
  /\ writer_writing' = 0
  /\ UNCHANGED <<mutex, waiters, readers_reading>>

\* nothing to release: return -1; else clear the flag and wake everybody
WUnlockBody(t) ==
  /\ Goto(t, "wclr", "ret")
  /\ IF writer_writing = 0
       THEN UNCHANGED <<writer_writing, waiters>>
       ELSE writer_writing' = 0 /\ waiters' = {}
  /\ UNCHANGED <<mutex, readers_reading>>

LockStep(t) == \/ MutexUnlock(t) \/ RLockBody(t) \/ RUnlockBody(t)
               \/ WLockBody(t)   \/ WUnlockBody(t)

Next == \E t \in Thread : \/ Call(t) \/ MutexLock(t) \/ LockStep(t)
                          \/ SpuriousWakeup(t)

\* A thread inside a lock function keeps running, a holder eventually calls
\* the unlock (the list functions never block while they hold the lock), and
\* the mutex is granted to a thread that keeps asking for it.
Fairness == \A t \in Thread :
  /\ WF_vars(LockStep(t))
  /\ SF_vars(MutexLock(t))
  /\ WF_vars(pc[t] \in {"reading", "writing"} /\ Call(t))

Spec == Init /\ [][Next]_vars
FairSpec == Spec /\ Fairness
--------------------------------------------------------------------------------
(* Properties. *)

\* The threads that hold the lock, from the step that grants it to the step
\* that gives it back.
ReadPoints   == {"rgot", "reading", "runlock", "rdec"}
WritePoints  == {"wgot", "writing", "wunlock", "wclr"}
ReadHolders  == {t \in Thread : pc[t] \in ReadPoints}
WriteHolders == {t \in Thread : pc[t] \in WritePoints}

\* The points at which a thread owns the mutex.
InMutex == {"rtest", "rgot", "rdec", "wtest", "wgot", "wclr", "ret"}

\* Type invariant of the lock state.  writer_writing is incremented by wlock
\* but is only ever a flag.
TypeOK ==
  /\ pc \in [Thread -> Points]
  /\ mutex \in Thread \cup {NoThread}
  /\ waiters \subseteq Thread
  /\ readers_reading \in Nat
  /\ writer_writing \in {0, 1}

\* A writer has the output list to itself: never a second writer and never a
\* reader beside it (rlock and wlock of rdwr.c, whatever the interleaving and
\* whoever is woken).
WriterExcludesAll ==
  \A w \in WriteHolders : ReadHolders = {} /\ WriteHolders = {w}

\* The counters count the holders, so the unlock functions never take their
\* "return -1" path and writer_writing = 0 in wunlock drops exactly one hold.
CountersMatchHolders ==
  /\ readers_reading = Cardinality(ReadHolders)
  /\ writer_writing = Cardinality(WriteHolders)

\* No wakeup is lost: while a thread is blocked on lock_free the lock is held
\* (so an unlock is to come) or another thread is already past its wait and
\* will take the lock or block for a reason that still holds.  runlock wakes
\* only one thread, so this is what its cond_signal rests on.
NoLostWakeup ==
  waiters # {} =>
    \/ readers_reading # 0
    \/ writer_writing # 0
    \/ \E t \in Thread \ waiters : pc[t] \in {"rwait", "wwait", "rtest", "wtest"}

\* When somebody wants the lock somebody gets it: sched's threads never all
\* sit in rlock or wlock.  (A single thread may starve: rdwr.c has no queue.)
SomebodyIsServed ==
  (\E t \in Thread : pc[t] \in {"rlock", "wlock", "rwait", "wwait"})
    ~> (ReadHolders \cup WriteHolders # {})

\* rdwr.c implements the abstract reader/writer lock.
Abstract == INSTANCE RWLockSpec WITH readers <- ReadHolders, writers <- WriteHolders
ImplementsRWLock == Abstract!ASpec
================================================================================
