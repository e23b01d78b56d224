------------------------------ MODULE RWLockSpec ------------------------------
(***************************************************************************)
(* What a reader/writer lock promises its callers: a set of threads that   *)
(* hold it for reading and a set that hold it for writing.  A read lock is *)
(* granted while nobody writes, a write lock while nobody holds the lock   *)
(* at all.  This is the contract thread_io/queue/ollist_threads_rw.c       *)
(* relies on when it walks or rewrites the output list.                    *)
(***************************************************************************)
CONSTANT Thread

VARIABLES readers,   \* threads between a successful rlock and the runlock
          writers    \* threads between a successful wlock and the wunlock

absVars == <<readers, writers>>

AInit == readers = {} /\ writers = {}

AcquireRead(t) ==
  /\ t \notin readers /\ writers = {}
  /\ readers' = readers \cup {t}
  /\ UNCHANGED writers

ReleaseRead(t) ==
  /\ t \in readers
  /\ readers' = readers \ {t}
  /\ UNCHANGED writers

AcquireWrite(t) ==
  /\ readers = {} /\ writers = {}
  /\ writers' = {t}
  /\ UNCHANGED readers

ReleaseWrite(t) ==
  /\ t \in writers
  /\ writers' = writers \ {t}
  /\ UNCHANGED readers

ANext == \E t \in Thread : \/ AcquireRead(t) \/ ReleaseRead(t)
                           \/ AcquireWrite(t) \/ ReleaseWrite(t)

ASpec == AInit /\ [][ANext]_absVars
================================================================================
