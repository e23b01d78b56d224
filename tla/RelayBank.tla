------------------------------ MODULE RelayBank -------------------------------
(***************************************************************************)
(* change_output of thread_io/tasks.c with OutPortA..OutPortF of ioports.c *)
(* under it: the relays of a bank share one byte register which cannot be  *)
(* read back, so every call is a read-modify-write of the shadow           *)
(* outportstatus[bank] followed by a write of the register, under          *)
(* io_mem_lock.  The monitors, the timer and the controls thread all call  *)
(* it.  A byte is modelled as the set of its lines that are 1.             *)
(*                                                                         *)
(* A thread is at: idle, want (needs io_mem_lock), load, shadow (has the   *)
(* new byte in `state', about to store it in outportstatus), card (about   *)
(* to write the register), unlock.                                         *)
(***************************************************************************)
EXTENDS RealBanks, FiniteSets

CONSTANTS Thread,      \* the threads that switch relays
          Output,      \* the outputs they switch
          NoThread     \* "io_mem_lock is free"

ASSUME RelayAssumption ==
  /\ IsFiniteSet(Thread)
  /\ NoThread \notin Thread
  /\ Output \subseteq Number /\ Output # {}

VARIABLES pc,
          io_mem_lock,    \* its owner
          call,           \* the arguments (index, onoff) of each thread's call
          state,          \* the local `state' of OutPortX
          outportstatus,  \* the shadow byte of each bank
          card,           \* the register of each bank: the relays themselves
          known           \* history: the banks written since sched started

vars == <<pc, io_mem_lock, call, state, outportstatus, card, known>>

Points == {"idle", "want", "load", "shadow", "card", "unlock"}
Owning == {"load", "shadow", "card", "unlock"}
Byte   == SUBSET Index

\* A thread outside change_output has no arguments: any fixed value will do.
NoCall == [index |-> CHOOSE p \in Output : TRUE, onoff |-> FALSE]

\* The process is up for the first time: statics are zero, relays are off.
Init ==
  /\ pc = [t \in Thread |-> "idle"]
  /\ io_mem_lock = NoThread
  /\ call = [t \in Thread |-> NoCall]
  /\ state = [t \in Thread |-> {}]
  /\ outportstatus = [b \in Bank |-> {}]
  /\ card = [b \in Bank |-> {}]
  /\ known = {}

MyBank(t) == BankOf(call[t].index)

Goto(t, from, to) ==
  /\ pc[t] = from
  /\ pc' = [pc EXCEPT ![t] = to]

--------------------------------------------------------------------------------

Call(t, p, on) ==
  /\ Goto(t, "idle", "want")
  /\ call' = [call EXCEPT ![t] = [index |-> p, onoff |-> on]]
  /\ UNCHANGED <<io_mem_lock, state, outportstatus, card, known>>

\* Mutant: change_output without its pthread_mutex_lock.
Lock_None(t) ==
  /\ Goto(t, "want", "load")
  /\ io_mem_lock' = t
  /\ UNCHANGED <<call, state, outportstatus, card, known>>

Lock(t) ==
  /\ io_mem_lock = NoThread
  /\ Goto(t, "want", "load")
  /\ io_mem_lock' = t
  /\ UNCHANGED <<call, state, outportstatus, card, known>>

\* state |= mask, or state &= ~mask
NewByte(old, c) ==
  IF c.onoff THEN old \cup {IndexOf(c.index)} ELSE old \ {IndexOf(c.index)}

Load(t) ==
  /\ Goto(t, "load", "shadow")
  /\ state' = [state EXCEPT ![t] = NewByte(outportstatus[MyBank(t)], call[t])]
  /\ UNCHANGED <<io_mem_lock, call, outportstatus, card, known>>

\* Mutant: the shadow is not stored.
StoreShadow_Skip(t) ==
  /\ Goto(t, "shadow", "card")
  /\ UNCHANGED <<io_mem_lock, call, state, outportstatus, card, known>>

StoreShadow(t) ==
  /\ Goto(t, "shadow", "card")
  /\ outportstatus' = [outportstatus EXCEPT ![MyBank(t)] = state[t]]
  /\ UNCHANGED <<io_mem_lock, call, state, card, known>>

StoreCard(t) ==
  /\ Goto(t, "card", "unlock")
  /\ card' = [card EXCEPT ![MyBank(t)] = state[t]]
  /\ known' = known \cup {MyBank(t)}
  /\ UNCHANGED <<io_mem_lock, call, state, outportstatus>>

\* Mutant: the return path leaves io_mem_lock taken.
Unlock_Keep(t) ==
  /\ Goto(t, "unlock", "idle")
  /\ call' = [call EXCEPT ![t] = NoCall]
  /\ state' = [state EXCEPT ![t] = {}]
  /\ UNCHANGED <<io_mem_lock, outportstatus, card, known>>

Unlock(t) ==
  /\ Goto(t, "unlock", "idle")
  /\ io_mem_lock' = NoThread
  /\ call' = [call EXCEPT ![t] = NoCall]
  /\ state' = [state EXCEPT ![t] = {}]
  /\ UNCHANGED <<outportstatus, card, known>>

(* The process ends, at any point (exit to shell, or a crash), and sched is  *)
(* run again: new statics, while the cards keep their registers.            *)
Restart ==
  /\ pc' = [t \in Thread |-> "idle"]
  /\ io_mem_lock' = NoThread
  /\ call' = [t \in Thread |-> NoCall]
  /\ state' = [t \in Thread |-> {}]
  /\ outportstatus' = [b \in Bank |-> {}]
  /\ known' = {}
  /\ UNCHANGED card

ChangeOutput(t) ==
  \/ \E p \in Output, on \in BOOLEAN : Call(t, p, on)
  \/ Lock(t) \/ Load(t) \/ StoreShadow(t) \/ StoreCard(t) \/ Unlock(t)

Next == Restart \/ \E t \in Thread : ChangeOutput(t)

Spec == Init /\ [][Next]_vars

(* A thread inside change_output runs on.  (io_mem_lock is a plain mutex:    *)
(* which waiter gets it is left open, so nothing is promised to one thread.) *)
Fairness == \A t \in Thread :
              WF_vars(Lock(t) \/ Load(t) \/ StoreShadow(t) \/ StoreCard(t) \/ Unlock(t))

FairSpec == Spec /\ Fairness

--------------------------------------------------------------------------------
(* Properties *)

\* Every variable has its type and only lines that exist are ever driven.
TypeOK ==
  /\ pc \in [Thread -> Points]
  /\ io_mem_lock \in Thread \cup {NoThread}
  /\ call \in [Thread -> [index : Output, onoff : BOOLEAN]]
  /\ state \in [Thread -> Byte]
  /\ outportstatus \in [Bank -> Byte]
  /\ card \in [Bank -> Byte]
  /\ known \in SUBSET Bank

(* Whenever nobody is inside change_output, the shadow of a bank that was    *)
(* written since the start is what its relays really are, so the next        *)
(* read-modify-write is computed from the truth.                             *)
ShadowIsTruth ==
  io_mem_lock = NoThread => \A b \in known : outportstatus[b] = card[b]

(* Two outputs never share a line, and the monitors' loop over real_banks    *)
(* finds the number a line belongs to: switching one output cannot be        *)
(* mistaken for another on either card.                                      *)
NumberingIsExact ==
  /\ \A i, j \in Output :
       BankOf(i) = BankOf(j) /\ IndexOf(i) = IndexOf(j) => i = j
  /\ \A i \in Output : Translate(BankOf(i), IndexOf(i)) = i
  /\ \A b \in Bank : card[b] \subseteq {IndexOf(i) : i \in {p \in Output : BankOf(p) = b}}

\* The relays that are on, as output numbers.
RelaysOn == {p \in Output : IndexOf(p) \in card[BankOf(p)]}

Panel == INSTANCE RelayPanel WITH relays <- RelaysOn

(* change_output implements the one-step Switch of RelayPanel for any number *)
(* of concurrent callers, restarts and crashes included.                     *)
ImplementsPanel == Panel!PSpec

(* If callers keep asking, somebody keeps being served: io_mem_lock is never *)
(* left taken and nobody inside change_output is stuck.                      *)
LockIsReturned == (io_mem_lock # NoThread) ~> (io_mem_lock = NoThread)

================================================================================
