------------------------------ MODULE RelayPanel ------------------------------
(***************************************************************************)
(* What the output side of sched promises, seen from the relays: a call of *)
(* change_output switches one relay, in one step.  The one thing a caller  *)
(* has to know is the restart: sched comes up believing that every relay   *)
(* is off, the cards still hold what the previous process wrote, and the   *)
(* first call on a bank drops whatever else that bank had on.              *)
(***************************************************************************)
EXTENDS RealBanks

CONSTANT Output        \* the outputs in use

VARIABLES relays,      \* the relays that are on
          known        \* the banks written since sched started

panelVars == <<relays, known>>

Neighbours(p) == {q \in Output : BankOf(q) = BankOf(p)}

PInit ==
  /\ relays = {}
  /\ known = {}

Switch(p, on) ==
  LET lost == IF BankOf(p) \in known THEN {} ELSE Neighbours(p)
  IN  /\ relays' = IF on THEN (relays \ lost) \cup {p} ELSE (relays \ lost) \ {p}
      /\ known' = known \cup {BankOf(p)}

PRestart ==
  /\ known' = {}
  /\ UNCHANGED relays

PNext == PRestart \/ \E p \in Output, on \in BOOLEAN : Switch(p, on)

PSpec == PInit /\ [][PNext]_panelVars
================================================================================
