------------------------------ MODULE RealBanks -------------------------------
(***************************************************************************)
(* The two I/O cards of the TS-7200 give 20 inputs and 20 outputs each.    *)
(* sched numbers them 0..39; a card is read and written through three byte *)
(* registers ("banks") of which the third has only four lines.  The array  *)
(* real_banks, filled by get_host_cmd_task, translates one numbering into  *)
(* the other.                                                              *)
(***************************************************************************)
EXTENDS Integers

Number == 0..39       \* an input or output as the program numbers it
Bank   == 0..5        \* NUM_PORTS registers
Index  == 0..7        \* a line of a register

\* Mutant: the index is not taken relative to its bank.
real_banks_Absolute ==
  [i \in Number |->
     IF i < 20 THEN [bank |-> i \div 8, index |-> i]
               ELSE [bank |-> (i + 4) \div 8, index |-> i + 4]]

\* Mutant: the bank of the second card's numbers forgets the four unused lines.
real_banks_NoGap ==
  [i \in Number |->
     IF i < 20
     THEN [bank |-> i \div 8, index |-> i - 8 * (i \div 8)]
     ELSE [bank |-> i \div 8, index |-> i - 8 * ((i + 4) \div 8) + 4]]

real_banks ==
  [i \in Number |->
     IF i < 20
     THEN [bank |-> i \div 8, index |-> i - 8 * (i \div 8)]
     ELSE [bank |-> (i + 4) \div 8, index |-> i - 8 * ((i + 4) \div 8) + 4]]

BankOf(i)  == real_banks[i].bank
IndexOf(i) == real_banks[i].index

(* The loop of the two monitors that turns a line of a bank back into an    *)
(* input number.  It keeps comparing with the variable it has overwritten.  *)
Translate(bank, index) ==
  LET scan[n \in 0..40] ==
        IF n = 0 THEN index
        ELSE LET k == scan[n - 1]
             IN  IF BankOf(n - 1) = bank /\ IndexOf(n - 1) = k THEN n - 1 ELSE k
  IN  scan[40]
================================================================================
