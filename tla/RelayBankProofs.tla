---------------------------- MODULE RelayBankProofs ----------------------------
(***************************************************************************)
(* Proofs about RelayBank for any set of threads and any outputs: the      *)
(* shadow bytes can be trusted whenever io_mem_lock is free, the numbering *)
(* of the lines is exact in both directions, and change_output implements  *)
(* the one-step panel of RelayPanel.                                       *)
(***************************************************************************)
EXTENDS RelayBank, TLAPS

\* real_banks sends a number to a line that exists (cmd_tasks.c, the two loops).
LEMMA BanksTyped ==
  ASSUME NEW i \in Number
  PROVE  BankOf(i) \in Bank /\ IndexOf(i) \in Index
<1>1. CASE i < 20
  <2>1. real_banks[i] = [bank |-> i \div 8, index |-> i - 8 * (i \div 8)]
    BY <1>1 DEF real_banks
  <2>2. i \in 0..19 /\ i \div 8 \in 0..2 /\ i - 8 * (i \div 8) \in 0..7
    BY <1>1 DEF Number
  <2> QED BY <2>1, <2>2 DEF BankOf, IndexOf, Bank, Index
<1>2. CASE ~(i < 20)
  <2>1. real_banks[i] = [bank |-> (i + 4) \div 8, index |-> i - 8 * ((i + 4) \div 8) + 4]
    BY <1>2 DEF real_banks
  <2>2. i \in 20..39 /\ (i + 4) \div 8 \in 3..5 /\ i - 8 * ((i + 4) \div 8) + 4 \in 0..7
    BY <1>2 DEF Number
  <2> QED BY <2>1, <2>2 DEF BankOf, IndexOf, Bank, Index
<1> QED BY <1>1, <1>2

\* Two numbers never share a line of a bank.
LEMMA BanksInjective ==
  ASSUME NEW i \in Number, NEW j \in Number,
         BankOf(i) = BankOf(j), IndexOf(i) = IndexOf(j)
  PROVE  i = j
<1> DEFINE pos(n) == IF n < 20 THEN n ELSE n + 4
<1>1. \A n \in Number : 8 * BankOf(n) + IndexOf(n) = pos(n)
  <2>1. SUFFICES ASSUME NEW n \in Number
                 PROVE  8 * BankOf(n) + IndexOf(n) = pos(n)
    OBVIOUS
  <2>2. CASE n < 20
    <3>1. real_banks[n] = [bank |-> n \div 8, index |-> n - 8 * (n \div 8)]
      BY <2>2 DEF real_banks
    <3>2. n \in Int /\ n \div 8 \in Int
      BY DEF Number
    <3> QED BY <2>2, <3>1, <3>2 DEF BankOf, IndexOf
  <2>3. CASE ~(n < 20)
    <3>1. real_banks[n] = [bank |-> (n + 4) \div 8, index |-> n - 8 * ((n + 4) \div 8) + 4]
      BY <2>3 DEF real_banks
    <3>2. n \in Int /\ (n + 4) \div 8 \in Int
      BY DEF Number
    <3> QED BY <2>3, <3>1, <3>2 DEF BankOf, IndexOf
  <2> QED BY <2>2, <2>3
<1>2. pos(i) = pos(j)
  BY <1>1
<1>3. i \in 0..39 /\ j \in 0..39
  BY DEF Number
<1> QED BY <1>2, <1>3

\* Forty steps, one after the other.
LEMMA UpTo40 ==
  ASSUME NEW S, 0 \in S, \A n \in 0..39 : n \in S => n + 1 \in S
  PROVE  40 \in S
<1>1. 10 \in S
  OBVIOUS
<1>2. 20 \in S
  BY <1>1
<1>3. 30 \in S
  BY <1>2
<1> QED
  BY <1>3

(* The loop of the monitors finds the number of every line that has one,     *)
(* although it compares with the variable it overwrites: before it meets     *)
(* the number the variable is still the index, and from there on it is the   *)
(* number, which is no index of another line of the same bank.               *)
LEMMA TranslateExact ==
  ASSUME NEW i \in Number
  PROVE  Translate(BankOf(i), IndexOf(i)) = i
<1> DEFINE b == BankOf(i)
           x == IndexOf(i)
           scanned(g, n) == IF n = 0 THEN x
                            ELSE LET k == g[n - 1]
                                 IN  IF BankOf(n - 1) = b /\ IndexOf(n - 1) = k THEN n - 1 ELSE k
           found == [n \in 0..40 |-> IF n <= i THEN x ELSE i]
           scan == CHOOSE g : g = [n \in 0..40 |-> scanned(g, n)]
<1>1. b \in Bank /\ x \in Index /\ i \in 0..39
  BY BanksTyped DEF Number
<1>2. \A n \in Number : BankOf(n) = b /\ IndexOf(n) = x => n = i
  BY BanksInjective
<1>3. \A n \in Number : BankOf(n) = b => IndexOf(n) # i \/ n = i
  <2>1. \A n \in Number : n < 8 => BankOf(n) = 0 /\ IndexOf(n) = n
    <3> TAKE n \in Number
    <3>1. n \in 0..39 /\ (n < 8 => n \div 8 = 0 /\ n < 20)
      BY DEF Number
    <3> QED
      BY <3>1 DEF BankOf, IndexOf, real_banks
  <2>2. \A n \in Number : IndexOf(n) \in 0..7
    BY BanksTyped DEF Index
  <2>3. CASE i < 8
    BY <1>1, <1>2, <2>1, <2>3
  <2>4. CASE ~(i < 8)
    BY <1>1, <2>2, <2>4
  <2> QED
    BY <2>3, <2>4
<1> HIDE DEF b, x
<1>4. \A n \in 1..40 :
         /\ BankOf(n - 1) = b /\ IndexOf(n - 1) = x => n - 1 = i
         /\ BankOf(n - 1) = b /\ IndexOf(n - 1) = i => n - 1 = i
  BY <1>2, <1>3 DEF Number
<1>5. BankOf(i) = b /\ IndexOf(i) = x
  BY DEF b, x
<1>6. \A n \in 0..40 : found[n] = scanned(found, n)
  <2> TAKE n \in 0..40
  <2>1. CASE n = 0
    BY <1>1, <2>1
  <2>2. CASE n # 0
    <3>1. n \in 1..40 /\ n - 1 \in 0..40
      BY <2>2
    <3>2. found[n - 1] = IF n - 1 <= i THEN x ELSE i
      BY <3>1
    <3>3. found[n] = IF n <= i THEN x ELSE i
      OBVIOUS
    <3> HIDE DEF found
    <3>4. CASE n - 1 < i
      BY <1>1, <1>4, <3>1, <3>2, <3>3, <3>4
    <3>5. CASE n - 1 = i
      BY <1>1, <1>5, <3>1, <3>2, <3>3, <3>5
    <3>6. CASE n - 1 > i
      BY <1>1, <1>4, <3>1, <3>2, <3>3, <3>6
    <3> QED
      BY <1>1, <3>1, <3>4, <3>5, <3>6
  <2> QED
    BY <2>1, <2>2
<1>7. found = [n \in 0..40 |-> scanned(found, n)]
  <2> HIDE DEF scanned
  <2> QED
    BY <1>6
<1>8. scan = [n \in 0..40 |-> scanned(scan, n)]
  <2> HIDE DEF scanned, found
  <2> QED
    BY <1>7
<1>9. \A n \in 0..40 : scan[n] = scanned(scan, n)
  <2> HIDE DEF scan, scanned
  <2> QED
    BY <1>8
<1>10. scan[40] = found[40]
  <2> DEFINE S == {n \in 0..40 : scan[n] = found[n]}
  <2>1. 0 \in S
    <3> HIDE DEF scan, found
    <3> QED BY <1>6, <1>9
  <2>2. ASSUME NEW n \in 0..39, n \in S
        PROVE  n + 1 \in S
    <3>1. scanned(scan, n + 1) = scanned(found, n + 1)
      <4>1. scan[n] = found[n]
        <5> HIDE DEF scan, found
        <5> QED BY <2>2
      <4>2. n + 1 # 0 /\ (n + 1) - 1 = n
        OBVIOUS
      <4> HIDE DEF scan, found
      <4> QED BY <4>1, <4>2
    <3> HIDE DEF scan, found, scanned
    <3> QED BY <1>6, <1>9, <3>1
  <2> HIDE DEF S
  <2>3. 40 \in S
    BY <2>1, <2>2, UpTo40
  <2> QED BY <2>3 DEF S
<1>11. found[40] = i
  BY <1>1
<1>12. Translate(b, x) = scan[40]
  BY DEF Translate
<1> HIDE DEF scan, found
<1> QED
  BY <1>10, <1>11, <1>12 DEF b, x
--------------------------------------------------------------------------------
(* The inductive invariant. *)

\* What the process believes a bank to be: its relays, or all off.
Believed(b) == IF b \in known THEN card[b] ELSE {}

\* Exactly the thread that owns io_mem_lock is past the lock.
LockDiscipline ==
  \A t \in Thread : (pc[t] \in Owning) <=> (io_mem_lock = t)

\* A shadow byte differs from the belief only between the two stores.
ShadowMeaning ==
  \A b \in Bank : (\A t \in Thread : pc[t] = "card" => MyBank(t) # b)
                     => outportstatus[b] = Believed(b)

\* The byte in a caller's hands was computed from what is believed now.
InFlight ==
  \A t \in Thread : pc[t] \in {"shadow", "card"}
                      => state[t] = NewByte(Believed(MyBank(t)), call[t])

\* Between the stores the shadow is already the new byte.
AtCard ==
  \A t \in Thread : pc[t] = "card" => outportstatus[MyBank(t)] = state[t]

IInv == TypeOK /\ LockDiscipline /\ ShadowMeaning /\ InFlight /\ AtCard

LEMMA CallTyped ==
  ASSUME TypeOK, NEW t \in Thread
  PROVE  call[t].index \in Number /\ MyBank(t) \in Bank /\ IndexOf(call[t].index) \in Index
<1>1. call[t].index \in Output
  BY DEF TypeOK
<1>2. call[t].index \in Number
  BY <1>1, RelayAssumption
<1> QED BY <1>2, BanksTyped DEF MyBank

LEMMA NoCallTyped == NoCall \in [index : Output, onoff : BOOLEAN]
<1>1. (CHOOSE p \in Output : TRUE) \in Output
  BY RelayAssumption
<1> QED BY <1>1 DEF NoCall

LEMMA NewByteTyped ==
  ASSUME NEW old \in Byte, NEW c, IndexOf(c.index) \in Index
  PROVE  NewByte(old, c) \in Byte
BY DEF NewByte, Byte

LEMMA InitHolds == Init => IInv
<1> SUFFICES ASSUME Init PROVE IInv
  OBVIOUS
<1> USE DEF Init
<1>1. TypeOK
  BY NoCallTyped DEF TypeOK, Points, Byte
<1>2. LockDiscipline
  BY RelayAssumption DEF LockDiscipline, Owning
<1>3. ShadowMeaning
  BY DEF ShadowMeaning, Believed
<1>4. InFlight /\ AtCard
  BY DEF InFlight, AtCard
<1> QED BY <1>1, <1>2, <1>3, <1>4 DEF IInv

LEMMA StepHolds == IInv /\ [Next]_vars => IInv'
<1> SUFFICES ASSUME IInv, [Next]_vars PROVE IInv'
  OBVIOUS
<1> USE DEF IInv
<1>1. CASE UNCHANGED vars
  BY <1>1 DEF vars, TypeOK, LockDiscipline, ShadowMeaning, InFlight, AtCard, Believed, MyBank
<1>2. CASE Restart
  <2> USE <1>2 DEF Restart
  <2>1. TypeOK'
    BY NoCallTyped DEF TypeOK, Points, Byte
  <2>2. LockDiscipline'
    BY RelayAssumption DEF LockDiscipline, Owning
  <2>3. ShadowMeaning'
    BY DEF ShadowMeaning, Believed
  <2>4. InFlight' /\ AtCard'
    BY DEF InFlight, AtCard
  <2> QED BY <2>1, <2>2, <2>3, <2>4
<1>3. ASSUME NEW t \in Thread, NEW p \in Output, NEW on \in BOOLEAN, Call(t, p, on)
      PROVE  IInv'
  <2> USE <1>3 DEF Call, Goto
  <2>1. TypeOK'
    BY DEF TypeOK, Points
  <2>2. LockDiscipline'
    BY DEF LockDiscipline, Owning, TypeOK
  <2>3. \A u \in Thread : pc'[u] \in {"shadow", "card"} => u # t /\ pc[u] = pc'[u] /\ call'[u] = call[u]
    BY DEF TypeOK
  <2>4. \A u \in Thread : pc[u] = "card" => u # t /\ pc'[u] = "card"
    BY DEF TypeOK
  <2>5. ShadowMeaning'
    BY <2>3, <2>4 DEF ShadowMeaning, Believed, MyBank
  <2>6. InFlight' /\ AtCard'
    BY <2>3 DEF InFlight, AtCard, Believed, MyBank
  <2> QED BY <2>1, <2>2, <2>5, <2>6
<1>4. ASSUME NEW t \in Thread, Lock(t) PROVE IInv'
  <2> USE <1>4 DEF Lock, Goto
  <2>1. TypeOK'
    BY DEF TypeOK, Points
  <2>2. LockDiscipline'
    BY RelayAssumption DEF LockDiscipline, Owning, TypeOK
  <2>3. \A u \in Thread : pc'[u] \in {"shadow", "card"} <=> pc[u] \in {"shadow", "card"}
    BY DEF TypeOK
  <2>4. \A u \in Thread : pc'[u] = "card" <=> pc[u] = "card"
    BY DEF TypeOK
  <2>5. ShadowMeaning' /\ InFlight' /\ AtCard'
    BY <2>3, <2>4 DEF ShadowMeaning, InFlight, AtCard, Believed, MyBank
  <2> QED BY <2>1, <2>2, <2>5
<1>5. ASSUME NEW t \in Thread, Load(t) PROVE IInv'
  <2> USE <1>5 DEF Load, Goto
  <2>1. MyBank(t) \in Bank /\ IndexOf(call[t].index) \in Index
    BY CallTyped
  <2>2. TypeOK'
    <3>1. NewByte(outportstatus[MyBank(t)], call[t]) \in Byte
      BY <2>1, NewByteTyped DEF TypeOK
    <3> QED BY <3>1 DEF TypeOK, Points
  <2>3. LockDiscipline'
    BY DEF LockDiscipline, Owning, TypeOK
  <2>4. \A u \in Thread : u # t => pc[u] \notin {"shadow", "card"} /\ pc'[u] = pc[u]
    BY DEF LockDiscipline, Owning, TypeOK
  <2>5. pc[t] = "load" /\ pc'[t] = "shadow"
    BY DEF TypeOK
  <2>6. ShadowMeaning'
    BY <2>4, <2>5 DEF ShadowMeaning, Believed, MyBank
  <2>7. outportstatus[MyBank(t)] = Believed(MyBank(t))
    BY <2>1, <2>4, <2>5 DEF ShadowMeaning
  <2>8. InFlight'
    BY <2>4, <2>7 DEF InFlight, Believed, MyBank, TypeOK
  <2>9. AtCard'
    BY <2>4, <2>5 DEF AtCard
  <2> QED BY <2>2, <2>3, <2>6, <2>8, <2>9
<1>6. ASSUME NEW t \in Thread, StoreShadow(t) PROVE IInv'
  <2> USE <1>6 DEF StoreShadow, Goto
  <2>1. MyBank(t) \in Bank
    BY CallTyped
  <2>2. TypeOK'
    BY <2>1 DEF TypeOK, Points
  <2>3. LockDiscipline'
    BY DEF LockDiscipline, Owning, TypeOK
  <2>4. \A u \in Thread : u # t => pc[u] \notin {"shadow", "card"} /\ pc'[u] = pc[u]
    BY DEF LockDiscipline, Owning, TypeOK
  <2>5. pc[t] = "shadow" /\ pc'[t] = "card"
    BY DEF TypeOK
  <2>6. \A b \in Bank : b # MyBank(t) => outportstatus'[b] = outportstatus[b]
    BY DEF TypeOK
  <2>7. ShadowMeaning'
    BY <2>4, <2>5, <2>6 DEF ShadowMeaning, Believed, MyBank
  <2>8. InFlight'
    BY <2>4, <2>5 DEF InFlight, Believed, MyBank
  <2>9. AtCard'
    BY <2>1, <2>4 DEF AtCard, MyBank, TypeOK
  <2> QED BY <2>2, <2>3, <2>7, <2>8, <2>9
<1>7. ASSUME NEW t \in Thread, StoreCard(t) PROVE IInv'
  <2> USE <1>7 DEF StoreCard, Goto
  <2>1. MyBank(t) \in Bank
    BY CallTyped
  <2>2. TypeOK'
    BY <2>1 DEF TypeOK, Points
  <2>3. LockDiscipline'
    BY DEF LockDiscipline, Owning, TypeOK
  <2>4. \A u \in Thread : pc'[u] \notin {"shadow", "card"}
    BY DEF LockDiscipline, Owning, TypeOK
  <2>5. \A u \in Thread : u # t => pc[u] # "card"
    BY DEF LockDiscipline, Owning, TypeOK
  <2>6. card'[MyBank(t)] = outportstatus[MyBank(t)] /\ MyBank(t) \in known'
    BY <2>1 DEF AtCard, TypeOK
  <2>7. \A b \in Bank : b # MyBank(t) => Believed(b)' = Believed(b)
    BY DEF Believed, TypeOK
  <2>8. ShadowMeaning'
    BY <2>5, <2>6, <2>7 DEF ShadowMeaning, Believed
  <2>9. InFlight' /\ AtCard'
    BY <2>4 DEF InFlight, AtCard
  <2> QED BY <2>2, <2>3, <2>8, <2>9
<1>8. ASSUME NEW t \in Thread, Unlock(t) PROVE IInv'
  <2> USE <1>8 DEF Unlock, Goto
  <2>1. TypeOK'
    BY NoCallTyped DEF TypeOK, Points, Byte
  <2>2. LockDiscipline'
    BY RelayAssumption DEF LockDiscipline, Owning, TypeOK
  <2>3. \A u \in Thread : pc'[u] \notin {"shadow", "card"} /\ pc[u] # "card"
    BY DEF LockDiscipline, Owning, TypeOK
  <2>4. ShadowMeaning'
    BY <2>3 DEF ShadowMeaning, Believed
  <2>5. InFlight' /\ AtCard'
    BY <2>3 DEF InFlight, AtCard
  <2> QED BY <2>1, <2>2, <2>4, <2>5
<1> QED
  BY <1>1, <1>2, <1>3, <1>4, <1>5, <1>6, <1>7, <1>8 DEF Next, ChangeOutput

\* The inductive invariant holds in every behaviour of change_output.
THEOREM BankInvariant == Spec => []IInv
BY InitHolds, StepHolds, PTL DEF Spec

\* Type correctness: only lines 0..7 of the six registers are ever computed.
THEOREM TypeCorrect == Spec => []TypeOK
<1>1. IInv => TypeOK
  BY DEF IInv
<1> QED BY <1>1, BankInvariant, PTL

(* With io_mem_lock free, the shadow of every bank written since the start   *)
(* is its register, for any number of callers, restarts and crashes.         *)
THEOREM ShadowTrusted == Spec => []ShadowIsTruth
<1>1. IInv => ShadowIsTruth
  <2> SUFFICES ASSUME IInv, io_mem_lock = NoThread, NEW b \in known
               PROVE  outportstatus[b] = card[b]
    BY DEF ShadowIsTruth
  <2>1. \A t \in Thread : pc[t] # "card"
    BY RelayAssumption DEF IInv, LockDiscipline, Owning
  <2>2. b \in Bank
    BY DEF IInv, TypeOK
  <2> QED BY <2>1, <2>2 DEF IInv, ShadowMeaning, Believed
<1> QED BY <1>1, BankInvariant, PTL

--------------------------------------------------------------------------------
(* Refinement: the register write is the step Switch, everything else stutters. *)

LEMMA StoreCardSwitches ==
  ASSUME IInv, NEW t \in Thread, StoreCard(t)
  PROVE  Panel!Switch(call[t].index, call[t].onoff)
<1> DEFINE p == call[t].index
           b == MyBank(t)
<1> USE DEF StoreCard, Goto, IInv
<1>1. p \in Output /\ call[t].onoff \in BOOLEAN /\ b \in Bank /\ b = BankOf(p)
  BY CallTyped DEF TypeOK, MyBank
<1>2. card'[b] = NewByte(Believed(b), call[t])
  BY <1>1 DEF InFlight, TypeOK
<1>3. \A c \in Bank : c # b => card'[c] = card[c]
  BY DEF TypeOK
<1>4. \A q \in Output : BankOf(q) \in Bank
  BY BanksTyped, RelayAssumption
<1>5. \A q \in Output : BankOf(q) = b /\ IndexOf(q) = IndexOf(p) => q = p
  BY <1>1, BanksInjective, RelayAssumption
<1>6. \A q \in Output : BankOf(q) # b => (q \in RelaysOn' <=> q \in RelaysOn)
  BY <1>3, <1>4 DEF RelaysOn
<1>7. \A q \in Output : BankOf(q) = b /\ q # p =>
                          (q \in RelaysOn' <=> (b \in known /\ q \in RelaysOn))
  BY <1>1, <1>2, <1>5 DEF RelaysOn, NewByte, Believed
<1>8. p \in RelaysOn' <=> call[t].onoff = TRUE
  BY <1>1, <1>2 DEF RelaysOn, NewByte
<1>9. known' = known \cup {BankOf(p)}
  BY <1>1
<1>10. RelaysOn \subseteq Output /\ RelaysOn' \subseteq Output
  BY DEF RelaysOn
<1>11. \A q : Panel!BankOf(q) = BankOf(q)
  BY DEF Panel!BankOf, BankOf, Panel!real_banks, real_banks, Panel!Number, Number
<1> DEFINE lost == IF Panel!BankOf(p) \in known THEN {} ELSE Panel!Neighbours(p)
<1>12. \A q \in Output : q \in lost <=> (b \notin known /\ BankOf(q) = b)
  BY <1>1, <1>11 DEF Panel!Neighbours
<1>13. \A q \in Output : q # p => (q \in RelaysOn' <=> q \in RelaysOn \ lost)
  BY <1>6, <1>7, <1>12
<1> HIDE DEF lost, p, b
<1>14. RelaysOn' = IF call[t].onoff THEN (RelaysOn \ lost) \cup {p} ELSE (RelaysOn \ lost) \ {p}
  <2>1. CASE call[t].onoff = TRUE
    BY <1>1, <1>8, <1>10, <1>13, <2>1
  <2>2. CASE call[t].onoff = FALSE
    BY <1>1, <1>8, <1>10, <1>13, <2>2
  <2> QED BY <1>1, <2>1, <2>2
<1> QED BY <1>9, <1>11, <1>14 DEF Panel!Switch, lost, p

(* change_output implements RelayPanel: every step of any interleaving of    *)
(* callers, restarts and crashes is a one-step Switch, a PRestart or leaves  *)
(* the panel alone.                                                          *)
THEOREM RefinesPanel == Spec => ImplementsPanel
<1>1. Init => Panel!PInit
  <2> SUFFICES ASSUME Init PROVE Panel!PInit
    OBVIOUS
  <2>1. \A p \in Output : BankOf(p) \in Bank
    BY BanksTyped, RelayAssumption
  <2> QED BY <2>1 DEF Init, Panel!PInit, RelaysOn
<1>2. IInv /\ [Next]_vars => [Panel!PNext]_(Panel!panelVars)
  <2> SUFFICES ASSUME IInv, [Next]_vars
               PROVE  [Panel!PNext]_(Panel!panelVars)
    OBVIOUS
  <2>1. CASE UNCHANGED <<card, known>>
    BY <2>1 DEF RelaysOn, Panel!panelVars
  <2>2. CASE Restart
    BY <2>2 DEF Restart, Panel!PRestart, Panel!PNext, RelaysOn
  <2>3. ASSUME NEW t \in Thread, StoreCard(t) PROVE Panel!PNext
    <3>1. call[t].index \in Output /\ call[t].onoff \in BOOLEAN
      BY DEF IInv, TypeOK
    <3> QED BY <3>1, <2>3, StoreCardSwitches DEF Panel!PNext
  <2> QED
    BY <2>1, <2>2, <2>3
    DEF Next, ChangeOutput, Call, Lock, Load, StoreShadow, Unlock, vars
<1> QED BY <1>1, <1>2, BankInvariant, PTL DEF Spec, ImplementsPanel, Panel!PSpec
\* The relays that can be on are those of outputs.
CardLines ==
  \A b \in Bank : card[b] \subseteq {IndexOf(i) : i \in {p \in Output : BankOf(p) = b}}

LEMMA CardLinesKept ==
  ASSUME IInv, CardLines, [Next]_vars
  PROVE  CardLines'
<1>1. CASE card' = card
  BY <1>1 DEF CardLines
<1>2. ASSUME NEW t \in Thread, StoreCard(t) PROVE CardLines'
  <2>1. state[t] = NewByte(Believed(MyBank(t)), call[t])
    BY <1>2 DEF IInv, InFlight, StoreCard, Goto
  <2>2. MyBank(t) \in Bank /\ call[t].index \in Output /\ BankOf(call[t].index) = MyBank(t)
    BY CallTyped DEF IInv, TypeOK, MyBank
  <2>3. card' = [card EXCEPT ![MyBank(t)] = state[t]] /\ card \in [Bank -> Byte]
    BY <1>2 DEF StoreCard, IInv, TypeOK
  <2>4. \A b \in Bank : card'[b] = IF b = MyBank(t) THEN state[t] ELSE card[b]
    BY <2>2, <2>3
  <2>5. state[t] \subseteq card[MyBank(t)] \cup {IndexOf(call[t].index)}
    BY <2>1 DEF NewByte, Believed
  <2> QED
    BY <2>2, <2>4, <2>5 DEF CardLines
<1> QED
  BY <1>1, <1>2 DEF Next, ChangeOutput, Restart, Call, Lock, Load, StoreShadow, Unlock, vars

(* On both cards, for every choice of outputs: two outputs never share a     *)
(* line, the monitors' loop over real_banks gets back the number a line      *)
(* belongs to, and change_output never drives a line without an output.      *)
THEOREM NumberingExact == Spec => []NumberingIsExact
<1>1. Init => CardLines
  BY DEF Init, CardLines
<1>2. IInv /\ CardLines /\ [Next]_vars => CardLines'
  BY CardLinesKept
<1>3. CardLines => NumberingIsExact
  <2>1. \A i, j \in Output : BankOf(i) = BankOf(j) /\ IndexOf(i) = IndexOf(j) => i = j
    BY BanksInjective, RelayAssumption
  <2>2. \A i \in Output : Translate(BankOf(i), IndexOf(i)) = i
    BY TranslateExact, RelayAssumption
  <2> QED
    BY <2>1, <2>2 DEF CardLines, NumberingIsExact
<1> QED
  BY <1>1, <1>2, <1>3, BankInvariant, PTL DEF Spec
================================================================================
