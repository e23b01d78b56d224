---------------------------- MODULE HandlerOutlines ----------------------------
(***************************************************************************)
(* A proof outline for the handlers of thread_io/tasks.c: what the thread  *)
(* knows about its pointer otp and about the list before each step.  The   *)
(* rules below compose outlines the way Handlers composes the steps, and   *)
(* every handler is shown to have one.  OutputControlProofs gives the      *)
(* facts their meaning and shows that the steps keep it.                   *)
(***************************************************************************)
EXTENDS Handlers, SequenceTheorems, TLAPS

--------------------------------------------------------------------------------
(* What a thread knows between two steps of a handler, with the output p it  *)
(* knows it about.  OutputControlProofs says what each means (Knows).        *)

Kinds == {"nothing", "held", "found", "clear", "copy", "open", "counting", "expired", "off",
          "plain", "locked", "locking", "lockoff", "starting", "begun", "armed", "ready",
          "inserting"}

Knowledge == [kind : Kinds, p : Number]
Fact(kind, p) == [kind |-> kind, p |-> p]

Nothing      == Fact("nothing", 0)        \* nothing about otp
Held         == Fact("held", 0)       \* otp points to a chunk
Found(p)     == Fact("found", p)      \* otp points to the record of node p
Clear(p)     == Fact("clear", p)      \* ... whose reset field is 0
Copy(p)      == Fact("copy", p)       \* *otp has the reset field of node p
Open(p)      == Fact("open", p)       \* the reset field of node p is 0
Counting(p)  == Fact("counting", p)   \* found, timed, and reset is 1
Expired(p)   == Fact("expired", p)    \* found and timed; time_left may be 0
Off(p)       == Fact("off", p)        \* ... and the relay is off
Plain        == Fact("plain", 0)      \* *otp is of type 0 or 1
Locked       == Fact("locked", 0)     \* of type 4, its reset field is not 0
Locking      == Fact("locking", 0)    \* of type 4, and being locked
LockOff      == Fact("lockoff", 0)    \* ... with onoff at 0
Starting     == Fact("starting", 0)   \* of type 2 or 3, about to be started
Begun        == Fact("begun", 0)      \* ... with reset at 1
Armed        == Fact("armed", 0)      \* ... and time_left at time_delay
Ready        == Fact("ready", 0)      \* *otp may go into the list
Inserting(p) == Fact("inserting", p)  \* ... as the record of node p

\* The facts that leave the whole list in order.
Calm == {"nothing", "held", "found", "clear", "copy", "open", "counting", "plain", "locked"}

\* y says no more than x.
Weaker(x, y) ==
  \/ x = y
  \/ x.kind \in Calm /\ y = Nothing
  \/ x.kind = "found" /\ y \in {Held, Ready}
  \/ x = Plain /\ y = Ready

\* The steps that touch neither a record nor a relay.
Harmless == {"change_input", "clear_fake", "store1", "store2", "msg", "assign", "status",
             "status_fake", "run_time", "countdown", "blinkers", "loop", "exit"}

\* The values the handlers give the globals that have a range.
Assigned(g, v) ==
  /\ g = "run_time" => v = 0
  /\ g = "lights_on_countdown" => v = actual_lights_on_delay

(* Does(k, s, m): step s, taken where k is known, leaves m.  One operator    *)
(* for each of the steps with several cases.                                 *)

Puts(k, f, v, m) ==
  \/ f = "onoff" /\ v \in {0, 1}
       /\ \/ m = k /\ (k \in {Plain, Armed} \/ k.kind \in {"found", "off"})
          \/ v = 0 /\ k = Locking /\ m = LockOff
  \/ f = "reset"
       /\ \/ v \in {0, 1} /\ k = Plain /\ m = Plain
          \/ v = 0 /\ k.p \in {ACCON, FUELPUMP} /\ k = Found(k.p) /\ m = Clear(k.p)
          \/ v = 0 /\ k = Off(k.p) /\ m = Found(k.p)
          \/ v = 1 /\ k = Locking /\ m = Locking
          \/ v = 1 /\ k = Starting /\ m = Begun
          \/ v = 3 /\ k = Locked /\ m = Nothing

Switched(k, p, v, m) ==
  \/ p \in {ACCON, FUELPUMP}
       /\ \/ v = 0 /\ k = Nothing /\ m = Nothing
          \/ k = Clear(p) /\ m = Found(p)
          \/ k = Open(p) /\ m = Nothing
  \/ v = 0 /\ k = Expired(p) /\ m = Off(p)

Branches(k, ops, m) ==
  \E p \in {ACCON, FUELPUMP}, v \in {0, 1} :
    \/ ops = <<Out(p, v), Put("onoff", v)>> /\ k = Found(p) /\ m = Found(p)
    \/ ops = <<Out(p, v), Put("onoff", v), Insert(p)>> /\ k = Found(p) /\ m = Nothing
    \/ ops = <<Out(p, v)>> /\ k = Copy(p) /\ m = Nothing

Does(k, s, m) ==
  \/ /\ s.op \in Harmless /\ k = Nothing /\ m = Nothing
     /\ s.op = "assign" => Assigned(s.a, s.b)
  \/ s.op = "sleep" /\ k \in {Nothing, Held} /\ m = k
  \/ s.op = "find" /\ s.a \in Output /\ k = Nothing /\ m = Found(s.a)
  \/ s.op = "insert" /\ s.a \in Output
       /\ \/ k = Found(s.a) /\ m = Copy(s.a)
          \/ k = Inserting(s.a) /\ m = Nothing
  \/ s.op = "insert_otp" /\ k = Ready /\ m = Nothing
  \/ s.op = "put" /\ Puts(k, s.a, s.b, m)
  \/ s.op = "toggle" /\ (k = Plain \/ k = Expired(k.p)) /\ m = k
  \/ s.op = "start_timer" /\ k = Begun /\ m = Armed
  \/ s.op = "out" /\ s.a \in Output /\ Switched(k, s.a, s.b, m)
  \/ s.op = "out_otp" /\ s.b = 1 /\ k = Armed /\ m = Ready
  \/ s.op = "out_onoff" /\ ((k = Plain /\ m = Plain) \/ (k = LockOff /\ m = Ready))
  \/ s.op = "blink" /\ k = Counting(k.p) /\ odata[k.p].type = 3 /\ m = k
  \/ s.op = "timed" /\ k = Found(s.a) /\ m = Nothing
  \/ s.op = "count" /\ k = Counting(s.a) /\ m = Nothing
  \/ s.op = "set_output" /\ s.b \in {0, 1} /\ k = Held /\ m = Nothing
  \/ s.op = "if_reset0" /\ Branches(k, s.b, m)

Moves(k, s, m) == \E x \in Knowledge : Weaker(k, x) /\ Does(x, s, m)

\* From k, the steps s lead to m: there is a fact for every point between them.
Outline(k, s, m) ==
  /\ \E S : s \in Seq(S)
  /\ \E f \in [1..(Len(s) + 1) -> Knowledge] :
       /\ f[1] = k
       /\ Weaker(f[Len(s) + 1], m)
       /\ \A i \in 1..Len(s) : Moves(f[i], s[i], f[i + 1])

\* Every handler starts and ends like this.
Sound(s) == Outline(Nothing, s, Nothing)

--------------------------------------------------------------------------------
(* The rules *)

\* A fact is a kind and an output.
LEMMA FactTyped ==
  ASSUME NEW kind \in Kinds, NEW p \in Number
  PROVE  Fact(kind, p) \in Knowledge /\ Fact(kind, p).kind = kind /\ Fact(kind, p).p = p
BY DEF Fact, Knowledge

\* Every fact says as much as itself.
LEMMA WeakerItself ==
  ASSUME NEW x
  PROVE  Weaker(x, x)
BY DEF Weaker

\* What can be forgotten twice can be forgotten at once.
LEMMA WeakerTransitive ==
  ASSUME NEW x \in Knowledge, NEW y \in Knowledge, NEW z \in Knowledge,
         Weaker(x, y), Weaker(y, z)
  PROVE  Weaker(x, z)
<1>1. /\ Nothing.kind = "nothing" /\ Held.kind = "held" /\ Ready.kind = "ready"
      /\ Plain.kind = "plain"
  BY DEF Nothing, Held, Ready, Plain, Fact
<1> QED
  BY <1>1 DEF Weaker, Calm

\* A step may be taken where more is known than it needs.
LEMMA MovesFromStronger ==
  ASSUME NEW x \in Knowledge, NEW y \in Knowledge, NEW s, NEW m,
         Weaker(x, y), Moves(y, s, m)
  PROVE  Moves(x, s, m)
BY WeakerTransitive DEF Moves

\* A step may be taken where what it needs is known.
LEMMA DoesMoves ==
  ASSUME NEW k \in Knowledge, NEW s, NEW m, Does(k, s, m)
  PROVE  Moves(k, s, m)
BY WeakerItself DEF Moves

\* No steps.
LEMMA OutlineEmpty ==
  ASSUME NEW k \in Knowledge, NEW m, Weaker(k, m)
  PROVE  Outline(k, <<>>, m)
<1> DEFINE f == [i \in 1..1 |-> k]
<1>1. <<>> \in Seq({}) /\ Len(<<>>) = 0
  OBVIOUS
<1>2. f \in [1..1 -> Knowledge] /\ f[1] = k
  OBVIOUS
<1> HIDE DEF f
<1> QED
  BY <1>1, <1>2 DEF Outline

\* One step.
LEMMA OutlineStep ==
  ASSUME NEW k \in Knowledge, NEW s, NEW m \in Knowledge, Moves(k, s, m)
  PROVE  Outline(k, <<s>>, m)
<1> DEFINE w == <<s>>
           f == [i \in 1..2 |-> IF i = 1 THEN k ELSE m]
<1>1. w \in Seq({s}) /\ Len(w) = 1 /\ w[1] = s
  OBVIOUS
<1>2. f \in [1..2 -> Knowledge] /\ f[1] = k /\ f[2] = m
  OBVIOUS
<1> HIDE DEF f, w
<1>3. f \in [1..(Len(w) + 1) -> Knowledge] /\ f[Len(w) + 1] = m
  BY <1>1, <1>2
<1>4. Weaker(f[Len(w) + 1], m)
  BY <1>3, WeakerItself
<1>5. \A i \in 1..Len(w) : Moves(f[i], w[i], f[i + 1])
  BY <1>1, <1>2
<1>6. Outline(k, w, m)
  BY <1>1, <1>2, <1>3, <1>4, <1>5 DEF Outline
<1> QED
  BY <1>6 DEF w

\* Steps after steps.
LEMMA OutlineJoin ==
  ASSUME NEW k \in Knowledge, NEW m \in Knowledge, NEW n \in Knowledge, NEW s, NEW u,
         Outline(k, s, m), Outline(m, u, n)
  PROVE  Outline(k, s \o u, n)
<1>1. PICK S : s \in Seq(S)
  BY DEF Outline
<1>2. PICK U : u \in Seq(U)
  BY DEF Outline
<1>3. PICK f \in [1..(Len(s) + 1) -> Knowledge] :
        /\ f[1] = k
        /\ Weaker(f[Len(s) + 1], m)
        /\ \A i \in 1..Len(s) : Moves(f[i], s[i], f[i + 1])
  BY DEF Outline
<1>4. PICK g \in [1..(Len(u) + 1) -> Knowledge] :
        /\ g[1] = m
        /\ Weaker(g[Len(u) + 1], n)
        /\ \A i \in 1..Len(u) : Moves(g[i], u[i], g[i + 1])
  BY DEF Outline
<1> DEFINE w == s \o u
           ls == Len(s)
           lu == Len(u)
           h == [i \in 1..(ls + lu + 1) |-> IF i <= ls + 1 THEN f[i] ELSE g[i - ls]]
<1>5. s \in Seq(S \cup U) /\ u \in Seq(S \cup U)
  BY <1>1, <1>2
<1>6. /\ w \in Seq(S \cup U)
      /\ Len(w) = ls + lu
      /\ \A i \in 1..(ls + lu) : w[i] = IF i <= ls THEN s[i] ELSE u[i - ls]
  BY <1>5, ConcatProperties
<1>7. ls \in Nat /\ lu \in Nat
  BY <1>5
<1> HIDE DEF w
<1>8. /\ \A i \in 1..ls : Moves(f[i], s[i], f[i + 1])
      /\ \A i \in 1..lu : Moves(g[i], u[i], g[i + 1])
      /\ f \in [1..(ls + 1) -> Knowledge] /\ g \in [1..(lu + 1) -> Knowledge]
      /\ f[1] = k /\ g[1] = m
      /\ Weaker(f[ls + 1], m) /\ Weaker(g[lu + 1], n)
  BY <1>3, <1>4
<1> HIDE DEF ls, lu
<1>9. h \in [1..(ls + lu + 1) -> Knowledge]
  BY <1>7, <1>8
<1>10. h[1] = k
  BY <1>7, <1>8
<1>11. Weaker(h[ls + lu + 1], n)
  <2>1. CASE lu = 0
    <3>1. h[ls + lu + 1] = f[ls + 1] /\ Weaker(m, n)
      BY <1>7, <1>8, <2>1
    <3>2. f[ls + 1] \in Knowledge
      BY <1>7, <1>8
    <3> QED
      BY <1>8, <3>1, <3>2, WeakerTransitive
  <2>2. CASE lu # 0
    <3>1. h[ls + lu + 1] = g[lu + 1]
      BY <1>7, <1>8, <2>2
    <3> QED
      BY <1>8, <3>1
  <2> QED
    BY <2>1, <2>2
<1>12. ASSUME NEW i \in 1..(ls + lu)
       PROVE  Moves(h[i], w[i], h[i + 1])
  <2>1. CASE i <= ls
    <3>1. /\ i \in 1..(ls + lu + 1) /\ i + 1 \in 1..(ls + lu + 1)
          /\ i <= ls + 1 /\ i + 1 <= ls + 1 /\ i \in 1..ls
      BY <1>7, <2>1
    <3>2. h[i] = f[i] /\ h[i + 1] = f[i + 1]
      BY <3>1
    <3> HIDE DEF h
    <3>3. w[i] = s[i]
      BY <1>6, <2>1
    <3> QED
      BY <1>8, <3>1, <3>2, <3>3
  <2>2. CASE i = ls + 1
    <3>1. /\ i \in 1..(ls + lu + 1) /\ i + 1 \in 1..(ls + lu + 1)
          /\ i <= ls + 1 /\ ~(i <= ls) /\ ~(i + 1 <= ls + 1)
          /\ i - ls = 1 /\ (i + 1) - ls = 2 /\ 1 \in 1..lu /\ 1 + 1 = 2
      BY <1>7, <2>2
    <3>2. h[i] = f[ls + 1] /\ h[i + 1] = g[2]
      BY <2>2, <3>1
    <3> HIDE DEF h
    <3>3. w[i] = u[1]
      BY <1>6, <3>1
    <3>4. Moves(m, u[1], g[2])
      BY <1>8, <3>1
    <3>5. f[ls + 1] \in Knowledge
      BY <1>7, <1>8
    <3> QED
      BY <1>8, <3>2, <3>3, <3>4, <3>5, MovesFromStronger
  <2>3. CASE i > ls + 1
    <3> DEFINE j == i - ls
    <3>1. /\ i \in Nat /\ i \in 1..(ls + lu + 1) /\ i + 1 \in 1..(ls + lu + 1)
          /\ ~(i <= ls) /\ ~(i <= ls + 1) /\ ~(i + 1 <= ls + 1)
          /\ i - ls \in 1..lu /\ (i + 1) - ls = (i - ls) + 1
      BY <1>7, <2>3
    <3>2. h[i] = g[i - ls] /\ h[i + 1] = g[(i + 1) - ls]
      BY <3>1
    <3> HIDE DEF h
    <3>3. w[i] = u[i - ls]
      BY <1>6, <3>1
    <3>4. h[i + 1] = g[j + 1]
      BY <3>1, <3>2
    <3>5. j \in 1..lu
      BY <3>1
    <3> QED
      BY <1>8, <3>2, <3>3, <3>4, <3>5
  <2> QED
    BY <1>7, <2>1, <2>2, <2>3
<1> HIDE DEF h
<1> QED
  BY <1>6, <1>9, <1>10, <1>11, <1>12 DEF Outline, w

\* How two joins, and three, may be taken apart.
Associates(s, u, w)  == (s \o u) \o w = s \o (u \o w)
Regroups(u, b, w, x) == (u \o (b \o w)) \o x = u \o (b \o (w \o x))

\* Sequences are joined one after the other in either order.
LEMMA JoinOfTwo ==
  ASSUME NEW A, NEW s \in Seq(A), NEW u \in Seq(A), NEW w \in Seq(A)
  PROVE  Associates(s, u, w)
BY ConcatAssociative DEF Associates

\* ... and so are three.
LEMMA JoinOfThree ==
  ASSUME NEW A, NEW u \in Seq(A), NEW b \in Seq(A), NEW w \in Seq(A), NEW x \in Seq(A)
  PROVE  Regroups(u, b, w, x)
<1> DEFINE m == b \o w
<1>1. m \in Seq(A)
  OBVIOUS
<1>2. Associates(b, w, x)
  BY JoinOfTwo
<1> HIDE DEF m
<1>3. Associates(u, m, x)
  BY <1>1, JoinOfTwo
<1> QED
  BY <1>2, <1>3 DEF Associates, Regroups, m

\* The delay of an output is a byte, and that of a timed one is not zero.
LEMMA DelayFits ==
  ASSUME NEW p \in Output
  PROVE  /\ odata[p].time_delay \in 0..255
         /\ odata[p].type \in {2, 3} => odata[p].time_delay \in 1..255
<1>1. PICK r : r = odata[p]
  OBVIOUS
<1>2. r \in [input_port : 0..41, polarity : {0, 1}, type : 0..4, time_delay : 0..255]
  BY <1>1, HandlerAssumption
<1>3. r.time_delay \in 0..255
  BY <1>2
<1>4. r.type \in {2, 3} => r.time_delay > 0
  BY <1>1, HandlerAssumption
<1> QED
  BY <1>1, <1>3, <1>4

\* What holds before a step, and what is left after it.
LEMMA OutlineHead ==
  ASSUME NEW k \in Knowledge, NEW m \in Knowledge, NEW s, Outline(k, s, m), s # <<>>
  PROVE  \E n \in Knowledge : Moves(k, Head(s), n) /\ Outline(n, Tail(s), m)
<1>1. PICK S : s \in Seq(S)
  BY DEF Outline
<1>2. PICK f \in [1..(Len(s) + 1) -> Knowledge] :
        /\ f[1] = k
        /\ Weaker(f[Len(s) + 1], m)
        /\ \A i \in 1..Len(s) : Moves(f[i], s[i], f[i + 1])
  BY DEF Outline
<1> DEFINE w == Tail(s)
           l == Len(s)
           g == [i \in 1..l |-> f[i + 1]]
<1>3. /\ w \in Seq(S)
      /\ Len(w) = l - 1
      /\ \A i \in 1..(l - 1) : w[i] = s[i + 1]
      /\ l \in Nat \ {0}
      /\ Head(s) = s[1]
  BY <1>1
<1> HIDE DEF w
<1>4. /\ f \in [1..(l + 1) -> Knowledge] /\ f[1] = k /\ Weaker(f[l + 1], m)
      /\ \A i \in 1..l : Moves(f[i], s[i], f[i + 1])
  BY <1>2
<1> HIDE DEF l
<1>5. g \in [1..(Len(w) + 1) -> Knowledge] /\ Len(w) + 1 = l /\ Len(w) = l - 1
  BY <1>3, <1>4
<1>6. g[1] = f[2] /\ f[2] \in Knowledge /\ g[l] = f[l + 1]
  BY <1>3, <1>4
<1>7. ASSUME NEW i \in 1..(l - 1)
      PROVE  Moves(g[i], w[i], g[i + 1])
  <2>1. g[i] = f[i + 1] /\ g[i + 1] = f[(i + 1) + 1] /\ w[i] = s[i + 1] /\ i + 1 \in 1..l
    BY <1>3
  <2> QED
    BY <1>4, <2>1
<1>8. Moves(k, Head(s), f[2])
  <2>1. 1 \in 1..l /\ 1 + 1 = 2
    BY <1>3
  <2> QED
    BY <1>3, <1>4, <2>1
<1>9. Weaker(g[Len(w) + 1], m)
  BY <1>4, <1>5, <1>6
<1> HIDE DEF g
<1>10. Outline(f[2], w, m)
  BY <1>3, <1>5, <1>6, <1>7, <1>9 DEF Outline
<1> QED
  BY <1>6, <1>8, <1>10 DEF w

\* Nothing left to do.
LEMMA OutlineEnd ==
  ASSUME NEW k \in Knowledge, NEW m \in Knowledge, Outline(k, <<>>, m)
  PROVE  Weaker(k, m)
BY DEF Outline

\* It may be enough to know less at the end.
LEMMA OutlineWeaker ==
  ASSUME NEW k \in Knowledge, NEW m \in Knowledge, NEW n \in Knowledge, NEW s,
         Outline(k, s, m), Weaker(m, n)
  PROVE  Outline(k, s, n)
<1>1. PICK S : s \in Seq(S)
  BY DEF Outline
<1>2. PICK f \in [1..(Len(s) + 1) -> Knowledge] :
        /\ f[1] = k
        /\ Weaker(f[Len(s) + 1], m)
        /\ \A i \in 1..Len(s) : Moves(f[i], s[i], f[i + 1])
  BY DEF Outline
<1>3. f[Len(s) + 1] \in Knowledge
  BY <1>1
<1>4. Weaker(f[Len(s) + 1], n)
  BY <1>2, <1>3, WeakerTransitive
<1> QED
  BY <1>1, <1>2, <1>4 DEF Outline

\* A step before others.
LEMMA OutlineThen ==
  ASSUME NEW k \in Knowledge, NEW x \in Knowledge, NEW m \in Knowledge, NEW s, NEW u,
         Moves(k, s, x), Outline(x, u, m)
  PROVE  Outline(k, <<s>> \o u, m)
BY OutlineStep, OutlineJoin

(* The same for the tuples the handlers are written as. *)

\* A tuple is its first element and the others.
LEMMA HeadFirst ==
  ASSUME NEW S, NEW s \in Seq(S), NEW u \in Seq(S), Len(s) = Len(u) + 1,
         \A i \in 1..Len(u) : s[i + 1] = u[i]
  PROVE  s = <<s[1]>> \o u
<1> DEFINE h == <<s[1]>>
           w == h \o u
           n == Len(u)
<1>1. h \in Seq(S) /\ Len(h) = 1 /\ h[1] = s[1]
  OBVIOUS
<1> HIDE DEF h
<1>2. /\ w \in Seq(S) /\ Len(w) = Len(h) + n
      /\ \A i \in 1..(Len(h) + n) : w[i] = IF i <= Len(h) THEN h[i] ELSE u[i - Len(h)]
  BY <1>1, ConcatProperties
<1>3. n \in Nat /\ Len(s) = n + 1 /\ \A i \in 1..n : s[i + 1] = u[i]
  OBVIOUS
<1> HIDE DEF w, n
<1>4. Len(w) = Len(s) /\ Len(s) = n + 1
  BY <1>1, <1>2, <1>3
<1>5. ASSUME NEW i \in 1..Len(s)
      PROVE  s[i] = w[i]
  <2>1. w[i] = IF i <= 1 THEN h[i] ELSE u[i - 1]
    BY <1>1, <1>2, <1>3
  <2>2. CASE i = 1
    BY <1>1, <2>1, <2>2
  <2>3. CASE i # 1
    <3>1. i - 1 \in 1..n /\ (i - 1) + 1 = i
      BY <1>3, <2>3
    <3> QED
      BY <1>3, <2>1, <2>3, <3>1
  <2> QED
    BY <2>2, <2>3
<1>6. s = w
  BY <1>2, <1>4, <1>5, SeqEqual
<1> QED
  BY <1>6 DEF w, h

\* Two steps.
LEMMA Steps2 ==
  ASSUME NEW k \in Knowledge, NEW m \in Knowledge, NEW x \in Knowledge, NEW a, NEW b,
         Moves(k, a, x), Moves(x, b, m)
  PROVE  Outline(k, <<a, b>>, m)
<1>1. <<a, b>> = <<a>> \o <<b>>
  <2> DEFINE s == <<a, b>>
             u == <<b>>
  <2>1. /\ s \in Seq({a, b}) /\ u \in Seq({a, b}) /\ Len(u) = 1 /\ Len(s) = 2
        /\ s[1] = a /\ s[2] = b /\ u[1] = b
    OBVIOUS
  <2> HIDE DEF s, u
  <2>2. s = <<s[1]>> \o u
    <3>1. Len(s) = Len(u) + 1 /\ 1..Len(u) = 1..1
      BY <2>1
    <3>2. \A i \in 1..Len(u) : s[i + 1] = u[i]
      BY <2>1, <3>1
    <3> QED
      BY <2>1, <3>1, <3>2, HeadFirst
  <2>3. s = <<a>> \o u
    BY <2>1, <2>2
  <2> QED
    BY <2>3 DEF s, u
<1>2. Outline(x, <<b>>, m)
  BY OutlineStep
<1> QED
  BY <1>1, <1>2, OutlineThen

\* Three steps.
LEMMA Steps3 ==
  ASSUME NEW k \in Knowledge, NEW m \in Knowledge, NEW x \in Knowledge, NEW y \in Knowledge,
         NEW a, NEW b, NEW c,
         Moves(k, a, x), Moves(x, b, y), Moves(y, c, m)
  PROVE  Outline(k, <<a, b, c>>, m)
<1>1. <<a, b, c>> = <<a>> \o <<b, c>>
  OBVIOUS
<1>2. Outline(x, <<b, c>>, m)
  BY Steps2
<1> QED
  BY <1>1, <1>2, OutlineThen

\* Four steps.
LEMMA Steps4 ==
  ASSUME NEW k \in Knowledge, NEW m \in Knowledge, NEW x \in Knowledge, NEW y \in Knowledge,
         NEW z \in Knowledge, NEW a, NEW b, NEW c, NEW d,
         Moves(k, a, x), Moves(x, b, y), Moves(y, c, z), Moves(z, d, m)
  PROVE  Outline(k, <<a, b, c, d>>, m)
<1>1. <<a, b, c, d>> = <<a>> \o <<b, c, d>>
  OBVIOUS
<1>2. Outline(x, <<b, c, d>>, m)
  BY Steps3
<1> QED
  BY <1>1, <1>2, OutlineThen

\* Five steps.
LEMMA Steps5 ==
  ASSUME NEW k \in Knowledge, NEW m \in Knowledge, NEW x \in Knowledge, NEW y \in Knowledge,
         NEW z \in Knowledge, NEW w \in Knowledge,
         NEW a, NEW b, NEW c, NEW d, NEW e,
         Moves(k, a, x), Moves(x, b, y), Moves(y, c, z), Moves(z, d, w), Moves(w, e, m)
  PROVE  Outline(k, <<a, b, c, d, e>>, m)
<1>1. <<a, b, c, d, e>> = <<a>> \o <<b, c, d, e>>
  OBVIOUS
<1>2. Outline(x, <<b, c, d, e>>, m)
  BY Steps4
<1> QED
  BY <1>1, <1>2, OutlineThen

\* Six steps.
LEMMA Steps6 ==
  ASSUME NEW k \in Knowledge, NEW m \in Knowledge, NEW x \in Knowledge, NEW y \in Knowledge,
         NEW z \in Knowledge, NEW w \in Knowledge, NEW v \in Knowledge,
         NEW a, NEW b, NEW c, NEW d, NEW e, NEW f,
         Moves(k, a, x), Moves(x, b, y), Moves(y, c, z), Moves(z, d, w), Moves(w, e, v),
         Moves(v, f, m)
  PROVE  Outline(k, <<a, b, c, d, e, f>>, m)
<1>1. <<a, b, c, d, e, f>> = <<a>> \o <<b, c, d, e, f>>
  <2> DEFINE S == {a, b, c, d, e, f}
             s == <<a, b, c, d, e, f>>
             u == <<b, c, d, e, f>>
  <2>1. u \in Seq(S) /\ Len(u) = 5 /\ s \in Seq(S) /\ Len(s) = 6
    OBVIOUS
  <2>2. s[1] = a /\ s[2] = u[1] /\ s[3] = u[2] /\ s[4] = u[3] /\ s[5] = u[4] /\ s[6] = u[5]
    OBVIOUS
  <2> HIDE DEF s, u, S
  <2>3. \A i \in 1..5 : s[i + 1] = u[i]
    <3> TAKE i \in 1..5
    <3>1. i = 1 \/ i = 2 \/ i = 3 \/ i = 4 \/ i = 5
      OBVIOUS
    <3> QED
      BY <2>2, <3>1
  <2>4. s = <<s[1]>> \o u
    <3>1. Len(s) = Len(u) + 1 /\ 1..Len(u) = 1..5
      BY <2>1
    <3>2. \A i \in 1..Len(u) : s[i + 1] = u[i]
      BY <2>3, <3>1
    <3> QED
      BY <2>1, <3>1, <3>2, HeadFirst
  <2>5. s = <<a>> \o u
    BY <2>2, <2>4
  <2> QED
    BY <2>5 DEF s, u
<1>2. Outline(x, <<b, c, d, e, f>>, m)
  BY Steps5
<1> QED
  BY <1>1, <1>2, OutlineThen

--------------------------------------------------------------------------------
(* The steps *)

\* The facts that name no output.
LEMMA Facts ==
  /\ Nothing \in Knowledge /\ Held \in Knowledge /\ Plain \in Knowledge
  /\ Locked \in Knowledge /\ Locking \in Knowledge /\ LockOff \in Knowledge
  /\ Starting \in Knowledge /\ Begun \in Knowledge /\ Armed \in Knowledge /\ Ready \in Knowledge
<1>1. 0 \in Number
  BY DEF Number
<1>2. Nothing \in Knowledge /\ Held \in Knowledge /\ Plain \in Knowledge
  BY <1>1, FactTyped DEF Nothing, Held, Plain, Kinds
<1>3. Locked \in Knowledge /\ Locking \in Knowledge /\ LockOff \in Knowledge
  BY <1>1, FactTyped DEF Locked, Locking, LockOff, Kinds
<1>4. /\ Starting \in Knowledge /\ Begun \in Knowledge /\ Armed \in Knowledge
      /\ Ready \in Knowledge
  BY <1>1, FactTyped DEF Starting, Begun, Armed, Ready, Kinds
<1> QED
  BY <1>2, <1>3, <1>4

\* The facts about an output.
LEMMA FactsOf ==
  ASSUME NEW p \in Output
  PROVE  /\ Found(p) \in Knowledge /\ Found(p).kind = "found" /\ Found(p).p = p
         /\ Clear(p) \in Knowledge /\ Clear(p).kind = "clear" /\ Clear(p).p = p
         /\ Copy(p) \in Knowledge /\ Copy(p).kind = "copy" /\ Copy(p).p = p
         /\ Open(p) \in Knowledge /\ Open(p).kind = "open" /\ Open(p).p = p
         /\ Counting(p) \in Knowledge /\ Counting(p).kind = "counting" /\ Counting(p).p = p
         /\ Expired(p) \in Knowledge /\ Expired(p).kind = "expired" /\ Expired(p).p = p
         /\ Off(p) \in Knowledge /\ Off(p).kind = "off" /\ Off(p).p = p
         /\ Inserting(p) \in Knowledge /\ Inserting(p).kind = "inserting" /\ Inserting(p).p = p
<1>1. p \in Number
  BY HandlerAssumption
<1> QED
  BY <1>1, FactTyped DEF Found, Clear, Copy, Open, Counting, Expired, Off, Inserting, Kinds

\* What can be forgotten.
LEMMA Forget ==
  ASSUME NEW p \in Output
  PROVE  /\ Weaker(Found(p), Nothing) /\ Weaker(Found(p), Held) /\ Weaker(Found(p), Ready)
         /\ Weaker(Copy(p), Nothing) /\ Weaker(Counting(p), Nothing)
         /\ Weaker(Held, Nothing) /\ Weaker(Plain, Nothing) /\ Weaker(Plain, Ready)
         /\ Weaker(Locked, Nothing)
BY FactsOf DEF Weaker, Calm, Held, Plain, Locked, Fact

\* A step that touches no record and no relay needs and leaves nothing.
LEMMA HarmlessMoves ==
  ASSUME NEW s, s.op \in Harmless, s.op = "assign" => Assigned(s.a, s.b)
  PROVE  Moves(Nothing, s, Nothing)
BY Facts, DoesMoves DEF Does

\* A pointer survives a sleep; what it points to may not be trusted.
LEMMA SleepMoves == Moves(Nothing, Sleep, Nothing) /\ Moves(Held, Sleep, Held)
<1>1. Sleep.op = "sleep"
  BY DEF Sleep, Op
<1> QED
  BY <1>1, Facts, DoesMoves DEF Does

\* change_input
LEMMA InputMoves ==
  ASSUME NEW i, NEW v
  PROVE  Moves(Nothing, Input(i, v), Nothing)
<1>1. Input(i, v).op = "change_input"
  BY DEF Input, Op
<1> QED
  BY <1>1, HarmlessMoves DEF Harmless

\* add_msg_queue
LEMMA MsgMoves ==
  ASSUME NEW c
  PROVE  Moves(Nothing, Msg(c), Nothing)
<1>1. Msg(c).op = "msg"
  BY DEF Msg, Op
<1> QED
  BY <1>1, HarmlessMoves DEF Harmless

\* An assignment to a global, within its range.
LEMMA AssignMoves ==
  ASSUME NEW g, NEW v, Assigned(g, v)
  PROVE  Moves(Nothing, Assign(g, v), Nothing)
<1>1. Assign(g, v).op = "assign" /\ Assign(g, v).a = g /\ Assign(g, v).b = v
  BY DEF Assign, Op
<1> QED
  BY <1>1, HarmlessMoves DEF Harmless

\* ollist_find_data
LEMMA FindMoves ==
  ASSUME NEW p \in Output
  PROVE  Moves(Nothing, Find(p), Found(p))
<1>1. Find(p).op = "find" /\ Find(p).a = p
  BY DEF Find, Op
<1>2. Does(Nothing, Find(p), Found(p))
  BY <1>1 DEF Does
<1> QED
  BY <1>2, Facts, DoesMoves

\* ollist_insert_data under the output's own number
LEMMA InsertMoves ==
  ASSUME NEW p \in Output
  PROVE  Moves(Found(p), Insert(p), Copy(p)) /\ Moves(Inserting(p), Insert(p), Nothing)
<1>1. Insert(p).op = "insert" /\ Insert(p).a = p
  BY DEF Insert, Op
<1>2. Does(Found(p), Insert(p), Copy(p)) /\ Does(Inserting(p), Insert(p), Nothing)
  BY <1>1 DEF Does
<1> QED
  BY <1>2, FactsOf, DoesMoves

\* ollist_insert_data(otp->port, ...)
LEMMA InsertOtpMoves ==
  /\ Moves(Ready, InsertOtp, Nothing)
  /\ Moves(Plain, InsertOtp, Nothing)
  /\ \A p \in Output : Moves(Found(p), InsertOtp, Nothing)
<1>1. InsertOtp.op = "insert_otp"
  BY DEF InsertOtp, Op
<1>2. Does(Ready, InsertOtp, Nothing)
  BY <1>1 DEF Does
<1>3. Weaker(Plain, Ready) /\ Weaker(Ready, Ready)
  BY DEF Weaker
<1>4. \A p \in Output : Weaker(Found(p), Ready)
  BY Forget
<1> QED
  BY <1>2, <1>3, <1>4, Facts DEF Moves

\* A field of *otp
LEMMA PutMoves ==
  ASSUME NEW f, NEW v, NEW k \in Knowledge, NEW m, Puts(k, f, v, m)
  PROVE  Moves(k, Put(f, v), m)
<1>1. Put(f, v).op = "put" /\ Put(f, v).a = f /\ Put(f, v).b = v
  BY DEF Put, Op
<1>2. Does(k, Put(f, v), m)
  BY <1>1 DEF Does
<1> QED
  BY <1>2, DoesMoves

\* change_output with a number
LEMMA OutMoves ==
  ASSUME NEW p \in Output, NEW v, NEW k \in Knowledge, NEW m, Switched(k, p, v, m)
  PROVE  Moves(k, Out(p, v), m)
<1>1. Out(p, v).op = "out" /\ Out(p, v).a = p /\ Out(p, v).b = v
  BY DEF Out, Op
<1>2. Does(k, Out(p, v), m)
  BY <1>1 DEF Does
<1> QED
  BY <1>2, DoesMoves

\* set_output, from a record that was found
LEMMA SetOutputMoves ==
  ASSUME NEW v \in {0, 1}
  PROVE  /\ Moves(Held, SetOutput(v), Nothing)
         /\ \A p \in Output : Moves(Found(p), SetOutput(v), Nothing)
<1>1. SetOutput(v).op = "set_output" /\ SetOutput(v).b = v
  BY DEF SetOutput, Op
<1>2. Does(Held, SetOutput(v), Nothing)
  BY <1>1 DEF Does
<1>3. \A p \in Output : Weaker(Found(p), Held)
  BY Forget
<1> QED
  BY <1>2, <1>3, Facts, DoesMoves DEF Moves

\* if(otp->reset == 0) in the handlers of ACCON and FUELPUMP
LEMMA IfMoves ==
  ASSUME NEW k \in Knowledge, NEW ops, NEW m, Branches(k, ops, m)
  PROVE  Moves(k, IfReset0(ops), m)
<1>1. IfReset0(ops).op = "if_reset0" /\ IfReset0(ops).b = ops
  BY DEF IfReset0, Op
<1>2. Does(k, IfReset0(ops), m)
  BY <1>1 DEF Does
<1> QED
  BY <1>2, DoesMoves

--------------------------------------------------------------------------------
(* The handlers *)

\* Nothing to do.
LEMMA SoundEmpty == Sound(<<>>)
BY Facts, OutlineEmpty, WeakerItself DEF Sound

\* One handler after the other.
LEMMA SoundJoin ==
  ASSUME NEW s, NEW u, Sound(s), Sound(u)
  PROVE  Sound(s \o u)
BY Facts, OutlineJoin DEF Sound

\* A step that needs and leaves nothing.
LEMMA SoundStep ==
  ASSUME NEW s, Moves(Nothing, s, Nothing)
  PROVE  Sound(<<s>>)
BY Facts, OutlineStep DEF Sound

\* Outputs that are not in use are skipped.
LEMMA SoundInUse ==
  ASSUME NEW p, NEW ops, p \in Output => Sound(ops)
  PROVE  Sound(InUse(p, ops))
BY SoundEmpty DEF InUse

\* usleep
LEMMA SoundSleep == Sound(<<Sleep>>)
BY SoundStep, SleepMoves

\* change_input alone
LEMMA SoundInput ==
  ASSUME NEW i, NEW v
  PROVE  Sound(<<Input(i, v)>>)
BY SoundStep, InputMoves

\* The handlers that call set_output (ON_LLIGHTS and its like).
LEMMA SoundDirect ==
  ASSUME NEW p, NEW v \in {0, 1}
  PROVE  Sound(Direct(p, v))
<1>1. ASSUME p \in Output
      PROVE  Sound(<<Find(p), SetOutput(v)>>)
  BY <1>1, Facts, FactsOf, FindMoves, SetOutputMoves, Steps2 DEF Sound
<1> QED
  BY <1>1, SoundInUse DEF Direct

\* A record that follows its input.
LEMMA SoundFollow ==
  ASSUME NEW p, NEW v \in {0, 1}
  PROVE  Sound(Follow(p, v))
<1>1. ASSUME p \in Output
      PROVE  Sound(<<Find(p), Put("onoff", v), Insert(p)>>)
  <2>1. Moves(Found(p), Put("onoff", v), Found(p))
    BY <1>1, FactsOf, PutMoves DEF Puts
  <2>2. Outline(Nothing, <<Find(p), Put("onoff", v), Insert(p)>>, Copy(p))
    BY <1>1, <2>1, Facts, FactsOf, FindMoves, InsertMoves, Steps3
  <2> QED
    BY <1>1, <2>2, Facts, FactsOf, Forget, OutlineWeaker DEF Sound
<1> QED
  BY <1>1, SoundInUse DEF Follow

\* The handlers that set an input (ON_FAN and its like).
LEMMA SoundViaInput ==
  ASSUME NEW i, NEW v, NEW follow, Sound(follow)
  PROVE  Sound(ViaInput(i, v, follow))
BY SoundInput, SoundJoin DEF ViaInput

\* WIPER1, WIPER2, WIPER_OFF: the record is held over a sleep.
LEMMA SoundWipers ==
  ASSUME NEW v1 \in {0, 1}, NEW v2 \in {0, 1}
  PROVE  Sound(Wipers(v1, v2))
<1> DEFINE p == WWIPER2
<1>1. ASSUME p \in Output
      PROVE  Sound(<<Find(p), Sleep, SetOutput(v2)>>)
  <2>1. Moves(Found(p), Sleep, Held)
    BY <1>1, Facts, FactsOf, SleepMoves, Forget, MovesFromStronger
  <2> QED
    BY <1>1, <2>1, Facts, FactsOf, FindMoves, SetOutputMoves, Steps3 DEF Sound
<1>2. Sound(InUse(WWIPER2, <<Find(WWIPER2), Sleep, SetOutput(v2)>>))
  BY <1>1, SoundInUse
<1> QED
  BY <1>2, SoundDirect, SoundJoin DEF Wipers

\* SPECIAL_CMD
LEMMA SoundSpecialCmd == Sound(SpecialCmd)
<1> DEFINE L(v) == Direct(LHEADLAMP, v) \o <<Sleep>>
           R(v) == Direct(RHEADLAMP, v) \o <<Sleep>>
           l(v) == Direct(LBRIGHTS, v) \o <<Sleep>>
           r(v) == Direct(RBRIGHTS, v) \o <<Sleep>>
           once == L(1) \o l(1) \o R(1) \o r(1) \o l(0) \o L(0) \o r(0) \o R(0)
                   \o R(1) \o r(1) \o L(1) \o l(1) \o l(0) \o L(0) \o r(0) \o R(0)
<1>1. /\ Sound(L(0)) /\ Sound(R(0)) /\ Sound(l(0)) /\ Sound(r(0))
      /\ Sound(L(1)) /\ Sound(R(1)) /\ Sound(l(1)) /\ Sound(r(1))
  BY SoundDirect, SoundSleep, SoundJoin
<1> HIDE DEF L, R, l, r
<1>2. Sound(L(1) \o l(1) \o R(1) \o r(1))
  BY <1>1, SoundJoin
<1>3. Sound(L(1) \o l(1) \o R(1) \o r(1) \o l(0) \o L(0) \o r(0) \o R(0))
  BY <1>1, <1>2, SoundJoin
<1>4. Sound(L(1) \o l(1) \o R(1) \o r(1) \o l(0) \o L(0) \o r(0) \o R(0)
            \o R(1) \o r(1) \o L(1) \o l(1))
  BY <1>1, <1>3, SoundJoin
<1>5. Sound(once)
  BY <1>1, <1>4, SoundJoin
<1>6. Sound(once \o once)
  BY <1>5, SoundJoin
<1> QED
  BY <1>6 DEF SpecialCmd, L, R, l, r

\* ON_FUEL_PUMP
LEMMA SoundFuelPumpOn ==
  ASSUME FUELPUMP \in Output
  PROVE  Sound(FuelPumpOn)
<1> DEFINE p == FUELPUMP
           ops == <<Out(p, 1), Put("onoff", 1)>>
<1>1. Branches(Found(p), ops, Found(p))
  BY DEF Branches
<1>2. Moves(Found(p), IfReset0(ops), Found(p))
  BY <1>1, FactsOf, IfMoves
<1> HIDE DEF ops
<1>3. Outline(Nothing, <<Find(p), IfReset0(ops), Insert(p)>>, Copy(p))
  BY <1>2, Facts, FactsOf, FindMoves, InsertMoves, Steps3
<1>4. Sound(<<Find(p), IfReset0(ops), Insert(p)>>)
  BY <1>3, Facts, FactsOf, Forget, OutlineWeaker DEF Sound
<1> QED
  BY <1>4 DEF FuelPumpOn, ops

\* OFF_FUEL_PUMP
LEMMA SoundFuelPumpOff ==
  ASSUME FUELPUMP \in Output
  PROVE  Sound(FuelPumpOff)
<1> DEFINE p == FUELPUMP
           ops == <<Out(p, 0), Put("onoff", 0), Insert(p)>>
<1>1. Branches(Found(p), ops, Nothing)
  BY DEF Branches
<1>2. Moves(Found(p), IfReset0(ops), Nothing)
  BY <1>1, FactsOf, IfMoves
<1> HIDE DEF ops
<1>3. Sound(<<Find(p), IfReset0(ops)>>)
  BY <1>2, Facts, FactsOf, FindMoves, Steps2 DEF Sound
<1> QED
  BY <1>3 DEF FuelPumpOff, ops

\* ON_ACC and OFF_ACC: the copy is in the list when reset is tested.
LEMMA SoundAcc ==
  ASSUME ACCON \in Output, NEW v \in {0, 1}
  PROVE  Sound(Acc(v))
<1> DEFINE p == ACCON
           ops == <<Out(p, v)>>
<1>1. Branches(Copy(p), ops, Nothing)
  BY DEF Branches
<1>2. Moves(Copy(p), IfReset0(ops), Nothing)
  BY <1>1, FactsOf, IfMoves
<1> HIDE DEF ops
<1>3. Sound(<<Find(p), Insert(p), IfReset0(ops)>>)
  BY <1>2, Facts, FactsOf, FindMoves, InsertMoves, Steps3 DEF Sound
<1> QED
  BY <1>3 DEF Acc, ops

\* START_SEQ: reset is 0 before the relay goes on.
LEMMA SoundEnergize ==
  ASSUME NEW p \in {ACCON, FUELPUMP}
  PROVE  Sound(Energize(p))
<1>1. ASSUME p \in Output
      PROVE  Sound(<<Find(p), Put("onoff", 1), Put("reset", 0), Out(p, 1), InsertOtp>>)
  <2>1. Moves(Found(p), Put("onoff", 1), Found(p))
    BY <1>1, FactsOf, PutMoves DEF Puts
  <2>2. Moves(Found(p), Put("reset", 0), Clear(p))
    BY <1>1, FactsOf, PutMoves DEF Puts
  <2>3. Moves(Clear(p), Out(p, 1), Found(p))
    BY <1>1, FactsOf, OutMoves DEF Switched
  <2> QED
    BY <1>1, <2>1, <2>2, <2>3, Facts, FactsOf, FindMoves, InsertOtpMoves, Steps5 DEF Sound
<1> QED
  BY <1>1, SoundInUse DEF Energize

\* SHUTDOWN: a relay that goes off needs no record.
LEMMA SoundCut ==
  ASSUME NEW p \in {ACCON, FUELPUMP}
  PROVE  Sound(Cut(p))
<1>1. ASSUME p \in Output
      PROVE  Sound(<<Out(p, 0), Find(p), Put("onoff", 0), InsertOtp>>)
  <2>1. Moves(Found(p), Put("onoff", 0), Found(p))
    BY <1>1, FactsOf, PutMoves DEF Puts
  <2>2. Moves(Nothing, Out(p, 0), Nothing)
    BY <1>1, Facts, OutMoves DEF Switched
  <2>3. Sound(<<Find(p), Put("onoff", 0), InsertOtp>>)
    BY <1>1, <2>1, Facts, FactsOf, FindMoves, InsertOtpMoves, Steps3 DEF Sound
  <2>4. <<Out(p, 0), Find(p), Put("onoff", 0), InsertOtp>>
          = <<Out(p, 0)>> \o <<Find(p), Put("onoff", 0), InsertOtp>>
    OBVIOUS
  <2> QED
    BY <2>2, <2>3, <2>4, SoundStep, SoundJoin
<1> QED
  BY <1>1, SoundInUse DEF Cut

\* A handler that is one assignment.
LEMMA SoundAssign ==
  ASSUME NEW g, NEW v, Assigned(g, v)
  PROVE  Sound(<<Assign(g, v)>>)
BY SoundStep, AssignMoves

\* START_SEQ
LEMMA SoundStartSeq == Sound(StartSeq)
<1> DEFINE tail == <<Sleep, Input(STARTER_INPUT, 0), Sleep, Input(STARTER_INPUT, 1),
                     Assign("engine_running", 1)>>
<1>1. ASSUME STARTER \in Output
      PROVE  Sound(<<Find(STARTER)>>)
  <2>1. Outline(Nothing, <<Find(STARTER)>>, Found(STARTER))
    BY <1>1, Facts, FactsOf, FindMoves, OutlineStep
  <2> QED
    BY <1>1, <2>1, Facts, FactsOf, Forget, OutlineWeaker DEF Sound
<1>2. Sound(InUse(STARTER, <<Find(STARTER)>>))
  BY <1>1, SoundInUse
<1>3. Moves(Nothing, Assign("engine_running", 1), Nothing)
  BY AssignMoves DEF Assigned
<1>4. Sound(tail)
  BY <1>3, Facts, SleepMoves, InputMoves, Steps5 DEF Sound
<1>5. Sound(Energize(ACCON)) /\ Sound(Energize(FUELPUMP))
  BY SoundEnergize
<1> HIDE DEF tail
<1>6. Sound(Energize(ACCON) \o Energize(FUELPUMP) \o InUse(STARTER, <<Find(STARTER)>>) \o tail)
  BY <1>2, <1>4, <1>5, SoundJoin
<1> QED
  BY <1>6 DEF StartSeq, tail

\* SHUTDOWN
LEMMA SoundShutdown == Sound(Shutdown)
<1> DEFINE first == <<Assign("run_time", 0), Assign("engine_running", 0)>>
           last == <<Assign("lights_on_countdown", actual_lights_on_delay)>>
<1>1. Sound(first)
  <2>1. /\ Moves(Nothing, Assign("run_time", 0), Nothing)
        /\ Moves(Nothing, Assign("engine_running", 0), Nothing)
    BY AssignMoves DEF Assigned
  <2> QED
    BY <2>1, Facts, Steps2 DEF Sound
<1>2. Sound(last)
  BY SoundAssign DEF Assigned
<1>3. Sound(Cut(ACCON)) /\ Sound(Cut(FUELPUMP))
  BY SoundCut
<1> HIDE DEF first, last
<1>4. Sound(first \o Cut(ACCON) \o <<Sleep>> \o Cut(FUELPUMP) \o last)
  BY <1>1, <1>2, <1>3, SoundSleep, SoundJoin
<1> QED
  BY <1>4 DEF Shutdown, first, last

\* The commands that end the program.
LEMMA SoundEndProgram ==
  ASSUME NEW n
  PROVE  Sound(EndProgram(n))
<1>1. Assigned("shutdown_all", 1) /\ Assigned("reboot_on_exit", n)
  BY DEF Assigned
<1>2. /\ Moves(Nothing, Assign("shutdown_all", 1), Nothing)
      /\ Moves(Nothing, Assign("reboot_on_exit", n), Nothing)
  BY <1>1, AssignMoves
<1> QED
  BY <1>2, Facts, Steps2 DEF EndProgram, Sound

\* Whatever command is in the queue, its handler has an outline.
LEMMA SoundProgram ==
  ASSUME NEW cmd
  PROVE  Sound(Program(cmd))
<1>1. /\ Sound(<<Input(STARTER_INPUT, 1)>>) /\ Sound(<<Input(STARTER_INPUT, 0)>>)
      /\ Sound(<<Input(BRAKE_INPUT, 1)>>) /\ Sound(<<Input(BRAKE_INPUT, 0)>>)
  BY SoundInput
<1>2. /\ Sound(InUse(ACCON, Acc(1))) /\ Sound(InUse(ACCON, Acc(0)))
      /\ Sound(InUse(FUELPUMP, FuelPumpOn)) /\ Sound(InUse(FUELPUMP, FuelPumpOff))
  BY SoundAcc, SoundFuelPumpOn, SoundFuelPumpOff, SoundInUse
<1>3. \A p : /\ Sound(Follow(p, 0)) /\ Sound(Follow(p, 1))
             /\ Sound(Direct(p, 0)) /\ Sound(Direct(p, 1))
  BY SoundFollow, SoundDirect
<1>4. \A p, q : Sound(FollowBoth(p, q, 0)) /\ Sound(FollowBoth(p, q, 1))
  BY <1>3, SoundJoin DEF FollowBoth
<1>5. /\ Sound(ViaInput(COOLINGFAN_INPUT, 1, Follow(COOLINGFAN, 1)))
      /\ Sound(ViaInput(COOLINGFAN_INPUT, 0, Follow(COOLINGFAN, 0)))
      /\ Sound(ViaInput(HEADLAMP_INPUT, 1, FollowBoth(LHEADLAMP, RHEADLAMP, 1)))
      /\ Sound(ViaInput(HEADLAMP_INPUT, 0, FollowBoth(LHEADLAMP, RHEADLAMP, 0)))
      /\ Sound(ViaInput(RUNNING_LIGHTS_INPUT, 1, Follow(RUNNINGLIGHTS, 1)))
      /\ Sound(ViaInput(RUNNING_LIGHTS_INPUT, 0, Follow(RUNNINGLIGHTS, 0)))
      /\ Sound(ViaInput(BRIGHTS_INPUT, 1, FollowBoth(LBRIGHTS, RBRIGHTS, 1)))
      /\ Sound(ViaInput(BRIGHTS_INPUT, 0, FollowBoth(LBRIGHTS, RBRIGHTS, 0)))
  BY <1>3, <1>4, SoundViaInput
<1>6. \A i : /\ Sound(<<Input(i, 1), Assign("test_lblinkers", 1)>>)
             /\ Sound(<<Input(i, 1), Assign("test_rblinkers", 1)>>)
  <2>1. /\ Moves(Nothing, Assign("test_lblinkers", 1), Nothing)
        /\ Moves(Nothing, Assign("test_rblinkers", 1), Nothing)
    BY AssignMoves DEF Assigned
  <2> QED
    BY <2>1, InputMoves, Facts, Steps2 DEF Sound
<1>7. Sound(Wipers(1, 0)) /\ Sound(Wipers(1, 1)) /\ Sound(Wipers(0, 0))
  BY SoundWipers
<1>8. \A n : Sound(EndProgram(n)) /\ Sound(<<Sleep>> \o EndProgram(n))
  BY SoundEndProgram, SoundSleep, SoundJoin
<1> HIDE DEF Sound
<1> QED
  BY <1>1, <1>2, <1>3, <1>5, <1>6, <1>7, <1>8, SoundSpecialCmd, SoundStartSeq, SoundShutdown,
     SoundEmpty
  DEF Program

\* timer_task: the lights.
LEMMA SoundLights == Sound(LightsOff) /\ Sound(LightsOn)
<1>1. Sound(LightsOff)
  BY MsgMoves, SleepMoves, Facts, Steps6 DEF LightsOff, Sound
<1>2. Sound(LightsOn)
  BY MsgMoves, Facts, Steps2 DEF LightsOn, Sound
<1> QED
  BY <1>1, <1>2

\* timer_task: the blinker tests.
LEMMA SoundEndBlinkerTest ==
  ASSUME NEW flag \in {"test_lblinkers", "test_rblinkers"}, NEW i
  PROVE  Sound(EndBlinkerTest(flag, i))
<1>1. Moves(Nothing, Assign(flag, 0), Nothing)
  BY AssignMoves DEF Assigned
<1> QED
  BY <1>1, InputMoves, Facts, Steps2 DEF EndBlinkerTest, Sound

\* The loop of the timer's second, for a timed output that is running.
LEMMA OutlineTimedOutput ==
  ASSUME NEW p \in Output
  PROVE  Outline(Counting(p), TimedOutput(p, odata[p]), Nothing)
<1> DEFINE count == Op("count", p, 0)
           blink == Op("blink", 0, 0)
<1>1. Moves(Counting(p), count, Nothing)
  <2>1. count.op = "count" /\ count.a = p
    BY DEF Op
  <2> HIDE DEF count
  <2>2. Does(Counting(p), count, Nothing)
    BY <2>1 DEF Does
  <2> QED
    BY <2>2, FactsOf, DoesMoves
<1>2. CASE odata[p].type = 3
  <2>1. blink.op = "blink"
    BY DEF Op
  <2> HIDE DEF blink, count
  <2>2. Does(Counting(p), blink, Counting(p))
    BY <1>2, <2>1, FactsOf DEF Does
  <2>3. Moves(Counting(p), blink, Counting(p))
    BY <2>2, FactsOf, DoesMoves
  <2>4. Outline(Counting(p), <<blink, count>>, Nothing)
    BY <1>1, <2>3, Facts, FactsOf, Steps2
  <2> QED
    BY <1>2, <2>4 DEF TimedOutput, blink, count
<1>3. CASE odata[p].type # 3
  <2> HIDE DEF count
  <2>1. Outline(Counting(p), <<count>>, Nothing)
    BY <1>1, Facts, FactsOf, OutlineStep
  <2> QED
    BY <1>3, <2>1 DEF TimedOutput, count
<1> QED
  BY <1>2, <1>3

\* timer_task: the time is up, the relay goes off before the record is ready.
LEMMA OutlineTimeIsUp ==
  ASSUME NEW p \in Output
  PROVE  Outline(Expired(p), TimeIsUp(p, odata[p]), Nothing)
<1> DEFINE end == <<Out(p, 0), Put("onoff", 0), Put("reset", 0), InsertOtp,
                    Op("clear_fake", 1, 0), Op("clear_fake", 2, 0)>>
<1>1. Moves(Expired(p), Out(p, 0), Off(p))
  BY FactsOf, OutMoves DEF Switched
<1>2. Moves(Off(p), Put("onoff", 0), Off(p))
  BY FactsOf, PutMoves DEF Puts
<1>3. Moves(Off(p), Put("reset", 0), Found(p))
  BY FactsOf, PutMoves DEF Puts
<1>4. \A i : Moves(Nothing, Op("clear_fake", i, 0), Nothing)
  <2> TAKE i
  <2>1. Op("clear_fake", i, 0).op = "clear_fake"
    BY DEF Op
  <2> QED
    BY <2>1, HarmlessMoves DEF Harmless
<1>5. Outline(Expired(p), end, Nothing)
  <2>1. /\ Expired(p) \in Knowledge /\ Off(p) \in Knowledge /\ Found(p) \in Knowledge
        /\ Nothing \in Knowledge
    BY Facts, FactsOf
  <2>2. Moves(Found(p), InsertOtp, Nothing)
    BY FactsOf, InsertOtpMoves
  <2> QED
    BY <1>1, <1>2, <1>3, <1>4, <2>1, <2>2, Steps6
<1>6. Moves(Expired(p), ToggleOtp, Expired(p))
  <2>1. ToggleOtp.op = "toggle"
    BY DEF ToggleOtp, Op
  <2>2. Does(Expired(p), ToggleOtp, Expired(p))
    BY <2>1, FactsOf DEF Does
  <2> QED
    BY <2>2, FactsOf, DoesMoves
<1> HIDE DEF end
<1>7. Outline(Expired(p), <<ToggleOtp>> \o end, Nothing)
  BY <1>5, <1>6, Facts, FactsOf, OutlineThen
<1>8. Outline(Expired(p), <<>> \o end, Nothing)
  <2>1. Outline(Expired(p), <<>>, Expired(p))
    BY FactsOf, OutlineEmpty, WeakerItself
  <2> QED
    BY <1>5, <2>1, Facts, FactsOf, OutlineJoin
<1> QED
  BY <1>7, <1>8 DEF TimeIsUp, end

--------------------------------------------------------------------------------
(* The loops over the outputs *)

\* Forty rounds, one after the other.
LEMMA FortyRounds ==
  ASSUME NEW S, 0 \in S, \A n \in 0..39 : n \in S => n + 1 \in S
  PROVE  40 \in S
<1>1. 10 \in S
  OBVIOUS
<1>2. 20 \in S
  BY <1>1
<1>3. 30 \in S
  BY <1>2
<1> QED
  BY <1>3

\* The loop concatenates what its rounds do.
LEMMA ForOutputsPasses ==
  ASSUME NEW body
  PROVE  \E pass : /\ pass[0] = <<>>
                   /\ \A n \in 0..39 : pass[n + 1] = pass[n] \o body[n]
                   /\ ForOutputs(body) = pass[40]
<1> DEFINE round(f, n) == IF n = 0 THEN <<>> ELSE f[n - 1] \o body[n - 1]
           pass == CHOOSE f : f = [n \in 0..40 |-> round(f, n)]
           reached == {n \in 0..40 : \E f : f = [m \in 0..n |-> round(f, m)]}
<1>1. 0 \in reached
  <2> DEFINE none == [m \in 0..0 |-> <<>>]
  <2>1. none = [m \in 0..0 |-> round(none, m)]
    OBVIOUS
  <2> HIDE DEF none, round
  <2>2. 0 \in 0..40
    OBVIOUS
  <2> QED
    BY <2>1, <2>2
<1>2. ASSUME NEW n \in 0..39, n \in reached
      PROVE  n + 1 \in reached
  <2>1. PICK f : f = [m \in 0..n |-> round(f, m)]
    BY <1>2
  <2> DEFINE g == [m \in 0..(n + 1) |-> IF m <= n THEN f[m] ELSE f[n] \o body[n]]
  <2>2. ASSUME NEW m \in 0..(n + 1)
        PROVE  g[m] = round(g, m)
    <3>1. CASE m = 0
      BY <2>1, <3>1
    <3>2. CASE m # 0 /\ m <= n
      <4>1. m \in 0..n /\ m - 1 \in 0..n /\ g[m] = f[m] /\ g[m - 1] = f[m - 1]
        BY <3>2
      <4>2. f[m] = f[m - 1] \o body[m - 1]
        BY <2>1, <3>2, <4>1
      <4> HIDE DEF g
      <4> QED
        BY <3>2, <4>1, <4>2
    <3>3. CASE m = n + 1
      <4>1. m - 1 = n /\ m # 0 /\ g[m] = f[n] \o body[n] /\ g[n] = f[n]
        BY <3>3
      <4> HIDE DEF g
      <4> QED
        BY <4>1
    <3> QED
      BY <3>1, <3>2, <3>3
  <2>3. g = [m \in 0..(n + 1) |-> round(g, m)]
    <3>1. g = [m \in 0..(n + 1) |-> g[m]]
      OBVIOUS
    <3> HIDE DEF g, round
    <3> QED
      BY <2>2, <3>1
  <2> HIDE DEF g, round
  <2>4. n + 1 \in 0..40
    OBVIOUS
  <2> QED
    BY <2>3, <2>4
<1>3. 40 \in reached
  <2> HIDE DEF reached
  <2> QED
    BY <1>1, <1>2, FortyRounds
<1>4. pass = [n \in 0..40 |-> round(pass, n)]
  <2> HIDE DEF round
  <2> QED
    BY <1>3
<1>5. \A n \in 0..40 : pass[n] = round(pass, n)
  <2> HIDE DEF round, pass
  <2> QED
    BY <1>4
<1>6. ForOutputs(body) = pass[40]
  BY DEF ForOutputs, pass
<1> HIDE DEF pass
<1>7. pass[0] = <<>>
  <2>1. pass[0] = round(pass, 0)
    <3> HIDE DEF round
    <3> QED
      BY <1>5
  <2> QED
    BY <2>1
<1>8. ASSUME NEW n \in 0..39
      PROVE  pass[n + 1] = pass[n] \o body[n]
  <2>1. n + 1 \in 0..40 /\ n + 1 # 0 /\ (n + 1) - 1 = n
    OBVIOUS
  <2>2. pass[n + 1] = round(pass, n + 1)
    <3> HIDE DEF round
    <3> QED
      BY <1>5, <2>1
  <2> QED
    BY <2>1, <2>2
<1> QED
  BY <1>6, <1>7, <1>8

\* A loop whose body has an outline for every output has one.
LEMMA SoundForOutputs ==
  ASSUME NEW body, \A p \in Number : Sound(body[p])
  PROVE  Sound(ForOutputs(body))
<1>1. PICK pass : /\ pass[0] = <<>>
                  /\ \A n \in 0..39 : pass[n + 1] = pass[n] \o body[n]
                  /\ ForOutputs(body) = pass[40]
  BY ForOutputsPasses
<1> DEFINE good == {n \in 0..40 : Sound(pass[n])}
<1>2. 0 \in good
  <2>1. pass[0] = <<>>
    BY <1>1
  <2> QED
    BY <2>1, SoundEmpty
<1>3. ASSUME NEW n \in 0..39, n \in good
      PROVE  n + 1 \in good
  <2>1. pass[n + 1] = pass[n] \o body[n]
    BY <1>1
  <2>2. Sound(body[n]) /\ Sound(pass[n])
    BY <1>3 DEF Number
  <2>3. n + 1 \in 0..40
    OBVIOUS
  <2> HIDE DEF Sound
  <2> QED
    BY <2>1, <2>2, <2>3, SoundJoin
<1>4. 40 \in good
  <2> HIDE DEF good
  <2> QED
    BY <1>2, <1>3, FortyRounds
<1> QED
  BY <1>1, <1>4

\* The loop of the monitors over the outputs of an input.
LEMMA SoundServeInput ==
  ASSUME NEW i, NEW v \in {0, 1}
  PROVE  Sound(ServeInput(i, v))
<1> DEFINE body == [p \in Number |->
             IF p \in Output /\ odata[p].input_port = i THEN <<Find(p), SetOutput(v)>> ELSE <<>>]
<1>1. ASSUME NEW p \in Number
      PROVE  Sound(body[p])
  <2>1. ASSUME p \in Output
        PROVE  Sound(<<Find(p), SetOutput(v)>>)
    BY <2>1, Facts, FactsOf, FindMoves, SetOutputMoves, Steps2 DEF Sound
  <2> QED
    BY <2>1, SoundEmpty
<1> HIDE DEF body
<1>2. Sound(ForOutputs(body))
  BY <1>1, SoundForOutputs
<1> QED
  BY <1>2 DEF ServeInput, body

\* The loop of the timer over the timed outputs.
LEMMA SoundTimerPass == Sound(TimerPass)
<1> DEFINE body == [p \in Number |->
             IF p \in Output /\ p < TESTOUTPUT27 THEN <<Find(p), Op("timed", p, 0)>> ELSE <<>>]
<1>1. ASSUME NEW p \in Number
      PROVE  Sound(body[p])
  <2> DEFINE timed == Op("timed", p, 0)
  <2>1. ASSUME p \in Output
        PROVE  Sound(<<Find(p), timed>>)
    <3>1. timed.op = "timed" /\ timed.a = p
      BY DEF Op
    <3> HIDE DEF timed
    <3>2. Does(Found(p), timed, Nothing)
      BY <3>1 DEF Does
    <3>3. Moves(Found(p), timed, Nothing)
      BY <2>1, <3>2, FactsOf, DoesMoves
    <3> QED
      BY <2>1, <3>3, Facts, FactsOf, FindMoves, Steps2 DEF Sound
  <2> HIDE DEF timed
  <2>2. body[p] = <<Find(p), timed>> \/ body[p] = <<>>
    BY DEF timed
  <2>3. body[p] # <<>> => p \in Output
    OBVIOUS
  <2> QED
    BY <2>1, <2>2, <2>3, SoundEmpty
<1> HIDE DEF body
<1>2. Sound(ForOutputs(body))
  BY <1>1, SoundForOutputs
<1> QED
  BY <1>2 DEF TimerPass, body

--------------------------------------------------------------------------------
(* Errands.  Let p be an output that is only ever switched through its input *)
(* (COOLINGFAN and RUNNINGLIGHTS).  An errand is a run of steps of a thread  *)
(* that leaves p, its record and its input alone.  The steps that go through *)
(* otp do so where otp points elsewhere: the timer looks at every record,    *)
(* but writes through otp (Late) only after it has seen a timed one.         *)

BlinkerTests == {"TEST_LEFT_BLINKER", "TEST_RIGHT_BLINKER"}

\* The lines of every input but p's.
OtherLines(p) == {Line(j) : j \in Number \ {odata[p].input_port}}

\* What the monitors and the controls thread do with the records.
Serves == {"find", "set_output", "put", "toggle", "start_timer", "insert_otp", "insert",
           "out_otp", "out_onoff", "msg"}

\* The timer before it has looked at any record, and while it serves a timed one.
Early == {"sleep", "run_time", "countdown", "msg"}
Late  == {"blink", "count", "toggle", "out", "put", "insert_otp", "insert", "clear_fake",
          "store1", "store2"}

ErrandOps ==
  [inputs   |-> Serves \cup {"status", "exit"},
   fake     |-> Serves,
   timer    |-> Early \cup Late \cup {"blinkers", "find", "timed", "loop", "exit"},
   controls |-> Serves \cup {"sleep", "out", "if_reset0", "change_input", "store2", "assign",
                            "exit"}]

\* Step s of thread t has nothing to do with output p.
Spares(p, t, s) ==
  /\ s.op \in ErrandOps[t]
  /\ s.op = "find" => s.a # p \/ t = "timer"
  /\ s.op \in {"insert", "out"} => s.a # p
  /\ s.op = "if_reset0" =>
       \E q \in {ACCON, FUELPUMP}, v \in {0, 1} :
         s.b \in {<<Out(q, v), Put("onoff", v)>>, <<Out(q, v), Put("onoff", v), Insert(q)>>,
                  <<Out(q, v)>>}
  /\ s.op = "change_input" => s.a \in Number \ {odata[p].input_port, ESTOP_INPUT}
  /\ s.op = "clear_fake" => s.a \in {1, 2}
  /\ s.op = "status" => s.b \subseteq OtherLines(p)
  /\ s.op = "msg" => s.a \notin BlinkerTests
  /\ s.op = "assign" => /\ s.a \notin {"test_lblinkers", "test_rblinkers"}
                        /\ s.a = "shutdown_all" => s.b = 1

\* The timer clears an input in one register, and then in the other.
ClearsFirst(s)  == s.op = "store1" \/ (s.op = "clear_fake" /\ s.a = 1)
ClearsSecond(s) == s.op = "clear_fake" /\ s.a = 2

\* Thread t may go from step a to step b.
Mates(t, a, b) ==
  /\ b.op \notin {"store1", "store2"}
  /\ t = "timer" => /\ b.op \in Early => a.op \in Early
                    /\ b.op \in Late => a.op \in Late
                    /\ ClearsFirst(a) <=> ClearsSecond(b)

Errand(p, t, u) ==
  /\ \E S : u \in Seq(S)
  /\ \A n \in 1..Len(u) : /\ Spares(p, t, u[n])
                          /\ n < Len(u) => Mates(t, u[n], u[n + 1])
                          /\ ClearsFirst(u[n]) => n < Len(u)

\* Nothing to do.
LEMMA ErrandEmpty ==
  ASSUME NEW p, NEW t
  PROVE  Errand(p, t, <<>>)
<1>1. <<>> \in Seq({}) /\ Len(<<>>) = 0
  OBVIOUS
<1> QED
  BY <1>1 DEF Errand

\* One errand after the other.
LEMMA ErrandJoin ==
  ASSUME NEW p, NEW t, NEW u, NEW w, Errand(p, t, u), Errand(p, t, w),
         u # <<>> /\ w # <<>> => Mates(t, u[Len(u)], w[1])
  PROVE  Errand(p, t, u \o w)
<1>1. PICK U : u \in Seq(U)
  BY DEF Errand
<1>2. PICK W : w \in Seq(W)
  BY DEF Errand
<1> DEFINE x == u \o w
           lu == Len(u)
           lw == Len(w)
<1>3. u \in Seq(U \cup W) /\ w \in Seq(U \cup W)
  BY <1>1, <1>2
<1>4. /\ x \in Seq(U \cup W) /\ Len(x) = lu + lw
      /\ \A n \in 1..(lu + lw) : x[n] = IF n <= lu THEN u[n] ELSE w[n - lu]
  BY <1>3, ConcatProperties
<1>5. lu \in Nat /\ lw \in Nat /\ (u # <<>> <=> lu > 0) /\ (w # <<>> <=> lw > 0)
  BY <1>3
<1> HIDE DEF x
<1>6. /\ \A n \in 1..lu : /\ Spares(p, t, u[n])
                          /\ n < lu => Mates(t, u[n], u[n + 1])
                          /\ ClearsFirst(u[n]) => n < lu
      /\ \A n \in 1..lw : /\ Spares(p, t, w[n])
                          /\ n < lw => Mates(t, w[n], w[n + 1])
                          /\ ClearsFirst(w[n]) => n < lw
      /\ lu > 0 /\ lw > 0 => Mates(t, u[lu], w[1])
  BY <1>5 DEF Errand
<1> HIDE DEF lu, lw
<1>7. ASSUME NEW n \in 1..(lu + lw)
      PROVE  /\ Spares(p, t, x[n])
             /\ n < lu + lw => Mates(t, x[n], x[n + 1])
             /\ ClearsFirst(x[n]) => n < lu + lw
  <2>1. CASE n < lu
    <3>1. n \in 1..lu /\ n + 1 \in 1..(lu + lw) /\ x[n] = u[n] /\ x[n + 1] = u[n + 1]
      BY <1>4, <1>5, <2>1
    <3> QED
      BY <1>5, <1>6, <2>1, <3>1
  <2>2. CASE n = lu
    <3>1. n \in 1..lu /\ x[n] = u[lu] /\ lu > 0
      BY <1>4, <1>5, <2>2
    <3>2. n < lu + lw => n + 1 \in 1..(lu + lw) /\ x[n + 1] = w[1] /\ lw > 0
      BY <1>4, <1>5, <2>2
    <3> QED
      BY <1>5, <1>6, <2>2, <3>1, <3>2
  <2>3. CASE n > lu
    <3> DEFINE m == n - lu
    <3>1. m \in 1..lw /\ x[n] = w[m] /\ (n < lu + lw <=> m < lw)
      BY <1>4, <1>5, <2>3
    <3>2. n < lu + lw => n + 1 \in 1..(lu + lw) /\ x[n + 1] = w[m + 1]
      <4>1. (n + 1) - lu = m + 1
        BY <1>5
      <4> QED
        BY <1>4, <1>5, <2>3, <4>1
    <3> QED
      BY <1>6, <3>1, <3>2
  <2> QED
    BY <1>5, <2>1, <2>2, <2>3
<1> QED
  BY <1>4, <1>7 DEF Errand, x

\* The first step of an errand, and the rest.
LEMMA ErrandHead ==
  ASSUME NEW p, NEW t, NEW u, Errand(p, t, u), u # <<>>
  PROVE  /\ Spares(p, t, Head(u)) /\ Errand(p, t, Tail(u))
         /\ Tail(u) # <<>> => Mates(t, Head(u), Head(Tail(u)))
         /\ ClearsFirst(Head(u)) => Tail(u) # <<>>
<1>1. PICK S : u \in Seq(S)
  BY DEF Errand
<1> DEFINE w == Tail(u)
           l == Len(u)
<1>2. /\ w \in Seq(S) /\ Len(w) = l - 1
      /\ \A n \in 1..(l - 1) : w[n] = u[n + 1]
      /\ l \in Nat \ {0} /\ Head(u) = u[1]
  BY <1>1
<1>3. \A n \in 1..l : /\ Spares(p, t, u[n])
                      /\ n < l => Mates(t, u[n], u[n + 1])
                      /\ ClearsFirst(u[n]) => n < l
  BY DEF Errand
<1> HIDE DEF w, l
<1>7. (w # <<>> <=> l > 1) /\ (w # <<>> => Head(w) = w[1])
  BY <1>2
<1>4. ASSUME NEW n \in 1..(l - 1)
      PROVE  /\ Spares(p, t, w[n])
             /\ n < l - 1 => Mates(t, w[n], w[n + 1])
             /\ ClearsFirst(w[n]) => n < l - 1
  <2>1. n + 1 \in 1..l /\ w[n] = u[n + 1] /\ (n < l - 1 <=> n + 1 < l)
    BY <1>2
  <2>2. n < l - 1 => n + 1 \in 1..(l - 1) /\ w[n + 1] = u[(n + 1) + 1]
    BY <1>2
  <2> QED
    BY <1>3, <2>1, <2>2
<1>5. Errand(p, t, w)
  BY <1>2, <1>4 DEF Errand
<1>6. 1 \in 1..l /\ (l > 1 => w[1] = u[1 + 1] /\ 1 \in 1..(l - 1))
  BY <1>2
<1> QED
  BY <1>2, <1>3, <1>5, <1>6, <1>7 DEF w

\* One step.
LEMMA ErrandStep ==
  ASSUME NEW p, NEW t, NEW s, Spares(p, t, s), ~ClearsFirst(s)
  PROVE  Errand(p, t, <<s>>)
<1> DEFINE u == <<s>>
<1>1. u \in Seq({s}) /\ Len(u) = 1 /\ u[1] = s
  OBVIOUS
<1> HIDE DEF u
<1>2. Errand(p, t, u)
  BY <1>1 DEF Errand
<1> QED
  BY <1>2 DEF u

\* A step before an errand.
LEMMA ErrandThen ==
  ASSUME NEW p, NEW t, NEW s, NEW u, Spares(p, t, s), Errand(p, t, u), u # <<>>,
         Mates(t, s, Head(u))
  PROVE  Errand(p, t, <<s>> \o u)
<1>1. PICK S : u \in Seq(S)
  BY DEF Errand
<1> DEFINE h == <<s>>
           x == h \o u
           l == Len(u)
<1>2. h \in Seq(S \cup {s}) /\ u \in Seq(S \cup {s}) /\ Len(h) = 1 /\ h[1] = s
      /\ l \in Nat \ {0} /\ Head(u) = u[1]
  BY <1>1
<1> HIDE DEF h
<1>3. /\ x \in Seq(S \cup {s}) /\ Len(x) = l + 1
      /\ \A n \in 1..(l + 1) : x[n] = IF n <= 1 THEN h[n] ELSE u[n - 1]
  <2>1. /\ x \in Seq(S \cup {s}) /\ Len(x) = Len(h) + l
        /\ \A n \in 1..(Len(h) + l) : x[n] = IF n <= Len(h) THEN h[n] ELSE u[n - Len(h)]
    BY <1>2, ConcatProperties
  <2> HIDE DEF x
  <2>2. Len(h) = 1 /\ 1 + l = l + 1
    BY <1>2
  <2> QED
    BY <2>1, <2>2
<1>4. \A n \in 1..l : /\ Spares(p, t, u[n])
                      /\ n < l => Mates(t, u[n], u[n + 1])
                      /\ ClearsFirst(u[n]) => n < l
  BY DEF Errand
<1> HIDE DEF x, l
<1>5. ASSUME NEW n \in 1..(l + 1)
      PROVE  /\ Spares(p, t, x[n])
             /\ n < l + 1 => Mates(t, x[n], x[n + 1])
             /\ ClearsFirst(x[n]) => n < l + 1
  <2>1. CASE n = 1
    <3>1. x[1] = s /\ x[1 + 1] = u[1] /\ 1 < l + 1
      BY <1>2, <1>3
    <3> QED
      BY <1>2, <2>1, <3>1
  <2>2. CASE n # 1
    <3>1. n - 1 \in 1..l /\ x[n] = u[n - 1] /\ (n < l + 1 <=> n - 1 < l)
      BY <1>2, <1>3, <2>2
    <3>2. n < l + 1 => x[n + 1] = u[(n - 1) + 1]
      BY <1>2, <1>3, <2>2
    <3> QED
      BY <1>4, <3>1, <3>2
  <2> QED
    BY <2>1, <2>2
<1> QED
  BY <1>3, <1>5 DEF Errand, x, h

--------------------------------------------------------------------------------
(* The monitors and the controls thread take their steps in any order. *)

Pollers == {"inputs", "fake", "controls"}

\* A step of a handler as it is written: a store only follows its load.
SteadyStep(p, t, s) == Spares(p, t, s) /\ s.op # "store2"

Steady(p, t, u) ==
  /\ \E S : u \in Seq(S)
  /\ \A n \in 1..Len(u) : SteadyStep(p, t, u[n])

\* Such steps can follow each other in any order.
LEMMA SteadyErrand ==
  ASSUME NEW p, NEW t \in Pollers, NEW u, Steady(p, t, u)
  PROVE  Errand(p, t, u)
<1>1. PICK S : u \in Seq(S)
  BY DEF Steady
<1>2. t # "timer" /\ \A s : SteadyStep(p, t, s) => s.op \notin {"store1", "store2", "clear_fake"}
  BY DEF SteadyStep, Spares, ErrandOps, Serves, Pollers
<1>3. \A n \in 1..Len(u) : n < Len(u) => n + 1 \in 1..Len(u)
  BY <1>1
<1> QED
  BY <1>1, <1>2, <1>3 DEF Steady, SteadyStep, Errand, Mates, ClearsFirst

\* ... in one handler or in several.
LEMMA SteadyJoin ==
  ASSUME NEW p, NEW t, NEW u, NEW w, Steady(p, t, u), Steady(p, t, w)
  PROVE  Steady(p, t, u \o w)
<1>1. PICK U, W : u \in Seq(U) /\ w \in Seq(W)
  BY DEF Steady
<1>2. u \in Seq(U \cup W) /\ w \in Seq(U \cup W)
  BY <1>1
<1>3. /\ u \o w \in Seq(U \cup W) /\ Len(u \o w) = Len(u) + Len(w)
      /\ \A n \in 1..(Len(u) + Len(w)) :
           (u \o w)[n] = IF n <= Len(u) THEN u[n] ELSE w[n - Len(u)]
  BY <1>2, ConcatProperties
<1>4. ASSUME NEW n \in 1..Len(u \o w)
      PROVE  SteadyStep(p, t, (u \o w)[n])
  <2>1. CASE n <= Len(u)
    BY <1>2, <1>3, <2>1 DEF Steady
  <2>2. CASE ~(n <= Len(u))
    <3>1. n - Len(u) \in 1..Len(w) /\ (u \o w)[n] = w[n - Len(u)]
      BY <1>2, <1>3, <2>2
    <3> QED
      BY <3>1 DEF Steady
  <2> QED
    BY <2>1, <2>2
<1> QED
  BY <1>3, <1>4 DEF Steady

\* Nothing, one step, two and three.
LEMMA SteadyTuples ==
  ASSUME NEW p, NEW t
  PROVE  /\ Steady(p, t, <<>>)
         /\ \A a : SteadyStep(p, t, a) => Steady(p, t, <<a>>)
         /\ \A a, b : SteadyStep(p, t, a) /\ SteadyStep(p, t, b) => Steady(p, t, <<a, b>>)
         /\ \A a, b, c : SteadyStep(p, t, a) /\ SteadyStep(p, t, b) /\ SteadyStep(p, t, c)
                           => Steady(p, t, <<a, b, c>>)
<1>1. Steady(p, t, <<>>)
  <2>1. <<>> \in Seq({}) /\ Len(<<>>) = 0
    OBVIOUS
  <2> QED
    BY <2>1 DEF Steady
<1>2. ASSUME NEW a, SteadyStep(p, t, a)
      PROVE  Steady(p, t, <<a>>)
  <2> DEFINE u == <<a>>
  <2>1. u \in Seq({a}) /\ Len(u) = 1 /\ u[1] = a
    OBVIOUS
  <2> HIDE DEF u
  <2>2. Steady(p, t, u)
    BY <1>2, <2>1 DEF Steady
  <2> QED
    BY <2>2 DEF u
<1>3. ASSUME NEW a, NEW b, SteadyStep(p, t, a), SteadyStep(p, t, b)
      PROVE  Steady(p, t, <<a, b>>)
  <2> DEFINE u == <<a, b>>
  <2>1. u \in Seq({a, b}) /\ Len(u) = 2 /\ u[1] = a /\ u[2] = b
    OBVIOUS
  <2> HIDE DEF u
  <2>2. Steady(p, t, u)
    BY <1>3, <2>1 DEF Steady
  <2> QED
    BY <2>2 DEF u
<1>4. ASSUME NEW a, NEW b, NEW c, SteadyStep(p, t, a), SteadyStep(p, t, b), SteadyStep(p, t, c)
      PROVE  Steady(p, t, <<a, b, c>>)
  <2> DEFINE u == <<a, b, c>>
  <2>1. u \in Seq({a, b, c}) /\ Len(u) = 3 /\ u[1] = a /\ u[2] = b /\ u[3] = c
    OBVIOUS
  <2> HIDE DEF u
  <2>2. \A n \in 1..3 : n = 1 \/ n = 2 \/ n = 3
    OBVIOUS
  <2>3. Steady(p, t, u)
    BY <1>4, <2>1, <2>2 DEF Steady
  <2> QED
    BY <2>3 DEF u
<1> QED
  BY <1>1, <1>2, <1>3, <1>4

\* The steps that go through otp.
LEMMA SteadySteps ==
  ASSUME NEW p, NEW t \in Pollers
  PROVE  /\ \A f, v : SteadyStep(p, t, Put(f, v))
         /\ \A v : SteadyStep(p, t, SetOutput(v)) /\ SteadyStep(p, t, OutOtp(v))
         /\ SteadyStep(p, t, InsertOtp) /\ SteadyStep(p, t, ToggleOtp)
         /\ SteadyStep(p, t, StartTimer) /\ SteadyStep(p, t, OutOnoff)
         /\ SteadyStep(p, t, Msg("ESTOP_SIGNAL"))
<1>1. Serves \subseteq ErrandOps[t]
  BY DEF ErrandOps, Pollers
<1> QED
  BY <1>1 DEF SteadyStep, Spares, Serves, Put, SetOutput, OutOtp, InsertOtp, ToggleOtp,
              StartTimer, OutOnoff, Msg, BlinkerTests, Op

\* The steps that name another output.
LEMMA SteadyStepsOf ==
  ASSUME NEW p, NEW t \in Pollers, NEW q, p # q
  PROVE  SteadyStep(p, t, Find(q)) /\ SteadyStep(p, t, Insert(q))
<1>1. Serves \subseteq ErrandOps[t]
  BY DEF ErrandOps, Pollers
<1> QED
  BY <1>1 DEF SteadyStep, Spares, Serves, Find, Insert, Op

\* The other steps of the controls thread.
LEMMA SteadyControls ==
  ASSUME NEW p
  PROVE  /\ SteadyStep(p, "controls", Sleep)
         /\ \A q, v : q # p => SteadyStep(p, "controls", Out(q, v))
         /\ \A i, v : i \in Number \ {odata[p].input_port, ESTOP_INPUT}
                        => SteadyStep(p, "controls", Input(i, v))
         /\ \A g, v : g \notin {"test_lblinkers", "test_rblinkers", "shutdown_all"}
                        => SteadyStep(p, "controls", Assign(g, v))
         /\ SteadyStep(p, "controls", Assign("shutdown_all", 1))
BY DEF SteadyStep, Spares, ErrandOps, Out, Input, Sleep, Assign, Op

\* What set_output goes on to do, whatever the type of the record.
LEMMA SteadySetOutput ==
  ASSUME NEW p, NEW t \in Pollers, NEW cfg, NEW reset, NEW v
  PROVE  Steady(p, t, SetOutputBranch(cfg, reset, v))
<1>1. ASSUME NEW a, NEW b, NEW c, NEW d, SteadyStep(p, t, a), SteadyStep(p, t, b),
             SteadyStep(p, t, c), SteadyStep(p, t, d)
      PROVE  Steady(p, t, <<a, b, c, d>>)
  <2>1. <<a, b, c, d>> = <<a, b>> \o <<c, d>>
    OBVIOUS
  <2> QED
    BY <1>1, <2>1, SteadyTuples, SteadyJoin
<1>2. ASSUME NEW a, NEW b, NEW c, NEW d, NEW e, SteadyStep(p, t, a), SteadyStep(p, t, b),
             SteadyStep(p, t, c), SteadyStep(p, t, d), SteadyStep(p, t, e)
      PROVE  Steady(p, t, <<a, b, c, d, e>>)
  <2>1. <<a, b, c, d, e>> = <<a, b, c>> \o <<d, e>>
    OBVIOUS
  <2> QED
    BY <1>2, <2>1, SteadyTuples, SteadyJoin
<1>3. /\ \A x : Steady(p, t, <<Put("onoff", x), OutOnoff, InsertOtp>>)
      /\ Steady(p, t, <<Put("reset", 1), ToggleOtp, OutOnoff, InsertOtp>>)
      /\ Steady(p, t, <<Put("reset", 0)>>) /\ Steady(p, t, <<Put("reset", 3)>>)
      /\ Steady(p, t, <<Put("reset", 1), StartTimer, Put("onoff", 1), OutOtp(1), InsertOtp>>)
      /\ Steady(p, t, <<Put("reset", 1), Put("onoff", 0), OutOnoff, InsertOtp,
                        Msg("ESTOP_SIGNAL")>>)
      /\ Steady(p, t, <<>>)
  BY <1>1, <1>2, SteadySteps, SteadyTuples
<1> HIDE DEF Steady
<1> QED
  BY <1>3 DEF SetOutputBranch

\* Outputs that are not in use are skipped.
LEMMA SteadyInUse ==
  ASSUME NEW p, NEW t, NEW q, NEW ops, q \in Output => Steady(p, t, ops)
  PROVE  Steady(p, t, InUse(q, ops))
BY SteadyTuples DEF InUse

--------------------------------------------------------------------------------
(* The commands *)

\* The outputs that are only ever switched through their input.
Followers == {COOLINGFAN, RUNNINGLIGHTS}

\* The input of p, as odata.csv has it.
InputOf(p) == IF p = COOLINGFAN THEN COOLINGFAN_INPUT ELSE RUNNING_LIGHTS_INPUT

\* ON_x and OFF_x for p: the input, then the record.
Drive(p, v) == <<Input(odata[p].input_port, v), Find(p), Put("onoff", v), Insert(p)>>

Commanded(p, u) == Steady(p, "controls", u)

\* The branches in the handlers of ACCON and FUELPUMP.
LEMMA CommandedIf ==
  ASSUME NEW p, NEW q \in {ACCON, FUELPUMP}, NEW v \in {0, 1}
  PROVE  /\ SteadyStep(p, "controls", IfReset0(<<Out(q, v), Put("onoff", v)>>))
         /\ SteadyStep(p, "controls", IfReset0(<<Out(q, v), Put("onoff", v), Insert(q)>>))
         /\ SteadyStep(p, "controls", IfReset0(<<Out(q, v)>>))
<1>1. \A ops : IfReset0(ops).op = "if_reset0" /\ IfReset0(ops).b = ops
  BY DEF IfReset0, Op
<1>2. ASSUME NEW ops \in {<<Out(q, v), Put("onoff", v)>>,
                          <<Out(q, v), Put("onoff", v), Insert(q)>>, <<Out(q, v)>>}
      PROVE  SteadyStep(p, "controls", IfReset0(ops))
  BY <1>1 DEF SteadyStep, Spares, ErrandOps
<1> QED
  BY <1>2

\* Handlers that name another output.
LEMMA CommandedOf ==
  ASSUME NEW p, NEW q, p # q, NEW v
  PROVE  /\ Commanded(p, Follow(q, v)) /\ Commanded(p, Direct(q, v))
         /\ Commanded(p, Energize(q)) /\ Commanded(p, Cut(q))
<1> USE DEF Commanded
<1>0. "controls" \in Pollers
  BY DEF Pollers
<1>1. Commanded(p, Follow(q, v))
  BY <1>0, SteadyTuples, SteadySteps, SteadyStepsOf, SteadyInUse DEF Follow
<1>2. Commanded(p, Direct(q, v))
  BY <1>0, SteadyTuples, SteadySteps, SteadyStepsOf, SteadyInUse DEF Direct
<1>3. Commanded(p, Energize(q))
  <2> DEFINE all == <<Find(q), Put("onoff", 1), Put("reset", 0), Out(q, 1), InsertOtp>>
             a == <<Find(q), Put("onoff", 1), Put("reset", 0)>>
             b == <<Out(q, 1), InsertOtp>>
  <2>1. Commanded(p, a) /\ Commanded(p, b)
    BY <1>0, SteadyTuples, SteadySteps, SteadyStepsOf, SteadyControls
  <2>2. all = a \o b
    OBVIOUS
  <2> HIDE DEF a, b, all
  <2>3. Commanded(p, all)
    BY <2>1, <2>2, SteadyJoin
  <2> QED
    BY <2>3, SteadyInUse DEF Energize, all
<1>4. Commanded(p, Cut(q))
  <2> DEFINE all == <<Out(q, 0), Find(q), Put("onoff", 0), InsertOtp>>
             a == <<Out(q, 0), Find(q)>>
             b == <<Put("onoff", 0), InsertOtp>>
  <2>1. Commanded(p, a) /\ Commanded(p, b)
    BY <1>0, SteadyTuples, SteadySteps, SteadyStepsOf, SteadyControls
  <2>2. all = a \o b
    OBVIOUS
  <2> HIDE DEF a, b, all
  <2>3. Commanded(p, all)
    BY <2>1, <2>2, SteadyJoin
  <2> QED
    BY <2>3, SteadyInUse DEF Cut, all
<1> QED
  BY <1>1, <1>2, <1>3, <1>4

\* SPECIAL_CMD
LEMMA CommandedSpecialCmd ==
  ASSUME NEW p \in Followers
  PROVE  Commanded(p, SpecialCmd)
<1> USE DEF Commanded
<1> DEFINE L(v) == Direct(LHEADLAMP, v) \o <<Sleep>>
           R(v) == Direct(RHEADLAMP, v) \o <<Sleep>>
           l(v) == Direct(LBRIGHTS, v) \o <<Sleep>>
           r(v) == Direct(RBRIGHTS, v) \o <<Sleep>>
           once == L(1) \o l(1) \o R(1) \o r(1) \o l(0) \o L(0) \o r(0) \o R(0)
                   \o R(1) \o r(1) \o L(1) \o l(1) \o l(0) \o L(0) \o r(0) \o R(0)
<1>1. p \notin {LHEADLAMP, RHEADLAMP, LBRIGHTS, RBRIGHTS}
  BY DEF Followers, COOLINGFAN, RUNNINGLIGHTS, LHEADLAMP, RHEADLAMP, LBRIGHTS, RBRIGHTS
<1>2. Commanded(p, <<Sleep>>)
  BY SteadyControls, SteadyTuples
<1>3. /\ Commanded(p, L(0)) /\ Commanded(p, R(0)) /\ Commanded(p, l(0)) /\ Commanded(p, r(0))
      /\ Commanded(p, L(1)) /\ Commanded(p, R(1)) /\ Commanded(p, l(1)) /\ Commanded(p, r(1))
  BY <1>1, <1>2, CommandedOf, SteadyJoin
<1> HIDE DEF L, R, l, r
<1>4. Commanded(p, L(1) \o l(1) \o R(1) \o r(1))
  BY <1>3, SteadyJoin
<1>5. Commanded(p, L(1) \o l(1) \o R(1) \o r(1) \o l(0) \o L(0) \o r(0) \o R(0))
  BY <1>3, <1>4, SteadyJoin
<1>6. Commanded(p, L(1) \o l(1) \o R(1) \o r(1) \o l(0) \o L(0) \o r(0) \o R(0)
                   \o R(1) \o r(1) \o L(1) \o l(1))
  BY <1>3, <1>5, SteadyJoin
<1>7. Commanded(p, once)
  BY <1>3, <1>6, SteadyJoin
<1>8. Commanded(p, once \o once)
  BY <1>7, SteadyJoin
<1> QED
  BY <1>8 DEF SpecialCmd, L, R, l, r

\* START_SEQ
LEMMA CommandedStartSeq ==
  ASSUME NEW p \in Followers, odata[p].input_port = InputOf(p)
  PROVE  Commanded(p, StartSeq)
<1> USE DEF Commanded
<1> DEFINE tail == <<Sleep, Input(STARTER_INPUT, 0), Sleep, Input(STARTER_INPUT, 1),
                     Assign("engine_running", 1)>>
           a == <<Sleep, Input(STARTER_INPUT, 0), Sleep>>
           b == <<Input(STARTER_INPUT, 1), Assign("engine_running", 1)>>
<1>1. /\ p # ACCON /\ p # FUELPUMP /\ p # STARTER
      /\ STARTER_INPUT \in Number \ {odata[p].input_port, ESTOP_INPUT}
      /\ "controls" \in Pollers
  BY DEF Followers, COOLINGFAN, RUNNINGLIGHTS, ACCON, FUELPUMP, STARTER, STARTER_INPUT,
         ESTOP_INPUT, Number, InputOf, COOLINGFAN_INPUT, RUNNING_LIGHTS_INPUT, Pollers
<1>2. Commanded(p, a) /\ Commanded(p, b)
  BY <1>1, SteadyControls, SteadyTuples
<1>3. tail = a \o b
  OBVIOUS
<1> HIDE DEF a, b, tail
<1>4. Commanded(p, tail)
  BY <1>2, <1>3, SteadyJoin
<1>5. Commanded(p, InUse(STARTER, <<Find(STARTER)>>))
  BY <1>1, SteadyTuples, SteadyStepsOf, SteadyInUse
<1>6. Commanded(p, Energize(ACCON) \o Energize(FUELPUMP) \o InUse(STARTER, <<Find(STARTER)>>)
                   \o tail)
  BY <1>1, <1>4, <1>5, CommandedOf, SteadyJoin
<1> QED
  BY <1>6 DEF StartSeq, tail

\* The handlers of ACCON and FUELPUMP, of the wipers, SHUTDOWN and the ends of the program.
LEMMA CommandedPrograms ==
  ASSUME NEW p \in Followers
  PROVE  /\ \A v \in {0, 1} : Commanded(p, InUse(ACCON, Acc(v)))
         /\ Commanded(p, InUse(FUELPUMP, FuelPumpOn))
         /\ Commanded(p, InUse(FUELPUMP, FuelPumpOff))
         /\ \A v1, v2 : Commanded(p, Wipers(v1, v2))
         /\ Commanded(p, Shutdown)
         /\ \A n : Commanded(p, EndProgram(n)) /\ Commanded(p, <<Sleep>> \o EndProgram(n))
<1> USE DEF Commanded
<1>1. /\ p # ACCON /\ p # FUELPUMP /\ p # WWIPER1 /\ p # WWIPER2
      /\ ACCON \in {ACCON, FUELPUMP} /\ FUELPUMP \in {ACCON, FUELPUMP}
      /\ "controls" \in Pollers
  BY DEF Followers, COOLINGFAN, RUNNINGLIGHTS, ACCON, FUELPUMP, WWIPER1, WWIPER2, Pollers
<1>2. ASSUME NEW v \in {0, 1}
      PROVE  Commanded(p, InUse(ACCON, Acc(v)))
  <2>1. SteadyStep(p, "controls", IfReset0(<<Out(ACCON, v)>>))
    BY <1>1, CommandedIf
  <2> QED
    BY <1>1, <2>1, SteadyTuples, SteadyStepsOf, SteadyInUse DEF Acc
<1>3. Commanded(p, InUse(FUELPUMP, FuelPumpOn))
  <2>1. SteadyStep(p, "controls", IfReset0(<<Out(FUELPUMP, 1), Put("onoff", 1)>>))
    BY <1>1, CommandedIf
  <2> QED
    BY <1>1, <2>1, SteadyTuples, SteadyStepsOf, SteadyInUse DEF FuelPumpOn
<1>4. Commanded(p, InUse(FUELPUMP, FuelPumpOff))
  <2>1. SteadyStep(p, "controls", IfReset0(<<Out(FUELPUMP, 0), Put("onoff", 0), Insert(FUELPUMP)>>))
    BY <1>1, CommandedIf
  <2> QED
    BY <1>1, <2>1, SteadyTuples, SteadyStepsOf, SteadyInUse DEF FuelPumpOff
<1>5. ASSUME NEW v1, NEW v2
      PROVE  Commanded(p, Wipers(v1, v2))
  <2>1. Commanded(p, Direct(WWIPER1, v1))
    BY <1>1, CommandedOf
  <2>2. Commanded(p, <<Find(WWIPER2), Sleep, SetOutput(v2)>>)
    BY <1>1, SteadyTuples, SteadySteps, SteadyStepsOf, SteadyControls
  <2> QED
    BY <2>1, <2>2, SteadyInUse, SteadyJoin DEF Wipers
<1>6. Commanded(p, <<Sleep>>)
  BY SteadyControls, SteadyTuples
<1>7. Commanded(p, Shutdown)
  <2> DEFINE first == <<Assign("run_time", 0), Assign("engine_running", 0)>>
             last == <<Assign("lights_on_countdown", actual_lights_on_delay)>>
  <2>1. Commanded(p, first) /\ Commanded(p, last)
    BY SteadyControls, SteadyTuples
  <2>2. Commanded(p, Cut(ACCON)) /\ Commanded(p, Cut(FUELPUMP))
    BY <1>1, CommandedOf
  <2> HIDE DEF first, last
  <2>3. Commanded(p, first \o Cut(ACCON) \o <<Sleep>> \o Cut(FUELPUMP) \o last)
    BY <1>6, <2>1, <2>2, SteadyJoin
  <2> QED
    BY <2>3 DEF Shutdown, first, last
<1>8. ASSUME NEW n
      PROVE  Commanded(p, EndProgram(n))
  BY SteadyControls, SteadyTuples DEF EndProgram
<1> QED
  BY <1>2, <1>3, <1>4, <1>5, <1>6, <1>7, <1>8, SteadyJoin

(* Whatever command the controls thread takes from the queue, its program    *)
(* leaves p alone, or it switches p.                                         *)
LEMMA ProgramSpares ==
  ASSUME NEW p \in Followers \cap Output, odata[p].input_port = InputOf(p),
         NEW cmd, cmd \notin BlinkerTests
  PROVE  \/ Commanded(p, Program(cmd))
         \/ \E v \in {0, 1} : Program(cmd) = Drive(p, v)
<1> DEFINE Good(s) == Commanded(p, s) \/ \E v \in {0, 1} : s = Drive(p, v)
           Free == Number \ {odata[p].input_port, ESTOP_INPUT}
<1>1. p \in Followers
  OBVIOUS
<1>2. /\ STARTER_INPUT \in Free /\ HEADLAMP_INPUT \in Free
      /\ BRIGHTS_INPUT \in Free /\ BRAKE_INPUT \in Free
      /\ p # COOLINGFAN => COOLINGFAN_INPUT \in Free
      /\ p # RUNNINGLIGHTS => RUNNING_LIGHTS_INPUT \in Free
  BY DEF Followers, COOLINGFAN, RUNNINGLIGHTS, STARTER_INPUT, HEADLAMP_INPUT, BRIGHTS_INPUT,
         BRAKE_INPUT, ESTOP_INPUT, Number, InputOf, COOLINGFAN_INPUT, RUNNING_LIGHTS_INPUT
<1>3. p \notin {LHEADLAMP, RHEADLAMP, LBRIGHTS, RBRIGHTS}
  BY DEF Followers, COOLINGFAN, RUNNINGLIGHTS, LHEADLAMP, RHEADLAMP, LBRIGHTS, RBRIGHTS
<1>4. ASSUME NEW i \in Free, NEW v
      PROVE  Commanded(p, <<Input(i, v)>>)
  BY SteadyControls, SteadyTuples DEF Commanded
<1>5. ASSUME NEW i \in Free, NEW v, NEW follow, Commanded(p, follow)
      PROVE  Commanded(p, ViaInput(i, v, follow))
  BY <1>4, <1>5, SteadyJoin DEF ViaInput, Commanded
<1>6. \A v : ViaInput(odata[p].input_port, v, Follow(p, v)) = Drive(p, v)
  <2>1. ASSUME NEW a, NEW b, NEW c, NEW d
        PROVE  <<a>> \o <<b, c, d>> = <<a, b, c, d>>
    <3> DEFINE s == <<a, b, c, d>>
               u == <<b, c, d>>
    <3>1. /\ s \in Seq({a, b, c, d}) /\ u \in Seq({a, b, c, d}) /\ Len(u) = 3 /\ Len(s) = 4
          /\ s[1] = a /\ s[2] = u[1] /\ s[3] = u[2] /\ s[4] = u[3]
      OBVIOUS
    <3> HIDE DEF s, u
    <3>2. Len(s) = Len(u) + 1 /\ \A i \in 1..Len(u) : s[i + 1] = u[i]
      BY <3>1
    <3>3. s = <<s[1]>> \o u
      BY <3>1, <3>2, HeadFirst
    <3> QED
      BY <3>1, <3>3 DEF s, u
  <2>2. \A v : <<Input(odata[p].input_port, v)>> \o <<Find(p), Put("onoff", v), Insert(p)>>
                 = Drive(p, v)
    BY <2>1 DEF Drive
  <2> QED
    BY <2>2 DEF ViaInput, Follow, InUse
<1>7. ASSUME NEW v \in {0, 1}
      PROVE  /\ Good(ViaInput(COOLINGFAN_INPUT, v, Follow(COOLINGFAN, v)))
             /\ Good(ViaInput(RUNNING_LIGHTS_INPUT, v, Follow(RUNNINGLIGHTS, v)))
  <2>1. CASE p = COOLINGFAN
    <3>1. p # RUNNINGLIGHTS /\ odata[p].input_port = COOLINGFAN_INPUT
      BY <2>1 DEF COOLINGFAN, RUNNINGLIGHTS, InputOf
    <3>2. Commanded(p, Follow(RUNNINGLIGHTS, v))
      BY <3>1, CommandedOf
    <3> QED
      BY <1>2, <1>5, <1>6, <2>1, <3>1, <3>2
  <2>2. CASE p = RUNNINGLIGHTS
    <3>1. p # COOLINGFAN /\ odata[p].input_port = RUNNING_LIGHTS_INPUT
      BY <2>2 DEF COOLINGFAN, RUNNINGLIGHTS, InputOf
    <3>2. Commanded(p, Follow(COOLINGFAN, v))
      BY <3>1, CommandedOf
    <3> QED
      BY <1>2, <1>5, <1>6, <2>2, <3>1, <3>2
  <2> QED
    BY <1>1, <2>1, <2>2 DEF Followers
<1>8. \A q, v : q # p => Good(Direct(q, v))
  BY CommandedOf
<1>9. \A q, r, v : q # p /\ r # p => Commanded(p, FollowBoth(q, r, v))
  BY CommandedOf, SteadyJoin DEF FollowBoth, Commanded
<1>10. \A v : /\ Good(ViaInput(HEADLAMP_INPUT, v, FollowBoth(LHEADLAMP, RHEADLAMP, v)))
              /\ Good(ViaInput(BRIGHTS_INPUT, v, FollowBoth(LBRIGHTS, RBRIGHTS, v)))
  BY <1>2, <1>3, <1>5, <1>9
<1>11. \A i \in {STARTER_INPUT, BRAKE_INPUT} : \A v : Good(<<Input(i, v)>>)
  BY <1>2, <1>4
<1>12. /\ \A v \in {0, 1} : Good(InUse(ACCON, Acc(v)))
       /\ Good(InUse(FUELPUMP, FuelPumpOn)) /\ Good(InUse(FUELPUMP, FuelPumpOff))
       /\ \A v1, v2 : Good(Wipers(v1, v2))
       /\ Good(Shutdown) /\ Good(SpecialCmd) /\ Good(StartSeq)
       /\ \A n : Good(EndProgram(n)) /\ Good(<<Sleep>> \o EndProgram(n))
       /\ Good(<<>>)
  <2>1. Commanded(p, <<>>)
    BY SteadyTuples DEF Commanded
  <2> QED
    BY <1>1, <2>1, CommandedPrograms, CommandedSpecialCmd, CommandedStartSeq
<1> HIDE DEF Good
<1>13. Good(Program(cmd))
  BY <1>3, <1>7, <1>8, <1>10, <1>11, <1>12 DEF Program, BlinkerTests
<1> QED
  BY <1>13 DEF Good

--------------------------------------------------------------------------------
(* The loops over the outputs *)

\* An errand that goes through some outputs.
Rounds(p, t, u) ==
  /\ Errand(p, t, u)
  /\ u # <<>> => u[1].op = "find" /\ u[Len(u)].op \in {"timed", "set_output"}

\* Steps b, between two such errands.
Amid(p, t, s, b) ==
  \E u, w : Rounds(p, t, u) /\ Rounds(p, t, w) /\ s = u \o (b \o w)

\* ... and then through others.
LEMMA RoundsJoin ==
  ASSUME NEW p, NEW t, NEW u, NEW w, Rounds(p, t, u), Rounds(p, t, w)
  PROVE  Rounds(p, t, u \o w)
<1>1. PICK U, W : u \in Seq(U) /\ w \in Seq(W)
  BY DEF Rounds, Errand
<1>2. u \in Seq(U \cup W) /\ w \in Seq(U \cup W)
  BY <1>1
<1>3. u # <<>> /\ w # <<>> => Mates(t, u[Len(u)], w[1])
  BY DEF Rounds, Mates, Early, Late, ClearsFirst, ClearsSecond
<1>4. Errand(p, t, u \o w)
  BY <1>3, ErrandJoin DEF Rounds
<1> DEFINE x == u \o w
           lu == Len(u)
           lw == Len(w)
<1>5. /\ x \in Seq(U \cup W) /\ Len(x) = lu + lw
      /\ \A n \in 1..(lu + lw) : x[n] = IF n <= lu THEN u[n] ELSE w[n - lu]
  BY <1>2, ConcatProperties
<1>6. lu \in Nat /\ lw \in Nat /\ (u # <<>> <=> lu > 0) /\ (w # <<>> <=> lw > 0)
  BY <1>2
<1>7. /\ lu > 0 => u[1].op = "find" /\ u[lu].op \in {"timed", "set_output"}
      /\ lw > 0 => w[1].op = "find" /\ w[lw].op \in {"timed", "set_output"}
  BY <1>6 DEF Rounds
<1>8. x # <<>> => lu + lw > 0
  BY <1>5, <1>6
<1> HIDE DEF x, lu, lw
<1>9. x # <<>> => x[1].op = "find"
  BY <1>5, <1>6, <1>7, <1>8
<1>10. x # <<>> => x[lu + lw].op \in {"timed", "set_output"}
  <2>1. CASE lw = 0
    BY <1>5, <1>6, <1>7, <1>8, <2>1
  <2>2. CASE lw # 0
    <3>1. lu + lw \in 1..(lu + lw) /\ ~(lu + lw <= lu) /\ (lu + lw) - lu = lw
      BY <1>6, <2>2
    <3> QED
      BY <1>5, <1>6, <1>7, <2>2, <3>1
  <2> QED
    BY <2>1, <2>2
<1> QED
  BY <1>4, <1>5, <1>9, <1>10 DEF Rounds, x

\* One round.
LEMMA RoundsOne ==
  ASSUME NEW p, NEW t, NEW a, NEW b, Spares(p, t, a), Spares(p, t, b), a.op = "find",
         b.op \in {"timed", "set_output"}
  PROVE  Rounds(p, t, <<a, b>>)
<1> DEFINE u == <<a, b>>
<1>1. u \in Seq({a, b}) /\ Len(u) = 2 /\ u[1] = a /\ u[2] = b
  OBVIOUS
<1>2. \A n \in 1..2 : (n = 1 /\ n < 2 /\ n + 1 = 2) \/ (n = 2 /\ ~(n < 2))
  OBVIOUS
<1>3. Mates(t, a, b) /\ ~ClearsFirst(a) /\ ~ClearsFirst(b)
  BY DEF Mates, Early, Late, ClearsFirst, ClearsSecond
<1> HIDE DEF u
<1>4. Errand(p, t, u)
  BY <1>1, <1>2, <1>3 DEF Errand
<1> QED
  BY <1>1, <1>4 DEF Rounds, u

\* A loop in which every round but that of output q is an errand.
LEMMA RoundsAround ==
  ASSUME NEW p, NEW t, NEW body, NEW q \in Number,
         \A n \in Number \ {q} : Rounds(p, t, body[n]),
         NEW S, body[q] \in Seq(S)
  PROVE  Amid(p, t, ForOutputs(body), body[q])
<1>1. PICK pass : /\ pass[0] = <<>>
                  /\ \A n \in 0..39 : pass[n + 1] = pass[n] \o body[n]
                  /\ ForOutputs(body) = pass[40]
  BY ForOutputsPasses
<1> DEFINE After(s) == Amid(p, t, s, body[q])
           good == {n \in 0..40 : IF n <= q THEN Rounds(p, t, pass[n]) ELSE After(pass[n])}
<1>2. Rounds(p, t, <<>>)
  BY ErrandEmpty DEF Rounds
<1>3. q \in 0..39
  BY DEF Number
<1>4. ASSUME NEW u, Rounds(p, t, u)
      PROVE  After(u \o body[q])
  <2>1. body[q] \o <<>> = body[q]
    BY ConcatEmptySeq
  <2> QED
    BY <1>2, <1>4, <2>1 DEF Amid
<1>5. ASSUME NEW s, After(s), NEW x, Rounds(p, t, x)
      PROVE  After(s \o x)
  <2>1. PICK u, w : Rounds(p, t, u) /\ Rounds(p, t, w) /\ s = u \o (body[q] \o w)
    BY <1>5 DEF Amid
  <2>2. PICK U, W, X : u \in Seq(U) /\ w \in Seq(W) /\ x \in Seq(X)
    BY <1>5, <2>1 DEF Rounds, Errand
  <2> DEFINE A == U \cup S \cup W \cup X
             b == body[q]
  <2>3. u \in Seq(A) /\ b \in Seq(A) /\ w \in Seq(A) /\ x \in Seq(A)
    BY <2>2
  <2> HIDE DEF A, b
  <2>4. Regroups(u, b, w, x)
    BY <2>3, JoinOfThree
  <2>5. Rounds(p, t, w \o x)
    BY <1>5, <2>1, RoundsJoin
  <2> QED
    BY <2>1, <2>4, <2>5 DEF b, Amid, Regroups
<1>6. 0 \in good
  <2>1. pass[0] = <<>>
    BY <1>1
  <2> HIDE DEF After
  <2> QED
    BY <1>2, <1>3, <2>1
<1> HIDE DEF After
<1>7. ASSUME NEW n \in 0..39, n \in good
      PROVE  n + 1 \in good
  <2>0. n \in Number /\ n + 1 \in 0..40
    BY DEF Number
  <2>1. pass[n + 1] = pass[n] \o body[n] /\ n \in Number /\ n + 1 \in 0..40
    BY <1>1, <2>0
  <2>2. CASE n < q
    <3>0. n <= q /\ n + 1 <= q /\ n # q
      BY <1>3, <2>2
    <3>1. Rounds(p, t, pass[n]) /\ Rounds(p, t, body[n])
      BY <1>7, <2>1, <3>0
    <3> QED
      BY <2>1, <3>0, <3>1, RoundsJoin
  <2>3. CASE n = q
    <3>0. n <= q /\ ~(n + 1 <= q)
      BY <1>3, <2>3
    <3>1. Rounds(p, t, pass[n])
      BY <1>7, <3>0
    <3>2. After(pass[n + 1])
      BY <1>4, <2>1, <2>3, <3>1
    <3> QED
      BY <2>1, <3>0, <3>2
  <2>4. CASE n > q
    <3>1. After(pass[n]) /\ Rounds(p, t, body[n]) /\ ~(n + 1 <= q)
      BY <1>3, <1>7, <2>1, <2>4
    <3>2. After(pass[n + 1])
      BY <1>5, <2>1, <3>1
    <3> QED
      BY <2>1, <3>1, <3>2
  <2> HIDE DEF good
  <2> QED
    BY <1>3, <2>2, <2>3, <2>4
<1>8. 40 \in good
  <2> HIDE DEF good
  <2> QED
    BY <1>6, <1>7, FortyRounds
<1>9. After(pass[40])
  BY <1>3, <1>8
<1> QED
  BY <1>1, <1>9 DEF After

\* The loop of the monitors over the outputs of another input than p's.
LEMMA ServeInputSpares ==
  ASSUME NEW p \in Number, NEW t \in {"inputs", "fake"}, NEW i, i # odata[p].input_port, NEW v
  PROVE  Rounds(p, t, ServeInput(i, v))
<1> DEFINE body == [q \in Number |->
             IF q \in Output /\ odata[q].input_port = i THEN <<Find(q), SetOutput(v)>> ELSE <<>>]
<1>1. ASSUME NEW q \in Number
      PROVE  Rounds(p, t, body[q])
  <2>1. ASSUME q # p
        PROVE  Rounds(p, t, <<Find(q), SetOutput(v)>>)
    <3>1. t \in Pollers /\ Find(q).op = "find" /\ SetOutput(v).op = "set_output"
      BY DEF Pollers, Find, SetOutput, Op
    <3>2. Spares(p, t, Find(q)) /\ Spares(p, t, SetOutput(v))
      BY <2>1, <3>1, SteadySteps, SteadyStepsOf DEF SteadyStep
    <3> QED
      BY <3>1, <3>2, RoundsOne
  <2>2. Rounds(p, t, <<>>)
    BY ErrandEmpty DEF Rounds
  <2> QED
    BY <2>1, <2>2
<1> HIDE DEF body
<1>2. PICK S : body[p] \in Seq(S)
  BY <1>1 DEF Rounds, Errand
<1>3. Amid(p, t, ForOutputs(body), body[p])
  BY <1>1, <1>2, RoundsAround
<1>4. Rounds(p, t, ForOutputs(body))
  BY <1>1, <1>3, RoundsJoin DEF Amid
<1> QED
  BY <1>4 DEF ServeInput, body

\* ... and of p's own.
LEMMA ServeInputServes ==
  ASSUME NEW p \in Output, NEW v
  PROVE  Amid(p, "fake", ServeInput(odata[p].input_port, v), <<Find(p), SetOutput(v)>>)
<1> DEFINE i == odata[p].input_port
           body == [q \in Number |->
             IF q \in Output /\ odata[q].input_port = i THEN <<Find(q), SetOutput(v)>> ELSE <<>>]
<1>1. p \in Number
  BY HandlerAssumption
<1>2. ASSUME NEW q \in Number \ {p}
      PROVE  Rounds(p, "fake", body[q])
  <2>1. Rounds(p, "fake", <<Find(q), SetOutput(v)>>)
    <3>1. "fake" \in Pollers /\ Find(q).op = "find" /\ SetOutput(v).op = "set_output"
      BY DEF Pollers, Find, SetOutput, Op
    <3>2. Spares(p, "fake", Find(q)) /\ Spares(p, "fake", SetOutput(v))
      BY <3>1, SteadySteps, SteadyStepsOf DEF SteadyStep
    <3> QED
      BY <3>1, <3>2, RoundsOne
  <2>2. Rounds(p, "fake", <<>>)
    BY ErrandEmpty DEF Rounds
  <2> QED
    BY <2>1, <2>2
<1>3. body[p] = <<Find(p), SetOutput(v)>>
  BY <1>1
<1> HIDE DEF body
<1>4. body[p] \in Seq({Find(p), SetOutput(v)})
  BY <1>3
<1>5. Amid(p, "fake", ForOutputs(body), body[p])
  BY <1>1, <1>2, <1>4, RoundsAround
<1>6. ServeInput(i, v) = ForOutputs(body)
  BY DEF ServeInput, body
<1> QED
  BY <1>3, <1>5, <1>6

\* The loop of the timer over the timed outputs.
LEMMA TimerPassSpares ==
  ASSUME NEW p \in Number
  PROVE  Rounds(p, "timer", TimerPass)
<1> DEFINE body == [q \in Number |->
             IF q \in Output /\ q < TESTOUTPUT27 THEN <<Find(q), Op("timed", q, 0)>> ELSE <<>>]
<1>1. ASSUME NEW q \in Number
      PROVE  Rounds(p, "timer", body[q])
  <2>1. Rounds(p, "timer", <<Find(q), Op("timed", q, 0)>>)
    <3>1. Find(q).op = "find" /\ Op("timed", q, 0).op = "timed"
      BY DEF Find, Op
    <3>2. Spares(p, "timer", Find(q)) /\ Spares(p, "timer", Op("timed", q, 0))
      BY <3>1 DEF Spares, ErrandOps
    <3> QED
      BY <3>1, <3>2, RoundsOne
  <2>2. Rounds(p, "timer", <<>>)
    BY ErrandEmpty DEF Rounds
  <2> QED
    BY <2>1, <2>2
<1> HIDE DEF body
<1>2. PICK S : body[p] \in Seq(S)
  BY <1>1 DEF Rounds, Errand
<1>3. Amid(p, "timer", ForOutputs(body), body[p])
  BY <1>1, <1>2, RoundsAround
<1>4. Rounds(p, "timer", ForOutputs(body))
  BY <1>1, <1>3, RoundsJoin DEF Amid
<1> QED
  BY <1>4 DEF TimerPass, body

--------------------------------------------------------------------------------
(* What the steps of an errand put in front of the rest of it *)

\* What may follow step s may follow step r.
Like(t, s, r) ==
  t = "timer" => /\ s.op \in Early => r.op \in Early
                 /\ s.op \in Late => r.op \in Late
                 /\ ClearsFirst(s) <=> ClearsFirst(r)

\* A step is taken, and others come in its place.
LEMMA ErrandReplace ==
  ASSUME NEW p, NEW t, NEW u, Errand(p, t, u), u # <<>>, NEW ops, Errand(p, t, ops),
         ops # <<>> => Like(t, Head(u), ops[Len(ops)])
  PROVE  Errand(p, t, ops \o Tail(u))
<1>1. /\ Errand(p, t, Tail(u))
      /\ Tail(u) # <<>> => Mates(t, Head(u), Head(Tail(u)))
  BY ErrandHead
<1>2. PICK S : Tail(u) \in Seq(S)
  BY <1>1 DEF Errand
<1>3. Tail(u) # <<>> => Head(Tail(u)) = Tail(u)[1]
  BY <1>2
<1> DEFINE last == ops[Len(ops)]
<1>4. PICK T : ops \in Seq(T)
  BY DEF Errand
<1>5. ops # <<>> => Len(ops) \in 1..Len(ops) /\ ~(Len(ops) < Len(ops))
  BY <1>4
<1>6. ops # <<>> => ~ClearsFirst(last)
  BY <1>5 DEF Errand
<1> HIDE DEF last
<1>7. ops # <<>> /\ Tail(u) # <<>> => Mates(t, last, Tail(u)[1])
  BY <1>1, <1>3, <1>6 DEF Mates, Like, last
<1> QED
  BY <1>1, <1>7, ErrandJoin DEF last

\* The load of an input register is followed by its store.
LEMMA ErrandStore ==
  ASSUME NEW p, NEW t, NEW u, Errand(p, t, u), u # <<>>, NEW s, Spares(p, t, s),
         Like(t, Head(u), s), ClearsFirst(s) => ClearsFirst(Head(u))
  PROVE  Errand(p, t, <<s>> \o Tail(u))
<1>1. /\ Errand(p, t, Tail(u))
      /\ Tail(u) # <<>> => Mates(t, Head(u), Head(Tail(u)))
      /\ ClearsFirst(Head(u)) => Tail(u) # <<>>
  BY ErrandHead
<1>2. CASE Tail(u) = <<>>
  <2>1. Errand(p, t, <<s>>)
    BY <1>1, <1>2, ErrandStep
  <2>2. <<s>> \o <<>> = <<s>>
    OBVIOUS
  <2> QED
    BY <1>2, <2>1, <2>2
<1>3. CASE Tail(u) # <<>>
  <2>1. Mates(t, s, Head(Tail(u)))
    BY <1>1, <1>3 DEF Mates, Like
  <2> QED
    BY <1>1, <1>3, <2>1, ErrandThen
<1> QED
  BY <1>2, <1>3

\* The branches of the handlers of ACCON and FUELPUMP.
LEMMA BranchSpares ==
  ASSUME NEW p \in Followers, NEW s, Spares(p, "controls", s), s.op = "if_reset0"
  PROVE  Errand(p, "controls", s.b)
<1>1. PICK q \in {ACCON, FUELPUMP}, v \in {0, 1} :
         s.b \in {<<Out(q, v), Put("onoff", v)>>, <<Out(q, v), Put("onoff", v), Insert(q)>>,
                  <<Out(q, v)>>}
  BY DEF Spares
<1>2. q # p /\ "controls" \in Pollers
  BY DEF Followers, COOLINGFAN, RUNNINGLIGHTS, ACCON, FUELPUMP, Pollers
<1>3. /\ SteadyStep(p, "controls", Out(q, v)) /\ SteadyStep(p, "controls", Put("onoff", v))
      /\ SteadyStep(p, "controls", Insert(q))
  BY <1>2, SteadySteps, SteadyStepsOf, SteadyControls
<1>4. Steady(p, "controls", s.b)
  BY <1>1, <1>3, SteadyTuples
<1> QED
  BY <1>2, <1>4, SteadyErrand

\* The timer asks for the lights.
LEMMA LightsSpare ==
  ASSUME NEW p
  PROVE  /\ Errand(p, "timer", LightsOn) /\ LightsOn[Len(LightsOn)].op \in Early
         /\ Errand(p, "timer", LightsOff) /\ LightsOff[Len(LightsOff)].op \in Early
<1>1. ASSUME NEW c, c \notin BlinkerTests
      PROVE  Msg(c).op = "msg" /\ Spares(p, "timer", Msg(c))
  BY <1>1 DEF Msg, Op, Spares, ErrandOps, Early, Late
<1>2. Sleep.op = "sleep" /\ Spares(p, "timer", Sleep)
  BY DEF Sleep, Op, Spares, ErrandOps, Early, Late
<1>3. ASSUME NEW a, NEW b, a.op \in {"msg", "sleep"}, b.op \in {"msg", "sleep"}
      PROVE  Mates("timer", a, b) /\ ~ClearsFirst(a) /\ a.op \in Early
  BY <1>3 DEF Mates, Early, Late, ClearsFirst, ClearsSecond
<1> DEFINE on == <<Msg("ON_LIGHTS"), Msg("ON_RUNNING_LIGHTS")>>
           off == <<Msg("OFF_LLIGHTS"), Msg("OFF_RLIGHTS"), Msg("OFF_LIGHTS"),
                    Msg("OFF_RUNNING_LIGHTS"), Msg("OFF_FAN"), Sleep>>
           Ask(s) == s.op \in {"msg", "sleep"} /\ Spares(p, "timer", s)
<1>4. /\ Ask(Msg("ON_LIGHTS")) /\ Ask(Msg("ON_RUNNING_LIGHTS"))
      /\ Ask(Msg("OFF_LLIGHTS")) /\ Ask(Msg("OFF_RLIGHTS")) /\ Ask(Msg("OFF_LIGHTS"))
      /\ Ask(Msg("OFF_RUNNING_LIGHTS")) /\ Ask(Msg("OFF_FAN")) /\ Ask(Sleep)
  BY <1>1, <1>2 DEF BlinkerTests
<1> HIDE DEF Ask
<1>5. ASSUME NEW w, NEW S, w \in Seq(S), Len(w) > 0, \A n \in 1..Len(w) : Ask(w[n])
      PROVE  Errand(p, "timer", w) /\ w[Len(w)].op \in Early
  <2>1. \A n \in 1..Len(w) : w[n].op \in {"msg", "sleep"} /\ Spares(p, "timer", w[n])
    BY <1>5 DEF Ask
  <2>2. \A n \in 1..Len(w) : n < Len(w) => n + 1 \in 1..Len(w)
    BY <1>5
  <2>3. Len(w) \in 1..Len(w)
    BY <1>5
  <2>4. w[Len(w)].op \in Early
    BY <1>3, <2>1, <2>3
  <2>5. \A n \in 1..Len(w) : /\ n < Len(w) => Mates("timer", w[n], w[n + 1])
                            /\ ~ClearsFirst(w[n])
    <3> TAKE n \in 1..Len(w)
    <3>1. w[n].op \in {"msg", "sleep"} /\ ~ClearsFirst(w[n])
      BY <1>3, <2>1
    <3>2. n < Len(w) => w[n + 1].op \in {"msg", "sleep"}
      BY <2>1, <2>2
    <3> QED
      BY <1>3, <3>1, <3>2
  <2> QED
    BY <1>5, <2>1, <2>4, <2>5 DEF Errand
<1>6. /\ on \in Seq({on[1], on[2]}) /\ Len(on) = 2
      /\ on[1] = Msg("ON_LIGHTS") /\ on[2] = Msg("ON_RUNNING_LIGHTS")
  OBVIOUS
<1>7. /\ off \in Seq({off[1], off[2], off[3], off[4], off[5], off[6]}) /\ Len(off) = 6
      /\ off[1] = Msg("OFF_LLIGHTS") /\ off[2] = Msg("OFF_RLIGHTS")
      /\ off[3] = Msg("OFF_LIGHTS") /\ off[4] = Msg("OFF_RUNNING_LIGHTS")
      /\ off[5] = Msg("OFF_FAN") /\ off[6] = Sleep
  OBVIOUS
<1> HIDE DEF on, off
<1>8. \A n \in 1..2 : n = 1 \/ n = 2
  OBVIOUS
<1>9. \A n \in 1..6 : n = 1 \/ n = 2 \/ n = 3 \/ n = 4 \/ n = 5 \/ n = 6
  OBVIOUS
<1>10. \A n \in 1..Len(on) : Ask(on[n])
  BY <1>4, <1>6, <1>8
<1>11. \A n \in 1..Len(off) : Ask(off[n])
  BY <1>4, <1>7, <1>9
<1>12. Len(on) > 0 /\ Len(off) > 0
  BY <1>6, <1>7
<1>13. Errand(p, "timer", on) /\ on[Len(on)].op \in Early
  BY <1>5, <1>6, <1>10, <1>12
<1>14. Errand(p, "timer", off) /\ off[Len(off)].op \in Early
  BY <1>5, <1>7, <1>11, <1>12
<1> QED
  BY <1>13, <1>14 DEF LightsOn, LightsOff, on, off

\* The timer serves a timed output that is running ...
LEMMA TimedSpares ==
  ASSUME NEW p, NEW q, NEW cfg
  PROVE  LET w == TimedOutput(q, cfg)
         IN  Errand(p, "timer", w) /\ w[Len(w)].op = "count"
<1> DEFINE count == Op("count", q, 0)
           blink == Op("blink", 0, 0)
           two == <<blink, count>>
           one == <<count>>
<1>1. count.op = "count" /\ blink.op = "blink"
  BY DEF Op
<1>2. one \in Seq({count}) /\ Len(one) = 1 /\ one[1] = count
  OBVIOUS
<1>3. two \in Seq({blink, count}) /\ Len(two) = 2 /\ two[1] = blink /\ two[2] = count
  OBVIOUS
<1> HIDE DEF count, blink, one, two
<1>4. Spares(p, "timer", count) /\ Spares(p, "timer", blink)
  BY <1>1 DEF Spares, ErrandOps, Late
<1>5. Mates("timer", blink, count) /\ ~ClearsFirst(blink) /\ ~ClearsFirst(count)
  BY <1>1 DEF Mates, Early, Late, ClearsFirst, ClearsSecond
<1>6. Errand(p, "timer", one)
  BY <1>4, <1>5, ErrandStep DEF one
<1>7. Errand(p, "timer", two)
  <2>1. \A n \in 1..2 : (n = 1 /\ n < 2 /\ n + 1 = 2) \/ (n = 2 /\ ~(n < 2))
    OBVIOUS
  <2> QED
    BY <1>3, <1>4, <1>5, <2>1 DEF Errand
<1> QED
  BY <1>1, <1>2, <1>3, <1>6, <1>7 DEF TimedOutput, one, two, count, blink

\* ... and switches it off when its time is up.
LEMMA TimeIsUpSpares ==
  ASSUME NEW p, NEW q, q # p, NEW cfg
  PROVE  LET w == TimeIsUp(q, cfg)
         IN  Errand(p, "timer", w) /\ w[Len(w)] = Op("clear_fake", 2, 0)
<1> DEFINE end == <<Out(q, 0), Put("onoff", 0), Put("reset", 0), InsertOtp,
                    Op("clear_fake", 1, 0), Op("clear_fake", 2, 0)>>
           first == <<ToggleOtp>>
           S == {Out(q, 0), Put("onoff", 0), Put("reset", 0), InsertOtp,
                 Op("clear_fake", 1, 0), Op("clear_fake", 2, 0), ToggleOtp}
<1>1. /\ end \in Seq(S) /\ Len(end) = 6
      /\ end[1] = Out(q, 0) /\ end[2] = Put("onoff", 0) /\ end[3] = Put("reset", 0)
      /\ end[4] = InsertOtp /\ end[5] = Op("clear_fake", 1, 0) /\ end[6] = Op("clear_fake", 2, 0)
  OBVIOUS
<1>2. first \in Seq(S) /\ Len(first) = 1 /\ first[1] = ToggleOtp
  OBVIOUS
<1>3. TimeIsUp(q, cfg) = first \o end \/ TimeIsUp(q, cfg) = end
  <2>1. <<>> \o end = end
    BY <1>1, ConcatEmptySeq
  <2> QED
    BY <2>1 DEF TimeIsUp
<1> HIDE DEF end, first, S
<1>4. /\ end[1].op = "out" /\ end[1].a = q /\ end[2].op = "put" /\ end[3].op = "put"
      /\ end[4].op = "insert_otp"
      /\ end[5].op = "clear_fake" /\ end[5].a = 1 /\ end[6].op = "clear_fake" /\ end[6].a = 2
      /\ first[1].op = "toggle"
  BY <1>1, <1>2 DEF Out, Put, InsertOtp, ToggleOtp, Op
<1>5. \A n \in 1..6 : \/ n = 1 \/ n = 2 \/ n = 3 \/ n = 4 \/ n = 5
                      \/ (n = 6 /\ ~(n < 6))
  OBVIOUS
<1>6. \A n \in 1..6 : Spares(p, "timer", end[n])
  BY <1>4, <1>5 DEF Spares, ErrandOps, Late
<1>7. /\ Mates("timer", end[1], end[2]) /\ Mates("timer", end[2], end[3])
      /\ Mates("timer", end[3], end[4]) /\ Mates("timer", end[4], end[5])
      /\ Mates("timer", end[5], end[6]) /\ Mates("timer", first[1], end[1])
  BY <1>4 DEF Mates, Early, Late, ClearsFirst, ClearsSecond
<1>8. \A n \in 1..6 : n < 6 => Mates("timer", end[n], end[n + 1])
  <2>1. 1 + 1 = 2 /\ 2 + 1 = 3 /\ 3 + 1 = 4 /\ 4 + 1 = 5 /\ 5 + 1 = 6
    OBVIOUS
  <2> QED
    BY <1>5, <1>7, <2>1
<1>9. ~ClearsFirst(end[6]) /\ ~ClearsFirst(first[1])
  BY <1>4 DEF ClearsFirst
<1>10. Errand(p, "timer", end)
  <2>1. \A n \in 1..6 : ClearsFirst(end[n]) => n < 6
    BY <1>5, <1>9
  <2> QED
    BY <1>1, <1>6, <1>8, <2>1 DEF Errand
<1>11. Errand(p, "timer", first)
  <2>1. Spares(p, "timer", ToggleOtp)
    BY <1>2, <1>4 DEF Spares, ErrandOps, Late
  <2> QED
    BY <1>2, <1>9, <2>1, ErrandStep DEF first
<1>12. Errand(p, "timer", first \o end)
  BY <1>2, <1>7, <1>10, <1>11, ErrandJoin
<1>13. Len(first \o end) = 7 /\ (first \o end)[7] = end[6]
  <2>1. /\ Len(first \o end) = Len(first) + Len(end)
        /\ \A n \in 1..(Len(first) + Len(end)) :
             (first \o end)[n] = IF n <= Len(first) THEN first[n] ELSE end[n - Len(first)]
    BY <1>1, <1>2, ConcatProperties
  <2> QED
    BY <1>1, <1>2, <2>1
<1> QED
  BY <1>1, <1>3, <1>10, <1>12, <1>13

\* The first step of two runs of steps.
LEMMA HeadOfJoin ==
  ASSUME NEW S, NEW u \in Seq(S), u # <<>>, NEW T, NEW w \in Seq(T)
  PROVE  u \o w # <<>> /\ Head(u \o w) = Head(u)
<1>1. u \in Seq(S \cup T) /\ w \in Seq(S \cup T)
  OBVIOUS
<1> DEFINE x == u \o w
<1>2. /\ x \in Seq(S \cup T) /\ Len(x) = Len(u) + Len(w)
      /\ \A i \in 1..Len(x) : x[i] = IF i <= Len(u) THEN u[i] ELSE w[i - Len(u)]
  BY <1>1, ConcatProperties
<1> HIDE DEF x
<1>3. 1 \in 1..Len(u) /\ Head(u) = u[1]
  OBVIOUS
<1>4. 1 \in 1..Len(x) /\ 1 <= Len(u) /\ x # <<>>
  BY <1>2, <1>3
<1>5. x[1] = u[1]
  BY <1>2, <1>4
<1> QED
  BY <1>2, <1>3, <1>4, <1>5 DEF x

\* ... and what follows it.
LEMMA TailOfJoin ==
  ASSUME NEW U, NEW u \in Seq(U), u # <<>>, NEW Z, NEW z \in Seq(Z)
  PROVE  Tail(u \o z) = Tail(u) \o z
<1> DEFINE x == u \o z
<1>2. /\ u \in Seq(U \cup Z) /\ z \in Seq(U \cup Z)
      /\ Len(u) \in Nat \ {0} /\ Len(z) \in Nat
  OBVIOUS
<1>3. /\ x \in Seq(U \cup Z) /\ Len(x) = Len(u) + Len(z)
      /\ \A n \in 1..(Len(u) + Len(z)) : x[n] = IF n <= Len(u) THEN u[n] ELSE z[n - Len(u)]
  BY <1>2, ConcatProperties
<1> HIDE DEF x
<1>4. x # <<>> /\ Head(x) = x[1] /\ Head(u) = u[1] /\ x[1] = u[1]
  BY <1>2, <1>3
<1> DEFINE a == Tail(x)
           b == Tail(u)
           y == b \o z
<1>5. /\ a \in Seq(U \cup Z) /\ Len(a) = Len(u) + Len(z) - 1
      /\ \A n \in 1..Len(a) : a[n] = x[n + 1]
  <2>1. /\ a \in Seq(U \cup Z) /\ Len(a) = Len(x) - 1
        /\ \A n \in 1..Len(a) : a[n] = x[n + 1]
    BY <1>3, <1>4
  <2> QED
    BY <1>3, <2>1
<1>6. /\ b \in Seq(U \cup Z) /\ Len(b) = Len(u) - 1
      /\ \A n \in 1..Len(b) : b[n] = u[n + 1]
  BY <1>2
<1> HIDE DEF a, b
<1>7. /\ y \in Seq(U \cup Z) /\ Len(y) = Len(b) + Len(z)
      /\ \A n \in 1..(Len(b) + Len(z)) : y[n] = IF n <= Len(b) THEN b[n] ELSE z[n - Len(b)]
  BY <1>2, <1>6, ConcatProperties
<1> HIDE DEF y
<1>8. Len(y) = Len(a)
  BY <1>2, <1>5, <1>6, <1>7
<1>9. ASSUME NEW n \in 1..Len(a)
      PROVE  a[n] = y[n]
  <2>1. a[n] = x[n + 1] /\ n + 1 \in 1..(Len(u) + Len(z))
    BY <1>2, <1>5
  <2>2. CASE n <= Len(b)
    <3>1. n + 1 <= Len(u) /\ n \in 1..Len(b) /\ n \in 1..(Len(b) + Len(z))
      BY <1>2, <1>5, <1>6, <2>2
    <3> QED
      BY <1>3, <1>6, <1>7, <2>1, <2>2, <3>1
  <2>3. CASE ~(n <= Len(b))
    <3>1. ~(n + 1 <= Len(u)) /\ (n + 1) - Len(u) = n - Len(b) /\ n \in 1..(Len(b) + Len(z))
      BY <1>2, <1>5, <1>6, <2>3
    <3> QED
      BY <1>3, <1>7, <2>1, <2>3, <3>1
  <2> QED
    BY <2>2, <2>3
<1>10. a = y
  BY <1>5, <1>7, <1>8, <1>9, SeqEqual
<1> QED
  BY <1>10 DEF x, a, b, y

\* The first step of a thread that has an errand before other things.
LEMMA AheadOf ==
  ASSUME NEW p, NEW t, NEW u, Errand(p, t, u), u # <<>>, NEW Z, NEW z \in Seq(Z)
  PROVE  /\ Head(u \o z) = Head(u) /\ u \o z # <<>>
         /\ \A ops : (\E S : ops \in Seq(S)) => ops \o Tail(u \o z) = (ops \o Tail(u)) \o z
<1>1. PICK U : u \in Seq(U)
  BY DEF Errand
<1>2. Head(u \o z) = Head(u) /\ u \o z # <<>> /\ Tail(u \o z) = Tail(u) \o z
  BY <1>1, HeadOfJoin, TailOfJoin
<1>3. ASSUME NEW ops, NEW S, ops \in Seq(S)
      PROVE  ops \o (Tail(u) \o z) = (ops \o Tail(u)) \o z
  <2> DEFINE A == S \cup U \cup Z
  <2>1. ops \in Seq(A) /\ Tail(u) \in Seq(A) /\ z \in Seq(A)
    BY <1>1, <1>3
  <2> HIDE DEF A
  <2>2. Associates(ops, Tail(u), z)
    BY <2>1, JoinOfTwo
  <2> QED
    BY <2>2 DEF Associates
<1> QED
  BY <1>2, <1>3

\* The steps in front of the rest of u and z are in front of the rest of u.
Before(ops, u, z) == ops \o Tail(u \o z) = (ops \o Tail(u)) \o z

\* What is put in front of the rest is in front of the rest of the errand.
LEMMA BeforeRest ==
  ASSUME NEW p, NEW t, NEW u, Errand(p, t, u), u # <<>>, NEW Z, NEW z \in Seq(Z),
         NEW S, NEW ops \in Seq(S)
  PROVE  Before(ops, u, z)
BY AheadOf DEF Before

\* The last step of two runs of steps.
LEMMA LastOfJoin ==
  ASSUME NEW S, NEW u \in Seq(S), NEW T, NEW w \in Seq(T)
  PROVE  LET x == u \o w
         IN  x[Len(x)] = IF w = <<>> THEN u[Len(u)] ELSE w[Len(w)]
<1> DEFINE x == u \o w
<1>1. u \in Seq(S \cup T) /\ w \in Seq(S \cup T)
  OBVIOUS
<1>2. /\ x \in Seq(S \cup T) /\ Len(x) = Len(u) + Len(w)
      /\ \A i \in 1..Len(x) : x[i] = IF i <= Len(u) THEN u[i] ELSE w[i - Len(u)]
  BY <1>1, ConcatProperties
<1>3. w = <<>> => x = u
  BY <1>1
<1> HIDE DEF x
<1>4. ASSUME w # <<>>
      PROVE  x[Len(x)] = w[Len(w)]
  <2>1. Len(u) \in Nat /\ Len(w) \in Nat /\ Len(w) > 0
    BY <1>1, <1>4
  <2>2. Len(x) \in 1..Len(x) /\ ~(Len(x) <= Len(u)) /\ Len(x) - Len(u) = Len(w)
    BY <1>2, <2>1
  <2> QED
    BY <1>2, <2>2
<1> QED
  BY <1>3, <1>4 DEF x

--------------------------------------------------------------------------------
(* Inputs and their lines *)

\* real_banks leaves out the four lines that the first card does not have.
LEMMA LineIs ==
  ASSUME NEW j \in Number
  PROVE  /\ BankOf(j) \in Bank /\ IndexOf(j) \in Index
         /\ Line(j) = IF j < 20 THEN j ELSE j + 4
<1>1. CASE j < 20
  <2>1. real_banks[j] = [bank |-> j \div 8, index |-> j - 8 * (j \div 8)]
    BY <1>1 DEF real_banks
  <2>2. j \in 0..19 /\ j \div 8 \in 0..2 /\ j - 8 * (j \div 8) \in 0..7
    BY <1>1 DEF Number
  <2> QED BY <1>1, <2>1, <2>2 DEF BankOf, IndexOf, Bank, Index, Line
<1>2. CASE ~(j < 20)
  <2>1. real_banks[j] = [bank |-> (j + 4) \div 8, index |-> j - 8 * ((j + 4) \div 8) + 4]
    BY <1>2 DEF real_banks
  <2>2. j \in 20..39 /\ (j + 4) \div 8 \in 3..5 /\ j - 8 * ((j + 4) \div 8) + 4 \in 0..7
    BY <1>2 DEF Number
  <2> QED BY <1>2, <2>1, <2>2 DEF BankOf, IndexOf, Bank, Index, Line
<1> QED BY <1>1, <1>2

\* No two inputs share a line.
LEMMA LinesDiffer ==
  ASSUME NEW i \in Number, NEW j \in Number, Line(i) = Line(j)
  PROVE  i = j
<1>1. i \in 0..39 /\ j \in 0..39
  BY DEF Number
<1> QED
  BY <1>1, LineIs

\* The loop of the monitors that turns a line back into the number of its input.
LEMMA TranslateLine ==
  ASSUME NEW i \in Number
  PROVE  Translate(BankOf(i), IndexOf(i)) = i
<1> DEFINE b == BankOf(i)
           x == IndexOf(i)
           scanned(g, n) == IF n = 0 THEN x
                            ELSE LET k == g[n - 1]
                                 IN  IF BankOf(n - 1) = b /\ IndexOf(n - 1) = k THEN n - 1 ELSE k
           found == [n \in 0..40 |-> IF n <= i THEN x ELSE i]
           scan == CHOOSE g : g = [n \in 0..40 |-> scanned(g, n)]
<1>1. b \in Bank /\ x \in Index /\ i \in 0..39
  BY LineIs DEF Number
<1>2. \A n \in Number : BankOf(n) = b /\ IndexOf(n) = x => n = i
  BY LinesDiffer DEF Line
<1>3. \A n \in Number : BankOf(n) = b => IndexOf(n) # i \/ n = i
  <2>1. \A n \in Number : n < 8 => BankOf(n) = 0 /\ IndexOf(n) = n
    <3> TAKE n \in Number
    <3>1. n \in 0..39 /\ (n < 8 => n \div 8 = 0 /\ n < 20)
      BY DEF Number
    <3> QED
      BY <3>1 DEF BankOf, IndexOf, real_banks
  <2>2. \A n \in Number : IndexOf(n) \in 0..7
    BY LineIs DEF Index
  <2>3. CASE i < 8
    BY <1>1, <1>2, <2>1, <2>3
  <2>4. CASE ~(i < 8)
    BY <1>1, <2>2, <2>4
  <2> QED
    BY <2>3, <2>4
<1> HIDE DEF b, x
<1>4. \A n \in 1..40 :
         /\ BankOf(n - 1) = b /\ IndexOf(n - 1) = x => n - 1 = i
         /\ BankOf(n - 1) = b /\ IndexOf(n - 1) = i => n - 1 = i
  BY <1>2, <1>3 DEF Number
<1>5. BankOf(i) = b /\ IndexOf(i) = x
  BY DEF b, x
<1>6. \A n \in 0..40 : found[n] = scanned(found, n)
  <2> TAKE n \in 0..40
  <2>1. CASE n = 0
    BY <1>1, <2>1
  <2>2. CASE n # 0
    <3>1. n \in 1..40 /\ n - 1 \in 0..40
      BY <2>2
    <3>2. found[n - 1] = IF n - 1 <= i THEN x ELSE i
      BY <3>1
    <3>3. found[n] = IF n <= i THEN x ELSE i
      OBVIOUS
    <3> HIDE DEF found
    <3>4. CASE n - 1 < i
      BY <1>1, <1>4, <3>1, <3>2, <3>3, <3>4
    <3>5. CASE n - 1 = i
      BY <1>1, <1>5, <3>1, <3>2, <3>3, <3>5
    <3>6. CASE n - 1 > i
      BY <1>1, <1>4, <3>1, <3>2, <3>3, <3>6
    <3> QED
      BY <1>1, <3>1, <3>4, <3>5, <3>6
  <2> QED
    BY <2>1, <2>2
<1>7. found = [n \in 0..40 |-> scanned(found, n)]
  <2> HIDE DEF scanned
  <2> QED
    BY <1>6
<1>8. scan = [n \in 0..40 |-> scanned(scan, n)]
  <2> HIDE DEF scanned, found
  <2> QED
    BY <1>7
<1>9. \A n \in 0..40 : scan[n] = scanned(scan, n)
  <2> HIDE DEF scan, scanned
  <2> QED
    BY <1>8
<1>10. scan[40] = found[40]
  <2> DEFINE S == {n \in 0..40 : scan[n] = found[n]}
  <2>1. 0 \in S
    <3> HIDE DEF scan, found
    <3> QED BY <1>6, <1>9
  <2>2. ASSUME NEW n \in 0..39, n \in S
        PROVE  n + 1 \in S
    <3>1. scanned(scan, n + 1) = scanned(found, n + 1)
      <4>1. scan[n] = found[n]
        <5> HIDE DEF scan, found
        <5> QED BY <2>2
      <4>2. n + 1 # 0 /\ (n + 1) - 1 = n
        OBVIOUS
      <4> HIDE DEF scan, found
      <4> QED BY <4>1, <4>2
    <3> HIDE DEF scan, found, scanned
    <3> QED BY <1>6, <1>9, <3>1
  <2> HIDE DEF S
  <2>3. 40 \in S
    BY <2>1, <2>2, FortyRounds
  <2> QED BY <2>3 DEF S
<1>11. found[40] = i
  BY <1>1
<1>12. Translate(b, x) = scan[40]
  BY DEF Translate
<1> HIDE DEF scan, found
<1> QED
  BY <1>10, <1>11, <1>12 DEF b, x

\* ... finds the input of every line that has one.
LEMMA LineTranslated ==
  ASSUME NEW b \in Bank, NEW j \in Number, Line(j) \in Lines(b)
  PROVE  Translate(b, Line(j) - 8 * b) = j
<1>1. PICK k \in Index : Line(j) = 8 * b + k
  BY DEF Lines
<1>2. BankOf(j) \in 0..5 /\ IndexOf(j) \in 0..7 /\ k \in 0..7 /\ b \in 0..5
  BY LineIs DEF Bank, Index
<1>3. 8 * BankOf(j) + IndexOf(j) = 8 * b + k
  BY <1>1 DEF Line
<1>4. BankOf(j) = b /\ IndexOf(j) = k
  BY <1>2, <1>3
<1>5. Line(j) - 8 * b = k
  BY <1>1, <1>2
<1> QED
  BY <1>4, <1>5, TranslateLine

\* A line is one of its bank's.
LEMMA LineInBank ==
  ASSUME NEW j \in Number
  PROVE  /\ Line(j) \in Nat /\ Line(j) \div 8 \in Bank /\ Line(j) \in Lines(Line(j) \div 8)
<1>1. Line(j) \in 0..43
  BY LineIs DEF Number
<1> DEFINE l == Line(j)
           b == l \div 8
<1>2. l \in 0..43
  BY <1>1
<1> HIDE DEF l
<1>3. b \in 0..5 /\ l - 8 * b \in 0..7 /\ l = 8 * b + (l - 8 * b)
  BY <1>2
<1> HIDE DEF b
<1>4. l \in Lines(b)
  BY <1>3 DEF Lines, Index
<1> QED
  BY <1>2, <1>3, <1>4 DEF l, b, Bank

\* No line is in two banks.
LEMMA BanksApart ==
  ASSUME NEW b \in Bank, NEW c \in Bank, NEW l \in Lines(b), l \in Lines(c)
  PROVE  b = c
<1>1. PICK k \in Index, m \in Index : l = 8 * b + k /\ l = 8 * c + m
  BY DEF Lines
<1>2. b \in 0..5 /\ c \in 0..5 /\ k \in 0..7 /\ m \in 0..7
  BY DEF Bank, Index
<1> QED
  BY <1>1, <1>2

\* The highest element of a mask is in the mask.
LEMMA HighestIn ==
  ASSUME NEW b \in Bank, NEW mask \in SUBSET Lines(b), mask # {}
  PROVE  Max(mask) \in mask
<1> DEFINE In(k) == 8 * b + k \in mask
<1>1. \A l \in mask : \E k \in 0..7 : l = 8 * b + k /\ In(k)
  BY DEF Lines, Index
<1>2. In(0) \/ In(1) \/ In(2) \/ In(3) \/ In(4) \/ In(5) \/ In(6) \/ In(7)
  <2>1. PICK k \in 0..7 : In(k)
    BY <1>1
  <2> HIDE DEF In
  <2> QED
    BY <2>1
<1> HIDE DEF In
<1>3. \E k \in 0..7 : In(k) /\ \A m \in 0..7 : In(m) => k >= m
  <2>1. \A m \in 0..7 : m = 0 \/ m = 1 \/ m = 2 \/ m = 3 \/ m = 4 \/ m = 5 \/ m = 6 \/ m = 7
    OBVIOUS
  <2> QED
    BY <1>2, <2>1
<1>4. PICK k \in 0..7 : In(k) /\ \A m \in 0..7 : In(m) => k >= m
  BY <1>3
<1> DEFINE x == 8 * b + k
<1>5. x \in mask
  BY <1>4 DEF In
<1>6. \A y \in mask : x >= y
  <2> TAKE y \in mask
  <2>1. PICK m \in 0..7 : y = 8 * b + m /\ In(m)
    BY <1>1
  <2>2. k >= m /\ b \in Int
    BY <1>4, <2>1 DEF Bank
  <2> QED
    BY <2>1, <2>2
<1> HIDE DEF x
<1> QED
  BY <1>5, <1>6 DEF Max
================================================================================
