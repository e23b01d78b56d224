-------------------------- MODULE OutputControlProofs --------------------------
(***************************************************************************)
(* What holds of the four threads for every set of outputs, every size of  *)
(* the heap and every configuration.  Where no thread is preempted         *)
(* between two of its sleeps, every node holds the record of its own       *)
(* output, no field leaves its range, a locked output is off, and the      *)
(* relay of a timed output is on exactly while its record counts.  If the  *)
(* monitors keep up as well, the fan and the running lights do what their  *)
(* software inputs say.                                                    *)
(***************************************************************************)
EXTENDS OutputControl, HandlerOutlines

(* Every node points to a chunk, and no chunk belongs to two nodes. *)
Ownership ==
  /\ list \in [Output -> Chunk]
  /\ \A p, q \in Output : list[p] = list[q] => p = q

--------------------------------------------------------------------------------

\* olLoadConfig can give, and gives, every node a record of its own.
LEMMA LoadedOwnership ==
  /\ Loaded \in [Output -> Chunk]
  /\ \A p, q \in Output : Loaded[p] = Loaded[q] => p = q
<1>1. \E f \in [Output -> Chunk] : IsInjective(f)
  BY OutputAssumption
<1>2. Loaded \in [Output -> Chunk] /\ IsInjective(Loaded)
  BY <1>1 DEF Loaded
<1> QED
  BY <1>2 DEF IsInjective

(* The one step that moves a pointer of the list gives the node a chunk that *)
(* no node has.                                                              *)
LEMMA InsertKeepsOwnership ==
  ASSUME Ownership, NEW t \in Threads, ollist_insert_data(t)
  PROVE  Ownership'
<1> DEFINE x == Now(t).a
<1>1. PICK c \in Chunk : /\ \A p \in Output : list[p] # c
                         /\ list' = [list EXCEPT ![x] = c]
  BY DEF ollist_insert_data
<1>2. list' \in [Output -> Chunk]
  BY <1>1 DEF Ownership
<1>3. \A p, q \in Output : list'[p] = list'[q] => p = q
  <2> SUFFICES ASSUME NEW p \in Output, NEW q \in Output, list'[p] = list'[q]
               PROVE  p = q
    OBVIOUS
  <2> HIDE DEF x
  <2>1. \A r \in Output : list'[r] = IF r = x THEN c ELSE list[r]
    BY <1>1 DEF Ownership
  <2>2. CASE p = x /\ q # x
    BY <1>1, <2>1, <2>2
  <2>3. CASE p # x /\ q = x
    BY <1>1, <2>1, <2>3
  <2>4. CASE p # x /\ q # x
    BY <2>1, <2>4 DEF Ownership
  <2> QED
    BY <2>2, <2>3, <2>4
<1> QED
  BY <1>2, <1>3 DEF Ownership

\* Every other step of a handler leaves the pointers of the list alone.
LEMMA StepKeepsOwnership ==
  ASSUME Ownership, NEW t \in Threads, Step(t)
  PROVE  Ownership'
<1> USE DEF Ownership
<1>1. CASE ollist_find_data(t)
  BY <1>1 DEF ollist_find_data, records
<1>2. CASE ollist_insert_data(t)
  BY <1>2, InsertKeepsOwnership
<1>3. CASE EvalPort(t)
  BY <1>3 DEF EvalPort, records
<1>4. CASE WriteField(t)
  BY <1>4 DEF WriteField, Write
<1>5. CASE IfResetIsZero(t)
  BY <1>5 DEF IfResetIsZero, records
<1>6. CASE set_output(t)
  BY <1>6 DEF set_output, records
<1>7. CASE change_output(t)
  BY <1>7 DEF change_output, Relay, records
<1>8. CASE change_input(t)
  BY <1>8 DEF change_input, records
<1>9. CASE ClearFakeInput(t)
  BY <1>9 DEF ClearFakeInput, records
<1>10. CASE StoreFake(t)
  BY <1>10 DEF StoreFake, records
<1>11. CASE add_msg_queue(t)
  BY <1>11 DEF add_msg_queue, records
<1>12. CASE AssignGlobal(t)
  BY <1>12 DEF AssignGlobal, records
<1>13. CASE StoreStatus(t)
  BY <1>13 DEF StoreStatus, records
<1>14. CASE Wake(t)
  BY <1>14 DEF Wake, records
<1>15. CASE Return(t)
  BY <1>15 DEF Return, records
<1> QED
  BY <1>1, <1>2, <1>3, <1>4, <1>5, <1>6, <1>7, <1>8, <1>9, <1>10, <1>11,
     <1>12, <1>13, <1>14, <1>15 DEF Step

--------------------------------------------------------------------------------
(* What the facts of HandlerOutlines mean *)

O_DATA == [port : Output, onoff : {0, 1}, reset : {0, 1, 3}, time_left : 0..255]

\* The types of the variables, and that every node has its own output's record.
Records ==
  /\ heap \in [Chunk -> O_DATA]
  /\ RecordsInPlace
  /\ relays \subseteq Output

Global == {"engine_running", "run_time", "lights_on_countdown", "test_lblinkers",
           "test_rblinkers", "shutdown_all", "reboot_on_exit"}

Globals ==
  /\ glob = [g \in Global |-> glob[g]]
  /\ glob["lights_on_countdown"] \in 0..actual_lights_on_delay
  /\ glob["run_time"] \in 0..(HOUR - 1)

Threaded ==
  /\ otp \in [Threads -> Chunk \cup {NULL}]
  /\ code = [t \in Threads |-> code[t]]

\* Record r may stand in the list as the record of output p.
Fits(p, r) ==
  /\ odata[p].type = 4 /\ r.reset # 0 => p \notin relays
  /\ odata[p].type \in {2, 3} /\ r.reset = 1 => r.time_left \in 1..odata[p].time_delay
  /\ odata[p].type = 2 /\ p \notin {ACCON, FUELPUMP} => (p \in relays <=> r.reset = 1)

AllFit == \A p \in Output : Fits(p, Node(p))

\* ... except perhaps that of the output whose record o points to.
RestFit(o) == \A p \in Output \ {heap[o].port} : Fits(p, Node(p))

Type(o) == odata[heap[o].port].type

(* What k says of a thread whose pointer is o. *)
Knows(o, k) ==
  LET p == k.p
      kind == k.kind
  IN  /\ kind # "nothing" => o \in Chunk
      /\ kind \in Calm => AllFit
      /\ kind \notin Calm => RestFit(o)
      /\ kind \in {"found", "clear", "counting", "expired", "off"} => p \in Output /\ o = list[p]
      /\ kind = "clear" => heap[o].reset = 0
      /\ kind = "copy" => p \in Output /\ heap[o].reset = Node(p).reset
      /\ kind = "open" => p \in Output /\ Node(p).reset = 0
      /\ kind = "counting" => heap[o].reset = 1
      /\ kind \in {"counting", "expired", "off"} => odata[p].type \in {2, 3}
      /\ kind = "off" => p \notin relays
      /\ kind = "plain" => Type(o) \in {0, 1}
      /\ kind \in {"locked", "locking", "lockoff"} => Type(o) = 4
      /\ kind = "locked" => heap[o].reset # 0
      /\ kind = "lockoff" => heap[o].onoff = 0
      /\ kind \in {"starting", "begun", "armed"} => Type(o) \in {2, 3}
      /\ kind \in {"begun", "armed"} => heap[o].reset = 1
      /\ kind = "armed" => heap[o].time_left = odata[heap[o].port].time_delay
      /\ kind \in {"ready", "inserting"} => Fits(heap[o].port, heap[o])
      /\ kind = "inserting" => heap[o].port = p

\* Thread t is where its outline says it is.
Outlined(t) ==
  \E o \in Chunk \cup {NULL}, k \in Knowledge :
    otp[t] = o /\ Knows(o, k) /\ Outline(k, code[t], Nothing)

\* Thread t sleeps, and needs no more than a pointer to go on.
Rests(t) ==
  /\ ~Busy(t)
  /\ \/ Outline(Nothing, code[t], Nothing)
     \/ otp[t] \in Chunk /\ Outline(Held, code[t], Nothing)

\* At most one thread is between two of its sleeps.
OneRuns == \E t \in Threads : Outlined(t) /\ \A u \in Threads \ {t} : Rests(u)

IInv == Ownership /\ Records /\ Globals /\ Threaded /\ OneRuns

--------------------------------------------------------------------------------

\* What a fact says survives forgetting.
LEMMA KnowsWeaker ==
  ASSUME Records, Ownership, NEW o, NEW x \in Knowledge, NEW y \in Knowledge,
         Knows(o, x), Weaker(x, y)
  PROVE  Knows(o, y)
<1>1. CASE x = y
  BY <1>1
<1>2. CASE x.kind \in Calm /\ y = Nothing
  BY <1>2 DEF Knows, Nothing, Fact, Calm
<1>3. CASE x.kind = "found" /\ y = Held
  BY <1>3 DEF Knows, Held, Fact, Calm
<1>4. CASE x.kind = "found" /\ y = Ready
  <2>1. o \in Chunk /\ AllFit /\ x.p \in Output /\ o = list[x.p]
    BY <1>4 DEF Knows, Calm
  <2>2. heap[o].port = x.p
    BY <2>1 DEF Records, RecordsInPlace, Node
  <2>3. RestFit(o) /\ Fits(heap[o].port, heap[o])
    BY <2>1, <2>2 DEF AllFit, RestFit, Node
  <2> QED
    BY <1>4, <2>1, <2>3 DEF Knows, Ready, Fact, Calm
<1>5. CASE x = Plain /\ y = Ready
  <2>1. o \in Chunk /\ AllFit /\ Type(o) \in {0, 1}
    BY <1>5 DEF Knows, Calm, Plain, Fact
  <2>2. RestFit(o) /\ Fits(heap[o].port, heap[o])
    BY <2>1 DEF AllFit, RestFit, Fits, Type
  <2> QED
    BY <1>5, <2>1, <2>2 DEF Knows, Ready, Fact, Calm
<1> QED
  BY <1>1, <1>2, <1>3, <1>4, <1>5 DEF Weaker

\* Nothing is always known when the whole list is in order.
LEMMA KnowsNothing ==
  ASSUME NEW o
  PROVE  Knows(o, Nothing) <=> AllFit
BY DEF Knows, Nothing, Fact, Calm

\* A step that changes no record and no relay changes no fact.
LEMMA KnowsSame ==
  ASSUME NEW o, NEW k, Knows(o, k), UNCHANGED <<heap, list, relays>>
  PROVE  Knows(o, k)'
BY DEF Knows, AllFit, RestFit, Fits, Node, Type

\* ... and no type.
LEMMA RecordsSame ==
  ASSUME Records, UNCHANGED <<heap, list, relays>>
  PROVE  Records'
BY DEF Records, RecordsInPlace, Node

\* The step before a thread, and what is known there.
LEMMA Ahead ==
  ASSUME Records, Ownership, NEW t \in Threads, ~Idle(t), Outlined(t)
  PROVE  \E o \in Chunk \cup {NULL}, x \in Knowledge, m \in Knowledge :
           /\ otp[t] = o /\ Knows(o, x) /\ Does(x, Now(t), m)
           /\ Outline(m, Tail(code[t]), Nothing)
<1>1. PICK o \in Chunk \cup {NULL}, k \in Knowledge :
        otp[t] = o /\ Knows(o, k) /\ Outline(k, code[t], Nothing)
  BY DEF Outlined
<1>2. PICK m \in Knowledge : Moves(k, Now(t), m) /\ Outline(m, Tail(code[t]), Nothing)
  BY <1>1, Facts, OutlineHead DEF Idle, Now
<1>3. PICK x \in Knowledge : Weaker(k, x) /\ Does(x, Now(t), m)
  BY <1>2 DEF Moves
<1>4. Knows(o, x)
  BY <1>1, <1>3, KnowsWeaker
<1> QED
  BY <1>1, <1>2, <1>3, <1>4

\* A step in front of the steps that follow it.
LEMMA OutlineCons ==
  ASSUME NEW S, NEW s \in Seq(S), s # <<>>, NEW k \in Knowledge, NEW x \in Knowledge,
         NEW m \in Knowledge, Moves(k, Head(s), x), Outline(x, Tail(s), m)
  PROVE  Outline(k, s, m)
<1> DEFINE u == Tail(s)
<1>1. u \in Seq(S) /\ Len(s) = Len(u) + 1 /\ Head(s) = s[1]
      /\ \A i \in 1..Len(u) : s[i + 1] = u[i]
  OBVIOUS
<1> HIDE DEF u
<1>2. s = <<s[1]>> \o u
  BY <1>1, HeadFirst
<1>3. Outline(k, <<s[1]>> \o u, m)
  BY <1>1, OutlineThen DEF u
<1> QED
  BY <1>2, <1>3

\* A thread that sleeps where its outline says can rest there.
LEMMA Sleeper ==
  ASSUME Records, Ownership, NEW t \in Threads, Outlined(t), ~Busy(t)
  PROVE  Rests(t) /\ AllFit
<1>1. CASE Idle(t)
  <2>1. PICK o \in Chunk \cup {NULL}, k \in Knowledge :
          otp[t] = o /\ Knows(o, k) /\ Outline(k, <<>>, Nothing)
    BY <1>1 DEF Outlined, Idle
  <2>2. Weaker(k, Nothing)
    BY <2>1, Facts, OutlineEnd
  <2>3. Knows(o, Nothing)
    BY <2>1, <2>2, Facts, KnowsWeaker
  <2>4. Outline(Nothing, code[t], Nothing)
    BY <1>1, Facts, WeakerItself, OutlineEmpty DEF Idle
  <2> QED
    BY <2>3, <2>4, KnowsNothing DEF Rests
<1>2. CASE ~Idle(t)
  <2>1. Now(t).op \in {"sleep", "exit"}
    BY <1>2 DEF Busy, Now
  <2>2. PICK o \in Chunk \cup {NULL}, x \in Knowledge, m \in Knowledge :
           /\ otp[t] = o /\ Knows(o, x) /\ Does(x, Now(t), m)
           /\ Outline(m, Tail(code[t]), Nothing)
    BY <1>2, Ahead
  <2>3. x \in {Nothing, Held}
    BY <2>1, <2>2 DEF Does, Harmless
  <2>4. AllFit /\ (x = Held => o \in Chunk)
    BY <2>2, <2>3 DEF Knows, Nothing, Held, Fact, Calm
  <2>5. \E S : code[t] \in Seq(S)
    BY DEF Outlined, Outline
  <2>6. Outline(x, code[t], Nothing)
    BY <1>2, <2>2, <2>5, Facts, DoesMoves, OutlineCons DEF Idle, Now
  <2> QED
    BY <2>2, <2>3, <2>4, <2>6 DEF Rests
<1> QED
  BY <1>1, <1>2

\* A thread that rests can go on when the list is in order.
LEMMA Riser ==
  ASSUME Threaded, NEW t \in Threads, Rests(t), AllFit
  PROVE  Outlined(t)
<1>1. otp[t] \in Chunk \cup {NULL}
  BY DEF Threaded
<1>2. CASE Outline(Nothing, code[t], Nothing)
  BY <1>1, <1>2, Facts, KnowsNothing DEF Outlined
<1>3. CASE otp[t] \in Chunk /\ Outline(Held, code[t], Nothing)
  <2>1. Knows(otp[t], Held)
    BY <1>3 DEF Knows, Held, Fact, Calm
  <2> QED
    BY <1>1, <1>3, <2>1, Facts DEF Outlined
<1> QED
  BY <1>2, <1>3 DEF Rests

\* Whoever can run is the one that runs.
LEMMA Runner ==
  ASSUME ~Preempt, IInv, NEW t \in Threads, CanRun(t)
  PROVE  Outlined(t) /\ \A u \in Threads \ {t} : Rests(u)
<1>1. PICK r \in Threads : Outlined(r) /\ \A u \in Threads \ {r} : Rests(u)
  BY DEF IInv, OneRuns
<1>2. CASE r = t
  BY <1>1, <1>2
<1>3. CASE r # t
  <2>1. ~Busy(r)
    BY <1>3 DEF CanRun
  <2>2. Rests(r) /\ AllFit
    BY <1>1, <2>1, Sleeper DEF IInv
  <2>3. Outlined(t)
    BY <1>1, <1>3, <2>2, Riser DEF IInv
  <2> QED
    BY <1>1, <2>2, <2>3
<1> QED
  BY <1>2, <1>3

\* When all sleep, the list is in order.
LEMMA QuietFits ==
  ASSUME IInv, Quiet
  PROVE  AllFit
BY Sleeper DEF IInv, OneRuns, Quiet

--------------------------------------------------------------------------------
(* What a step has to leave *)

\* What holds of the list and of the globals, and of the thread that runs.
Kept == Ownership /\ Records /\ Globals

Runs(t) == Kept /\ Threaded /\ Outlined(t)

\* ... and after its step, of the other threads too.
Advances(t) ==
  /\ Kept' /\ Threaded' /\ Outlined(t)'
  /\ \A u \in Threads \ {t} : Rests(u) => Rests(u)'

\* A thread that goes on with ops, which have an outline from what is known then.
LEMMA Resume ==
  ASSUME Threaded, NEW t \in Threads, NEW ops, NEW o \in Chunk \cup {NULL},
         NEW k \in Knowledge, NEW m \in Knowledge, Continue(t, ops, o),
         Outline(k, ops, m), Outline(m, Tail(code[t]), Nothing), Knows(o, k)'
  PROVE  Threaded' /\ Outlined(t)' /\ \A u \in Threads \ {t} : Rests(u) => Rests(u)'
<1> DEFINE rest == ops \o Tail(code[t])
<1>1. Outline(k, rest, Nothing)
  BY Facts, OutlineJoin
<1>2. /\ code' = [code EXCEPT ![t] = rest]
      /\ otp' = [otp EXCEPT ![t] = IF rest = <<>> THEN NULL ELSE o]
  BY DEF Continue
<1> HIDE DEF rest
<1>3. /\ Threaded'
      /\ code'[t] = rest
      /\ otp'[t] = IF rest = <<>> THEN NULL ELSE o
      /\ \A u \in Threads \ {t} : code'[u] = code[u] /\ otp'[u] = otp[u]
  BY <1>2 DEF Threaded
<1>4. CASE rest = <<>>
  <2>1. Weaker(k, Nothing)
    BY <1>1, <1>4, Facts, OutlineEnd
  <2>2. k.kind \in Calm
    BY <2>1 DEF Weaker, Nothing, Plain, Ready, Fact, Calm
  <2>3. AllFit'
    BY <2>2 DEF Knows
  <2>4. Knows(NULL, Nothing)'
    BY <2>3 DEF Knows, Nothing, Fact, Calm
  <2>5. Outline(Nothing, rest, Nothing)
    BY <1>4, Facts, WeakerItself, OutlineEmpty
  <2>6. Outlined(t)'
    BY <1>3, <1>4, <2>4, <2>5, Facts DEF Outlined
  <2> QED
    BY <1>3, <2>6 DEF Rests, Busy, Idle
<1>5. CASE rest # <<>>
  <2>1. Outlined(t)'
    BY <1>1, <1>3, <1>5 DEF Outlined
  <2> QED
    BY <1>3, <2>1 DEF Rests, Busy, Idle
<1> QED
  BY <1>4, <1>5

\* The same for a step that puts nothing in front.
LEMMA GoOn ==
  ASSUME Threaded, NEW t \in Threads, NEW o \in Chunk \cup {NULL}, NEW m \in Knowledge,
         Continue(t, <<>>, o), Outline(m, Tail(code[t]), Nothing), Knows(o, m)'
  PROVE  Threaded' /\ Outlined(t)' /\ \A u \in Threads \ {t} : Rests(u) => Rests(u)'
BY WeakerItself, OutlineEmpty, Resume

\* A thread that starts a handler.
LEMMA Begin ==
  ASSUME Records, Ownership, Threaded, NEW t \in Threads, Outlined(t), Idle(t), NEW s, Sound(s),
         code' = [code EXCEPT ![t] = s], UNCHANGED <<heap, list, relays, otp>>
  PROVE  Threaded' /\ Outlined(t)' /\ \A u \in Threads \ {t} : Rests(u) => Rests(u)'
<1>1. /\ Threaded' /\ code'[t] = s /\ otp'[t] = otp[t]
      /\ \A u \in Threads \ {t} : code'[u] = code[u] /\ otp'[u] = otp[u]
  BY DEF Threaded
<1>2. AllFit
  BY Sleeper DEF Busy
<1>3. AllFit'
  BY <1>2 DEF AllFit, Fits, Node
<1>4. PICK o \in Chunk \cup {NULL} : otp'[t] = o
  BY <1>1 DEF Threaded
<1>5. Knows(o, Nothing)'
  BY <1>3 DEF Knows, Nothing, Fact, Calm
<1>6. Outlined(t)'
  BY <1>1, <1>4, <1>5, Facts DEF Outlined, Sound
<1> QED
  BY <1>1, <1>6 DEF Rests, Busy, Idle

--------------------------------------------------------------------------------
(* What the steps do to the records and the relays *)

(* A write through o disturbs no record but the one o points to; and if that *)
(* one still fits where it stands, the list is in order.                     *)
LEMMA WriteFits ==
  ASSUME Records, Ownership, NEW o \in Chunk,
         NEW r \in O_DATA, r.port = heap[o].port,
         heap' = [heap EXCEPT ![o] = r], UNCHANGED <<list, relays>>
  PROVE  /\ Records'
         /\ heap'[o] = r
         /\ RestFit(o) => RestFit(o)'
         /\ AllFit /\ (o = list[r.port] => Fits(r.port, r)) => AllFit'
<1>1. heap'[o] = r /\ \A c \in Chunk \ {o} : heap'[c] = heap[c]
  BY DEF Records
<1>2. \A p \in Output : list[p] \in Chunk /\ heap[list[p]].port = p /\ (list[p] = o => p = r.port)
  BY DEF Records, RecordsInPlace, Node, Ownership
<1>3. \A p \in Output : heap'[list[p]].port = p
  BY <1>1, <1>2
<1>4. Records'
  <2>1. heap' \in [Chunk -> O_DATA]
    BY DEF Records
  <2> QED
    BY <1>3, <2>1 DEF Records, RecordsInPlace, Node
<1>5. ASSUME NEW p \in Output, p # r.port, Fits(p, Node(p))
      PROVE  Fits(p, Node(p))'
  <2>1. heap'[list[p]] = heap[list[p]]
    BY <1>1, <1>2, <1>5
  <2> QED
    BY <1>5, <2>1 DEF Fits, Node
<1>6. RestFit(o) => RestFit(o)'
  BY <1>1, <1>5 DEF RestFit
<1>7. ASSUME AllFit, o = list[r.port] => Fits(r.port, r), NEW p \in Output
      PROVE  Fits(p, Node(p))'
  <2>1. CASE p # r.port
    BY <1>5, <1>7, <2>1 DEF AllFit
  <2>2. CASE list[p] # o
    <3>1. heap'[list[p]] = heap[list[p]]
      BY <1>1, <1>2, <2>2
    <3> QED
      BY <1>7, <3>1 DEF Fits, Node, AllFit
  <2>3. CASE p = r.port /\ list[p] = o
    <3>1. heap'[list[p]] = r
      BY <1>1, <2>3
    <3> QED
      BY <1>7, <2>3, <3>1 DEF Fits, Node
  <2> QED
    BY <2>1, <2>2, <2>3
<1> QED
  BY <1>1, <1>4, <1>6, <1>7 DEF AllFit

\* A relay is nothing to the records of the other outputs.
LEMMA RelayFits ==
  ASSUME Records, NEW p \in Output, NEW v,
         relays' = (IF v = 1 THEN relays \cup {p} ELSE relays \ {p}), UNCHANGED <<heap, list>>
  PROVE  /\ Records'
         /\ \A q \in Output \ {p} : \A r : Fits(q, r) => Fits(q, r)'
<1>1. \A q \in Output \ {p} : q \in relays' <=> q \in relays
  OBVIOUS
<1>2. relays' \subseteq Output
  BY DEF Records
<1> QED
  BY <1>1, <1>2 DEF Fits, Records, RecordsInPlace, Node

--------------------------------------------------------------------------------
(* The steps of the handlers *)

\* The pointer of a thread that goes on with ops.
LEMMA ProceedsWith ==
  ASSUME NEW t \in Threads, NEW ops, NEW o, Proceed(t, ops), otp[t] = o
  PROVE  Continue(t, ops, o)
BY DEF Proceed, Continue

\* ollist_find_data: the pointer is the node's chunk, and stays so until the next sleep.
LEMMA FindAdvances ==
  ASSUME NEW t \in Threads, Runs(t), ollist_find_data(t)
  PROVE  Advances(t)
<1> DEFINE a == Now(t).a
<1>1. PICK o \in Chunk \cup {NULL}, x \in Knowledge, m \in Knowledge :
        /\ otp[t] = o /\ Knows(o, x) /\ Does(x, Now(t), m)
        /\ Outline(m, Tail(code[t]), Nothing)
  BY Ahead DEF Runs, Kept, ollist_find_data, At
<1>2. a \in Output /\ x = Nothing /\ m = Found(a)
  BY <1>1 DEF ollist_find_data, At, Now, Does, Harmless
<1>3. PICK c \in Chunk : c = list[a]
  BY <1>2 DEF Runs, Kept, Ownership
<1> HIDE DEF a
<1>4. AllFit
  BY <1>1, <1>2, KnowsNothing
<1>5. Knows(c, m)
  BY <1>2, <1>3, <1>4 DEF Knows, Found, Fact, Calm
<1>6. Knows(c, m)' /\ Records'
  BY <1>5, KnowsSame, RecordsSame DEF ollist_find_data, records, Runs, Kept
<1>7. Continue(t, <<>>, c)
  BY <1>3 DEF ollist_find_data, a
<1>8. Kept'
  BY <1>6, StepKeepsOwnership DEF Runs, Kept, Step, ollist_find_data, Globals
<1> QED
  BY <1>1, <1>6, <1>7, <1>8, GoOn DEF Runs, Advances

\* malloc, memcpy and free under the write lock.
LEMMA InsertAdvances ==
  ASSUME NEW t \in Threads, Runs(t), ollist_insert_data(t)
  PROVE  Advances(t)
<1> DEFINE a == Now(t).a
<1>1. PICK o \in Chunk \cup {NULL}, x \in Knowledge, m \in Knowledge :
        /\ otp[t] = o /\ Knows(o, x) /\ Does(x, Now(t), m)
        /\ Outline(m, Tail(code[t]), Nothing)
  BY Ahead DEF Runs, Kept, ollist_insert_data, At
<1>2. /\ a \in Output
      /\ (x = Found(a) /\ m = Copy(a)) \/ (x = Inserting(a) /\ m = Nothing)
  BY <1>1 DEF ollist_insert_data, At, Now, Does, Harmless
<1>3. PICK c \in Chunk : /\ \A p \in Output : list[p] # c
                         /\ heap' = [heap EXCEPT ![c] = heap[o]]
                         /\ list' = [list EXCEPT ![a] = c]
  BY <1>1 DEF ollist_insert_data, Rec
<1> HIDE DEF a
<1>4. /\ o \in Chunk /\ heap[o] \in O_DATA /\ heap[o].port = a
      /\ Fits(a, heap[o])
      /\ \A p \in Output \ {a} : Fits(p, Node(p))
  <2>1. CASE x = Found(a)
    BY <1>1, <1>2, <2>1 DEF Knows, Found, Fact, Calm, AllFit, Runs, Kept, Records,
                            RecordsInPlace, Node
  <2>2. CASE x = Inserting(a)
    BY <1>1, <1>2, <2>2 DEF Knows, Inserting, Fact, Calm, RestFit, Runs, Kept, Records
  <2> QED
    BY <1>2, <2>1, <2>2
<1>5. /\ heap' \in [Chunk -> O_DATA] /\ heap'[c] = heap[o] /\ heap'[o] = heap[o]
      /\ list'[a] = c
      /\ \A p \in Output \ {a} : list'[p] = list[p] /\ heap'[list'[p]] = heap[list[p]]
  BY <1>2, <1>3, <1>4 DEF Runs, Kept, Records, Ownership
<1>6. relays' = relays /\ glob' = glob
  BY DEF ollist_insert_data
<1>7. Records'
  BY <1>4, <1>5, <1>6 DEF Runs, Kept, Records, RecordsInPlace, Node
<1>8. AllFit'
  BY <1>4, <1>5, <1>6 DEF AllFit, Fits, Node
<1>9. Knows(o, m)'
  <2>1. CASE m = Nothing
    BY <1>8, <2>1 DEF Knows, Nothing, Fact, Calm
  <2>2. CASE m = Copy(a)
    BY <1>2, <1>4, <1>5, <1>8, <2>2 DEF Knows, Copy, Fact, Calm, Node
  <2> QED
    BY <1>2, <2>1, <2>2
<1>10. Continue(t, <<>>, o)
  BY <1>1, ProceedsWith DEF ollist_insert_data
<1>11. Kept'
  BY <1>6, <1>7, InsertKeepsOwnership DEF Runs, Kept, Globals
<1> QED
  BY <1>1, <1>9, <1>10, <1>11, GoOn DEF Runs, Advances

\* ollist_insert_data(otp->port, ...): the number is read from the record itself.
LEMMA EvalPortAdvances ==
  ASSUME NEW t \in Threads, Runs(t), EvalPort(t)
  PROVE  Advances(t)
<1>1. PICK o \in Chunk \cup {NULL}, x \in Knowledge, m \in Knowledge :
        /\ otp[t] = o /\ Knows(o, x) /\ Does(x, Now(t), m)
        /\ Outline(m, Tail(code[t]), Nothing)
  BY Ahead DEF Runs, Kept, EvalPort, At
<1>2. x = Ready /\ m = Nothing
  BY <1>1 DEF EvalPort, At, Now, Does, Harmless
<1>3. o \in Chunk /\ RestFit(o) /\ Fits(heap[o].port, heap[o])
  BY <1>1, <1>2 DEF Knows, Ready, Fact, Calm
<1>4. PICK p \in Output : p = heap[o].port
  BY <1>3 DEF Runs, Kept, Records, O_DATA
<1>5. Knows(o, Inserting(p))
  BY <1>3, <1>4 DEF Knows, Inserting, Fact, Calm
<1>6. Knows(o, Inserting(p))' /\ Records'
  BY <1>5, KnowsSame, RecordsSame DEF EvalPort, records, Runs, Kept
<1>7. Outline(Inserting(p), <<Insert(p)>>, m)
  BY <1>2, Facts, FactsOf, InsertMoves, OutlineStep
<1>8. Continue(t, <<Insert(p)>>, o)
  BY <1>1, <1>4, ProceedsWith DEF EvalPort, Rec
<1>9. Kept'
  BY <1>6, StepKeepsOwnership DEF Runs, Kept, Step, EvalPort, Globals
<1> QED
  BY <1>1, <1>6, <1>7, <1>8, <1>9, FactsOf, Resume DEF Runs, Advances

\* A record with one field changed.
LEMMA SetField ==
  ASSUME NEW r \in O_DATA, NEW v
  PROVE  /\ v \in {0, 1} =>
              \E s \in O_DATA : /\ s = [r EXCEPT !["onoff"] = v]
                                /\ s.port = r.port /\ s.onoff = v
                                /\ s.reset = r.reset /\ s.time_left = r.time_left
         /\ v \in {0, 1, 3} =>
              \E s \in O_DATA : /\ s = [r EXCEPT !["reset"] = v]
                                /\ s.port = r.port /\ s.onoff = r.onoff
                                /\ s.reset = v /\ s.time_left = r.time_left
         /\ v \in 0..255 =>
              \E s \in O_DATA : /\ s = [r EXCEPT !["time_left"] = v]
                                /\ s.port = r.port /\ s.onoff = r.onoff
                                /\ s.reset = r.reset /\ s.time_left = v
<1>1. ASSUME v \in {0, 1}
      PROVE  \E s \in O_DATA : /\ s = [r EXCEPT !["onoff"] = v]
                                /\ s.port = r.port /\ s.onoff = v
                                /\ s.reset = r.reset /\ s.time_left = r.time_left
  <2> DEFINE s == [r EXCEPT !["onoff"] = v]
  <2>1. /\ s \in O_DATA /\ s.port = r.port /\ s.onoff = v
        /\ s.reset = r.reset /\ s.time_left = r.time_left
    BY <1>1 DEF O_DATA
  <2> QED
    BY <2>1
<1>2. ASSUME v \in {0, 1, 3}
      PROVE  \E s \in O_DATA : /\ s = [r EXCEPT !["reset"] = v]
                                /\ s.port = r.port /\ s.onoff = r.onoff
                                /\ s.reset = v /\ s.time_left = r.time_left
  <2> DEFINE s == [r EXCEPT !["reset"] = v]
  <2>1. /\ s \in O_DATA /\ s.port = r.port /\ s.onoff = r.onoff
        /\ s.reset = v /\ s.time_left = r.time_left
    BY <1>2 DEF O_DATA
  <2> QED
    BY <2>1
<1>3. ASSUME v \in 0..255
      PROVE  \E s \in O_DATA : /\ s = [r EXCEPT !["time_left"] = v]
                                /\ s.port = r.port /\ s.onoff = r.onoff
                                /\ s.reset = r.reset /\ s.time_left = v
  <2> DEFINE s == [r EXCEPT !["time_left"] = v]
  <2>1. /\ s \in O_DATA /\ s.port = r.port /\ s.onoff = r.onoff
        /\ s.reset = r.reset /\ s.time_left = v
    BY <1>3 DEF O_DATA
  <2> QED
    BY <2>1
<1> QED
  BY <1>1, <1>2, <1>3

\* What is left of a fact when the record o points to becomes r.
LEMMA KnowsWritten ==
  ASSUME Records, Ownership, NEW o \in Chunk, NEW r \in O_DATA, r.port = heap[o].port,
         heap' = [heap EXCEPT ![o] = r], UNCHANGED <<list, relays>>,
         NEW x \in Knowledge, NEW m \in Knowledge, Knows(o, x),
         \/ /\ r.reset = heap[o].reset /\ r.time_left = heap[o].time_left /\ m = x
            /\ x \in {Plain, Armed} \/ x.kind \in {"found", "off", "expired"}
         \/ /\ r.reset = heap[o].reset /\ r.onoff = 0 /\ x = Locking /\ m = LockOff
         \/ /\ x = Plain /\ m = Plain
         \/ /\ r.reset = 0 /\ x.p \in {ACCON, FUELPUMP} /\ x = Found(x.p) /\ m = Clear(x.p)
         \/ /\ r.reset = 0 /\ x = Off(x.p) /\ m = Found(x.p)
         \/ /\ x = Locking /\ m = Locking
         \/ /\ r.reset = 1 /\ x = Starting /\ m = Begun
         \/ /\ r.reset = 3 /\ x = Locked /\ m = Nothing
         \/ /\ r.reset = heap[o].reset /\ r.time_left = odata[heap[o].port].time_delay
            /\ x = Begun /\ m = Armed
  PROVE  Records' /\ Knows(o, m)'
<1>1. /\ Records'
      /\ heap'[o] = r
      /\ RestFit(o) => RestFit(o)'
      /\ AllFit /\ (o = list[r.port] => Fits(r.port, r)) => AllFit'
  BY WriteFits
<1>2. r.port \in Output
  BY DEF O_DATA
<1>3. CASE /\ r.reset = heap[o].reset /\ r.time_left = heap[o].time_left /\ m = x
           /\ x \in {Plain, Armed} \/ x.kind \in {"found", "off", "expired"}
  <2>1. AllFit => AllFit'
    <3>1. ASSUME AllFit, o = list[r.port]
          PROVE  Fits(r.port, r)
      <4>1. Fits(r.port, heap[o])
        BY <1>2, <3>1 DEF AllFit, Node
      <4> QED
        BY <1>3, <4>1 DEF Fits
    <3> QED
      BY <1>1, <3>1
  <2>2. CASE x = Plain
    BY <1>1, <1>3, <2>1, <2>2 DEF Knows, Plain, Fact, Calm, Type
  <2>3. CASE x = Armed
    BY <1>1, <1>3, <2>3 DEF Knows, Armed, Fact, Calm, Type
  <2>4. CASE x.kind \in {"found", "off", "expired"}
    BY <1>1, <1>3, <2>1, <2>4 DEF Knows, Calm
  <2> QED
    BY <1>3, <2>2, <2>3, <2>4
<1>4. CASE r.onoff = 0 /\ x = Locking /\ m = LockOff
  BY <1>1, <1>4 DEF Knows, Locking, LockOff, Fact, Calm, Type
<1>5. CASE x = Plain /\ m = Plain
  <2>1. AllFit /\ Type(o) \in {0, 1}
    BY <1>5 DEF Knows, Plain, Fact, Calm
  <2>2. Fits(r.port, r)
    BY <2>1 DEF Fits, Type
  <2> QED
    BY <1>1, <1>5, <2>1, <2>2 DEF Knows, Plain, Fact, Calm, Type
<1>6. CASE r.reset = 0 /\ x.p \in {ACCON, FUELPUMP} /\ x = Found(x.p) /\ m = Clear(x.p)
  <2>1. AllFit /\ x.p \in Output /\ o = list[x.p]
    BY <1>6 DEF Knows, Found, Fact, Calm
  <2>2. r.port = x.p
    BY <2>1 DEF Records, RecordsInPlace, Node
  <2>3. Fits(r.port, r)
    BY <1>6, <2>2 DEF Fits
  <2> QED
    BY <1>1, <1>6, <2>1, <2>3 DEF Knows, Clear, Fact, Calm
<1>7. CASE r.reset = 0 /\ x = Off(x.p) /\ m = Found(x.p)
  <2>1. RestFit(o) /\ x.p \in Output /\ o = list[x.p] /\ x.p \notin relays
    BY <1>7 DEF Knows, Off, Fact, Calm
  <2>2. heap[o].port = x.p
    BY <2>1 DEF Records, RecordsInPlace, Node
  <2>3. Fits(x.p, r)'
    BY <1>7, <2>1 DEF Fits
  <2>4. AllFit'
    BY <1>1, <2>1, <2>2, <2>3 DEF AllFit, RestFit, Node
  <2> QED
    BY <1>1, <1>7, <2>1, <2>4 DEF Knows, Found, Fact, Calm
<1>8. CASE x = Locking /\ m = Locking
  BY <1>1, <1>8 DEF Knows, Locking, Fact, Calm, Type
<1>9. CASE r.reset = 1 /\ x = Starting /\ m = Begun
  BY <1>1, <1>9 DEF Knows, Starting, Begun, Fact, Calm, Type
<1>10. CASE r.reset = 3 /\ x = Locked /\ m = Nothing
  <2>1. AllFit /\ Type(o) = 4 /\ heap[o].reset # 0
    BY <1>10 DEF Knows, Locked, Fact, Calm
  <2>2. ASSUME o = list[r.port]
        PROVE  Fits(r.port, r)
    <3>1. Fits(r.port, heap[o])
      BY <1>2, <2>1, <2>2 DEF AllFit, Node
    <3> QED
      BY <2>1, <3>1 DEF Fits, Type
  <2> QED
    BY <1>1, <1>10, <2>1, <2>2 DEF Knows, Nothing, Fact, Calm
<1>11. CASE /\ r.reset = heap[o].reset /\ r.time_left = odata[heap[o].port].time_delay
            /\ x = Begun /\ m = Armed
  BY <1>1, <1>11 DEF Knows, Begun, Armed, Fact, Calm, Type
<1> QED
  BY <1>3, <1>4, <1>5, <1>6, <1>7, <1>8, <1>9, <1>10, <1>11

\* A write through the pointer of the thread.
LEMMA WriteLeaves ==
  ASSUME NEW t \in Threads, Runs(t), NEW f, NEW v, Write(t, f, v),
         NEW o \in Chunk, otp[t] = o, NEW r, r = [heap[o] EXCEPT ![f] = v]
  PROVE  /\ heap' = [heap EXCEPT ![o] = r] /\ UNCHANGED <<list, relays, glob>>
         /\ Continue(t, <<>>, o)
<1>1. heap' = [heap EXCEPT ![o] = r]
  BY DEF Write, Runs, Kept, Records
<1> QED
  BY <1>1, ProceedsWith DEF Write

\* otp->onoff = v and otp->reset = v
LEMMA PutAdvances ==
  ASSUME NEW t \in Threads, Runs(t), At(t, "put"), Write(t, Now(t).a, Now(t).b)
  PROVE  Advances(t)
<1> DEFINE f == Now(t).a
           v == Now(t).b
<1>1. PICK o \in Chunk \cup {NULL}, x \in Knowledge, m \in Knowledge :
        /\ otp[t] = o /\ Knows(o, x) /\ Does(x, Now(t), m)
        /\ Outline(m, Tail(code[t]), Nothing)
  BY Ahead DEF Runs, Kept, At
<1>2. Puts(x, f, v, m)
  BY <1>1 DEF At, Now, Does, Harmless
<1>3. x.kind # "nothing"
  BY <1>2 DEF Puts, Plain, Armed, Locking, Found, Off, Starting, Locked, Fact
<1>4. o \in Chunk
  BY <1>1, <1>3 DEF Knows
<1>5. heap[o] \in O_DATA
  BY <1>4 DEF Runs, Kept, Records
<1>6. Write(t, f, v)
  OBVIOUS
<1> HIDE DEF f, v
<1>7. PICK r \in O_DATA : r = [heap[o] EXCEPT ![f] = v] /\ Records' /\ Knows(o, m)'
  <2>1. CASE f = "onoff"
    <3>1. v \in {0, 1}
      BY <1>2, <2>1 DEF Puts
    <3>2. PICK r \in O_DATA : /\ r = [heap[o] EXCEPT !["onoff"] = v]
                              /\ r.port = heap[o].port /\ r.onoff = v
                              /\ r.reset = heap[o].reset /\ r.time_left = heap[o].time_left
      BY <1>5, <3>1, SetField
    <3>3. r = [heap[o] EXCEPT ![f] = v]
      BY <2>1, <3>2
    <3>4. heap' = [heap EXCEPT ![o] = r] /\ UNCHANGED <<list, relays>>
      BY <1>1, <1>4, <1>6, <3>3, WriteLeaves
    <3>5. \/ m = x /\ (x \in {Plain, Armed} \/ x.kind \in {"found", "off", "expired"})
          \/ v = 0 /\ x = Locking /\ m = LockOff
      BY <1>2, <2>1 DEF Puts
    <3>6. Records' /\ Knows(o, m)'
      BY <1>1, <1>4, <3>2, <3>4, <3>5, KnowsWritten DEF Runs, Kept
    <3> QED
      BY <3>3, <3>6
  <2>2. CASE f = "reset"
    <3>1. /\ v \in {0, 1, 3}
          /\ \/ x = Plain /\ m = Plain
             \/ v = 0 /\ x.p \in {ACCON, FUELPUMP} /\ x = Found(x.p) /\ m = Clear(x.p)
             \/ v = 0 /\ x = Off(x.p) /\ m = Found(x.p)
             \/ x = Locking /\ m = Locking
             \/ v = 1 /\ x = Starting /\ m = Begun
             \/ v = 3 /\ x = Locked /\ m = Nothing
      BY <1>2, <2>2 DEF Puts
    <3>2. PICK r \in O_DATA : /\ r = [heap[o] EXCEPT !["reset"] = v]
                              /\ r.port = heap[o].port /\ r.onoff = heap[o].onoff
                              /\ r.reset = v /\ r.time_left = heap[o].time_left
      BY <1>5, <3>1, SetField
    <3>3. r = [heap[o] EXCEPT ![f] = v]
      BY <2>2, <3>2
    <3>4. heap' = [heap EXCEPT ![o] = r] /\ UNCHANGED <<list, relays>>
      BY <1>1, <1>4, <1>6, <3>3, WriteLeaves
    <3>5. /\ Records /\ Ownership /\ r.port = heap[o].port
          /\ x \in Knowledge /\ m \in Knowledge /\ Knows(o, x)
      BY <1>1, <3>2 DEF Runs, Kept
    <3>6. \/ x = Plain /\ m = Plain
          \/ r.reset = 0 /\ x.p \in {ACCON, FUELPUMP} /\ x = Found(x.p) /\ m = Clear(x.p)
          \/ r.reset = 0 /\ x = Off(x.p) /\ m = Found(x.p)
          \/ x = Locking /\ m = Locking
          \/ r.reset = 1 /\ x = Starting /\ m = Begun
          \/ r.reset = 3 /\ x = Locked /\ m = Nothing
      BY <3>1, <3>2
    <3>7. Records' /\ Knows(o, m)'
      BY <1>4, <3>4, <3>5, <3>6, KnowsWritten
    <3> QED
      BY <3>3, <3>7
  <2> QED
    BY <1>2, <2>1, <2>2 DEF Puts
<1>8. Continue(t, <<>>, o) /\ glob' = glob
  BY <1>1, <1>4, <1>6, <1>7, WriteLeaves
<1>9. Kept'
  <2>1. WriteField(t)
    BY <1>6 DEF WriteField, f, v
  <2> QED
    BY <1>7, <1>8, <2>1, StepKeepsOwnership DEF Runs, Kept, Step, Globals
<1> QED
  BY <1>1, <1>7, <1>8, <1>9, GoOn DEF Runs, Advances

\* TOGGLE_OTP
LEMMA ToggleAdvances ==
  ASSUME NEW t \in Threads, Runs(t), At(t, "toggle"),
         Write(t, "onoff", IF Rec(t).onoff = 1 THEN 0 ELSE 1)
  PROVE  Advances(t)
<1>1. PICK o \in Chunk \cup {NULL}, x \in Knowledge, m \in Knowledge :
        /\ otp[t] = o /\ Knows(o, x) /\ Does(x, Now(t), m)
        /\ Outline(m, Tail(code[t]), Nothing)
  BY Ahead DEF Runs, Kept, At
<1>2. (x = Plain \/ x = Expired(x.p)) /\ m = x
  BY <1>1 DEF At, Now, Does, Harmless
<1>3. x.kind # "nothing" /\ (x = Plain \/ x.kind = "expired")
  BY <1>2 DEF Plain, Expired, Fact
<1>4. o \in Chunk
  BY <1>1, <1>3 DEF Knows
<1>5. heap[o] \in O_DATA
  BY <1>4 DEF Runs, Kept, Records
<1>6. PICK v \in {0, 1} : Write(t, "onoff", v)
  BY DEF Rec
<1>7. PICK r \in O_DATA : /\ r = [heap[o] EXCEPT !["onoff"] = v]
                          /\ r.port = heap[o].port /\ r.onoff = v
                          /\ r.reset = heap[o].reset /\ r.time_left = heap[o].time_left
  BY <1>5, SetField
<1>8. /\ heap' = [heap EXCEPT ![o] = r] /\ UNCHANGED <<list, relays, glob>>
      /\ Continue(t, <<>>, o)
  BY <1>1, <1>4, <1>6, <1>7, WriteLeaves
<1>9. Records' /\ Knows(o, m)'
  BY <1>1, <1>2, <1>3, <1>4, <1>7, <1>8, KnowsWritten DEF Runs, Kept
<1>10. Kept'
  BY <1>8, <1>9, StepKeepsOwnership DEF Runs, Kept, Step, WriteField, Globals
<1> QED
  BY <1>1, <1>8, <1>9, <1>10, GoOn DEF Runs, Advances

\* otp->time_left = otp->time_delay
LEMMA StartTimerAdvances ==
  ASSUME NEW t \in Threads, Runs(t), At(t, "start_timer"), Write(t, "time_left", Cfg(t).time_delay)
  PROVE  Advances(t)
<1>1. PICK o \in Chunk \cup {NULL}, x \in Knowledge, m \in Knowledge :
        /\ otp[t] = o /\ Knows(o, x) /\ Does(x, Now(t), m)
        /\ Outline(m, Tail(code[t]), Nothing)
  BY Ahead DEF Runs, Kept, At
<1>2. x = Begun /\ m = Armed
  BY <1>1 DEF At, Now, Does, Harmless
<1>3. o \in Chunk
  BY <1>1, <1>2 DEF Knows, Begun, Fact
<1>4. heap[o] \in O_DATA /\ heap[o].port \in Output
  BY <1>3 DEF Runs, Kept, Records, O_DATA
<1>5. PICK v \in 0..255 : v = odata[heap[o].port].time_delay
  BY <1>4, DelayFits
<1>6. Write(t, "time_left", v)
  BY <1>1, <1>5 DEF Cfg, Rec
<1>7. PICK r \in O_DATA : /\ r = [heap[o] EXCEPT !["time_left"] = v]
                          /\ r.port = heap[o].port /\ r.onoff = heap[o].onoff
                          /\ r.reset = heap[o].reset /\ r.time_left = v
  BY <1>4, SetField
<1>8. /\ heap' = [heap EXCEPT ![o] = r] /\ UNCHANGED <<list, relays, glob>>
      /\ Continue(t, <<>>, o)
  BY <1>1, <1>3, <1>6, <1>7, WriteLeaves
<1>9. Records' /\ Knows(o, m)'
  BY <1>1, <1>2, <1>3, <1>5, <1>7, <1>8, KnowsWritten DEF Runs, Kept
<1>10. Kept'
  BY <1>8, <1>9, StepKeepsOwnership DEF Runs, Kept, Step, WriteField, Globals
<1> QED
  BY <1>1, <1>8, <1>9, <1>10, GoOn DEF Runs, Advances

\* The branch of an if(otp->reset == 0), taken or not.
LEMMA BranchOutline ==
  ASSUME NEW x \in Knowledge, NEW ops, NEW m \in Knowledge, Branches(x, ops, m), x.p \in Output
  PROVE  /\ Weaker(x, m)
         /\ \/ x = Found(x.p) /\ Outline(Clear(x.p), ops, m)
            \/ x = Copy(x.p) /\ Outline(Open(x.p), ops, m)
<1>1. PICK p \in {ACCON, FUELPUMP}, v \in {0, 1} :
        \/ ops = <<Out(p, v), Put("onoff", v)>> /\ x = Found(p) /\ m = Found(p)
        \/ ops = <<Out(p, v), Put("onoff", v), Insert(p)>> /\ x = Found(p) /\ m = Nothing
        \/ ops = <<Out(p, v)>> /\ x = Copy(p) /\ m = Nothing
  BY DEF Branches
<1>2. x.p = p /\ p \in Output
  BY <1>1 DEF Found, Copy, Fact
<1>3. Moves(Found(p), Put("onoff", v), Found(p))
  BY <1>2, FactsOf, PutMoves DEF Puts
<1>4. Moves(Clear(p), Out(p, v), Found(p))
  BY <1>2, FactsOf, OutMoves DEF Switched
<1>5. Moves(Open(p), Out(p, v), Nothing)
  BY <1>2, FactsOf, OutMoves DEF Switched
<1>6. Outline(Clear(p), <<Out(p, v), Put("onoff", v)>>, Found(p))
  BY <1>2, <1>3, <1>4, FactsOf, Steps2
<1>7. Outline(Clear(p), <<Out(p, v), Put("onoff", v), Insert(p)>>, Nothing)
  <2>1. Outline(Clear(p), <<Out(p, v), Put("onoff", v), Insert(p)>>, Copy(p))
    BY <1>2, <1>3, <1>4, FactsOf, InsertMoves, Steps3
  <2> QED
    BY <1>2, <2>1, Facts, FactsOf, Forget, OutlineWeaker
<1>8. Outline(Open(p), <<Out(p, v)>>, Nothing)
  BY <1>2, <1>5, Facts, FactsOf, OutlineStep
<1>9. Weaker(x, m)
  BY <1>1, <1>2, WeakerItself, Forget
<1> QED
  BY <1>1, <1>2, <1>6, <1>7, <1>8, <1>9

\* if(otp->reset == 0), read through a pointer to the record or its copy
LEMMA IfResetIsZeroAdvances ==
  ASSUME NEW t \in Threads, Runs(t), IfResetIsZero(t)
  PROVE  Advances(t)
<1> DEFINE ops == Now(t).b
<1>1. PICK o \in Chunk \cup {NULL}, x \in Knowledge, m \in Knowledge :
        /\ otp[t] = o /\ Knows(o, x) /\ Does(x, Now(t), m)
        /\ Outline(m, Tail(code[t]), Nothing)
  BY Ahead DEF Runs, Kept, IfResetIsZero, At
<1>2. Branches(x, ops, m)
  BY <1>1 DEF IfResetIsZero, At, Now, Does, Harmless
<1> HIDE DEF ops
<1>3. x.kind \in {"found", "copy"}
  BY <1>2 DEF Branches, Found, Copy, Fact
<1>4. x.p \in Output /\ o \in Chunk
  BY <1>1, <1>3 DEF Knows
<1>5. /\ Weaker(x, m)
      /\ \/ x = Found(x.p) /\ Outline(Clear(x.p), ops, m)
         \/ x = Copy(x.p) /\ Outline(Open(x.p), ops, m)
  BY <1>2, <1>4, BranchOutline
<1>6. Kept'
  BY StepKeepsOwnership, RecordsSame DEF Runs, Kept, Step, IfResetIsZero, records, Globals
<1>7. CASE heap[o].reset = 0
  <2>1. Continue(t, ops, o)
    BY <1>1, <1>7, ProceedsWith DEF IfResetIsZero, Rec, ops
  <2>2. PICK y \in {Clear(x.p), Open(x.p)} : Knows(o, y) /\ Outline(y, ops, m)
    <3>1. CASE x = Found(x.p) /\ Outline(Clear(x.p), ops, m)
      BY <1>1, <1>7, <3>1 DEF Knows, Found, Clear, Fact, Calm
    <3>2. CASE x = Copy(x.p) /\ Outline(Open(x.p), ops, m)
      BY <1>1, <1>7, <3>2 DEF Knows, Copy, Open, Fact, Calm
    <3> QED
      BY <1>5, <3>1, <3>2
  <2>3. y \in Knowledge
    BY <1>4, FactsOf
  <2>4. Knows(o, y)'
    BY <2>2, KnowsSame DEF IfResetIsZero, records
  <2> QED
    BY <1>1, <1>6, <2>1, <2>2, <2>3, <2>4, Resume DEF Runs, Advances
<1>8. CASE heap[o].reset # 0
  <2>1. Continue(t, <<>>, o)
    BY <1>1, <1>8, ProceedsWith DEF IfResetIsZero, Rec
  <2>2. Knows(o, m)
    BY <1>1, <1>5, KnowsWeaker DEF Runs, Kept
  <2>3. Knows(o, m)'
    BY <2>2, KnowsSame DEF IfResetIsZero, records
  <2> QED
    BY <1>1, <1>6, <2>1, <2>3, GoOn DEF Runs, Advances
<1> QED
  BY <1>7, <1>8

\* What set_output goes on to do, from what it has just seen.
LEMMA SetOutputBranchOutline ==
  ASSUME NEW p \in Output, NEW reset \in {0, 1, 3}, NEW v \in {0, 1}
  PROVE  \E k \in Knowledge :
           /\ Outline(k, SetOutputBranch(odata[p], reset, v), Nothing)
           /\ \/ k = Plain /\ odata[p].type \in {0, 1}
              \/ k = Starting /\ odata[p].type \in {2, 3} /\ reset = 0
              \/ k = Locking /\ odata[p].type = 4 /\ reset = 0
              \/ k = Locked /\ odata[p].type = 4 /\ reset # 0
              \/ k = Nothing
<1> DEFINE w == IF odata[p].polarity = 1 THEN 1 - v ELSE v
<1>1. odata[p].type \in 0..4 /\ w \in {0, 1}
  BY HandlerAssumption
<1> HIDE DEF w
<1>2. OutOnoff.op = "out_onoff" /\ OutOtp(1).op = "out_otp" /\ OutOtp(1).b = 1
      /\ ToggleOtp.op = "toggle" /\ StartTimer.op = "start_timer"
  BY DEF OutOnoff, OutOtp, ToggleOtp, StartTimer, Op
<1>3. /\ Moves(Plain, OutOnoff, Plain) /\ Moves(LockOff, OutOnoff, Ready)
      /\ Moves(Plain, ToggleOtp, Plain)
      /\ Moves(Begun, StartTimer, Armed) /\ Moves(Armed, OutOtp(1), Ready)
  <2>1. Does(Plain, OutOnoff, Plain) /\ Does(LockOff, OutOnoff, Ready)
    BY <1>2 DEF Does
  <2>2. Does(Plain, ToggleOtp, Plain)
    BY <1>2 DEF Does
  <2>3. Does(Begun, StartTimer, Armed) /\ Does(Armed, OutOtp(1), Ready)
    BY <1>2 DEF Does
  <2> QED
    BY <2>1, <2>2, <2>3, Facts, DoesMoves
<1>4. /\ Moves(Plain, Put("onoff", w), Plain)
      /\ Moves(Plain, Put("reset", 1), Plain) /\ Moves(Plain, Put("reset", 0), Plain)
      /\ Moves(Starting, Put("reset", 1), Begun) /\ Moves(Armed, Put("onoff", 1), Armed)
      /\ Moves(Locking, Put("reset", 1), Locking) /\ Moves(Locking, Put("onoff", 0), LockOff)
      /\ Moves(Locked, Put("reset", 3), Nothing)
  <2>1. /\ Puts(Plain, "onoff", w, Plain) /\ Puts(Plain, "reset", 1, Plain)
        /\ Puts(Plain, "reset", 0, Plain)
    BY <1>1 DEF Puts
  <2>2. /\ Puts(Starting, "reset", 1, Begun) /\ Puts(Armed, "onoff", 1, Armed)
        /\ Puts(Locking, "reset", 1, Locking) /\ Puts(Locking, "onoff", 0, LockOff)
        /\ Puts(Locked, "reset", 3, Nothing)
    BY DEF Puts
  <2> QED
    BY <2>1, <2>2, Facts, PutMoves
<1>5. CASE odata[p].type = 0
  <2>1. Outline(Plain, <<Put("onoff", w), OutOnoff, InsertOtp>>, Nothing)
    BY <1>3, <1>4, Facts, InsertOtpMoves, Steps3
  <2>2. SetOutputBranch(odata[p], reset, v) = <<Put("onoff", w), OutOnoff, InsertOtp>>
    BY <1>5 DEF SetOutputBranch, w
  <2> QED
    BY <1>5, <2>1, <2>2, Facts
<1>6. CASE odata[p].type = 1 /\ reset = 0
  <2>1. Outline(Plain, <<Put("reset", 1), ToggleOtp, OutOnoff, InsertOtp>>, Nothing)
    BY <1>3, <1>4, Facts, InsertOtpMoves, Steps4
  <2>2. SetOutputBranch(odata[p], reset, v) = <<Put("reset", 1), ToggleOtp, OutOnoff, InsertOtp>>
    BY <1>6 DEF SetOutputBranch
  <2> QED
    BY <1>6, <2>1, <2>2, Facts
<1>7. CASE odata[p].type = 1 /\ reset = 1
  <2>1. Outline(Plain, <<Put("reset", 0)>>, Nothing)
    <3>1. Outline(Plain, <<Put("reset", 0)>>, Plain)
      BY <1>4, Facts, OutlineStep
    <3> QED
      BY <3>1, Facts, OutlineWeaker DEF Weaker, Plain, Fact, Calm
  <2>2. SetOutputBranch(odata[p], reset, v) = <<Put("reset", 0)>>
    BY <1>7 DEF SetOutputBranch
  <2> QED
    BY <1>7, <2>1, <2>2, Facts
<1>8. CASE odata[p].type \in {2, 3} /\ reset = 0
  <2>1. Outline(Starting, <<Put("reset", 1), StartTimer, Put("onoff", 1), OutOtp(1), InsertOtp>>,
                Nothing)
    BY <1>3, <1>4, Facts, InsertOtpMoves, Steps5
  <2>2. SetOutputBranch(odata[p], reset, v)
          = <<Put("reset", 1), StartTimer, Put("onoff", 1), OutOtp(1), InsertOtp>>
    BY <1>8 DEF SetOutputBranch
  <2> QED
    BY <1>8, <2>1, <2>2, Facts
<1>9. CASE odata[p].type = 4 /\ reset = 0
  <2>1. Outline(Locking, <<Put("reset", 1), Put("onoff", 0), OutOnoff, InsertOtp,
                           Msg("ESTOP_SIGNAL")>>, Nothing)
    BY <1>3, <1>4, Facts, InsertOtpMoves, MsgMoves, Steps5
  <2>2. SetOutputBranch(odata[p], reset, v)
          = <<Put("reset", 1), Put("onoff", 0), OutOnoff, InsertOtp, Msg("ESTOP_SIGNAL")>>
    BY <1>9 DEF SetOutputBranch
  <2> QED
    BY <1>9, <2>1, <2>2, Facts
<1>10. CASE odata[p].type = 4 /\ reset = 1
  <2>1. Outline(Locked, <<Put("reset", 3)>>, Nothing)
    BY <1>4, Facts, OutlineStep
  <2>2. SetOutputBranch(odata[p], reset, v) = <<Put("reset", 3)>>
    BY <1>10 DEF SetOutputBranch
  <2> QED
    BY <1>10, <2>1, <2>2, Facts
<1>11. CASE \/ odata[p].type = 1 /\ reset = 3
            \/ odata[p].type \in {2, 3} /\ reset # 0
            \/ odata[p].type = 4 /\ reset = 3
  <2>1. SetOutputBranch(odata[p], reset, v) = <<>>
    BY <1>11 DEF SetOutputBranch
  <2> QED
    BY <2>1, Facts, WeakerItself, OutlineEmpty
<1>12. \/ odata[p].type = 0
       \/ odata[p].type = 1 /\ reset = 0
       \/ odata[p].type = 1 /\ reset = 1
       \/ odata[p].type \in {2, 3} /\ reset = 0
       \/ odata[p].type = 4 /\ reset = 0
       \/ odata[p].type = 4 /\ reset = 1
       \/ \/ odata[p].type = 1 /\ reset = 3
          \/ odata[p].type \in {2, 3} /\ reset # 0
          \/ odata[p].type = 4 /\ reset = 3
  BY <1>1
<1> QED
  BY <1>5, <1>6, <1>7, <1>8, <1>9, <1>10, <1>11, <1>12

\* set_output: its switch over the type and its test of reset.
LEMMA SetOutputAdvances ==
  ASSUME NEW t \in Threads, Runs(t), set_output(t)
  PROVE  Advances(t)
<1> DEFINE v == Now(t).b
<1>1. PICK o \in Chunk \cup {NULL}, x \in Knowledge, m \in Knowledge :
        /\ otp[t] = o /\ Knows(o, x) /\ Does(x, Now(t), m)
        /\ Outline(m, Tail(code[t]), Nothing)
  BY Ahead DEF Runs, Kept, set_output, At
<1>2. v \in {0, 1} /\ x = Held /\ m = Nothing
  BY <1>1 DEF set_output, At, Now, Does, Harmless
<1>3. o \in Chunk /\ AllFit
  BY <1>1, <1>2 DEF Knows, Held, Fact, Calm
<1> HIDE DEF v
<1>4. PICK p \in Output, reset \in {0, 1, 3} : p = heap[o].port /\ reset = heap[o].reset
  BY <1>3 DEF Runs, Kept, Records, O_DATA
<1> DEFINE ops == SetOutputBranch(odata[p], reset, v)
<1>5. Continue(t, ops, o)
  BY <1>1, <1>4, ProceedsWith DEF set_output, Cfg, Rec, v
<1>6. PICK k \in Knowledge :
           /\ Outline(k, ops, Nothing)
           /\ \/ k = Plain /\ odata[p].type \in {0, 1}
              \/ k = Starting /\ odata[p].type \in {2, 3} /\ reset = 0
              \/ k = Locking /\ odata[p].type = 4 /\ reset = 0
              \/ k = Locked /\ odata[p].type = 4 /\ reset # 0
              \/ k = Nothing
  BY <1>2, SetOutputBranchOutline
<1> HIDE DEF ops
<1>7. Knows(o, k)
  <2>1. RestFit(o)
    BY <1>3 DEF AllFit, RestFit
  <2> QED
    BY <1>3, <1>4, <1>6, <2>1
      DEF Knows, Plain, Starting, Locking, Locked, Nothing, Fact, Calm, Type
<1>8. Knows(o, k)' /\ Records'
  BY <1>7, KnowsSame, RecordsSame DEF set_output, records, Runs, Kept
<1>9. Kept'
  BY <1>8, StepKeepsOwnership DEF Runs, Kept, Step, set_output, Globals
<1> QED
  BY <1>1, <1>2, <1>5, <1>6, <1>8, <1>9, Facts, Resume DEF Runs, Advances

\* change_output(p, v), given what is known afterwards.
LEMMA RelayAdvances ==
  ASSUME NEW t \in Threads, Runs(t), NEW p \in Output, NEW v, change_output(t), Relay(t, p, v),
         NEW o \in Chunk \cup {NULL}, otp[t] = o, NEW m \in Knowledge, Knows(o, m)',
         Outline(m, Tail(code[t]), Nothing)
  PROVE  Advances(t)
<1>1. Records'
  BY RelayFits DEF Relay, records, Runs, Kept
<1>2. Kept'
  BY <1>1, StepKeepsOwnership DEF Runs, Kept, Step, Relay, Globals
<1>3. Continue(t, <<>>, o)
  BY ProceedsWith DEF Relay
<1> QED
  BY <1>2, <1>3, GoOn DEF Runs, Advances

\* change_output with a number: the handlers of ACCON and FUELPUMP, and a time that is up
LEMMA OutAdvances ==
  ASSUME NEW t \in Threads, Runs(t), At(t, "out"), Relay(t, Now(t).a, Now(t).b)
  PROVE  Advances(t)
<1>1. PICK o \in Chunk \cup {NULL}, x \in Knowledge, m \in Knowledge :
        /\ otp[t] = o /\ Knows(o, x) /\ Does(x, Now(t), m)
        /\ Outline(m, Tail(code[t]), Nothing)
  BY Ahead DEF Runs, Kept, At
<1>2. PICK p, v : p \in Output /\ p = Now(t).a /\ v = Now(t).b /\ Switched(x, p, v, m)
  <2>1. Now(t).a \in Output /\ Switched(x, Now(t).a, Now(t).b, m)
    BY <1>1 DEF At, Now, Does, Harmless
  <2> QED
    BY <2>1
<1>3. change_output(t) /\ Relay(t, p, v)
  BY <1>2 DEF change_output
<1>4. /\ relays' = (IF v = 1 THEN relays \cup {p} ELSE relays \ {p})
      /\ heap' = heap /\ list' = list
  BY <1>3 DEF Relay, records
<1>5. \A q \in Output \ {p} : \A r : Fits(q, r) => Fits(q, r)'
  BY <1>2, <1>4, RelayFits DEF Runs, Kept
<1>6. ASSUME AllFit, p \in {ACCON, FUELPUMP}, v = 0 \/ Node(p).reset = 0
      PROVE  AllFit'
  <2>1. Fits(p, Node(p))'
    <3>1. Fits(p, Node(p))
      BY <1>2, <1>6 DEF AllFit
    <3>2. v = 0 => p \notin relays'
      BY <1>4
    <3> QED
      BY <1>4, <1>6, <3>1, <3>2 DEF Fits, Node
  <2>2. \A q \in Output \ {p} : Fits(q, Node(q))'
    BY <1>4, <1>5, <1>6 DEF AllFit, Node
  <2> QED
    BY <2>1, <2>2 DEF AllFit
<1>7. Knows(o, m)'
  <2>1. CASE p \in {ACCON, FUELPUMP} /\ v = 0 /\ x = Nothing /\ m = Nothing
    BY <1>1, <1>6, <2>1 DEF Knows, Nothing, Fact, Calm
  <2>2. CASE p \in {ACCON, FUELPUMP} /\ x = Clear(p) /\ m = Found(p)
    <3>1. AllFit /\ o \in Chunk /\ o = list[p] /\ heap[o].reset = 0
      BY <1>1, <2>2 DEF Knows, Clear, Fact, Calm
    <3>2. AllFit'
      BY <1>6, <2>2, <3>1 DEF Node
    <3> QED
      BY <1>2, <1>4, <2>2, <3>1, <3>2 DEF Knows, Found, Fact, Calm
  <2>3. CASE p \in {ACCON, FUELPUMP} /\ x = Open(p) /\ m = Nothing
    <3>1. AllFit /\ Node(p).reset = 0
      BY <1>1, <2>3 DEF Knows, Open, Fact, Calm
    <3>2. AllFit'
      BY <1>6, <2>3, <3>1
    <3> QED
      BY <2>3, <3>2 DEF Knows, Nothing, Fact, Calm
  <2>4. CASE v = 0 /\ x = Expired(p) /\ m = Off(p)
    <3>1. o \in Chunk /\ RestFit(o) /\ o = list[p] /\ odata[p].type \in {2, 3}
      BY <1>1, <2>4 DEF Knows, Expired, Fact, Calm
    <3>2. heap[o].port = p
      BY <1>2, <3>1 DEF Runs, Kept, Records, RecordsInPlace, Node
    <3>3. RestFit(o)'
      BY <1>4, <1>5, <3>1, <3>2 DEF RestFit, Node
    <3>4. p \notin relays'
      BY <1>4, <2>4
    <3> QED
      BY <1>2, <1>4, <2>4, <3>1, <3>3, <3>4 DEF Knows, Off, Fact, Calm
  <2> QED
    BY <1>2, <2>1, <2>2, <2>3, <2>4 DEF Switched
<1> QED
  BY <1>1, <1>2, <1>3, <1>7, RelayAdvances

\* change_output(otp->port, 1): a timed output starts
LEMMA OutOtpAdvances ==
  ASSUME NEW t \in Threads, Runs(t), At(t, "out_otp"), Relay(t, Rec(t).port, Now(t).b)
  PROVE  Advances(t)
<1>1. PICK o \in Chunk \cup {NULL}, x \in Knowledge, m \in Knowledge :
        /\ otp[t] = o /\ Knows(o, x) /\ Does(x, Now(t), m)
        /\ Outline(m, Tail(code[t]), Nothing)
  BY Ahead DEF Runs, Kept, At
<1>2. Now(t).b = 1 /\ x = Armed /\ m = Ready
  BY <1>1 DEF At, Now, Does, Harmless
<1>3. /\ o \in Chunk /\ RestFit(o) /\ Type(o) \in {2, 3} /\ heap[o].reset = 1
      /\ heap[o].time_left = odata[heap[o].port].time_delay
  BY <1>1, <1>2 DEF Knows, Armed, Fact, Calm
<1>4. PICK p \in Output : p = heap[o].port
  BY <1>3 DEF Runs, Kept, Records, O_DATA
<1>5. change_output(t) /\ Relay(t, p, 1)
  BY <1>1, <1>2, <1>4 DEF change_output, Rec
<1>6. /\ relays' = relays \cup {p}
      /\ heap' = heap /\ list' = list
  BY <1>5 DEF Relay, records
<1>7. RestFit(o)'
  <2>1. \A q \in Output \ {p} : \A r : Fits(q, r) => Fits(q, r)'
    BY <1>6, RelayFits DEF Runs, Kept
  <2> QED
    BY <1>3, <1>4, <1>6, <2>1 DEF RestFit, Node
<1>8. Fits(p, heap[o])'
  <2>1. odata[p].type \in {2, 3} /\ odata[p].time_delay \in 1..255
    BY <1>3, <1>4, DelayFits DEF Type
  <2>2. heap'[o].reset = 1 /\ heap'[o].time_left = odata[p].time_delay /\ p \in relays'
    BY <1>3, <1>4, <1>6
  <2>3. odata[p].time_delay \in 1..odata[p].time_delay
    BY <2>1
  <2> QED
    BY <2>1, <2>2, <2>3 DEF Fits
<1>9. Knows(o, m)'
  BY <1>2, <1>3, <1>4, <1>6, <1>7, <1>8 DEF Knows, Ready, Fact, Calm
<1> QED
  BY <1>1, <1>5, <1>9, RelayAdvances

\* change_output(otp->port, otp->onoff): types 0 and 1, and a lock
LEMMA OutOnoffAdvances ==
  ASSUME NEW t \in Threads, Runs(t), At(t, "out_onoff"), Relay(t, Rec(t).port, Rec(t).onoff)
  PROVE  Advances(t)
<1>1. PICK o \in Chunk \cup {NULL}, x \in Knowledge, m \in Knowledge :
        /\ otp[t] = o /\ Knows(o, x) /\ Does(x, Now(t), m)
        /\ Outline(m, Tail(code[t]), Nothing)
  BY Ahead DEF Runs, Kept, At
<1>2. (x = Plain /\ m = Plain) \/ (x = LockOff /\ m = Ready)
  BY <1>1 DEF At, Now, Does, Harmless
<1>3. o \in Chunk
  BY <1>1, <1>2 DEF Knows, Plain, LockOff, Fact
<1>4. PICK p \in Output : p = heap[o].port
  BY <1>3 DEF Runs, Kept, Records, O_DATA
<1>5. change_output(t) /\ Relay(t, p, heap[o].onoff)
  BY <1>1, <1>4 DEF change_output, Rec
<1>6. /\ relays' = (IF heap[o].onoff = 1 THEN relays \cup {p} ELSE relays \ {p})
      /\ heap' = heap /\ list' = list
  BY <1>5 DEF Relay, records
<1>7. \A q \in Output \ {p} : \A r : Fits(q, r) => Fits(q, r)'
  BY <1>6, RelayFits DEF Runs, Kept
<1>8. Knows(o, m)'
  <2>1. CASE x = Plain /\ m = Plain
    <3>1. AllFit /\ odata[p].type \in {0, 1}
      BY <1>1, <1>4, <2>1 DEF Knows, Plain, Fact, Calm, Type
    <3>2. Fits(p, Node(p))'
      BY <3>1 DEF Fits
    <3>3. AllFit'
      BY <1>6, <1>7, <3>1, <3>2 DEF AllFit, Node
    <3> QED
      BY <1>3, <1>4, <1>6, <2>1, <3>1, <3>3 DEF Knows, Plain, Fact, Calm, Type
  <2>2. CASE x = LockOff /\ m = Ready
    <3>1. RestFit(o) /\ odata[p].type = 4 /\ heap[o].onoff = 0
      BY <1>1, <1>4, <2>2 DEF Knows, LockOff, Fact, Calm, Type
    <3>2. p \notin relays'
      BY <1>6, <3>1
    <3>3. Fits(p, heap[o])'
      BY <3>1, <3>2 DEF Fits
    <3>4. RestFit(o)'
      BY <1>4, <1>6, <1>7, <3>1 DEF RestFit, Node
    <3> QED
      BY <1>3, <1>4, <1>6, <2>2, <3>3, <3>4 DEF Knows, Ready, Fact, Calm
  <2> QED
    BY <1>2, <2>1, <2>2
<1> QED
  BY <1>1, <1>4, <1>5, <1>8, RelayAdvances

\* timer_task: a blinking output
LEMMA BlinkAdvances ==
  ASSUME NEW t \in Threads, Runs(t), At(t, "blink"),
         Relay(t, Rec(t).port, (Cfg(t).time_delay - Rec(t).time_left) % 2)
  PROVE  Advances(t)
<1>1. PICK o \in Chunk \cup {NULL}, x \in Knowledge, m \in Knowledge :
        /\ otp[t] = o /\ Knows(o, x) /\ Does(x, Now(t), m)
        /\ Outline(m, Tail(code[t]), Nothing)
  BY Ahead DEF Runs, Kept, At
<1> DEFINE p == x.p
           v == (Cfg(t).time_delay - Rec(t).time_left) % 2
<1>2. x = Counting(p) /\ odata[p].type = 3 /\ m = x
  BY <1>1 DEF At, Now, Does, Harmless
<1>3. AllFit /\ o \in Chunk /\ p \in Output /\ o = list[p] /\ heap[o].reset = 1
  BY <1>1, <1>2 DEF Knows, Counting, Fact, Calm
<1>4. heap[o].port = p
  BY <1>3 DEF Runs, Kept, Records, RecordsInPlace, Node
<1> HIDE DEF p
<1>5. change_output(t) /\ Relay(t, p, v)
  <2>1. Rec(t).port = p
    BY <1>1, <1>4 DEF Rec
  <2> QED
    BY <2>1 DEF change_output
<1> HIDE DEF v
<1>6. /\ relays' = (IF v = 1 THEN relays \cup {p} ELSE relays \ {p})
      /\ heap' = heap /\ list' = list
  BY <1>5 DEF Relay, records
<1>7. \A q \in Output \ {p} : \A r : Fits(q, r) => Fits(q, r)'
  BY <1>3, <1>6, RelayFits DEF Runs, Kept
<1>8. AllFit'
  <2>1. Fits(p, Node(p))
    BY <1>3 DEF AllFit
  <2>2. Fits(p, Node(p))'
    BY <1>2, <1>6, <2>1 DEF Fits, Node
  <2> QED
    BY <1>3, <1>6, <1>7, <2>2 DEF AllFit, Node
<1>9. Knows(o, m)'
  BY <1>2, <1>3, <1>6, <1>8 DEF Knows, Counting, Fact, Calm
<1> QED
  BY <1>1, <1>3, <1>5, <1>9, RelayAdvances

\* The steps that touch neither a record nor a relay.
LEMMA HarmlessAdvances ==
  ASSUME NEW t \in Threads, Runs(t), ~Idle(t), Now(t).op \in Harmless, NEW ops, Sound(ops),
         Proceed(t, ops), UNCHANGED <<heap, list, relays>>, Globals'
  PROVE  Advances(t)
<1>1. PICK o \in Chunk \cup {NULL}, x \in Knowledge, m \in Knowledge :
        /\ otp[t] = o /\ Knows(o, x) /\ Does(x, Now(t), m)
        /\ Outline(m, Tail(code[t]), Nothing)
  BY Ahead DEF Runs, Kept
<1>2. x = Nothing /\ m = Nothing
  BY <1>1 DEF Does, Harmless
<1>3. Knows(o, Nothing)' /\ Records'
  BY <1>1, <1>2, KnowsSame, RecordsSame DEF Runs, Kept
<1>4. Kept'
  BY <1>3 DEF Kept, Runs, Ownership
<1>5. Continue(t, ops, o)
  BY <1>1, ProceedsWith
<1> QED
  BY <1>1, <1>2, <1>3, <1>4, <1>5, Facts, Resume DEF Runs, Advances, Sound

\* One such step is a handler of its own.
LEMMA HarmlessStep ==
  ASSUME NEW s, s.op \in Harmless, s.op = "assign" => Assigned(s.a, s.b)
  PROVE  Sound(<<s>>)
BY HarmlessMoves, SoundStep

\* The globals keep their ranges while nobody assigns one.
LEMMA GlobalsSame ==
  ASSUME Globals, UNCHANGED glob
  PROVE  Globals'
BY DEF Globals

\* The software inputs, the queue and the status bytes.
LEMMA InputsAdvance ==
  ASSUME NEW t \in Threads, Runs(t),
         \/ change_input(t) \/ ClearFakeInput(t) \/ StoreFake(t)
         \/ add_msg_queue(t) \/ StoreStatus(t)
  PROVE  Advances(t)
<1>1. Globals' /\ UNCHANGED <<heap, list, relays>>
  BY GlobalsSame DEF Runs, Kept, change_input, ClearFakeInput, StoreFake, add_msg_queue,
                     StoreStatus, records
<1>2. ~Idle(t) /\ Now(t).op \in Harmless
  BY DEF change_input, ClearFakeInput, StoreFake, add_msg_queue, StoreStatus, At, Now, Harmless
<1>3. \A b, S : Sound(<<Op("store1", b, S)>>) /\ Sound(<<Op("store2", b, S)>>)
  <2> TAKE b, S
  <2>1. Op("store1", b, S).op = "store1" /\ Op("store2", b, S).op = "store2"
    BY DEF Op
  <2> QED
    BY <2>1, HarmlessStep DEF Harmless
<1>4. \E ops : Sound(ops) /\ Proceed(t, ops)
  <2>1. CASE change_input(t)
    BY <1>3, <2>1 DEF change_input
  <2>2. CASE ClearFakeInput(t)
    <3>1. CASE Now(t).a = 1
      BY <1>3, <2>2, <3>1 DEF ClearFakeInput
    <3>2. CASE Now(t).a # 1
      BY <1>3, <2>2, <3>2 DEF ClearFakeInput
    <3> QED
      BY <3>1, <3>2
  <2>3. CASE StoreFake(t) \/ add_msg_queue(t) \/ StoreStatus(t)
    <3>1. Proceed(t, <<>>)
      BY <2>3 DEF StoreFake, add_msg_queue, StoreStatus
    <3> QED
      BY <3>1, SoundEmpty
  <2> QED
    BY <2>1, <2>2, <2>3
<1> QED
  BY <1>1, <1>2, <1>4, HarmlessAdvances

\* The globals that have a range are only ever given a value in it.
LEMMA AssignGlobalAdvances ==
  ASSUME NEW t \in Threads, Runs(t), AssignGlobal(t)
  PROVE  Advances(t)
<1>1. ~Idle(t) /\ Now(t).op \in Harmless /\ Now(t).op = "assign"
  BY DEF AssignGlobal, At, Now, Harmless
<1>2. Assigned(Now(t).a, Now(t).b)
  <2>1. PICK x, m : Does(x, Now(t), m)
    BY <1>1, Ahead DEF Runs, Kept
  <2> QED
    BY <1>1, <2>1 DEF Does
<1>3. PICK a, b : Assigned(a, b) /\ glob' = [glob EXCEPT ![a] = b]
  BY <1>2 DEF AssignGlobal
<1>4. Globals'
  <2>1. \A g \in Global : glob'[g] = IF g = a THEN b ELSE glob[g]
    BY <1>3 DEF Globals, Runs, Kept
  <2>2. glob' = [g \in Global |-> glob'[g]]
    BY <1>3 DEF Globals, Runs, Kept
  <2>3. "run_time" \in Global /\ "lights_on_countdown" \in Global
    BY DEF Global
  <2>4. glob'["run_time"] \in 0..(HOUR - 1)
    <3>1. CASE a = "run_time"
      <4>1. glob'["run_time"] = 0
        BY <1>3, <2>1, <2>3, <3>1 DEF Assigned
      <4> QED
        BY <4>1, OutputAssumption
    <3>2. CASE a # "run_time"
      BY <2>1, <2>3, <3>2 DEF Globals, Runs, Kept
    <3> QED
      BY <3>1, <3>2
  <2>5. glob'["lights_on_countdown"] \in 0..actual_lights_on_delay
    <3>1. CASE a = "lights_on_countdown"
      <4>1. glob'["lights_on_countdown"] = actual_lights_on_delay
        BY <1>3, <2>1, <2>3, <3>1 DEF Assigned
      <4> QED
        BY <4>1, HandlerAssumption
    <3>2. CASE a # "lights_on_countdown"
      BY <2>1, <2>3, <3>2 DEF Globals, Runs, Kept
    <3> QED
      BY <3>1, <3>2
  <2> QED
    BY <2>2, <2>4, <2>5 DEF Globals
<1> QED
  BY <1>1, <1>4, SoundEmpty, HarmlessAdvances DEF AssignGlobal, records

\* A sleep ends.
LEMMA WakeAdvances ==
  ASSUME NEW t \in Threads, Runs(t), Wake(t)
  PROVE  Advances(t)
<1>1. PICK o \in Chunk \cup {NULL}, x \in Knowledge, m \in Knowledge :
        /\ otp[t] = o /\ Knows(o, x) /\ Does(x, Now(t), m)
        /\ Outline(m, Tail(code[t]), Nothing)
  BY Ahead DEF Runs, Kept, Wake, At
<1>2. m = x
  BY <1>1 DEF Wake, At, Now, Does, Harmless
<1>3. Knows(o, m)' /\ Records'
  BY <1>1, <1>2, KnowsSame, RecordsSame DEF Wake, records, Runs, Kept
<1>4. Kept'
  BY <1>3, StepKeepsOwnership, GlobalsSame DEF Runs, Kept, Step, Wake
<1>5. Continue(t, <<>>, o)
  BY <1>1, ProceedsWith DEF Wake
<1> QED
  BY <1>1, <1>3, <1>4, <1>5, GoOn DEF Runs, Advances

\* A task that has returned.
LEMMA ExitSound == Sound(<<Exit>>)
<1>1. Exit.op = "exit"
  BY DEF Exit, Op
<1> QED
  BY <1>1, HarmlessStep DEF Harmless

\* A thread at the top of its loop starts a handler that has an outline.
LEMMA BeginAdvances ==
  ASSUME NEW t \in Threads, Runs(t), Idle(t), NEW s, Sound(s), code' = [code EXCEPT ![t] = s],
         UNCHANGED <<heap, list, relays, otp, glob>>
  PROVE  Advances(t)
<1>1. Kept'
  BY RecordsSame, GlobalsSame DEF Runs, Kept, Ownership
<1> QED
  BY <1>1, Begin DEF Runs, Kept, Advances

\* A task returns.
LEMMA ReturnAdvances ==
  ASSUME NEW t \in Threads, Runs(t), Return(t)
  PROVE  Advances(t)
BY ExitSound, BeginAdvances DEF Return, records

\* Every step of a handler.
LEMMA StepAdvances ==
  ASSUME NEW t \in Threads, Runs(t), Step(t)
  PROVE  Advances(t)
<1>1. CASE ollist_find_data(t)
  BY <1>1, FindAdvances
<1>2. CASE ollist_insert_data(t)
  BY <1>2, InsertAdvances
<1>3. CASE EvalPort(t)
  BY <1>3, EvalPortAdvances
<1>4. CASE WriteField(t)
  BY <1>4, PutAdvances, ToggleAdvances, StartTimerAdvances DEF WriteField
<1>5. CASE IfResetIsZero(t)
  BY <1>5, IfResetIsZeroAdvances
<1>6. CASE set_output(t)
  BY <1>6, SetOutputAdvances
<1>7. CASE change_output(t)
  BY <1>7, OutAdvances, OutOtpAdvances, OutOnoffAdvances, BlinkAdvances DEF change_output
<1>8. CASE \/ change_input(t) \/ ClearFakeInput(t) \/ StoreFake(t)
           \/ add_msg_queue(t) \/ StoreStatus(t)
  BY <1>8, InputsAdvance
<1>9. CASE AssignGlobal(t)
  BY <1>9, AssignGlobalAdvances
<1>10. CASE Wake(t)
  BY <1>10, WakeAdvances
<1>11. CASE Return(t)
  BY <1>11, ReturnAdvances
<1> QED
  BY <1>1, <1>2, <1>3, <1>4, <1>5, <1>6, <1>7, <1>8, <1>9, <1>10, <1>11 DEF Step

--------------------------------------------------------------------------------
(* The timer, the monitors and the controls thread *)

\* timer_task: a second of engine time
LEMMA RunTimeAdvances ==
  ASSUME Runs("timer"), RunTime
  PROVE  Advances("timer")
<1>1. PICK now : /\ now = (glob["run_time"] + 1) % HOUR
                 /\ glob' = [glob EXCEPT !["run_time"] = now]
                 /\ Proceed("timer", IF now = LIGHTS_ON_AT THEN LightsOn ELSE <<>>)
  BY DEF RunTime
<1>2. now \in 0..(HOUR - 1)
  <2>1. glob["run_time"] \in Nat
    BY DEF Runs, Kept, Globals
  <2> QED
    BY <1>1, <2>1, OutputAssumption
<1>3. Globals'
  <2>1. \A g \in Global : glob'[g] = IF g = "run_time" THEN now ELSE glob[g]
    BY <1>1 DEF Globals, Runs, Kept
  <2>2. glob' = [g \in Global |-> glob'[g]]
    BY <1>1 DEF Globals, Runs, Kept
  <2>3. "run_time" \in Global /\ "lights_on_countdown" \in Global
    BY DEF Global
  <2> QED
    BY <1>2, <2>1, <2>2, <2>3 DEF Globals, Runs, Kept
<1>4. "timer" \in Threads /\ ~Idle("timer") /\ Now("timer").op \in Harmless
  BY DEF RunTime, At, Now, Harmless, Threads
<1>5. UNCHANGED <<heap, list, relays>>
  BY DEF RunTime, records
<1> QED
  BY <1>1, <1>3, <1>4, <1>5, SoundLights, SoundEmpty, HarmlessAdvances

\* timer_task: a second of the lights' countdown
LEMMA CountdownAdvances ==
  ASSUME Runs("timer"), Countdown
  PROVE  Advances("timer")
<1>1. PICK left, next :
        /\ left = glob["lights_on_countdown"]
        /\ next = (IF left > 0 THEN left - 1 ELSE 0)
        /\ glob' = [glob EXCEPT !["run_time"] = 0, !["lights_on_countdown"] = next]
        /\ Proceed("timer", IF left = 1 THEN LightsOff ELSE <<>>)
  BY DEF Countdown
<1>2. next \in 0..actual_lights_on_delay
  BY <1>1, HandlerAssumption DEF Runs, Kept, Globals
<1>3. Globals'
  <2>1. "run_time" \in Global /\ "lights_on_countdown" \in Global
    BY DEF Global
  <2>2. /\ glob' = [g \in Global |-> glob'[g]]
        /\ glob'["run_time"] = 0 /\ glob'["lights_on_countdown"] = next
    BY <1>1, <2>1 DEF Globals, Runs, Kept
  <2> QED
    BY <1>2, <2>2, OutputAssumption DEF Globals
<1>4. "timer" \in Threads /\ ~Idle("timer") /\ Now("timer").op \in Harmless
  BY DEF Countdown, At, Now, Harmless, Threads
<1>5. UNCHANGED <<heap, list, relays>>
  BY DEF Countdown, records
<1> QED
  BY <1>1, <1>3, <1>4, <1>5, SoundLights, SoundEmpty, HarmlessAdvances

\* timer_task: the blinker tests and the test of shutdown_all
LEMMA BlinkerTestsAdvance ==
  ASSUME Runs("timer"), EndBlinkerTests \/ TimerLoop
  PROVE  Advances("timer")
<1>1. "timer" \in Threads /\ ~Idle("timer") /\ Now("timer").op \in Harmless
  BY DEF EndBlinkerTests, TimerLoop, At, Now, Harmless, Threads
<1>2. UNCHANGED <<heap, list, relays>> /\ Globals'
  BY GlobalsSame DEF EndBlinkerTests, TimerLoop, records, Runs, Kept
<1>3. CASE EndBlinkerTests
  <2> DEFINE l == IF glob.test_lblinkers > 0
                    THEN EndBlinkerTest("test_lblinkers", LEFTBLINKER_INPUT) ELSE <<>>
             r == IF glob.test_rblinkers > 0
                    THEN EndBlinkerTest("test_rblinkers", RIGHTBLINKER_INPUT) ELSE <<>>
  <2>1. Sound(EndBlinkerTest("test_lblinkers", LEFTBLINKER_INPUT))
    BY SoundEndBlinkerTest
  <2>2. Sound(EndBlinkerTest("test_rblinkers", RIGHTBLINKER_INPUT))
    BY SoundEndBlinkerTest
  <2>3. Sound(l)
    BY <2>1, SoundEmpty
  <2>4. Sound(r)
    BY <2>2, SoundEmpty
  <2>5. Proceed("timer", l \o r)
    BY <1>3 DEF EndBlinkerTests
  <2> HIDE DEF l, r
  <2>6. Sound(l \o r)
    BY <2>3, <2>4, SoundJoin
  <2> QED
    BY <1>1, <1>2, <2>5, <2>6, HarmlessAdvances
<1>4. CASE TimerLoop
  <2>1. Proceed("timer", IF glob.shutdown_all = 1 THEN <<Exit>> ELSE <<>>)
    BY <1>4 DEF TimerLoop
  <2> QED
    BY <1>1, <1>2, <2>1, ExitSound, SoundEmpty, HarmlessAdvances
<1> QED
  BY <1>3, <1>4

\* timer_task: if((otp->type == 2 || otp->type == 3) && otp->reset == 1)
LEMMA TestTimedAdvances ==
  ASSUME Runs("timer"), TestTimed
  PROVE  Advances("timer")
<1>1. PICK o \in Chunk \cup {NULL}, x \in Knowledge, m \in Knowledge :
        /\ otp["timer"] = o /\ Knows(o, x) /\ Does(x, Now("timer"), m)
        /\ Outline(m, Tail(code["timer"]), Nothing)
  BY Ahead DEF Runs, Kept, TestTimed, At, Threads
<1>2. x = Found(Now("timer").a) /\ m = Nothing
  BY <1>1 DEF TestTimed, At, Now, Does, Harmless
<1>3. PICK p \in Output : p = Now("timer").a
  BY <1>1, <1>2 DEF Knows, Found, Fact
<1>4. AllFit /\ o \in Chunk /\ o = list[p]
  BY <1>1, <1>2, <1>3 DEF Knows, Found, Fact, Calm
<1>5. heap[o].port = p
  BY <1>4 DEF Runs, Kept, Records, RecordsInPlace, Node
<1>6. Kept'
  BY RecordsSame, GlobalsSame DEF TestTimed, records, Runs, Kept, Ownership
<1>7. "timer" \in Threads
  BY DEF Threads
<1>8. CASE odata[p].type \in {2, 3} /\ heap[o].reset = 1
  <2>1. Proceed("timer", TimedOutput(p, odata[p]))
    BY <1>1, <1>3, <1>5, <1>8 DEF TestTimed, Cfg, Rec
  <2>2. Continue("timer", TimedOutput(p, odata[p]), o)
    BY <1>1, <1>7, <2>1, ProceedsWith
  <2>3. Knows(o, Counting(p))
    BY <1>4, <1>8 DEF Knows, Counting, Fact, Calm
  <2>4. Knows(o, Counting(p))'
    BY <2>3, KnowsSame DEF TestTimed, records
  <2> QED
    BY <1>1, <1>2, <1>6, <1>7, <2>2, <2>4, Facts, FactsOf, OutlineTimedOutput, Resume
      DEF Runs, Advances
<1>9. CASE ~(odata[p].type \in {2, 3} /\ heap[o].reset = 1)
  <2>1. Proceed("timer", <<>>)
    BY <1>1, <1>3, <1>5, <1>9 DEF TestTimed, Cfg, Rec
  <2>2. Continue("timer", <<>>, o)
    BY <1>1, <1>7, <2>1, ProceedsWith
  <2>3. Knows(o, Nothing)'
    BY <1>4, KnowsNothing, KnowsSame DEF TestTimed, records
  <2> QED
    BY <1>1, <1>2, <1>6, <1>7, <2>2, <2>3, Facts, GoOn DEF Runs, Advances
<1> QED
  BY <1>8, <1>9

\* otp->time_left-- does not wrap: the record is counting.
LEMMA CountAdvances ==
  ASSUME Runs("timer"), Count
  PROVE  Advances("timer")
<1>1. PICK o \in Chunk \cup {NULL}, x \in Knowledge, m \in Knowledge :
        /\ otp["timer"] = o /\ Knows(o, x) /\ Does(x, Now("timer"), m)
        /\ Outline(m, Tail(code["timer"]), Nothing)
  BY Ahead DEF Runs, Kept, Count, At, Threads
<1>2. x = Counting(Now("timer").a) /\ m = Nothing
  BY <1>1 DEF Count, At, Now, Does, Harmless
<1>3. PICK p \in Output : p = Now("timer").a
  BY <1>1, <1>2 DEF Knows, Counting, Fact
<1>4. /\ AllFit /\ o \in Chunk /\ o = list[p] /\ heap[o].reset = 1
      /\ odata[p].type \in {2, 3}
  BY <1>1, <1>2, <1>3 DEF Knows, Counting, Fact, Calm
<1>5. heap[o].port = p /\ heap[o] \in O_DATA
  BY <1>4 DEF Runs, Kept, Records, RecordsInPlace, Node
<1>6. heap[o].time_left \in 1..odata[p].time_delay /\ odata[p].time_delay \in 0..255
  <2>1. Fits(p, heap[o])
    BY <1>4 DEF AllFit, Node
  <2> QED
    BY <1>4, <2>1, DelayFits DEF Fits
<1>7. PICK left \in 0..255 : /\ left = heap[o].time_left - 1
                             /\ left # 0 => left \in 1..odata[p].time_delay
  <2>1. heap[o].time_left - 1 \in 0..255
    BY <1>6
  <2>2. heap[o].time_left - 1 # 0 => heap[o].time_left - 1 \in 1..odata[p].time_delay
    BY <1>6
  <2> QED
    BY <2>1, <2>2
<1>8. /\ heap' = [heap EXCEPT ![o].time_left = left]
      /\ Proceed("timer", IF left = 0 THEN TimeIsUp(p, odata[p]) ELSE <<>>)
      /\ UNCHANGED <<list, relays, glob>>
  <2>1. heap[o].time_left # 0
    BY <1>6
  <2>2. Rec("timer") = heap[o] /\ Cfg("timer") = odata[p]
    BY <1>1, <1>5 DEF Rec, Cfg
  <2> QED
    BY <1>1, <1>3, <1>7, <2>1, <2>2 DEF Count
<1>9. PICK r \in O_DATA : /\ r = [heap[o] EXCEPT !["time_left"] = left]
                          /\ r.port = heap[o].port /\ r.onoff = heap[o].onoff
                          /\ r.reset = heap[o].reset /\ r.time_left = left
  BY <1>5, SetField
<1>10. heap' = [heap EXCEPT ![o] = r]
  BY <1>4, <1>8, <1>9 DEF Runs, Kept, Records
<1>11. /\ Records'
       /\ heap'[o] = r
       /\ RestFit(o) => RestFit(o)'
       /\ AllFit /\ (o = list[r.port] => Fits(r.port, r)) => AllFit'
  <2>1. Records /\ Ownership
    BY DEF Runs, Kept
  <2>2. o \in Chunk /\ r.port = heap[o].port /\ UNCHANGED <<list, relays>>
    BY <1>4, <1>8, <1>9
  <2> QED
    BY <1>10, <2>1, <2>2, WriteFits
<1>12. Kept'
  BY <1>8, <1>11, GlobalsSame DEF Runs, Kept, Ownership
<1>13. "timer" \in Threads
  BY DEF Threads
<1>14. CASE left = 0
  <2>1. Continue("timer", TimeIsUp(p, odata[p]), o)
    BY <1>1, <1>8, <1>13, <1>14, ProceedsWith
  <2>2. RestFit(o)'
    BY <1>4, <1>11 DEF AllFit, RestFit
  <2>3. Knows(o, Expired(p))'
    BY <1>4, <1>8, <2>2 DEF Knows, Expired, Fact, Calm
  <2> QED
    BY <1>1, <1>2, <1>12, <1>13, <2>1, <2>3, Facts, FactsOf, OutlineTimeIsUp, Resume
      DEF Runs, Advances
<1>15. CASE left # 0
  <2>1. Continue("timer", <<>>, o)
    BY <1>1, <1>8, <1>13, <1>15, ProceedsWith
  <2>2. Fits(p, heap[o])
    BY <1>4 DEF AllFit, Node
  <2>3. Fits(p, r)
    BY <1>7, <1>9, <1>15, <2>2 DEF Fits
  <2>4. AllFit'
    BY <1>4, <1>5, <1>9, <1>11, <2>3
  <2>5. Knows(o, Nothing)'
    BY <2>4 DEF Knows, Nothing, Fact, Calm
  <2> QED
    BY <1>1, <1>2, <1>12, <1>13, <2>1, <2>5, Facts, GoOn DEF Runs, Advances
<1> QED
  BY <1>14, <1>15

\* Every step of the timer.
LEMMA TimerAdvances ==
  ASSUME Runs("timer"), TimerStep
  PROVE  Advances("timer")
<1>1. CASE timer_task
  <2> DEFINE first == IF glob.engine_running = 1
                        THEN <<Sleep, Op("run_time", 0, 0)>> ELSE <<Op("countdown", 0, 0)>>
             blinkers == <<Op("blinkers", 0, 0)>>
             loop == <<Op("loop", 0, 0)>>
  <2>1. /\ Op("run_time", 0, 0).op = "run_time" /\ Op("countdown", 0, 0).op = "countdown"
        /\ Op("blinkers", 0, 0).op = "blinkers" /\ Op("loop", 0, 0).op = "loop"
    BY DEF Op
  <2>2. Sound(blinkers) /\ Sound(loop) /\ Sound(<<Op("countdown", 0, 0)>>)
    BY <2>1, HarmlessStep DEF Harmless
  <2>3. Sound(<<Sleep, Op("run_time", 0, 0)>>)
    BY <2>1, HarmlessMoves, SleepMoves, Facts, Steps2 DEF Harmless, Sound
  <2>4. Sound(first)
    BY <2>2, <2>3
  <2>5. code' = [code EXCEPT !["timer"] = first \o blinkers \o TimerPass \o loop]
    BY <1>1 DEF timer_task
  <2> HIDE DEF first, blinkers, loop
  <2>6. Sound(first \o blinkers \o TimerPass \o loop)
    BY <2>2, <2>4, SoundTimerPass, SoundJoin
  <2> QED
    BY <1>1, <2>5, <2>6, BeginAdvances DEF timer_task, records, Threads
<1>2. CASE RunTime
  BY <1>2, RunTimeAdvances
<1>3. CASE Countdown
  BY <1>3, CountdownAdvances
<1>4. CASE EndBlinkerTests \/ TimerLoop
  BY <1>4, BlinkerTestsAdvance
<1>5. CASE TestTimed
  BY <1>5, TestTimedAdvances
<1>6. CASE Count
  BY <1>6, CountAdvances
<1> QED
  BY <1>1, <1>2, <1>3, <1>4, <1>5, <1>6 DEF TimerStep

\* Each monitor serves the outputs of one input, and then stores the status byte.
LEMMA PollingAdvances ==
  ASSUME NEW t \in Threads, Runs(t), Polling(t)
  PROVE  Advances(t)
<1>1. \A i, now, mask : Sound(ServeInput(i, OnOff(mask, now)))
  BY SoundServeInput DEF OnOff
<1>2. \A b, S : Sound(<<Op("status", b, S)>>) /\ Sound(<<Op("status_fake", b, S)>>)
  <2> TAKE b, S
  <2>1. Op("status", b, S).op = "status" /\ Op("status_fake", b, S).op = "status_fake"
    BY DEF Op
  <2> QED
    BY <2>1, HarmlessStep DEF Harmless
<1>3. CASE \E b \in Bank : t = "inputs" /\ monitor_input_task(b)
  <2>1. PICK b \in Bank : t = "inputs" /\ monitor_input_task(b)
    BY <1>3
  <2> DEFINE mask == Mask(b, sw, inportstatus)
             serve == ServeInput(Served(b, mask), OnOff(mask, sw))
             store == <<Op("status", b, sw \cap Lines(b))>>
  <2>2. code' = [code EXCEPT ![t] = serve \o store]
    BY <2>1 DEF monitor_input_task
  <2>3. Sound(serve) /\ Sound(store)
    BY <1>1, <1>2
  <2> HIDE DEF serve, store
  <2> QED
    BY <2>1, <2>2, <2>3, SoundJoin, BeginAdvances DEF monitor_input_task, Polls, records
<1>4. CASE \E b \in Bank : t = "fake" /\ monitor_fake_input_task(b)
  <2>1. PICK b \in Bank : t = "fake" /\ monitor_fake_input_task(b)
    BY <1>4
  <2> DEFINE mask == Mask(b, fake_inportstatus2, fake_inportstatus1)
             serve == ServeInput(Served(b, mask), OnOff(mask, fake_inportstatus2))
             store == <<Op("status_fake", b, 0)>>
  <2>2. code' = [code EXCEPT ![t] = serve \o store]
    BY <2>1 DEF monitor_fake_input_task
  <2>3. Sound(serve) /\ Sound(store)
    BY <1>1, <1>2
  <2> HIDE DEF serve, store
  <2> QED
    BY <2>1, <2>2, <2>3, SoundJoin, BeginAdvances DEF monitor_fake_input_task, Polls, records
<1> QED
  BY <1>3, <1>4 DEF Polling

\* get_msg_queue and the switch over the command
LEMMA ControlsAdvance ==
  ASSUME Runs("controls"), basic_controls_task
  PROVE  Advances("controls")
<1> DEFINE sleep == <<Sleep>>
           handler == Program(Last(msg_queue))
<1>1. code' = [code EXCEPT !["controls"] = sleep \o handler]
  BY DEF basic_controls_task
<1>2. Sound(sleep) /\ Sound(handler)
  BY SoundSleep, SoundProgram
<1> HIDE DEF sleep, handler
<1> QED
  BY <1>1, <1>2, SoundJoin, BeginAdvances DEF basic_controls_task, records, Threads

\* Every step of every thread.
LEMMA RunAdvances ==
  ASSUME NEW t \in Threads, Runs(t), Run(t)
  PROVE  Advances(t)
BY StepAdvances, PollingAdvances, TimerAdvances, ControlsAdvance DEF Run

--------------------------------------------------------------------------------
(* The whole of sched *)

\* All records are off, all relays too, and every thread is at its first sleep.
LEMMA InitFits == Init => IInv
<1> SUFFICES ASSUME Init
             PROVE  IInv
  OBVIOUS
<1>1. Ownership
  BY LoadedOwnership DEF Init, Ownership
<1>2. heap \in [Chunk -> O_DATA]
  <2>1. ASSUME NEW c \in Chunk
        PROVE  (IF \E p \in Output : Loaded[p] = c
                  THEN CHOOSE p \in Output : Loaded[p] = c
                  ELSE CHOOSE p \in Output : TRUE) \in Output
    BY OutputAssumption
  <2> QED
    BY <2>1 DEF Init, O_DATA
<1>3. \A p \in Output : /\ Node(p).port = p /\ Node(p).onoff = 0
                        /\ Node(p).reset = 0 /\ Node(p).time_left = 0
  <2> TAKE p \in Output
  <2>1. Loaded[p] \in Chunk /\ \A q \in Output : Loaded[q] = Loaded[p] => q = p
    BY LoadedOwnership
  <2>2. (CHOOSE q \in Output : Loaded[q] = Loaded[p]) = p
    BY <2>1
  <2>3. Node(p) = heap[Loaded[p]]
    BY DEF Init, Node
  <2> QED
    BY <2>1, <2>2, <2>3 DEF Init
<1>4. relays = {}
  BY DEF Init
<1>5. Records
  BY <1>2, <1>3, <1>4 DEF Records, RecordsInPlace
<1>6. Globals
  <2>1. glob = [g \in Global |-> glob[g]] /\ glob["run_time"] = 0 /\ glob["lights_on_countdown"] = 0
    BY DEF Init, Global
  <2> QED
    BY <2>1, HandlerAssumption, OutputAssumption DEF Globals
<1>7. Threaded
  BY DEF Init, Threaded
<1>8. AllFit
  BY <1>3, <1>4 DEF AllFit, Fits
<1>9. \A t \in Threads : Rests(t)
  BY SoundEmpty DEF Init, Rests, Busy, Idle, Sound
<1>10. OneRuns
  <2>1. "timer" \in Threads
    BY DEF Threads
  <2>2. Outlined("timer")
    BY <1>7, <1>8, <1>9, <2>1, Riser
  <2> QED
    BY <1>9, <2>1, <2>2 DEF OneRuns
<1> QED
  BY <1>1, <1>5, <1>6, <1>7, <1>10 DEF IInv

\* A step that changes neither the list, a relay nor a thread.
LEMMA AsideKeepsIInv ==
  ASSUME IInv, UNCHANGED <<heap, list, relays, otp, code>>, Globals'
  PROVE  IInv'
<1>1. Records' /\ Ownership' /\ Threaded'
  BY RecordsSame DEF IInv, Ownership, Threaded
<1>2. \A t \in Threads : Rests(t) => Rests(t)'
  BY DEF Rests, Busy, Idle
<1>3. \A t \in Threads : Outlined(t) => Outlined(t)'
  BY KnowsSame DEF Outlined
<1> QED
  BY <1>1, <1>2, <1>3 DEF IInv, OneRuns

\* A thread that takes a step has the processor.
LEMMA RunNeedsProcessor ==
  ASSUME NEW t \in Threads, Run(t)
  PROVE  CanRun(t)
<1>1. CASE Step(t)
  BY <1>1 DEF Step, ollist_find_data, ollist_insert_data, EvalPort, WriteField, IfResetIsZero,
              set_output, change_output, change_input, ClearFakeInput, StoreFake,
              add_msg_queue, AssignGlobal, StoreStatus, Wake, Return, At
<1>2. CASE Polling(t)
  BY <1>2 DEF Polling, monitor_input_task, monitor_fake_input_task, Polls
<1>3. CASE t = "timer" /\ TimerStep
  BY <1>3 DEF TimerStep, timer_task, RunTime, Countdown, EndBlinkerTests, TestTimed, Count,
              TimerLoop, At
<1>4. CASE t = "controls" /\ basic_controls_task
  BY <1>4 DEF basic_controls_task
<1> QED
  BY <1>1, <1>2, <1>3, <1>4 DEF Run

\* No step of the threads, the host or the driver breaks it.
LEMMA NextKeepsIInv ==
  ASSUME ~Preempt, IInv, [Next]_vars
  PROVE  IInv'
<1>1. ASSUME NEW t \in Threads, Run(t)
      PROVE  IInv'
  <2>1. CanRun(t)
    BY <1>1, RunNeedsProcessor
  <2>2. Outlined(t) /\ \A u \in Threads \ {t} : Rests(u)
    BY <2>1, Runner
  <2>3. Advances(t)
    BY <1>1, <2>2, RunAdvances DEF IInv, Runs, Kept
  <2> QED
    BY <2>2, <2>3 DEF Advances, IInv, Kept, OneRuns
<1>2. CASE \E cmd \in Commands : Command(cmd)
  BY <1>2, GlobalsSame, AsideKeepsIInv DEF Command, records, IInv
<1>3. CASE ExitProgram
  <2>1. glob' = [glob EXCEPT !["shutdown_all"] = 1]
    BY <1>3 DEF ExitProgram
  <2>2. /\ glob' = [g \in Global |-> glob'[g]]
        /\ glob'["run_time"] = glob["run_time"]
        /\ glob'["lights_on_countdown"] = glob["lights_on_countdown"]
    BY <2>1 DEF IInv, Globals, Global
  <2>3. Globals'
    BY <2>2 DEF IInv, Globals
  <2> QED
    BY <1>3, <2>3, AsideKeepsIInv DEF ExitProgram, records
<1>4. CASE \E S \in SUBSET Switches : Dash(S)
  BY <1>4, GlobalsSame, AsideKeepsIInv DEF Dash, records, IInv
<1>5. CASE UNCHANGED vars
  BY <1>5, GlobalsSame, AsideKeepsIInv DEF vars, IInv
<1> QED
  BY <1>1, <1>2, <1>3, <1>4, <1>5 DEF Next

(* The inductive invariant of the four threads: while no thread is preempted *)
(* between two of its sleeps, the one that is not asleep is where the        *)
(* outline of its handler says, and the others need no more than a pointer.  *)
THEOREM OneThreadRuns ==
  ASSUME ~Preempt
  PROVE  Spec => []IInv
<1>1. Init => IInv
  BY InitFits
<1>2. IInv /\ [Next]_vars => IInv'
  BY NextKeepsIInv
<1> QED
  BY <1>1, <1>2, PTL DEF Spec

(* Every node of the list holds the record of its own output: no handler     *)
(* ever inserts a record under another output's number.                      *)
THEOREM RecordsStayInPlace ==
  ASSUME ~Preempt
  PROVE  Spec => []RecordsInPlace
<1>1. IInv => RecordsInPlace
  BY DEF IInv, Records
<1> QED
  BY <1>1, OneThreadRuns, PTL

(* An output that the E-Stop has locked is off whenever all threads sleep,   *)
(* whatever the commands, the switches and the timer have done before.       *)
THEOREM LockoutAlwaysHolds ==
  ASSUME ~Preempt
  PROVE  Spec => []LockoutHolds
<1>1. IInv => LockoutHolds
  BY QuietFits DEF LockoutHolds, AllFit, Fits, OfType
<1> QED
  BY <1>1, OneThreadRuns, PTL

(* A timed output's relay is on exactly while its record counts, in every    *)
(* configuration that keeps type 2 away from the two outputs the controls    *)
(* thread switches past set_output, as odata.csv does.                       *)
THEOREM TimedRelaysAlwaysMatch ==
  ASSUME ~Preempt, {ACCON, FUELPUMP} \cap OfType({2}) = {}
  PROVE  Spec => []TimedRelaysMatch
<1>1. IInv => TimedRelaysMatch
  BY QuietFits DEF TimedRelaysMatch, AllFit, Fits, OfType
<1> QED
  BY <1>1, OneThreadRuns, PTL

(* No field of a record and no counter leaves its range; time_left does not  *)
(* wrap, since the timer only counts a record it has just seen counting.     *)
THEOREM TypeCorrect ==
  ASSUME ~Preempt
  PROVE  Spec => []TypeOK
<1>1. IInv => TypeOK
  BY DEF IInv, Records, Globals, Threaded, Ownership, O_DATA, TypeOK
<1> QED
  BY <1>1, OneThreadRuns, PTL

--------------------------------------------------------------------------------
(* Outputs that follow a software input *)

(* The hypotheses about output p: a fan or running lights wired as in        *)
(* odata.csv, with no switch on the dash, and no timed output of the         *)
(* number of its input.                                                      *)
Driven(p) ==
  /\ p \in Output \cap Followers
  /\ odata[p].input_port = InputOf(p)
  /\ odata[p].input_port \notin Switches \cup OfType({2, 3})
  /\ odata[p].type = 0 /\ odata[p].polarity = 0

LineOf(p)    == Line(odata[p].input_port)
Asked(p)     == LineOf(p) \in fake_inportstatus2   \* what the software has asked for
Answered(p)  == LineOf(p) \in fake_inportstatus1   \* what the monitor has served
Recorded(p)  == Node(p).onoff = 1
SoftLines    == {Line(j) : j \in Number \ {ESTOP_INPUT}}

\* What p needs of the rest: nobody else uses its input, or the line of the E-Stop.
Wired(p) ==
  /\ glob.shutdown_all \in {0, 1}
  /\ glob.test_lblinkers = 0 /\ glob.test_rblinkers = 0
  /\ \E S : msg_queue \in Seq(S \ BlinkerTests)
  /\ sw \cup inportstatus \subseteq OtherLines(p)
  /\ fake_inportstatus1 \cup fake_inportstatus2 \subseteq SoftLines

\* The timer has cleared its output's line in one register, and not yet in the other.
AtSecond == ~Idle("timer") /\ (ClearsSecond(Now("timer")) \/ Now("timer").op = "store2")
Cleared  == Line(Rec("timer").port)

\* A change that waits for the monitor is the only one in its register.
Alone(p) ==
  glob.shutdown_all = 0 /\ ~(Asked(p) <=> Answered(p)) =>
    \A m \in Lines(0) \ {LineOf(p)} :
      \/ m \in fake_inportstatus1 <=> m \in fake_inportstatus2
      \/ AtSecond /\ m = Cleared

(* Step s of thread t, about to be taken with pointer o, keeps off p: the    *)
(* timer goes through its pointer only to timed records, the others only to  *)
(* records of other outputs; and what a store puts back is what was loaded.  *)
KeepsOff(p, t, s, o) ==
  /\ t # "timer" /\ s.op \notin {"find", "status_fake", "exit"} => (o \in Chunk => heap[o].port # p)
  /\ t = "timer" /\ s.op \in Early => o \notin Chunk
  /\ t = "timer" /\ s.op \in Late => o \in Chunk /\ Type(o) \in {2, 3}
  /\ t = "timer" /\ s.op = "store1" =>
       /\ Line(heap[o].port) \in Lines(s.a)
       /\ s.b = (fake_inportstatus1 \cap Lines(s.a)) \ {Line(heap[o].port)}
  /\ t = "timer" /\ s.op = "store2" =>
       /\ Line(heap[o].port) \in Lines(s.a)
       /\ s.b = (fake_inportstatus2 \cap Lines(s.a)) \ {Line(heap[o].port)}
  /\ t = "timer" /\ (ClearsSecond(s) \/ s.op = "store2") =>
       Line(heap[o].port) \notin fake_inportstatus1
  /\ t = "controls" /\ s.op = "store2" =>
       /\ s.b \subseteq SoftLines \cap Lines(s.a)
       /\ LineOf(p) \in Lines(s.a) => (LineOf(p) \in s.b <=> Asked(p))

Placed(p, t) ==
  /\ Idle(t) => otp[t] \notin Chunk
  /\ ~Idle(t) => KeepsOff(p, t, Now(t), otp[t])

\* Thread t is on an errand that has nothing to do with p, and then does z.
Goes(p, t, z) ==
  /\ Placed(p, t)
  /\ \E u : Errand(p, t, u) /\ code[t] = u \o z

--------------------------------------------------------------------------------
(* A step of such an errand *)

\* t runs, and has errand u before it.
Doing(p, t, u, z) ==
  /\ Runs(t) /\ Wired(p) /\ Alone(p)
  /\ t # "timer" => ~AtSecond
  /\ Errand(p, t, u) /\ u # <<>> /\ Head(u).op # "exit"
  /\ \E S : z \in Seq(S)
  /\ z # <<>> => Head(z).op \in {"find", "status_fake"} /\ t # "timer"
  /\ code[t] = u \o z
  /\ Placed(p, t)

\* What a step that has nothing to do with p leaves as it is.
Leaves(p) ==
  /\ Recorded(p)' <=> Recorded(p)
  /\ p \in relays' <=> p \in relays
  /\ Asked(p)' <=> Asked(p)
  /\ Answered(p)' <=> Answered(p)
  /\ glob'.shutdown_all = 0 => glob.shutdown_all = 0
  /\ \A c \in Chunk : heap[c].port # p => heap'[c].port # p

Spared(p, t, z) == Leaves(p) /\ Wired(p)' /\ Alone(p)' /\ Goes(p, t, z)'

\* The next step of the thread is the first of its errand.
LEMMA DoingNow ==
  ASSUME NEW p, NEW t \in Threads, NEW u, NEW z, Doing(p, t, u, z)
  PROVE  /\ Now(t) = Head(u) /\ ~Idle(t) /\ Spares(p, t, Now(t))
         /\ KeepsOff(p, t, Now(t), otp[t]) /\ Now(t).op # "exit"
<1>1. PICK S : z \in Seq(S)
  BY DEF Doing
<1>2. Head(u \o z) = Head(u) /\ u \o z # <<>>
  BY <1>1, AheadOf DEF Doing
<1>3. Spares(p, t, Head(u))
  BY ErrandHead DEF Doing
<1> QED
  BY <1>2, <1>3 DEF Doing, Now, Idle, Placed

\* What the thread may have in its pointer once it has taken the step.
Carries(p, t, o) ==
  /\ t # "timer" => (o \in Chunk => heap'[o].port # p)
  /\ t = "timer" /\ Now(t).op # "find" =>
       o = otp[t] /\ (o \in Chunk => heap'[o].port = heap[o].port)

\* It keeps its pointer, and the record there keeps its number.
LEMMA CarriesSame ==
  ASSUME NEW p, NEW t \in Threads, NEW u, NEW z, Doing(p, t, u, z), Now(t).op # "find",
         otp[t] \in Chunk => heap'[otp[t]].port = heap[otp[t]].port
  PROVE  Carries(p, t, otp[t])
<1>1. Spares(p, t, Now(t)) /\ KeepsOff(p, t, Now(t), otp[t]) /\ Now(t).op # "exit"
  BY DoingNow
<1>2. t # "timer" => Now(t).op # "status_fake"
  BY <1>1 DEF Spares, ErrandOps, Serves, Threads
<1> QED
  BY <1>1, <1>2 DEF Carries, KeepsOff

\* The thread goes on with ops, and with its errand.
LEMMA GoesOn ==
  ASSUME NEW p, NEW t \in Threads, NEW u, NEW z, Doing(p, t, u, z), NEW ops, NEW o,
         Continue(t, ops, o), \E S : ops \in Seq(S), Errand(p, t, ops \o Tail(u)),
         Carries(p, t, o), ops # <<>> => KeepsOff(p, t, Head(ops), o)',
         t = "timer" /\ ops = <<>> /\ ClearsFirst(Now(t)) =>
           Line(heap'[o].port) \notin fake_inportstatus1'
  PROVE  Goes(p, t, z)'
<1> DEFINE v == Tail(u)
           w == ops \o v
           x == w \o z
<1>1. PICK S, U, Z : ops \in Seq(S) /\ u \in Seq(U) /\ z \in Seq(Z)
  BY DEF Doing, Errand
<1>2. ops \o Tail(u \o z) = x
  <2>1. Errand(p, t, u) /\ u # <<>>
    BY DEF Doing
  <2>2. Before(ops, u, z)
    BY <1>1, <2>1, BeforeRest
  <2> QED
    BY <2>2 DEF Before
<1>3. code'[t] = x /\ otp'[t] = IF x = <<>> THEN NULL ELSE o
  BY <1>2 DEF Continue, Doing, Runs, Threaded
<1>4. Errand(p, t, w)
  OBVIOUS
<1>5. \E y : Errand(p, t, y) /\ code'[t] = y \o z
  BY <1>3, <1>4
<1>6. v \in Seq(U) /\ (v # <<>> => Mates(t, Now(t), Head(v)))
  <2>1. Errand(p, t, u) /\ u # <<>> /\ Now(t) = Head(u)
    BY DoingNow DEF Doing
  <2>2. Tail(u) # <<>> => Mates(t, Head(u), Head(Tail(u)))
    BY <2>1, ErrandHead
  <2>3. Tail(u) \in Seq(U)
    BY <1>1, <2>1
  <2> QED
    BY <2>1, <2>2, <2>3
<1>7. KeepsOff(p, t, Now(t), otp[t])
  BY DoingNow
<1>8. \/ ops # <<>> /\ Head(x) = Head(ops)
      \/ ops = <<>> /\ v # <<>> /\ Head(x) = Head(v)
      \/ ops = <<>> /\ v = <<>> /\ x = z
  <2>1. CASE ops # <<>>
    <3> DEFINE A == S \cup U \cup Z
    <3>1. ops \in Seq(A) /\ v \in Seq(A) /\ z \in Seq(A)
      BY <1>1, <1>6
    <3>2. Associates(ops, v, z)
      <4> HIDE DEF A, v
      <4> QED
        BY <3>1, JoinOfTwo
    <3>3. x = ops \o (v \o z)
      BY <3>2 DEF Associates
    <3>4. v \o z \in Seq(U \cup Z)
      BY <1>1, <1>6
    <3>5. Head(x) = Head(ops)
      BY <1>1, <2>1, <3>3, <3>4, HeadOfJoin
    <3> QED
      BY <2>1, <3>5
  <2>2. CASE ops = <<>> /\ v # <<>>
    <3>1. w = v
      BY <1>6, <2>2
    <3>2. Head(v \o z) = Head(v)
      BY <1>1, <1>4, <2>2, <3>1, AheadOf
    <3> QED
      BY <2>2, <3>1, <3>2
  <2>3. CASE ops = <<>> /\ v = <<>>
    <3>1. <<>> \o <<>> = <<>> /\ <<>> \o z = z
      BY <1>1
    <3>2. w = <<>>
      BY <2>3, <3>1
    <3> QED
      BY <2>3, <3>1, <3>2
  <2> QED
    BY <2>1, <2>2, <2>3
<1> HIDE DEF v, w, x
<1>9. x # <<>> => KeepsOff(p, t, Head(x), o)'
  <2>1. CASE ops # <<>> /\ Head(x) = Head(ops)
    BY <2>1
  <2>2. CASE ops = <<>> /\ v # <<>> /\ Head(x) = Head(v)
    <3>1. Mates(t, Now(t), Head(x))
      BY <1>6, <2>2
    <3>3. ClearsSecond(Head(x)) \/ Head(x).op = "store2" => t # "timer" \/ ClearsFirst(Now(t))
      BY <3>1 DEF Mates
    <3>2. t = "timer" /\ (Head(x).op \in Early \/ Head(x).op \in Late) => Now(t).op # "find"
      BY <3>1 DEF Mates, Early, Late
    <3> QED
      BY <1>7, <2>2, <3>1, <3>2, <3>3 DEF Mates, KeepsOff, Carries, Type
  <2>3. CASE x = z /\ x # <<>>
    BY <2>3 DEF Doing, KeepsOff, Early, Late, ClearsSecond
  <2> QED
    BY <1>8, <2>1, <2>2, <2>3
<1>10. x = <<>> => otp'[t] \notin Chunk
  BY <1>3, OutputAssumption
<1>11. Placed(p, t)'
  BY <1>3, <1>9, <1>10 DEF Placed, Idle, Now
<1> QED
  BY <1>5, <1>11 DEF Goes

\* Unless it is the timer between its two registers, no step clears a line.
LEMMA NotAtSecond ==
  ASSUME NEW p, NEW t \in Threads, NEW u, NEW z, Doing(p, t, u, z),
         Now(t).op \notin {"clear_fake", "store2"}
  PROVE  ~AtSecond
BY DEF Doing, AtSecond, ClearsSecond

\* Where the software inputs stay, a change that waits is still the only one.
LEMMA AloneSame ==
  ASSUME NEW p, Alone(p), ~AtSecond, UNCHANGED fakeVars,
         glob'.shutdown_all = 0 => glob.shutdown_all = 0
  PROVE  Alone(p)'
BY DEF Alone, Asked, Answered, fakeVars

\* A step that only moves on in its handler.
LEMMA MovingSpares ==
  ASSUME NEW p, Wired(p), Alone(p), ~AtSecond,
         UNCHANGED <<records, relays, inputVars, msg_queue, glob>>
  PROVE  Leaves(p) /\ Wired(p)' /\ Alone(p)'
<1>1. Alone(p)'
  BY AloneSame DEF inputVars, fakeVars
<1> QED
  BY <1>1 DEF Leaves, Wired, Recorded, Asked, Answered, Node, records, inputVars

\* The thread goes on with the next step of its errand.
LEMMA GoesStraightOn ==
  ASSUME NEW p, NEW t \in Threads, NEW u, NEW z, Doing(p, t, u, z), NEW o,
         Continue(t, <<>>, o), Carries(p, t, o), Now(t).op \notin {"clear_fake", "store1"}
  PROVE  Goes(p, t, z)'
<1>1. Errand(p, t, Tail(u)) /\ Errand(p, t, <<>>)
  BY ErrandHead, ErrandEmpty DEF Doing
<1>2. <<>> \o Tail(u) = Tail(u)
  BY <1>1 DEF Errand
<1> QED
  BY <1>1, <1>2, GoesOn DEF ClearsFirst, Errand

\* ... keeping its pointer.
LEMMA ProceedsOn ==
  ASSUME NEW p, NEW t \in Threads, NEW u, NEW z, Doing(p, t, u, z), Proceed(t, <<>>),
         Now(t).op \notin {"find", "clear_fake", "store1"},
         otp[t] \in Chunk => heap'[otp[t]].port = heap[otp[t]].port
  PROVE  Goes(p, t, z)'
BY CarriesSame, GoesStraightOn DEF Proceed

\* The thread takes the branch ops.
LEMMA BranchesThere ==
  ASSUME NEW p, NEW t \in Threads, NEW u, NEW z, Doing(p, t, u, z), NEW ops, Proceed(t, ops),
         Errand(p, t, ops), ops # <<>> => Like(t, Now(t), ops[Len(ops)]),
         Now(t).op \notin {"find", "clear_fake", "store1"}, NEW o, otp[t] = o,
         o \in Chunk => heap'[o].port = heap[o].port,
         ops # <<>> => KeepsOff(p, t, Head(ops), o)'
  PROVE  Goes(p, t, z)'
<1>1. Now(t) = Head(u) /\ Errand(p, t, u) /\ u # <<>>
  BY DoingNow DEF Doing
<1>2. Errand(p, t, ops \o Tail(u))
  BY <1>1, ErrandReplace
<1>3. Carries(p, t, o)
  BY CarriesSame
<1>4. Continue(t, ops, o)
  BY DEF Proceed
<1> QED
  BY <1>2, <1>3, <1>4, GoesOn DEF ClearsFirst, Errand

\* ... where the records stay.
LEMMA BranchesOn ==
  ASSUME NEW p, NEW t \in Threads, NEW u, NEW z, Doing(p, t, u, z), NEW ops, Proceed(t, ops),
         Errand(p, t, ops), ops # <<>> => Like(t, Now(t), ops[Len(ops)]),
         Now(t).op \notin {"find", "clear_fake", "store1"}, UNCHANGED records, NEW o, otp[t] = o,
         ops # <<>> => KeepsOff(p, t, Head(ops), o)'
  PROVE  Goes(p, t, z)'
BY BranchesThere DEF records

\* What a branch may begin with.
LEMMA KeepsOffNext ==
  ASSUME NEW p, NEW t, NEW s, s.op \notin {"clear_fake", "store1", "store2"}, NEW o,
         t # "timer" => (o \in Chunk => heap'[o].port # p),
         t = "timer" /\ s.op \in Early => o \notin Chunk,
         t = "timer" /\ s.op \in Late => o \in Chunk /\ odata[heap'[o].port].type \in {2, 3}
  PROVE  KeepsOff(p, t, s, o)'
BY DEF KeepsOff, Type, ClearsSecond

--------------------------------------------------------------------------------
(* The steps one by one *)

\* ollist_find_data, of another output or by the timer
LEMMA FindSpares ==
  ASSUME NEW p, NEW t \in Threads, NEW u, NEW z, Doing(p, t, u, z), ollist_find_data(t)
  PROVE  Spared(p, t, z)
<1>1. Now(t).op = "find" /\ UNCHANGED <<records, relays, inputVars, msg_queue, glob>>
  BY DEF ollist_find_data, At, Now
<1>2. Leaves(p) /\ Wired(p)' /\ Alone(p)'
  BY <1>1, NotAtSecond, MovingSpares DEF Doing
<1>3. Runs(t) /\ Now(t).a \in Output /\ (t # "timer" => Now(t).a # p)
  <2>1. ~Idle(t) /\ Runs(t) /\ Spares(p, t, Now(t))
    BY DoingNow DEF Doing
  <2>2. PICK x, m : Does(x, Now(t), m)
    BY <2>1, Ahead DEF Runs, Kept
  <2> QED
    BY <1>1, <2>1, <2>2 DEF Does, Harmless, Spares
<1>4. Carries(p, t, list[Now(t).a])
  <2>1. list[Now(t).a] \in Chunk /\ heap[list[Now(t).a]].port = Now(t).a
    BY <1>3 DEF Runs, Kept, Ownership, Records, RecordsInPlace, Node
  <2> QED
    BY <1>1, <1>3, <2>1 DEF Carries, records
<1>5. Continue(t, <<>>, list[Now(t).a])
  BY DEF ollist_find_data
<1> QED
  BY <1>1, <1>2, <1>4, <1>5, GoesStraightOn DEF Spared

\* ollist_insert_data, of another output
LEMMA InsertSpares ==
  ASSUME NEW p \in Output, NEW t \in Threads, NEW u, NEW z, Doing(p, t, u, z),
         ollist_insert_data(t)
  PROVE  Spared(p, t, z)
<1> DEFINE a == Now(t).a
<1>1. /\ Now(t).op = "insert" /\ Proceed(t, <<>>)
      /\ UNCHANGED <<relays, inputVars, msg_queue, glob>>
  BY DEF ollist_insert_data, At, Now
<1>2. ~Idle(t) /\ Runs(t) /\ Spares(p, t, Now(t))
  BY DoingNow DEF Doing
<1>3. PICK o \in Chunk \cup {NULL}, x \in Knowledge, m \in Knowledge :
        otp[t] = o /\ Knows(o, x) /\ Does(x, Now(t), m)
  BY <1>2, Ahead DEF Runs, Kept
<1>4. a \in Output \ {p} /\ (x = Found(a) \/ x = Inserting(a))
  BY <1>1, <1>2, <1>3 DEF Does, Harmless, Spares
<1>5. o \in Chunk /\ heap[o].port = a
  <2>1. CASE x = Found(a)
    BY <1>2, <1>3, <1>4, <2>1 DEF Knows, Found, Fact, Calm, Runs, Kept, Records,
                                      RecordsInPlace, Node
  <2>2. CASE x = Inserting(a)
    BY <1>3, <1>4, <2>2 DEF Knows, Inserting, Fact, Calm
  <2> QED
    BY <1>4, <2>1, <2>2
<1>6. PICK c \in Chunk : /\ \A q \in Output : list[q] # c
                         /\ heap' = [heap EXCEPT ![c] = heap[o]]
                         /\ list' = [list EXCEPT ![a] = c]
  BY <1>3 DEF ollist_insert_data, Rec
<1> HIDE DEF a
<1>7. /\ heap'[c] = heap[o] /\ \A d \in Chunk \ {c} : heap'[d] = heap[d]
      /\ list'[p] = list[p] /\ list[p] \in Chunk \ {c}
  BY <1>2, <1>4, <1>6 DEF Runs, Kept, Records, Ownership
<1>8. ~AtSecond
  BY <1>1, NotAtSecond
<1>9. Wired(p)' /\ Alone(p)'
  BY <1>1, <1>8, AloneSame DEF Doing, Wired, inputVars, fakeVars
<1>10. Leaves(p)
  BY <1>1, <1>4, <1>5, <1>7 DEF Leaves, Recorded, Node, Asked, Answered, inputVars
<1>11. otp[t] \in Chunk => heap'[otp[t]].port = heap[otp[t]].port
  BY <1>3, <1>7
<1> QED
  BY <1>1, <1>9, <1>10, <1>11, ProceedsOn DEF Spared

\* A poller off the list, and the timer with a timed record, are not at p's record.
LEMMA PointsElsewhere ==
  ASSUME NEW p, odata[p].type = 0, NEW t \in Threads, NEW u, NEW z, Doing(p, t, u, z),
         Now(t).op # "find", t = "timer" => Now(t).op \in Late
  PROVE  otp[t] \in Chunk => heap[otp[t]].port # p
<1>1. Spares(p, t, Now(t)) /\ KeepsOff(p, t, Now(t), otp[t]) /\ Now(t).op # "exit"
  BY DoingNow
<1>2. t # "timer" => Now(t).op # "status_fake"
  BY <1>1 DEF Spares, ErrandOps, Serves, Threads
<1> QED
  BY <1>1, <1>2 DEF KeepsOff, Type

\* ollist_insert_data(otp->port, ...)
LEMMA EvalPortSpares ==
  ASSUME NEW p, odata[p].type = 0, NEW t \in Threads, NEW u, NEW z, Doing(p, t, u, z),
         EvalPort(t)
  PROVE  Spared(p, t, z)
<1>1. /\ Now(t).op = "insert_otp" /\ Proceed(t, <<Insert(Rec(t).port)>>)
      /\ UNCHANGED <<records, relays, inputVars, msg_queue, glob>>
  BY DEF EvalPort, At, Now
<1>2. Leaves(p) /\ Wired(p)' /\ Alone(p)'
  BY <1>1, NotAtSecond, MovingSpares DEF Doing
<1>3. ~Idle(t) /\ Runs(t) /\ Spares(p, t, Now(t)) /\ KeepsOff(p, t, Now(t), otp[t])
  BY DoingNow DEF Doing
<1>4. PICK o \in Chunk \cup {NULL}, x \in Knowledge, m \in Knowledge :
        otp[t] = o /\ Knows(o, x) /\ Does(x, Now(t), m)
  BY <1>3, Ahead DEF Runs, Kept
<1>5. o \in Chunk
  BY <1>1, <1>4 DEF Does, Harmless, Ready, Fact, Knows
<1>6. Rec(t).port # p
  BY <1>1, <1>4, <1>5, PointsElsewhere DEF Rec, Late
<1>14. PICK s : s = Insert(Rec(t).port)
  OBVIOUS
<1>7. s.op = "insert" /\ s.a = Rec(t).port
  BY <1>14 DEF Insert, Op
<1> DEFINE ops == <<s>>
<1>8. Spares(p, t, s)
  BY <1>6, <1>7 DEF Spares, ErrandOps, Serves, Late, Threads
<1>9. Errand(p, t, ops)
  BY <1>7, <1>8, ErrandStep DEF ClearsFirst
<1>10. Like(t, Now(t), s)
  BY <1>1, <1>7 DEF Like, Early, Late, ClearsFirst
<1>11. KeepsOff(p, t, s, o)'
  <2>1. heap' = heap /\ heap[o].port # p
    BY <1>1, <1>4, <1>6 DEF records, Rec
  <2>2. t = "timer" => o \in Chunk /\ odata[heap[o].port].type \in {2, 3}
    BY <1>1, <1>3, <1>4 DEF KeepsOff, Late, Type
  <2>3. s.op = "insert"
    BY <1>7
  <2> QED
    BY <2>1, <2>2, <2>3, KeepsOffNext DEF Early
<1>12. ops[Len(ops)] = s /\ Head(ops) = s
  OBVIOUS
<1>13. Proceed(t, ops)
  BY <1>1, <1>14
<1> HIDE DEF ops
<1> QED
  <2>1. Now(t).op \notin {"find", "clear_fake", "store1"} /\ UNCHANGED records
    BY <1>1
  <2>2. Goes(p, t, z)'
    BY <1>4, <1>9, <1>10, <1>11, <1>12, <1>13, <2>1, BranchesOn
  <2> QED
    BY <1>2, <2>2 DEF Spared

\* otp->field = value, in a record that is not p's
LEMMA WriteSpares ==
  ASSUME NEW p \in Output, odata[p].type = 0, NEW t \in Threads, NEW u, NEW z,
         Doing(p, t, u, z), Now(t).op \notin {"find", "clear_fake", "store1", "store2"},
         t = "timer" => Now(t).op \in Late,
         NEW f \in {"onoff", "reset", "time_left"}, NEW v, Write(t, f, v), otp[t] \in Chunk
  PROVE  Spared(p, t, z)
<1>1. PICK o \in Chunk : otp[t] = o
  OBVIOUS
<1>2. PICK r : r = [heap[o] EXCEPT ![f] = v]
  OBVIOUS
<1>3. Runs(t)
  BY DEF Doing
<1>4. heap' = [heap EXCEPT ![o] = r] /\ UNCHANGED list
  BY <1>1, <1>2, <1>3, WriteLeaves
<1>5. UNCHANGED <<relays, inputVars, msg_queue, glob>> /\ Proceed(t, <<>>)
  BY DEF Write
<1>6. heap[o] \in O_DATA /\ heap[o].port # p
  BY <1>1, <1>3, PointsElsewhere DEF Runs, Kept, Records
<1>7. r.port = heap[o].port
  BY <1>2, <1>6 DEF O_DATA
<1>8. /\ heap'[o] = r /\ \A c \in Chunk \ {o} : heap'[c] = heap[c]
      /\ list[p] \in Chunk \ {o}
  BY <1>3, <1>4, <1>6 DEF Runs, Kept, Records, RecordsInPlace, Node, Ownership
<1>9. Leaves(p)
  BY <1>4, <1>5, <1>7, <1>8 DEF Leaves, Recorded, Node, Asked, Answered, inputVars
<1>10. Wired(p)' /\ Alone(p)'
  BY <1>5, NotAtSecond, AloneSame DEF Doing, Wired, inputVars, fakeVars
<1>11. otp[t] \in Chunk => heap'[otp[t]].port = heap[otp[t]].port
  BY <1>1, <1>7, <1>8
<1>12. Goes(p, t, z)'
  BY <1>5, <1>11, ProceedsOn
<1> QED
  BY <1>9, <1>10, <1>12 DEF Spared

\* ... by one of the steps of the handlers
LEMMA WriteFieldSpares ==
  ASSUME NEW p \in Output, odata[p].type = 0, NEW t \in Threads, NEW u, NEW z,
         Doing(p, t, u, z), WriteField(t)
  PROVE  Spared(p, t, z)
<1>1. ~Idle(t) /\ Runs(t) /\ Spares(p, t, Now(t)) /\ KeepsOff(p, t, Now(t), otp[t])
  BY DoingNow DEF Doing
<1>2. PICK o \in Chunk \cup {NULL}, x \in Knowledge, m \in Knowledge :
        otp[t] = o /\ Knows(o, x) /\ Does(x, Now(t), m)
  BY <1>1, Ahead DEF Runs, Kept
<1>3. Now(t).op \in {"put", "toggle", "start_timer"}
  BY DEF WriteField, At, Now
<1>4. t = "timer" => Now(t).op \in Late
  BY <1>1, <1>3 DEF Spares, ErrandOps, Early, Late
<1>5. Now(t).op = "put" => Now(t).a \in {"onoff", "reset"}
  BY <1>2 DEF Does, Harmless, Puts
<1>6. x.kind # "nothing"
  BY <1>2, <1>3 DEF Does, Harmless, Puts, Plain, Armed, Locking, Found, Off, Starting, Locked,
                    Expired, Begun, Fact
<1>7. otp[t] \in Chunk
  BY <1>2, <1>6 DEF Knows
<1>8. PICK f, v : f \in {"onoff", "reset", "time_left"} /\ Write(t, f, v)
  BY <1>5 DEF WriteField, At, Now
<1> QED
  BY <1>3, <1>4, <1>7, <1>8, WriteSpares

\* if(otp->reset == 0)
LEMMA IfResetIsZeroSpares ==
  ASSUME NEW p \in Followers, NEW t \in Threads, NEW u, NEW z, Doing(p, t, u, z),
         odata[p].type = 0, IfResetIsZero(t)
  PROVE  Spared(p, t, z)
<1>1. Now(t).op = "if_reset0" /\ UNCHANGED <<records, relays, inputVars, msg_queue, glob>>
  BY DEF IfResetIsZero, At, Now
<1>2. Leaves(p) /\ Wired(p)' /\ Alone(p)'
  BY <1>1, NotAtSecond, MovingSpares DEF Doing
<1>3. Spares(p, t, Now(t))
  BY DoingNow
<1>4. t = "controls"
  BY <1>1, <1>3 DEF Spares, ErrandOps, Serves, Early, Late, Threads
<1>5. otp[t] \in Chunk => heap[otp[t]].port # p
  BY <1>1, <1>4, PointsElsewhere
<1>6. Errand(p, t, Now(t).b)
  BY <1>1, <1>3, <1>4, BranchSpares
<1>7. PICK ops : /\ Proceed(t, ops) /\ ops \in {<<>>, Now(t).b}
  BY DEF IfResetIsZero
<1>8. Errand(p, t, ops)
  BY <1>6, <1>7, ErrandEmpty
<1>9. ops # <<>> => Head(ops).op = "out"
  <2>1. PICK q \in {ACCON, FUELPUMP}, v \in {0, 1} :
         Now(t).b \in {<<Out(q, v), Put("onoff", v)>>, <<Out(q, v), Put("onoff", v), Insert(q)>>,
                       <<Out(q, v)>>}
    BY <1>1, <1>3 DEF Spares
  <2>2. Head(Now(t).b) = Out(q, v)
    BY <2>1
  <2> QED
    BY <1>7, <2>2 DEF Out, Op
<1>10. PICK o : otp[t] = o
  OBVIOUS
<1>11. ops # <<>> => KeepsOff(p, t, Head(ops), o)'
  <2>1. heap' = heap
    BY <1>1 DEF records
  <2> QED
    BY <1>4, <1>5, <1>9, <1>10, <2>1, KeepsOffNext
<1>12. Goes(p, t, z)'
  BY <1>1, <1>4, <1>7, <1>8, <1>10, <1>11, BranchesOn DEF Like
<1> QED
  BY <1>2, <1>12 DEF Spared

\* set_output, of another output
LEMMA SetOutputSpares ==
  ASSUME NEW p, odata[p].type = 0, NEW t \in Threads, NEW u, NEW z, Doing(p, t, u, z),
         set_output(t)
  PROVE  Spared(p, t, z)
<1>1. Now(t).op = "set_output" /\ UNCHANGED <<records, relays, inputVars, msg_queue, glob>>
  BY DEF set_output, At, Now
<1>2. Leaves(p) /\ Wired(p)' /\ Alone(p)'
  BY <1>1, NotAtSecond, MovingSpares DEF Doing
<1>3. Spares(p, t, Now(t))
  BY DoingNow
<1>4. t \in Pollers
  BY <1>1, <1>3 DEF Spares, ErrandOps, Early, Late, Threads, Pollers
<1>5. t # "timer"
  BY <1>4 DEF Pollers
<1>6. otp[t] \in Chunk => heap[otp[t]].port # p
  BY <1>1, <1>5, PointsElsewhere
<1>7. PICK cfg, reset, v, ops : Proceed(t, ops) /\ ops = SetOutputBranch(cfg, reset, v)
  BY DEF set_output
<1>8. Steady(p, t, ops)
  BY <1>4, <1>7, SteadySetOutput
<1>9. Errand(p, t, ops)
  BY <1>4, <1>8, SteadyErrand
<1>10. ops # <<>> => Head(ops).op \notin {"clear_fake", "store1", "store2"}
  <2>1. PICK S : ops \in Seq(S)
    BY <1>8 DEF Steady
  <2>2. ops # <<>> => 1 \in 1..Len(ops) /\ Head(ops) = ops[1]
    BY <2>1
  <2>3. ops # <<>> => SteadyStep(p, t, Head(ops))
    BY <1>8, <2>2 DEF Steady
  <2> QED
    BY <1>4, <2>3 DEF SteadyStep, Spares, ErrandOps, Serves, Pollers
<1>11. PICK o : otp[t] = o
  OBVIOUS
<1>12. ops # <<>> => KeepsOff(p, t, Head(ops), o)'
  <2>1. heap' = heap
    BY <1>1 DEF records
  <2> QED
    BY <1>5, <1>6, <1>10, <1>11, <2>1, KeepsOffNext
<1>13. Goes(p, t, z)'
  BY <1>1, <1>5, <1>7, <1>9, <1>11, <1>12, BranchesOn DEF Like
<1> QED
  BY <1>2, <1>13 DEF Spared

\* change_output, of another output
LEMMA ChangeOutputSpares ==
  ASSUME NEW p \in Output, odata[p].type = 0, NEW t \in Threads, NEW u, NEW z,
         Doing(p, t, u, z), change_output(t)
  PROVE  Spared(p, t, z)
<1>1. ~Idle(t) /\ Runs(t) /\ Spares(p, t, Now(t))
  BY DoingNow DEF Doing
<1>2. PICK o \in Chunk \cup {NULL}, x \in Knowledge, m \in Knowledge :
        otp[t] = o /\ Knows(o, x) /\ Does(x, Now(t), m)
  BY <1>1, Ahead DEF Runs, Kept
<1>3. Now(t).op \in {"out", "out_otp", "out_onoff", "blink"}
  BY DEF change_output, At, Now
<1>4. Now(t).op # "out" => otp[t] \in Chunk /\ Rec(t).port # p
  <2>1. ASSUME Now(t).op # "out"
        PROVE  o \in Chunk
    BY <1>2, <1>3, <2>1 DEF Does, Harmless, Armed, Plain, LockOff, Counting, Fact, Knows
  <2>2. t = "timer" => Now(t).op \in Late
    BY <1>1, <1>3 DEF Spares, ErrandOps, Early, Late
  <2> QED
    BY <1>2, <1>3, <2>1, <2>2, PointsElsewhere DEF Rec
<1>5. PICK q, v : q # p /\ Relay(t, q, v)
  BY <1>1, <1>3, <1>4 DEF change_output, At, Now, Spares
<1>6. /\ relays' = (IF v = 1 THEN relays \cup {q} ELSE relays \ {q})
      /\ UNCHANGED <<records, inputVars, msg_queue, glob>> /\ Proceed(t, <<>>)
  BY <1>5 DEF Relay
<1>7. Leaves(p)
  BY <1>5, <1>6 DEF Leaves, Recorded, Node, Asked, Answered, inputVars, records
<1>8. Wired(p)' /\ Alone(p)'
  BY <1>3, <1>6, NotAtSecond, AloneSame DEF Doing, Wired, inputVars, fakeVars
<1>9. Goes(p, t, z)'
  BY <1>3, <1>6, ProceedsOn DEF records
<1> QED
  BY <1>7, <1>8, <1>9 DEF Spared

\* The input of p has a line of its own, in bank 0.
LEMMA LineOfDriven ==
  ASSUME NEW p, Driven(p)
  PROVE  /\ p \in Output /\ p \in Followers /\ p \in Number /\ odata[p].type = 0
         /\ odata[p].input_port \in Number \ {ESTOP_INPUT}
         /\ LineOf(p) \in Lines(0) /\ LineOf(p) \in SoftLines
         /\ \A j \in Number : Line(j) = LineOf(p) => j = odata[p].input_port
<1>1. p \in Output /\ p \in Followers /\ odata[p].type = 0 /\ p \in Number
  BY HandlerAssumption DEF Driven
<1> DEFINE i == odata[p].input_port
<1>2. i \in {1, 6}
  BY DEF Driven, InputOf, COOLINGFAN_INPUT, RUNNING_LIGHTS_INPUT
<1> HIDE DEF i
<1>3. i \in Number \ {ESTOP_INPUT} /\ i < 20 /\ i \in Index
  BY <1>2 DEF Number, ESTOP_INPUT, Index
<1>4. Line(i) = i
  BY <1>3, LineIs
<1>5. 8 * 0 + i = i
  BY <1>2
<1>6. Line(i) \in Lines(0)
  BY <1>3, <1>4, <1>5 DEF Lines
<1>7. LineOf(p) = Line(i)
  BY DEF LineOf, i
<1> QED
  BY <1>1, <1>3, <1>6, <1>7, LinesDiffer DEF SoftLines, i

\* A thread that has something to go on with.
LEMMA NextIs ==
  ASSUME NEW t \in Threads, Runs(t), ~Idle(t), NEW S, NEW ops \in Seq(S), ops # <<>>, NEW o,
         Continue(t, ops, o)
  PROVE  ~Idle(t)' /\ Now(t)' = Head(ops) /\ otp'[t] = o
<1>1. PICK T : Tail(code[t]) \in Seq(T)
  BY DEF Runs, Outlined, Outline, Idle
<1> DEFINE rest == ops \o Tail(code[t])
<1>2. rest # <<>> /\ Head(rest) = Head(ops)
  BY <1>1, HeadOfJoin
<1>3. code'[t] = rest /\ otp'[t] = o
  BY <1>2 DEF Continue, Runs, Threaded
<1> HIDE DEF rest
<1> QED
  BY <1>2, <1>3 DEF Idle, Now

\* The software inputs stay, and so does the one that the timer is clearing.
LEMMA AloneStays ==
  ASSUME NEW p, Alone(p), UNCHANGED fakeVars, glob'.shutdown_all = 0 => glob.shutdown_all = 0,
         AtSecond => AtSecond' /\ Cleared' = Cleared
  PROVE  Alone(p)'
BY DEF Alone, Asked, Answered, fakeVars

\* The thread loads a register, and stores it next.
LEMMA StoresNext ==
  ASSUME NEW p, NEW t \in Threads, NEW u, NEW z, Doing(p, t, u, z), NEW s, Proceed(t, <<s>>),
         UNCHANGED records, Now(t).op # "find", Spares(p, t, s), Like(t, Now(t), s),
         ClearsFirst(s) => ClearsFirst(Now(t)), NEW o, otp[t] = o, KeepsOff(p, t, s, o)'
  PROVE  Goes(p, t, z)'
<1>1. Now(t) = Head(u) /\ Errand(p, t, u) /\ u # <<>>
  BY DoingNow DEF Doing
<1>2. Errand(p, t, <<s>> \o Tail(u))
  BY <1>1, ErrandStore
<1>3. Carries(p, t, o)
  BY CarriesSame DEF records
<1>4. Continue(t, <<s>>, o)
  BY DEF Proceed
<1> DEFINE ops == <<s>>
<1>5. ops \in Seq({s}) /\ ops # <<>> /\ Head(ops) = s
  OBVIOUS
<1> HIDE DEF ops
<1>6. Continue(t, ops, o) /\ Errand(p, t, ops \o Tail(u)) /\ KeepsOff(p, t, Head(ops), o)'
  BY <1>2, <1>4, <1>5 DEF ops
<1> QED
  BY <1>3, <1>5, <1>6, GoesOn

\* change_input, of another input: the load
LEMMA ChangeInputSpares ==
  ASSUME NEW p, Driven(p), NEW t \in Threads, NEW u, NEW z, Doing(p, t, u, z), change_input(t)
  PROVE  Spared(p, t, z)
<1>1. Now(t).op = "change_input" /\ UNCHANGED <<records, relays, inputVars, msg_queue, glob>>
  BY DEF change_input, At, Now
<1>2. Leaves(p) /\ Wired(p)' /\ Alone(p)'
  BY <1>1, NotAtSecond, MovingSpares DEF Doing
<1>3. Spares(p, t, Now(t))
  BY DoingNow
<1>4. t = "controls"
  BY <1>1, <1>3 DEF Spares, ErrandOps, Serves, Early, Late, Threads
<1>5. otp[t] \in Chunk => heap[otp[t]].port # p
  BY <1>1, <1>4, LineOfDriven, PointsElsewhere
<1>6. PICK l : l = Line(Now(t).a)
  OBVIOUS
<1>7. l \in SoftLines \ {LineOf(p)}
  BY <1>1, <1>3, <1>6, LineOfDriven DEF Spares, SoftLines
<1>17. l \in Lines(l \div 8)
  BY <1>7, LineInBank DEF SoftLines
<1>8. PICK s : s = Op("store2", l \div 8,
                      LET old == fake_inportstatus2 \cap Lines(l \div 8)
                      IN  IF Now(t).b = 1 THEN old \cup {l} ELSE old \ {l})
  OBVIOUS
<1>9. /\ s.op = "store2" /\ s.a = l \div 8
      /\ s.b = (fake_inportstatus2 \cap Lines(s.a)) \cup {l}
         \/ s.b = (fake_inportstatus2 \cap Lines(s.a)) \ {l}
  BY <1>8 DEF Op
<1>10. Proceed(t, <<s>>)
  BY <1>6, <1>8 DEF change_input
<1>11. Spares(p, t, s) /\ ~ClearsFirst(s)
  BY <1>4, <1>9 DEF Spares, ErrandOps, ClearsFirst
<1>12. /\ s.b \subseteq SoftLines \cap Lines(s.a)
       /\ LineOf(p) \in Lines(s.a) => (LineOf(p) \in s.b <=> Asked(p))
  BY <1>7, <1>9, <1>17 DEF Doing, Wired, Asked
<1>13. UNCHANGED fake_inportstatus2 /\ UNCHANGED heap
  BY <1>1 DEF inputVars, records
<1>14. PICK o : otp[t] = o
  OBVIOUS
<1>15. KeepsOff(p, t, s, o)'
  BY <1>4, <1>5, <1>9, <1>12, <1>13, <1>14 DEF KeepsOff, Asked
<1>16. Like(t, Now(t), s)
  BY <1>4 DEF Like
<1> QED
  BY <1>1, <1>2, <1>10, <1>11, <1>14, <1>15, <1>16, StoresNext DEF Spared

\* timer_task clears the input of the output's own number: the load
LEMMA ClearFakeInputSpares ==
  ASSUME NEW p, NEW t \in Threads, NEW u, NEW z, Doing(p, t, u, z), ClearFakeInput(t)
  PROVE  Spared(p, t, z)
<1>1. Now(t).op = "clear_fake" /\ UNCHANGED <<records, relays, inputVars, msg_queue, glob>>
  BY DEF ClearFakeInput, At, Now
<1>2. ~Idle(t) /\ Runs(t) /\ Spares(p, t, Now(t)) /\ KeepsOff(p, t, Now(t), otp[t])
  BY DoingNow DEF Doing
<1>3. t = "timer" /\ Now(t).a \in {1, 2}
  BY <1>1, <1>2 DEF Spares, ErrandOps, Serves, Threads
<1>4. PICK o \in Chunk : otp[t] = o
  BY <1>1, <1>2, <1>3 DEF KeepsOff, Late
<1>5. PICK j : j = heap[o].port
  OBVIOUS
<1>18. PICK l : l = Line(j)
  OBVIOUS
<1>6. j \in Number
  BY <1>2, <1>5, HandlerAssumption DEF Runs, Kept, Records, O_DATA
<1>7. l \in Lines(l \div 8)
  BY <1>6, <1>18, LineInBank
<1>8. PICK s : s = IF Now(t).a = 1
                   THEN Op("store1", l \div 8, (fake_inportstatus1 \cap Lines(l \div 8)) \ {l})
                   ELSE Op("store2", l \div 8, (fake_inportstatus2 \cap Lines(l \div 8)) \ {l})
  OBVIOUS
<1>9. Proceed(t, <<s>>)
  BY <1>4, <1>5, <1>8, <1>18 DEF ClearFakeInput, Rec
<1>10. /\ s.a = l \div 8
       /\ \/ /\ s.op = "store1" /\ Now(t).a = 1
             /\ s.b = (fake_inportstatus1 \cap Lines(s.a)) \ {l}
          \/ /\ s.op = "store2" /\ Now(t).a = 2
             /\ s.b = (fake_inportstatus2 \cap Lines(s.a)) \ {l}
  BY <1>3, <1>8 DEF Op
<1>11. UNCHANGED <<heap, fake_inportstatus1, fake_inportstatus2>>
  BY <1>1 DEF inputVars, records
<1>12. KeepsOff(p, t, s, o)'
  BY <1>1, <1>2, <1>3, <1>4, <1>5, <1>7, <1>10, <1>11, <1>18
     DEF KeepsOff, Early, Late, ClearsSecond, Type
<1>13. Spares(p, t, s) /\ Like(t, Now(t), s) /\ (ClearsFirst(s) => ClearsFirst(Now(t)))
  BY <1>1, <1>3, <1>10 DEF Spares, ErrandOps, Like, ClearsFirst, Early, Late
<1>14. Goes(p, t, z)'
  BY <1>1, <1>4, <1>9, <1>12, <1>13, StoresNext
<1>15. ~Idle(t)' /\ Now(t)' = s /\ otp'[t] = o
  <2> DEFINE ops == <<s>>
  <2>1. ops \in Seq({s}) /\ ops # <<>> /\ Head(ops) = s
    OBVIOUS
  <2>2. Continue(t, ops, o)
    BY <1>4, <1>9 DEF Proceed
  <2> HIDE DEF ops
  <2> QED
    BY <1>2, <2>1, <2>2, NextIs
<1>16. Alone(p)'
  <2>1. UNCHANGED <<fakeVars, glob, heap>>
    BY <1>1 DEF inputVars, fakeVars, records
  <2>2. AtSecond => s.op = "store2"
    BY <1>1, <1>3, <1>10 DEF AtSecond, ClearsSecond
  <2>3. s.op = "store2" => AtSecond'
    BY <1>3, <1>15 DEF AtSecond
  <2>4. Cleared' = Cleared
    BY <1>3, <1>4, <1>15, <2>1 DEF Cleared, Rec
  <2> QED
    BY <2>1, <2>2, <2>3, <2>4, AloneStays DEF Doing
<1>17. Leaves(p) /\ Wired(p)'
  BY <1>1 DEF Leaves, Wired, Recorded, Asked, Answered, Node, records, inputVars, Doing
<1> QED
  BY <1>14, <1>16, <1>17 DEF Spared

\* timer_task clears the input in the first register: the store
LEMMA StoreFirstSpares ==
  ASSUME NEW p, Driven(p), NEW u, NEW z, Doing(p, "timer", u, z), Now("timer").op = "store1",
         StoreFake("timer")
  PROVE  Spared(p, "timer", z)
<1> DEFINE t == "timer"
           s == Now(t)
<1>0. t \in Threads
  BY DEF Threads
<1>1. /\ UNCHANGED <<records, relays, sw, inportstatus, fake_inportstatus2, msg_queue, glob>>
      /\ Proceed(t, <<>>) /\ fake_inportstatus1' = (fake_inportstatus1 \ Lines(s.a)) \cup s.b
  BY DEF StoreFake, At, Now
<1>2. ~Idle(t) /\ Runs(t) /\ KeepsOff(p, t, s, otp[t]) /\ s = Head(u) /\ Errand(p, t, u)
      /\ u # <<>> /\ code[t] = u \o z
  BY <1>0, DoingNow DEF Doing
<1>3. PICK o \in Chunk : otp[t] = o
  BY <1>2 DEF KeepsOff, Late
<1>4. PICK j : j = heap[o].port
  OBVIOUS
<1>5. PICK l : l = Line(j)
  OBVIOUS
<1>6. l \in Lines(s.a) /\ s.b = (fake_inportstatus1 \cap Lines(s.a)) \ {l}
      /\ odata[j].type \in {2, 3}
  BY <1>2, <1>3, <1>4, <1>5 DEF KeepsOff, Late, Type
<1>7. l # LineOf(p)
  <2>1. j \in Output /\ j \in Number
    BY <1>2, <1>3, <1>4, HandlerAssumption DEF Runs, Kept, Records, O_DATA
  <2>2. j \in OfType({2, 3})
    BY <1>6, <2>1 DEF OfType
  <2> QED
    BY <1>5, <2>1, <2>2, LineOfDriven DEF Driven
<1>8. fake_inportstatus1' = fake_inportstatus1 \ {l}
  BY <1>1, <1>6
<1>9. PICK v : v = Tail(u)
  OBVIOUS
<1>10. Errand(p, t, v) /\ v # <<>> /\ ClearsSecond(Head(v))
  BY <1>2, <1>9, ErrandHead DEF ClearsFirst, Mates
<1>11. Continue(t, <<>>, o)
  BY <1>1, <1>3 DEF Proceed
<1>12. <<>> \o Tail(u) = v /\ Errand(p, t, <<>> \o Tail(u))
  <2>1. \E S : v \in Seq(S)
    BY <1>10 DEF Errand
  <2>2. <<>> \o v = v
    BY <2>1
  <2> QED
    BY <1>9, <1>10, <2>2
<1>13. UNCHANGED <<heap, list>>
  BY <1>1 DEF records
<1>14. Goes(p, t, z)'
  <2>1. Carries(p, t, o)
    BY <1>0, <1>3, <1>13, CarriesSame
  <2>2. Line(heap'[o].port) \notin fake_inportstatus1'
    BY <1>4, <1>5, <1>8, <1>13
  <2>3. \E S : <<>> \in Seq(S)
    BY ErrandEmpty DEF Errand
  <2> QED
    BY <1>0, <1>11, <1>12, <2>1, <2>2, <2>3, GoesOn
<1>15. ~Idle(t)' /\ ClearsSecond(Now(t))' /\ otp'[t] = o
  <2>1. PICK S, T : z \in Seq(S) /\ v \in Seq(T)
    BY <1>10 DEF Doing, Errand
  <2>2. <<>> \o Tail(u \o z) = v \o z
    <3>1. PICK e : e = <<>>
      OBVIOUS
    <3>2. \E R : e \in Seq(R)
      BY <3>1, ErrandEmpty DEF Errand
    <3>3. Before(e, u, z)
      BY <1>2, <2>1, <3>2, BeforeRest
    <3> QED
      BY <1>12, <3>1, <3>3 DEF Before
  <2> DEFINE x == v \o z
  <2>3. x # <<>> /\ Head(x) = Head(v)
    BY <1>10, <2>1, HeadOfJoin
  <2>4. code'[t] = x /\ otp'[t] = o
    BY <1>0, <1>2, <1>11, <2>2, <2>3 DEF Continue, Runs, Threaded
  <2> HIDE DEF x
  <2> QED
    BY <1>10, <2>3, <2>4 DEF Idle, Now, ClearsSecond
<1>16. AtSecond' /\ Cleared' = l
  BY <1>4, <1>5, <1>13, <1>15 DEF AtSecond, Cleared, Rec, ClearsSecond
<1>17. ~AtSecond
  BY DEF AtSecond, ClearsSecond
<1>18. Leaves(p)
  BY <1>1, <1>7, <1>8 DEF Leaves, Recorded, Asked, Answered, Node, records
<1>19. Wired(p)'
  BY <1>1, <1>8 DEF Doing, Wired
<1>20. Alone(p)'
  BY <1>1, <1>7, <1>8, <1>16, <1>17 DEF Doing, Alone, Asked, Answered
<1> QED
  BY <1>14, <1>18, <1>19, <1>20 DEF Spared

\* ... and in the second
LEMMA StoreSecondSpares ==
  ASSUME NEW p, Driven(p), NEW u, NEW z, Doing(p, "timer", u, z), Now("timer").op = "store2",
         StoreFake("timer")
  PROVE  Spared(p, "timer", z)
<1> DEFINE t == "timer"
           s == Now(t)
<1>0. t \in Threads
  BY DEF Threads
<1>1. /\ UNCHANGED <<records, relays, sw, inportstatus, fake_inportstatus1, msg_queue, glob>>
      /\ Proceed(t, <<>>) /\ fake_inportstatus2' = (fake_inportstatus2 \ Lines(s.a)) \cup s.b
  BY DEF StoreFake, At, Now
<1>2. ~Idle(t) /\ Runs(t) /\ KeepsOff(p, t, s, otp[t])
  BY <1>0, DoingNow DEF Doing
<1>3. PICK o \in Chunk : otp[t] = o
  BY <1>2 DEF KeepsOff, Late
<1>4. PICK j : j = heap[o].port
  OBVIOUS
<1>5. PICK l : l = Line(j)
  OBVIOUS
<1>6. /\ l \in Lines(s.a) /\ s.b = (fake_inportstatus2 \cap Lines(s.a)) \ {l}
      /\ odata[j].type \in {2, 3} /\ l \notin fake_inportstatus1
  BY <1>2, <1>3, <1>4, <1>5 DEF KeepsOff, Late, Type
<1>7. l # LineOf(p)
  <2>1. j \in Output /\ j \in Number
    BY <1>2, <1>3, <1>4, HandlerAssumption DEF Runs, Kept, Records, O_DATA
  <2>2. j \in OfType({2, 3})
    BY <1>6, <2>1 DEF OfType
  <2> QED
    BY <1>5, <2>1, <2>2, LineOfDriven DEF Driven
<1>8. fake_inportstatus2' = fake_inportstatus2 \ {l}
  BY <1>1, <1>6
<1>9. Goes(p, t, z)'
  BY <1>0, <1>1, ProceedsOn DEF records
<1>10. Cleared = l
  BY <1>3, <1>4, <1>5 DEF Cleared, Rec
<1>11. Leaves(p)
  BY <1>1, <1>7, <1>8 DEF Leaves, Recorded, Asked, Answered, Node, records
<1>12. Wired(p)'
  BY <1>1, <1>8 DEF Doing, Wired
<1>13. Alone(p)'
  BY <1>1, <1>6, <1>7, <1>8, <1>10 DEF Doing, Alone, Asked, Answered
<1> QED
  BY <1>9, <1>11, <1>12, <1>13 DEF Spared

\* change_input, of another input: the store.  No change of p's input waits.
LEMMA StoreInputSpares ==
  ASSUME NEW p, Driven(p), NEW u, NEW z, Doing(p, "controls", u, z),
         glob.shutdown_all = 0 => (Asked(p) <=> Answered(p)), StoreFake("controls")
  PROVE  Spared(p, "controls", z)
<1> DEFINE t == "controls"
           s == Now(t)
<1>0. t \in Threads
  BY DEF Threads
<1>1. Spares(p, t, s) /\ KeepsOff(p, t, s, otp[t]) /\ Runs(t)
  BY <1>0, DoingNow DEF Doing
<1>2. s.op = "store2"
  BY <1>1 DEF StoreFake, At, Now, Spares, ErrandOps, Serves
<1>3. /\ UNCHANGED <<records, relays, sw, inportstatus, fake_inportstatus1, msg_queue, glob>>
      /\ Proceed(t, <<>>) /\ fake_inportstatus2' = (fake_inportstatus2 \ Lines(s.a)) \cup s.b
  BY <1>2 DEF StoreFake, At, Now
<1>4. /\ s.b \subseteq SoftLines \cap Lines(s.a)
      /\ LineOf(p) \in Lines(s.a) => (LineOf(p) \in s.b <=> Asked(p))
  BY <1>1, <1>2 DEF KeepsOff
<1>5. Goes(p, t, z)'
  BY <1>0, <1>2, <1>3, ProceedsOn DEF records
<1>6. Asked(p)' <=> Asked(p)
  <2>1. LineOf(p)' = LineOf(p)
    BY DEF LineOf
  <2>2. LineOf(p) \in fake_inportstatus2' <=> LineOf(p) \in fake_inportstatus2
    BY <1>3, <1>4 DEF Asked
  <2> QED
    BY <2>1, <2>2 DEF Asked
<1>7. Leaves(p)
  BY <1>3, <1>6 DEF Leaves, Recorded, Answered, Node, records
<1>8. Wired(p)'
  BY <1>3, <1>4 DEF Doing, Wired
<1>9. Alone(p)'
  BY <1>3, <1>6 DEF Alone, Answered
<1> QED
  BY <1>5, <1>7, <1>8, <1>9 DEF Spared

\* add_msg_queue, of another command than the blinker tests
LEMMA MsgSpares ==
  ASSUME NEW p, NEW t \in Threads, NEW u, NEW z, Doing(p, t, u, z), add_msg_queue(t)
  PROVE  Spared(p, t, z)
<1>1. /\ Now(t).op = "msg" /\ msg_queue' = Enqueue(Now(t).a) /\ Proceed(t, <<>>)
      /\ UNCHANGED <<records, relays, inputVars, glob>>
  BY DEF add_msg_queue, At, Now
<1>2. Spares(p, t, Now(t)) /\ Wired(p) /\ Alone(p)
  BY DoingNow DEF Doing
<1>3. PICK c : c = Now(t).a
  OBVIOUS
<1>4. \E R : msg_queue' \in Seq(R \ BlinkerTests)
  <2>1. PICK S : msg_queue \in Seq(S \ BlinkerTests)
    BY <1>2 DEF Wired
  <2>2. c \in (S \cup {c}) \ BlinkerTests
    BY <1>1, <1>2, <1>3 DEF Spares
  <2>3. msg_queue \in Seq((S \cup {c}) \ BlinkerTests)
    BY <2>1
  <2>4. msg_queue' \in {Append(msg_queue, c), msg_queue}
    BY <1>1, <1>3 DEF Enqueue
  <2>5. msg_queue' \in Seq((S \cup {c}) \ BlinkerTests)
    BY <2>2, <2>3, <2>4
  <2> QED
    BY <2>5
<1>5. Wired(p)'
  BY <1>1, <1>2, <1>4 DEF Wired, inputVars
<1>6. Alone(p)'
  BY <1>1, <1>2, NotAtSecond, AloneSame DEF inputVars, fakeVars
<1>7. Leaves(p)
  BY <1>1 DEF Leaves, Recorded, Asked, Answered, Node, records, inputVars
<1>8. Goes(p, t, z)'
  BY <1>1, ProceedsOn DEF records
<1> QED
  BY <1>5, <1>6, <1>7, <1>8 DEF Spared

\* A global is assigned.
LEMMA AssignSpares ==
  ASSUME NEW p, NEW t \in Threads, NEW u, NEW z, Doing(p, t, u, z), AssignGlobal(t)
  PROVE  Spared(p, t, z)
<1>1. /\ Now(t).op = "assign" /\ glob' = [glob EXCEPT ![Now(t).a] = Now(t).b]
      /\ Proceed(t, <<>>) /\ UNCHANGED <<records, relays, inputVars, msg_queue>>
  BY DEF AssignGlobal, At, Now
<1>2. Spares(p, t, Now(t)) /\ Wired(p) /\ Alone(p) /\ Runs(t)
  BY DoingNow DEF Doing
<1>3. PICK a, b : a = Now(t).a /\ b = Now(t).b
  OBVIOUS
<1>4. a \notin {"test_lblinkers", "test_rblinkers"} /\ (a = "shutdown_all" => b = 1)
  BY <1>1, <1>2, <1>3 DEF Spares
<1>5. glob = [g \in Global |-> glob[g]]
  BY <1>2 DEF Runs, Kept, Globals
<1>6. /\ glob'.test_lblinkers = glob.test_lblinkers /\ glob'.test_rblinkers = glob.test_rblinkers
      /\ glob'.shutdown_all \in {glob.shutdown_all, 1}
  BY <1>1, <1>3, <1>4, <1>5 DEF Global
<1>7. Wired(p)'
  BY <1>1, <1>2, <1>6 DEF Wired, inputVars
<1>8. Alone(p)'
  BY <1>1, <1>2, <1>6, NotAtSecond, AloneSame DEF inputVars, fakeVars
<1>9. Leaves(p)
  BY <1>1, <1>6 DEF Leaves, Recorded, Asked, Answered, Node, records, inputVars
<1>10. Goes(p, t, z)'
  BY <1>1, ProceedsOn DEF records
<1> QED
  BY <1>7, <1>8, <1>9, <1>10 DEF Spared

\* The monitor of the switches takes the change as served.
LEMMA StatusSpares ==
  ASSUME NEW p, NEW t \in Threads, NEW u, NEW z, Doing(p, t, u, z), StoreStatus(t)
  PROVE  Spared(p, t, z)
<1>1. Spares(p, t, Now(t)) /\ Wired(p) /\ Alone(p) /\ Runs(t)
  BY DoingNow DEF Doing
<1>2. Now(t).op = "status"
  BY <1>1 DEF StoreStatus, At, Now, Spares, ErrandOps, Serves, Early, Late, Threads
<1>3. /\ inportstatus' = (inportstatus \ Lines(Now(t).a)) \cup Now(t).b /\ Proceed(t, <<>>)
      /\ UNCHANGED <<records, relays, sw, fakeVars, msg_queue, glob>>
  BY <1>2 DEF StoreStatus, At, Now, fakeVars
<1>4. OtherLines(p)' = OtherLines(p)
  BY DEF OtherLines
<1>5. Wired(p)'
  BY <1>1, <1>2, <1>3, <1>4 DEF Wired, Spares, fakeVars
<1>6. Alone(p)'
  BY <1>1, <1>2, <1>3, NotAtSecond, AloneSame
<1>7. Leaves(p)
  BY <1>3 DEF Leaves, Recorded, Asked, Answered, Node, records, fakeVars
<1>8. Goes(p, t, z)'
  BY <1>2, <1>3, ProceedsOn DEF records
<1> QED
  BY <1>5, <1>6, <1>7, <1>8 DEF Spared

\* usleep ends.
LEMMA WakeSpares ==
  ASSUME NEW p, NEW t \in Threads, NEW u, NEW z, Doing(p, t, u, z), Wake(t)
  PROVE  Spared(p, t, z)
<1>1. /\ Now(t).op = "sleep" /\ Proceed(t, <<>>)
      /\ UNCHANGED <<records, relays, inputVars, msg_queue, glob>>
  BY DEF Wake, At, Now
<1>2. Leaves(p) /\ Wired(p)' /\ Alone(p)'
  BY <1>1, NotAtSecond, MovingSpares DEF Doing
<1>3. Goes(p, t, z)'
  BY <1>1, ProceedsOn DEF records
<1> QED
  BY <1>2, <1>3 DEF Spared

\* Whatever step of its errand the thread takes.
LEMMA StepSpares ==
  ASSUME NEW p, Driven(p), NEW t \in Threads, NEW u, NEW z, Doing(p, t, u, z),
         t = "controls" /\ glob.shutdown_all = 0 => (Asked(p) <=> Answered(p)), Step(t)
  PROVE  Spared(p, t, z)
<1>1. p \in Output /\ p \in Followers /\ odata[p].type = 0
  BY LineOfDriven
<1>2. ~Idle(t) /\ Spares(p, t, Now(t))
  BY DoingNow
<1>3. ~Return(t)
  BY <1>2 DEF Return
<1>4. CASE StoreFake(t)
  <2>1. (t = "timer" /\ Now(t).op \in {"store1", "store2"}) \/ t = "controls"
    BY <1>2, <1>4 DEF StoreFake, At, Now, Spares, ErrandOps, Serves, Threads
  <2> QED
    BY <1>4, <2>1, StoreFirstSpares, StoreSecondSpares, StoreInputSpares
<1> QED
  BY <1>1, <1>3, <1>4, FindSpares, InsertSpares, EvalPortSpares, WriteFieldSpares,
     IfResetIsZeroSpares, SetOutputSpares, ChangeOutputSpares, ChangeInputSpares,
     ClearFakeInputSpares, MsgSpares, AssignSpares, StatusSpares, WakeSpares DEF Step

\* The timer adds the commands for the lights to its errand.
LEMMA LightsGoOn ==
  ASSUME NEW p, NEW u, NEW z, Doing(p, "timer", u, z), Now("timer").op \in Early,
         NEW ops \in {<<>>, LightsOn, LightsOff}, Proceed("timer", ops), UNCHANGED records
  PROVE  Goes(p, "timer", z)'
<1> DEFINE t == "timer"
<1>0. t \in Threads /\ Now(t).op \notin {"find", "clear_fake", "store1"}
  BY DEF Threads, Early
<1>1. KeepsOff(p, t, Now(t), otp[t])
  BY <1>0, DoingNow
<1>2. PICK o : otp[t] = o
  OBVIOUS
<1>3. o \notin Chunk
  BY <1>1, <1>2 DEF KeepsOff
<1>4. Errand(p, t, ops) /\ (ops # <<>> => ops[Len(ops)].op \in Early)
  BY LightsSpare, ErrandEmpty
<1>5. ops # <<>> => Like(t, Now(t), ops[Len(ops)])
  BY <1>4 DEF Like, Early, Late, ClearsFirst
<1>6. ops # <<>> => Head(ops).op = "msg"
  BY DEF LightsOn, LightsOff, Msg, Op
<1>7. ops # <<>> => KeepsOff(p, t, Head(ops), o)'
  BY <1>3, <1>6, KeepsOffNext DEF Late
<1> QED
  BY <1>0, <1>2, <1>4, <1>5, <1>7, BranchesOn

\* The flags and counters of the timer are of no importance to p.
LEMMA CounterSpares ==
  ASSUME NEW p, NEW u, NEW z, Doing(p, "timer", u, z), Now("timer").op \in Early,
         glob'.shutdown_all = glob.shutdown_all,
         glob'.test_lblinkers = glob.test_lblinkers, glob'.test_rblinkers = glob.test_rblinkers,
         UNCHANGED <<records, relays, inputVars, msg_queue>>
  PROVE  Leaves(p) /\ Wired(p)' /\ Alone(p)'
<1>1. Wired(p) /\ Alone(p) /\ ~AtSecond
  <2>1. "timer" \in Threads
    BY DEF Threads
  <2> QED
    BY <2>1, NotAtSecond DEF Doing, Early
<1>2. Alone(p)'
  BY <1>1, AloneSame DEF inputVars, fakeVars
<1> QED
  BY <1>1, <1>2 DEF Leaves, Wired, Recorded, Asked, Answered, Node, records, inputVars

\* A second of engine time
LEMMA RunTimeSpares ==
  ASSUME NEW p, NEW u, NEW z, Doing(p, "timer", u, z), RunTime
  PROVE  Spared(p, "timer", z)
<1>1. Now("timer").op = "run_time" /\ UNCHANGED <<records, relays, inputVars, msg_queue>>
  BY DEF RunTime, At, Now
<1>2. PICK n : glob' = [glob EXCEPT !["run_time"] = n]
  BY DEF RunTime
<1>3. glob = [g \in Global |-> glob[g]]
  BY DEF Doing, Runs, Kept, Globals
<1>4. /\ glob'.shutdown_all = glob.shutdown_all /\ glob'.test_lblinkers = glob.test_lblinkers
      /\ glob'.test_rblinkers = glob.test_rblinkers
  BY <1>2, <1>3 DEF Global
<1>5. \E ops \in {<<>>, LightsOn} : Proceed("timer", ops)
  BY DEF RunTime
<1> QED
  BY <1>1, <1>4, <1>5, LightsGoOn, CounterSpares DEF Spared, Early

\* A second of the countdown
LEMMA CountdownSpares ==
  ASSUME NEW p, NEW u, NEW z, Doing(p, "timer", u, z), Countdown
  PROVE  Spared(p, "timer", z)
<1>1. Now("timer").op = "countdown" /\ UNCHANGED <<records, relays, inputVars, msg_queue>>
  BY DEF Countdown, At, Now
<1>2. PICK m, n : glob' = [[glob EXCEPT !["run_time"] = m] EXCEPT !["lights_on_countdown"] = n]
  <2>1. PICK n : n = IF glob.lights_on_countdown > 0 THEN glob.lights_on_countdown - 1 ELSE 0
    OBVIOUS
  <2>2. glob' = [glob EXCEPT !["run_time"] = 0, !["lights_on_countdown"] = n]
    BY <2>1 DEF Countdown
  <2> QED
    BY <2>2
<1>3. glob = [g \in Global |-> glob[g]]
  BY DEF Doing, Runs, Kept, Globals
<1>4. /\ glob'.shutdown_all = glob.shutdown_all /\ glob'.test_lblinkers = glob.test_lblinkers
      /\ glob'.test_rblinkers = glob.test_rblinkers
  BY <1>2, <1>3 DEF Global
<1>5. \E ops \in {<<>>, LightsOff} : Proceed("timer", ops)
  BY DEF Countdown
<1> QED
  BY <1>1, <1>4, <1>5, LightsGoOn, CounterSpares DEF Spared, Early

\* No test of the blinkers is on.
LEMMA BlinkersSpare ==
  ASSUME NEW p, NEW u, NEW z, Doing(p, "timer", u, z), EndBlinkerTests
  PROVE  Spared(p, "timer", z)
<1>0. "timer" \in Threads
  BY DEF Threads
<1>1. Now("timer").op = "blinkers" /\ UNCHANGED <<records, relays, inputVars, msg_queue, glob>>
  BY DEF EndBlinkerTests, At, Now
<1>2. Leaves(p) /\ Wired(p)' /\ Alone(p)'
  BY <1>0, <1>1, NotAtSecond, MovingSpares DEF Doing
<1>3. Proceed("timer", <<>>)
  <2>1. ~(glob.test_lblinkers > 0) /\ ~(glob.test_rblinkers > 0)
    BY DEF Doing, Wired
  <2>2. <<>> \o <<>> = <<>>
    OBVIOUS
  <2> QED
    BY <2>1, <2>2 DEF EndBlinkerTests
<1>4. Goes(p, "timer", z)'
  BY <1>0, <1>1, <1>3, ProceedsOn DEF records
<1> QED
  BY <1>2, <1>4 DEF Spared

\* if(otp->type is timed and otp->reset == 1)
LEMMA TestTimedSpares ==
  ASSUME NEW p, NEW u, NEW z, Doing(p, "timer", u, z), TestTimed
  PROVE  Spared(p, "timer", z)
<1> DEFINE t == "timer"
<1>0. t \in Threads
  BY DEF Threads
<1>1. Now(t).op = "timed" /\ UNCHANGED <<records, relays, inputVars, msg_queue, glob>>
  BY DEF TestTimed, At, Now
<1>2. Leaves(p) /\ Wired(p)' /\ Alone(p)'
  BY <1>0, <1>1, NotAtSecond, MovingSpares DEF Doing
<1>3. ~Idle(t) /\ Runs(t)
  BY <1>0, DoingNow DEF Doing
<1>4. PICK o \in Chunk \cup {NULL}, x \in Knowledge, m \in Knowledge :
        otp[t] = o /\ Knows(o, x) /\ Does(x, Now(t), m)
  BY <1>0, <1>3, Ahead DEF Runs, Kept
<1>5. o \in Chunk
  BY <1>1, <1>4 DEF Does, Harmless, Knows, Found, Fact
<1>6. PICK ops, cfg : /\ Proceed(t, ops)
                      /\ \/ ops = <<>>
                         \/ ops = TimedOutput(Now(t).a, cfg) /\ odata[heap[o].port].type \in {2, 3}
  BY <1>4 DEF TestTimed, Cfg, Rec
<1>7. CASE ops = <<>>
  BY <1>0, <1>1, <1>2, <1>6, <1>7, ProceedsOn DEF Spared, records
<1>8. CASE ops = TimedOutput(Now(t).a, cfg) /\ odata[heap[o].port].type \in {2, 3}
  <2>1. Errand(p, t, ops) /\ ops[Len(ops)].op = "count"
    BY <1>8, TimedSpares
  <2>2. Like(t, Now(t), ops[Len(ops)])
    BY <1>1, <2>1 DEF Like, Early, Late, ClearsFirst
  <2>3. Head(ops).op \in {"blink", "count"}
    BY <1>8 DEF TimedOutput, Op
  <2>4. KeepsOff(p, t, Head(ops), o)'
    BY <1>1, <1>5, <1>8, <2>3, KeepsOffNext DEF Early, records
  <2>5. Goes(p, t, z)'
    BY <1>0, <1>1, <1>4, <1>6, <2>1, <2>2, <2>4, BranchesOn
  <2> QED
    BY <1>2, <2>5 DEF Spared
<1> QED
  BY <1>6, <1>7, <1>8

\* The end of the loop
LEMMA TimerLoopSpares ==
  ASSUME NEW p, NEW u, NEW z, Doing(p, "timer", u, z), TimerLoop
  PROVE  Spared(p, "timer", z)
<1> DEFINE t == "timer"
<1>0. t \in Threads
  BY DEF Threads
<1>1. Now(t).op = "loop" /\ UNCHANGED <<records, relays, inputVars, msg_queue, glob>>
  BY DEF TimerLoop, At, Now
<1>2. Leaves(p) /\ Wired(p)' /\ Alone(p)'
  BY <1>0, <1>1, NotAtSecond, MovingSpares DEF Doing
<1>3. PICK s : s = Exit
  OBVIOUS
<1>4. s.op = "exit"
  BY <1>3 DEF Exit, Op
<1> DEFINE end == <<s>>
<1>5. PICK ops \in {<<>>, end} : Proceed(t, ops)
  BY <1>3 DEF TimerLoop
<1>6. CASE ops = <<>>
  BY <1>0, <1>1, <1>2, <1>5, <1>6, ProceedsOn DEF Spared, records
<1>7. CASE ops = end
  <2>1. Spares(p, t, s)
    BY <1>4 DEF Spares, ErrandOps
  <2>2. Errand(p, t, end)
    BY <1>4, <2>1, ErrandStep DEF ClearsFirst
  <2>3. Like(t, Now(t), s)
    BY <1>1, <1>4 DEF Like, Early, Late, ClearsFirst
  <2>4. PICK o : otp[t] = o
    OBVIOUS
  <2>5. KeepsOff(p, t, s, o)'
    BY <1>4, KeepsOffNext DEF Early, Late
  <2>6. end[Len(end)] = s /\ Head(end) = s
    OBVIOUS
  <2> HIDE DEF end
  <2>7. Goes(p, t, z)'
    BY <1>0, <1>1, <1>5, <1>7, <2>2, <2>3, <2>4, <2>5, <2>6, BranchesOn
  <2> QED
    BY <1>2, <2>7 DEF Spared
<1> QED
  BY <1>5, <1>6, <1>7

\* otp->time_left--, and the end of the time
LEMMA CountSpares ==
  ASSUME NEW p, Driven(p), NEW u, NEW z, Doing(p, "timer", u, z), Count
  PROVE  Spared(p, "timer", z)
<1> DEFINE t == "timer"
<1>0. t \in Threads
  BY DEF Threads
<1>1. Now(t).op = "count" /\ UNCHANGED <<list, relays, inputVars, msg_queue, glob>>
  BY DEF Count, At, Now
<1>2. ~Idle(t) /\ Runs(t) /\ KeepsOff(p, t, Now(t), otp[t])
  BY <1>0, DoingNow DEF Doing
<1>3. PICK o \in Chunk \cup {NULL}, x \in Knowledge, m \in Knowledge :
        otp[t] = o /\ Knows(o, x) /\ Does(x, Now(t), m)
  BY <1>0, <1>2, Ahead DEF Runs, Kept
<1>4. PICK q : q = Now(t).a
  OBVIOUS
<1>5. q \in Output /\ o = list[q] /\ o \in Chunk /\ heap[o].port = q
  <2>1. x = Counting(q)
    BY <1>1, <1>3, <1>4 DEF Does, Harmless
  <2>2. q \in Output /\ o = list[q] /\ o \in Chunk
    BY <1>3, <2>1 DEF Knows, Counting, Fact
  <2> QED
    BY <1>2, <2>2 DEF Runs, Kept, Records, RecordsInPlace, Node
<1>6. odata[q].type \in {2, 3} /\ q # p
  BY <1>1, <1>2, <1>3, <1>5, LineOfDriven DEF KeepsOff, Late, Type
<1>7. PICK left, cfg, ops :
        /\ heap' = [heap EXCEPT ![o].time_left = left]
        /\ Proceed(t, ops) /\ ops \in {<<>>, TimeIsUp(q, cfg)}
  BY <1>3, <1>4 DEF Count
<1>8. /\ heap \in [Chunk -> O_DATA] /\ p \in Output
      /\ \A c \in Output : list[c] = o => c = q
      /\ list[p] \in Chunk
  BY <1>2, <1>5, LineOfDriven DEF Runs, Kept, Records, Ownership
<1>9. /\ heap'[o].port = heap[o].port
      /\ \A c \in Chunk \ {o} : heap'[c] = heap[c]
  BY <1>5, <1>7, <1>8 DEF O_DATA
<1>10. Leaves(p)
  BY <1>1, <1>6, <1>8, <1>9 DEF Leaves, Recorded, Node, Asked, Answered, inputVars
<1>11. Wired(p)' /\ Alone(p)'
  BY <1>0, <1>1, NotAtSecond, AloneSame DEF Doing, Wired, inputVars, fakeVars
<1>12. CASE ops = <<>>
  BY <1>0, <1>1, <1>3, <1>7, <1>9, <1>10, <1>11, <1>12, ProceedsOn DEF Spared
<1>13. CASE ops = TimeIsUp(q, cfg)
  <2> DEFINE s == Op("clear_fake", 2, 0)
  <2>1. Errand(p, t, ops) /\ ops[Len(ops)] = s
    BY <1>6, <1>13, TimeIsUpSpares
  <2>2. s.op = "clear_fake" /\ s.a = 2
    BY DEF Op
  <2>3. Like(t, Now(t), ops[Len(ops)])
    BY <1>1, <2>1, <2>2 DEF Like, Early, Late, ClearsFirst
  <2>4. ops # <<>> => Head(ops).op \in {"toggle", "out"}
    <3> DEFINE head == IF cfg.type = 3 /\ cfg.time_delay % 2 = 0 THEN <<ToggleOtp>> ELSE <<>>
               rest == <<Out(q, 0), Put("onoff", 0), Put("reset", 0), InsertOtp,
                         Op("clear_fake", 1, 0), Op("clear_fake", 2, 0)>>
               S == {ToggleOtp, Out(q, 0), Put("onoff", 0), Put("reset", 0), InsertOtp,
                     Op("clear_fake", 1, 0), Op("clear_fake", 2, 0)}
    <3>1. rest \in Seq(S) /\ rest # <<>> /\ Head(rest).op = "out"
      BY DEF Out, Op
    <3>2. head \in Seq(S) /\ (head # <<>> => Head(head).op = "toggle")
      <4>1. <<ToggleOtp>> \in Seq(S) /\ Head(<<ToggleOtp>>) = ToggleOtp /\ <<>> \in Seq(S)
        OBVIOUS
      <4>2. ToggleOtp.op = "toggle"
        BY DEF ToggleOtp, Op
      <4>3. head \in {<<ToggleOtp>>, <<>>}
        OBVIOUS
      <4> HIDE DEF head, S
      <4> QED
        BY <4>1, <4>2, <4>3
    <3>3. ops = head \o rest
      BY <1>13 DEF TimeIsUp
    <3> HIDE DEF head, rest, S
    <3>4. CASE head # <<>>
      BY <3>1, <3>2, <3>3, <3>4, HeadOfJoin
    <3>5. CASE head = <<>>
      BY <3>1, <3>3, <3>5
    <3> QED
      BY <3>4, <3>5
  <2> HIDE DEF s
  <2>5. odata[heap'[o].port].type \in {2, 3}
    BY <1>5, <1>6, <1>9
  <2>6. ops # <<>> => KeepsOff(p, t, Head(ops), o)'
    BY <1>5, <2>4, <2>5, KeepsOffNext DEF Early
  <2>7. Goes(p, t, z)'
    BY <1>0, <1>1, <1>3, <1>7, <1>9, <2>1, <2>3, <2>6, BranchesThere
  <2> QED
    BY <1>10, <1>11, <2>7 DEF Spared
<1> QED
  BY <1>7, <1>12, <1>13

\* Whatever step of its errand a thread takes.
LEMMA RunSpares ==
  ASSUME NEW p, Driven(p), NEW t \in Threads, NEW u, NEW z, Doing(p, t, u, z),
         t = "controls" /\ glob.shutdown_all = 0 => (Asked(p) <=> Answered(p)), Run(t)
  PROVE  Spared(p, t, z)
<1>1. ~Idle(t)
  BY DoingNow
<1>2. ~Polling(t)
  <2>1. ASSUME NEW b \in Bank, monitor_input_task(b)
        PROVE  Idle("inputs")
    BY <2>1 DEF monitor_input_task, Polls
  <2>2. ASSUME NEW b \in Bank, monitor_fake_input_task(b)
        PROVE  Idle("fake")
    BY <2>2 DEF monitor_fake_input_task, Polls
  <2> QED
    BY <1>1, <2>1, <2>2 DEF Polling
<1>3. Step(t) \/ (t = "timer" /\ TimerStep /\ ~timer_task)
  BY <1>1, <1>2 DEF Run, timer_task, basic_controls_task
<1> QED
  BY <1>3, StepSpares, RunTimeSpares, CountdownSpares, BlinkersSpare, TestTimedSpares,
     CountSpares, TimerLoopSpares DEF TimerStep

--------------------------------------------------------------------------------
(* What a thread starts with *)

\* The body of the loop of the timer.
LEMMA TimerTaskSpares ==
  ASSUME NEW p \in Number,
         NEW a \in {<<Sleep, Op("run_time", 0, 0)>>, <<Op("countdown", 0, 0)>>}
  PROVE  LET u == a \o <<Op("blinkers", 0, 0)>> \o TimerPass \o <<Op("loop", 0, 0)>>
         IN  Errand(p, "timer", u) /\ u # <<>> /\ Head(u).op \in Early
<1> DEFINE t == "timer"
           r == Op("run_time", 0, 0)
           c == Op("countdown", 0, 0)
           b == Op("blinkers", 0, 0)
           l == Op("loop", 0, 0)
<1>1. /\ Sleep.op = "sleep" /\ r.op = "run_time" /\ c.op = "countdown" /\ b.op = "blinkers"
      /\ l.op = "loop"
  BY DEF Op, Sleep
<1> HIDE DEF r, c, b, l
<1>2. \A s \in {Sleep, r, c, b, l} : Spares(p, t, s) /\ ~ClearsFirst(s) /\ ~ClearsSecond(s)
  BY <1>1 DEF Spares, ErrandOps, Early, ClearsFirst, ClearsSecond
<1>3. \A s \in {Sleep, r, c, b, l} : Errand(p, t, <<s>>)
  BY <1>2, ErrandStep
<1>4. Mates(t, Sleep, r)
  BY <1>1 DEF Mates, Early, Late, ClearsFirst, ClearsSecond
<1>5. Errand(p, t, a) /\ a # <<>> /\ a[Len(a)] \in {r, c} /\ Head(a) \in {Sleep, c}
  <2>1. CASE a = <<c>>
    <3>1. a # <<>> /\ a[Len(a)] = c /\ Head(a) = c
      BY <2>1
    <3> QED
      BY <1>3, <2>1, <3>1
  <2>2. CASE a = <<Sleep, r>>
    <3> DEFINE x == <<r>>
               y == <<Sleep>>
    <3>1. a = y \o x /\ x # <<>> /\ x[1] = r /\ Head(x) = r /\ y[Len(y)] = Sleep
      BY <2>2
    <3>2. a # <<>> /\ a[Len(a)] = r /\ Head(a) = Sleep
      BY <2>2
    <3>3. Errand(p, t, x) /\ Errand(p, t, y)
      BY <1>3
    <3> HIDE DEF x, y
    <3>4. Errand(p, t, a)
      BY <1>4, <3>1, <3>3, ErrandJoin
    <3> QED
      BY <3>2, <3>4
  <2> QED
    BY <2>1, <2>2 DEF r, c
<1>6. PICK A : a \in Seq(A)
  BY <1>5 DEF Errand
<1> DEFINE vb == <<b>>
           vl == <<l>>
<1>7. /\ vb \in Seq({b}) /\ vb # <<>> /\ vb[1] = b /\ vb[Len(vb)] = b /\ Errand(p, t, vb)
      /\ vl \in Seq({l}) /\ vl # <<>> /\ vl[1] = l /\ vl[Len(vl)] = l /\ Errand(p, t, vl)
  BY <1>3
<1> DEFINE x == a \o vb
<1> HIDE DEF vb, vl
<1>8. Mates(t, a[Len(a)], b)
  BY <1>1, <1>5 DEF Mates, Early, Late, ClearsFirst, ClearsSecond
<1>9. Errand(p, t, x) /\ x[Len(x)] = b /\ x # <<>> /\ Head(x) = Head(a)
  BY <1>5, <1>6, <1>7, <1>8, ErrandJoin, LastOfJoin, HeadOfJoin
<1> HIDE DEF x
<1>10. PICK w : w = TimerPass
  OBVIOUS
<1>11. Rounds(p, t, w)
  BY <1>10, TimerPassSpares
<1>12. PICK W, X : w \in Seq(W) /\ x \in Seq(X)
  BY <1>9, <1>11 DEF Rounds, Errand
<1>13. w # <<>> => Mates(t, b, w[1]) /\ Mates(t, w[Len(w)], l)
  BY <1>1, <1>11 DEF Rounds, Mates, Early, Late, ClearsFirst, ClearsSecond
<1>14. Mates(t, b, l)
  BY <1>1 DEF Mates, Early, Late, ClearsFirst, ClearsSecond
<1> DEFINE y == x \o w
<1>15. Errand(p, t, y) /\ y # <<>> /\ Head(y) = Head(a)
       /\ y[Len(y)] = IF w = <<>> THEN b ELSE w[Len(w)]
  BY <1>9, <1>11, <1>12, <1>13, ErrandJoin, LastOfJoin, HeadOfJoin DEF Rounds
<1> HIDE DEF y
<1>16. PICK Y : y \in Seq(Y)
  BY <1>15 DEF Errand
<1>17. Mates(t, y[Len(y)], l)
  BY <1>13, <1>14, <1>15
<1> DEFINE z == y \o vl
<1>18. Errand(p, t, z) /\ z # <<>> /\ Head(z) = Head(a)
  BY <1>7, <1>15, <1>16, <1>17, ErrandJoin, HeadOfJoin
<1>19. Head(a).op \in Early
  BY <1>1, <1>5 DEF Early
<1> QED
  BY <1>10, <1>18, <1>19 DEF z, y, x, vb, vl, b, l

\* The task has returned.
LEMMA ExitSpares ==
  ASSUME NEW p, NEW t \in {"inputs", "controls", "timer"}
  PROVE  Errand(p, t, <<Exit>>) /\ Exit.op = "exit"
<1>1. Exit.op = "exit"
  BY DEF Exit, Op
<1>2. Spares(p, t, Exit) /\ ~ClearsFirst(Exit)
  BY <1>1 DEF Spares, ErrandOps, ClearsFirst
<1> QED
  BY <1>1, <1>2, ErrandStep

--------------------------------------------------------------------------------
(* The threads start on their errands *)

\* A thread begins with an errand, and then does z.
LEMMA GoesFresh ==
  ASSUME NEW p, NEW t, Placed(p, t), Idle(t), otp'[t] = otp[t],
         NEW u, Errand(p, t, u), NEW z, NEW x, x = u \o z, code'[t] = x, x # <<>>,
         Head(x).op \notin Late \cup {"store1", "store2", "clear_fake"}
  PROVE  Goes(p, t, z)'
<1>1. PICK o : otp[t] = o
  OBVIOUS
<1>2. o \notin Chunk /\ otp'[t] = o
  BY <1>1 DEF Placed
<1>3. KeepsOff(p, t, Head(x), o)'
  BY <1>2, KeepsOffNext
<1>4. Placed(p, t)'
  BY <1>2, <1>3 DEF Placed, Idle, Now
<1> QED
  BY <1>4 DEF Goes

\* The monitor of the switches has seen a change.
LEMMA InputsStart ==
  ASSUME NEW p, Driven(p), Threaded, Wired(p), Alone(p), ~AtSecond, Goes(p, "inputs", <<>>),
         NEW b \in Bank, monitor_input_task(b)
  PROVE  Spared(p, "inputs", <<>>)
<1> DEFINE t == "inputs"
<1>1. PICK mask : mask = Mask(b, sw, inportstatus)
  OBVIOUS
<1>2. PICK v : v = OnOff(mask, sw)
  OBVIOUS
<1>3. PICK s : s = Op("status", b, sw \cap Lines(b))
  OBVIOUS
<1>4. PICK i : i = Served(b, mask)
  OBVIOUS
<1> DEFINE w == ServeInput(i, v)
           e == <<s>>
<1>5. /\ Idle(t) /\ mask # {} /\ code' = [code EXCEPT ![t] = w \o e]
      /\ UNCHANGED <<records, otp, relays, inputVars, msg_queue, glob>>
  BY <1>1, <1>2, <1>3, <1>4 DEF monitor_input_task, Polls
<1>6. Leaves(p) /\ Wired(p)' /\ Alone(p)'
  BY <1>5, MovingSpares
<1>7. mask \in SUBSET Lines(b) /\ mask \subseteq OtherLines(p)
  BY <1>1 DEF Mask, Wired
<1>8. PICK j \in Number \ {odata[p].input_port} : Max(mask) = Line(j)
  BY <1>5, <1>7, HighestIn DEF OtherLines
<1>9. i = j
  <2>1. Line(j) \in Lines(b)
    BY <1>5, <1>7, <1>8, HighestIn
  <2> QED
    BY <1>4, <1>8, <2>1, LineTranslated DEF Served
<1>10. Rounds(p, t, w)
  BY <1>8, <1>9, LineOfDriven, ServeInputSpares
<1>11. s.op = "status" /\ s.b \subseteq OtherLines(p)
  BY <1>3 DEF Op, Wired
<1>12. Spares(p, t, s) /\ ~ClearsFirst(s) /\ (w # <<>> => Mates(t, w[Len(w)], s))
  BY <1>11 DEF Spares, ErrandOps, ClearsFirst, Mates
<1>13. Errand(p, t, e) /\ e[1] = s /\ Head(e) = s /\ e # <<>> /\ e \in Seq({s})
  BY <1>12, ErrandStep
<1> HIDE DEF w, e
<1> DEFINE x == w \o e
<1>14. Errand(p, t, x)
  BY <1>10, <1>12, <1>13, ErrandJoin DEF Rounds
<1>15. x # <<>> /\ Head(x).op \in {"find", "status"}
  <2>1. PICK W : w \in Seq(W)
    BY <1>10 DEF Rounds, Errand
  <2>2. CASE w = <<>>
    BY <1>11, <1>13, <2>2
  <2>3. CASE w # <<>>
    <3>1. Head(w).op = "find"
      BY <1>10, <2>1, <2>3 DEF Rounds
    <3> QED
      BY <1>13, <2>1, <2>3, <3>1, HeadOfJoin
  <2> QED
    BY <2>2, <2>3
<1>16. code'[t] = x /\ otp'[t] = otp[t]
  BY <1>5 DEF Threaded, Threads
<1> HIDE DEF x
<1>17. x = x \o <<>>
  BY <1>14 DEF Errand
<1>18. Placed(p, t)
  BY DEF Goes
<1>19. Goes(p, t, <<>>)'
  BY <1>5, <1>14, <1>15, <1>16, <1>17, <1>18, GoesFresh DEF Late
<1> QED
  BY <1>6, <1>19 DEF Spared

\* A second has passed.
LEMMA TimerStart ==
  ASSUME NEW p, Driven(p), Threaded, Wired(p), Alone(p), Goes(p, "timer", <<>>), timer_task
  PROVE  Spared(p, "timer", <<>>)
<1> DEFINE t == "timer"
<1>1. PICK a \in {<<Sleep, Op("run_time", 0, 0)>>, <<Op("countdown", 0, 0)>>} :
        /\ Idle(t)
        /\ code' = [code EXCEPT ![t] =
                      a \o <<Op("blinkers", 0, 0)>> \o TimerPass \o <<Op("loop", 0, 0)>>]
        /\ UNCHANGED <<records, otp, relays, inputVars, msg_queue, glob>>
  BY DEF timer_task
<1>8. PICK x : x = a \o <<Op("blinkers", 0, 0)>> \o TimerPass \o <<Op("loop", 0, 0)>>
  OBVIOUS
<1>2. Leaves(p) /\ Wired(p)' /\ Alone(p)'
  BY <1>1, MovingSpares DEF AtSecond
<1>3. Errand(p, t, x) /\ x # <<>> /\ Head(x).op \in Early
  BY <1>8, LineOfDriven, TimerTaskSpares
<1>4. x = x \o <<>>
  BY <1>3 DEF Errand
<1>5. code'[t] = x /\ otp'[t] = otp[t]
  BY <1>1, <1>8 DEF Threaded, Threads
<1>6. Placed(p, t)
  BY DEF Goes
<1>7. Goes(p, t, <<>>)'
  BY <1>1, <1>3, <1>4, <1>5, <1>6, GoesFresh DEF Early, Late
<1> QED
  BY <1>2, <1>7 DEF Spared

\* A task returns.
LEMMA ReturnSpares ==
  ASSUME NEW p, Threaded, Wired(p), Alone(p), ~AtSecond,
         NEW t \in {"inputs", "controls"}, Goes(p, t, <<>>), Return(t)
  PROVE  Spared(p, t, <<>>)
<1>1. PICK x : x = <<Exit>>
  OBVIOUS
<1>2. /\ Idle(t) /\ code' = [code EXCEPT ![t] = x]
      /\ UNCHANGED <<records, otp, relays, inputVars, msg_queue, glob>>
  BY <1>1 DEF Return
<1>3. Leaves(p) /\ Wired(p)' /\ Alone(p)'
  BY <1>2, MovingSpares
<1>4. Errand(p, t, x) /\ x # <<>> /\ Head(x).op = "exit"
  BY <1>1, ExitSpares
<1>5. x = x \o <<>>
  BY <1>4 DEF Errand
<1>6. code'[t] = x /\ otp'[t] = otp[t]
  BY <1>2 DEF Threaded, Threads
<1>7. Placed(p, t)
  BY DEF Goes
<1>8. Goes(p, t, <<>>)'
  BY <1>2, <1>4, <1>5, <1>6, <1>7, GoesFresh DEF Late
<1> QED
  BY <1>3, <1>8 DEF Spared

--------------------------------------------------------------------------------
(* The state of p, thread by thread *)

\* The controls thread turns p's input on or off (v), and then its record.
Level(p) ==
  glob.shutdown_all = 0 =>
    \A m \in Lines(0) : m \in fake_inportstatus1 <=> m \in fake_inportstatus2

Tailed(p, v) == <<Find(p), Put("onoff", v), Insert(p)>>

Loaded2(p, v, s) ==
  /\ s.op = "store2" /\ s.a = 0
  /\ \A m \in Lines(0) \ {LineOf(p)} : m \in s.b <=> m \in fake_inportstatus2
  /\ s.b \subseteq Lines(0)
  /\ LineOf(p) \in s.b <=> v = 1

DrivingTo(p, v, c, o) ==
  \/ c = <<Sleep>> \o Drive(p, v) /\ o \notin Chunk /\ (Recorded(p) <=> Asked(p))
  \/ c = Drive(p, v) /\ Level(p) /\ (Recorded(p) <=> Asked(p))
  \/ \E s : c = <<s>> \o Tailed(p, v) /\ Loaded2(p, v, s) /\ Level(p) /\ (Recorded(p) <=> Asked(p))
  \/ c = Tailed(p, v) /\ (Asked(p) <=> v = 1)
  \/ c = <<Put("onoff", v), Insert(p)>> /\ o = list[p] /\ (Asked(p) <=> v = 1)
  \/ c = <<Insert(p)>> /\ o = list[p] /\ (Recorded(p) <=> v = 1) /\ (Asked(p) <=> v = 1)

Driving(p) == \E v \in {0, 1} : DrivingTo(p, v, code["controls"], otp["controls"])

\* In the middle of a handler the controls thread has been waited for.
Waited(p) ==
  glob.shutdown_all = 0 /\ (Busy("controls") \/ otp["controls"] \in Chunk) =>
    (Asked(p) <=> Answered(p))

ControlsPart(p) ==
  \/ Goes(p, "controls", <<>>) /\ Waited(p) /\ (Recorded(p) <=> Asked(p))
  \/ Driving(p)

\* The monitor of the software inputs serves a change of p's input.
StoreOf(b) == Op("status_fake", b, 0)

ServingBy(p, v, ops) ==
  /\ otp["fake"] = list[p]
  /\ \/ /\ ops \in {<<SetOutput(v)>>, <<Put("onoff", v), OutOnoff, InsertOtp>>,
                    <<OutOnoff, InsertOtp>>}
        /\ p \in relays <=> Answered(p)
     \/ /\ ops \in {<<InsertOtp>>, <<Insert(p)>>}
        /\ p \in relays <=> Asked(p)

ServingTo(p, v, rest) ==
  \/ Goes(p, "fake", <<Find(p), SetOutput(v)>> \o rest) /\ (p \in relays <=> Answered(p))
  \/ \E ops : ServingBy(p, v, ops) /\ code["fake"] = ops \o rest

Serving(p) ==
  /\ glob.shutdown_all = 0 /\ ~(Asked(p) <=> Answered(p))
  /\ \E v, w : /\ v \in {0, 1} /\ Rounds(p, "fake", w) /\ (v = 1 <=> Asked(p))
               /\ ServingTo(p, v, w \o <<StoreOf(0)>>)

FakePart(p) ==
  \/ Goes(p, "fake", <<>>) /\ (p \in relays <=> Answered(p))
  \/ code["fake"] = <<Exit>> /\ (p \in relays <=> Answered(p))
  \/ \E b \in Bank : /\ Goes(p, "fake", <<StoreOf(b)>>)
                     /\ p \in relays <=> IF b = 0 THEN Asked(p) ELSE Answered(p)
  \/ Serving(p)

InStep(p) ==
  /\ Wired(p) /\ Alone(p)
  /\ Goes(p, "inputs", <<>>) /\ Goes(p, "timer", <<>>)
  /\ FakePart(p) /\ ControlsPart(p)

--------------------------------------------------------------------------------
(* What a thread that does not run needs of the others *)

\* Its pointer and its steps stay.
Stays(u) == code'[u] = code[u] /\ otp'[u] = otp[u]

\* The record that the controls thread holds does not become p's.
KeepsPort(p) ==
  otp["controls"] \in Chunk /\ heap[otp["controls"]].port # p =>
    heap'[otp["controls"]].port # p

\* A thread on an errand, between two sleeps or asleep.
LEMMA NowGoes ==
  ASSUME NEW p, NEW u, Goes(p, u, <<>>)
  PROVE  /\ ~Idle(u) => Spares(p, u, Now(u))
         /\ Placed(p, u) /\ Errand(p, u, code[u])
<1>1. PICK c : Errand(p, u, c) /\ code[u] = c \o <<>>
  BY DEF Goes
<1>2. code[u] = c
  BY <1>1 DEF Errand
<1> QED
  BY <1>1, <1>2, ErrandHead DEF Goes, Idle, Now

\* A thread on an errand that does not run stays on it.
LEMMA GoesStill ==
  ASSUME NEW p, NEW u \in Threads, Goes(p, u, <<>>), ~Busy(u), Stays(u),
         u = "controls" => KeepsPort(p)
  PROVE  Goes(p, u, <<>>)'
<1>1. /\ ~Idle(u) => Spares(p, u, Now(u))
      /\ Placed(p, u) /\ Errand(p, u, code[u])
  BY NowGoes
<1>2. PICK o, c, s : o = otp[u] /\ c = code[u] /\ s = Head(c)
  OBVIOUS
<1>3. otp'[u] = o /\ code'[u] = c
  BY <1>2 DEF Stays
<1>4. c = <<>> => o \notin Chunk
  BY <1>1, <1>2 DEF Placed, Idle
<1>5. c # <<>> => s.op \in {"sleep", "exit"} /\ Spares(p, u, s) /\ KeepsOff(p, u, s, o)
  BY <1>1, <1>2 DEF Placed, Idle, Now, Busy
<1>6. ASSUME c # <<>>, s.op = "sleep"
      PROVE  KeepsOff(p, u, s, o)'
  <2>1. u = "timer" \/ u = "controls"
    BY <1>5, <1>6 DEF Spares, ErrandOps, Serves, Threads
  <2>2. u = "timer" => o \notin Chunk
    BY <1>5, <1>6 DEF KeepsOff, Early
  <2>3. u = "controls" => (o \in Chunk => heap'[o].port # p)
    BY <1>2, <1>5, <1>6 DEF KeepsOff, KeepsPort
  <2> QED
    BY <1>6, <2>1, <2>2, <2>3, KeepsOffNext DEF Late
<1>7. ASSUME c # <<>>, s.op = "exit"
      PROVE  KeepsOff(p, u, s, o)'
  BY <1>7 DEF KeepsOff, Early, Late, ClearsSecond
<1>8. Placed(p, u)'
  BY <1>2, <1>3, <1>4, <1>5, <1>6, <1>7 DEF Placed, Idle, Now
<1>9. Errand(p, u, c) /\ c = c \o <<>>
  BY <1>1, <1>2 DEF Errand
<1> QED
  BY <1>3, <1>8, <1>9 DEF Goes

\* The monitor of the software inputs is busy when it has something to store.
LEMMA FakeIsBusy ==
  ASSUME NEW p, NEW S, NEW z \in Seq(S), z # <<>>, Head(z).op \notin {"sleep", "exit"},
         Goes(p, "fake", z)
  PROVE  Busy("fake")
<1>4. PICK u : Errand(p, "fake", u) /\ code["fake"] = u \o z
  BY DEF Goes
<1>5. PICK U : u \in Seq(U)
  BY <1>4 DEF Errand
<1>6. CASE u = <<>>
  <2>1. code["fake"] = z
    BY <1>4, <1>6
  <2> QED
    BY <2>1 DEF Busy, Idle
<1>7. CASE u # <<>>
  <2>1. Spares(p, "fake", Head(u))
    BY <1>4, <1>7, ErrandHead
  <2>2. code["fake"] # <<>> /\ Head(code["fake"]) = Head(u)
    BY <1>4, <1>5, <1>7, HeadOfJoin
  <2> QED
    BY <2>1, <2>2 DEF Busy, Idle, Spares, ErrandOps, Serves
<1> QED
  BY <1>6, <1>7

\* The steps that serve p's input.
LEMMA ServingOps ==
  ASSUME NEW p, NEW v
  PROVE  /\ Find(p).op = "find" /\ SetOutput(v).op = "set_output" /\ Sleep.op = "sleep"
         /\ Put("onoff", v).op = "put" /\ OutOnoff.op = "out_onoff" /\ InsertOtp.op = "insert_otp"
         /\ Insert(p).op = "insert" /\ Find(p).a = p /\ SetOutput(v).b = v
         /\ Put("onoff", v).a = "onoff" /\ Put("onoff", v).b = v /\ Insert(p).a = p
         /\ \A b : StoreOf(b).op = "status_fake" /\ StoreOf(b).a = b
BY DEF Find, SetOutput, Put, OutOnoff, InsertOtp, Insert, StoreOf, Sleep, Op

\* Between two polls, the relay is as the monitor has served it.
LEMMA FakeRests ==
  ASSUME NEW p, FakePart(p), ~Busy("fake")
  PROVE  /\ Goes(p, "fake", <<>>) \/ code["fake"] = <<Exit>>
         /\ p \in relays <=> Answered(p)
<1>1. ASSUME NEW b
      PROVE  ~Goes(p, "fake", <<StoreOf(b)>>)
  <2> DEFINE z == <<StoreOf(b)>>
  <2>1. z \in Seq({StoreOf(b)}) /\ z # <<>> /\ Head(z) = StoreOf(b)
    OBVIOUS
  <2> HIDE DEF z
  <2>2. ~Goes(p, "fake", z)
    BY <2>1, ServingOps, FakeIsBusy
  <2> QED
    BY <2>2 DEF z
<1>2. ~Serving(p)
  <2> SUFFICES ASSUME Serving(p)
               PROVE  FALSE
    OBVIOUS
  <2>1. PICK v \in {0, 1} : \E w : /\ Rounds(p, "fake", w)
                                   /\ ServingTo(p, v, w \o <<StoreOf(0)>>)
    BY DEF Serving
  <2>2. PICK w : /\ Rounds(p, "fake", w) /\ ServingTo(p, v, w \o <<StoreOf(0)>>)
    BY <2>1
  <2>3. PICK r : r = w \o <<StoreOf(0)>>
    OBVIOUS
  <2>4. PICK R : r \in Seq(R)
    <3>1. PICK W : w \in Seq(W)
      BY <2>2 DEF Rounds, Errand
    <3>2. r \in Seq(W \cup {StoreOf(0)})
      BY <2>3, <3>1
    <3> QED
      BY <3>2
  <2>5. CASE Goes(p, "fake", <<Find(p), SetOutput(v)>> \o r)
    <3> DEFINE h == <<Find(p), SetOutput(v)>>
               z == h \o r
    <3>1. h \in Seq({Find(p), SetOutput(v)}) /\ h # <<>> /\ Head(h) = Find(p)
      OBVIOUS
    <3>2. Goes(p, "fake", z)
      BY <2>5
    <3> HIDE DEF h
    <3>3. z \in Seq({Find(p), SetOutput(v)} \cup R) /\ z # <<>> /\ Head(z) = Find(p)
      BY <2>4, <3>1, HeadOfJoin
    <3> HIDE DEF z
    <3> QED
      BY <3>2, <3>3, ServingOps, FakeIsBusy
  <2>6. CASE \E ops : ServingBy(p, v, ops) /\ code["fake"] = ops \o r
    <3>1. PICK ops : ServingBy(p, v, ops) /\ code["fake"] = ops \o r
      BY <2>6
    <3>2. /\ ops # <<>> /\ Head(ops).op \notin {"sleep", "exit"} /\ \E S : ops \in Seq(S)
      <4> DEFINE a == SetOutput(v)
                 b == Put("onoff", v)
                 c == OutOnoff
                 d == InsertOtp
                 e == Insert(p)
      <4>1. \A s \in {a, b, c, d, e} : s.op \notin {"sleep", "exit"}
        BY ServingOps
      <4>2. ops \in {<<a>>, <<b, c, d>>, <<c, d>>, <<d>>, <<e>>}
        BY <3>1 DEF ServingBy
      <4> HIDE DEF a, b, c, d, e
      <4>3. ops \in Seq({a, b, c, d, e}) /\ ops # <<>> /\ Head(ops) \in {a, b, c, d, e}
        <5>1. CASE ops = <<a>>
          BY <5>1
        <5>2. CASE ops = <<b, c, d>>
          BY <5>2
        <5>3. CASE ops = <<c, d>>
          BY <5>3
        <5>4. CASE ops = <<d>>
          BY <5>4
        <5>5. CASE ops = <<e>>
          BY <5>5
        <5> QED
          BY <4>2, <5>1, <5>2, <5>3, <5>4, <5>5
      <4> QED
        BY <4>1, <4>3
    <3>3. code["fake"] # <<>> /\ Head(code["fake"]) = Head(ops)
      BY <2>4, <3>1, <3>2, HeadOfJoin
    <3> QED
      BY <3>2, <3>3 DEF Busy, Idle
  <2> QED
    BY <2>2, <2>3, <2>5, <2>6 DEF ServingTo
<1> QED
  BY <1>1, <1>2 DEF FakePart

\* ... and that is all the others need to keep.
LEMMA FakeStill ==
  ASSUME NEW p, FakePart(p), ~Busy("fake"), Stays("fake"),
         p \in relays' <=> p \in relays, Answered(p)' <=> Answered(p)
  PROVE  FakePart(p)'
<1>1. /\ Goes(p, "fake", <<>>) \/ code["fake"] = <<Exit>>
      /\ p \in relays <=> Answered(p)
  BY FakeRests
<1>2. "fake" \in Threads
  BY DEF Threads
<1>3. Goes(p, "fake", <<>>) => Goes(p, "fake", <<>>)'
  BY <1>2, GoesStill
<1>4. code["fake"] = <<Exit>> => code'["fake"] = <<Exit>>
  BY DEF Stays
<1> QED
  BY <1>1, <1>3, <1>4 DEF FakePart

\* The controls thread is between two sleeps, but for the first steps of a handler.
LEMMA ControlsRests ==
  ASSUME NEW p, Driving(p), ~Busy("controls")
  PROVE  \E v \in {0, 1} : /\ code["controls"] = <<Sleep>> \o Drive(p, v)
                           /\ otp["controls"] \notin Chunk /\ (Recorded(p) <=> Asked(p))
<1>1. PICK v \in {0, 1} : DrivingTo(p, v, code["controls"], otp["controls"])
  BY DEF Driving
<1> DEFINE i == Input(odata[p].input_port, v)
           f == Find(p)
           q == Put("onoff", v)
           n == Insert(p)
<1>2. PICK c : c = code["controls"]
  OBVIOUS
<1>3. i.op = "change_input" /\ f.op = "find" /\ q.op = "put" /\ n.op = "insert"
  BY ServingOps DEF Input, Op
<1>4. c = <<>> \/ Head(c).op \in {"sleep", "exit"}
  BY <1>2 DEF Busy, Idle
<1> HIDE DEF i, f, q, n
<1>5. /\ Head(<<i, f, q, n>>) = i /\ Head(<<f, q, n>>) = f /\ Head(<<q, n>>) = q
      /\ Head(<<n>>) = n
  OBVIOUS
<1>6. c # <<i, f, q, n>> /\ c # <<f, q, n>> /\ c # <<q, n>> /\ c # <<n>>
  BY <1>3, <1>4, <1>5
<1>7. ASSUME NEW s, c = <<s>> \o <<f, q, n>>, Loaded2(p, v, s)
      PROVE  FALSE
  <2> DEFINE h == <<s>>
             x == <<f, q, n>>
  <2>1. h \in Seq({s}) /\ h # <<>> /\ Head(h) = s /\ x \in Seq({f, q, n})
    OBVIOUS
  <2>2. c = h \o x
    BY <1>7
  <2> HIDE DEF h, x
  <2>3. c # <<>> /\ Head(c) = s
    BY <2>1, <2>2, HeadOfJoin
  <2> QED
    BY <1>4, <1>7, <2>3 DEF Loaded2
<1>8. DrivingTo(p, v, c, otp["controls"])
  BY <1>1, <1>2
<1> QED
  BY <1>2, <1>6, <1>7, <1>8 DEF DrivingTo, Tailed, Drive, i, f, q, n

\* The controls thread, while another thread runs.
LEMMA ControlsStill ==
  ASSUME NEW p, ControlsPart(p), ~Busy("controls"), Stays("controls"), KeepsPort(p),
         Recorded(p)' <=> Recorded(p), Asked(p)' <=> Asked(p),
         (Answered(p)' <=> Answered(p)) \/ (Answered(p)' <=> Asked(p)),
         glob'.shutdown_all = 0 => glob.shutdown_all = 0
  PROVE  ControlsPart(p)'
<1>1. CASE Goes(p, "controls", <<>>) /\ Waited(p) /\ (Recorded(p) <=> Asked(p))
  <2>1. Goes(p, "controls", <<>>)'
    BY <1>1, GoesStill DEF Threads
  <2>2. Waited(p)'
    BY <1>1 DEF Waited, Busy, Idle, Stays
  <2> QED
    BY <1>1, <2>1, <2>2 DEF ControlsPart
<1>2. CASE Driving(p)
  <2>1. PICK v \in {0, 1} : /\ code["controls"] = <<Sleep>> \o Drive(p, v)
                            /\ otp["controls"] \notin Chunk /\ (Recorded(p) <=> Asked(p))
    BY <1>2, ControlsRests
  <2>2. PICK c, o : c = code["controls"] /\ o = otp["controls"]
    OBVIOUS
  <2>3. c = <<Sleep>> \o Drive(p, v) /\ o \notin Chunk /\ (Recorded(p) <=> Asked(p))'
    BY <2>1, <2>2
  <2>4. DrivingTo(p, v, c, o)'
    BY <2>3 DEF DrivingTo
  <2>5. code'["controls"] = c /\ otp'["controls"] = o
    BY <2>2 DEF Stays
  <2> QED
    BY <2>4, <2>5 DEF Driving, ControlsPart
<1> QED
  BY <1>1, <1>2 DEF ControlsPart

--------------------------------------------------------------------------------
(* Which step a thread takes, and what it leaves of the others *)

\* Nobody touches the pointer or the steps of another thread.
LEMMA OthersStay ==
  ASSUME Threaded, NEW t \in Threads, Run(t), NEW u \in Threads \ {t}
  PROVE  Stays(u)
<1>1. ASSUME NEW ops, NEW o, Continue(t, ops, o)
      PROVE  Stays(u)
  BY <1>1 DEF Continue, Stays, Threaded
<1>2. ASSUME NEW ops, Proceed(t, ops)
      PROVE  Stays(u)
  BY <1>1, <1>2 DEF Proceed
<1>3. ASSUME NEW x, code' = [code EXCEPT ![t] = x], UNCHANGED otp
      PROVE  Stays(u)
  BY <1>3 DEF Stays, Threaded
<1>4. CASE Step(t)
  <2>1. CASE ollist_find_data(t)
    BY <1>1, <2>1 DEF ollist_find_data
  <2>2. CASE ollist_insert_data(t)
    BY <1>2, <2>2 DEF ollist_insert_data
  <2>3. CASE WriteField(t)
    BY <1>2, <2>3 DEF WriteField, Write
  <2>4. CASE EvalPort(t) \/ IfResetIsZero(t) \/ set_output(t)
    BY <1>2, <2>4 DEF EvalPort, IfResetIsZero, set_output
  <2>5. CASE change_output(t)
    BY <1>2, <2>5 DEF change_output, Relay
  <2>6. CASE change_input(t)
    BY <1>2, <2>6 DEF change_input
  <2>7. CASE ClearFakeInput(t)
    BY <1>2, <2>7 DEF ClearFakeInput
  <2>8. CASE StoreFake(t) \/ add_msg_queue(t) \/ AssignGlobal(t) \/ StoreStatus(t) \/ Wake(t)
    BY <1>2, <2>8 DEF StoreFake, add_msg_queue, AssignGlobal, StoreStatus, Wake
  <2>9. CASE Return(t)
    BY <1>3, <2>9 DEF Return
  <2> QED
    BY <1>4, <2>1, <2>2, <2>3, <2>4, <2>5, <2>6, <2>7, <2>8, <2>9 DEF Step
<1>5. CASE Polling(t)
  BY <1>3, <1>5 DEF Polling, monitor_input_task, monitor_fake_input_task
<1>6. CASE t = "timer" /\ TimerStep
  BY <1>2, <1>3, <1>6 DEF TimerStep, timer_task, RunTime, Countdown, EndBlinkerTests, TestTimed,
                          Count, TimerLoop
<1>7. CASE t = "controls" /\ basic_controls_task
  BY <1>3, <1>7 DEF basic_controls_task
<1> QED
  BY <1>4, <1>5, <1>6, <1>7 DEF Run

\* Between two sleeps, the first of its steps says what the thread does.
LEMMA StepIs ==
  ASSUME NEW t \in Threads, ~Idle(t), Run(t)
  PROVE  /\ Now(t).op # "exit"
         /\ t # "timer" => Step(t)
         /\ t # "timer" /\ Now(t).op = "sleep" => Wake(t)
         /\ t # "timer" /\ Now(t).op = "find" => ollist_find_data(t)
         /\ t # "timer" /\ Now(t).op = "insert" => ollist_insert_data(t)
         /\ t # "timer" /\ Now(t).op = "insert_otp" => EvalPort(t)
         /\ t # "timer" /\ Now(t).op = "put" => WriteField(t)
         /\ t # "timer" /\ Now(t).op = "set_output" => set_output(t)
         /\ t # "timer" /\ Now(t).op = "out_onoff" => change_output(t)
         /\ t # "timer" /\ Now(t).op = "change_input" => change_input(t)
         /\ t # "timer" /\ Now(t).op = "store2" => StoreFake(t)
         /\ t # "timer" /\ Now(t).op = "status_fake" => StoreStatus(t)
<1>1. ~Polling(t)
  <2>1. ASSUME NEW b \in Bank, monitor_input_task(b)
        PROVE  Idle("inputs")
    BY <2>1 DEF monitor_input_task, Polls
  <2>2. ASSUME NEW b \in Bank, monitor_fake_input_task(b)
        PROVE  Idle("fake")
    BY <2>2 DEF monitor_fake_input_task, Polls
  <2> QED
    BY <2>1, <2>2 DEF Polling
<1>2. Step(t) \/ (t = "timer" /\ TimerStep /\ ~timer_task)
  BY <1>1 DEF Run, timer_task, basic_controls_task
<1>3. /\ ollist_find_data(t) => Now(t).op = "find"
      /\ ollist_insert_data(t) => Now(t).op = "insert"
      /\ EvalPort(t) => Now(t).op = "insert_otp"
      /\ WriteField(t) => Now(t).op \in {"put", "toggle", "start_timer"}
      /\ IfResetIsZero(t) => Now(t).op = "if_reset0"
      /\ set_output(t) => Now(t).op = "set_output"
      /\ change_output(t) => Now(t).op \in {"out", "out_otp", "out_onoff", "blink"}
      /\ change_input(t) => Now(t).op = "change_input"
  BY DEF ollist_find_data, ollist_insert_data, EvalPort, WriteField, IfResetIsZero, set_output,
         change_output, change_input, At, Now
<1>4. /\ ClearFakeInput(t) => Now(t).op = "clear_fake"
      /\ StoreFake(t) => Now(t).op \in {"store1", "store2"}
      /\ add_msg_queue(t) => Now(t).op = "msg"
      /\ AssignGlobal(t) => Now(t).op = "assign"
      /\ StoreStatus(t) => Now(t).op \in {"status", "status_fake"}
      /\ Wake(t) => Now(t).op = "sleep"
      /\ ~Return(t)
  BY DEF ClearFakeInput, StoreFake, add_msg_queue, AssignGlobal, StoreStatus, Wake, Return, At, Now
<1>5. CASE t # "timer"
  <2>1. Step(t)
    BY <1>2, <1>5
  <2> QED
    BY <1>3, <1>4, <1>5, <2>1 DEF Step
<1>6. CASE t = "timer"
  <2>1. TimerStep /\ ~timer_task => Now(t).op # "exit"
    BY <1>6 DEF TimerStep, RunTime, Countdown, EndBlinkerTests, TestTimed, Count, TimerLoop, At, Now
  <2> QED
    BY <1>2, <1>3, <1>4, <1>6, <2>1 DEF Step
<1> QED
  BY <1>5, <1>6

\* The step a thread is at.
LEMMA GoesNow ==
  ASSUME NEW t \in Threads, NEW U, NEW u \in Seq(U), u # <<>>, NEW Z, NEW z \in Seq(Z),
         code[t] = u \o z
  PROVE  ~Idle(t) /\ Now(t) = Head(u)
BY HeadOfJoin DEF Idle, Now

\* Where the monitors have nothing to serve, the software inputs are level.
LEMMA SettledLevel ==
  ASSUME NEW p, Wired(p), Settled
  PROVE  \A m \in Lines(0) : m \in fake_inportstatus1 <=> m \in fake_inportstatus2
<1> DEFINE mask == Mask(0, fake_inportstatus2, fake_inportstatus1)
<1>1. mask = {} \/ BadMask(mask)
  BY DEF Settled, Bank
<1>2. mask \subseteq Lines(0) \cap SoftLines
  BY DEF Mask, Wired
<1>3. ~BadMask(mask)
  <2> SUFFICES ASSUME NEW l \in mask, l % 8 = 7
               PROVE  FALSE
    BY DEF BadMask
  <2>1. PICK k \in 0..7 : l = 8 * 0 + k
    BY <1>2 DEF Lines, Index
  <2>2. l = 7
    BY <2>1
  <2>3. PICK j \in Number \ {ESTOP_INPUT} : l = Line(j)
    BY <1>2 DEF SoftLines
  <2>4. j \in 0..39 /\ j # 7 /\ Line(j) = IF j < 20 THEN j ELSE j + 4
    BY <2>3, LineIs DEF Number, ESTOP_INPUT
  <2> QED
    BY <2>2, <2>3, <2>4
<1>4. mask = {}
  BY <1>1, <1>3
<1> QED
  BY <1>4 DEF Mask

\* A long sleep ends when the monitors have served everything.
LEMMA WakeLevel ==
  ASSUME Timely, NEW p, Wired(p), Wake("controls")
  PROVE  Level(p)
BY SettledLevel DEF Wake, LongSleepEnds, Level

--------------------------------------------------------------------------------
(* The controls thread *)

\* What a step of the controls thread does for p.
Controlled(p) ==
  /\ Wired(p)' /\ Alone(p)' /\ ControlsPart(p)'
  /\ p \in relays' <=> p \in relays
  /\ Answered(p)' <=> Answered(p)

\* ... on an errand that has nothing to do with p
LEMMA ControlsErrand ==
  ASSUME Timely, NEW p, Driven(p), Runs("controls"), Wired(p), Alone(p), ~AtSecond,
         Goes(p, "controls", <<>>), Waited(p), Recorded(p) <=> Asked(p),
         ~Idle("controls"), Run("controls")
  PROVE  Controlled(p)
<1> DEFINE t == "controls"
<1>0. t \in Threads
  BY DEF Threads
<1>1. Placed(p, t) /\ Errand(p, t, code[t]) /\ Spares(p, t, Now(t))
  BY NowGoes
<1>2. glob.shutdown_all = 0 => (Asked(p) <=> Answered(p))
  <2>1. CASE Busy(t)
    BY <2>1 DEF Waited
  <2>2. CASE ~Busy(t)
    <3>1. Wake(t)
      BY <1>0, <2>2, StepIs DEF Busy, Now
    <3>2. Level(p) /\ LineOf(p) \in Lines(0)
      BY <3>1, WakeLevel, LineOfDriven
    <3> QED
      BY <3>2 DEF Level, Asked, Answered
  <2> QED
    BY <2>1, <2>2
<1>3. PICK u : u = code[t]
  OBVIOUS
<1>4. Doing(p, t, u, <<>>)
  <2>1. u # <<>> /\ Head(u).op # "exit" /\ code[t] = u
    BY <1>0, <1>3, StepIs DEF Idle, Now
  <2>2. code[t] = u \o <<>> /\ Errand(p, t, u)
    BY <1>1, <1>3 DEF Errand
  <2>3. \E S : <<>> \in Seq(S)
    BY ErrandEmpty DEF Errand
  <2> QED
    BY <1>1, <2>1, <2>2, <2>3 DEF Doing
<1>5. Leaves(p) /\ Wired(p)' /\ Alone(p)' /\ Goes(p, t, <<>>)'
  BY <1>0, <1>2, <1>4, RunSpares DEF Spared
<1>6. Waited(p)' /\ (Recorded(p)' <=> Asked(p)')
  BY <1>2, <1>5 DEF Waited, Leaves
<1> QED
  BY <1>5, <1>6 DEF Controlled, ControlsPart, Leaves

\* What is left of a sequence without its last element.
LEMMA FrontShorter ==
  ASSUME NEW S, NEW s \in Seq(S), s # <<>>
  PROVE  Front(s) \in Seq(S) /\ Len(Front(s)) = Len(s) - 1
<1> DEFINE m == 1
           n == Len(s) - 1
           f == SubSeq(s, m, n)
<1>1. Len(s) \in Nat /\ Len(s) > 0
  OBVIOUS
<1>2. m \in Int /\ n \in Int /\ n >= 0
  BY <1>1
<1>3. \A i \in m..n : s[i] \in S
  BY <1>1
<1>4. Front(s) = f
  BY DEF Front
<1> HIDE DEF m, n
<1>5. f \in Seq(S) /\ Len(f) = IF m <= n THEN n - m + 1 ELSE 0
  BY <1>2, <1>3, SubSeqProperties
<1>6. Len(f) = n
  BY <1>2, <1>5 DEF m
<1> QED
  BY <1>4, <1>5, <1>6 DEF n

\* It has fetched a command.
LEMMA ControlsBegin ==
  ASSUME NEW p, Driven(p), Threaded, Wired(p), Alone(p), ~AtSecond,
         Goes(p, "controls", <<>>), Recorded(p) <=> Asked(p), basic_controls_task
  PROVE  Controlled(p)
<1> DEFINE t == "controls"
<1>1. PICK cmd : cmd = Last(msg_queue)
  OBVIOUS
<1>2. PICK x : x = <<Sleep>> \o Program(cmd)
  OBVIOUS
<1>3. /\ Idle(t) /\ msg_queue # <<>> /\ code' = [code EXCEPT ![t] = x]
      /\ msg_queue' = Front(msg_queue) /\ UNCHANGED <<records, otp, relays, inputVars, glob>>
  BY <1>1, <1>2 DEF basic_controls_task
<1>4. PICK S : msg_queue \in Seq(S \ BlinkerTests)
  BY DEF Wired
<1>5. cmd \notin BlinkerTests
  <2>1. Len(msg_queue) \in 1..Len(msg_queue)
    BY <1>3, <1>4
  <2>2. cmd = msg_queue[Len(msg_queue)]
    BY <1>1 DEF Last
  <2> QED
    BY <1>4, <2>1, <2>2
<1>6. msg_queue' \in Seq(S \ BlinkerTests)
  BY <1>3, <1>4, FrontShorter
<1>7. Wired(p)'
  BY <1>3, <1>6 DEF Wired, inputVars
<1>8. Alone(p)' /\ (Recorded(p)' <=> Asked(p)') /\ (Answered(p)' <=> Answered(p))
      /\ (p \in relays' <=> p \in relays)
  BY <1>3, AloneSame DEF inputVars, fakeVars, records, Recorded, Node, Asked, Answered
<1>9. code'[t] = x /\ otp'[t] = otp[t] /\ otp[t] \notin Chunk
  BY <1>3 DEF Threaded, Threads, Goes, Placed
<1>10. PICK y : y = Program(cmd)
  OBVIOUS
<1>11. Commanded(p, y) \/ \E v \in {0, 1} : y = Drive(p, v)
  BY <1>5, <1>10, ProgramSpares DEF Driven
<1>12. CASE Commanded(p, y)
  <2>1. Steady(p, t, <<Sleep>>)
    BY SteadyTuples, SteadyControls
  <2>2. Steady(p, t, x)
    BY <1>2, <1>10, <1>12, <2>1, SteadyJoin DEF Commanded
  <2>3. Errand(p, t, x)
    BY <2>2, SteadyErrand DEF Pollers
  <2>4. x # <<>> /\ Head(x) = Sleep
    <3> DEFINE h == <<Sleep>>
    <3>1. h \in Seq({Sleep}) /\ h # <<>> /\ Head(h) = Sleep
      OBVIOUS
    <3>2. x = h \o y
      BY <1>2, <1>10
    <3>3. \E Y : y \in Seq(Y)
      BY <1>12 DEF Commanded, Steady
    <3> HIDE DEF h
    <3> QED
      BY <3>1, <3>2, <3>3, HeadOfJoin
  <2>5. x = x \o <<>>
    BY <2>3 DEF Errand
  <2>6. Sleep.op = "sleep"
    BY ServingOps
  <2>7. Goes(p, t, <<>>)'
    <3>1. Placed(p, t) /\ Idle(t)
      BY <1>3 DEF Goes
    <3>2. Head(x).op \notin Late \cup {"store1", "store2", "clear_fake"}
      BY <2>4, <2>6 DEF Late
    <3>3. otp'[t] = otp[t] /\ code'[t] = x /\ x # <<>>
      BY <1>9, <2>4
    <3> QED
      BY <2>3, <2>5, <3>1, <3>2, <3>3, GoesFresh
  <2>8. ~Busy(t)' /\ otp'[t] \notin Chunk
    BY <1>9, <2>4, <2>6 DEF Busy
  <2> QED
    BY <1>7, <1>8, <2>7, <2>8 DEF Controlled, ControlsPart, Waited
<1>13. CASE \E v \in {0, 1} : y = Drive(p, v)
  <2>1. PICK v \in {0, 1} : x = <<Sleep>> \o Drive(p, v)
    BY <1>2, <1>10, <1>13
  <2>2. PICK o : o = otp[t]
    OBVIOUS
  <2>3. DrivingTo(p, v, x, o)'
    BY <1>8, <1>9, <2>1, <2>2 DEF DrivingTo
  <2>4. Driving(p)'
    BY <1>9, <2>2, <2>3 DEF Driving
  <2> QED
    BY <1>7, <1>8, <2>4 DEF Controlled, ControlsPart
<1> QED
  BY <1>11, <1>12, <1>13

\* A thread that has done the step it is at, or put one in front of the rest.
LEMMA Takes ==
  ASSUME Threaded, NEW t \in Threads, NEW S, NEW c \in Seq(S), c # <<>>, code[t] = c,
         NEW o, NEW s, Continue(t, <<>>, o) \/ Continue(t, <<s>>, o)
  PROVE  IF Continue(t, <<>>, o)
         THEN code'[t] = Tail(c) /\ otp'[t] = IF Tail(c) = <<>> THEN NULL ELSE o
         ELSE code'[t] = <<s>> \o Tail(c) /\ otp'[t] = o
<1>1. Tail(c) \in Seq(S) /\ <<>> \o Tail(c) = Tail(c)
  OBVIOUS
<1>2. CASE Continue(t, <<>>, o)
  BY <1>1, <1>2 DEF Continue, Threaded
<1>3. CASE ~Continue(t, <<>>, o)
  <2> DEFINE h == <<s>>
  <2>1. h \in Seq({s}) /\ h # <<>> /\ Continue(t, h, o)
    BY <1>3
  <2> HIDE DEF h
  <2>2. h \o Tail(c) # <<>>
    BY <1>1, <2>1, HeadOfJoin
  <2>3. code'[t] = h \o Tail(c) /\ otp'[t] = o
    BY <2>1, <2>2 DEF Continue, Threaded
  <2> QED
    BY <1>3, <2>3 DEF h
<1> QED
  BY <1>2, <1>3

\* ... where others follow.
LEMMA GoesPast ==
  ASSUME Threaded, NEW t \in Threads, NEW U, NEW u \in Seq(U), u # <<>>, NEW Z, NEW z \in Seq(Z),
         code[t] = u \o z, Proceed(t, <<>>)
  PROVE  code'[t] = Tail(u) \o z /\ (Tail(u) \o z # <<>> => otp'[t] = otp[t])
<1>1. Tail(u \o z) = Tail(u) \o z /\ Tail(u) \o z \in Seq(U \cup Z)
  BY TailOfJoin
<1>2. <<>> \o (Tail(u) \o z) = Tail(u) \o z
  BY <1>1
<1> QED
  BY <1>1, <1>2 DEF Proceed, Continue, Threaded

\* ... and where what follows is known.
LEMMA GoesTo ==
  ASSUME Threaded, NEW t \in Threads, NEW d, d # <<>>, <<>> \o Tail(code[t]) = d,
         NEW o, Continue(t, <<>>, o)
  PROVE  code'[t] = d /\ otp'[t] = o
BY DEF Continue, Threaded

\* What follows one step.
LEMMA TailOfOne ==
  ASSUME NEW s, NEW D, NEW d \in Seq(D)
  PROVE  <<>> \o Tail(<<s>> \o d) = d
<1> DEFINE h == <<s>>
<1>1. h \in Seq({s}) /\ h # <<>> /\ Tail(h) = <<>>
  OBVIOUS
<1>2. <<>> \o d = d
  OBVIOUS
<1> HIDE DEF h
<1>3. Tail(h \o d) = Tail(h) \o d
  BY <1>1, TailOfJoin
<1>4. Tail(h \o d) = d
  BY <1>1, <1>2, <1>3
<1> QED
  BY <1>2, <1>4 DEF h

\* What the steps of a handler that drives p do; o is the pointer, v the command.
DriveStep(p) ==
  /\ Driven(p) /\ Runs("controls") /\ Wired(p) /\ Alone(p) /\ ~AtSecond /\ Run("controls")

\* The sleep before the handler ends.
LEMMA DriveWakes ==
  ASSUME Timely, NEW p, DriveStep(p), NEW v \in {0, 1},
         code["controls"] = <<Sleep>> \o Drive(p, v), Recorded(p) <=> Asked(p)
  PROVE  Controlled(p)
<1> DEFINE t == "controls"
           h == <<Sleep>>
           d == Drive(p, v)
           S == {Input(odata[p].input_port, v), Find(p), Put("onoff", v), Insert(p)}
<1>1. /\ t \in Threads /\ h \in Seq({Sleep}) /\ h # <<>> /\ Head(h) = Sleep /\ Tail(h) = <<>>
      /\ d \in Seq(S) /\ d # <<>> /\ <<>> \o d = d /\ code[t] = h \o d
  BY DEF Threads, Drive
<1> HIDE DEF h, d, S
<1>17. Threaded
  BY DEF DriveStep, Runs
<1>2. ~Idle(t) /\ Now(t) = Sleep
  BY <1>1, GoesNow
<1>3. Wake(t)
  BY <1>1, <1>2, StepIs DEF DriveStep, Sleep, Op
<1>4. UNCHANGED <<records, relays, inputVars, msg_queue, glob>> /\ Proceed(t, <<>>)
  BY <1>3 DEF Wake
<1>5. code'[t] = d
  <2>1. d # <<>> /\ t \in Threads
    BY <1>1
  <2>2. <<>> \o Tail(code[t]) = d
    BY <1>1, TailOfOne DEF h
  <2>3. Continue(t, <<>>, otp[t])
    BY <1>4 DEF Proceed
  <2> QED
    BY <1>17, <2>1, <2>2, <2>3, GoesTo
<1>6. Level(p)
  BY <1>3, WakeLevel DEF DriveStep
<1>7. Leaves(p) /\ Wired(p)' /\ Alone(p)'
  BY <1>4, MovingSpares DEF DriveStep
<1>8. Level(p)' /\ (Recorded(p)' <=> Asked(p)')
  BY <1>4, <1>6, <1>7 DEF Level, inputVars, Leaves
<1>9. PICK o : o = otp'[t]
  OBVIOUS
<1>10. code'[t] = Drive(p, v)
  BY <1>5 DEF d
<1>11. PICK c : c = Drive(p, v)
  OBVIOUS
<1>12. DrivingTo(p, v, c, o)'
  BY <1>8, <1>11 DEF DrivingTo
<1> QED
  BY <1>7, <1>9, <1>10, <1>11, <1>12 DEF Controlled, ControlsPart, Driving, Leaves

\* change_input loads the register ...
LEMMA DriveLoads ==
  ASSUME NEW p, DriveStep(p), NEW v \in {0, 1}, code["controls"] = Drive(p, v), Level(p),
         Recorded(p) <=> Asked(p)
  PROVE  Controlled(p)
<1> DEFINE t == "controls"
           i == odata[p].input_port
           S == {Input(i, v), Find(p), Put("onoff", v), Insert(p)}
           c == Drive(p, v)
           r == Tailed(p, v)
<1>1. /\ t \in Threads /\ c \in Seq(S) /\ c # <<>> /\ Head(c) = Input(i, v) /\ Tail(c) = r
      /\ code[t] = c
  BY DEF Threads, Drive, Tailed
<1> HIDE DEF S, c, r
<1>2. ~Idle(t) /\ Now(t) = Input(i, v)
  BY <1>1 DEF Idle, Now
<1>3. Now(t).op = "change_input" /\ Now(t).a = i /\ Now(t).b = v
  BY <1>2 DEF Input, Op
<1>4. change_input(t)
  BY <1>1, <1>2, <1>3, StepIs DEF DriveStep
<1>5. PICK l : l = LineOf(p)
  OBVIOUS
<1>6. l \in Lines(0) /\ l \div 8 = 0
  <2>1. l \in Lines(0)
    BY <1>5, LineOfDriven DEF DriveStep
  <2>2. PICK k \in 0..7 : l = 8 * 0 + k
    BY <2>1 DEF Lines, Index
  <2> QED
    BY <2>1, <2>2
<1>7. PICK s, old : /\ old = fake_inportstatus2 \cap Lines(0)
                    /\ s = Op("store2", 0, IF v = 1 THEN old \cup {l} ELSE old \ {l})
  OBVIOUS
<1>8. Proceed(t, <<s>>) /\ UNCHANGED <<records, relays, inputVars, msg_queue, glob>>
  BY <1>3, <1>4, <1>5, <1>6, <1>7 DEF change_input, LineOf
<1>9. code'[t] = <<s>> \o r
  BY <1>1, <1>8 DEF Proceed, Continue, DriveStep, Runs, Threaded
<1>10. Leaves(p) /\ Wired(p)' /\ Alone(p)'
  BY <1>8, MovingSpares DEF DriveStep
<1>11. Level(p)' /\ (Recorded(p)' <=> Asked(p)')
  BY <1>8, <1>10 DEF Level, inputVars, Leaves
<1>12. /\ s.op = "store2" /\ s.a = 0 /\ s.b = IF v = 1 THEN old \cup {l} ELSE old \ {l}
  BY <1>7 DEF Op
<1>13. Loaded2(p, v, s)
  BY <1>5, <1>6, <1>7, <1>12 DEF Loaded2
<1>14. Loaded2(p, v, s)'
  <2>1. LineOf(p)' = LineOf(p)
    BY DEF LineOf
  <2>2. fake_inportstatus2' = fake_inportstatus2
    BY <1>8 DEF inputVars
  <2> QED
    BY <1>13, <2>1, <2>2 DEF Loaded2
<1>15. PICK x, o : x = <<s>> \o r /\ o = otp'[t]
  OBVIOUS
<1>16. DrivingTo(p, v, x, o)'
  BY <1>11, <1>14, <1>15 DEF DrivingTo, r
<1> QED
  BY <1>9, <1>10, <1>15, <1>16 DEF Controlled, ControlsPart, Driving, Leaves

\* ... and stores it.
LEMMA DriveStores ==
  ASSUME NEW p, DriveStep(p), NEW v \in {0, 1}, NEW s, code["controls"] = <<s>> \o Tailed(p, v),
         Loaded2(p, v, s), Level(p)
  PROVE  Controlled(p)
<1> DEFINE t == "controls"
           h == <<s>>
           r == Tailed(p, v)
           S == {Find(p), Put("onoff", v), Insert(p)}
<1>1. /\ t \in Threads /\ h \in Seq({s}) /\ h # <<>> /\ Head(h) = s /\ Tail(h) = <<>>
      /\ r \in Seq(S) /\ r # <<>> /\ <<>> \o r = r /\ code[t] = h \o r
  BY DEF Threads, Tailed
<1> HIDE DEF h, r, S
<1>17. Threaded
  BY DEF DriveStep, Runs
<1>2. ~Idle(t) /\ Now(t) = s
  BY <1>1, GoesNow
<1>3. s.op = "store2" /\ s.a = 0
  BY DEF Loaded2
<1>4. StoreFake(t)
  BY <1>1, <1>2, <1>3, StepIs DEF DriveStep
<1>5. /\ fake_inportstatus2' = (fake_inportstatus2 \ Lines(0)) \cup s.b
      /\ Proceed(t, <<>>)
      /\ UNCHANGED <<records, relays, sw, inportstatus, fake_inportstatus1, msg_queue, glob>>
  BY <1>2, <1>3, <1>4 DEF StoreFake, At, Now
<1>6. code'[t] = r
  <2>1. r # <<>> /\ t \in Threads
    BY <1>1
  <2>2. <<>> \o Tail(code[t]) = r
    BY <1>1, TailOfOne DEF h
  <2>3. Continue(t, <<>>, otp[t])
    BY <1>5 DEF Proceed
  <2> QED
    BY <1>17, <2>1, <2>2, <2>3, GoesTo
<1>7. LineOf(p) \in Lines(0) /\ LineOf(p) \in SoftLines
  BY LineOfDriven DEF DriveStep
<1>8. LineOf(p)' = LineOf(p)
  BY DEF LineOf
<1>9. Asked(p)' <=> v = 1
  BY <1>5, <1>7, <1>8 DEF Asked, Loaded2
<1>10. Answered(p)' <=> Answered(p)
  BY <1>5, <1>8 DEF Answered
<1>11. \A m \in Lines(0) \ {LineOf(p)} : m \in fake_inportstatus2' <=> m \in fake_inportstatus2
  BY <1>5 DEF Loaded2
<1>12. Alone(p)'
  <2> SUFFICES ASSUME glob'.shutdown_all = 0, NEW m \in Lines(0) \ {LineOf(p)}
               PROVE  m \in fake_inportstatus1' <=> m \in fake_inportstatus2'
    BY <1>8 DEF Alone
  <2>1. m \in fake_inportstatus1 <=> m \in fake_inportstatus2
    BY <1>5 DEF Level
  <2> QED
    BY <1>5, <1>11, <2>1
<1>13. fake_inportstatus2' \subseteq SoftLines
  <2> SUFFICES ASSUME NEW m \in fake_inportstatus2'
               PROVE  m \in SoftLines
    OBVIOUS
  <2>1. CASE m \in Lines(0) /\ m # LineOf(p)
    BY <1>11, <2>1 DEF DriveStep, Wired
  <2>2. CASE m \notin Lines(0)
    BY <1>5, <2>2 DEF Loaded2, DriveStep, Wired
  <2> QED
    BY <1>7, <2>1, <2>2
<1>14. Wired(p)'
  BY <1>5, <1>13 DEF DriveStep, Wired, SoftLines
<1>15. PICK x, o : x = r /\ o = otp'[t]
  OBVIOUS
<1>16. DrivingTo(p, v, x, o)'
  BY <1>9, <1>15 DEF DrivingTo, r
<1> QED
  BY <1>5, <1>6, <1>10, <1>12, <1>14, <1>15, <1>16 DEF Controlled, ControlsPart, Driving

\* The handler finds the record ...
LEMMA DriveFinds ==
  ASSUME NEW p, DriveStep(p), NEW v \in {0, 1}, code["controls"] = Tailed(p, v),
         Asked(p) <=> v = 1
  PROVE  Controlled(p)
<1> DEFINE t == "controls"
           c == Tailed(p, v)
           r == <<Put("onoff", v), Insert(p)>>
           S == {Find(p), Put("onoff", v), Insert(p)}
<1>1. /\ t \in Threads /\ c \in Seq(S) /\ c # <<>> /\ Head(c) = Find(p) /\ Tail(c) = r
      /\ r # <<>> /\ code[t] = c /\ Threaded
  BY DEF Threads, Tailed, DriveStep, Runs
<1> HIDE DEF c, r, S
<1>2. ~Idle(t) /\ Now(t) = Find(p)
  BY <1>1 DEF Idle, Now
<1>3. Now(t).op = "find" /\ Now(t).a = p
  BY <1>2 DEF Find, Op
<1>4. ollist_find_data(t)
  BY <1>1, <1>2, <1>3, StepIs DEF DriveStep
<1>5. PICK o : o = list[p]
  OBVIOUS
<1>6. Continue(t, <<>>, o) /\ UNCHANGED <<records, relays, inputVars, msg_queue, glob>>
  BY <1>3, <1>4, <1>5 DEF ollist_find_data
<1>7. code'[t] = r /\ otp'[t] = o
  <2>1. Threaded /\ t \in Threads /\ r # <<>>
    BY <1>1
  <2>2. <<>> \o Tail(code[t]) = r
    BY <1>1 DEF r
  <2>3. Continue(t, <<>>, o)
    BY <1>6
  <2> QED
    BY <2>1, <2>2, <2>3, GoesTo
<1>8. Leaves(p) /\ Wired(p)' /\ Alone(p)'
  BY <1>6, MovingSpares DEF DriveStep
<1>9. o = list'[p] /\ (Asked(p)' <=> v = 1)
  BY <1>5, <1>6, <1>8 DEF records, Leaves
<1>10. PICK x : x = r
  OBVIOUS
<1>11. DrivingTo(p, v, x, o)'
  BY <1>9, <1>10 DEF DrivingTo, r
<1> QED
  BY <1>7, <1>8, <1>10, <1>11 DEF Controlled, ControlsPart, Driving, Leaves

\* ... writes the command into it ...
LEMMA DrivePuts ==
  ASSUME NEW p, DriveStep(p), NEW v \in {0, 1},
         code["controls"] = <<Put("onoff", v), Insert(p)>>, otp["controls"] = list[p],
         Asked(p) <=> v = 1
  PROVE  Controlled(p)
<1> DEFINE t == "controls"
           c == <<Put("onoff", v), Insert(p)>>
           r == <<Insert(p)>>
           S == {Put("onoff", v), Insert(p)}
<1>1. /\ t \in Threads /\ c \in Seq(S) /\ c # <<>> /\ Head(c) = Put("onoff", v) /\ Tail(c) = r
      /\ r # <<>> /\ code[t] = c /\ Threaded
  BY DEF Threads, DriveStep, Runs
<1> HIDE DEF c, r, S
<1>2. ~Idle(t) /\ Now(t) = Put("onoff", v)
  BY <1>1 DEF Idle, Now
<1>3. Now(t).op = "put" /\ Now(t).a = "onoff" /\ Now(t).b = v
  BY <1>2 DEF Put, Op
<1>4. WriteField(t)
  BY <1>1, <1>2, <1>3, StepIs DEF DriveStep
<1>5. Write(t, "onoff", v)
  BY <1>3, <1>4 DEF WriteField, At, Now
<1>6. PICK o : o = list[p]
  OBVIOUS
<1>7. /\ heap' = [heap EXCEPT ![o] = [heap[o] EXCEPT !["onoff"] = v]] /\ Continue(t, <<>>, o)
      /\ UNCHANGED <<list, relays, inputVars, msg_queue, glob>>
  BY <1>5, <1>6 DEF Write, Proceed
<1>8. code'[t] = r /\ otp'[t] = o
  <2>1. Threaded /\ t \in Threads /\ r # <<>>
    BY <1>1
  <2>2. <<>> \o Tail(code[t]) = r
    BY <1>1 DEF r
  <2>3. Continue(t, <<>>, o)
    BY <1>7
  <2> QED
    BY <2>1, <2>2, <2>3, GoesTo
<1>9. o \in Chunk /\ heap \in [Chunk -> O_DATA]
  BY <1>6, LineOfDriven DEF DriveStep, Runs, Kept, Ownership, Records
<1>10. heap'[list'[p]].onoff = v
  BY <1>6, <1>7, <1>9 DEF O_DATA
<1>11. (Asked(p)' <=> Asked(p)) /\ (Answered(p)' <=> Answered(p)) /\ (Recorded(p)' <=> v = 1)
  BY <1>7, <1>10 DEF Asked, Answered, LineOf, inputVars, Recorded, Node
<1>12. Wired(p)' /\ Alone(p)'
  BY <1>7, AloneSame DEF DriveStep, Wired, inputVars, fakeVars
<1>13. PICK x : x = r
  OBVIOUS
<1>14. DrivingTo(p, v, x, o)'
  BY <1>6, <1>7, <1>11, <1>13 DEF DrivingTo, r
<1> QED
  BY <1>7, <1>8, <1>11, <1>12, <1>13, <1>14 DEF Controlled, ControlsPart, Driving

\* ... and puts it back, in another chunk.
LEMMA DriveInserts ==
  ASSUME NEW p, DriveStep(p), NEW v \in {0, 1}, code["controls"] = <<Insert(p)>>,
         otp["controls"] = list[p], Recorded(p) <=> v = 1, Asked(p) <=> v = 1
  PROVE  Controlled(p)
<1> DEFINE t == "controls"
           c == <<Insert(p)>>
<1>1. /\ t \in Threads /\ c \in Seq({Insert(p)}) /\ c # <<>> /\ Head(c) = Insert(p)
      /\ Tail(c) = <<>> /\ code[t] = c /\ Threaded
  BY DEF Threads, DriveStep, Runs
<1> HIDE DEF c
<1>2. ~Idle(t) /\ Now(t) = Insert(p)
  BY <1>1 DEF Idle, Now
<1>3. Now(t).op = "insert" /\ Now(t).a = p
  BY <1>2 DEF Insert, Op
<1>4. ollist_insert_data(t)
  BY <1>1, <1>2, <1>3, StepIs DEF DriveStep
<1>5. PICK o : o = list[p]
  OBVIOUS
<1>6. PICK d \in Chunk : /\ heap' = [heap EXCEPT ![d] = heap[o]]
                         /\ list' = [list EXCEPT ![p] = d]
  BY <1>3, <1>4, <1>5 DEF ollist_insert_data, Rec
<1>7. Continue(t, <<>>, o) /\ UNCHANGED <<relays, inputVars, msg_queue, glob>>
  BY <1>4, <1>5 DEF ollist_insert_data, Proceed
<1>8. code'[t] = <<>> /\ otp'[t] = NULL
  BY <1>1, <1>7, Takes
<1>9. heap'[list'[p]] = heap[list[p]]
  BY <1>5, <1>6, LineOfDriven DEF DriveStep, Runs, Kept, Ownership, Records
<1>10. /\ Asked(p)' <=> Asked(p)
       /\ Answered(p)' <=> Answered(p)
       /\ Recorded(p)' <=> Recorded(p)
  BY <1>7, <1>9 DEF Asked, Answered, LineOf, inputVars, Recorded, Node
<1>11. Wired(p)' /\ Alone(p)'
  BY <1>7, AloneSame DEF DriveStep, Wired, inputVars, fakeVars
<1>12. Goes(p, t, <<>>)'
  <2>1. PICK e : e = <<>>
    OBVIOUS
  <2>2. Errand(p, t, e) /\ code'[t] = e \o <<>>
    BY <1>8, <2>1, ErrandEmpty
  <2>3. Placed(p, t)'
    BY <1>8, OutputAssumption DEF Placed, Idle
  <2> QED
    BY <2>2, <2>3 DEF Goes
<1>13. Waited(p)'
  BY <1>8, OutputAssumption DEF Waited, Busy, Idle
<1> QED
  BY <1>7, <1>10, <1>11, <1>12, <1>13 DEF Controlled, ControlsPart

\* Whatever the controls thread does.
LEMMA ControlsKeeps ==
  ASSUME Timely, NEW p, DriveStep(p), ControlsPart(p)
  PROVE  Controlled(p)
<1> DEFINE t == "controls"
<1>1. ASSUME Goes(p, t, <<>>), Waited(p), Recorded(p) <=> Asked(p)
      PROVE  Controlled(p)
  <2>1. CASE ~Idle(t)
    BY <1>1, <2>1, ControlsErrand DEF DriveStep
  <2>2. CASE Idle(t) /\ Return(t)
    <3>1. Spared(p, t, <<>>) /\ glob.shutdown_all = 1 /\ UNCHANGED glob
      BY <1>1, <2>2, ReturnSpares DEF DriveStep, Runs, Return
    <3>2. Waited(p)'
      BY <3>1 DEF Waited
    <3> QED
      BY <1>1, <3>1, <3>2 DEF Spared, Leaves, Controlled, ControlsPart
  <2>3. CASE basic_controls_task
    BY <1>1, <2>3, ControlsBegin DEF DriveStep, Runs
  <2> QED
    <3>1. Idle(t) => Return(t) \/ basic_controls_task
      <4>1. Idle(t) => (Step(t) => Return(t))
        BY DEF Step, ollist_find_data, ollist_insert_data, EvalPort, WriteField, IfResetIsZero,
               set_output, change_output, change_input, ClearFakeInput, StoreFake,
               add_msg_queue, AssignGlobal, StoreStatus, Wake, At
      <4>2. ~Polling(t)
        BY DEF Polling
      <4> QED
        BY <4>1, <4>2 DEF DriveStep, Run
    <3> QED
      BY <2>1, <2>2, <2>3, <3>1
<1>2. CASE Driving(p)
  <2>1. PICK v, c, o : v \in {0, 1} /\ DrivingTo(p, v, c, o) /\ c = code[t] /\ o = otp[t]
    BY <1>2 DEF Driving
  <2> QED
    BY <2>1, DriveWakes, DriveLoads, DriveStores, DriveFinds, DrivePuts, DriveInserts DEF DrivingTo
<1> QED
  BY <1>1, <1>2 DEF ControlsPart

--------------------------------------------------------------------------------
(* The monitor of the software inputs *)

\* It takes a step, and the controls thread sleeps.
FakeStep(p) ==
  /\ Driven(p) /\ Runs("fake") /\ Wired(p) /\ Alone(p) /\ ~AtSecond /\ Run("fake")
  /\ ControlsPart(p) /\ ~Busy("controls")

\* What its step does for p.
Monitored(p) ==
  /\ Wired(p)' /\ Alone(p)' /\ FakePart(p)'
  /\ Recorded(p)' <=> Recorded(p)
  /\ Asked(p)' <=> Asked(p)
  /\ (Answered(p)' <=> Answered(p)) \/ (Answered(p)' <=> Asked(p))
  /\ glob'.shutdown_all = 0 => glob.shutdown_all = 0
  /\ KeepsPort(p)

\* A controls thread that sleeps has written its command into the record.
LEMMA ControlsAtRest ==
  ASSUME NEW p, ControlsPart(p), ~Busy("controls")
  PROVE  /\ Recorded(p) <=> Asked(p)
         /\ glob.shutdown_all = 0 /\ ~(Asked(p) <=> Answered(p)) => otp["controls"] \notin Chunk
BY ControlsRests DEF ControlsPart, Waited

\* The globals are assigned by steps of their own.
LEMMA StepKeepsGlob ==
  ASSUME NEW t, Step(t), Now(t).op # "assign"
  PROVE  UNCHANGED glob
BY DEF Step, ollist_find_data, ollist_insert_data, EvalPort, WriteField, Write, IfResetIsZero,
       set_output, change_output, Relay, change_input, ClearFakeInput, StoreFake, add_msg_queue,
       AssignGlobal, StoreStatus, Wake, Return, At, Now

\* A step of an errand, with z to follow.
LEMMA FakeErrand ==
  ASSUME NEW p, FakeStep(p), NEW S, NEW z \in Seq(S),
         z # <<>> => Head(z).op \in {"find", "status_fake"},
         Goes(p, "fake", z), code["fake"] # z
  PROVE  Spared(p, "fake", z) /\ KeepsPort(p) /\ UNCHANGED glob
<1> DEFINE t == "fake"
<1>1. PICK u : Errand(p, t, u) /\ code[t] = u \o z
  BY DEF Goes
<1>2. u # <<>>
  BY <1>1
<1>3. Head(u).op # "exit"
  <2>1. Spares(p, t, Head(u))
    BY <1>1, <1>2, ErrandHead
  <2> QED
    BY <2>1 DEF Spares, ErrandOps, Serves
<1>4. Doing(p, t, u, z)
  BY <1>1, <1>2, <1>3 DEF Doing, FakeStep, Goes
<1>5. Spared(p, t, z)
  BY <1>4, RunSpares DEF FakeStep, Threads
<1>6. UNCHANGED glob
  <2>1. ~Idle(t) /\ Spares(p, t, Now(t))
    BY <1>4, DoingNow DEF Threads
  <2>2. Step(t)
    BY <2>1, StepIs DEF FakeStep, Threads
  <2>3. Now(t).op # "assign"
    BY <2>1 DEF Spares, ErrandOps, Serves
  <2> QED
    BY <2>2, <2>3, StepKeepsGlob
<1> QED
  BY <1>5, <1>6 DEF Spared, Leaves, KeepsPort

\* The monitor has seen a change of other inputs.
LEMMA MonitorElsewhere ==
  ASSUME NEW p, FakeStep(p), Goes(p, "fake", <<>>), p \in relays <=> Answered(p),
         NEW b \in Bank, monitor_fake_input_task(b), b # 0 \/ (Asked(p) <=> Answered(p))
  PROVE  Monitored(p)
<1> DEFINE t == "fake"
<1>1. PICK mask : mask = Mask(b, fake_inportstatus2, fake_inportstatus1)
  OBVIOUS
<1>2. PICK v : v = OnOff(mask, fake_inportstatus2)
  OBVIOUS
<1>3. PICK s, i : s = StoreOf(b) /\ i = Served(b, mask)
  OBVIOUS
<1> DEFINE w == ServeInput(i, v)
           e == <<s>>
<1>4. /\ Idle(t) /\ mask # {} /\ code' = [code EXCEPT ![t] = w \o e]
      /\ fake_inportstatus2' \in {fake_inportstatus2, fake_inportstatus2 \ mask}
      /\ UNCHANGED <<records, otp, relays, sw, inportstatus, fake_inportstatus1, msg_queue, glob>>
  BY <1>1, <1>2, <1>3 DEF monitor_fake_input_task, Polls, StoreOf
<1>5. /\ mask \in SUBSET Lines(b) /\ mask \subseteq SoftLines /\ LineOf(p) \notin mask
  <2>1. mask \in SUBSET Lines(b) /\ mask \subseteq SoftLines
    BY <1>1 DEF Mask, FakeStep, Wired
  <2>2. CASE b # 0
    <3>1. LineOf(p) \in Lines(0) /\ 0 \in Bank
      BY LineOfDriven DEF FakeStep, Bank
    <3> QED
      BY <2>1, <2>2, <3>1, BanksApart
  <2>3. CASE Asked(p) <=> Answered(p)
    BY <1>1, <2>1, <2>3 DEF Mask, Asked, Answered
  <2> QED
    BY <2>1, <2>2, <2>3
<1>6. LineOf(p)' = LineOf(p)
  BY DEF LineOf
<1>7. (Asked(p)' <=> Asked(p)) /\ (Answered(p)' <=> Answered(p)) /\ (Recorded(p)' <=> Recorded(p))
  BY <1>4, <1>5, <1>6 DEF Asked, Answered, Recorded, Node, records
<1>8. Wired(p)'
  BY <1>4 DEF FakeStep, Wired
<1>9. Alone(p)'
  <2>1. CASE b # 0
    <3>1. \A m \in Lines(0) : m \notin mask
      BY <1>5, <2>1, BanksApart DEF Bank
    <3>2. \A m \in Lines(0) : m \in fake_inportstatus2' <=> m \in fake_inportstatus2
      BY <1>4, <3>1
    <3> QED
      BY <1>4, <1>6, <1>7, <3>2 DEF FakeStep, Alone
  <2>2. CASE Asked(p) <=> Answered(p)
    BY <1>7, <2>2 DEF Alone
  <2> QED
    BY <2>1, <2>2
<1>10. PICK j \in Number \ {odata[p].input_port} : Max(mask) = Line(j)
  BY <1>4, <1>5, HighestIn DEF SoftLines, LineOf
<1>11. i = j
  <2>1. Line(j) \in Lines(b)
    BY <1>4, <1>5, <1>10, HighestIn
  <2> QED
    BY <1>3, <1>10, <2>1, LineTranslated DEF Served
<1>12. Rounds(p, t, w)
  BY <1>10, <1>11, LineOfDriven, ServeInputSpares DEF FakeStep
<1>13. s.op = "status_fake"
  BY <1>3 DEF StoreOf, Op
<1>14. Head(e) = s /\ e # <<>> /\ e \in Seq({s})
  OBVIOUS
<1> HIDE DEF w, e
<1> DEFINE x == w \o e
<1>15. x # <<>> /\ Head(x).op \in {"find", "status_fake"}
  <2>1. PICK W : w \in Seq(W)
    BY <1>12 DEF Rounds, Errand
  <2>2. CASE w = <<>>
    BY <1>13, <1>14, <2>2
  <2>3. CASE w # <<>>
    <3>1. Head(w).op = "find"
      BY <1>12, <2>1, <2>3 DEF Rounds
    <3> QED
      BY <1>14, <2>1, <2>3, <3>1, HeadOfJoin
  <2> QED
    BY <2>2, <2>3
<1>16. code'[t] = x /\ otp'[t] = otp[t]
  BY <1>4 DEF FakeStep, Runs, Threaded, Threads
<1>17. Placed(p, t) /\ Errand(p, t, w)
  BY <1>12 DEF Goes, Rounds
<1>18. Goes(p, t, e)'
  <2>1. PICK f, g : f = w /\ g = e
    OBVIOUS
  <2>2. PICK y : y = f \o g
    OBVIOUS
  <2>3. Goes(p, t, g)'
    BY <1>4, <1>15, <1>16, <1>17, <2>1, <2>2, GoesFresh DEF Late
  <2> QED
    BY <2>1, <2>3 DEF e
<1>19. FakePart(p)'
  <2>1. Goes(p, t, <<StoreOf(b)>>)'
    BY <1>3, <1>18 DEF e
  <2>2. p \in relays' <=> IF b = 0 THEN Asked(p)' ELSE Answered(p)'
    BY <1>4, <1>7
  <2> QED
    BY <2>1, <2>2 DEF FakePart
<1> QED
  BY <1>4, <1>7, <1>8, <1>9, <1>19 DEF Monitored, KeepsPort, records

\* It has seen the change of p's input.
LEMMA MonitorHere ==
  ASSUME NEW p, FakeStep(p), Goes(p, "fake", <<>>), p \in relays <=> Answered(p),
         monitor_fake_input_task(0), ~(Asked(p) <=> Answered(p))
  PROVE  Monitored(p)
<1> DEFINE t == "fake"
<1>1. PICK mask : mask = Mask(0, fake_inportstatus2, fake_inportstatus1)
  OBVIOUS
<1>2. PICK v : v = OnOff(mask, fake_inportstatus2)
  OBVIOUS
<1>3. PICK l, i, s : l = LineOf(p) /\ i = odata[p].input_port /\ s = StoreOf(0)
  OBVIOUS
<1>4. /\ Idle(t) /\ mask # {} /\ glob.shutdown_all = 0
      /\ code' = [code EXCEPT ![t] = ServeInput(Served(0, mask), v) \o <<s>>]
      /\ fake_inportstatus2' = IF mask \subseteq fake_inportstatus2
                               THEN fake_inportstatus2 ELSE fake_inportstatus2 \ mask
      /\ UNCHANGED <<records, otp, relays, sw, inportstatus, fake_inportstatus1, msg_queue, glob>>
  BY <1>1, <1>2, <1>3 DEF monitor_fake_input_task, Polls, StoreOf
<1>5. p \in Output /\ i \in Number /\ l = Line(i) /\ l \in Lines(0)
  BY <1>3, LineOfDriven DEF FakeStep, LineOf
<1>6. mask = {l}
  <2>1. l \in mask
    BY <1>1, <1>3, <1>5 DEF Mask, Asked, Answered
  <2>2. ASSUME NEW m \in Lines(0) \ {l}
        PROVE  m \notin mask
    BY <1>1, <1>3, <1>4, <2>2 DEF Mask, FakeStep, Alone
  <2> QED
    BY <1>1, <2>1, <2>2 DEF Mask
<1>7. v \in {0, 1} /\ (v = 1 <=> Asked(p))
  BY <1>2, <1>3, <1>6 DEF OnOff, Asked
<1>8. Served(0, mask) = i
  <2>1. Max(mask) = l
    BY <1>5, <1>6, HighestIn DEF Bank
  <2> QED
    BY <1>5, <2>1, LineTranslated DEF Served, Bank
<1>9. fake_inportstatus2' = fake_inportstatus2
  BY <1>3, <1>4, <1>6 DEF Asked
<1>10. Leaves(p) /\ Wired(p)' /\ Alone(p)'
  BY <1>4, <1>9, MovingSpares DEF FakeStep, inputVars
<1>11. PICK b : b = <<Find(p), SetOutput(v)>>
  OBVIOUS
<1>12. PICK x : x = ServeInput(i, v)
  OBVIOUS
<1>13. Amid(p, t, x, b)
  BY <1>3, <1>5, <1>11, <1>12, ServeInputServes
<1>14. PICK u, w : Rounds(p, t, u) /\ Rounds(p, t, w) /\ x = u \o (b \o w)
  BY <1>13 DEF Amid
<1>15. PICK e : e = <<s>>
  OBVIOUS
<1>16. PICK r : r = w \o e
  OBVIOUS
<1>17. PICK z, y : z = b \o r /\ y = x \o e
  OBVIOUS
<1>18. PICK U, W : u \in Seq(U) /\ w \in Seq(W)
  BY <1>14 DEF Rounds, Errand
<1>19. /\ b \in Seq({Find(p), SetOutput(v)}) /\ b # <<>> /\ Head(b) = Find(p) /\ e \in Seq({s})
  BY <1>11, <1>15
<1>20. y = u \o z
  <2> DEFINE A == U \cup W \cup {Find(p), SetOutput(v), s}
  <2>1. u \in Seq(A) /\ w \in Seq(A) /\ b \in Seq(A) /\ e \in Seq(A)
    BY <1>18, <1>19
  <2> HIDE DEF A
  <2>2. Regroups(u, b, w, e)
    BY <2>1, JoinOfThree
  <2> QED
    BY <1>14, <1>16, <1>17, <2>2 DEF Regroups
<1>21. r \in Seq(W \cup {s})
  BY <1>16, <1>18, <1>19
<1>22. z # <<>> /\ Head(z) = Find(p) /\ z \in Seq({Find(p), SetOutput(v)} \cup (W \cup {s}))
  BY <1>17, <1>19, <1>21, HeadOfJoin
<1>23. y # <<>> /\ Head(y).op = "find"
  <2>1. CASE u = <<>>
    <3>1. y = z
      BY <1>20, <1>22, <2>1
    <3> QED
      BY <1>22, <3>1, ServingOps
  <2>2. CASE u # <<>>
    <3>1. Head(u).op = "find"
      BY <1>14, <1>18, <2>2 DEF Rounds
    <3>2. y # <<>> /\ Head(y) = Head(u)
      BY <1>18, <1>20, <1>22, <2>2, HeadOfJoin
    <3> QED
      BY <3>1, <3>2
  <2> QED
    BY <2>1, <2>2
<1>24. code'[t] = y /\ otp'[t] = otp[t]
  BY <1>4, <1>8, <1>12, <1>15, <1>17 DEF FakeStep, Runs, Threaded, Threads
<1>25. Placed(p, t) /\ Errand(p, t, u)
  BY <1>14 DEF Goes, Rounds
<1>26. Goes(p, t, z)'
  BY <1>4, <1>20, <1>23, <1>24, <1>25, GoesFresh DEF Late
<1>27. ServingTo(p, v, r)'
  BY <1>4, <1>10, <1>11, <1>17, <1>26 DEF ServingTo, Leaves
<1>28. Serving(p)'
  <2>1. (v = 1 <=> Asked(p)') /\ ~(Asked(p)' <=> Answered(p)') /\ glob'.shutdown_all = 0
    BY <1>4, <1>7, <1>10 DEF Leaves
  <2>2. r = w \o <<StoreOf(0)>>
    BY <1>3, <1>15, <1>16
  <2>3. ServingTo(p, v, w \o <<StoreOf(0)>>)'
    BY <1>27, <2>2
  <2> QED
    BY <1>7, <1>14, <2>1, <2>3 DEF Serving
<1> QED
  BY <1>4, <1>10, <1>28 DEF Monitored, FakePart, Leaves, KeepsPort, records

\* The monitor serves value v of p's input; w are the outputs after p, r is w and the store.
ServingStep(p, v, w, r) ==
  /\ FakeStep(p) /\ Rounds(p, "fake", w) /\ r = w \o <<StoreOf(0)>>
  /\ v \in {0, 1} /\ (v = 1 <=> Asked(p))
  /\ glob.shutdown_all = 0 /\ ~(Asked(p) <=> Answered(p))

\* What follows is a sequence of steps, and begins with one that the monitor may be at.
LEMMA ServingRest ==
  ASSUME NEW p, NEW w, Rounds(p, "fake", w), NEW r, r = w \o <<StoreOf(0)>>
  PROVE  /\ \E R : r \in Seq(R)
         /\ r # <<>> /\ Head(r).op \in {"find", "status_fake"}
<1> DEFINE e == <<StoreOf(0)>>
<1>1. e \in Seq({StoreOf(0)}) /\ e # <<>> /\ Head(e) = StoreOf(0)
  OBVIOUS
<1> HIDE DEF e
<1>2. PICK W : w \in Seq(W)
  BY DEF Rounds, Errand
<1>3. r = w \o e
  BY DEF e
<1>4. r \in Seq(W \cup {StoreOf(0)})
  BY <1>1, <1>2, <1>3
<1>5. StoreOf(0).op = "status_fake"
  BY DEF StoreOf, Op
<1>6. CASE w = <<>>
  <2>1. r = e
    BY <1>1, <1>3, <1>6
  <2> QED
    BY <1>1, <1>4, <1>5, <2>1
<1>7. CASE w # <<>>
  <2>1. Head(w).op = "find"
    BY <1>2, <1>7 DEF Rounds
  <2>2. r # <<>> /\ Head(r) = Head(w)
    BY <1>1, <1>2, <1>3, <1>7, HeadOfJoin
  <2> QED
    BY <1>4, <2>1, <2>2
<1> QED
  BY <1>6, <1>7

\* A step of the monitor towards the end of p's turn.
LEMMA ServingGoesOn ==
  ASSUME NEW p, NEW v, NEW w, NEW r, ServingStep(p, v, w, r),
         UNCHANGED <<inputVars, msg_queue, glob>>, Recorded(p)' <=> Recorded(p), KeepsPort(p),
         ServingTo(p, v, r)'
  PROVE  Monitored(p)
<1>1. LineOf(p)' = LineOf(p)
  BY DEF LineOf
<1>2. (Asked(p)' <=> Asked(p)) /\ (Answered(p)' <=> Answered(p))
  BY <1>1 DEF Asked, Answered, inputVars
<1>3. Wired(p)' /\ Alone(p)'
  BY AloneSame DEF ServingStep, FakeStep, Wired, inputVars, fakeVars
<1>4. Serving(p)'
  BY <1>2 DEF ServingStep, Serving
<1> QED
  BY <1>2, <1>3, <1>4 DEF Monitored, FakePart

\* ollist_find_data
LEMMA ServingFinds ==
  ASSUME NEW p, NEW v, NEW w, NEW r, ServingStep(p, v, w, r),
         code["fake"] = <<Find(p), SetOutput(v)>> \o r, p \in relays <=> Answered(p)
  PROVE  Monitored(p)
<1> DEFINE t == "fake"
           h == <<Find(p), SetOutput(v)>>
           a == <<SetOutput(v)>>
           S == {Find(p), SetOutput(v)}
<1>1. /\ t \in Threads /\ h \in Seq(S) /\ h # <<>> /\ Head(h) = Find(p) /\ Tail(h) = a
      /\ a \in Seq(S) /\ a # <<>> /\ <<>> \o a = a
  BY DEF Threads
<1>2. PICK R : r \in Seq(R)
  BY ServingRest DEF ServingStep
<1>3. Threaded /\ code[t] = h \o r /\ Run(t) /\ t # "timer"
  BY DEF ServingStep, FakeStep, Runs
<1> HIDE DEF h, a, S
<1>4. ~Idle(t) /\ Now(t) = Find(p)
  BY <1>1, <1>2, <1>3, GoesNow
<1>5. Now(t).op = "find" /\ Now(t).a = p
  BY <1>4 DEF Find, Op
<1>6. ollist_find_data(t)
  BY <1>1, <1>3, <1>4, <1>5, StepIs
<1>7. PICK o : o = list[p]
  OBVIOUS
<1>8. PICK f : f = <<>>
  OBVIOUS
<1>9. Continue(t, f, o) /\ UNCHANGED <<records, relays, inputVars, msg_queue, glob>>
  BY <1>5, <1>6, <1>7, <1>8 DEF ollist_find_data
<1>10. code'[t] = f \o (Tail(h) \o r) /\ otp'[t] = IF f \o (Tail(h) \o r) = <<>> THEN NULL ELSE o
  <2>1. Tail(h \o r) = Tail(h) \o r
    BY <1>1, <1>2, TailOfJoin
  <2> QED
    BY <1>1, <1>3, <1>9, <2>1 DEF Continue, Threaded
<1>11. a \o r \in Seq(S \cup R) /\ a \o r # <<>> /\ f \o (a \o r) = a \o r
  BY <1>1, <1>2, <1>8, HeadOfJoin
<1>12. code'[t] = a \o r /\ otp'[t] = list'[p]
  BY <1>1, <1>7, <1>9, <1>10, <1>11 DEF records
<1>13. p \in relays' <=> Answered(p)'
  BY <1>9 DEF Answered, LineOf, inputVars
<1>14. PICK ops : ops = <<SetOutput(v)>>
  OBVIOUS
<1>15. ServingBy(p, v, ops)'
  BY <1>12, <1>13, <1>14 DEF ServingBy
<1>16. ServingTo(p, v, r)'
  BY <1>12, <1>14, <1>15 DEF ServingTo, a
<1>17. (Recorded(p)' <=> Recorded(p)) /\ KeepsPort(p)
  BY <1>9 DEF Recorded, Node, records, KeepsPort
<1> QED
  BY <1>9, <1>16, <1>17, ServingGoesOn

\* set_output, of an output of type 0 with the normal polarity
LEMMA ServingSetsOutput ==
  ASSUME NEW p, NEW v, NEW w, NEW r, ServingStep(p, v, w, r),
         code["fake"] = <<SetOutput(v)>> \o r, otp["fake"] = list[p], p \in relays <=> Answered(p)
  PROVE  Monitored(p)
<1> DEFINE t == "fake"
           h == <<SetOutput(v)>>
           b == <<Put("onoff", v), OutOnoff, InsertOtp>>
           S == {Put("onoff", v), OutOnoff, InsertOtp}
<1>1. /\ t \in Threads /\ h \in Seq({SetOutput(v)}) /\ h # <<>> /\ Head(h) = SetOutput(v)
      /\ Tail(h) = <<>> /\ b \in Seq(S) /\ b # <<>>
  BY DEF Threads
<1>2. PICK R : r \in Seq(R)
  BY ServingRest DEF ServingStep
<1>3. Threaded /\ code[t] = h \o r /\ Run(t) /\ t # "timer"
  BY DEF ServingStep, FakeStep, Runs
<1> HIDE DEF h, S
<1>4. ~Idle(t) /\ Now(t) = SetOutput(v)
  BY <1>1, <1>2, <1>3, GoesNow
<1>5. Now(t).op = "set_output" /\ Now(t).b = v
  BY <1>4 DEF SetOutput, Op
<1>6. set_output(t)
  BY <1>1, <1>3, <1>4, <1>5, StepIs
<1>7. Rec(t).port = p
  BY LineOfDriven DEF ServingStep, FakeStep, Runs, Kept, Records, RecordsInPlace, Node, Rec
<1>8. PICK c : c = Cfg(t) /\ c.type = 0 /\ c.polarity = 0
  BY <1>7 DEF Cfg, ServingStep, FakeStep, Driven
<1>9. PICK x : x = Rec(t).reset
  OBVIOUS
<1>10. SetOutputBranch(c, x, v) = b
  BY <1>8 DEF SetOutputBranch
<1>11. PICK ops : ops = b
  OBVIOUS
<1>12. Proceed(t, ops) /\ UNCHANGED <<records, relays, inputVars, msg_queue, glob>>
  BY <1>5, <1>6, <1>8, <1>9, <1>10, <1>11 DEF set_output
<1>13. PICK o : o = otp[t]
  OBVIOUS
<1>14. Continue(t, ops, o)
  BY <1>12, <1>13 DEF Proceed
<1>15. /\ code'[t] = ops \o (Tail(h) \o r)
       /\ otp'[t] = IF ops \o (Tail(h) \o r) = <<>> THEN NULL ELSE o
  <2>1. Tail(h \o r) = Tail(h) \o r
    BY <1>1, <1>2, TailOfJoin
  <2> QED
    BY <1>1, <1>3, <1>14, <2>1 DEF Continue, Threaded
<1>16. <<>> \o r = r
  BY <1>2
<1> HIDE DEF b
<1>17. ops \o r # <<>>
  BY <1>1, <1>2, <1>11, HeadOfJoin
<1>18. code'[t] = ops \o r /\ otp'[t] = list'[p]
  BY <1>1, <1>12, <1>13, <1>15, <1>16, <1>17 DEF records
<1>19. p \in relays' <=> Answered(p)'
  BY <1>12 DEF Answered, LineOf, inputVars
<1>20. ServingBy(p, v, ops)'
  BY <1>11, <1>18, <1>19 DEF ServingBy, b
<1>21. ServingTo(p, v, r)'
  BY <1>18, <1>20 DEF ServingTo
<1>22. (Recorded(p)' <=> Recorded(p)) /\ KeepsPort(p)
  BY <1>12 DEF Recorded, Node, records, KeepsPort
<1> QED
  BY <1>12, <1>21, <1>22, ServingGoesOn

\* otp->onoff = onoff, which it is already
LEMMA ServingPuts ==
  ASSUME NEW p, NEW v, NEW w, NEW r, ServingStep(p, v, w, r),
         code["fake"] = <<Put("onoff", v), OutOnoff, InsertOtp>> \o r, otp["fake"] = list[p],
         p \in relays <=> Answered(p)
  PROVE  Monitored(p)
<1> DEFINE t == "fake"
           h == <<Put("onoff", v), OutOnoff, InsertOtp>>
           b == <<OutOnoff, InsertOtp>>
           S == {Put("onoff", v), OutOnoff, InsertOtp}
<1>1. /\ t \in Threads /\ h \in Seq(S) /\ h # <<>> /\ Head(h) = Put("onoff", v)
      /\ Tail(h) = b /\ b \in Seq(S) /\ b # <<>>
  BY DEF Threads
<1>2. PICK R : r \in Seq(R)
  BY ServingRest DEF ServingStep
<1>3. Threaded /\ code[t] = h \o r /\ Run(t) /\ t # "timer"
  BY DEF ServingStep, FakeStep, Runs
<1> HIDE DEF h, S, b
<1>4. ~Idle(t) /\ Now(t) = Put("onoff", v)
  BY <1>1, <1>2, <1>3, GoesNow
<1>5. Now(t).op = "put" /\ Now(t).a = "onoff" /\ Now(t).b = v
  BY <1>4 DEF Put, Op
<1>6. WriteField(t)
  BY <1>1, <1>3, <1>4, <1>5, StepIs
<1>7. Write(t, "onoff", v)
  BY <1>5, <1>6 DEF WriteField, At, Now
<1>8. PICK o : o = list[p]
  OBVIOUS
<1>9. /\ heap' = [heap EXCEPT ![o] = [heap[o] EXCEPT !["onoff"] = v]] /\ Proceed(t, <<>>)
      /\ UNCHANGED <<list, relays, inputVars, msg_queue, glob>>
  BY <1>7, <1>8 DEF Write
<1>10. o \in Chunk /\ heap \in [Chunk -> O_DATA] /\ heap[o].port = p
  BY <1>8, LineOfDriven DEF ServingStep, FakeStep, Runs, Kept, Ownership, Records,
                            RecordsInPlace, Node
<1>11. heap'[o].onoff = v /\ heap'[o].port = p /\ \A c \in Chunk \ {o} : heap'[c] = heap[c]
  BY <1>9, <1>10 DEF O_DATA
<1>12. Recorded(p)' <=> Recorded(p)
  <2>1. Recorded(p) <=> v = 1
    BY ControlsAtRest DEF ServingStep, FakeStep
  <2>2. Recorded(p)' <=> v = 1
    BY <1>8, <1>9, <1>11 DEF Recorded, Node
  <2> QED
    BY <2>1, <2>2
<1>13. KeepsPort(p)
  BY <1>10, <1>11 DEF KeepsPort
<1>14. b \o r # <<>>
  BY <1>1, <1>2, HeadOfJoin
<1>15. code'[t] = b \o r /\ otp'[t] = list'[p]
  BY <1>1, <1>2, <1>3, <1>9, <1>14, GoesPast
<1>16. p \in relays' <=> Answered(p)'
  BY <1>9 DEF Answered, LineOf, inputVars
<1>17. PICK ops : ops = b
  OBVIOUS
<1>18. ServingBy(p, v, ops)'
  BY <1>15, <1>16, <1>17 DEF ServingBy, b
<1>19. ServingTo(p, v, r)'
  BY <1>15, <1>17, <1>18 DEF ServingTo
<1> QED
  BY <1>9, <1>12, <1>13, <1>19, ServingGoesOn

\* change_output(otp->port, otp->onoff)
LEMMA ServingSwitches ==
  ASSUME NEW p, NEW v, NEW w, NEW r, ServingStep(p, v, w, r),
         code["fake"] = <<OutOnoff, InsertOtp>> \o r, otp["fake"] = list[p]
  PROVE  Monitored(p)
<1> DEFINE t == "fake"
           h == <<OutOnoff, InsertOtp>>
           b == <<InsertOtp>>
           S == {OutOnoff, InsertOtp}
<1>1. /\ t \in Threads /\ h \in Seq(S) /\ h # <<>> /\ Head(h) = OutOnoff
      /\ Tail(h) = b /\ b \in Seq(S) /\ b # <<>>
  BY DEF Threads
<1>2. PICK R : r \in Seq(R)
  BY ServingRest DEF ServingStep
<1>3. Threaded /\ code[t] = h \o r /\ Run(t) /\ t # "timer"
  BY DEF ServingStep, FakeStep, Runs
<1> HIDE DEF h, S, b
<1>4. ~Idle(t) /\ Now(t) = OutOnoff
  BY <1>1, <1>2, <1>3, GoesNow
<1>5. Now(t).op = "out_onoff"
  BY <1>4 DEF OutOnoff, Op
<1>6. change_output(t)
  BY <1>1, <1>3, <1>4, <1>5, StepIs
<1>7. Relay(t, Rec(t).port, Rec(t).onoff)
  BY <1>5, <1>6 DEF change_output, At, Now
<1>8. Rec(t).port = p /\ Rec(t) = Node(p)
  BY LineOfDriven DEF ServingStep, FakeStep, Runs, Kept, Records, RecordsInPlace, Node, Rec
<1>9. /\ relays' = (IF Recorded(p) THEN relays \cup {p} ELSE relays \ {p}) /\ Proceed(t, <<>>)
      /\ UNCHANGED <<records, inputVars, msg_queue, glob>>
  BY <1>7, <1>8 DEF Relay, Recorded
<1>10. Recorded(p) <=> Asked(p)
  BY ControlsAtRest DEF ServingStep, FakeStep
<1>11. p \in relays' <=> Asked(p)'
  BY <1>9, <1>10 DEF Asked, LineOf, inputVars
<1>12. (Recorded(p)' <=> Recorded(p)) /\ KeepsPort(p)
  BY <1>9 DEF Recorded, Node, records, KeepsPort
<1>13. b \o r # <<>>
  BY <1>1, <1>2, HeadOfJoin
<1>14. code'[t] = b \o r /\ otp'[t] = list'[p]
  BY <1>1, <1>2, <1>3, <1>9, <1>13, GoesPast DEF records
<1>15. PICK ops : ops = b
  OBVIOUS
<1>16. ServingBy(p, v, ops)'
  BY <1>11, <1>14, <1>15 DEF ServingBy, b
<1>17. ServingTo(p, v, r)'
  BY <1>14, <1>15, <1>16 DEF ServingTo
<1> QED
  BY <1>9, <1>12, <1>17, ServingGoesOn

\* ollist_insert_data(otp->port, ...): the argument
LEMMA ServingEvals ==
  ASSUME NEW p, NEW v, NEW w, NEW r, ServingStep(p, v, w, r),
         code["fake"] = <<InsertOtp>> \o r, otp["fake"] = list[p], p \in relays <=> Asked(p)
  PROVE  Monitored(p)
<1> DEFINE t == "fake"
           h == <<InsertOtp>>
           b == <<Insert(p)>>
<1>1. /\ t \in Threads /\ h \in Seq({InsertOtp}) /\ h # <<>> /\ Head(h) = InsertOtp
      /\ Tail(h) = <<>> /\ b \in Seq({Insert(p)}) /\ b # <<>>
  BY DEF Threads
<1>2. PICK R : r \in Seq(R)
  BY ServingRest DEF ServingStep
<1>3. Threaded /\ code[t] = h \o r /\ Run(t) /\ t # "timer"
  BY DEF ServingStep, FakeStep, Runs
<1> HIDE DEF h
<1>4. ~Idle(t) /\ Now(t) = InsertOtp
  BY <1>1, <1>2, <1>3, GoesNow
<1>5. Now(t).op = "insert_otp"
  BY <1>4 DEF InsertOtp, Op
<1>6. EvalPort(t)
  BY <1>1, <1>3, <1>4, <1>5, StepIs
<1>7. Rec(t).port = p
  BY LineOfDriven DEF ServingStep, FakeStep, Runs, Kept, Records, RecordsInPlace, Node, Rec
<1>8. PICK ops : ops = b
  OBVIOUS
<1>9. Proceed(t, ops) /\ UNCHANGED <<records, relays, inputVars, msg_queue, glob>>
  BY <1>6, <1>7, <1>8 DEF EvalPort
<1> HIDE DEF b
<1>10. ops \o r # <<>> /\ Tail(h \o r) = <<>> \o r /\ <<>> \o r = r
  <2>1. ops \o r # <<>>
    BY <1>1, <1>2, <1>8, HeadOfJoin
  <2>2. Tail(h \o r) = Tail(h) \o r
    BY <1>1, <1>2, TailOfJoin
  <2>3. <<>> \o r = r
    BY <1>2
  <2> QED
    BY <1>1, <2>1, <2>2, <2>3
<1>11. code'[t] = ops \o r /\ otp'[t] = list'[p]
  BY <1>1, <1>3, <1>9, <1>10 DEF Proceed, Continue, Threaded, records
<1>12. p \in relays' <=> Asked(p)'
  BY <1>9 DEF Asked, LineOf, inputVars
<1>13. ServingBy(p, v, ops)'
  BY <1>8, <1>11, <1>12 DEF ServingBy, b
<1>14. ServingTo(p, v, r)'
  BY <1>11, <1>13 DEF ServingTo
<1>15. (Recorded(p)' <=> Recorded(p)) /\ KeepsPort(p)
  BY <1>9 DEF Recorded, Node, records, KeepsPort
<1> QED
  BY <1>9, <1>14, <1>15, ServingGoesOn

\* ... and the list: the record moves to another chunk, which the controls thread does not hold.
LEMMA ServingInserts ==
  ASSUME NEW p, NEW v, NEW w, NEW r, ServingStep(p, v, w, r),
         code["fake"] = <<Insert(p)>> \o r, otp["fake"] = list[p], p \in relays <=> Asked(p)
  PROVE  Monitored(p)
<1> DEFINE t == "fake"
           h == <<Insert(p)>>
<1>1. /\ t \in Threads /\ h \in Seq({Insert(p)}) /\ h # <<>> /\ Head(h) = Insert(p)
      /\ Tail(h) = <<>>
  BY DEF Threads
<1>2. PICK R : r \in Seq(R) /\ r # <<>> /\ Head(r).op \in {"find", "status_fake"}
  BY ServingRest DEF ServingStep
<1>3. Threaded /\ code[t] = h \o r /\ Run(t) /\ t # "timer"
  BY DEF ServingStep, FakeStep, Runs
<1> HIDE DEF h
<1>4. ~Idle(t) /\ Now(t) = Insert(p)
  BY <1>1, <1>2, <1>3, GoesNow
<1>5. Now(t).op = "insert" /\ Now(t).a = p
  BY <1>4 DEF Insert, Op
<1>6. ollist_insert_data(t)
  BY <1>1, <1>3, <1>4, <1>5, StepIs
<1>7. PICK o : o = list[p]
  OBVIOUS
<1>8. PICK d \in Chunk : /\ heap' = [heap EXCEPT ![d] = heap[o]]
                         /\ list' = [list EXCEPT ![p] = d]
  BY <1>5, <1>6, <1>7 DEF ollist_insert_data, Rec
<1>9. Proceed(t, <<>>) /\ UNCHANGED <<relays, inputVars, msg_queue, glob>>
  BY <1>6 DEF ollist_insert_data
<1>10. heap'[list'[p]] = heap[list[p]]
  BY <1>7, <1>8, LineOfDriven DEF ServingStep, FakeStep, Runs, Kept, Ownership, Records
<1>11. LineOf(p)' = LineOf(p)
  BY DEF LineOf
<1>12. /\ Asked(p)' <=> Asked(p)
       /\ Answered(p)' <=> Answered(p)
       /\ Recorded(p)' <=> Recorded(p)
  BY <1>9, <1>10, <1>11 DEF Asked, Answered, inputVars, Recorded, Node
<1>13. Wired(p)' /\ Alone(p)'
  BY <1>9, AloneSame DEF ServingStep, FakeStep, Wired, inputVars, fakeVars
<1>14. <<>> \o r = r
  BY <1>2
<1>15. code'[t] = r
  <2>1. code'[t] = Tail(h) \o r
    BY <1>1, <1>2, <1>3, <1>9, GoesPast
  <2> QED
    BY <1>1, <1>14, <2>1
<1>16. Goes(p, t, <<StoreOf(0)>>)'
  <2>1. Placed(p, t)'
    <3>1. Now(t)'.op \in {"find", "status_fake"} /\ ~Idle(t)'
      BY <1>2, <1>15 DEF Now, Idle
    <3> QED
      BY <3>1 DEF Placed, KeepsOff, Early, Late, ClearsSecond
  <2>2. Errand(p, t, w) /\ code'[t] = w \o <<StoreOf(0)>>
    BY <1>15 DEF ServingStep, Rounds
  <2> QED
    BY <2>1, <2>2 DEF Goes
<1>17. FakePart(p)'
  <2>1. p \in relays' <=> Asked(p)'
    BY <1>9, <1>12
  <2> QED
    BY <1>16, <2>1 DEF FakePart, Bank
<1>18. otp["controls"] \notin Chunk
  BY ControlsAtRest DEF ServingStep, FakeStep
<1> QED
  BY <1>9, <1>12, <1>13, <1>17, <1>18 DEF Monitored, KeepsPort

\* The store at the end of the loop body.
LEMMA MonitorStores ==
  ASSUME NEW p, FakeStep(p), NEW b \in Bank, code["fake"] = <<StoreOf(b)>>,
         p \in relays <=> IF b = 0 THEN Asked(p) ELSE Answered(p)
  PROVE  Monitored(p)
<1> DEFINE t == "fake"
           c == <<StoreOf(b)>>
<1>1. /\ t \in Threads /\ c \in Seq({StoreOf(b)}) /\ c # <<>> /\ Head(c) = StoreOf(b)
      /\ Tail(c) = <<>> /\ code[t] = c /\ Threaded
  BY DEF Threads, FakeStep, Runs
<1> HIDE DEF c
<1>2. ~Idle(t) /\ Now(t) = StoreOf(b)
  BY <1>1 DEF Idle, Now
<1>3. Now(t).op = "status_fake" /\ Now(t).a = b
  BY <1>2 DEF StoreOf, Op
<1>4. StoreStatus(t)
  BY <1>1, <1>2, <1>3, StepIs DEF FakeStep
<1>5. /\ fake_inportstatus1' =
              (fake_inportstatus1 \ Lines(b)) \cup (fake_inportstatus2 \cap Lines(b))
      /\ Proceed(t, <<>>)
      /\ UNCHANGED <<records, relays, sw, inportstatus, fake_inportstatus2, msg_queue, glob>>
  BY <1>3, <1>4 DEF StoreStatus, At, Now
<1>6. code'[t] = <<>> /\ otp'[t] = NULL
  BY <1>1, <1>5, Takes DEF Proceed
<1>7. LineOf(p) \in Lines(0) /\ LineOf(p)' = LineOf(p) /\ 0 \in Bank
  BY LineOfDriven DEF FakeStep, LineOf, Bank
<1>8. b # 0 => \A m \in Lines(0) : m \in fake_inportstatus1' <=> m \in fake_inportstatus1
  BY <1>5, <1>7, BanksApart
<1>9. Answered(p)' <=> IF b = 0 THEN Asked(p) ELSE Answered(p)
  BY <1>5, <1>7, <1>8 DEF Asked, Answered
<1>10. (Asked(p)' <=> Asked(p)) /\ (Recorded(p)' <=> Recorded(p))
  BY <1>5, <1>7 DEF Asked, Recorded, Node, records
<1>11. Alone(p)'
  BY <1>5, <1>7, <1>8, <1>9, <1>10 DEF Alone, FakeStep
<1>12. Wired(p)'
  BY <1>5 DEF FakeStep, Wired
<1>13. Goes(p, t, <<>>)'
  <2>1. PICK e : e = <<>>
    OBVIOUS
  <2>2. Errand(p, t, e) /\ code'[t] = e \o <<>>
    BY <1>6, <2>1, ErrandEmpty
  <2>3. Placed(p, t)'
    BY <1>6, OutputAssumption DEF Placed, Idle
  <2> QED
    BY <2>2, <2>3 DEF Goes
<1>14. FakePart(p)'
  BY <1>5, <1>9, <1>13 DEF FakePart
<1> QED
  BY <1>5, <1>9, <1>10, <1>11, <1>12, <1>14 DEF Monitored, KeepsPort, records

\* Between two handlers, a thread but for the timer polls, fetches a command or returns.
LEMMA IdleRuns ==
  ASSUME NEW t \in Threads, Idle(t), Run(t)
  PROVE  \/ Return(t) /\ t # "timer"
         \/ t = "inputs" /\ \E b \in Bank : monitor_input_task(b)
         \/ t = "fake" /\ \E b \in Bank : monitor_fake_input_task(b)
         \/ t = "timer" /\ timer_task
         \/ t = "controls" /\ basic_controls_task
<1>1. Step(t) => Return(t) /\ t # "timer"
  BY DEF Step, ollist_find_data, ollist_insert_data, EvalPort, WriteField, IfResetIsZero,
         set_output, change_output, change_input, ClearFakeInput, StoreFake, add_msg_queue,
         AssignGlobal, StoreStatus, Wake, Return, At
<1>2. t = "timer" /\ TimerStep => timer_task
  BY DEF TimerStep, RunTime, Countdown, EndBlinkerTests, TestTimed, Count, TimerLoop, At
<1> QED
  BY <1>1, <1>2 DEF Run, Polling

\* The monitor goes through the outputs, with z to follow.
LEMMA MonitorErrand ==
  ASSUME NEW p, FakeStep(p), NEW S, NEW z \in Seq(S),
         z # <<>> => Head(z).op \in {"find", "status_fake"},
         Goes(p, "fake", z), code["fake"] # z
  PROVE  /\ Goes(p, "fake", z)' /\ Leaves(p) /\ UNCHANGED glob
         /\ FakePart(p)' => Monitored(p)
BY FakeErrand DEF Spared, Monitored, Leaves

\* Between two changes.
LEMMA MonitorPolls ==
  ASSUME NEW p, FakeStep(p), Goes(p, "fake", <<>>), p \in relays <=> Answered(p)
  PROVE  Monitored(p)
<1> DEFINE t == "fake"
<1>0. t \in Threads /\ Run(t)
  BY DEF Threads, FakeStep
<1>1. CASE ~Idle(t)
  <2>1. PICK z : z = <<>>
    OBVIOUS
  <2>2. z \in Seq({}) /\ Goes(p, t, z) /\ code[t] # z
    BY <1>1, <2>1 DEF Idle
  <2>3. Goes(p, t, z)' /\ Leaves(p) /\ (FakePart(p)' => Monitored(p))
    BY <2>1, <2>2, MonitorErrand
  <2>4. Goes(p, t, <<>>)' /\ (p \in relays' <=> Answered(p)')
    BY <2>1, <2>3 DEF Leaves
  <2> QED
    BY <2>3, <2>4 DEF FakePart
<1>2. CASE Idle(t) /\ Return(t)
  <2>1. /\ code' = [code EXCEPT ![t] = <<Exit>>]
        /\ UNCHANGED <<records, otp, relays, inputVars, msg_queue, glob>>
    BY <1>2 DEF Return
  <2>2. Leaves(p) /\ Wired(p)' /\ Alone(p)'
    BY <2>1, MovingSpares DEF FakeStep
  <2>3. code'[t] = <<Exit>> /\ (p \in relays' <=> Answered(p)')
    BY <1>0, <2>1, <2>2 DEF FakeStep, Runs, Threaded, Leaves
  <2> QED
    BY <2>2, <2>3 DEF Monitored, FakePart, Leaves, KeepsPort
<1>3. CASE Idle(t) /\ \E b \in Bank : monitor_fake_input_task(b)
  <2>1. PICK b \in Bank : monitor_fake_input_task(b)
    BY <1>3
  <2> QED
    BY <2>1, MonitorElsewhere, MonitorHere
<1> QED
  BY <1>0, <1>1, <1>2, <1>3, IdleRuns

\* In the loop over ip[], with its store to follow.
LEMMA MonitorServes ==
  ASSUME NEW p, FakeStep(p), NEW b \in Bank, Goes(p, "fake", <<StoreOf(b)>>),
         p \in relays <=> IF b = 0 THEN Asked(p) ELSE Answered(p)
  PROVE  Monitored(p)
<1> DEFINE t == "fake"
<1>1. PICK z : z = <<StoreOf(b)>>
  OBVIOUS
<1>2. CASE code[t] = z
  BY <1>1, <1>2, MonitorStores
<1>3. CASE code[t] # z
  <2>1. z \in Seq({StoreOf(b)}) /\ Head(z).op = "status_fake"
    BY <1>1 DEF StoreOf, Op
  <2>2. Goes(p, t, z)' /\ Leaves(p) /\ (FakePart(p)' => Monitored(p))
    BY <1>1, <1>3, <2>1, MonitorErrand
  <2>3. Goes(p, t, <<StoreOf(b)>>)' /\ (p \in relays' <=> IF b = 0 THEN Asked(p)' ELSE Answered(p)')
    BY <1>1, <2>2 DEF Leaves
  <2> QED
    BY <2>2, <2>3 DEF FakePart
<1> QED
  BY <1>2, <1>3

\* Whatever the monitor of the software inputs does.
LEMMA FakeKeeps ==
  ASSUME NEW p, FakeStep(p), FakePart(p)
  PROVE  Monitored(p)
<1> DEFINE t == "fake"
<1>1. code[t] # <<Exit>>
  <2> SUFFICES ASSUME code[t] = <<Exit>>
               PROVE  FALSE
    OBVIOUS
  <2>1. ~Idle(t) /\ Now(t) = Exit
    BY DEF Idle, Now
  <2>2. Now(t).op = "exit"
    BY <2>1 DEF Exit, Op
  <2> QED
    BY <2>1, <2>2, StepIs DEF FakeStep, Threads
<1>2. CASE Serving(p)
  <2>1. PICK v, w : /\ v \in {0, 1} /\ Rounds(p, t, w) /\ (v = 1 <=> Asked(p))
                    /\ ServingTo(p, v, w \o <<StoreOf(0)>>)
    BY <1>2 DEF Serving
  <2>2. PICK r : r = w \o <<StoreOf(0)>>
    OBVIOUS
  <2>3. ServingStep(p, v, w, r) /\ ServingTo(p, v, r)
    BY <1>2, <2>1, <2>2 DEF ServingStep, Serving
  <2>4. CASE \E ops : ServingBy(p, v, ops) /\ code[t] = ops \o r
    BY <2>3, <2>4, ServingSetsOutput, ServingPuts, ServingSwitches, ServingEvals, ServingInserts
       DEF ServingBy
  <2>5. CASE Goes(p, t, <<Find(p), SetOutput(v)>> \o r) /\ (p \in relays <=> Answered(p))
    <3>1. PICK h, z : h = <<Find(p), SetOutput(v)>> /\ z = h \o r
      OBVIOUS
    <3>2. PICK R : r \in Seq(R)
      BY <2>3, ServingRest DEF ServingStep
    <3>3. h \in Seq({Find(p), SetOutput(v)}) /\ h # <<>> /\ Head(h).op = "find"
      BY <3>1, ServingOps
    <3>4. z \in Seq({Find(p), SetOutput(v)} \cup R) /\ Head(z).op = "find"
      BY <3>1, <3>2, <3>3, HeadOfJoin
    <3>5. CASE code[t] = z
      BY <2>3, <2>5, <3>1, <3>5, ServingFinds
    <3>6. CASE code[t] # z
      <4>1. Goes(p, t, z)' /\ Leaves(p) /\ UNCHANGED glob /\ (FakePart(p)' => Monitored(p))
        BY <2>5, <3>1, <3>4, <3>6, MonitorErrand
      <4>2. ServingTo(p, v, r)'
        BY <2>5, <3>1, <4>1 DEF ServingTo, Leaves
      <4>3. glob'.shutdown_all = 0
        BY <2>3, <4>1 DEF ServingStep
      <4>4. Serving(p)'
        BY <2>1, <2>2, <4>1, <4>2, <4>3, <2>3 DEF Serving, Leaves, ServingStep
      <4> QED
        BY <4>1, <4>4 DEF FakePart
    <3> QED
      BY <3>5, <3>6
  <2> QED
    BY <2>3, <2>4, <2>5 DEF ServingTo
<1> QED
  BY <1>1, <1>2, MonitorPolls, MonitorServes DEF FakePart

--------------------------------------------------------------------------------
(* All four threads *)

\* The monitor of the switches and the timer have nothing to do with p.
LEMMA ErrandRuns ==
  ASSUME NEW p, Driven(p), NEW t \in {"inputs", "timer"}, Runs(t), Wired(p), Alone(p),
         t # "timer" => ~AtSecond, Goes(p, t, <<>>), Run(t)
  PROVE  Spared(p, t, <<>>)
<1>0. t \in Threads
  BY DEF Threads
<1>1. CASE Idle(t)
  BY <1>0, <1>1, IdleRuns, InputsStart, TimerStart, ReturnSpares DEF Runs
<1>2. CASE ~Idle(t)
  <2>1. PICK u : u = code[t]
    OBVIOUS
  <2>2. u # <<>> /\ Errand(p, t, u) /\ Placed(p, t)
    BY <1>2, <2>1, NowGoes DEF Idle
  <2>3. Now(t).op # "exit"
    BY <1>0, <1>2, StepIs
  <2>4. PICK z : z = <<>>
    OBVIOUS
  <2>5. z \in Seq({}) /\ u = u \o z
    BY <2>2, <2>4 DEF Errand
  <2>6. Doing(p, t, u, z)
    BY <2>1, <2>2, <2>3, <2>4, <2>5 DEF Doing, Now
  <2>7. Spared(p, t, z)
    BY <1>0, <2>6, RunSpares
  <2> QED
    BY <2>4, <2>7
<1> QED
  BY <1>1, <1>2

\* A timer that sleeps is not between its two registers.
LEMMA TimerSleeps ==
  ASSUME ~Busy("timer")
  PROVE  ~AtSecond
BY DEF Busy, AtSecond, ClearsSecond, Now

\* A step of one of the threads.
LEMMA RunKeepsInStep ==
  ASSUME ~Preempt, Timely, IInv, NEW p, Driven(p), InStep(p), NEW t \in Threads, Run(t)
  PROVE  InStep(p)'
<1>1. Outlined(t) /\ \A u \in Threads \ {t} : ~Busy(u)
  BY RunNeedsProcessor, Runner DEF Rests
<1>2. Runs(t) /\ Threaded
  BY <1>1 DEF IInv, Runs, Kept
<1>3. \A u \in Threads \ {t} : Stays(u)
  BY <1>2, OthersStay
<1>4. t # "timer" => ~AtSecond
  BY <1>1, TimerSleeps DEF Threads
<1>5. \A u \in {"inputs", "timer"} \ {t} : Goes(p, u, <<>>)'
  <2> SUFFICES ASSUME NEW u \in {"inputs", "timer"} \ {t}
               PROVE  Goes(p, u, <<>>)'
    OBVIOUS
  <2>1. u \in Threads \ {t} /\ u # "controls"
    BY DEF Threads
  <2>2. Goes(p, u, <<>>)
    BY DEF InStep
  <2> QED
    BY <1>1, <1>3, <2>1, <2>2, GoesStill
<1>6. CASE t \in {"inputs", "timer"}
  <2>1. Spared(p, t, <<>>)
    BY <1>2, <1>4, <1>6, ErrandRuns DEF InStep
  <2>2. Leaves(p) /\ Wired(p)' /\ Alone(p)' /\ Goes(p, t, <<>>)'
    BY <2>1 DEF Spared
  <2>3. {"fake", "controls"} \subseteq Threads \ {t}
    BY <1>6 DEF Threads
  <2>4. FakePart(p)'
    BY <1>1, <1>3, <2>2, <2>3, FakeStill DEF InStep, Leaves
  <2>5. KeepsPort(p)
    BY <2>2 DEF KeepsPort, Leaves
  <2>6. ControlsPart(p)'
    BY <1>1, <1>3, <2>2, <2>3, <2>5, ControlsStill DEF InStep, Leaves
  <2>7. Goes(p, "inputs", <<>>)' /\ Goes(p, "timer", <<>>)'
    BY <1>5, <1>6, <2>2
  <2> QED
    BY <2>2, <2>4, <2>6, <2>7 DEF InStep
<1>7. CASE t = "fake"
  <2>1. "controls" \in Threads \ {t}
    BY <1>7 DEF Threads
  <2>2. FakeStep(p)
    BY <1>1, <1>2, <1>4, <1>7, <2>1 DEF FakeStep, InStep
  <2>3. Monitored(p)
    BY <2>2, FakeKeeps DEF InStep
  <2>4. ControlsPart(p)'
    BY <1>1, <1>3, <2>1, <2>3, ControlsStill DEF InStep, Monitored
  <2>5. Goes(p, "inputs", <<>>)' /\ Goes(p, "timer", <<>>)'
    BY <1>5, <1>7
  <2> QED
    BY <2>3, <2>4, <2>5 DEF InStep, Monitored
<1>8. CASE t = "controls"
  <2>1. "fake" \in Threads \ {t}
    BY <1>8 DEF Threads
  <2>2. DriveStep(p)
    BY <1>2, <1>4, <1>8 DEF DriveStep, InStep
  <2>3. Controlled(p)
    BY <2>2, ControlsKeeps DEF InStep
  <2>4. FakePart(p)'
    BY <1>1, <1>3, <2>1, <2>3, FakeStill DEF InStep, Controlled
  <2>5. Goes(p, "inputs", <<>>)' /\ Goes(p, "timer", <<>>)'
    BY <1>5, <1>8
  <2> QED
    BY <2>3, <2>4, <2>5 DEF InStep, Controlled
<1> QED
  BY <1>6, <1>7, <1>8 DEF Threads

\* The driver, the host and the serial line, while all threads sleep.
LEMMA QuietKeepsInStep ==
  ASSUME NEW p, InStep(p), Quiet, UNCHANGED <<records, otp, code, relays, fakeVars>>, Wired(p)',
         glob'.shutdown_all = 0 => glob.shutdown_all = 0
  PROVE  InStep(p)'
<1>1. \A t \in Threads : Stays(t) /\ ~Busy(t)
  BY DEF Stays, Quiet
<1>2. ~AtSecond
  BY <1>1, TimerSleeps DEF Threads
<1>3. Alone(p)'
  BY <1>2, AloneSame DEF InStep
<1>4. LineOf(p)' = LineOf(p)
  BY DEF LineOf
<1>5. /\ Asked(p)' <=> Asked(p)
      /\ Answered(p)' <=> Answered(p)
      /\ Recorded(p)' <=> Recorded(p)
  BY <1>4 DEF Asked, Answered, Recorded, Node, records, fakeVars
<1>6. KeepsPort(p)
  BY DEF KeepsPort, records
<1>7. "inputs" \in Threads /\ "timer" \in Threads /\ "fake" \in Threads /\ "controls" \in Threads
  BY DEF Threads
<1>8. Goes(p, "inputs", <<>>)' /\ Goes(p, "timer", <<>>)'
  BY <1>1, <1>7, GoesStill DEF InStep
<1>9. FakePart(p)'
  BY <1>1, <1>5, <1>7, FakeStill DEF InStep
<1>10. ControlsPart(p)'
  BY <1>1, <1>5, <1>6, <1>7, ControlsStill DEF InStep
<1> QED
  BY <1>3, <1>8, <1>9, <1>10 DEF InStep

\* A command is queued.
LEMMA CommandKeepsInStep ==
  ASSUME ~Preempt, NEW p, InStep(p), NEW cmd, cmd \notin BlinkerTests, Command(cmd)
  PROVE  InStep(p)'
<1>1. Quiet
  BY DEF Command, HostRuns, Quiet
<1>2. UNCHANGED <<records, otp, code, relays, inputVars, glob>> /\ msg_queue' = Enqueue(cmd)
  BY DEF Command
<1>3. PICK S : msg_queue \in Seq(S \ BlinkerTests)
  BY DEF InStep, Wired
<1>4. \E T : msg_queue' \in Seq(T \ BlinkerTests)
  <2> DEFINE T == S \cup {cmd}
  <2>1. msg_queue \in Seq(T \ BlinkerTests) /\ cmd \in T \ BlinkerTests
    BY <1>3
  <2>2. msg_queue' \in Seq(T \ BlinkerTests)
    BY <1>2, <2>1 DEF Enqueue
  <2> QED
    BY <2>2
<1>5. Wired(p)'
  BY <1>2, <1>4 DEF InStep, Wired, inputVars
<1> QED
  BY <1>1, <1>2, <1>5, QuietKeepsInStep DEF inputVars, fakeVars

\* The host ends the program.
LEMMA ExitKeepsInStep ==
  ASSUME ~Preempt, IInv, NEW p, InStep(p), ExitProgram
  PROVE  InStep(p)'
<1>1. Quiet
  BY DEF ExitProgram, HostRuns, Quiet
<1>2. /\ glob' = [glob EXCEPT !.shutdown_all = 1] /\ glob.shutdown_all = 0
      /\ UNCHANGED <<records, otp, code, relays, inputVars, msg_queue>>
  BY DEF ExitProgram
<1>3. /\ glob'.shutdown_all = 1
      /\ glob'.test_lblinkers = glob.test_lblinkers /\ glob'.test_rblinkers = glob.test_rblinkers
  BY <1>2 DEF IInv, Globals, Global
<1>4. Wired(p)'
  BY <1>2, <1>3 DEF InStep, Wired, inputVars
<1> QED
  BY <1>1, <1>2, <1>3, <1>4, QuietKeepsInStep DEF inputVars, fakeVars

\* The driver moves switches.
LEMMA DashKeepsInStep ==
  ASSUME ~Preempt, NEW p, Driven(p), InStep(p), NEW S \in SUBSET Switches, Dash(S)
  PROVE  InStep(p)'
<1>1. Quiet
  BY DEF Dash, CanRun, Quiet, Busy
<1>2. /\ sw' \subseteq sw \cup {Line(i) : i \in S}
      /\ UNCHANGED <<records, otp, code, relays, inportstatus, fakeVars, msg_queue, glob>>
  BY DEF Dash
<1>3. {Line(i) : i \in S} \subseteq OtherLines(p)
  BY OutputAssumption DEF OtherLines, Driven
<1>4. Wired(p)'
  BY <1>2, <1>3 DEF InStep, Wired, fakeVars
<1> QED
  BY <1>1, <1>2, <1>4, QuietKeepsInStep

\* A step that changes nothing leaves every errand as it is.
LEMMA GoesSame ==
  ASSUME NEW p, NEW t, NEW z, Goes(p, t, z), UNCHANGED vars
  PROVE  Goes(p, t, z)'
<1>1. PICK u : Errand(p, t, u) /\ code[t] = u \o z
  BY DEF Goes
<1>2. code'[t] = u \o z
  BY <1>1 DEF vars
<1>3. Placed(p, t)'
  <2>1. PICK o, c, s : o = otp[t] /\ c = code[t] /\ s = Head(c)
    OBVIOUS
  <2>2. otp'[t] = o /\ code'[t] = c
    BY <2>1 DEF vars
  <2>3. c = <<>> => o \notin Chunk
    BY <2>1 DEF Goes, Placed, Idle
  <2>4. c # <<>> => KeepsOff(p, t, s, o)
    BY <2>1 DEF Goes, Placed, Idle, Now
  <2>5. KeepsOff(p, t, s, o) => KeepsOff(p, t, s, o)'
    BY DEF KeepsOff, Asked, Type, vars
  <2> QED
    BY <2>1, <2>2, <2>3, <2>4, <2>5 DEF Placed, Idle, Now
<1> QED
  BY <1>1, <1>2, <1>3 DEF Goes

\* ... and what is true of p and of the software inputs.
LEMMA FactsSame ==
  ASSUME NEW p, UNCHANGED vars
  PROVE  /\ Asked(p)' <=> Asked(p)
         /\ Answered(p)' <=> Answered(p)
         /\ Recorded(p)' <=> Recorded(p)
         /\ Level(p)' <=> Level(p)
         /\ p \in relays' <=> p \in relays
BY DEF Asked, Answered, Recorded, Level, Node, LineOf, vars

\* ... and the monitor in the middle of a change of p's input.
LEMMA ServingSame ==
  ASSUME NEW p, Serving(p), UNCHANGED vars
  PROVE  Serving(p)'
<1>1. PICK v, w : /\ v \in {0, 1} /\ Rounds(p, "fake", w) /\ (v = 1 <=> Asked(p))
                  /\ ServingTo(p, v, w \o <<StoreOf(0)>>)
  BY DEF Serving
<1>2. PICK r : r = w \o <<StoreOf(0)>>
  OBVIOUS
<1>3. ServingTo(p, v, r)'
  <2>1. CASE Goes(p, "fake", <<Find(p), SetOutput(v)>> \o r) /\ (p \in relays <=> Answered(p))
    <3>1. PICK z : z = <<Find(p), SetOutput(v)>> \o r
      OBVIOUS
    <3>2. Goes(p, "fake", z)'
      BY <2>1, <3>1, GoesSame
    <3> QED
      BY <2>1, <3>1, <3>2, FactsSame DEF ServingTo
  <2>2. CASE \E ops : ServingBy(p, v, ops) /\ code["fake"] = ops \o r
    <3>1. PICK ops : ServingBy(p, v, ops) /\ code["fake"] = ops \o r
      BY <2>2
    <3>2. ServingBy(p, v, ops)'
      BY <3>1, FactsSame DEF ServingBy, vars
    <3> QED
      BY <3>1, <3>2 DEF ServingTo, vars
  <2> QED
    BY <1>1, <1>2, <2>1, <2>2 DEF ServingTo
<1> QED
  BY <1>1, <1>2, <1>3, FactsSame DEF Serving, vars

\* ... and wherever else the monitor of the software inputs is.
LEMMA FakePartSame ==
  ASSUME NEW p, FakePart(p), UNCHANGED vars
  PROVE  FakePart(p)'
<1>1. CASE Goes(p, "fake", <<>>) /\ (p \in relays <=> Answered(p))
  BY <1>1, GoesSame, FactsSame DEF FakePart
<1>2. CASE code["fake"] = <<Exit>> /\ (p \in relays <=> Answered(p))
  BY <1>2, FactsSame DEF FakePart, vars
<1>3. CASE \E b \in Bank : /\ Goes(p, "fake", <<StoreOf(b)>>)
                           /\ p \in relays <=> IF b = 0 THEN Asked(p) ELSE Answered(p)
  <2>1. PICK b \in Bank : /\ Goes(p, "fake", <<StoreOf(b)>>)
                          /\ p \in relays <=> IF b = 0 THEN Asked(p) ELSE Answered(p)
    BY <1>3
  <2>2. PICK z : z = <<StoreOf(b)>>
    OBVIOUS
  <2>3. Goes(p, "fake", z)'
    BY <2>1, <2>2, GoesSame
  <2> QED
    BY <2>1, <2>2, <2>3, FactsSame DEF FakePart
<1>4. CASE Serving(p)
  BY <1>4, ServingSame DEF FakePart
<1> QED
  BY <1>1, <1>2, <1>3, <1>4 DEF FakePart

\* ... and the controls thread.
LEMMA ControlsPartSame ==
  ASSUME NEW p, ControlsPart(p), UNCHANGED vars
  PROVE  ControlsPart(p)'
<1>1. CASE Goes(p, "controls", <<>>) /\ Waited(p) /\ (Recorded(p) <=> Asked(p))
  <2>1. Waited(p)'
    BY <1>1, FactsSame DEF Waited, Busy, Idle, vars
  <2> QED
    BY <1>1, <2>1, GoesSame, FactsSame DEF ControlsPart
<1>2. CASE Driving(p)
  <2>1. PICK v, c, o : /\ v \in {0, 1} /\ c = code["controls"] /\ o = otp["controls"]
                       /\ DrivingTo(p, v, c, o)
    BY <1>2 DEF Driving
  <2>2. DrivingTo(p, v, c, o)'
    <3>1. list' = list /\ UNCHANGED fakeVars
      BY DEF vars, fakeVars
    <3>2. ASSUME NEW s, Loaded2(p, v, s)
          PROVE  Loaded2(p, v, s)'
      BY <3>1, <3>2 DEF Loaded2, fakeVars
    <3> QED
      BY <2>1, <3>1, <3>2, FactsSame DEF DrivingTo
  <2>3. code'["controls"] = c /\ otp'["controls"] = o
    BY <2>1 DEF vars
  <2> QED
    BY <2>1, <2>2, <2>3 DEF ControlsPart, Driving
<1> QED
  BY <1>1, <1>2 DEF ControlsPart

\* So a step that changes nothing keeps all of it.
LEMMA InStepSame ==
  ASSUME NEW p, InStep(p), UNCHANGED vars
  PROVE  InStep(p)'
<1>1. Wired(p)' /\ Alone(p)'
  BY FactsSame DEF InStep, Wired, Alone, AtSecond, Cleared, Idle, Now, Rec, vars
<1> QED
  BY <1>1, GoesSame, FakePartSame, ControlsPartSame DEF InStep

--------------------------------------------------------------------------------
(* The invariant *)

\* Every step of sched keeps p in step.
LEMMA NextKeepsInStep ==
  ASSUME ~Preempt, Timely, BlinkerTests \cap Commands = {},
         IInv, NEW p, Driven(p), InStep(p), [Next]_vars
  PROVE  InStep(p)'
<1>1. CASE \E t \in Threads : Run(t)
  BY <1>1, RunKeepsInStep
<1>2. CASE \E cmd \in Commands : Command(cmd)
  BY <1>2, CommandKeepsInStep
<1>3. CASE ExitProgram
  BY <1>3, ExitKeepsInStep
<1>4. CASE \E S \in SUBSET Switches : Dash(S)
  BY <1>4, DashKeepsInStep
<1>5. CASE UNCHANGED vars
  BY <1>5, InStepSame
<1> QED
  BY <1>1, <1>2, <1>3, <1>4, <1>5 DEF Next

\* At the start everything is off.
LEMMA InitInStep ==
  ASSUME Init, NEW p, Driven(p)
  PROVE  InStep(p)
<1>1. \A t \in Threads : code[t] = <<>> /\ otp[t] \notin Chunk
  BY OutputAssumption DEF Init
<1>2. \A t \in Threads : Goes(p, t, <<>>)
  <2> SUFFICES ASSUME NEW t \in Threads
               PROVE  Goes(p, t, <<>>)
    OBVIOUS
  <2>1. PICK e : e = <<>>
    OBVIOUS
  <2>2. Errand(p, t, e) /\ code[t] = e \o <<>>
    BY <1>1, <2>1, ErrandEmpty
  <2>3. Placed(p, t)
    BY <1>1 DEF Placed, Idle
  <2> QED
    BY <2>2, <2>3 DEF Goes
<1>3. Wired(p)
  <2>1. msg_queue \in Seq({} \ BlinkerTests)
    BY DEF Init
  <2> QED
    BY <2>1 DEF Init, Wired
<1>4. ~Asked(p) /\ ~Answered(p) /\ p \notin relays
  BY DEF Init, Asked, Answered
<1>5. ~Recorded(p)
  <2>1. p \in Output
    BY DEF Driven
  <2>2. Loaded[p] \in Chunk /\ \A q \in Output : Loaded[q] = Loaded[p] => q = p
    BY <2>1, LoadedOwnership
  <2> QED
    BY <2>2 DEF Init, Recorded, Node
<1>6. FakePart(p) /\ ControlsPart(p) /\ Alone(p)
  BY <1>1, <1>2, <1>4, <1>5 DEF FakePart, ControlsPart, Waited, Busy, Idle, Alone, Threads
<1> QED
  BY <1>2, <1>3, <1>6 DEF InStep, Threads

\* When all threads sleep and all changes are served, nothing is left to do.
LEMMA RestInStep ==
  ASSUME NEW p, Driven(p), InStep(p), AtRest
  PROVE  /\ Recorded(p) <=> p \in relays
         /\ p \in relays <=> Answered(p)
<1>1. code["fake"] = <<>> /\ code["controls"] = <<>>
  BY DEF AtRest, Idle, Threads
<1>2. p \in relays <=> Answered(p)
  BY <1>1, FakeRests DEF InStep, Busy, Idle
<1>3. Recorded(p) <=> Asked(p)
  BY <1>1, ControlsAtRest DEF InStep, Busy, Idle
<1>4. Asked(p) <=> Answered(p)
  BY SettledLevel, LineOfDriven DEF InStep, AtRest, Asked, Answered
<1> QED
  BY <1>2, <1>3, <1>4

(* Once all that was sent has been served, the record, the relay and the     *)
(* software input of the fan and of the running lights agree, for every set  *)
(* of outputs, every queue length, every backlog and every second of the     *)
(* countdown.  The hypotheses: they are wired as in odata.csv, and the host  *)
(* does not send the two tests of the blinkers, which can undo a command     *)
(* that is still to be served (see InputDrivenInStep).                       *)
THEOREM InputDrivenStaysInStep ==
  ASSUME ~Preempt, Timely, BlinkerTests \cap Commands = {},
         \A p \in Output \cap Followers : odata[p].input_port \notin Switches => Driven(p)
  PROVE  Spec => []InputDrivenInStep
<1> DEFINE AllInStep == \A p : Driven(p) => InStep(p)
<1>1. Init => AllInStep
  BY InitInStep
<1>2. IInv /\ AllInStep /\ [Next]_vars => AllInStep'
  BY NextKeepsInStep DEF Driven
<1>3. AllInStep => InputDrivenInStep
  <2> SUFFICES ASSUME AllInStep, AtRest, NEW p \in Output \cap {COOLINGFAN, RUNNINGLIGHTS},
                      odata[p].input_port \notin Switches
               PROVE  /\ (Node(p).onoff = 1) <=> (p \in relays)
                      /\ p \in relays <=> Line(odata[p].input_port) \in fake_inportstatus1
    BY DEF InputDrivenInStep
  <2>1. Driven(p)
    BY DEF Followers
  <2> QED
    BY <2>1, RestInStep DEF Recorded, Answered, LineOf
<1> HIDE DEF AllInStep
<1> QED
  BY <1>1, <1>2, <1>3, OneThreadRuns, PTL DEF Spec
================================================================================
