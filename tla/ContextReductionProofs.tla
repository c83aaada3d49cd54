------------------------ MODULE ContextReductionProofs ------------------------
(***************************************************************************)
(* What a Thread's requests and checkpoints never lose (ContextReduction),   *)
(* for messages of any size, any limits and any number of messages and       *)
(* crashes.  The sizes decide only which of the selections is taken; that a  *)
(* selection is made of whole units, spares the newest interaction and lies  *)
(* beyond the checkpoint is proved of all of them.                          *)
(***************************************************************************)
EXTENDS ContextReduction, FiniteSetTheorems, SequenceTheorems, WellFoundedInduction, TLAPS

Role == {"user", "assistant", "tool"}
Entry == [role : Role, size : Nat, calls : Nat, call : Nat \X Nat]
Open(h, i) == h[i].calls > 0 /\ ~Answered(h, i)

(* A tool message makes no calls and answers a call made before it. *)
Replies(h, j) == h[j].calls = 0 /\ h[j].call[1] \in 1..(j - 1) /\ h[h[j].call[1]].calls > 0
WellFormed(h) == h \in Seq(Entry) /\ \A j \in DOMAIN h : h[j].role = "tool" => Replies(h, j)

(* The history g goes on from h: results are new for open calls only. *)
Grows(h, g) ==
    /\ g \in Seq(Entry) /\ Len(h) <= Len(g)
    /\ \A i \in DOMAIN h : g[i] = h[i]
    /\ \A j \in (Len(h) + 1)..Len(g) : g[j].role = "tool" =>
          g[j].calls = 0 /\ g[j].call[1] \in DOMAIN h /\ Open(h, g[j].call[1])

(* A checkpoint covers closed units only, knows what it covers and leaves the  *)
(* interaction at the end alone.                                              *)
Stands(c, h) ==
    /\ c.covered \in 0..Len(h)
    /\ c.covered > 0 => \E u \in Units(h) : Closed(h, u) /\ UnitEnd(h, u) = c.covered
    /\ c.prefix = SubSeq(h, 1, c.covered)
    /\ h # <<>> /\ IsTool(h, Max(Units(h))) => c.covered < Max(Units(h))

(* The batch b is the newest, and has the results of its first calls. *)
InBatch(h, b) ==
    /\ b \in DOMAIN h /\ h[b].calls > 0
    /\ \A i \in DOMAIN h : h[i].calls > 0 => i <= b
    /\ {h[j].call[2] : j \in Results(h, b)} = 1..Cardinality(Results(h, b))
    /\ Cardinality(Results(h, b)) < h[b].calls

(* The invariant: what the record and the store hold, and what each phase of a  *)
(* Turn knows.                                                                *)
HistoryInv == WellFormed(history) /\ WellFormed(saved.history)
CheckpointInv ==
    /\ saved.checkpoint = checkpoint
    /\ Stands(checkpoint, history) /\ Stands(checkpoint, saved.history)
PhaseInv ==
    /\ phase # "idle" => history # <<>>
    /\ phase = "tools" => \E b \in DOMAIN history : InBatch(history, b)
    /\ phase = "compacting" => plan.tail = Kept /\ plan.source = Sent /\ Sent # {}
    /\ request # NoRequest => phase = "stream"
ReductionInv == HistoryInv /\ CheckpointInv /\ PhaseInv /\ FreshShown

(* With a model that answers no open call interactions do not overlap, and the *)
(* request being answered shows every open call.                               *)
Alone(h) ==
    \A i, j \in DOMAIN h : i < j /\ h[i].calls > 0 /\ h[j].calls > 0 => UnitEnd(h, i) < j
OpenShown ==
    phase = "stream" => \A i \in DOMAIN history : Open(history, i) => i \in request.shown
StrictInv == Alone(history) /\ Alone(saved.history) /\ PairsWhole /\ OpenShown
-----------------------------------------------------------------------------
(* A set of natural numbers has a least element. *)
LEMMA Least ==
    ASSUME NEW T \in SUBSET Nat, T # {}
    PROVE  \E x \in T : \A y \in T : x <= y
<1>1. PICK x \in T : \A y \in T : ~ (<<y, x>> \in OpToRel(<, Nat))
  BY WFMin, NatLessThanWellFounded
<1>2. \A y \in T : ~(y < x)
  BY <1>1 DEF OpToRel
<1>3. QED
  BY <1>2

(* A bounded one has a greatest, which is its Max. *)
LEMMA MaxIn ==
    ASSUME NEW n \in Nat, NEW S \in SUBSET (0..n), S # {}
    PROVE  Max(S) \in S /\ \A x \in S : x <= Max(S)
<1> DEFINE T == {m \in 0..n : n - m \in S}
<1>1. T \in SUBSET Nat /\ T # {}
  <2>1. PICK x \in S : TRUE
    OBVIOUS
  <2>2. x \in 0..n /\ n - (n - x) = x
    BY <2>1
  <2>3. n - x \in T
    BY <2>1, <2>2
  <2>4. \A m \in T : m \in Nat
    OBVIOUS
  <2> HIDE DEF T
  <2>5. QED
    BY <2>3, <2>4
<1> HIDE DEF T
<1>2. PICK t \in T : \A y \in T : t <= y
  BY <1>1, Least
<1>3. n - t \in S /\ t \in 0..n
  BY <1>2 DEF T
<1>4. \A x \in S : x <= n - t
  <2>1. TAKE x \in S
  <2>2. n - x \in T
    BY DEF T
  <2>3. QED
    BY <2>2, <1>2, <1>3
<1>5. QED
  BY <1>3, <1>4 DEF Max

(* The messages of a history have their types. *)
LEMMA EntryFacts ==
    ASSUME NEW h \in Seq(Entry)
    PROVE  /\ DOMAIN h = 1..Len(h) /\ Len(h) \in Nat
           /\ \A j \in 1..Len(h) : /\ h[j] \in Entry /\ h[j].calls \in Nat
                                   /\ h[j].call \in Nat \X Nat
<1> DEFINE E == Entry
<1> HIDE DEF E
<1>1. h \in Seq(E)
  BY DEF E
<1>2. DOMAIN h = 1..Len(h) /\ Len(h) \in Nat /\ \A j \in 1..Len(h) : h[j] \in E
  BY <1>1, LenProperties, ElementOfSeq
<1>3. \A m \in Entry : m.calls \in Nat /\ m.call \in Nat \X Nat
  BY DEF Entry
<1>4. QED
  BY <1>2, <1>3 DEF E

(* A record of such values is a message. *)
LEMMA EntryMade ==
    ASSUME NEW r \in Role, NEW s \in Nat, NEW k \in Nat, NEW c \in Nat \X Nat
    PROVE  [role |-> r, size |-> s, calls |-> k, call |-> c] \in Entry
<1> DEFINE P == Nat \X Nat
<1>1. c \in P
  OBVIOUS
<1> HIDE DEF P
<1>2. [role |-> r, size |-> s, calls |-> k, call |-> c] \in
          [role : Role, size : Nat, calls : Nat, call : P]
  BY <1>1
<1>3. QED
  BY <1>2 DEF P, Entry

(* The recursion that walks over the units is well founded: the function it    *)
(* defines exists.                                                            *)
Walk(h, g, i) == IF i = 1 THEN {1} ELSE {IF i <= UnitEnd(h, f) THEN f ELSE i : f \in g[i - 1]}

(* It exists for a history of any length, by induction on the length. *)
LEMMA WalkExists ==
    ASSUME NEW h, NEW k \in Nat
    PROVE  \E g : g = [i \in 1..k |-> Walk(h, g, i)]
<1> DEFINE Good(n) == \E g : g = [i \in 1..n |-> Walk(h, g, i)]
           T == {n \in Nat : ~Good(n)}
<1> SUFFICES ASSUME T # {} PROVE FALSE
  OBVIOUS
<1>1. PICK n \in T : \A y \in T : n <= y
  BY Least
<1>2. CASE n = 0
  <2> DEFINE g == [i \in 1..0 |-> {}]
  <2>1. g = [i \in 1..0 |-> Walk(h, g, i)]
    OBVIOUS
  <2>2. QED
    BY <2>1, <1>1, <1>2
<1>3. CASE n # 0
  <2>1. n - 1 \in Nat /\ n - 1 \notin T
    BY <1>1, <1>3
  <2>2. Good(n - 1)
    BY <2>1
  <2>3. PICK g : g = [i \in 1..(n - 1) |-> Walk(h, g, i)]
    BY <2>2
  <2> DEFINE q == [i \in 1..n |-> IF i = n THEN Walk(h, g, n) ELSE g[i]]
  <2>4. \A i \in 1..n : q[i] = Walk(h, q, i)
    <3>1. TAKE i \in 1..n
    <3>2. i # 1 => i - 1 \in 1..(n - 1) /\ q[i - 1] = g[i - 1]
      BY <1>1
    <3>3. Walk(h, q, i) = Walk(h, g, i)
      BY <3>2 DEF Walk
    <3>4. i # n => i \in 1..(n - 1)
      BY <1>1
    <3>5. i # n => g[i] = Walk(h, g, i)
      BY <3>4, <2>3
    <3>6. QED
      BY <3>3, <3>5
  <2>5. q = [i \in 1..n |-> Walk(h, q, i)]
    BY <2>4
  <2>6. Good(n)
    BY <2>5
  <2>7. QED
    BY <2>6, <1>1
<1>4. QED
  BY <1>2, <1>3

(* What Units collects is the walk over the positions. *)
LEMMA UnitsWalk ==
    ASSUME NEW h, NEW k \in Nat, DOMAIN h = 1..k
    PROVE  \E first : /\ \A i \in 1..k : first[i] = Walk(h, first, i)
                      /\ Units(h) = UNION {first[i] : i \in 1..k}
<1> DEFINE first == CHOOSE f : f = [i \in DOMAIN h |->
                        IF i = 1 THEN {1}
                        ELSE {IF i <= UnitEnd(h, e) THEN e ELSE i : e \in f[i - 1]}]
<1>1. Units(h) = UNION {first[i] : i \in DOMAIN h}
  BY DEF Units
<1>2. \E g : g = [i \in DOMAIN h |-> IF i = 1 THEN {1}
                        ELSE {IF i <= UnitEnd(h, e) THEN e ELSE i : e \in g[i - 1]}]
  <2>1. PICK g : g = [i \in 1..k |-> Walk(h, g, i)]
    BY WalkExists
  <2>2. g = [i \in DOMAIN h |-> Walk(h, g, i)]
    BY <2>1
  <2>3. QED
    BY <2>2 DEF Walk
<1>3. first = [i \in DOMAIN h |-> IF i = 1 THEN {1}
                        ELSE {IF i <= UnitEnd(h, e) THEN e ELSE i : e \in first[i - 1]}]
  BY <1>2
<1> HIDE DEF first
<1>4. \A i \in 1..k : first[i] = Walk(h, first, i)
  BY <1>3, Zenon DEF Walk
<1>5. QED
  BY <1>1, <1>4

(* A unit ends within the history: at once, at its last result, or at the end. *)
LEMMA EndBounds ==
    ASSUME NEW h \in Seq(Entry), NEW i \in DOMAIN h
    PROVE  /\ UnitEnd(h, i) \in i..Len(h)
           /\ h[i].calls = 0 => UnitEnd(h, i) = i
           /\ Open(h, i) => UnitEnd(h, i) = Len(h)
           /\ h[i].calls # 0 => \A j \in Results(h, i) : j <= UnitEnd(h, i)
<1>1. /\ i \in 1..Len(h) /\ Len(h) \in Nat /\ h[i] \in Entry
  BY LenProperties, ElementOfSeq
<1>2. h[i].calls \in Nat
  BY <1>1 DEF Entry
<1>3. Results(h, i) \in SUBSET (0..Len(h)) /\ \A j \in Results(h, i) : i < j /\ j <= Len(h)
  BY <1>1 DEF Results
<1>4. CASE h[i].calls = 0
  BY <1>1, <1>4 DEF UnitEnd, Open
<1>5. CASE h[i].calls # 0 /\ ~Answered(h, i)
  <2>1. UnitEnd(h, i) = Len(h)
    BY <1>5 DEF UnitEnd
  <2>2. QED
    BY <1>1, <1>3, <1>5, <2>1
<1>6. CASE h[i].calls # 0 /\ Answered(h, i)
  <2>1. UnitEnd(h, i) = Max(Results(h, i)) /\ ~Open(h, i)
    BY <1>6 DEF UnitEnd, Open
  <2>2. 1 \in {h[j].call[2] : j \in Results(h, i)}
    BY <1>2, <1>6 DEF Answered
  <2>3. Results(h, i) # {}
    BY <2>2
  <2>4. Max(Results(h, i)) \in Results(h, i) /\ \A j \in Results(h, i) : j <= Max(Results(h, i))
    BY <1>1, <1>3, <2>3, MaxIn
  <2>5. QED
    BY <1>1, <1>3, <1>6, <2>1, <2>4
<1>7. QED
  BY <1>4, <1>5, <1>6

(* The units cut the history into consecutive pieces. *)
Cuts(h, us) ==
    /\ us \subseteq DOMAIN h
    /\ \A i \in DOMAIN h : \E u \in us : u <= i /\ i <= UnitEnd(h, u)
    /\ \A u, v \in us : u < v => UnitEnd(h, u) < v

(* Units are such pieces. *)
LEMMA UnitsCut ==
    ASSUME NEW h \in Seq(Entry)
    PROVE  Cuts(h, Units(h))
<1> DEFINE k == Len(h)
<1>1. DOMAIN h = 1..k /\ k \in Nat
  BY LenProperties
<1>2. \A i \in 1..k : UnitEnd(h, i) \in Nat /\ i <= UnitEnd(h, i)
  <2>1. TAKE i \in 1..k
  <2>2. UnitEnd(h, i) \in i..k
    BY <1>1, EndBounds
  <2>3. QED
    BY <1>1, <2>2
<1> HIDE DEF k
<1>3. PICK first : /\ \A i \in 1..k : first[i] = Walk(h, first, i)
                   /\ Units(h) = UNION {first[i] : i \in 1..k}
  BY <1>1, UnitsWalk
<1> DEFINE At(i, u) == /\ first[i] = {u} /\ u \in 1..i /\ i <= UnitEnd(h, u) /\ u \in first[u]
                       /\ \A w \in 1..i : \A v \in first[w] : v # u => UnitEnd(h, v) < u
           T == {i \in 1..k : ~\E u : At(i, u)}
<1>4. T = {}
  <2> SUFFICES ASSUME T # {} PROVE FALSE
    OBVIOUS
  <2> HIDE DEF At
  <2>0. \A i \in T : i \in Nat
    BY <1>1
  <2>1. PICK i \in T : \A y \in T : i <= y
    <3> HIDE DEF T
    <3>1. QED
      BY <2>0, Least
  <2> USE DEF At
  <2>2. i \in 1..k /\ first[i] = Walk(h, first, i)
    BY <1>3
  <2>3. CASE i = 1
    <3>1. first[1] = {1}
      BY <2>2, <2>3 DEF Walk
    <3>2. At(1, 1)
      BY <1>1, <1>2, <2>2, <2>3, <3>1
    <3>3. QED
      BY <2>1, <2>3, <3>2
  <2>4. CASE i # 1
    <3>1. i - 1 \in 1..k /\ i - 1 \notin T
      BY <1>1, <2>1, <2>4
    <3>2. PICK f : At(i - 1, f)
      BY <3>1
    <3>3. first[i] = {IF i <= UnitEnd(h, f) THEN f ELSE i}
      BY <2>2, <2>4, <3>2 DEF Walk
    <3>4. f \in 1..(i - 1) /\ f \in 1..k
      BY <1>1, <2>2, <3>2
    <3>5. CASE i <= UnitEnd(h, f)
      <4>1. first[i] = {f}
        BY <3>3, <3>5
      <4>2. \A w \in 1..i : w = i \/ w \in 1..(i - 1)
        BY <2>2
      <4>3. \A w \in 1..i : \A v \in first[w] : v # f => UnitEnd(h, v) < f
        BY <3>2, <4>1, <4>2
      <4>4. At(i, f)
        BY <2>2, <3>2, <3>4, <3>5, <4>1, <4>3
      <4>5. QED
        BY <2>1, <4>4
    <3>6. CASE ~(i <= UnitEnd(h, f))
      <4>1. first[i] = {i}
        BY <3>3, <3>6
      <4>2. \A w \in 1..i : w = i \/ w \in 1..(i - 1)
        BY <2>2
      <4>3. UnitEnd(h, f) < i /\ f < i
        BY <1>2, <2>2, <3>4, <3>6
      <4>4. \A w \in 1..(i - 1) : first[w] \subseteq 1..k
        BY <1>1, <1>3, <2>1, <3>1, <2>2
      <4>5. \A w \in 1..i : \A v \in first[w] : v # i => UnitEnd(h, v) < i
        <5>1. TAKE w \in 1..i
        <5>2. TAKE v \in first[w]
        <5>3. CASE w = i
          BY <4>1, <5>3
        <5>4. CASE w \in 1..(i - 1)
          <6>1. v = f \/ UnitEnd(h, v) < f
            BY <3>2, <5>4
          <6>2. v \in 1..k
            BY <4>4, <5>4
          <6>3. QED
            BY <1>2, <2>2, <3>4, <4>3, <6>1, <6>2
        <5>5. QED
          BY <4>2, <5>3, <5>4
      <4>6. At(i, i)
        BY <1>2, <2>2, <4>1, <4>5
      <4>7. QED
        BY <2>1, <4>6
    <3>7. QED
      BY <3>5, <3>6
  <2>5. QED
    BY <2>3, <2>4
<1>5. \A i \in 1..k : \E u : At(i, u)
  BY <1>4
<1>6. \A u \in Units(h) : u \in 1..k /\ first[u] = {u}
  <2>1. TAKE u \in Units(h)
  <2>2. PICK i \in 1..k : u \in first[i]
    BY <1>3
  <2>3. PICK w : At(i, w)
    BY <1>5
  <2>4. w = u /\ u \in 1..k /\ u \in first[u]
    BY <1>1, <2>2, <2>3
  <2>5. QED
    BY <1>5, <2>4
<1>7. \A i \in 1..k : \E u \in Units(h) : u <= i /\ i <= UnitEnd(h, u)
  <2>1. TAKE i \in 1..k
  <2>2. PICK u : At(i, u)
    BY <1>5
  <2>3. u \in Units(h) /\ u <= i
    BY <1>3, <2>2
  <2>4. QED
    BY <2>2, <2>3
<1>8. \A u, v \in Units(h) : u < v => UnitEnd(h, u) < v
  <2>1. TAKE u, v \in Units(h)
  <2>2. HAVE u < v
  <2>3. u \in 1..k /\ v \in 1..k /\ first[u] = {u} /\ first[v] = {v}
    BY <1>6
  <2>4. PICK w : At(v, w)
    BY <1>5, <2>3
  <2>5. w = v /\ u \in 1..v /\ u # v
    BY <2>2, <2>3, <2>4
  <2>6. QED
    BY <2>3, <2>4, <2>5
<1>9. QED
  BY <1>1, <1>6, <1>7, <1>8 DEF Cuts

(* The last unit begins at the greatest of Units and ends with the history. *)
LEMMA LastUnit ==
    ASSUME NEW h \in Seq(Entry), h # <<>>
    PROVE  /\ Max(Units(h)) \in Units(h)
           /\ \A u \in Units(h) : u <= Max(Units(h))
           /\ UnitEnd(h, Max(Units(h))) = Len(h)
<1>1. DOMAIN h = 1..Len(h) /\ Len(h) \in Nat /\ Len(h) \in DOMAIN h
  BY LenProperties, EmptySeq
<1>2. Cuts(h, Units(h))
  BY UnitsCut
<1>3. Units(h) \in SUBSET (0..Len(h))
  BY <1>1, <1>2 DEF Cuts
<1>4. PICK u \in Units(h) : Len(h) <= UnitEnd(h, u)
  BY <1>1, <1>2 DEF Cuts
<1>5. Max(Units(h)) \in Units(h) /\ \A v \in Units(h) : v <= Max(Units(h))
  BY <1>1, <1>3, <1>4, MaxIn
<1> DEFINE last == Max(Units(h))
<1> HIDE DEF last
<1>6. last \in Units(h) /\ \A v \in Units(h) : v <= last
  BY <1>5 DEF last
<1>7. /\ u \in DOMAIN h /\ last \in DOMAIN h
      /\ UnitEnd(h, last) \in last..Len(h) /\ UnitEnd(h, u) \in u..Len(h)
  BY <1>2, <1>4, <1>6, EndBounds DEF Cuts
<1>8. ~(u < last)
  BY <1>1, <1>2, <1>4, <1>6, <1>7 DEF Cuts
<1>9. u = last
  BY <1>1, <1>4, <1>6, <1>7, <1>8
<1>10. UnitEnd(h, last) = Len(h)
  BY <1>1, <1>4, <1>7, <1>9
<1>11. QED
  BY <1>5, <1>10 DEF last

(* Going on changes no interaction that is complete. *)
LEMMA GrowsEnds ==
    ASSUME NEW h, NEW g, WellFormed(h), Grows(h, g), NEW i \in DOMAIN h, ~Open(h, i)
    PROVE  UnitEnd(g, i) = UnitEnd(h, i) /\ ~Open(g, i)
<1>1. /\ h \in Seq(Entry) /\ g \in Seq(Entry) /\ i \in 1..Len(h)
      /\ Len(h) \in Nat /\ Len(g) \in Nat /\ Len(h) <= Len(g)
      /\ DOMAIN h = 1..Len(h) /\ h[i] \in Entry
  BY LenProperties, ElementOfSeq DEF WellFormed, Grows
<1>2. g[i] = h[i] /\ h[i].calls \in Nat
  BY <1>1 DEF Grows, Entry
<1>3. CASE h[i].calls = 0
  BY <1>2, <1>3 DEF UnitEnd, Open
<1>4. CASE h[i].calls # 0
  <2>1. Answered(h, i)
    BY <1>2, <1>4 DEF Open
  <2>2. \A j \in (Len(h) + 1)..Len(g) : ~(g[j].role = "tool" /\ g[j].call[1] = i)
    BY <2>1 DEF Grows, Open
  <2>3. \A j \in 1..Len(h) : g[j] = h[j]
    BY <1>1 DEF Grows
  <2>4. \A j : j \in Results(g, i) <=> j \in Results(h, i)
    <3>1. TAKE j
    <3>2. j \in (i + 1)..Len(g) <=> j \in (i + 1)..Len(h) \/ j \in (Len(h) + 1)..Len(g)
      BY <1>1
    <3>3. j \in (i + 1)..Len(h) => j \in 1..Len(h)
      BY <1>1
    <3>4. QED
      BY <2>2, <2>3, <3>2, <3>3 DEF Results
  <2>5. Results(g, i) = Results(h, i)
    BY <2>4
  <2>6. \A j \in Results(h, i) : g[j] = h[j]
    BY <1>1, <2>3 DEF Results
  <2>7. {g[j].call[2] : j \in Results(g, i)} = {h[j].call[2] : j \in Results(h, i)}
    BY <2>5, <2>6
  <2>8. Answered(g, i)
    BY <1>2, <2>1, <2>7 DEF Answered
  <2>9. QED
    BY <1>2, <1>4, <2>1, <2>5, <2>8 DEF UnitEnd, Open
<1>5. QED
  BY <1>3, <1>4

(* Nor does it move a closed unit. *)
LEMMA GrowsUnits ==
    ASSUME NEW h, NEW g, WellFormed(h), Grows(h, g), NEW c \in Units(h), Closed(h, c)
    PROVE  c \in Units(g) /\ Closed(g, c) /\ UnitEnd(g, c) = UnitEnd(h, c)
<1>1. /\ h \in Seq(Entry) /\ g \in Seq(Entry)
      /\ Len(h) \in Nat /\ Len(g) \in Nat /\ Len(h) <= Len(g)
      /\ DOMAIN h = 1..Len(h) /\ DOMAIN g = 1..Len(g)
  BY LenProperties DEF WellFormed, Grows
<1>2. Cuts(h, Units(h)) /\ Cuts(g, Units(g))
  BY <1>1, UnitsCut
<1>3. c \in 1..Len(h) /\ h[c] \in Entry /\ g[c] = h[c]
  BY <1>1, <1>2, ElementOfSeq DEF Cuts, Grows
<1>4. h[c].calls \in Nat /\ ~Open(h, c)
  BY <1>3 DEF Closed, Open, Entry
<1>5. UnitEnd(g, c) = UnitEnd(h, c) /\ ~Open(g, c)
  BY <1>1, <1>3, <1>4, GrowsEnds
<1>6. Closed(g, c)
  BY <1>3, <1>5 DEF Closed, Open
<1> DEFINE Same(k) == k \in Units(h) <=> k \in Units(g)
           T == {k \in 1..c : ~Same(k)}
<1>7. T = {}
  <2> SUFFICES ASSUME T # {} PROVE FALSE
    OBVIOUS
  <2>1. T \in SUBSET Nat
    <3>1. \A k \in T : k \in Nat
      BY <1>3
    <3> HIDE DEF T
    <3>2. QED
      BY <3>1
  <2>2. PICK k \in T : \A y \in T : k <= y
    <3> HIDE DEF T
    <3>1. QED
      BY <2>1, Least
  <2>3. /\ k \in 1..c /\ k \in 1..Len(h) /\ k \in 1..Len(g)
        /\ \A y \in 1..(k - 1) : Same(y)
    BY <1>1, <1>3, <2>2
  (* A unit before k ends there in both, for it is not open. *)
  <2>4. \A v \in 1..(k - 1) : v \in Units(h) => UnitEnd(h, v) < c /\ UnitEnd(g, v) = UnitEnd(h, v)
    <3>1. TAKE v \in 1..(k - 1)
    <3>2. HAVE v \in Units(h)
    <3>3. v < c /\ v \in 1..Len(h) /\ c \in Units(h)
      BY <1>1, <1>3, <2>3
    <3>4. UnitEnd(h, v) < c
      BY <1>2, <3>2, <3>3 DEF Cuts
    <3>5. ~Open(h, v)
      BY <1>1, <1>3, <3>3, <3>4, EndBounds
    <3>6. QED
      BY <1>1, <3>3, <3>4, <3>5, GrowsEnds
  <2>5. CASE k \in Units(h) /\ k \notin Units(g)
    <3>1. PICK v \in Units(g) : v <= k /\ k <= UnitEnd(g, v)
      BY <1>1, <1>2, <2>3 DEF Cuts
    <3>2. v \in 1..(k - 1) /\ v < k
      <4>1. v \in 1..Len(g) /\ v # k
        BY <1>1, <1>2, <2>5 DEF Cuts
      <4>2. QED
        BY <2>3, <3>1, <4>1
    <3>3. v \in Units(h)
      BY <2>3, <3>1, <3>2
    <3>4. UnitEnd(h, v) < k /\ UnitEnd(g, v) = UnitEnd(h, v)
      BY <1>2, <2>4, <2>5, <3>2, <3>3 DEF Cuts
    <3>5. v \in DOMAIN h
      BY <1>1, <2>3, <3>2
    <3>6. UnitEnd(h, v) \in v..Len(h)
      BY <1>1, <3>5, EndBounds
    <3>7. QED
      BY <1>1, <2>3, <3>1, <3>2, <3>4, <3>6
  <2>6. CASE k \notin Units(h) /\ k \in Units(g)
    <3>1. PICK v \in Units(h) : v <= k /\ k <= UnitEnd(h, v)
      BY <1>1, <1>2, <2>3 DEF Cuts
    <3>2. v \in 1..(k - 1) /\ v < k
      <4>1. v \in 1..Len(h) /\ v # k
        BY <1>1, <1>2, <2>6 DEF Cuts
      <4>2. QED
        BY <2>3, <3>1, <4>1
    <3>3. v \in Units(g)
      BY <2>3, <3>1, <3>2
    <3>4. UnitEnd(g, v) < k /\ UnitEnd(g, v) = UnitEnd(h, v)
      BY <1>2, <2>4, <2>6, <3>1, <3>2, <3>3 DEF Cuts
    <3>5. v \in DOMAIN h
      BY <1>1, <2>3, <3>2
    <3>6. UnitEnd(h, v) \in v..Len(h)
      BY <1>1, <3>5, EndBounds
    <3>7. QED
      BY <1>1, <2>3, <3>1, <3>2, <3>4, <3>6
  <2>7. QED
    BY <2>2, <2>5, <2>6
<1>8. Same(c)
  <2>1. c \in 1..c
    BY <1>3
  <2>2. QED
    BY <1>7, <2>1
<1>9. QED
  BY <1>5, <1>6, <1>8

(* A well-formed history stays so while it grows. *)
LEMMA GrowsFormed ==
    ASSUME NEW h, NEW g, WellFormed(h), Grows(h, g)
    PROVE  WellFormed(g)
<1>1. /\ h \in Seq(Entry) /\ g \in Seq(Entry)
      /\ Len(h) \in Nat /\ Len(g) \in Nat /\ Len(h) <= Len(g)
      /\ DOMAIN h = 1..Len(h) /\ DOMAIN g = 1..Len(g)
  BY LenProperties DEF WellFormed, Grows
<1>2. SUFFICES ASSUME NEW j \in DOMAIN g, g[j].role = "tool" PROVE Replies(g, j)
  BY <1>1 DEF WellFormed
<1>3. CASE j \in DOMAIN h
  <2>1. Replies(h, j) /\ g[j] = h[j]
    BY <1>2, <1>3 DEF WellFormed, Grows
  <2>2. h[j].call[1] \in DOMAIN h
    BY <1>1, <1>3, <2>1 DEF Replies
  <2>3. g[h[j].call[1]] = h[h[j].call[1]]
    BY <2>2 DEF Grows
  <2>4. QED
    BY <2>1, <2>3 DEF Replies
<1>4. CASE j \notin DOMAIN h
  <2>1. j \in (Len(h) + 1)..Len(g)
    BY <1>1, <1>4
  <2>2. g[j].calls = 0 /\ g[j].call[1] \in DOMAIN h /\ Open(h, g[j].call[1])
    BY <1>2, <2>1 DEF Grows
  <2>3. g[g[j].call[1]] = h[g[j].call[1]]
    BY <2>2 DEF Grows
  <2>4. g[j].call[1] \in 1..(j - 1)
    BY <1>1, <2>1, <2>2
  <2>5. QED
    BY <2>2, <2>3, <2>4 DEF Replies, Open
<1>5. QED
  BY <1>3, <1>4

(* A checkpoint that stands for a history stands for every longer one. *)
LEMMA GrowsStands ==
    ASSUME NEW h, NEW g, NEW c, WellFormed(h), Grows(h, g), Stands(c, h)
    PROVE  Stands(c, g)
<1>1. /\ h \in Seq(Entry) /\ g \in Seq(Entry)
      /\ Len(h) \in Nat /\ Len(g) \in Nat /\ Len(h) <= Len(g)
      /\ DOMAIN h = 1..Len(h) /\ DOMAIN g = 1..Len(g)
  BY LenProperties DEF WellFormed, Grows
<1>2. CASE Len(g) = Len(h)
  <2>1. \A i \in 1..Len(h) : g[i] = h[i]
    BY <1>1 DEF Grows
  <2>2. g = h
    BY <1>1, <1>2, <2>1, SeqEqual
  <2>3. QED
    BY <2>2
<1>3. CASE Len(h) < Len(g)
  <2>1. c.covered \in 0..Len(h) /\ c.covered \in 0..Len(g)
    BY <1>1 DEF Stands
  <2>2. c.covered > 0 => \E u \in Units(g) : Closed(g, u) /\ UnitEnd(g, u) = c.covered
    BY GrowsUnits DEF Stands
  <2>3. c.prefix = SubSeq(g, 1, c.covered)
    <3>1. \A i \in 1..c.covered : g[i] = h[i] /\ g[i] \in Entry /\ h[i] \in Entry
      BY <1>1, <2>1, ElementOfSeq DEF Grows
    <3>2. SubSeq(g, 1, c.covered) = SubSeq(h, 1, c.covered)
      BY <2>1, <3>1
    <3>3. QED
      BY <3>2 DEF Stands
  <2>4. c.covered < Max(Units(g))
    <3>1. g # <<>>
      BY <1>1, <1>3, EmptySeq
    <3> DEFINE last == Max(Units(g))
    <3> HIDE DEF last
    <3>2. /\ last \in Units(g) /\ \A u \in Units(g) : u <= last
          /\ UnitEnd(g, last) = Len(g)
      BY <1>1, <3>1, LastUnit DEF last
    <3>3. Cuts(g, Units(g)) /\ last \in 1..Len(g)
      BY <1>1, <3>2, UnitsCut DEF Cuts
    <3>4. CASE c.covered = 0
      BY <3>3, <3>4 DEF last
    <3>5. CASE c.covered > 0
      <4>1. PICK u \in Units(g) : UnitEnd(g, u) = c.covered
        BY <2>2, <3>5
      <4>2. u # last
        BY <1>1, <1>3, <2>1, <3>2, <4>1
      <4>3. u < last
        BY <1>1, <3>2, <3>3, <4>2 DEF Cuts
      <4>4. UnitEnd(g, u) < last
        BY <3>2, <3>3, <4>3 DEF Cuts
      <4>5. QED
        BY <4>1, <4>4 DEF last
    <3>6. QED
      BY <2>1, <3>4, <3>5
  <2>5. QED
    BY <2>1, <2>2, <2>3, <2>4 DEF Stands
<1>4. Len(h) \in Nat /\ Len(g) \in Nat /\ Len(h) <= Len(g)
  BY <1>1
<1>5. Len(g) = Len(h) \/ Len(h) < Len(g)
  BY <1>4
<1>6. QED
  BY <1>2, <1>3, <1>5

(* A history with messages appended goes on from it. *)
LEMMA GrowsBy ==
    ASSUME NEW h, NEW t \in Seq(Entry), WellFormed(h),
           \A n \in 1..Len(t) : t[n].role = "tool" =>
               t[n].calls = 0 /\ t[n].call[1] \in DOMAIN h /\ Open(h, t[n].call[1])
    PROVE  /\ Grows(h, h \o t) /\ Len(h \o t) = Len(h) + Len(t)
           /\ \A n \in 1..Len(t) : (h \o t)[Len(h) + n] = t[n]
<1>1. /\ h \in Seq(Entry) /\ DOMAIN h = 1..Len(h) /\ Len(h) \in Nat /\ Len(t) \in Nat
  BY LenProperties DEF WellFormed
<1>2. /\ h \o t \in Seq(Entry) /\ Len(h \o t) = Len(h) + Len(t)
      /\ \A i \in 1..Len(h) : (h \o t)[i] = h[i]
      /\ \A n \in 1..Len(t) : (h \o t)[Len(h) + n] = t[n]
  <2> DEFINE E == Entry
  <2> HIDE DEF E
  <2>1. h \in Seq(E) /\ t \in Seq(E)
    BY <1>1 DEF E
  <2>2. /\ h \o t \in Seq(E) /\ Len(h \o t) = Len(h) + Len(t)
        /\ \A i \in 1..Len(h) : (h \o t)[i] = h[i]
        /\ \A n \in 1..Len(t) : (h \o t)[Len(h) + n] = t[n]
    BY <2>1, <1>1
  <2>3. QED
    BY <2>2 DEF E
<1>3. \A j \in (Len(h) + 1)..(Len(h) + Len(t)) : j - Len(h) \in 1..Len(t) /\ j = Len(h) + (j - Len(h))
  BY <1>1
<1>4. \A j \in (Len(h) + 1)..(Len(h) + Len(t)) : (h \o t)[j] = t[j - Len(h)]
  BY <1>2, <1>3
<1>5. QED
  BY <1>1, <1>2, <1>3, <1>4 DEF Grows

(* One message goes on from it likewise. *)
LEMMA GrowsOne ==
    ASSUME NEW h, NEW m \in Entry, WellFormed(h),
           m.role = "tool" => m.calls = 0 /\ m.call[1] \in DOMAIN h /\ Open(h, m.call[1])
    PROVE  /\ Grows(h, Append(h, m)) /\ Len(Append(h, m)) = Len(h) + 1
           /\ Append(h, m)[Len(h) + 1] = m
<1> DEFINE t == <<m>>
<1>1. t \in Seq(Entry) /\ Len(t) = 1 /\ t[1] = m
  OBVIOUS
<1>2. Append(h, m) = h \o t
  BY <1>1, AppendIsConcat DEF WellFormed
<1> HIDE DEF t
<1>3. \A n \in 1..Len(t) : t[n].role = "tool" =>
          t[n].calls = 0 /\ t[n].call[1] \in DOMAIN h /\ Open(h, t[n].call[1])
  <2>1. TAKE n \in 1..Len(t)
  <2>2. t[n] = m
    BY <1>1
  <2>3. QED
    BY <2>2
<1>4. /\ Grows(h, h \o t) /\ Len(h \o t) = Len(h) + Len(t)
      /\ \A n \in 1..Len(t) : (h \o t)[Len(h) + n] = t[n]
  BY <1>1, <1>3, GrowsBy
<1>5. QED
  BY <1>1, <1>2, <1>4

-----------------------------------------------------------------------------
(* What a raw tail must keep: of the units a checkpoint does not cover, those  *)
(* that are open and the interaction at the end.                              *)
Spares(h, tail, covered) ==
    /\ tail \subseteq Units(h)
    /\ \A u \in Units(h) \ tail : ~Covered(h, u, covered) => Closed(h, u)
    /\ h # <<>> /\ IsTool(h, Max(Units(h))) /\ covered < Max(Units(h)) => Max(Units(h)) \in tail

(* The selection of the raw tail keeps them. *)
LEMMA RawTailSpares ==
    ASSUME NEW h \in Seq(Entry), NEW pruned, NEW covered \in Nat
    PROVE  Spares(h, RawTail(h, pruned, covered), covered)
<1>1. Protected(h, covered) \subseteq RawTail(h, pruned, covered)
  BY DEF RawTail
<1>2. RawTail(h, pruned, covered) \subseteq Units(h)
  BY DEF RawTail, Protected
<1>3. \A u \in Units(h) : ~Covered(h, u, covered) /\ ~Closed(h, u) => u \in Protected(h, covered)
  BY DEF Protected
<1>4. h # <<>> /\ IsTool(h, Max(Units(h))) /\ covered < Max(Units(h)) =>
          Max(Units(h)) \in Protected(h, covered)
  <2> DEFINE last == Max(Units(h))
  <2> HIDE DEF last
  <2>1. SUFFICES ASSUME h # <<>>, IsTool(h, last), covered < last
                 PROVE  last \in Protected(h, covered)
    BY DEF last
  <2>2. /\ last \in Units(h) /\ \A u \in Units(h) : u <= last
        /\ UnitEnd(h, last) = Len(h)
    BY <2>1, LastUnit DEF last
  <2>3. last \in 1..Len(h)
    BY <2>2, UnitsCut, LenProperties DEF Cuts
  <2>4. ~(Len(h) <= covered)
    BY <2>1, <2>3
  <2>5. ~Covered(h, last, covered)
    BY <2>2, <2>4 DEF Covered
  <2>6. QED
    BY <2>1, <2>2, <2>5 DEF Protected
<1>5. QED
  BY <1>1, <1>2, <1>3, <1>4 DEF Spares

(* The promotion takes neither. *)
LEMMA PromotedSpares ==
    ASSUME NEW h \in Seq(Entry), NEW pruned, NEW covered \in Nat, NEW tail, Spares(h, tail, covered)
    PROVE  Spares(h, Promoted(h, pruned, tail), covered)
<1> DEFINE tools == {u \in tail : IsTool(h, u)}
           eligible == {u \in tail : Closed(h, u) /\ (u \in tools => u # Max(tools))}
           moved == Moved(h, pruned, tail, eligible)
<1>1. Promoted(h, pruned, tail) = tail \ moved
  BY DEF Promoted
<1>2. \A u \in moved : /\ u \in tail /\ Closed(h, u)
                       /\ \E chosen \in eligible : UnitEnd(h, u) <= UnitEnd(h, chosen)
  BY DEF Moved
<1> HIDE DEF moved
<1>3. \A u \in Units(h) \ Promoted(h, pruned, tail) : ~Covered(h, u, covered) => Closed(h, u)
  BY <1>1, <1>2 DEF Spares
<1>4. ASSUME h # <<>>, IsTool(h, Max(Units(h))), covered < Max(Units(h))
      PROVE  Max(Units(h)) \notin moved
  <2> DEFINE last == Max(Units(h))
  <2> HIDE DEF last
  <2>1. /\ last \in Units(h) /\ \A u \in Units(h) : u <= last
        /\ UnitEnd(h, last) = Len(h) /\ last \in tools
    BY <1>4, LastUnit DEF last, Spares
  <2>2. /\ tools \subseteq Units(h) /\ Units(h) \subseteq 1..Len(h) /\ Len(h) \in Nat
        /\ Cuts(h, Units(h))
    BY UnitsCut, LenProperties DEF Cuts, Spares
  <2>3. Max(tools) = last
    <3> DEFINE S == tools
    <3>1. S \in SUBSET (0..Len(h)) /\ S # {}
      BY <2>1, <2>2
    <3> HIDE DEF S
    <3>2. Max(S) \in S /\ \A x \in S : x <= Max(S)
      BY <2>2, <3>1, MaxIn
    <3>3. last <= Max(S) /\ Max(S) <= last /\ Max(S) \in Nat /\ last \in Nat
      BY <2>1, <2>2, <3>2 DEF S
    <3>4. QED
      BY <3>3 DEF S
  <2>4. ASSUME NEW u \in eligible PROVE UnitEnd(h, u) < UnitEnd(h, last)
    <3>1. u \in Units(h) /\ u # last
      BY <2>1, <2>3 DEF Spares
    <3>2. u < last /\ u \in 1..Len(h) /\ last \in 1..Len(h)
      BY <2>1, <2>2, <3>1
    <3>3. UnitEnd(h, u) < last
      BY <2>1, <2>2, <3>1, <3>2 DEF Cuts
    <3>4. UnitEnd(h, u) \in u..Len(h)
      BY <3>2, EndBounds, LenProperties
    <3>5. QED
      BY <2>1, <2>2, <3>2, <3>3, <3>4
  <2> HIDE DEF eligible
  <2>5. last \notin moved
    <3>1. SUFFICES ASSUME last \in moved PROVE FALSE
      OBVIOUS
    <3>2. PICK chosen \in eligible : UnitEnd(h, last) <= UnitEnd(h, chosen)
      BY <1>2, <3>1
    <3>3. UnitEnd(h, chosen) < UnitEnd(h, last)
      BY <2>4
    <3>4. chosen \in Units(h)
      BY DEF eligible, Spares
    <3>5. UnitEnd(h, chosen) \in Nat /\ UnitEnd(h, last) \in Nat
      <4>1. chosen \in DOMAIN h /\ DOMAIN h = 1..Len(h)
        BY <2>2, <3>4, LenProperties
      <4>2. UnitEnd(h, chosen) \in chosen..Len(h)
        BY <4>1, EndBounds
      <4>3. QED
        BY <2>1, <2>2, <4>1, <4>2
    <3>6. QED
      BY <3>2, <3>3, <3>5
  <2>6. QED
    BY <2>5 DEF last
<1>5. QED
  BY <1>1, <1>3, <1>4 DEF Spares

-----------------------------------------------------------------------------
(* The pairs up to c, in the order of calls. *)
UpTo(open, c) == {d \in open : d[1] < c[1] \/ (d[1] = c[1] /\ d[2] <= c[2])}

(* Counting numbers the open calls from 1, without a gap. *)
LEMMA RankOnto ==
    ASSUME NEW open \in SUBSET (Nat \X Nat), IsFiniteSet(open), NEW n \in 1..Cardinality(open)
    PROVE  \E c \in open : Cardinality(UpTo(open, c)) = n
<1> DEFINE N == Cardinality(open)
           rank == [c \in open |-> Cardinality(UpTo(open, c))]
<1>1. N \in Nat
  BY FS_CardinalityType
<1>2. ASSUME NEW c \in open
      PROVE  /\ IsFiniteSet(UpTo(open, c)) /\ c \in UpTo(open, c)
             /\ rank[c] \in 1..N
  <2>1. UpTo(open, c) \in SUBSET open
    BY DEF UpTo
  <2>2. IsFiniteSet(UpTo(open, c)) /\ Cardinality(UpTo(open, c)) <= N
    BY <2>1, FS_Subset
  <2>3. c \in UpTo(open, c)
    BY DEF UpTo
  <2>4. Cardinality(UpTo(open, c)) \in Nat /\ Cardinality(UpTo(open, c)) # 0
    BY <2>2, <2>3, FS_CardinalityType, FS_EmptySet
  <2>5. QED
    BY <1>1, <2>2, <2>3, <2>4
<1>3. ASSUME NEW c \in open, NEW d \in open, c # d, rank[c] = rank[d],
             c[1] < d[1] \/ (c[1] = d[1] /\ c[2] <= d[2])
      PROVE  FALSE
  <2>1. c \in Nat \X Nat /\ d \in Nat \X Nat
    OBVIOUS
  <2>2. d \notin UpTo(open, c)
    BY <1>3, <2>1 DEF UpTo
  <2>3. UpTo(open, c) \in SUBSET UpTo(open, d)
    <3>1. ASSUME NEW e \in UpTo(open, c) PROVE e \in UpTo(open, d)
      <4>1. e \in open /\ e \in Nat \X Nat
        BY DEF UpTo
      <4>2. QED
        BY <1>3, <2>1, <4>1 DEF UpTo
    <3>2. QED
      BY <3>1
  <2>4. Cardinality(UpTo(open, c)) = Cardinality(UpTo(open, d))
    BY <1>3
  <2>5. UpTo(open, d) = UpTo(open, c)
    BY <1>2, <2>3, <2>4, FS_Subset
  <2>6. QED
    BY <1>2, <2>2, <2>5
<1>4. \A c, d \in open : c[1] < d[1] \/ (c[1] = d[1] /\ c[2] <= d[2])
                      \/ d[1] < c[1] \/ (d[1] = c[1] /\ d[2] <= c[2])
  OBVIOUS
<1>5. \A c, d \in open : rank[c] = rank[d] => c = d
  BY <1>3, <1>4
<1>6. rank \in [open -> 1..N]
  BY <1>2
<1>7. rank \in Injection(open, 1..N)
  BY <1>5, <1>6 DEF Injection, IsInjective
<1>8. IsFiniteSet(1..N) /\ Cardinality(1..N) = N
  BY <1>1, FS_Interval
<1> HIDE DEF rank
<1>9. rank \in Surjection(open, 1..N)
  BY <1>7, <1>8, FS_Injection
<1>10. PICK c \in open : rank[c] = n
  BY <1>9 DEF Surjection
<1>11. QED
  BY <1>10 DEF rank

(* Finitely many numbers have a bound. *)
LEMMA Bounded ==
    ASSUME NEW k \in Nat, NEW f \in [1..k -> Nat]
    PROVE  \E m \in Nat : \A j \in 1..k : f[j] <= m
<1> DEFINE Up(n) == \E m \in Nat : \A j \in 1..k : j <= n => f[j] <= m
           T == {n \in Nat : ~Up(n)}
<1>1. T = {}
  <2> SUFFICES ASSUME T # {} PROVE FALSE
    OBVIOUS
  <2>1. PICK n \in T : \A y \in T : n <= y
    BY Least
  <2>2. CASE n = 0
    <3>1. Up(0)
      OBVIOUS
    <3>2. QED
      BY <2>1, <2>2, <3>1
  <2>3. CASE n # 0
    <3>1. n - 1 \in Nat
      BY <2>1, <2>3
    <3>2. n - 1 \notin T
      <4> HIDE DEF Up
      <4>1. n \in Nat /\ ~(n <= n - 1)
        BY <3>1
      <4>2. QED
        BY <2>1, <4>1
    <3>3. Up(n - 1)
      BY <3>1, <3>2
    <3>4. PICK m \in Nat : \A j \in 1..k : j <= n - 1 => f[j] <= m
      BY <3>3
    <3>5. PICK b \in Nat : n \in 1..k => f[n] = b
      OBVIOUS
    <3>6. \A j \in 1..k : j <= n => f[j] <= m + b
      <4>1. TAKE j \in 1..k
      <4>2. HAVE j <= n
      <4>3. PICK x \in Nat : x = f[j]
        OBVIOUS
      <4>4. CASE j = n
        <5>1. x = b
          BY <3>5, <4>3, <4>4
        <5>2. QED
          BY <4>3, <5>1
      <4>5. CASE j # n
        <5>1. n \in Nat
          BY <2>1
        <5>2. j <= n - 1
          BY <4>2, <4>5, <5>1
        <5>3. x <= m
          BY <3>4, <4>3, <5>2
        <5>4. QED
          BY <4>3, <5>3
      <4>6. QED
        BY <4>4, <4>5
    <3>7. m + b \in Nat
      OBVIOUS
    <3>8. Up(n)
      BY <3>6, <3>7
    <3>9. QED
      BY <2>1, <3>8
  <2>4. QED
    BY <2>2, <2>3
<1>2. Up(k)
  BY <1>1
<1>3. PICK m \in Nat : \A j \in 1..k : j <= k => f[j] <= m
  BY <1>2
<1>4. QED
  BY <1>3

(* No message of a history makes more calls than some number. *)
LEMMA CallsBounded ==
    ASSUME NEW h \in Seq(Entry)
    PROVE  \E m \in Nat : \A j \in DOMAIN h : h[j].calls <= m
<1> DEFINE f == [j \in 1..Len(h) |-> h[j].calls]
<1>1. DOMAIN h = 1..Len(h) /\ Len(h) \in Nat /\ \A j \in 1..Len(h) : h[j].calls \in Nat
  BY EntryFacts
<1>2. f \in [1..Len(h) -> Nat] /\ \A j \in 1..Len(h) : f[j] = h[j].calls
  BY <1>1
<1> HIDE DEF f
<1>3. PICK m \in Nat : \A j \in 1..Len(h) : f[j] <= m
  BY <1>1, <1>2, Bounded
<1>4. QED
  BY <1>1, <1>2, <1>3

(* Recovery closes every open call and nothing else: what it appends are       *)
(* results of open calls.                                                     *)
LEMMA InterruptedGrows ==
    ASSUME NEW h, WellFormed(h)
    PROVE  /\ Grows(h, Interrupted(h))
           /\ \A j \in (Len(h) + 1)..Len(Interrupted(h)) : Interrupted(h)[j].calls = 0
<1>1. /\ h \in Seq(Entry) /\ DOMAIN h = 1..Len(h) /\ Len(h) \in Nat
      /\ \A j \in 1..Len(h) : h[j].calls \in Nat
  BY EntryFacts DEF WellFormed
<1> DEFINE M == Max({0} \cup {h[j].calls : j \in DOMAIN h})
           made == {<<i, k>> : i \in DOMAIN h, k \in 1..M}
           open == {c \in made : c[2] <= h[c[1]].calls
                                 /\ \A j \in Results(h, c[1]) : h[j].call # c}
           chosen(n) == CHOOSE c \in open : Cardinality(UpTo(open, c)) = n
           t == [n \in 1..Cardinality(open) |->
                    [Message("tool", MarkerSize) EXCEPT !.call = chosen(n)]]
<1>2. Interrupted(h) = h \o t
  BY DEF Interrupted, UpTo
<1>3. M \in Nat
  <2>1. PICK m \in Nat : \A j \in DOMAIN h : h[j].calls <= m
    BY <1>1, CallsBounded
  <2> DEFINE S == {0} \cup {h[j].calls : j \in DOMAIN h}
  <2>2. \A x \in S : x \in 0..m
    BY <1>1, <2>1
  <2>3. S # {}
    OBVIOUS
  <2> HIDE DEF S
  <2>4. Max(S) \in S
    BY <2>2, <2>3, MaxIn
  <2>5. Max(S) \in Nat
    BY <2>2, <2>4
  <2>6. QED
    BY <2>5 DEF S
<1> HIDE DEF M
<1>4. open \in SUBSET (Nat \X Nat) /\ IsFiniteSet(open)
  <2>1. IsFiniteSet((1..Len(h)) \X (1..M))
    <3>1. IsFiniteSet(1..Len(h)) /\ IsFiniteSet(1..M)
      BY <1>1, <1>3, FS_Interval
    <3>2. QED
      BY <3>1, FS_Product
  <2>2. open \in SUBSET ((1..Len(h)) \X (1..M))
    BY <1>1
  <2>3. (1..Len(h)) \X (1..M) \in SUBSET (Nat \X Nat)
    BY <1>1, <1>3
  <2>4. QED
    BY <2>1, <2>2, <2>3, FS_Subset
<1>5. \A c \in open : c[1] \in DOMAIN h /\ Open(h, c[1])
  <2>1. TAKE c \in open
  <2>2. PICK i \in DOMAIN h, k \in 1..M : c = <<i, k>>
    OBVIOUS
  <2>3. k \in Nat /\ k >= 1 /\ k <= h[i].calls /\ h[i].calls \in Nat
    BY <1>1, <1>3, <2>2
  <2>4. \A j \in Results(h, i) : h[j].call # <<i, k>>
    BY <2>2
  <2>5. \A j \in Results(h, i) : h[j].call[2] # k
    <3>1. TAKE j \in Results(h, i)
    <3>2. j \in 1..Len(h) /\ h[j].call[1] = i
      BY <1>1 DEF Results
    <3>3. h[j].call \in Nat \X Nat
      BY <1>1, <3>2, EntryFacts
    <3>4. QED
      BY <2>4, <3>2, <3>3
  <2>6. k \in 1..h[i].calls /\ k \notin {h[j].call[2] : j \in Results(h, i)}
    BY <2>3, <2>5
  <2>7. QED
    BY <2>2, <2>3, <2>6 DEF Open, Answered
<1> HIDE DEF open
<1>6. Cardinality(open) \in Nat
  BY <1>4, FS_CardinalityType
<1>7. ASSUME NEW n \in 1..Cardinality(open)
      PROVE  chosen(n) \in open
  <2>1. \E c \in open : Cardinality(UpTo(open, c)) = n
    BY <1>4, RankOnto
  <2>2. QED
    BY <2>1
<1> HIDE DEF chosen
<1>8. ASSUME NEW n \in 1..Cardinality(open)
      PROVE  /\ t[n] \in Entry /\ t[n].role = "tool" /\ t[n].calls = 0
             /\ t[n].call[1] \in DOMAIN h /\ Open(h, t[n].call[1])
  <2>1. chosen(n) \in Nat \X Nat /\ chosen(n)[1] \in DOMAIN h /\ Open(h, chosen(n)[1])
    BY <1>4, <1>5, <1>7
  <2> DEFINE q == t[n]
  <2>2. q = [role |-> "tool", size |-> MarkerSize, calls |-> 0, call |-> chosen(n)]
    BY DEF Message
  <2> HIDE DEF q
  <2>3. q.role = "tool" /\ q.calls = 0 /\ q.call = chosen(n)
    BY <2>2
  <2>4. q \in Entry
    <3>1. MarkerSize \in Nat
      BY HistoryBounds
    <3>2. chosen(n) \in Nat \X Nat
      BY <2>1
    <3>3. QED
      BY <2>2, <3>1, <3>2, EntryMade DEF Role
  <2>5. QED
    BY <2>1, <2>3, <2>4 DEF q
<1>9. t \in Seq(Entry) /\ Len(t) = Cardinality(open)
  <2>1. t \in [1..Cardinality(open) -> Entry]
    BY <1>8
  <2> HIDE DEF t
  <2>2. QED
    BY <1>6, <2>1
<1> HIDE DEF t
<1>10. \A n \in 1..Len(t) : t[n].role = "tool" =>
           t[n].calls = 0 /\ t[n].call[1] \in DOMAIN h /\ Open(h, t[n].call[1])
  BY <1>8, <1>9
<1>11. /\ Grows(h, h \o t) /\ Len(h \o t) = Len(h) + Len(t)
       /\ \A n \in 1..Len(t) : (h \o t)[Len(h) + n] = t[n]
  BY <1>9, <1>10, GrowsBy
<1>12. \A j \in (Len(h) + 1)..(Len(h) + Len(t)) : j - Len(h) \in 1..Len(t) /\ j = Len(h) + (j - Len(h))
  BY <1>1, <1>6, <1>9
<1>13. \A j \in (Len(h) + 1)..(Len(h) + Len(t)) : (h \o t)[j].calls = 0
  BY <1>8, <1>9, <1>11, <1>12
<1>14. QED
  BY <1>2, <1>11, <1>13

-----------------------------------------------------------------------------
(* The batch in progress is the newest, it is open and has a next call. *)
LEMMA BatchOpen ==
    ASSUME NEW h, WellFormed(h), NEW b, InBatch(h, b)
    PROVE  /\ b = Max({i \in DOMAIN h : h[i].calls > 0}) /\ Open(h, b)
           /\ b \in DOMAIN h /\ h[b].calls \in Nat
           /\ IsFiniteSet(Results(h, b)) /\ Cardinality(Results(h, b)) \in Nat
           /\ Cardinality(Results(h, b)) + 1 <= h[b].calls
<1>1. h \in Seq(Entry)
  BY DEF WellFormed
<1>2. /\ DOMAIN h = 1..Len(h) /\ Len(h) \in Nat /\ b \in 1..Len(h)
      /\ h[b].calls \in Nat /\ h[b].calls > 0
  BY <1>1, EntryFacts DEF InBatch
<1>3. b = Max({i \in DOMAIN h : h[i].calls > 0})
  <2> DEFINE S == {i \in DOMAIN h : h[i].calls > 0}
  <2>1. \A i \in S : i \in 0..Len(h) /\ i <= b
    BY <1>2 DEF InBatch
  <2>2. b \in S
    BY <1>2
  <2> HIDE DEF S
  <2>3. Max(S) \in S /\ b <= Max(S)
    BY <1>2, <2>1, <2>2, MaxIn
  <2>4. Max(S) <= b /\ Max(S) \in 0..Len(h)
    BY <2>1, <2>3
  <2>5. b = Max(S)
    BY <1>2, <2>3, <2>4
  <2>6. QED
    BY <2>5 DEF S
<1>4. IsFiniteSet(Results(h, b))
  <2>1. Results(h, b) \in SUBSET ((b + 1)..Len(h))
    BY DEF Results
  <2>2. IsFiniteSet((b + 1)..Len(h))
    BY <1>2, FS_Interval
  <2>3. QED
    BY <2>1, <2>2, FS_Subset
<1>5. Cardinality(Results(h, b)) \in Nat
  BY <1>4, FS_CardinalityType
<1> DEFINE n == Cardinality(Results(h, b))
<1>6. n < h[b].calls /\ {h[j].call[2] : j \in Results(h, b)} = 1..n /\ n \in Nat
  BY <1>5 DEF InBatch
<1> HIDE DEF n
<1>7. h[b].calls \in 1..h[b].calls /\ h[b].calls \notin 1..n
  BY <1>2, <1>6
<1>8. Open(h, b)
  BY <1>2, <1>6, <1>7 DEF Open, Answered
<1>9. n + 1 <= h[b].calls
  BY <1>2, <1>6
<1>10. QED
  BY <1>2, <1>3, <1>4, <1>5, <1>8, <1>9 DEF n

(* A response with calls begins a batch, with no results yet. *)
LEMMA BatchBegins ==
    ASSUME NEW h, WellFormed(h), NEW m \in Entry, m.calls > 0, m.role # "tool"
    PROVE  InBatch(Append(h, m), Len(h) + 1)
<1> DEFINE g == Append(h, m)
           b == Len(h) + 1
<1>1. /\ Grows(h, g) /\ Len(g) = Len(h) + 1 /\ g[b] = m
  BY GrowsOne
<1>2. WellFormed(g) /\ g \in Seq(Entry) /\ h \in Seq(Entry)
  BY <1>1, GrowsFormed DEF WellFormed
<1>3. /\ DOMAIN g = 1..Len(g) /\ Len(h) \in Nat /\ b \in Nat
      /\ DOMAIN g = 1..b
  BY <1>1, <1>2, EntryFacts
<1> HIDE DEF g
<1>4. Results(g, b) = {}
  <2>1. Len(g) = b
    BY <1>1
  <2> HIDE DEF b
  <2>2. (b + 1)..Len(g) = {}
    BY <1>3, <2>1
  <2>3. QED
    BY <2>2 DEF Results
<1>5. Cardinality(Results(g, b)) = 0
  BY <1>4, FS_EmptySet
<1>6. {g[j].call[2] : j \in Results(g, b)} = 1..0
  BY <1>4
<1> HIDE DEF b
<1>7. b \in DOMAIN g /\ \A i \in DOMAIN g : i <= b
  <2>1. b >= 1
    BY <1>3 DEF b
  <2>2. QED
    BY <1>3, <2>1
<1>8. QED
  BY <1>1, <1>5, <1>6, <1>7 DEF InBatch, g, b

(* A result for the next call, unless it is the last, leaves the batch open. *)
LEMMA BatchGoesOn ==
    ASSUME NEW h, WellFormed(h), NEW b, InBatch(h, b), NEW m \in Entry, m.role = "tool", m.calls = 0,
           m.call[1] = b, m.call[2] = Cardinality(Results(h, b)) + 1,
           m.call[2] # h[b].calls
    PROVE  InBatch(Append(h, m), b)
<1> DEFINE g == Append(h, m)
           n == Cardinality(Results(h, b))
<1>1. /\ b \in DOMAIN h /\ Open(h, b) /\ IsFiniteSet(Results(h, b))
      /\ n \in Nat /\ n + 1 <= h[b].calls /\ h[b].calls \in Nat
  BY BatchOpen
<1>2. /\ Grows(h, g) /\ Len(g) = Len(h) + 1 /\ g[Len(h) + 1] = m
  BY <1>1, GrowsOne
<1> HIDE DEF g, n
<1>3. /\ DOMAIN h = 1..Len(h) /\ DOMAIN g = 1..Len(g) /\ Len(h) \in Nat
      /\ \A i \in 1..Len(h) : g[i] = h[i]
  BY <1>2, EntryFacts DEF WellFormed, Grows
<1>4. Results(g, b) = Results(h, b) \cup {Len(h) + 1}
  <2>1. \A j : j \in (b + 1)..Len(g) <=> j \in (b + 1)..Len(h) \/ j = Len(h) + 1
    BY <1>1, <1>2, <1>3
  <2>2. \A j \in (b + 1)..Len(h) : j \in 1..Len(h)
    BY <1>1, <1>3
  <2>3. ASSUME NEW j PROVE j \in Results(g, b) <=> j \in Results(h, b) \/ j = Len(h) + 1
    <3>1. CASE j = Len(h) + 1
      BY <1>2, <2>1, <3>1 DEF Results
    <3>2. CASE j # Len(h) + 1
      <4>1. j \in (b + 1)..Len(g) <=> j \in (b + 1)..Len(h)
        BY <2>1, <3>2
      <4>2. j \in (b + 1)..Len(h) => g[j] = h[j]
        BY <1>3, <2>2
      <4>3. QED
        BY <3>2, <4>1, <4>2 DEF Results
    <3>3. QED
      BY <3>1, <3>2
  <2>4. QED
    BY <2>3
<1>5. Len(h) + 1 \notin Results(h, b) /\ \A j \in Results(h, b) : g[j] = h[j]
  BY <1>1, <1>3 DEF Results
<1>6. Cardinality(Results(g, b)) = n + 1
  <2>1. Cardinality(Results(h, b) \cup {Len(h) + 1}) = Cardinality(Results(h, b)) + 1
    BY <1>1, <1>5, FS_AddElement
  <2>2. QED
    BY <1>4, <2>1 DEF n
<1>7. {g[j].call[2] : j \in Results(g, b)} = 1..(n + 1)
  <2>1. {g[j].call[2] : j \in Results(g, b)} = {h[j].call[2] : j \in Results(h, b)} \cup {n + 1}
    <3>1. g[Len(h) + 1].call[2] = n + 1
      BY <1>2 DEF n
    <3>2. QED
      BY <1>4, <1>5, <3>1
  <2>2. {h[j].call[2] : j \in Results(h, b)} = 1..n
    BY DEF InBatch, n
  <2>3. (1..n) \cup {n + 1} = 1..(n + 1)
    BY <1>1
  <2>4. QED
    BY <2>1, <2>2, <2>3
<1>8. g[b] = h[b] /\ n + 1 < h[b].calls
  <2>1. n + 1 # h[b].calls
    BY DEF n
  <2>2. QED
    BY <1>1, <1>3, <2>1
<1>9. b \in DOMAIN g /\ \A i \in DOMAIN g : g[i].calls > 0 => i <= b
  <2>1. b \in DOMAIN g
    BY <1>1, <1>2, <1>3
  <2>2. ASSUME NEW i \in DOMAIN g, g[i].calls > 0 PROVE i <= b
    <3>1. i # Len(h) + 1
      BY <1>2, <2>2
    <3>2. i \in DOMAIN h /\ g[i] = h[i]
      BY <1>2, <1>3, <3>1
    <3>3. QED
      BY <2>2, <3>2 DEF InBatch
  <2>3. QED
    BY <2>1, <2>2
<1>10. h[b].calls > 0
  BY DEF InBatch
<1>11. InBatch(g, b)
  BY <1>6, <1>7, <1>8, <1>9, <1>10 DEF InBatch
<1>12. QED
  BY <1>11 DEF g

-----------------------------------------------------------------------------
(* Between compactions the checkpoint in use is the one that was saved. *)
LEMMA PreviousStands ==
    ASSUME Stands(checkpoint, history), WellFormed(history)
    PROVE  Previous = checkpoint /\ checkpoint.covered \in 0..Len(history) /\ Len(history) \in Nat
<1>1. ValidFor(checkpoint, history)
  BY EntryFacts DEF Stands, ValidFor, WellFormed
<1>2. QED
  BY <1>1, EntryFacts DEF Previous, Stands, WellFormed

(* Nor does the tail that assemble_with_reduction keeps. *)
LEMMA KeptSpares ==
    ASSUME Stands(checkpoint, history), WellFormed(history)
    PROVE  Spares(history, Kept, checkpoint.covered)
<1> DEFINE tail == RawTail(history, Prunable(history), checkpoint.covered)
<1>1. Previous = checkpoint /\ checkpoint.covered \in Nat /\ history \in Seq(Entry)
  BY PreviousStands DEF WellFormed
<1>2. Spares(history, tail, checkpoint.covered)
  BY <1>1, RawTailSpares
<1>3. Spares(history, Promoted(history, Prunable(history), tail), checkpoint.covered)
  BY <1>1, <1>2, PromotedSpares
<1>4. Kept = IF Fits(Pruned) THEN tail ELSE Promoted(history, Prunable(history), tail)
  BY <1>1 DEF Kept
<1> HIDE DEF tail
<1>5. QED
  BY <1>2, <1>3, <1>4

(* What is compacted is closed, beyond the checkpoint and before the newest    *)
(* interaction, so the checkpoint that follows stands too and knows more.      *)
LEMMA NewStands ==
    ASSUME Stands(checkpoint, history), WellFormed(history), plan.source = Sent, Sent # {}
    PROVE  Stands(NewCheckpoint, history) /\ Previous.known \subseteq NewCheckpoint.known
<1> DEFINE k == Len(history)
           covered == checkpoint.covered
           ends == {UnitEnd(history, u) : u \in Sent}
<1>1. /\ Previous = checkpoint /\ covered \in 0..k /\ k \in Nat
      /\ history \in Seq(Entry) /\ DOMAIN history = 1..k
  BY PreviousStands, EntryFacts DEF WellFormed
<1>2. Spares(history, Kept, covered) /\ Cuts(history, Units(history))
  BY <1>1, KeptSpares, UnitsCut
<1>3. Sent \subseteq Region
  BY DEF Sent, Source
<1>4. \A u \in Sent : /\ u \in Units(history) /\ u \notin Kept /\ Closed(history, u)
                      /\ UnitEnd(history, u) \in u..k
  <2>1. TAKE u \in Sent
  <2>2. u \in Units(history) \ Kept /\ ~Covered(history, u, covered)
    BY <1>1, <1>3 DEF Region, Candidates
  <2>3. Closed(history, u)
    BY <1>2, <2>2 DEF Spares
  <2>4. u \in DOMAIN history
    BY <1>2, <2>2 DEF Cuts
  <2>5. UnitEnd(history, u) \in u..k
    BY <1>1, <2>4, EndBounds
  <2>6. QED
    BY <2>2, <2>3, <2>5
<1>5. \A u \in Sent : u \in 1..k
  BY <1>1, <1>2, <1>4 DEF Cuts
<1>6. ends \in SUBSET (0..k) /\ ends # {}
  BY <1>1, <1>4, <1>5
<1>7. Max(ends) \in ends
  BY <1>1, <1>6, MaxIn
<1>8. /\ NewCheckpoint.covered = Max(ends)
      /\ NewCheckpoint.prefix = SubSeq(history, 1, Max(ends))
      /\ NewCheckpoint.known = Previous.known \cup Positions(history, Sent)
  BY DEF NewCheckpoint, Rolled
<1>9. PICK u \in Sent : Max(ends) = UnitEnd(history, u)
  BY <1>7
<1>10. Max(ends) \in 0..k
  BY <1>6, <1>7
<1> HIDE DEF ends
<1>11. history # <<>> /\ IsTool(history, Max(Units(history))) => Max(ends) < Max(Units(history))
  <2> DEFINE last == Max(Units(history))
  <2>1. SUFFICES ASSUME history # <<>>, IsTool(history, last) PROVE Max(ends) < last
    OBVIOUS
  <2> HIDE DEF last
  <2>2. last \in Units(history) /\ \A v \in Units(history) : v <= last
    BY <1>1, <2>1, LastUnit DEF last
  <2>3. covered < last
    BY <2>1 DEF Stands, last
  <2>4. last \in Kept
    BY <1>2, <2>1, <2>3 DEF Spares, last
  <2>5. last \in 1..k /\ u \in 1..k /\ u # last /\ u <= last
    BY <1>1, <1>2, <1>4, <1>5, <2>2, <2>4 DEF Cuts
  <2>6. u < last
    BY <1>1, <2>5
  <2>7. QED
    BY <1>2, <1>4, <1>9, <2>2, <2>6 DEF Cuts
<1>12. QED
  BY <1>1, <1>4, <1>8, <1>9, <1>10, <1>11 DEF Stands

(* The newest interaction is whole in a request. *)
Told(h, r) ==
    IsTool(h, Max(Units(h))) => Unit(h, Max(Units(h))) \subseteq r.shown \ r.pruned

(* It is so in every request the context manager may make. *)
LEMMA RequestsFresh ==
    ASSUME Stands(checkpoint, history), WellFormed(history), history # <<>>, NEW known
    PROVE  Told(history, Whole) /\ Told(history, Pruned) /\ Told(history, Shown(Kept, known))
<1> DEFINE last == Max(Units(history))
           covered == checkpoint.covered
           k == Len(history)
<1>1. /\ Previous = checkpoint /\ covered \in 0..k /\ k \in Nat
      /\ history \in Seq(Entry) /\ DOMAIN history = 1..k
  BY PreviousStands, EntryFacts DEF WellFormed
<1>2. Spares(history, Kept, covered) /\ Cuts(history, Units(history))
  BY <1>1, KeptSpares, UnitsCut
<1>3. /\ last \in Units(history) /\ \A v \in Units(history) : v <= last
      /\ UnitEnd(history, last) = k
  BY <1>1, LastUnit
<1> SUFFICES ASSUME IsTool(history, last)
    PROVE  \A r \in {Whole, Pruned, Shown(Kept, known)} :
               Unit(history, last) \subseteq r.shown \ r.pruned
  BY DEF Told
<1>a. IsTool(history, last) /\ last = Max(Units(history))
  OBVIOUS
<1>4. covered < last /\ last \in Kept
  BY <1>2 DEF Spares, Stands
<1> HIDE DEF last
<1>5. last \in 1..k /\ Unit(history, last) = last..k
  BY <1>1, <1>2, <1>3 DEF Cuts, Unit
<1>6. \A i \in last..k : i \notin Prunable(history)
  <2>1. SUFFICES ASSUME NEW i \in last..k, i \in Prunable(history) PROVE FALSE
    OBVIOUS
  <2>2. PICK u \in Units(history) :
            i \in Unit(history, u) /\ ~(u = Max(Units(history)) /\ IsTool(history, u))
    BY <2>1 DEF Prunable
  <2>3. u \in 1..k /\ u <= last /\ u # last
    BY <1>1, <1>2, <1>3, <1>a, <2>2 DEF Cuts, last
  <2>4. u < last
    BY <1>5, <2>3
  <2>5. UnitEnd(history, u) < last
    BY <1>2, <1>3, <2>4 DEF Cuts
  <2>6. UnitEnd(history, u) \in u..k
    BY <1>1, <2>3, EndBounds
  <2>7. i \in u..UnitEnd(history, u)
    BY <2>2 DEF Unit
  <2>8. QED
    BY <1>5, <2>3, <2>5, <2>6, <2>7
<1>7. last..k \subseteq Visible
  BY <1>1, <1>4, <1>5 DEF Visible
<1>8. last..k \subseteq Positions(history, Kept)
  BY <1>4, <1>5 DEF Positions
<1>9. /\ Whole.shown = Visible /\ Whole.pruned = {}
      /\ Pruned.shown = Visible /\ Pruned.pruned = Prunable(history) \cap Visible
      /\ Shown(Kept, known).shown = Positions(history, Kept)
      /\ Shown(Kept, known).pruned = Prunable(history) \cap Positions(history, Kept)
  BY DEF Whole, Pruned, Shown, Request
<1>10. QED
  BY <1>5, <1>6, <1>7, <1>8, <1>9

-----------------------------------------------------------------------------
(* A history goes on from itself. *)
LEMMA GrowsNot ==
    ASSUME NEW h, WellFormed(h)
    PROVE  Grows(h, h)
<1>1. /\ h \in Seq(Entry) /\ DOMAIN h = 1..Len(h) /\ Len(h) \in Nat
  BY EntryFacts DEF WellFormed
<1>2. QED
  BY <1>1 DEF Grows

(* The history and the checkpoint keep their invariants while the one grows,    *)
(* the other stays, and a commit takes both or neither.                        *)
LEMMA GoesOn ==
    ASSUME HistoryInv, CheckpointInv, Grows(history, history'), checkpoint' = checkpoint,
           \/ saved' = saved
           \/ \E a \in BOOLEAN : saved' = Saved(history', checkpoint', a)
    PROVE  (HistoryInv /\ CheckpointInv)'
<1>1. WellFormed(history') /\ Stands(checkpoint', history')
  BY GrowsFormed, GrowsStands DEF HistoryInv, CheckpointInv
<1>2. CASE saved' = saved
  BY <1>1, <1>2 DEF HistoryInv, CheckpointInv
<1>3. CASE \E a \in BOOLEAN : saved' = Saved(history', checkpoint', a)
  <2>1. saved'.history = history' /\ saved'.checkpoint = checkpoint'
    BY <1>3 DEF Saved
  <2>2. QED
    BY <1>1, <2>1 DEF HistoryInv, CheckpointInv
<1>4. QED
  BY <1>2, <1>3

(* A message is an entry of the history. *)
LEMMA MessageEntry ==
    ASSUME NEW r \in Role, NEW s \in Nat
    PROVE  /\ Message(r, s) \in Entry
           /\ Message(r, s).role = r /\ Message(r, s).calls = 0
<1>1. <<0, 0>> \in Nat \X Nat
  OBVIOUS
<1>2. QED
  BY <1>1, EntryMade DEF Message

(* A response with calls. *)
LEMMA CallEntry ==
    ASSUME NEW s \in Nat, NEW n \in Nat
    PROVE  LET m == [Message("assistant", s) EXCEPT !.calls = n] IN
           m \in Entry /\ m.role = "assistant" /\ m.calls = n
<1> DEFINE m == [Message("assistant", s) EXCEPT !.calls = n]
<1>1. <<0, 0>> \in Nat \X Nat
  OBVIOUS
<1>2. m = [role |-> "assistant", size |-> s, calls |-> n, call |-> <<0, 0>>]
  BY DEF Message
<1>3. [role |-> "assistant", size |-> s, calls |-> n, call |-> <<0, 0>>] \in Entry
  BY <1>1, EntryMade DEF Role
<1>4. QED
  BY <1>2, <1>3

(* A result. *)
LEMMA ResultEntry ==
    ASSUME NEW k \in Nat, NEW s \in Nat, Batch \in Nat
    PROVE  /\ Result(k, s) \in Entry /\ Result(k, s).role = "tool" /\ Result(k, s).calls = 0
           /\ Result(k, s).call[1] = Batch /\ Result(k, s).call[2] = k
<1> DEFINE c == <<Batch, k>>
<1>1. c \in Nat \X Nat /\ c[1] = Batch /\ c[2] = k
  OBVIOUS
<1> HIDE DEF c
<1>2. Result(k, s) = [role |-> "tool", size |-> s, calls |-> 0, call |-> c]
  BY DEF Result, Message, c
<1>3. [role |-> "tool", size |-> s, calls |-> 0, call |-> c] \in Entry
  BY <1>1, EntryMade DEF Role
<1>4. QED
  BY <1>1, <1>2, <1>3

-----------------------------------------------------------------------------
(* What the context manager computes depends on the history, the checkpoint    *)
(* and the pending input only.                                                *)
LEMMA Unmoved ==
    ASSUME UNCHANGED <<history, checkpoint, fresh>>
    PROVE  Kept' = Kept /\ Sent' = Sent
<1>1. Previous' = Previous
  BY DEF Previous
<1>2. Pruned' = Pruned
  BY <1>1 DEF Pruned, Visible, Request
<1>3. Fits(Pruned)' <=> Fits(Pruned)
  BY <1>2 DEF Fits, RequestWeight
<1>4. Kept' = Kept
  BY <1>1, <1>3 DEF Kept
<1>5. QED
  BY <1>1, <1>4 DEF Sent, Region

(* A Turn that ends, whatever it appended and whether its commit succeeds. *)
LEMMA EndsTurn ==
    ASSUME ReductionInv, Grows(history, history'), checkpoint' = checkpoint, EndTurn
    PROVE  ReductionInv'
<1>1. (HistoryInv /\ CheckpointInv)'
  BY GoesOn DEF ReductionInv, EndTurn, Commit
<1>2. PhaseInv'
  BY DEF PhaseInv, EndTurn
<1>3. FreshShown'
  BY DEF FreshShown, EndTurn
<1>4. QED
  BY <1>1, <1>2, <1>3 DEF ReductionInv

(* A request is sent whole, pruned or reduced to its tail. *)
LEMMA Sends ==
    ASSUME ReductionInv, NEW r \in {Whole, Pruned, Shown(Kept, Previous.known)},
           phase = "assemble", Send(r)
    PROVE  ReductionInv'
<1>1. /\ WellFormed(history) /\ Stands(checkpoint, history) /\ history # <<>>
  BY DEF ReductionInv, HistoryInv, CheckpointInv, PhaseInv
<1>2. Told(history, r)
  BY <1>1, RequestsFresh
<1>3. (HistoryInv /\ CheckpointInv)'
  BY <1>1, GrowsNot, GoesOn DEF ReductionInv, Send
<1>4. PhaseInv'
  BY <1>1 DEF PhaseInv, Send
<1>5. FreshShown'
  BY <1>2 DEF FreshShown, Told, Send
<1>6. QED
  BY <1>3, <1>4, <1>5 DEF ReductionInv

(* The checkpoint of a compaction is committed with the history it covers, and *)
(* its tail is the request.                                                   *)
LEMMA Compacts ==
    ASSUME ReductionInv, CompactionEnds
    PROVE  ReductionInv' /\ Previous.known \subseteq checkpoint'.known
<1>1. /\ WellFormed(history) /\ Stands(checkpoint, history) /\ history # <<>>
      /\ plan.tail = Kept /\ plan.source = Sent /\ Sent # {}
  BY DEF ReductionInv, HistoryInv, CheckpointInv, PhaseInv, CompactionEnds
<1>2. Stands(NewCheckpoint, history) /\ Previous.known \subseteq NewCheckpoint.known
  BY <1>1, NewStands
<1>3. Told(history, Final)
  BY <1>1, RequestsFresh DEF Final
<1>4. /\ history' = history /\ checkpoint' = NewCheckpoint /\ request' = Final
      /\ phase' = "stream" /\ saved' = Saved(history', checkpoint', TRUE)
  BY DEF CompactionEnds, Commit
<1>5. (HistoryInv /\ CheckpointInv)'
  BY <1>1, <1>2, <1>4 DEF HistoryInv, CheckpointInv, Saved
<1>6. PhaseInv'
  BY <1>1, <1>4 DEF PhaseInv
<1>7. FreshShown'
  BY <1>3, <1>4 DEF FreshShown, Told
<1>8. QED
  BY <1>2, <1>4, <1>5, <1>6, <1>7 DEF ReductionInv

(* A process that died comes back with the history and the checkpoint of the   *)
(* store, and with a result for every call a Turn had left open.               *)
LEMMA Recovers ==
    ASSUME ReductionInv, Crash
    PROVE  ReductionInv' /\ checkpoint' = checkpoint /\ Grows(saved.history, history')
<1>1. /\ WellFormed(saved.history) /\ Stands(saved.checkpoint, saved.history)
      /\ saved.checkpoint = checkpoint
  BY DEF ReductionInv, HistoryInv, CheckpointInv
<1>2. ValidFor(saved.checkpoint, saved.history)
  BY <1>1, EntryFacts DEF Stands, ValidFor, WellFormed
<1>3. checkpoint' = checkpoint
  BY <1>1, <1>2 DEF Crash
<1>4. Grows(saved.history, history')
  <2>1. CASE saved.active
    BY <1>1, <2>1, InterruptedGrows DEF Crash
  <2>2. CASE ~saved.active
    BY <1>1, <2>2, GrowsNot DEF Crash
  <2>3. QED
    BY <2>1, <2>2
<1>5. WellFormed(history') /\ Stands(checkpoint', history')
  BY <1>1, <1>3, <1>4, GrowsFormed, GrowsStands
<1>6. saved'.history = history' /\ saved'.checkpoint = checkpoint'
  BY DEF Crash, Commit, Saved
<1>7. (HistoryInv /\ CheckpointInv)'
  BY <1>5, <1>6 DEF HistoryInv, CheckpointInv
<1>8. PhaseInv' /\ FreshShown'
  BY DEF PhaseInv, FreshShown, Crash
<1>9. QED
  BY <1>3, <1>4, <1>7, <1>8 DEF ReductionInv

-----------------------------------------------------------------------------
(* What the Turns append; Adds says that it makes no calls. *)
Adds(h, g) == Grows(h, g) /\ \A j \in (Len(h) + 1)..Len(g) : g[j].calls = 0

(* One message without calls. *)
LEMMA AddsOne ==
    ASSUME NEW h, NEW m \in Entry, WellFormed(h), m.calls = 0,
           m.role = "tool" => m.call[1] \in DOMAIN h /\ Open(h, m.call[1])
    PROVE  Adds(h, Append(h, m)) /\ Append(h, m) # <<>>
<1> DEFINE g == Append(h, m)
<1>1. Grows(h, g) /\ Len(g) = Len(h) + 1 /\ g[Len(h) + 1] = m
  BY GrowsOne
<1>2. Len(h) \in Nat
  BY EntryFacts DEF WellFormed
<1>3. g # <<>>
  BY <1>1, <1>2
<1> HIDE DEF g
<1>4. \A j \in (Len(h) + 1)..Len(g) : j = Len(h) + 1
  BY <1>1, <1>2
<1>5. QED
  BY <1>1, <1>3, <1>4 DEF Adds, g

(* The user's message starts a Turn. *)
LEMMA StartsTurn ==
    ASSUME ReductionInv, StartTurn
    PROVE  ReductionInv' /\ Adds(history, history')
<1>1. WellFormed(history)
  BY DEF ReductionInv, HistoryInv
<1>2. PICK s \in UserSizes : history' = Append(history, Message("user", s))
  BY DEF StartTurn
<1>3. /\ Message("user", s) \in Entry
      /\ Message("user", s).role = "user" /\ Message("user", s).calls = 0
  BY ReductionBounds, MessageEntry DEF Role
<1>4. Adds(history, history') /\ history' # <<>>
  BY <1>1, <1>2, <1>3, AddsOne
<1>5. CASE EndTurn
  BY <1>4, <1>5, EndsTurn DEF StartTurn, Adds
<1>6. CASE phase' = "assemble" /\ Commit(TRUE) /\ UNCHANGED request
  <2>1. (HistoryInv /\ CheckpointInv)'
    BY <1>4, <1>6, GoesOn DEF ReductionInv, StartTurn, Commit, Adds
  <2>2. request' = NoRequest
    BY <1>6 DEF ReductionInv, PhaseInv, StartTurn
  <2>3. QED
    BY <1>4, <1>6, <2>1, <2>2 DEF ReductionInv, PhaseInv, FreshShown
<1>7. QED
  BY <1>4, <1>5, <1>6 DEF StartTurn

(* The answer ends it. *)
LEMMA AnswersTurn ==
    ASSUME ReductionInv, Answers
    PROVE  ReductionInv' /\ Adds(history, history')
<1>1. WellFormed(history)
  BY DEF ReductionInv, HistoryInv
<1>2. PICK s \in AnswerSizes : history' = Append(history, Message("assistant", s))
  BY DEF Answers
<1>3. /\ Message("assistant", s) \in Entry
      /\ Message("assistant", s).role = "assistant" /\ Message("assistant", s).calls = 0
  BY ReductionBounds, MessageEntry DEF Role
<1>4. Adds(history, history')
  BY <1>1, <1>2, <1>3, AddsOne
<1>5. QED
  BY <1>4, EndsTurn DEF Answers, Adds

(* Tool calls begin a batch, which is the newest. *)
LEMMA CallsTools ==
    ASSUME ReductionInv, Calls
    PROVE  /\ ReductionInv' /\ Grows(history, history')
           /\ Len(history') = Len(history) + 1
<1>1. WellFormed(history)
  BY DEF ReductionInv, HistoryInv
<1>2. PICK s \in CallSizes, n \in 1..MaxCalls :
          history' = Append(history, [Message("assistant", s) EXCEPT !.calls = n])
  BY DEF Calls
<1>3. s \in Nat /\ n \in Nat /\ n > 0
  BY ReductionBounds
<1> DEFINE m == [Message("assistant", s) EXCEPT !.calls = n]
<1>4. m \in Entry /\ m.role = "assistant" /\ m.calls = n
  BY <1>3, CallEntry
<1>5. history' = Append(history, m)
  BY <1>2
<1> HIDE DEF m
<1>6. Grows(history, history') /\ Len(history') = Len(history) + 1
  BY <1>1, <1>4, <1>5, GrowsOne
<1>7. InBatch(history', Len(history) + 1)
  BY <1>1, <1>3, <1>4, <1>5, BatchBegins
<1>8. Len(history) + 1 \in DOMAIN history' /\ history' # <<>>
  BY <1>7 DEF InBatch
<1>9. CASE EndTurn
  BY <1>6, <1>9, EndsTurn DEF Calls
<1>10. CASE phase' = "tools" /\ Commit(TRUE) /\ request' = NoRequest
  <2>1. (HistoryInv /\ CheckpointInv)'
    BY <1>6, <1>10, GoesOn DEF ReductionInv, Calls, Commit
  <2>2. \E b \in DOMAIN history' : InBatch(history', b)
    BY <1>7, <1>8
  <2>3. PhaseInv'
    BY <1>8, <1>10, <2>2 DEF PhaseInv
  <2>4. FreshShown'
    BY <1>10 DEF FreshShown
  <2>5. QED
    BY <1>6, <2>1, <2>3, <2>4 DEF ReductionInv
<1>11. QED
  BY <1>6, <1>9, <1>10 DEF Calls

(* The batch of the tool phase is the newest one and has a call to answer. *)
LEMMA BatchNow ==
    ASSUME ReductionInv, phase = "tools"
    PROVE  /\ WellFormed(history) /\ InBatch(history, Batch) /\ Open(history, Batch)
           /\ Batch \in DOMAIN history /\ Batch \in Nat /\ history[Batch].calls \in Nat
           /\ Cardinality(Results(history, Batch)) \in Nat
           /\ Cardinality(Results(history, Batch)) + 1 <= history[Batch].calls
<1>1. WellFormed(history) /\ \E b \in DOMAIN history : InBatch(history, b)
  BY DEF ReductionInv, HistoryInv, PhaseInv
<1>2. PICK b \in DOMAIN history : InBatch(history, b)
  BY <1>1
<1>3. b = Batch
  BY <1>1, <1>2, BatchOpen DEF Batch
<1>4. b \in Nat
  BY <1>1, EntryFacts DEF WellFormed
<1>5. /\ Open(history, b) /\ history[b].calls \in Nat
      /\ Cardinality(Results(history, b)) \in Nat
      /\ Cardinality(Results(history, b)) + 1 <= history[b].calls
  BY <1>1, <1>2, BatchOpen
<1>6. QED
  BY <1>1, <1>2, <1>3, <1>4, <1>5

(* A result goes to the next call of the batch. *)
LEMMA RecordsResult ==
    ASSUME ReductionInv, Records
    PROVE  ReductionInv' /\ Adds(history, history')
<1> DEFINE b == Batch
<1>1. WellFormed(history) /\ b = Batch
  BY BatchNow DEF Records
<1>2. b \in DOMAIN history /\ InBatch(history, b)
  BY BatchNow DEF Records
<1>3. Open(history, b) /\ b \in Nat /\ Cardinality(Results(history, b)) \in Nat
  BY BatchNow DEF Records
<1>4. PICK s \in ResultSizes : history' = Append(history, Result(NextCall, s))
  BY DEF Records
<1> DEFINE m == Result(NextCall, s)
<1>5. NextCall = Cardinality(Results(history, b)) + 1 /\ NextCall \in Nat /\ s \in Nat
  BY <1>3, ReductionBounds DEF NextCall
<1>6. m \in Entry /\ m.role = "tool" /\ m.calls = 0 /\ m.call[1] = b /\ m.call[2] = NextCall
  BY <1>3, <1>5, ResultEntry
<1>7. history' = Append(history, m)
  BY <1>4
<1> HIDE DEF m
<1>8. Adds(history, history') /\ history' # <<>>
  BY <1>1, <1>2, <1>3, <1>6, <1>7, AddsOne
<1>9. CASE EndTurn
  BY <1>8, <1>9, EndsTurn DEF Records, Adds
<1>10. CASE /\ phase' = (IF NextCall = history[b].calls THEN "assemble" ELSE "tools")
            /\ Commit(TRUE) /\ UNCHANGED request
  <2>1. (HistoryInv /\ CheckpointInv)'
    BY <1>8, <1>10, GoesOn DEF ReductionInv, Records, Commit, Adds
  <2>2. request' = NoRequest
    BY <1>10 DEF ReductionInv, PhaseInv, Records
  <2>3. phase' = "tools" => InBatch(history', b)
    BY <1>1, <1>2, <1>5, <1>6, <1>7, <1>10, BatchGoesOn
  <2>4. phase' = "tools" => \E i \in DOMAIN history' : InBatch(history', i)
    BY <2>3 DEF InBatch
  <2>5. QED
    BY <1>8, <1>10, <2>1, <2>2, <2>4 DEF ReductionInv, PhaseInv, FreshShown
<1>11. QED
  BY <1>3, <1>8, <1>9, <1>10 DEF Records

(* An abort gives each call that is left a result. *)
LEMMA AbortsBatch ==
    ASSUME ReductionInv, Aborts
    PROVE  ReductionInv' /\ Adds(history, history')
<1> DEFINE b == Batch
<1>1. WellFormed(history)
  BY BatchNow DEF Aborts
<1>2. b \in DOMAIN history
  BY BatchNow DEF Aborts
<1>3. /\ b = Batch /\ Open(history, b) /\ b \in Nat
      /\ Cardinality(Results(history, b)) \in Nat /\ history[b].calls \in Nat
      /\ Cardinality(Results(history, b)) + 1 <= history[b].calls
  BY BatchNow DEF Aborts
<1> DEFINE k == history[b].calls - NextCall + 1
           t == [n \in 1..k |-> Result(NextCall + n - 1, MarkerSize)]
<1>4. history' = history \o t
  BY <1>3 DEF Aborts
<1>5. NextCall \in Nat /\ NextCall > 0 /\ k \in Nat /\ MarkerSize \in Nat
  BY <1>3, HistoryBounds DEF NextCall
<1>6. \A n \in 1..k : /\ t[n] \in Entry /\ t[n].role = "tool" /\ t[n].calls = 0
                      /\ t[n].call[1] = b
  <2>1. TAKE n \in 1..k
  <2> DEFINE next == NextCall + n - 1
  <2>2. next \in Nat /\ t[n] = Result(next, MarkerSize)
    BY <1>5
  <2> HIDE DEF next, t, k
  <2>3. QED
    BY <1>3, <1>5, <2>2, ResultEntry
<1>7. t \in Seq(Entry) /\ Len(t) = k
  <2> DEFINE E == Entry
  <2>1. t \in [1..k -> E]
    BY <1>6
  <2> HIDE DEF E, t, k
  <2>2. t \in Seq(E) /\ Len(t) = k
    BY <1>5, <2>1
  <2>3. QED
    BY <2>2 DEF E
<1> HIDE DEF t, k
<1>8. \A n \in 1..Len(t) : t[n].role = "tool" =>
          t[n].calls = 0 /\ t[n].call[1] \in DOMAIN history /\ Open(history, t[n].call[1])
  BY <1>2, <1>3, <1>6, <1>7
<1>9. /\ Grows(history, history') /\ Len(history') = Len(history) + k
      /\ \A n \in 1..k : history'[Len(history) + n] = t[n]
  BY <1>1, <1>4, <1>7, <1>8, GrowsBy
<1>10. Len(history) \in Nat
  BY <1>1, EntryFacts DEF WellFormed
<1>11. ASSUME NEW j \in (Len(history) + 1)..Len(history') PROVE history'[j].calls = 0
  <2> DEFINE n == j - Len(history)
  <2>1. n \in 1..k /\ j = Len(history) + n
    BY <1>5, <1>9, <1>10
  <2> HIDE DEF n
  <2>2. QED
    BY <1>6, <1>9, <2>1
<1>12. Adds(history, history')
  BY <1>9, <1>11 DEF Adds
<1>13. QED
  BY <1>12, EndsTurn DEF Aborts, Adds

-----------------------------------------------------------------------------
(* The other steps leave the history alone. *)
LEMMA Stays ==
    ASSUME ReductionInv,
           TailOverflows \/ NothingFits \/ CompactionFails \/ Stops
    PROVE  ReductionInv' /\ UNCHANGED <<history, checkpoint>>
<1>1. UNCHANGED <<history, checkpoint>> /\ EndTurn
  BY DEF TailOverflows, NothingFits, CompactionFails, Stops, Fail, Restored
<1>2. Grows(history, history')
  BY <1>1, GrowsNot DEF ReductionInv, HistoryInv
<1>3. QED
  BY <1>1, <1>2, EndsTurn

(* A compaction works on the selection it was started with. *)
LEMMA StartsCompaction ==
    ASSUME ReductionInv, StartCompaction
    PROVE  ReductionInv' /\ UNCHANGED <<history, checkpoint>>
<1>1. /\ UNCHANGED <<history, checkpoint, saved, fresh, request>>
      /\ phase = "assemble" /\ phase' = "compacting" /\ Sent # {}
      /\ plan'.tail = Kept /\ plan'.source = Sent
  BY DEF StartCompaction, Pressed
<1>2. (HistoryInv /\ CheckpointInv)'
  BY <1>1, GrowsNot, GoesOn DEF ReductionInv, HistoryInv
<1>3. Kept' = Kept /\ Sent' = Sent
  BY <1>1, Unmoved
<1>4. PhaseInv'
  BY <1>1, <1>3 DEF ReductionInv, PhaseInv
<1>5. FreshShown'
  BY <1>1 DEF ReductionInv, PhaseInv, FreshShown
<1>6. QED
  BY <1>1, <1>2, <1>4, <1>5 DEF ReductionInv

(* The three ways a request is sent. *)
LEMMA SendsAny ==
    ASSUME ReductionInv, SendWhole \/ SendPruned \/ SendTail
    PROVE  ReductionInv' /\ UNCHANGED <<history, checkpoint>>
<1>1. CASE SendWhole
  BY <1>1, Sends DEF SendWhole, Send
<1>2. CASE SendPruned
  BY <1>2, Sends DEF SendPruned, Send
<1>3. CASE SendTail
  BY <1>3, Sends DEF SendTail, Pressed, Send
<1>4. QED
  BY <1>1, <1>2, <1>3

(* Nothing has been said yet. *)
LEMMA ReductionInit == Init => ReductionInv
<1> SUFFICES ASSUME Init PROVE ReductionInv
  OBVIOUS
<1>1. WellFormed(<<>>)
  <2> DEFINE E == Entry
  <2> HIDE DEF E
  <2>1. <<>> \in Seq(E) /\ DOMAIN <<>> = {}
    BY EmptySeq, LenProperties
  <2>2. QED
    BY <2>1 DEF WellFormed, E
<1>2. SubSeq(<<>>, 1, 0) = <<>> /\ Len(<<>>) = 0
  BY EmptySeq
<1>3. Stands(NoCheckpoint, <<>>)
  BY <1>2 DEF Stands, NoCheckpoint
<1>4. QED
  BY <1>1, <1>3 DEF Init, ReductionInv, HistoryInv, CheckpointInv, PhaseInv, FreshShown, Saved

(* Every step keeps the invariant, and only a compaction moves the checkpoint. *)
LEMMA ReductionStep ==
    ASSUME ReductionInv, [Next]_vars
    PROVE  /\ ReductionInv'
           /\ checkpoint' = checkpoint \/ Previous.known \subseteq checkpoint'.known
<1>1. CASE StartTurn
  BY <1>1, StartsTurn DEF StartTurn
<1>2. CASE SendWhole \/ SendPruned \/ SendTail
  BY <1>2, SendsAny
<1>3. CASE TailOverflows \/ NothingFits \/ CompactionFails \/ Stops
  BY <1>3, Stays
<1>4. CASE StartCompaction
  BY <1>4, StartsCompaction
<1>5. CASE CompactionEnds
  BY <1>5, Compacts
<1>6. CASE Answers
  BY <1>6, AnswersTurn DEF Answers
<1>7. CASE Calls
  BY <1>7, CallsTools DEF Calls
<1>8. CASE Records
  BY <1>8, RecordsResult DEF Records
<1>9. CASE Aborts
  BY <1>9, AbortsBatch DEF Aborts
<1>10. CASE Crash
  BY <1>10, Recovers
<1>11. CASE UNCHANGED vars
  <2>1. (HistoryInv /\ CheckpointInv)'
    BY <1>11, GrowsNot, GoesOn DEF ReductionInv, HistoryInv, vars
  <2>2. Kept' = Kept /\ Sent' = Sent
    BY <1>11, Unmoved DEF vars
  <2>3. QED
    BY <1>11, <2>1, <2>2 DEF ReductionInv, PhaseInv, FreshShown, vars
<1>12. QED
  BY <1>1, <1>2, <1>3, <1>4, <1>5, <1>6, <1>7, <1>8, <1>9, <1>10, <1>11 DEF Next

(* The invariant of the model steps: the history is well formed, the checkpoint *)
(* of the record is the store's and stands in both histories.                  *)
THEOREM ReductionInvariant == Spec => []ReductionInv
<1>1. ReductionInv /\ [Next]_vars => ReductionInv'
  BY ReductionStep
<1>2. QED
  BY <1>1, ReductionInit, PTL DEF Spec

(* However pressed, a request shows the interaction no response has consumed   *)
(* yet as it is: whatever the sizes, the limits and the crashes before it.     *)
THEOREM FreshAlwaysShown == Spec => []FreshShown
<1>1. ReductionInv => FreshShown
  BY DEF ReductionInv
<1>2. QED
  BY <1>1, ReductionInvariant, PTL

(* The checkpoint in use is valid at every step, and knows no less after it.   *)
THEOREM SummariesAlwaysKept == Spec => SummariesKept
<1>1. ReductionInv => Previous = checkpoint
  BY PreviousStands DEF ReductionInv, HistoryInv, CheckpointInv
<1>2. ReductionInv' => (Previous = checkpoint)'
  BY <1>1, PTL
<1>3. ReductionInv /\ [Next]_vars => [Previous.known \subseteq Previous'.known]_vars
  <2> SUFFICES ASSUME ReductionInv, [Next]_vars
               PROVE  Previous.known \subseteq Previous'.known
    OBVIOUS
  <2>1. Previous = checkpoint /\ Previous' = checkpoint'
    BY <1>1, <1>2, ReductionStep
  <2>2. QED
    BY <2>1, ReductionStep
<1>4. QED
  BY <1>3, ReductionInvariant, PTL DEF Spec, SummariesKept

-----------------------------------------------------------------------------
(* Interactions that do not overlap stay so: no call is made while one is open. *)
LEMMA AloneGrows ==
    ASSUME NEW h, NEW g, WellFormed(h), Alone(h), Grows(h, g),
           \A j \in (Len(h) + 1)..Len(g) : g[j].calls > 0 =>
               j = Len(h) + 1 /\ \A i \in DOMAIN h : ~Open(h, i)
    PROVE  Alone(g)
<1>1. /\ h \in Seq(Entry) /\ g \in Seq(Entry)
      /\ Len(h) \in Nat /\ Len(g) \in Nat /\ Len(h) <= Len(g)
      /\ DOMAIN h = 1..Len(h) /\ DOMAIN g = 1..Len(g)
  BY EntryFacts DEF WellFormed, Grows
<1> SUFFICES ASSUME NEW i \in DOMAIN g, NEW j \in DOMAIN g, i < j, g[i].calls > 0, g[j].calls > 0
             PROVE  UnitEnd(g, i) < j
  BY DEF Alone
<1>2. \A x \in DOMAIN h : g[x] = h[x]
  BY DEF Grows
<1>3. CASE j \in DOMAIN h
  <2>1. i \in DOMAIN h
    BY <1>1, <1>3
  <2>2. UnitEnd(h, i) < j
    BY <1>2, <1>3, <2>1 DEF Alone
  <2>3. ~Open(h, i)
    BY <1>1, <1>3, <2>1, <2>2, EndBounds
  <2>4. QED
    BY <2>1, <2>2, <2>3, GrowsEnds
<1>4. CASE j \notin DOMAIN h
  <2>1. j \in (Len(h) + 1)..Len(g)
    BY <1>1, <1>4
  <2>2. j = Len(h) + 1 /\ \A x \in DOMAIN h : ~Open(h, x)
    BY <2>1
  <2>3. i \in DOMAIN h
    BY <1>1, <2>2
  <2>4. UnitEnd(g, i) = UnitEnd(h, i)
    BY <2>2, <2>3, GrowsEnds
  <2>5. UnitEnd(h, i) \in i..Len(h)
    BY <1>1, <2>3, EndBounds
  <2>6. QED
    BY <1>1, <2>2, <2>4, <2>5
<1>5. QED
  BY <1>3, <1>4

(* Then a message with calls begins a unit. *)
LEMMA CallsBegin ==
    ASSUME NEW h \in Seq(Entry), Alone(h), NEW i \in DOMAIN h, h[i].calls > 0
    PROVE  i \in Units(h)
<1>1. DOMAIN h = 1..Len(h) /\ Len(h) \in Nat /\ \A j \in 1..Len(h) : h[j].calls \in Nat
  BY EntryFacts
<1>2. Cuts(h, Units(h))
  BY UnitsCut
<1>3. PICK u \in Units(h) : u <= i /\ i <= UnitEnd(h, u)
  BY <1>2 DEF Cuts
<1>4. u \in DOMAIN h /\ UnitEnd(h, u) \in u..Len(h)
  BY <1>2, EndBounds DEF Cuts
<1>5. CASE u = i
  BY <1>5
<1>6. CASE u # i /\ h[u].calls = 0
  <2>1. UnitEnd(h, u) = u
    BY <1>4, <1>6, EndBounds
  <2>2. QED
    BY <1>1, <1>3, <1>4, <1>6, <2>1
<1>7. CASE u # i /\ h[u].calls # 0
  <2>1. h[u].calls > 0 /\ u < i
    BY <1>1, <1>3, <1>4, <1>7
  <2>2. UnitEnd(h, u) < i
    BY <1>4, <2>1 DEF Alone
  <2>3. QED
    BY <1>1, <1>3, <1>4, <2>2
<1>8. QED
  BY <1>5, <1>6, <1>7

(* A position is of one unit only. *)
LEMMA UnitOf ==
    ASSUME NEW h \in Seq(Entry), NEW us \in SUBSET Units(h), NEW u \in Units(h),
           NEW x \in Unit(h, u)
    PROVE  x \in Positions(h, us) <=> u \in us
<1>1. Cuts(h, Units(h)) /\ DOMAIN h = 1..Len(h) /\ Len(h) \in Nat
  BY UnitsCut, LenProperties
<1>2. \A v \in Units(h) : v \in 1..Len(h) /\ UnitEnd(h, v) \in v..Len(h)
  BY <1>1, EndBounds DEF Cuts
<1>3. u \in us => x \in Positions(h, us)
  BY DEF Positions
<1>4. ASSUME NEW v \in us, x \in Unit(h, v) PROVE v = u
  <2>1. /\ v \in 1..Len(h) /\ u \in 1..Len(h)
        /\ x \in v..UnitEnd(h, v) /\ x \in u..UnitEnd(h, u)
        /\ UnitEnd(h, v) \in Nat /\ UnitEnd(h, u) \in Nat
    BY <1>1, <1>2, <1>4 DEF Unit
  <2>2. v < u => UnitEnd(h, v) < u
    BY <1>1 DEF Cuts
  <2>3. u < v => UnitEnd(h, u) < v
    BY <1>1 DEF Cuts
  <2>4. QED
    BY <2>1, <2>2, <2>3
<1>5. QED
  BY <1>3, <1>4 DEF Positions

(* An interaction is covered by a checkpoint as a whole or not at all. *)
LEMMA CoversWhole ==
    ASSUME NEW h, WellFormed(h), NEW c, Stands(c, h), NEW a \in Units(h), NEW i \in Unit(h, a)
    PROVE  /\ i > c.covered <=> a > c.covered
           /\ Open(h, a) => a > c.covered
<1>1. /\ h \in Seq(Entry) /\ DOMAIN h = 1..Len(h) /\ Len(h) \in Nat /\ c.covered \in 0..Len(h)
  BY EntryFacts DEF WellFormed, Stands
<1>2. Cuts(h, Units(h))
  BY <1>1, UnitsCut
<1>3. /\ a \in 1..Len(h) /\ UnitEnd(h, a) \in a..Len(h) /\ i \in a..UnitEnd(h, a)
  BY <1>1, <1>2, EndBounds DEF Cuts, Unit
<1>4. CASE c.covered = 0
  BY <1>1, <1>3, <1>4
<1>5. CASE c.covered > 0
  <2>1. PICK v \in Units(h) : Closed(h, v) /\ UnitEnd(h, v) = c.covered
    BY <1>5 DEF Stands
  <2>2. v \in 1..Len(h)
    BY <1>1, <1>2 DEF Cuts
  <2>3. a < v => UnitEnd(h, a) < v
    BY <1>2 DEF Cuts
  <2>4. v < a => c.covered < a
    BY <1>2, <2>1 DEF Cuts
  <2>5. v \in 1..c.covered
    BY <1>1, <2>1, <2>2, EndBounds
  <2>6. a = v => UnitEnd(h, a) = c.covered /\ Closed(h, a)
    BY <2>1
  <2>7. i > c.covered <=> a > c.covered
    BY <1>1, <1>3, <2>2, <2>3, <2>4, <2>5, <2>6
  <2>8. ASSUME Open(h, a) PROVE a > c.covered
    <3>1. UnitEnd(h, a) = Len(h)
      BY <1>1, <1>3, <2>8, EndBounds
    <3>2. a # v
      BY <2>6, <2>8 DEF Closed, Open
    <3>3. QED
      BY <1>1, <1>3, <2>2, <2>3, <2>4, <3>1, <3>2
  <2>9. QED
    BY <2>7, <2>8
<1>6. QED
  BY <1>1, <1>4, <1>5

-----------------------------------------------------------------------------
(* What a selection of whole units shows, and what is visible beyond a        *)
(* checkpoint, has every call with its results and every open call.           *)
ShowsWhole(h, shown) ==
    /\ \A i \in DOMAIN h : h[i].role = "tool" => (i \in shown <=> h[i].call[1] \in shown)
    /\ \A i \in DOMAIN h : Open(h, i) => i \in shown

(* A result is in the unit of its call. *)
LEMMA ResultInUnit ==
    ASSUME NEW h, WellFormed(h), Alone(h), NEW i \in DOMAIN h, h[i].role = "tool"
    PROVE  h[i].call[1] \in Units(h) /\ {i, h[i].call[1]} \subseteq Unit(h, h[i].call[1])
<1> DEFINE a == h[i].call[1]
<1>1. /\ h \in Seq(Entry) /\ DOMAIN h = 1..Len(h) /\ Len(h) \in Nat
      /\ \A j \in 1..Len(h) : h[j].calls \in Nat
  BY EntryFacts DEF WellFormed
<1>2. a \in 1..(i - 1) /\ h[a].calls > 0
  BY DEF WellFormed, Replies
<1> HIDE DEF a
<1>3. a \in 1..Len(h) /\ i \in (a + 1)..Len(h)
  BY <1>1, <1>2
<1>4. a \in Units(h) /\ UnitEnd(h, a) \in a..Len(h) /\ h[a].calls # 0
  BY <1>1, <1>2, <1>3, CallsBegin, EndBounds
<1>5. i \in Results(h, a)
  BY <1>3 DEF Results, a
<1>6. i <= UnitEnd(h, a)
  BY <1>1, <1>3, <1>4, <1>5, EndBounds
<1>7. {i, a} \subseteq Unit(h, a)
  BY <1>1, <1>3, <1>4, <1>6 DEF Unit
<1>8. QED
  BY <1>4, <1>7 DEF a

(* An open call is the first message of a unit that reaches the end. *)
LEMMA OpenUnit ==
    ASSUME NEW h, WellFormed(h), Alone(h), NEW i \in DOMAIN h, Open(h, i)
    PROVE  i \in Units(h) /\ UnitEnd(h, i) = Len(h) /\ i \in Unit(h, i) /\ ~Closed(h, i)
<1>1. /\ h \in Seq(Entry) /\ DOMAIN h = 1..Len(h) /\ Len(h) \in Nat
  BY EntryFacts DEF WellFormed
<1>2. i \in Units(h) /\ UnitEnd(h, i) = Len(h)
  BY <1>1, CallsBegin, EndBounds DEF Open
<1>3. QED
  BY <1>1, <1>2 DEF Unit, Closed, Open

(* Every request that may be made is such a selection. *)
LEMMA RequestsWhole ==
    ASSUME Stands(checkpoint, history), WellFormed(history), Alone(history), NEW known
    PROVE  \A r \in {Whole, Pruned, Shown(Kept, known)} : ShowsWhole(history, r.shown)
<1> DEFINE covered == checkpoint.covered
           k == Len(history)
<1>1. /\ Previous = checkpoint /\ covered \in 0..k /\ k \in Nat
      /\ history \in Seq(Entry) /\ DOMAIN history = 1..k
  BY PreviousStands, EntryFacts DEF WellFormed
<1>2. Spares(history, Kept, covered)
  BY <1>1, KeptSpares
<1>3. Visible = (covered + 1)..k
  BY <1>1 DEF Visible
<1>4. ShowsWhole(history, Visible)
  <2>1. ASSUME NEW i \in DOMAIN history, history[i].role = "tool"
        PROVE  i \in Visible <=> history[i].call[1] \in Visible
    <3> DEFINE a == history[i].call[1]
    <3>1. a \in Units(history) /\ i \in Unit(history, a)
      BY <2>1, ResultInUnit
    <3>2. a \in 1..k
      BY <1>1, <3>1, UnitsCut DEF Cuts
    <3> HIDE DEF a
    <3>3. i > covered <=> a > covered
      BY <3>1, CoversWhole
    <3>4. i \in 1..k
      BY <1>1
    <3>5. i \in (covered + 1)..k <=> a \in (covered + 1)..k
      BY <1>1, <3>2, <3>3, <3>4
    <3>6. QED
      BY <1>3, <3>5 DEF a
  <2>2. ASSUME NEW i \in DOMAIN history, Open(history, i) PROVE i \in Visible
    <3>1. i \in Units(history) /\ i \in Unit(history, i)
      BY <2>2, OpenUnit
    <3>2. i > covered
      BY <2>2, <3>1, CoversWhole
    <3>3. QED
      BY <1>1, <1>3, <3>2
  <2>3. QED
    BY <2>1, <2>2 DEF ShowsWhole
<1>5. ShowsWhole(history, Positions(history, Kept))
  <2>1. Kept \in SUBSET Units(history)
    BY <1>2 DEF Spares
  <2>2. ASSUME NEW i \in DOMAIN history, history[i].role = "tool"
        PROVE  i \in Positions(history, Kept) <=> history[i].call[1] \in Positions(history, Kept)
    <3>1. /\ history[i].call[1] \in Units(history)
          /\ {i, history[i].call[1]} \subseteq Unit(history, history[i].call[1])
      BY <2>2, ResultInUnit
    <3>2. QED
      BY <1>1, <2>1, <3>1, UnitOf
  <2>3. ASSUME NEW i \in DOMAIN history, Open(history, i) PROVE i \in Positions(history, Kept)
    <3>1. /\ i \in Units(history) /\ i \in Unit(history, i) /\ ~Closed(history, i)
          /\ UnitEnd(history, i) = k
      BY <2>3, OpenUnit
    <3>2. i > covered /\ i \in 1..k
      BY <1>1, <2>3, <3>1, CoversWhole
    <3>3. ~Covered(history, i, covered)
      BY <1>1, <3>1, <3>2 DEF Covered
    <3>4. i \in Kept
      BY <1>2, <3>1, <3>3 DEF Spares
    <3>5. QED
      BY <3>1, <3>4 DEF Positions
  <2>4. QED
    BY <2>2, <2>3 DEF ShowsWhole
<1>6. /\ Whole.shown = Visible /\ Pruned.shown = Visible
      /\ Shown(Kept, known).shown = Positions(history, Kept)
  BY DEF Whole, Pruned, Shown, Request
<1>7. QED
  BY <1>4, <1>5, <1>6
-----------------------------------------------------------------------------
(* Every step but a model's calls and a crash appends messages without calls,  *)
(* if any, and commits the history or leaves the store alone.                  *)
LEMMA StepsAdd ==
    ASSUME ReductionInv, [Next]_vars, ~Calls, ~Crash
    PROVE  /\ Adds(history, history')
           /\ saved' = saved \/ saved'.history = history'
<1>1. Adds(history, history')
  <2>1. CASE history' = history
    <3>1. WellFormed(history) /\ Grows(history, history') /\ Len(history) \in Nat
      BY <2>1, GrowsNot, EntryFacts DEF ReductionInv, HistoryInv, WellFormed
    <3>2. QED
      BY <2>1, <3>1 DEF Adds
  <2>2. CASE StartTurn \/ Answers \/ Records \/ Aborts
    BY <2>2, StartsTurn, AnswersTurn, RecordsResult, AbortsBatch
  <2>3. CASE SendWhole \/ SendPruned \/ SendTail \/ StartCompaction \/ CompactionEnds \/ UNCHANGED vars
    BY <2>1, <2>3 DEF SendWhole, SendPruned, SendTail, Send, StartCompaction, CompactionEnds, vars
  <2>4. CASE TailOverflows \/ NothingFits \/ CompactionFails \/ Stops
    BY <2>1, <2>4, Stays
  <2>5. QED
    BY <2>2, <2>3, <2>4 DEF Next
<1>2. saved' = saved \/ \E a \in BOOLEAN : saved' = Saved(history', checkpoint', a)
  BY DEF Next, StartTurn, SendWhole, SendPruned, SendTail, Send, TailOverflows, NothingFits,
         Stops, Fail, StartCompaction, CompactionEnds, CompactionFails, Answers, Records,
         Aborts, EndTurn, Commit, vars
<1>3. QED
  BY <1>1, <1>2 DEF Saved

(* With a model that answers no open call, interactions never overlap.         *)
LEMMA AloneStep ==
    ASSUME Strict, ReductionInv, StrictInv, [Next]_vars
    PROVE  (Alone(history) /\ Alone(saved.history))'
<1>1. WellFormed(history) /\ WellFormed(saved.history)
  BY DEF ReductionInv, HistoryInv
<1>2. Alone(history) /\ Alone(saved.history)
  BY DEF StrictInv
<1>3. CASE Calls
  <2>1. Grows(history, history') /\ Len(history') = Len(history) + 1 /\ Len(history) \in Nat
    BY <1>1, <1>3, CallsTools, EntryFacts DEF WellFormed
  <2>2. \A i \in DOMAIN history : ~Open(history, i)
    BY <1>3 DEF StrictInv, OpenShown, Calls, Accepted, Open
  <2>3. \A j \in (Len(history) + 1)..Len(history') : j = Len(history) + 1
    BY <2>1
  <2>4. Alone(history')
    BY <1>1, <1>2, <2>1, <2>2, <2>3, AloneGrows
  <2>5. saved' = saved \/ saved'.history = history'
    BY <1>3 DEF Calls, EndTurn, Commit, Saved
  <2>6. QED
    BY <1>2, <2>4, <2>5
<1>4. CASE Crash
  <2>1. Adds(saved.history, history')
    <3>1. CASE saved.active
      BY <1>1, <1>4, <3>1, InterruptedGrows DEF Crash, Adds
    <3>2. CASE ~saved.active
      <4>1. history' = saved.history /\ Grows(saved.history, history') /\ Len(saved.history) \in Nat
        BY <1>1, <1>4, <3>2, GrowsNot, EntryFacts DEF Crash, WellFormed
      <4>2. QED
        BY <4>1 DEF Adds
    <3>3. QED
      BY <3>1, <3>2
  <2>2. Alone(history')
    BY <1>1, <1>2, <2>1, AloneGrows DEF Adds
  <2>3. saved'.history = history'
    BY <1>4 DEF Crash, Commit, Saved
  <2>4. QED
    BY <2>2, <2>3
<1>5. CASE ~Calls /\ ~Crash
  <2>1. Adds(history, history') /\ (saved' = saved \/ saved'.history = history')
    BY <1>5, StepsAdd
  <2>2. Alone(history')
    BY <1>1, <1>2, <2>1, AloneGrows DEF Adds
  <2>3. QED
    BY <1>2, <2>1, <2>2
<1>6. QED
  BY <1>3, <1>4, <1>5

(* And no request cuts one in two or hides an open call. *)
LEMMA WholeStep ==
    ASSUME ReductionInv, StrictInv, [Next]_vars
    PROVE  (PairsWhole /\ OpenShown)'
<1>1. /\ WellFormed(history) /\ Stands(checkpoint, history) /\ Alone(history)
  BY DEF ReductionInv, HistoryInv, CheckpointInv, StrictInv
<1>2. CASE /\ history' = history
           /\ request' \in {Whole, Pruned, Shown(Kept, Previous.known), Shown(Kept, NewCheckpoint.known)}
  <2>1. ShowsWhole(history, request'.shown)
    BY <1>1, <1>2, RequestsWhole
  <2>2. QED
    BY <1>2, <2>1 DEF ShowsWhole, PairsWhole, OpenShown
<1>3. CASE request' = NoRequest /\ phase' # "stream"
  BY <1>3 DEF PairsWhole, OpenShown, NoRequest
<1>4. CASE history' = history /\ request' = request /\ phase' = phase
  BY <1>4 DEF StrictInv, PairsWhole, OpenShown
<1>5. CASE SendWhole \/ SendPruned \/ SendTail
  BY <1>2, <1>5 DEF SendWhole, SendPruned, SendTail, Send
<1>6. CASE CompactionEnds
  <2>1. plan.tail = Kept
    BY <1>6 DEF ReductionInv, PhaseInv, CompactionEnds
  <2>2. QED
    BY <1>2, <1>6, <2>1 DEF CompactionEnds, Final
<1>7. CASE TailOverflows \/ NothingFits \/ CompactionFails \/ Answers \/ Stops \/ Aborts \/ Crash
  BY <1>3, <1>7 DEF TailOverflows, NothingFits, CompactionFails, Answers, Stops, Fail, Aborts,
         Crash, EndTurn
<1>8. CASE StartTurn \/ StartCompaction \/ Calls \/ Records
  <2>1. phase' # "stream"
    BY <1>8 DEF StartTurn, StartCompaction, Calls, Records, EndTurn
  <2>2. request' = NoRequest \/ request' = request
    BY <1>8 DEF StartTurn, StartCompaction, Calls, Records, EndTurn
  <2>3. phase # "stream" \/ request' = NoRequest
    BY <1>8 DEF StartTurn, StartCompaction, Pressed, Calls, Records, EndTurn
  <2>4. request' = NoRequest
    BY <2>2, <2>3 DEF ReductionInv, PhaseInv
  <2>5. QED
    BY <1>3, <2>1, <2>4
<1>9. CASE UNCHANGED vars
  BY <1>4, <1>9 DEF vars
<1>10. QED
  BY <1>5, <1>6, <1>7, <1>8, <1>9 DEF Next

(* Whatever is selected, covered or recovered, a request shows a tool call with *)
(* all of its results or none of them, if the model answers no open call.      *)
THEOREM PairsAlwaysWhole == Strict => (Spec => []PairsWhole)
<1> SUFFICES ASSUME Strict PROVE Spec => []PairsWhole
  OBVIOUS
<1>1. Init => ReductionInv /\ StrictInv
  <2> SUFFICES ASSUME Init PROVE StrictInv
    BY ReductionInit
  <2>1. DOMAIN history = {} /\ history = saved.history
    BY EmptySeq DEF Init, Saved
  <2>2. QED
    BY <2>1 DEF Init, StrictInv, Alone, PairsWhole, OpenShown
<1>2. ReductionInv /\ StrictInv /\ [Next]_vars => (ReductionInv /\ StrictInv)'
  BY ReductionStep, AloneStep, WholeStep DEF StrictInv
<1>3. ReductionInv /\ StrictInv => PairsWhole
  BY DEF StrictInv
<1>4. QED
  BY <1>1, <1>2, <1>3, PTL DEF Spec
=============================================================================
