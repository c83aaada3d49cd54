----------------------------- MODULE StreamsProofs -----------------------------
(***************************************************************************)
(* What is streamed to a user: the answer of one model call (ModelStream),   *)
(* for any number of attempts, calls and fragments; and the sequence         *)
(* numbers of the events a page follows (EventStream), for any number of     *)
(* events, lost commits and restarts.                                        *)
(***************************************************************************)
EXTENDS ModelStream, EventStream, SequenceTheorems, TLAPS

Told == [kind : {"text", "reasoning", "call", "end", "error"}, attempt : Nat, n : Nat]
Ordered(s) == \A i, j \in DOMAIN s : i < j => s[i] < s[j]

(* The pieces p of a call are parts of it, in their order; a call that has no  *)
(* name yet may have any.                                                     *)
GoodPieces(s, p, id) ==
    /\ p \in Seq(Nat) /\ Ordered(p)
    /\ \A k \in DOMAIN p : /\ p[k] \in DOMAIN s /\ s[p[k]].kind = "call"
                           /\ id # None => s[p[k]].call = id
Holds(p, i) == \E k \in DOMAIN p : p[k] = i

(* Every part that was sent is a piece of a call, and a name is of one call.   *)
Owned(s, calls, ids) ==
    /\ DOMAIN calls \subseteq Nat /\ DOMAIN ids \subseteq Call
    /\ \A x \in DOMAIN calls :
          /\ calls[x].id \in Call \cup {None}
          /\ GoodPieces(s, calls[x].pieces, calls[x].id) /\ calls[x].pieces # <<>>
          /\ calls[x].id # None => calls[x].id \in DOMAIN ids /\ ids[calls[x].id] = x
    /\ \A c \in DOMAIN ids : ids[c] \in DOMAIN calls /\ calls[ids[c]].id = c
    /\ \A i \in DOMAIN s : s[i].kind = "call" => \E x \in DOMAIN calls : Holds(calls[x].pieces, i)

(* Calls are numbered in the order they were begun, one after the other.       *)
InOrder(s, calls, ids) ==
    /\ \A c \in DOMAIN ids : 1..c \subseteq DOMAIN ids
    /\ \A i \in DOMAIN s : s[i].kind = "call" => s[i].call \in DOMAIN ids
    /\ \A x, y \in DOMAIN calls :
          x < y /\ calls[x].id # None /\ calls[y].id # None => calls[x].id < calls[y].id

(* The assembler has what was sent. *)
Assembled ==
    /\ assembler = [text |-> assembler.text, reasoning |-> assembler.reasoning,
                    calls |-> assembler.calls, ids |-> assembler.ids,
                    seen |-> assembler.seen, finished |-> assembler.finished]
    /\ assembler.text \in Seq(Nat) /\ Lists(assembler.text, OfKind("text"))
    /\ assembler.reasoning \in Seq(Nat) /\ Lists(assembler.reasoning, OfKind("reasoning"))
    /\ Owned(sent, assembler.calls, assembler.ids)
    /\ InOrder(sent, assembler.calls, assembler.ids)

(* The adapter counts beyond the calls of the assembler and knows their names;  *)
(* an index that the provider chose is the number of its call.                 *)
Indexed ==
    /\ indexes.of = assembler.ids /\ indexes.next \in Nat
    /\ \A x \in DOMAIN assembler.calls : x < indexes.next
    /\ style = "indexed" => \A x \in DOMAIN assembler.calls : assembler.calls[x].id = x + 1

(* What has been shown: the fragments, as they came. *)
Relayed(s, events, a) ==
    /\ DOMAIN events = DOMAIN s
    /\ \A i \in DOMAIN s :
          events[i].kind = s[i].kind /\ events[i].attempt = a /\ events[i].n = i

StreamInv ==
    /\ attempt \in 1..MaxAttempts /\ sent \in Seq(Fragment) /\ emitted \in Seq(Told)
    /\ style \in {"indexed", "bare"}
    /\ pc \notin {"reading", "ended"} => emitted = <<>>
    /\ pc = "streaming" => sent = <<>> /\ assembler = NewAssembler /\ indexes = NoIndexes
    /\ pc = "reading" => Assembled /\ Indexed /\ Relayed(sent, emitted, attempt) /\ (assembler.seen <=> sent # <<>>)
    /\ pc # "ended" => outcome = Pending
    /\ pc \in {"streaming", "reading", "sleeping", "chatting", "waiting", "ended"}
    /\ ShownOnce /\ AnswerExact
-----------------------------------------------------------------------------
(* A sequence with one element appended. *)
LEMMA OneMore ==
    ASSUME NEW S, NEW s \in Seq(S), NEW e \in S
    PROVE  /\ Append(s, e) \in Seq(S) /\ Len(s) \in Nat
           /\ DOMAIN s = 1..Len(s) /\ DOMAIN Append(s, e) = 1..(Len(s) + 1)
           /\ Append(s, e)[Len(s) + 1] = e
           /\ \A i \in DOMAIN s : Append(s, e)[i] = s[i]
           /\ Append(s, e) # <<>>
<1>1. DOMAIN s = 1..Len(s) /\ Len(s) \in Nat
  OBVIOUS
<1>2. /\ Append(s, e) \in Seq(S) /\ Len(Append(s, e)) = Len(s) + 1
      /\ \A i \in 1..Len(s) : Append(s, e)[i] = s[i]
      /\ Append(s, e)[Len(s) + 1] = e
  BY AppendProperties
<1>3. QED
  BY <1>1, <1>2

(* A list of positions goes on with a later one. *)
LEMMA ListsMore ==
    ASSUME NEW p \in Seq(Nat), NEW n \in Nat, \A k \in DOMAIN p : p[k] < n, Ordered(p)
    PROVE  /\ Ordered(Append(p, n))
           /\ {Append(p, n)[k] : k \in DOMAIN Append(p, n)} = {p[k] : k \in DOMAIN p} \cup {n}
<1> DEFINE q == Append(p, n)
           m == Len(p)
<1>1. /\ DOMAIN p = 1..m /\ DOMAIN q = 1..(m + 1) /\ m \in Nat /\ q[m + 1] = n
      /\ \A i \in 1..m : q[i] = p[i]
  BY OneMore
<1> HIDE DEF q, m
<1>2. \A i \in 1..(m + 1) : i = m + 1 \/ i \in 1..m
  BY <1>1
<1>3. m + 1 \in 1..(m + 1) /\ 1..m \subseteq 1..(m + 1)
  BY <1>1
<1>4. Ordered(q)
  <2> SUFFICES ASSUME NEW i \in 1..(m + 1), NEW j \in 1..(m + 1), i < j PROVE q[i] < q[j]
    BY <1>1 DEF Ordered
  <2>1. i \in 1..m
    BY <1>1
  <2>2. CASE j = m + 1
    BY <1>1, <2>1, <2>2
  <2>3. CASE j \in 1..m
    BY <1>1, <2>1, <2>3 DEF Ordered
  <2>4. QED
    BY <1>2, <2>2, <2>3
<1>5. {q[k] : k \in DOMAIN q} = {p[k] : k \in DOMAIN p} \cup {n}
  BY <1>1, <1>2, <1>3
<1>6. QED
  BY <1>4, <1>5 DEF q

(* A fragment of one kind goes to the list of its kind. *)
LEMMA KindMore ==
    ASSUME sent \in Seq(Fragment), NEW f \in Fragment, sent' = Append(sent, f), NEW kind,
           NEW p \in Seq(Nat), Lists(p, OfKind(kind))
    PROVE  /\ f.kind # kind => OfKind(kind)' = OfKind(kind)
           /\ f.kind = kind => Lists(Append(p, Len(sent) + 1), OfKind(kind)')
<1> DEFINE n == Len(sent) + 1
<1>1. /\ Len(sent) \in Nat /\ DOMAIN sent = 1..Len(sent) /\ DOMAIN sent' = 1..n
      /\ sent'[n] = f /\ \A i \in 1..Len(sent) : sent'[i] = sent[i]
  BY OneMore
<1>2. \A i \in 1..n : i = n \/ i \in 1..Len(sent)
  BY <1>1
<1>3. n \in 1..n /\ n \notin 1..Len(sent) /\ 1..Len(sent) \subseteq 1..n /\ n \in Nat
  BY <1>1
<1>4. OfKind(kind)' = OfKind(kind) \cup {i \in {n} : f.kind = kind}
  BY <1>1, <1>2, <1>3 DEF OfKind
<1>5. ASSUME f.kind = kind PROVE Lists(Append(p, n), OfKind(kind)')
  <2>1. \A k \in DOMAIN p : p[k] \in 1..Len(sent)
    BY <1>1 DEF Lists, OfKind
  <2>2. \A k \in DOMAIN p : p[k] < n
    BY <1>1, <2>1
  <2>3. Ordered(p)
    BY DEF Lists, Ordered
  <2>4. /\ Ordered(Append(p, n))
        /\ {Append(p, n)[k] : k \in DOMAIN Append(p, n)} = {p[k] : k \in DOMAIN p} \cup {n}
    BY <1>3, <2>2, <2>3, ListsMore
  <2>5. OfKind(kind)' = OfKind(kind) \cup {n}
    BY <1>4, <1>5
  <2>6. QED
    BY <2>4, <2>5 DEF Lists, Ordered
<1>6. QED
  BY <1>4, <1>5

(* The pieces of a call stay good when one more fragment is sent.              *)
LEMMA PiecesStay ==
    ASSUME NEW s \in Seq(Fragment), NEW f \in Fragment, NEW p, NEW id, GoodPieces(s, p, id)
    PROVE  GoodPieces(Append(s, f), p, id)
<1>1. /\ DOMAIN s \subseteq DOMAIN Append(s, f)
      /\ \A i \in DOMAIN s : Append(s, f)[i] = s[i]
  BY OneMore
<1>2. QED
  BY <1>1 DEF GoodPieces

(* The part that was sent last is a piece more of the call it is of.           *)
LEMMA PieceMore ==
    ASSUME NEW s \in Seq(Fragment), NEW f \in Fragment, f.kind = "call",
           NEW p, NEW id \in {None, f.call}, GoodPieces(s, p, id)
    PROVE  /\ GoodPieces(Append(s, f), Append(p, Len(s) + 1), id)
           /\ Append(p, Len(s) + 1) # <<>>
           /\ Holds(Append(p, Len(s) + 1), Len(s) + 1)
           /\ \A i : Holds(p, i) => Holds(Append(p, Len(s) + 1), i)
<1> DEFINE t == Append(s, f)
           n == Len(s) + 1
           q == Append(p, n)
           m == Len(p)
<1>1. /\ Len(s) \in Nat /\ DOMAIN s = 1..Len(s) /\ DOMAIN t = 1..n /\ t[n] = f
      /\ \A i \in DOMAIN s : t[i] = s[i]
  BY OneMore
<1>2. p \in Seq(Nat) /\ Ordered(p) /\ \A k \in DOMAIN p : p[k] \in DOMAIN s
  BY DEF GoodPieces
<1>3. n \in Nat /\ n \in DOMAIN t /\ DOMAIN s \subseteq DOMAIN t /\ \A i \in DOMAIN s : i < n
  BY <1>1
<1>4. /\ q \in Seq(Nat) /\ m \in Nat /\ DOMAIN p = 1..m /\ DOMAIN q = 1..(m + 1) /\ q[m + 1] = n
      /\ \A k \in DOMAIN p : q[k] = p[k]
      /\ q # <<>>
  BY <1>2, <1>3, OneMore
<1>5. \A k \in DOMAIN p : p[k] < n
  BY <1>2, <1>3
<1>6. Ordered(q)
  BY <1>2, <1>3, <1>5, ListsMore
<1> HIDE DEF t, n, q, m
<1>7. \A k \in DOMAIN q : k = m + 1 \/ k \in DOMAIN p
  BY <1>4
<1>8. m + 1 \in DOMAIN q /\ DOMAIN p \subseteq DOMAIN q
  BY <1>4
<1>9. GoodPieces(t, q, id)
  <2> SUFFICES ASSUME NEW k \in DOMAIN q
               PROVE  /\ q[k] \in DOMAIN t /\ t[q[k]].kind = "call"
                      /\ id # None => t[q[k]].call = id
    BY <1>4, <1>6 DEF GoodPieces
  <2>1. CASE k = m + 1
    BY <1>1, <1>3, <1>4, <2>1
  <2>2. CASE k \in DOMAIN p
    BY <1>1, <1>3, <1>4, <2>2 DEF GoodPieces
  <2>3. QED
    BY <1>7, <2>1, <2>2
<1>10. Holds(q, n) /\ \A i : Holds(p, i) => Holds(q, i)
  BY <1>4, <1>8 DEF Holds
<1>11. QED
  BY <1>4, <1>9, <1>10 DEF q, n, t

(* A part of a tool call goes to the call of its index: to a new one, or to    *)
(* the one that already has its name.                                         *)
LEMMA OwnedMore ==
    ASSUME NEW s \in Seq(Fragment), NEW f \in Fragment, f.kind = "call", f.call \in Call,
           NEW calls, NEW ids, Owned(s, calls, ids),
           NEW x \in Nat, NEW id \in {None, f.call}, NEW old, NEW ids2,
           x \in DOMAIN calls => id = f.call /\ calls[x].id = f.call /\ old = calls[x].pieces,
           x \notin DOMAIN calls => old = <<>>,
           f.id => /\ id = f.call /\ ids2 = SetKey(ids, f.call, x)
                   /\ f.call \in DOMAIN ids => ids[f.call] = x,
           ~f.id => ids2 = ids /\ (x \notin DOMAIN calls => id = None)
    PROVE  Owned(Append(s, f), SetKey(calls, x, [id |-> id, pieces |-> Append(old, Len(s) + 1)]), ids2)
<1> DEFINE n == Len(s) + 1
           t == Append(s, f)
           new == [id |-> id, pieces |-> Append(old, n)]
           calls2 == SetKey(calls, x, new)
           c == f.call
<1>1. /\ DOMAIN calls2 = DOMAIN calls \cup {x} /\ calls2[x] = new
      /\ \A y \in DOMAIN calls : y # x => calls2[y] = calls[y]
  BY DEF SetKey
<1>2. f.id => /\ DOMAIN ids2 = DOMAIN ids \cup {c} /\ ids2[c] = x
              /\ \A d \in DOMAIN ids : d # c => ids2[d] = ids[d]
  BY DEF SetKey
<1>3. GoodPieces(s, old, id)
  <2>1. CASE x \in DOMAIN calls
    BY <2>1 DEF Owned
  <2>2. CASE x \notin DOMAIN calls
    BY <2>2 DEF GoodPieces, Ordered
  <2>3. QED
    BY <2>1, <2>2
<1>4. /\ GoodPieces(t, new.pieces, id) /\ new.pieces # <<>> /\ Holds(new.pieces, n)
      /\ \A i : Holds(old, i) => Holds(new.pieces, i)
  BY <1>3, PieceMore
<1>5. new.id = id
  OBVIOUS
<1>6. /\ Len(s) \in Nat /\ DOMAIN s = 1..Len(s) /\ DOMAIN t = 1..n /\ t[n] = f
      /\ \A i \in DOMAIN s : t[i] = s[i]
  BY OneMore
<1>7. \A i \in DOMAIN t : i = n \/ i \in DOMAIN s
  BY <1>6
<1>8. \A y \in DOMAIN calls : GoodPieces(t, calls[y].pieces, calls[y].id)
  BY PiecesStay DEF Owned
<1> HIDE DEF new, calls2, t, n
<1>9. c \in Call /\ c # None
  BY DEF Call, None
<1>10. id = c => c \in DOMAIN ids2 /\ ids2[c] = x
  BY <1>2, <1>9 DEF Owned
<1>11. \A y \in DOMAIN calls : y # x /\ calls[y].id # None =>
          calls[y].id \in DOMAIN ids2 /\ ids2[calls[y].id] = y
  BY <1>2 DEF Owned
<1>12. \A y \in DOMAIN calls2 :
          /\ calls2[y].id \in Call \cup {None}
          /\ GoodPieces(t, calls2[y].pieces, calls2[y].id) /\ calls2[y].pieces # <<>>
          /\ calls2[y].id # None => calls2[y].id \in DOMAIN ids2 /\ ids2[calls2[y].id] = y
  <2> TAKE y \in DOMAIN calls2
  <2>1. CASE y = x
    BY <1>1, <1>4, <1>5, <1>9, <1>10, <2>1
  <2>2. CASE y # x
    BY <1>1, <1>8, <1>11, <2>2 DEF Owned
  <2>3. QED
    BY <2>1, <2>2
<1>13. \A d \in DOMAIN ids2 : ids2[d] \in DOMAIN calls2 /\ calls2[ids2[d]].id = d
  <2> TAKE d \in DOMAIN ids2
  <2>1. CASE f.id /\ d = c
    BY <1>1, <1>2, <1>5, <2>1
  <2>2. CASE ~(f.id /\ d = c)
    <3>1. d \in DOMAIN ids /\ ids2[d] = ids[d]
      BY <1>2, <2>2
    <3>2. ids[d] \in DOMAIN calls /\ calls[ids[d]].id = d
      BY <3>1 DEF Owned
    <3>3. QED
      BY <1>1, <1>5, <3>1, <3>2
  <2>3. QED
    BY <2>1, <2>2
<1>14. \A i \in DOMAIN t : t[i].kind = "call" =>
          \E y \in DOMAIN calls2 : Holds(calls2[y].pieces, i)
  <2> SUFFICES ASSUME NEW i \in DOMAIN t, t[i].kind = "call"
               PROVE  \E y \in DOMAIN calls2 : Holds(calls2[y].pieces, i)
    OBVIOUS
  <2>1. CASE i = n
    BY <1>1, <1>4, <2>1
  <2>2. CASE i \in DOMAIN s
    <3>1. PICK y \in DOMAIN calls : Holds(calls[y].pieces, i)
      BY <1>6, <2>2 DEF Owned
    <3>2. CASE y = x
      BY <1>1, <1>4, <3>1, <3>2
    <3>3. CASE y # x
      BY <1>1, <3>1, <3>3
    <3>4. QED
      BY <3>2, <3>3
  <2>3. QED
    BY <1>7, <2>1, <2>2
<1>15. DOMAIN calls2 \subseteq Nat /\ DOMAIN ids2 \subseteq Call
  BY <1>1, <1>2, <1>9 DEF Owned
<1>16. Owned(t, calls2, ids2)
  BY <1>12, <1>13, <1>14, <1>15 DEF Owned
<1>17. QED
  BY <1>16 DEF calls2, new, t, n

(* The fields of a fragment.                                                  *)
LEMMA FragmentFields ==
    ASSUME NEW f \in Fragment
    PROVE  /\ f.kind \in {"text", "reasoning", "call"}
           /\ f.kind = "call" => f.call \in Call /\ f.id \in BOOLEAN
           /\ f.kind # "call" => f.call = None
           /\ f.call \in Nat /\ (f.call \in Call => f.call >= 1)
<1>1. Call \subseteq Nat /\ \A c \in Call : c >= 1
  BY StreamAssumption DEF Call
<1>2. CASE f \in [kind : {"text", "reasoning"}, call : {None}, id : {FALSE}]
  BY <1>1, <1>2 DEF None
<1>3. CASE f \in [kind : {"call"}, call : Call, id : BOOLEAN]
  BY <1>1, <1>3
<1>4. QED
  BY <1>2, <1>3 DEF Fragment

(* A call that is begun comes after all others, in its name and its index.      *)
LEMMA OrderMore ==
    ASSUME NEW s \in Seq(Fragment), NEW f \in Fragment, f.kind = "call", f.call \in Call,
           NEW calls, NEW ids, Owned(s, calls, ids), InOrder(s, calls, ids),
           NEW x \in Nat, NEW id \in {None, f.call}, NEW pieces, NEW ids2,
           x \in DOMAIN calls => id = f.call /\ calls[x].id = f.call,
           f.id => /\ id = f.call /\ ids2 = SetKey(ids, f.call, x)
                   /\ f.call \in DOMAIN ids => ids[f.call] = x,
           ~f.id => ids2 = ids /\ f.call \in DOMAIN ids /\ (x \notin DOMAIN calls => id = None),
           f.call \notin DOMAIN ids => f.call = 1 \/ f.call - 1 \in DOMAIN ids,
           \/ x \in DOMAIN calls \/ \A y \in DOMAIN calls : y < x
           \/ f.call = x + 1 /\ \A y \in DOMAIN calls : calls[y].id = y + 1
    PROVE  InOrder(Append(s, f), SetKey(calls, x, [id |-> id, pieces |-> pieces]), ids2)
<1> DEFINE t == Append(s, f)
           n == Len(s) + 1
           calls2 == SetKey(calls, x, [id |-> id, pieces |-> pieces])
           c == f.call
<1>1. /\ DOMAIN calls2 = DOMAIN calls \cup {x} /\ calls2[x].id = id
      /\ \A y \in DOMAIN calls : y # x => calls2[y] = calls[y]
  BY DEF SetKey
<1>2. f.id => DOMAIN ids2 = DOMAIN ids \cup {c}
  BY DEF SetKey
<1>3. /\ Len(s) \in Nat /\ DOMAIN s = 1..Len(s) /\ DOMAIN t = 1..n /\ t[n] = f
      /\ \A i \in DOMAIN s : t[i] = s[i]
  BY OneMore
<1>4. \A i \in DOMAIN t : i = n \/ i \in DOMAIN s
  BY <1>3
<1>5. c \in Nat /\ c >= 1 /\ \A d \in Call : d \in Nat /\ d >= 1
  BY FragmentFields, StreamAssumption DEF Call
<1>6. /\ \A d \in DOMAIN ids : 1..d \subseteq DOMAIN ids /\ d \in Call
      /\ \A i \in DOMAIN s : s[i].kind = "call" => s[i].call \in DOMAIN ids
      /\ \A y, z \in DOMAIN calls :
            y < z /\ calls[y].id # None /\ calls[z].id # None => calls[y].id < calls[z].id
      /\ \A y \in DOMAIN calls : calls[y].id # None => calls[y].id \in DOMAIN ids
      /\ DOMAIN calls \subseteq Nat
  BY DEF InOrder, Owned
<1>7. c \in DOMAIN ids2 /\ DOMAIN ids \subseteq DOMAIN ids2 /\ DOMAIN ids2 \subseteq DOMAIN ids \cup {c}
  BY <1>2
<1> HIDE DEF t, n, calls2
<1>8. \A d \in DOMAIN ids2 : 1..d \subseteq DOMAIN ids2
  <2> TAKE d \in DOMAIN ids2
  <2>1. CASE d \in DOMAIN ids
    BY <1>6, <1>7, <2>1
  <2>2. CASE d = c /\ c \notin DOMAIN ids
    <3>1. \A k \in 1..c : k = c \/ k \in 1..(c - 1)
      BY <1>5
    <3>2. CASE c = 1
      BY <1>7, <2>2, <3>2
    <3>3. CASE c # 1
      <4>1. 1..(c - 1) \subseteq DOMAIN ids
        BY <1>6, <2>2, <3>3
      <4>2. QED
        BY <1>7, <2>2, <3>1, <4>1
    <3>4. QED
      BY <3>2, <3>3
  <2>3. QED
    BY <1>7, <2>1, <2>2
<1>9. \A i \in DOMAIN t : t[i].kind = "call" => t[i].call \in DOMAIN ids2
  BY <1>3, <1>4, <1>6, <1>7
<1>10. CASE x \in DOMAIN calls
  <2>1. \A y \in DOMAIN calls2 : y \in DOMAIN calls /\ calls2[y].id = calls[y].id
    BY <1>1, <1>10
  <2>2. QED
    BY <1>6, <1>8, <1>9, <2>1 DEF InOrder, t, calls2
<1>11. CASE x \notin DOMAIN calls
  <2>1. \A y \in DOMAIN calls2 : y = x \/ (y \in DOMAIN calls /\ calls2[y].id = calls[y].id)
    BY <1>1
  <2>2. CASE id = None
    BY <1>1, <1>6, <1>8, <1>9, <2>1, <2>2 DEF InOrder, t, calls2
  <2>3. CASE id # None
    <3>1. id = c /\ f.id
      BY <1>11, <2>3
    <3>2. c \notin DOMAIN ids
      BY <1>11, <3>1 DEF Owned
    <3>3. CASE \A y \in DOMAIN calls : y < x
      <4>1. \A d \in DOMAIN ids : d < c
        <5> TAKE d \in DOMAIN ids
        <5>1. 1..d \subseteq DOMAIN ids /\ d \in Nat
          BY <1>5, <1>6
        <5>2. c \notin 1..d
          BY <3>2, <5>1
        <5>3. QED
          BY <1>5, <5>1, <5>2
      <4>2. \A y \in DOMAIN calls : y < x /\ ~(x < y) /\ (calls[y].id # None => calls[y].id < c)
        BY <1>6, <3>3, <4>1
      <4>3. \A y, z \in DOMAIN calls2 :
               y < z /\ calls2[y].id # None /\ calls2[z].id # None => calls2[y].id < calls2[z].id
        BY <1>1, <1>6, <2>1, <3>1, <4>2
      <4>4. QED
        BY <1>8, <1>9, <4>3 DEF InOrder, t, calls2
    <3>4. CASE c = x + 1 /\ \A y \in DOMAIN calls : calls[y].id = y + 1
      <4>1. \A y \in DOMAIN calls2 : y \in Nat /\ calls2[y].id = y + 1
        BY <1>1, <1>6, <2>1, <3>1, <3>4
      <4>2. \A y, z \in DOMAIN calls2 : y < z => calls2[y].id < calls2[z].id
        BY <4>1
      <4>3. QED
        BY <1>8, <1>9, <4>2 DEF InOrder, t, calls2
    <3>5. QED
      BY <1>11, <3>3, <3>4
  <2>4. QED
    BY <2>2, <2>3
<1>12. QED
  BY <1>10, <1>11

(* The greater of two numbers.                                                *)
LEMMA MaxOfTwo ==
    ASSUME NEW a \in Nat, NEW b \in Nat
    PROVE  Max({a, b}) \in Nat /\ Max({a, b}) >= a /\ Max({a, b}) >= b
<1>1. \E x \in {a, b} : \A y \in {a, b} : x >= y
  <2>1. CASE a >= b
    BY <2>1
  <2>2. CASE ~(a >= b)
    BY <2>2
  <2>3. QED
    BY <2>1, <2>2
<1>2. Max({a, b}) \in {a, b} /\ \A y \in {a, b} : Max({a, b}) >= y
  BY <1>1 DEF Max
<1>3. QED
  BY <1>2

(* The adapter gives a part the index its call has, or one that no call has.   *)
LEMMA IndexIsRight ==
    ASSUME NEW f \in Fragment, f.kind = "call", Sendable(f), sent \in Seq(Fragment),
           style \in {"indexed", "bare"}, Assembled, Indexed
    PROVE  /\ f.call \in Call /\ f.id \in BOOLEAN /\ IndexOf(f) \in Nat
           /\ IndexOf(f) \in DOMAIN assembler.calls => assembler.calls[IndexOf(f)].id = f.call
           /\ f.id /\ f.call \in DOMAIN assembler.ids => assembler.ids[f.call] = IndexOf(f)
           /\ style = "indexed" => IndexOf(f) = f.call - 1
           /\ style = "indexed" /\ ~f.id => IndexOf(f) \in DOMAIN assembler.calls
           /\ \/ IndexOf(f) \in DOMAIN assembler.calls
              \/ \A y \in DOMAIN assembler.calls : y < IndexOf(f)
              \/ /\ f.call = IndexOf(f) + 1
                 /\ \A y \in DOMAIN assembler.calls : assembler.calls[y].id = y + 1
<1>1. f.call \in Call /\ f.id \in BOOLEAN /\ f.call \in Nat /\ f.call >= 1
  BY FragmentFields
<1>2. /\ DOMAIN assembler.calls \subseteq Nat /\ DOMAIN assembler.ids \subseteq Call
      /\ \A c \in DOMAIN assembler.ids : /\ assembler.ids[c] \in DOMAIN assembler.calls
                                         /\ assembler.calls[assembler.ids[c]].id = c
      /\ indexes.of = assembler.ids /\ indexes.next \in Nat
      /\ \A x \in DOMAIN assembler.calls : x < indexes.next
  BY DEF Assembled, Owned, Indexed
<1>3. CASE style = "indexed"
  <2>1. IndexOf(f) = f.call - 1 /\ IndexOf(f) \in Nat /\ IndexOf(f) + 1 = f.call
    BY <1>1, <1>3 DEF IndexOf
  <2>2. \A x \in DOMAIN assembler.calls : assembler.calls[x].id = x + 1
    BY <1>3 DEF Indexed
  <2>3. ASSUME f.call \in DOMAIN assembler.ids PROVE assembler.ids[f.call] = IndexOf(f)
    <3>1. /\ assembler.ids[f.call] \in DOMAIN assembler.calls
          /\ assembler.calls[assembler.ids[f.call]].id = f.call
      BY <1>2, <2>3
    <3>2. assembler.ids[f.call] \in Nat /\ f.call = assembler.ids[f.call] + 1
      BY <1>2, <2>2, <3>1
    <3>3. QED
      BY <1>1, <2>1, <3>2
  <2>4. ASSUME ~f.id PROVE IndexOf(f) \in DOMAIN assembler.calls
    <3>1. PICK i \in DOMAIN sent : sent[i].call = f.call
      BY <2>4 DEF Sendable, Begun
    <3>2. sent[i] \in Fragment
      OBVIOUS
    <3>3. sent[i].kind = "call"
      BY <1>1, <3>1, <3>2, FragmentFields DEF None
    <3>4. PICK x \in DOMAIN assembler.calls : Holds(assembler.calls[x].pieces, i)
      BY <3>3 DEF Assembled, Owned
    <3>5. assembler.calls[x].id = x + 1 /\ x \in Nat
      BY <1>2, <2>2
    <3>6. GoodPieces(sent, assembler.calls[x].pieces, assembler.calls[x].id)
      BY DEF Assembled, Owned
    <3>7. sent[i].call = x + 1
      <4>1. assembler.calls[x].id # None
        BY <3>5 DEF None
      <4>2. sent[i].call = assembler.calls[x].id
        BY <3>4, <3>6, <4>1 DEF GoodPieces, Holds
      <4>3. QED
        BY <3>5, <4>2
    <3>8. QED
      BY <2>1, <3>1, <3>5, <3>7
  <2>5. QED
    BY <1>1, <2>1, <2>2, <2>3, <2>4
<1>4. CASE style # "indexed"
  <2>1. CASE f.id /\ f.call \in DOMAIN indexes.of
    BY <1>1, <1>2, <1>4, <2>1 DEF IndexOf
  <2>2. CASE ~(f.id /\ f.call \in DOMAIN indexes.of)
    <3>1. IndexOf(f) = indexes.next
      BY <1>4, <2>2 DEF IndexOf
    <3>2. indexes.next \notin DOMAIN assembler.calls
      BY <1>2
    <3>3. QED
      BY <1>1, <1>2, <1>4, <2>2, <3>1, <3>2
  <2>3. QED
    BY <2>1, <2>2
<1>5. QED
  BY <1>3, <1>4

(* A part of a tool call keeps the assembler and the adapter in agreement with *)
(* what was sent.                                                             *)
LEMMA CallAdded ==
    ASSUME NEW f \in Fragment, f.kind = "call", Sendable(f), sent \in Seq(Fragment),
           style \in {"indexed", "bare"}, Assembled, Indexed,
           sent' = Append(sent, f), style' = style, indexes' = Noted(f, IndexOf(f)),
           assembler' = AddCall(f, IndexOf(f), Len(sent) + 1)
    PROVE  Assembled' /\ Indexed' /\ assembler'.seen = TRUE
<1> DEFINE x == IndexOf(f)
           n == Len(sent) + 1
           known == x \in DOMAIN assembler.calls
           old == IF known THEN assembler.calls[x].pieces ELSE <<>>
           id == IF f.id \/ known THEN f.call ELSE None
           calls2 == SetKey(assembler.calls, x, [id |-> id, pieces |-> Append(old, n)])
           ids2 == IF f.id THEN SetKey(assembler.ids, f.call, x) ELSE assembler.ids
<1>1. /\ f.call \in Call /\ f.id \in BOOLEAN /\ x \in Nat
      /\ known => assembler.calls[x].id = f.call
      /\ f.id /\ f.call \in DOMAIN assembler.ids => assembler.ids[f.call] = x
      /\ style = "indexed" => x = f.call - 1
      /\ style = "indexed" /\ ~f.id => known
  BY IndexIsRight
<1>2. assembler = [text |-> assembler.text, reasoning |-> assembler.reasoning,
                   calls |-> assembler.calls, ids |-> assembler.ids,
                   seen |-> assembler.seen, finished |-> assembler.finished]
  BY DEF Assembled
<1>3. [id |-> IF f.id THEN f.call
              ELSE (IF known THEN assembler.calls[x] ELSE [id |-> None, pieces |-> <<>>]).id,
       pieces |-> Append((IF known THEN assembler.calls[x]
                          ELSE [id |-> None, pieces |-> <<>>]).pieces, n)]
      = [id |-> id, pieces |-> Append(old, n)]
  BY <1>1
<1>4. assembler' = [assembler EXCEPT !.ids = ids2, !.calls = calls2, !.seen = TRUE]
  BY <1>3 DEF AddCall
<1>5. /\ assembler'.text = assembler.text /\ assembler'.reasoning = assembler.reasoning
      /\ assembler'.calls = calls2 /\ assembler'.ids = ids2 /\ assembler'.seen = TRUE
      /\ assembler' = [text |-> assembler'.text, reasoning |-> assembler'.reasoning,
                       calls |-> assembler'.calls, ids |-> assembler'.ids,
                       seen |-> assembler'.seen, finished |-> assembler'.finished]
  <2> HIDE DEF calls2, ids2
  <2>1. QED
    BY <1>2, <1>4
<1>6. Owned(Append(sent, f), calls2, ids2)
  <2>1. Owned(sent, assembler.calls, assembler.ids)
    BY DEF Assembled
  <2>2. id \in {None, f.call}
    OBVIOUS
  <2>3. x \in DOMAIN assembler.calls =>
           id = f.call /\ assembler.calls[x].id = f.call /\ old = assembler.calls[x].pieces
    BY <1>1
  <2>4. x \notin DOMAIN assembler.calls => old = <<>>
    OBVIOUS
  <2>5. f.id => /\ id = f.call /\ ids2 = SetKey(assembler.ids, f.call, x)
                /\ f.call \in DOMAIN assembler.ids => assembler.ids[f.call] = x
    <3>1. f.id => id = f.call /\ ids2 = SetKey(assembler.ids, f.call, x)
      OBVIOUS
    <3>2. f.id /\ f.call \in DOMAIN assembler.ids => assembler.ids[f.call] = x
      BY <1>1
    <3> HIDE DEF x, id, ids2
    <3>3. QED
      BY <3>1, <3>2
  <2>6. ~f.id => ids2 = assembler.ids /\ (x \notin DOMAIN assembler.calls => id = None)
    OBVIOUS
  <2>7. f.call \in Call /\ x \in Nat
    BY <1>1
  <2> HIDE DEF x, id, old, ids2, known
  <2>8. QED
    BY <2>7, <2>1, <2>2, <2>3, <2>4, <2>5, <2>6, OwnedMore
<1>7. InOrder(Append(sent, f), calls2, ids2)
  <2>1. Owned(sent, assembler.calls, assembler.ids) /\ InOrder(sent, assembler.calls, assembler.ids)
    BY DEF Assembled
  <2>2. \A c \in Call : Begun(c) => c \in DOMAIN assembler.ids
    <3> SUFFICES ASSUME NEW i \in DOMAIN sent, sent[i].call \in Call
                 PROVE  sent[i].call \in DOMAIN assembler.ids
      BY DEF Begun
    <3>1. sent[i] \in Fragment
      OBVIOUS
    <3>2. sent[i].kind = "call"
      BY <3>1, FragmentFields DEF None
    <3>3. QED
      BY <2>1, <3>2 DEF InOrder
  <2>3. f.call \in Call /\ f.call \in Nat /\ f.call >= 1 /\ (f.call # 1 => f.call - 1 \in Call)
    BY FragmentFields, <1>1, StreamAssumption DEF Call
  <2>4. ~f.id => f.call \in DOMAIN assembler.ids
    BY <2>2, <2>3 DEF Sendable
  <2>5. f.call \notin DOMAIN assembler.ids => f.call = 1 \/ f.call - 1 \in DOMAIN assembler.ids
    BY <2>2, <2>3 DEF Sendable
  <2>6. id \in {None, f.call}
    OBVIOUS
  <2>7. x \in DOMAIN assembler.calls => id = f.call /\ assembler.calls[x].id = f.call
    BY <1>1
  <2>8. f.id => /\ id = f.call /\ ids2 = SetKey(assembler.ids, f.call, x)
                /\ f.call \in DOMAIN assembler.ids => assembler.ids[f.call] = x
    <3>1. f.id => id = f.call /\ ids2 = SetKey(assembler.ids, f.call, x)
      OBVIOUS
    <3>2. f.id /\ f.call \in DOMAIN assembler.ids => assembler.ids[f.call] = x
      BY <1>1
    <3> HIDE DEF x, id, ids2
    <3>3. QED
      BY <3>1, <3>2
  <2>9. ~f.id => /\ ids2 = assembler.ids /\ f.call \in DOMAIN assembler.ids
                 /\ (x \notin DOMAIN assembler.calls => id = None)
    BY <2>4
  <2>10. \/ x \in DOMAIN assembler.calls \/ \A y \in DOMAIN assembler.calls : y < x
         \/ f.call = x + 1 /\ \A y \in DOMAIN assembler.calls : assembler.calls[y].id = y + 1
    BY IndexIsRight
  <2>11. x \in Nat
    BY <1>1
  <2> HIDE DEF x, id, old, ids2, known
  <2>12. QED
    BY <2>1, <2>3, <2>5, <2>6, <2>7, <2>8, <2>9, <2>10, <2>11, OrderMore
<1>8. Lists(assembler.text, OfKind("text")') /\ Lists(assembler.reasoning, OfKind("reasoning")')
  <2>1. /\ assembler.text \in Seq(Nat) /\ Lists(assembler.text, OfKind("text"))
        /\ assembler.reasoning \in Seq(Nat) /\ Lists(assembler.reasoning, OfKind("reasoning"))
    BY DEF Assembled
  <2>2. OfKind("text")' = OfKind("text")
    BY <2>1, KindMore
  <2>3. OfKind("reasoning")' = OfKind("reasoning")
    BY <2>1, KindMore
  <2>4. QED
    BY <2>1, <2>2, <2>3
<1>9. Assembled'
  <2>1. assembler.text \in Seq(Nat) /\ assembler.reasoning \in Seq(Nat)
    BY DEF Assembled
  <2> HIDE DEF calls2, ids2
  <2>2. QED
    BY <1>5, <1>6, <1>7, <1>8, <2>1 DEF Assembled
<1>10. /\ indexes'.of = (IF f.id THEN SetKey(indexes.of, f.call, x) ELSE indexes.of)
      /\ indexes'.next = Max({indexes.next, x + 1})
  BY DEF Noted
<1>11. indexes.of = assembler.ids /\ indexes.next \in Nat
       /\ \A y \in DOMAIN assembler.calls : y < indexes.next
  BY DEF Indexed
<1>12. x + 1 \in Nat
  BY <1>1
<1>13. /\ indexes'.next \in Nat /\ indexes'.next >= indexes.next /\ indexes'.next >= x + 1
  BY <1>10, <1>11, <1>12, MaxOfTwo
<1>14. /\ DOMAIN calls2 = DOMAIN assembler.calls \cup {x}
       /\ calls2[x].id = id
       /\ \A y \in DOMAIN assembler.calls : y # x => calls2[y] = assembler.calls[y]
  BY DEF SetKey
<1>15. DOMAIN assembler.calls \subseteq Nat
  BY DEF Assembled, Owned
<1>16. indexes'.of = assembler'.ids
  BY <1>5, <1>10, <1>11
<1> HIDE DEF calls2, ids2, x
<1>17. \A y \in DOMAIN assembler'.calls : y < indexes'.next
  BY <1>1, <1>5, <1>11, <1>13, <1>14, <1>15
<1>18. ASSUME style' = "indexed", NEW y \in DOMAIN assembler'.calls
       PROVE  assembler'.calls[y].id = y + 1
  <2>1. f.call \in Nat /\ x = f.call - 1 /\ id = f.call
    BY <1>1, <1>18, StreamAssumption DEF Call
  <2>2. CASE y = x
    BY <1>5, <1>14, <2>1, <2>2
  <2>3. CASE y # x
    BY <1>5, <1>14, <1>18, <2>3 DEF Indexed
  <2>4. QED
    BY <2>2, <2>3
<1>19. Indexed'
  BY <1>13, <1>16, <1>17, <1>18 DEF Indexed
<1>20. QED
  BY <1>5, <1>9, <1>19

(* Text and reasoning do not disturb the tool calls.                          *)
LEMMA PlainAdded ==
    ASSUME NEW f \in Fragment, f.kind # "call", sent \in Seq(Fragment), Assembled, Indexed,
           sent' = Append(sent, f), style' = style, indexes' = indexes, NEW x,
           assembler' = Added(f, x, Len(sent) + 1)
    PROVE  Assembled' /\ Indexed' /\ assembler'.seen = TRUE
<1> DEFINE n == Len(sent) + 1
<1>1. /\ assembler = [text |-> assembler.text, reasoning |-> assembler.reasoning,
                      calls |-> assembler.calls, ids |-> assembler.ids,
                      seen |-> assembler.seen, finished |-> assembler.finished]
      /\ assembler.text \in Seq(Nat) /\ Lists(assembler.text, OfKind("text"))
      /\ assembler.reasoning \in Seq(Nat) /\ Lists(assembler.reasoning, OfKind("reasoning"))
      /\ Owned(sent, assembler.calls, assembler.ids)
      /\ InOrder(sent, assembler.calls, assembler.ids)
  BY DEF Assembled
<1>2. f.kind \in {"text", "reasoning"}
  BY FragmentFields
<1>3. assembler' = IF f.kind = "text" THEN [assembler EXCEPT !.text = Append(@, n), !.seen = TRUE]
                   ELSE [assembler EXCEPT !.reasoning = Append(@, n), !.seen = TRUE]
  BY <1>2 DEF Added
<1>4. /\ assembler'.text = IF f.kind = "text" THEN Append(assembler.text, n) ELSE assembler.text
      /\ assembler'.reasoning = IF f.kind = "reasoning" THEN Append(assembler.reasoning, n)
                                ELSE assembler.reasoning
      /\ assembler'.calls = assembler.calls /\ assembler'.ids = assembler.ids
      /\ assembler'.seen = TRUE
      /\ assembler' = [text |-> assembler'.text, reasoning |-> assembler'.reasoning,
                       calls |-> assembler'.calls, ids |-> assembler'.ids,
                       seen |-> assembler'.seen, finished |-> assembler'.finished]
  <2>1. CASE f.kind = "text"
    BY <1>1, <1>3, <2>1
  <2>2. CASE f.kind = "reasoning"
    BY <1>1, <1>3, <2>2
  <2>3. QED
    BY <1>2, <2>1, <2>2
<1>5. n \in Nat
  BY OneMore
<1>6. /\ f.kind # "text" => OfKind("text")' = OfKind("text")
      /\ f.kind = "text" => Lists(Append(assembler.text, n), OfKind("text")')
  BY <1>1, KindMore
<1>7. /\ f.kind # "reasoning" => OfKind("reasoning")' = OfKind("reasoning")
      /\ f.kind = "reasoning" => Lists(Append(assembler.reasoning, n), OfKind("reasoning")')
  BY <1>1, KindMore
<1>8. assembler'.text \in Seq(Nat) /\ Lists(assembler'.text, OfKind("text")')
  <2>1. CASE f.kind = "text"
    <3>1. Append(assembler.text, n) \in Seq(Nat)
      BY <1>1, <1>5, OneMore
    <3>2. Lists(Append(assembler.text, n), OfKind("text")')
      BY <1>6, <2>1
    <3>3. assembler'.text = Append(assembler.text, n)
      BY <1>4, <2>1
    <3> HIDE DEF n
    <3>4. QED
      BY <3>1, <3>2, <3>3
  <2>2. CASE f.kind # "text"
    BY <1>1, <1>4, <1>6, <2>2
  <2>3. QED
    BY <2>1, <2>2
<1>9. assembler'.reasoning \in Seq(Nat) /\ Lists(assembler'.reasoning, OfKind("reasoning")')
  <2>1. CASE f.kind = "reasoning"
    <3>1. Append(assembler.reasoning, n) \in Seq(Nat)
      BY <1>1, <1>5, OneMore
    <3>2. Lists(Append(assembler.reasoning, n), OfKind("reasoning")')
      BY <1>7, <2>1
    <3>3. assembler'.reasoning = Append(assembler.reasoning, n)
      BY <1>4, <2>1
    <3> HIDE DEF n
    <3>4. QED
      BY <3>1, <3>2, <3>3
  <2>2. CASE f.kind # "reasoning"
    BY <1>1, <1>4, <1>7, <2>2
  <2>3. QED
    BY <2>1, <2>2
<1>10. /\ Owned(Append(sent, f), assembler.calls, assembler.ids)
       /\ InOrder(Append(sent, f), assembler.calls, assembler.ids)
  <2>1. /\ Len(sent) \in Nat /\ DOMAIN sent = 1..Len(sent) /\ DOMAIN Append(sent, f) = 1..n
        /\ Append(sent, f)[n] = f /\ \A i \in DOMAIN sent : Append(sent, f)[i] = sent[i]
    BY OneMore
  <2>2. \A i \in DOMAIN Append(sent, f) : i = n \/ i \in DOMAIN sent
    BY <2>1
  <2>3. \A y \in DOMAIN assembler.calls :
           GoodPieces(Append(sent, f), assembler.calls[y].pieces, assembler.calls[y].id)
    BY <1>1, PiecesStay DEF Owned
  <2>4. \A i \in DOMAIN Append(sent, f) : Append(sent, f)[i].kind = "call" =>
           \E y \in DOMAIN assembler.calls : Holds(assembler.calls[y].pieces, i)
    BY <1>1, <2>1, <2>2 DEF Owned
  <2>5. Owned(Append(sent, f), assembler.calls, assembler.ids)
    BY <1>1, <2>3, <2>4 DEF Owned
  <2>6. InOrder(Append(sent, f), assembler.calls, assembler.ids)
    BY <1>1, <2>1, <2>2 DEF InOrder
  <2>7. QED
    BY <2>5, <2>6
<1>11. Assembled'
  BY <1>4, <1>8, <1>9, <1>10 DEF Assembled
<1>12. Indexed'
  BY <1>4 DEF Indexed
<1>13. QED
  BY <1>4, <1>11, <1>12

(* When every call has its name, the message is the provider's answer.         *)
LEMMA AnswerOf ==
    ASSUME sent \in Seq(Fragment), Assembled, Complete(assembler.calls)
    PROVE  /\ {assembler.calls[i].id : i \in DOMAIN assembler.calls} = {c \in Call : Begun(c)}
           /\ \A i \in DOMAIN assembler.calls :
                 Lists(assembler.calls[i].pieces, PartsOf(assembler.calls[i].id))
           /\ \A i, j \in DOMAIN assembler.calls :
                 i < j => assembler.calls[i].id < assembler.calls[j].id
<1> DEFINE calls == assembler.calls
           ids == assembler.ids
<1>1. /\ \A x \in DOMAIN calls : /\ calls[x].id \in Call /\ calls[x].id # None
                                 /\ calls[x].id \in DOMAIN ids /\ ids[calls[x].id] = x
                                 /\ GoodPieces(sent, calls[x].pieces, calls[x].id)
                                 /\ calls[x].pieces # <<>>
      /\ \A i \in DOMAIN sent : sent[i].kind = "call" =>
            \E x \in DOMAIN calls : Holds(calls[x].pieces, i)
  BY DEF Assembled, Owned, Complete
<1>2. \A i \in DOMAIN sent : sent[i].call \in Call => sent[i].kind = "call"
  <2> TAKE i \in DOMAIN sent
  <2>1. sent[i] \in Fragment
    OBVIOUS
  <2>2. QED
    BY <2>1, FragmentFields DEF None
<1> HIDE DEF calls, ids
<1>3. \A x \in DOMAIN calls : Begun(calls[x].id)
  <2> TAKE x \in DOMAIN calls
  <2>1. calls[x].pieces \in Seq(Nat) /\ calls[x].pieces # <<>>
    BY <1>1 DEF GoodPieces
  <2>2. 1 \in DOMAIN calls[x].pieces
    BY <2>1
  <2>3. QED
    BY <1>1, <2>2 DEF GoodPieces, Begun
<1>4. \A i \in DOMAIN sent : sent[i].call \in Call =>
         \E x \in DOMAIN calls : Holds(calls[x].pieces, i) /\ calls[x].id = sent[i].call
  BY <1>1, <1>2 DEF GoodPieces, Holds
<1>5. {calls[i].id : i \in DOMAIN calls} = {c \in Call : Begun(c)}
  <2>1. ASSUME NEW c \in Call, Begun(c) PROVE \E x \in DOMAIN calls : calls[x].id = c
    BY <1>4, <2>1 DEF Begun
  <2>2. QED
    BY <1>1, <1>3, <2>1
<1>6. \A i, j \in DOMAIN calls : calls[i].id = calls[j].id => i = j
  BY <1>1
<1>7. ASSUME NEW x \in DOMAIN calls PROVE Lists(calls[x].pieces, PartsOf(calls[x].id))
  <2>1. \A k \in DOMAIN calls[x].pieces : calls[x].pieces[k] \in PartsOf(calls[x].id)
    BY <1>1 DEF GoodPieces, PartsOf
  <2>2. ASSUME NEW i \in PartsOf(calls[x].id)
        PROVE  \E k \in DOMAIN calls[x].pieces : calls[x].pieces[k] = i
    <3>1. i \in DOMAIN sent /\ sent[i].call = calls[x].id
      BY DEF PartsOf
    <3>2. PICK y \in DOMAIN calls : Holds(calls[y].pieces, i) /\ calls[y].id = sent[i].call
      BY <1>1, <1>4, <3>1
    <3>3. y = x
      BY <1>6, <3>1, <3>2
    <3>4. QED
      BY <3>2, <3>3 DEF Holds
  <2>3. Ordered(calls[x].pieces)
    BY <1>1 DEF GoodPieces
  <2>4. {calls[x].pieces[k] : k \in DOMAIN calls[x].pieces} = PartsOf(calls[x].id)
    BY <2>1, <2>2
  <2>5. QED
    BY <2>3, <2>4 DEF Lists, Ordered
<1>8. \A i, j \in DOMAIN calls : i < j => calls[i].id < calls[j].id
  BY <1>1 DEF Assembled, InOrder, calls
<1>9. QED
  BY <1>5, <1>7, <1>8 DEF calls

(* The positions of the events of some kinds: one more event adds its own.     *)
KindsAt(s, kinds) == {i \in DOMAIN s : s[i].kind \in kinds}

LEMMA ShownMore ==
    ASSUME NEW s \in Seq(Told), NEW e \in Told, NEW kinds
    PROVE  /\ Append(s, e) \in Seq(Told) /\ Len(Append(s, e)) = Len(s) + 1
           /\ e.kind \notin kinds => KindsAt(Append(s, e), kinds) = KindsAt(s, kinds)
           /\ e.kind \in kinds => KindsAt(Append(s, e), kinds) = KindsAt(s, kinds) \cup {Len(s) + 1}
           /\ \A i \in KindsAt(s, kinds) : Append(s, e)[i] = s[i] /\ 1 \in DOMAIN s
           /\ 1 \in DOMAIN s => Append(s, e)[1] = s[1]
<1> DEFINE t == Append(s, e)
           n == Len(s) + 1
<1>1. /\ t \in Seq(Told) /\ Len(s) \in Nat /\ DOMAIN s = 1..Len(s) /\ DOMAIN t = 1..n /\ t[n] = e
      /\ \A i \in DOMAIN s : t[i] = s[i]
  BY OneMore
<1>2. Len(t) = n
  BY AppendProperties
<1>3. \A i \in DOMAIN t : i = n \/ i \in DOMAIN s
  BY <1>1
<1>4. /\ n \in DOMAIN t /\ n \notin DOMAIN s /\ DOMAIN s \subseteq DOMAIN t
      /\ \A i \in DOMAIN s : 1 \in DOMAIN s
  BY <1>1
<1> HIDE DEF t, n
<1>5. e.kind \notin kinds => KindsAt(t, kinds) = KindsAt(s, kinds)
  BY <1>1, <1>3, <1>4 DEF KindsAt
<1>6. e.kind \in kinds => KindsAt(t, kinds) = KindsAt(s, kinds) \cup {n}
  BY <1>1, <1>3, <1>4 DEF KindsAt
<1>7. /\ \A i \in KindsAt(s, kinds) : t[i] = s[i] /\ 1 \in DOMAIN s
      /\ 1 \in DOMAIN s => t[1] = s[1]
  BY <1>1, <1>4 DEF KindsAt
<1>8. QED
  BY <1>1, <1>2, <1>5, <1>6, <1>7 DEF t, n

(* The events of a call, in the form of the lemma above.                       *)
LEMMA ShownIs ==
    /\ Content = KindsAt(emitted, {"text", "reasoning", "call"}) /\ Errors = KindsAt(emitted, {"error"})
    /\ Content' = KindsAt(emitted', {"text", "reasoning", "call"})
    /\ Errors' = KindsAt(emitted', {"error"})
BY DEF Content, Errors, Shown, KindsAt

(* A failure is told once, as the last event, or not at all.                   *)
LEMMA FailKeeps ==
    ASSUME StreamInv, pc \in {"streaming", "reading"}, NEW error, NEW raised, Fail(error, raised),
           style' = style, sent' \in Seq(Fragment)
    PROVE  StreamInv'
<1>1. /\ attempt \in 1..MaxAttempts /\ emitted \in Seq(Told) /\ outcome = Pending
      /\ ShownOnce /\ style \in {"indexed", "bare"}
  BY DEF StreamInv
<1>2. Errors = {} /\ ~Streamed
  BY <1>1 DEF ShownOnce, Pending, Streamed
<1>3. CASE IsLast(error)
  <2> DEFINE e == Event("error", None)
  <2>1. /\ pc' = "ended" /\ attempt' = attempt /\ emitted' = Append(emitted, e)
        /\ outcome' = [kind |-> "failed", via |-> "stream", error |-> raised]
    BY <1>3 DEF Fail
  <2>2. e \in Told /\ e.kind = "error"
    BY <1>1, StreamAssumption DEF Event, Told, None
  <2> HIDE DEF e
  <2>3. /\ emitted' \in Seq(Told) /\ Len(emitted') = Len(emitted) + 1
        /\ Content' = Content /\ Errors' = {Len(emitted) + 1}
        /\ \A i \in Content : emitted'[i] = emitted[i] /\ emitted'[1] = emitted[1]
    <3>1. "error" \notin {"text", "reasoning", "call"}
      OBVIOUS
    <3>2. KindsAt(emitted', {"text", "reasoning", "call"}) = KindsAt(emitted, {"text", "reasoning", "call"})
      BY <1>1, <2>1, <2>2, <3>1, ShownMore
    <3>3. KindsAt(emitted', {"error"}) = KindsAt(emitted, {"error"}) \cup {Len(emitted) + 1}
      BY <1>1, <2>1, <2>2, ShownMore
    <3>4. emitted' \in Seq(Told) /\ Len(emitted') = Len(emitted) + 1
      BY <1>1, <2>1, <2>2, ShownMore
    <3>5. \A i \in KindsAt(emitted, {"text", "reasoning", "call"}) :
             emitted'[i] = emitted[i] /\ emitted'[1] = emitted[1]
      <4>1. /\ \A i \in KindsAt(emitted, {"text", "reasoning", "call"}) :
                  Append(emitted, e)[i] = emitted[i] /\ 1 \in DOMAIN emitted
            /\ 1 \in DOMAIN emitted => Append(emitted, e)[1] = emitted[1]
        BY <1>1, <2>2, ShownMore
      <4>2. QED
        BY <2>1, <4>1
    <3>6. QED
      BY <1>2, <3>2, <3>3, <3>4, <3>5, ShownIs
  <2>4. ~Streamed' /\ AnswerExact'
    BY <2>1 DEF Streamed, AnswerExact
  <2>5. ShownOnce'
    <3>1. \A i \in Content : emitted[i].n = i /\ emitted[i].attempt = emitted[1].attempt
      BY <1>1 DEF ShownOnce
    <3>2. <<outcome'.kind, outcome'.via>> = <<"failed", "stream">>
      BY <2>1
    <3>3. QED
      BY <2>3, <2>4, <3>1, <3>2 DEF ShownOnce
  <2>6. QED
    BY <1>1, <2>1, <2>3, <2>4, <2>5 DEF StreamInv
<1>4. CASE ~IsLast(error)
  <2>1. /\ pc' = "sleeping" /\ attempt' = attempt + 1 /\ emitted' = emitted /\ outcome' = outcome
        /\ ~assembler.seen /\ attempt # MaxAttempts
    BY <1>4 DEF Fail, IsLast
  <2>2. attempt' \in 1..MaxAttempts
    BY <1>1, <2>1, StreamAssumption
  <2>3. emitted = <<>>
    <3>1. CASE pc = "streaming"
      BY <3>1 DEF StreamInv
    <3>2. CASE pc = "reading"
      <4>1. sent = <<>> /\ DOMAIN emitted = DOMAIN sent
        BY <2>1, <3>2 DEF StreamInv, Relayed
      <4>2. QED
        BY <1>1, <4>1
    <3>3. QED
      BY <3>1, <3>2
  <2>4. Content' = {} /\ Errors' = {} /\ ~Streamed'
    BY <1>1, <2>1, <2>3 DEF Content, Errors, Shown, Streamed, Pending
  <2>5. ShownOnce' /\ AnswerExact'
    BY <1>1, <2>1, <2>4 DEF ShownOnce, AnswerExact, Pending
  <2>6. QED
    BY <1>1, <2>1, <2>2, <2>3, <2>5 DEF StreamInv
<1>5. QED
  BY <1>3, <1>4

(* Fragments that are shown as they come: all of them are content.             *)
LEMMA RelayedShows ==
    ASSUME NEW s \in Seq(Fragment), NEW events \in Seq(Told), NEW a, Relayed(s, events, a)
    PROVE  /\ KindsAt(events, {"text", "reasoning", "call"}) = DOMAIN s
           /\ KindsAt(events, {"error"}) = {}
           /\ \A i \in DOMAIN s : /\ events[i].n = i /\ events[i].attempt = a
                                  /\ events[1].attempt = a
<1>1. \A i \in DOMAIN s : events[i].kind \in {"text", "reasoning", "call"}
  <2> TAKE i \in DOMAIN s
  <2>1. s[i] \in Fragment
    OBVIOUS
  <2>2. QED
    BY <2>1, FragmentFields DEF Relayed
<1>2. "error" \notin {"text", "reasoning", "call"}
  OBVIOUS
<1>3. \A i \in DOMAIN s : 1 \in DOMAIN s
  OBVIOUS
<1>4. QED
  BY <1>1, <1>2, <1>3 DEF Relayed, KindsAt

(* One more fragment, and its event.                                           *)
LEMMA RelayedMore ==
    ASSUME NEW s \in Seq(Fragment), NEW events \in Seq(Told), NEW a, Relayed(s, events, a),
           NEW f \in Fragment, NEW e \in Told, e.kind = f.kind, e.attempt = a, e.n = Len(s) + 1
    PROVE  Relayed(Append(s, f), Append(events, e), a)
<1> DEFINE t == Append(s, f)
           told == Append(events, e)
           n == Len(s) + 1
<1>1. /\ Len(s) \in Nat /\ DOMAIN s = 1..Len(s) /\ DOMAIN t = 1..n /\ t[n] = f
      /\ \A i \in DOMAIN s : t[i] = s[i]
  BY OneMore
<1>2. /\ Len(events) \in Nat /\ DOMAIN events = 1..Len(events)
      /\ DOMAIN told = 1..(Len(events) + 1) /\ told[Len(events) + 1] = e
      /\ \A i \in DOMAIN events : told[i] = events[i]
  BY OneMore
<1>3. Len(events) = Len(s)
  BY <1>1, <1>2 DEF Relayed
<1>4. \A i \in DOMAIN t : i = n \/ i \in DOMAIN s
  BY <1>1
<1> HIDE DEF t, told
<1>5. DOMAIN told = DOMAIN t /\ told[n] = e /\ DOMAIN events = DOMAIN s
  BY <1>1, <1>2, <1>3 DEF Relayed
<1>6. \A i \in DOMAIN t : told[i].kind = t[i].kind /\ told[i].attempt = a /\ told[i].n = i
  <2> TAKE i \in DOMAIN t
  <2>1. CASE i = n
    BY <1>1, <1>5, <2>1
  <2>2. CASE i \in DOMAIN s
    BY <1>1, <1>2, <1>5, <2>2 DEF Relayed
  <2>3. QED
    BY <1>4, <2>1, <2>2
<1>7. QED
  BY <1>5, <1>6 DEF Relayed, t, told

(* A fragment arrives.                                                        *)
LEMMA ArrivesKeeps ==
    ASSUME StreamInv, Arrives PROVE StreamInv'
<1>1. PICK f \in Fragment :
         /\ Sendable(f) /\ sent' = Append(sent, f) /\ pc = "reading" /\ style' = style
         /\ indexes' = IF f.kind = "call" THEN Noted(f, IndexOf(f)) ELSE indexes
         /\ IF f.kind = "call" /\ Rebinds(f, IndexOf(f))
              THEN Fail(ParseError, ParseError) /\ UNCHANGED assembler
              ELSE /\ assembler' = Added(f, IndexOf(f), Len(sent) + 1)
                   /\ emitted' = Append(emitted, Event(f.kind, Len(sent) + 1))
                   /\ UNCHANGED <<pc, attempt, outcome>>
  BY DEF Arrives
<1>2. /\ attempt \in 1..MaxAttempts /\ sent \in Seq(Fragment) /\ emitted \in Seq(Told)
      /\ outcome = Pending /\ style \in {"indexed", "bare"}
      /\ Assembled /\ Indexed /\ Relayed(sent, emitted, attempt)
  BY <1>1 DEF StreamInv
<1>3. sent' \in Seq(Fragment) /\ sent' # <<>>
  BY <1>1, <1>2, OneMore
<1>4. CASE f.kind = "call" /\ Rebinds(f, IndexOf(f))
  BY <1>1, <1>3, <1>4, FailKeeps
<1>5. CASE ~(f.kind = "call" /\ Rebinds(f, IndexOf(f)))
  <2> DEFINE e == Event(f.kind, Len(sent) + 1)
  <2>1. /\ assembler' = Added(f, IndexOf(f), Len(sent) + 1) /\ emitted' = Append(emitted, e)
        /\ pc' = pc /\ attempt' = attempt /\ outcome' = outcome
    BY <1>1, <1>5
  <2>2. Assembled' /\ Indexed' /\ assembler'.seen = TRUE
    <3>1. CASE f.kind = "call"
      <4>1. /\ assembler' = AddCall(f, IndexOf(f), Len(sent) + 1)
            /\ indexes' = Noted(f, IndexOf(f))
        BY <1>1, <2>1, <3>1 DEF Added
      <4>2. QED
        BY <1>1, <1>2, <3>1, <4>1, CallAdded
    <3>2. CASE f.kind # "call"
      <4>1. indexes' = indexes
        BY <1>1, <3>2
      <4>2. QED
        BY <1>1, <1>2, <2>1, <3>2, <4>1, PlainAdded
    <3>3. QED
      BY <3>1, <3>2
  <2>3. e.kind = f.kind /\ e.attempt = attempt /\ e.n = Len(sent) + 1
    BY DEF Event
  <2>4. e \in Told
    <3>1. f.kind \in {"text", "reasoning", "call"} /\ Len(sent) + 1 \in Nat /\ attempt \in Nat
      BY <1>2, FragmentFields, StreamAssumption
    <3>2. QED
      BY <3>1 DEF Event, Told
  <2> HIDE DEF e
  <2>5. Relayed(sent', emitted', attempt')
    BY <1>1, <1>2, <2>1, <2>3, <2>4, RelayedMore
  <2>6. emitted' \in Seq(Told)
    BY <1>2, <2>1, <2>4, OneMore
  <2>7. /\ Content' = DOMAIN sent' /\ Errors' = {}
        /\ \A i \in DOMAIN sent' : /\ emitted'[i].n = i /\ emitted'[i].attempt = attempt'
                                   /\ emitted'[1].attempt = attempt'
    BY <1>3, <2>5, <2>6, RelayedShows, ShownIs
  <2>8. ~Streamed' /\ <<outcome'.kind, outcome'.via>> = <<"pending", "none">>
    BY <1>2, <2>1 DEF Streamed, Pending
  <2>9. ShownOnce' /\ AnswerExact'
    BY <2>7, <2>8 DEF ShownOnce, AnswerExact
  <2>10. QED
    BY <1>1, <1>2, <1>3, <2>1, <2>2, <2>5, <2>6, <2>9 DEF StreamInv
<1>6. QED
  BY <1>4, <1>5

(* The stream ends: a message, or an error after the end.                      *)
LEMMA EndKeeps ==
    ASSUME StreamInv, StreamEnds PROVE StreamInv'
<1> DEFINE e == Event("end", None)
           x == Event("error", None)
<1>1. /\ attempt \in 1..MaxAttempts /\ sent \in Seq(Fragment) /\ emitted \in Seq(Told)
      /\ outcome = Pending /\ style \in {"indexed", "bare"}
      /\ Assembled /\ Relayed(sent, emitted, attempt)
  BY DEF StreamInv, StreamEnds
<1>2. e \in Told /\ e.kind = "end" /\ x \in Told /\ x.kind = "error"
  BY <1>1, StreamAssumption DEF Event, Told, None
<1>3. /\ pc' = "ended" /\ attempt' = attempt /\ style' = style /\ sent' = sent
  BY DEF StreamEnds
<1>4. /\ KindsAt(emitted, {"text", "reasoning", "call"}) = DOMAIN sent
      /\ KindsAt(emitted, {"error"}) = {}
      /\ \A i \in DOMAIN sent : /\ emitted[i].n = i /\ emitted[i].attempt = attempt
                                /\ emitted[1].attempt = attempt
  BY <1>1, RelayedShows
<1> HIDE DEF e, x
<1>5. /\ Append(emitted, e) \in Seq(Told)
      /\ KindsAt(Append(emitted, e), {"text", "reasoning", "call"}) = DOMAIN sent
      /\ KindsAt(Append(emitted, e), {"error"}) = {}
      /\ \A i \in DOMAIN sent : /\ Append(emitted, e)[i].n = i
                                /\ Append(emitted, e)[i].attempt = attempt
                                /\ Append(emitted, e)[1].attempt = attempt
  <2>1. "end" \notin {"text", "reasoning", "call"} /\ "end" \notin {"error"}
    OBVIOUS
  <2>2. /\ Append(emitted, e) \in Seq(Told)
        /\ KindsAt(Append(emitted, e), {"text", "reasoning", "call"})
             = KindsAt(emitted, {"text", "reasoning", "call"})
        /\ KindsAt(Append(emitted, e), {"error"}) = KindsAt(emitted, {"error"})
    BY <1>1, <1>2, <2>1, ShownMore
  <2>3. /\ \A i \in KindsAt(emitted, {"text", "reasoning", "call"}) :
              Append(emitted, e)[i] = emitted[i] /\ 1 \in DOMAIN emitted
        /\ 1 \in DOMAIN emitted => Append(emitted, e)[1] = emitted[1]
    BY <1>1, <1>2, ShownMore
  <2>4. QED
    BY <1>4, <2>2, <2>3
<1>6. CASE Complete(assembler.calls)
  <2>1. /\ outcome' = [kind |-> "response", via |-> "stream", message |-> Message(assembler)]
        /\ emitted' = Append(emitted, e)
    BY <1>6 DEF StreamEnds, e
  <2>2. /\ outcome'.message.text = assembler.text
        /\ outcome'.message.reasoning = assembler.reasoning
        /\ outcome'.message.calls = assembler.calls
    BY <2>1 DEF Message
  <2>3. <<outcome'.kind, outcome'.via>> = <<"response", "stream">>
    BY <2>1
  <2>4. <<"response", "stream">> \notin {<<"failed", "stream">>, <<"response", "fallback">>}
    OBVIOUS
  <2>5. ShownOnce'
    BY <1>3, <1>5, <2>1, <2>3, <2>4, ShownIs DEF ShownOnce
  <2>6. AnswerExact'
    <3>1. /\ {assembler.calls[i].id : i \in DOMAIN assembler.calls} = {c \in Call : Begun(c)}
          /\ \A i \in DOMAIN assembler.calls :
                Lists(assembler.calls[i].pieces, PartsOf(assembler.calls[i].id))
          /\ \A i, j \in DOMAIN assembler.calls :
                i < j => assembler.calls[i].id < assembler.calls[j].id
      BY <1>1, <1>6, AnswerOf
    <3>2. Lists(assembler.text, OfKind("text")) /\ Lists(assembler.reasoning, OfKind("reasoning"))
      BY <1>1 DEF Assembled
    <3>3. /\ OfKind("text")' = OfKind("text") /\ OfKind("reasoning")' = OfKind("reasoning")
          /\ \A c : (PartsOf(c)' = PartsOf(c)) /\ (Begun(c)' <=> Begun(c))
      BY <1>3 DEF OfKind, PartsOf, Begun
    <3>4. QED
      BY <2>2, <3>1, <3>2, <3>3 DEF AnswerExact
  <2>7. QED
    BY <1>1, <1>3, <1>5, <2>1, <2>5, <2>6 DEF StreamInv
<1>7. CASE ~Complete(assembler.calls)
  <2>1. /\ outcome' = [kind |-> "failed", via |-> "stream", error |-> ParseError]
        /\ emitted' = emitted \o <<e, x>>
    BY <1>7 DEF StreamEnds, e, x
  <2>2. emitted' = Append(Append(emitted, e), x)
    BY <1>1, <1>2, <2>1
  <2> DEFINE told == Append(emitted, e)
  <2>3. told \in Seq(Told)
    BY <1>5
  <2>4. "error" \notin {"text", "reasoning", "call"} /\ "error" \in {"error"}
    OBVIOUS
  <2>5. /\ Append(told, x) \in Seq(Told) /\ Len(Append(told, x)) = Len(told) + 1
        /\ KindsAt(Append(told, x), {"text", "reasoning", "call"})
             = KindsAt(told, {"text", "reasoning", "call"})
        /\ KindsAt(Append(told, x), {"error"}) = KindsAt(told, {"error"}) \cup {Len(told) + 1}
    BY <1>2, <2>3, <2>4, ShownMore
  <2>6. /\ \A i \in KindsAt(told, {"text", "reasoning", "call"}) :
              Append(told, x)[i] = told[i] /\ 1 \in DOMAIN told
        /\ 1 \in DOMAIN told => Append(told, x)[1] = told[1]
    BY <1>2, <2>3, ShownMore
  <2>7. /\ emitted' \in Seq(Told) /\ Content' = DOMAIN sent /\ Errors' = {Len(emitted')}
        /\ \A i \in DOMAIN sent : /\ emitted'[i].n = i /\ emitted'[i].attempt = attempt
                                  /\ emitted'[1].attempt = attempt
    BY <1>5, <2>2, <2>5, <2>6, ShownIs
  <2>8. <<outcome'.kind, outcome'.via>> = <<"failed", "stream">> /\ ~Streamed'
    BY <2>1 DEF Streamed
  <2>9. ShownOnce' /\ AnswerExact'
    BY <2>7, <2>8 DEF ShownOnce, AnswerExact
  <2>10. QED
    BY <1>1, <1>3, <2>7, <2>9 DEF StreamInv
<1>8. QED
  BY <1>6, <1>7

(* A call that begins, or that ends without a word of its own, or waits.       *)
LEMMA QuietKeeps ==
    ASSUME StreamInv, emitted' = emitted, style' \in {"indexed", "bare"}, pc # "ended",
           attempt' \in 1..MaxAttempts, sent' \in Seq(Fragment),
           pc' \in {"streaming", "reading", "sleeping", "chatting", "waiting", "ended"},
           pc' = "streaming" => sent' = <<>> /\ assembler' = NewAssembler /\ indexes' = NoIndexes,
           pc' = "reading" => /\ Assembled' /\ Indexed' /\ Relayed(sent', emitted', attempt')
                              /\ (assembler'.seen <=> sent' # <<>>),
           pc' # "ended" => outcome' = Pending,
           pc' \notin {"reading", "ended"} => emitted = <<>>,
           <<outcome'.kind, outcome'.via>> \notin {<<"failed", "stream">>, <<"response", "fallback">>},
           ~Streamed'
    PROVE  StreamInv'
<1>1. /\ emitted \in Seq(Told) /\ ShownOnce /\ outcome = Pending
  BY DEF StreamInv
<1>2. Errors = {}
  BY <1>1 DEF ShownOnce, Pending
<1>3. Content' = Content /\ Errors' = Errors
  BY ShownIs
<1>4. ShownOnce'
  BY <1>1, <1>2, <1>3 DEF ShownOnce
<1>5. AnswerExact'
  BY DEF AnswerExact
<1>6. QED
  BY <1>1, <1>4, <1>5 DEF StreamInv

(* An accepted request has nothing to show yet.                               *)
LEMMA NothingSent ==
    ASSUME NEW a
    PROVE  /\ Owned(<<>>, NewAssembler.calls, NewAssembler.ids)
           /\ InOrder(<<>>, NewAssembler.calls, NewAssembler.ids) /\ Relayed(<<>>, <<>>, a)
           /\ Lists(<<>>, {})
<1>1. DOMAIN NewAssembler.calls = {} /\ DOMAIN NewAssembler.ids = {}
  BY DEF NewAssembler
<1>2. /\ Owned(<<>>, NewAssembler.calls, NewAssembler.ids)
      /\ InOrder(<<>>, NewAssembler.calls, NewAssembler.ids)
  BY <1>1 DEF Owned, InOrder
<1>3. QED
  BY <1>2 DEF Relayed, Lists

(* The provider accepts the request.                                           *)
LEMMA AcceptedKeeps ==
    ASSUME StreamInv, Accepted PROVE StreamInv'
<1>1. /\ sent = <<>> /\ assembler = NewAssembler /\ indexes = NoIndexes /\ emitted = <<>>
      /\ outcome = Pending /\ attempt \in 1..MaxAttempts
  BY DEF StreamInv, Accepted
<1>2. /\ sent' = <<>> /\ assembler' = NewAssembler /\ indexes' = NoIndexes /\ emitted' = <<>>
      /\ outcome' = Pending /\ attempt' = attempt /\ pc' = "reading" /\ pc # "ended"
      /\ style' \in {"indexed", "bare"} /\ emitted' = emitted /\ sent' \in Seq(Fragment)
  BY <1>1 DEF Accepted
<1>3. OfKind("text")' = {} /\ OfKind("reasoning")' = {}
  BY <1>2 DEF OfKind
<1>4. Assembled'
  <2>1. /\ NewAssembler = [text |-> NewAssembler.text, reasoning |-> NewAssembler.reasoning,
                           calls |-> NewAssembler.calls, ids |-> NewAssembler.ids,
                           seen |-> NewAssembler.seen, finished |-> NewAssembler.finished]
        /\ NewAssembler.text = <<>> /\ NewAssembler.reasoning = <<>>
    BY DEF NewAssembler
  <2>2. <<>> \in Seq(Nat)
    OBVIOUS
  <2>3. QED
    BY <1>2, <1>3, <2>1, <2>2, NothingSent DEF Assembled
<1>5. Indexed'
  <2>1. /\ NoIndexes.of = NewAssembler.ids /\ NoIndexes.next \in Nat
        /\ DOMAIN NewAssembler.calls = {}
    BY DEF NoIndexes, NewAssembler
  <2>2. QED
    BY <1>2, <2>1 DEF Indexed
<1>6. Relayed(sent', emitted', attempt') /\ (assembler'.seen <=> sent' # <<>>)
  BY <1>2, NothingSent DEF NewAssembler
<1>7. <<outcome'.kind, outcome'.via>> = <<"pending", "none">> /\ ~Streamed'
  BY <1>2 DEF Pending, Streamed
<1>8. <<outcome'.kind, outcome'.via>> \notin {<<"failed", "stream">>, <<"response", "fallback">>}
  BY <1>7
<1>9. QED
  BY <1>1, <1>2, <1>4, <1>5, <1>6, <1>7, <1>8, QuietKeeps

(* A whole completion in place of a stream is told of as an error.             *)
LEMMA FallbackKeeps ==
    ASSUME StreamInv, NotAStream PROVE StreamInv'
<1>1. /\ sent = <<>> /\ emitted = <<>> /\ pc = "streaming"
      /\ attempt \in 1..MaxAttempts /\ style \in {"indexed", "bare"} /\ style' = style /\ sent' = sent
  BY DEF StreamInv, NotAStream
<1>2. sent' \in Seq(Fragment)
  BY <1>1
<1>3. CASE Fail(ParseError, ParseError)
  BY <1>1, <1>2, <1>3, FailKeeps
<1>4. CASE /\ pc' = "ended" /\ outcome' = [kind |-> "response", via |-> "fallback"]
           /\ emitted' = Append(emitted, Event("error", None)) /\ attempt' = attempt
  <2>1. Event("error", None) \in Told /\ Event("error", None).kind = "error"
    BY <1>1, StreamAssumption DEF Event, Told, None
  <2>2. /\ emitted' \in Seq(Told) /\ DOMAIN emitted' = {1} /\ Len(emitted') = 1
        /\ emitted'[1].kind = "error"
    BY <1>1, <1>4, <2>1
  <2>3. Content' = {} /\ Errors' = {1}
    BY <2>2, ShownIs DEF KindsAt
  <2>4. <<outcome'.kind, outcome'.via>> = <<"response", "fallback">> /\ ~Streamed'
    BY <1>4 DEF Streamed
  <2>5. ShownOnce' /\ AnswerExact'
    BY <2>2, <2>3, <2>4 DEF ShownOnce, AnswerExact
  <2>6. QED
    BY <1>1, <1>2, <1>4, <2>2, <2>5 DEF StreamInv
<1>5. QED
  BY <1>3, <1>4 DEF NotAStream

(* The backoff is over; a completion without a stream; Stop.                   *)
LEMMA RestKeeps ==
    ASSUME StreamInv, Retry \/ Chat \/ ChatAgain \/ Cancel PROVE StreamInv'
<1>1. /\ attempt \in 1..MaxAttempts /\ style \in {"indexed", "bare"} /\ sent \in Seq(Fragment)
      /\ pc \notin {"reading", "ended"} => emitted = <<>>
      /\ pc # "ended" => outcome = Pending
      /\ <<>> \in Seq(Fragment)
  BY DEF StreamInv
<1>2. ASSUME Chat, pc' = "ended", outcome'.via = "chat", attempt' = attempt PROVE StreamInv'
  <2>1. /\ pc = "chatting" /\ style' = style /\ sent' = sent /\ emitted' = emitted /\ ~Streamed'
    BY <1>2 DEF Chat, Streamed
  <2>2. <<outcome'.kind, outcome'.via>> \notin {<<"failed", "stream">>, <<"response", "fallback">>}
    BY <1>2
  <2>3. QED
    BY <1>1, <1>2, <2>1, <2>2, QuietKeeps
<1>3. ASSUME pc # "ended", pc' \in {"streaming", "chatting", "waiting"}, outcome' = outcome,
             emitted' = emitted, emitted = <<>>, style' = style, sent' \in Seq(Fragment),
             attempt' \in 1..MaxAttempts,
             pc' = "streaming" => sent' = <<>> /\ assembler' = NewAssembler /\ indexes' = NoIndexes
      PROVE  StreamInv'
  <2>1. outcome' = Pending
    BY <1>1, <1>3
  <2>2. <<outcome'.kind, outcome'.via>> = <<"pending", "none">> /\ ~Streamed'
    BY <2>1 DEF Pending, Streamed
  <2>3. <<outcome'.kind, outcome'.via>> \notin {<<"failed", "stream">>, <<"response", "fallback">>}
    BY <2>2
  <2>4. QED
    BY <1>1, <1>3, <2>1, <2>2, <2>3, QuietKeeps
<1>4. CASE Retry
  <2>1. pc = "sleeping" /\ emitted = <<>>
    BY <1>1, <1>4 DEF Retry
  <2>2. QED
    BY <1>1, <1>3, <1>4, <2>1 DEF Retry
<1>5. CASE Chat
  <2>1. /\ pc = "chatting" /\ emitted = <<>> /\ emitted' = emitted /\ style' = style /\ sent' = sent
    BY <1>1, <1>5 DEF Chat
  <2>2. \/ pc' = "ended" /\ outcome'.via = "chat" /\ attempt' = attempt
        \/ /\ pc' = "waiting" /\ attempt' = attempt + 1 /\ outcome' = outcome
           /\ attempt # MaxAttempts
    BY <1>5 DEF Chat
  <2>3. CASE pc' = "ended" /\ outcome'.via = "chat" /\ attempt' = attempt
    BY <1>2, <1>5, <2>3
  <2>4. CASE pc' = "waiting" /\ attempt' = attempt + 1 /\ outcome' = outcome /\ attempt # MaxAttempts
    <3>1. attempt' \in 1..MaxAttempts
      BY <1>1, <2>4, StreamAssumption
    <3>2. QED
      BY <1>1, <1>3, <2>1, <2>4, <3>1
  <2>5. QED
    BY <2>2, <2>3, <2>4
<1>6. CASE ChatAgain
  <2>1. pc = "waiting" /\ emitted = <<>>
    BY <1>1, <1>6 DEF ChatAgain
  <2>2. QED
    BY <1>1, <1>3, <1>6, <2>1 DEF ChatAgain
<1>7. CASE Cancel
  <2>1. /\ pc # "ended" /\ pc' = "ended" /\ emitted' = emitted /\ style' = style /\ sent' = sent
        /\ attempt' = attempt /\ <<outcome'.kind, outcome'.via>> = <<"cancelled", "none">> /\ ~Streamed'
    BY <1>7 DEF Cancel, Streamed
  <2>2. <<outcome'.kind, outcome'.via>> \notin {<<"failed", "stream">>, <<"response", "fallback">>}
    BY <2>1
  <2>3. QED
    BY <1>1, <2>1, <2>2, QuietKeeps
<1>8. QED
  BY <1>4, <1>5, <1>6, <1>7

(* A request that is refused, or a stream that breaks.                         *)
LEMMA FailuresKeep ==
    ASSUME StreamInv, RequestFails \/ StreamBreaks PROVE StreamInv'
<1>1. /\ pc \in {"streaming", "reading"} /\ style' = style /\ sent' = sent
      /\ \E error : Fail(error, RaisedAs(error))
  BY DEF RequestFails, StreamBreaks
<1>2. sent' \in Seq(Fragment)
  BY <1>1 DEF StreamInv
<1>3. PICK error : Fail(error, RaisedAs(error))
  BY <1>1
<1>4. QED
  BY <1>1, <1>2, <1>3, FailKeeps
-----------------------------------------------------------------------------
(* Whatever the provider sends, however it names its parts, and wherever the   *)
(* call fails, is tried again or is cancelled, the invariant holds.            *)
THEOREM StreamInvariant == Spec => []StreamInv
<1>1. Init => StreamInv
  <2> SUFFICES ASSUME Init PROVE StreamInv
    OBVIOUS
  <2>1. /\ sent = <<>> /\ emitted = <<>> /\ outcome = Pending /\ attempt = 1
    BY DEF Init
  <2>2. Content = {} /\ Errors = {} /\ ~Streamed
    BY <2>1 DEF Content, Errors, Shown, Streamed, Pending
  <2>3. <<outcome.kind, outcome.via>> = <<"pending", "none">>
    BY <2>1 DEF Pending
  <2>4. ShownOnce /\ AnswerExact
    BY <2>2, <2>3 DEF ShownOnce, AnswerExact
  <2>5. attempt \in 1..MaxAttempts /\ sent \in Seq(Fragment) /\ emitted \in Seq(Told)
    BY <2>1, StreamAssumption
  <2>6. QED
    BY <2>1, <2>4, <2>5 DEF Init, StreamInv
<1>2. StreamInv /\ [Next]_vars => StreamInv'
  <2> SUFFICES ASSUME StreamInv, [Next]_vars PROVE StreamInv'
    OBVIOUS
  <2>1. CASE Accepted
    BY <2>1, AcceptedKeeps
  <2>2. CASE RequestFails \/ StreamBreaks
    BY <2>2, FailuresKeep
  <2>3. CASE NotAStream
    BY <2>3, FallbackKeeps
  <2>4. CASE Arrives
    BY <2>4, ArrivesKeeps
  <2>5. CASE StreamEnds
    BY <2>5, EndKeeps
  <2>6. CASE Retry \/ Chat \/ ChatAgain \/ Cancel
    BY <2>6, RestKeeps
  <2>7. CASE UNCHANGED vars
    <3>1. /\ OfKind("text")' = OfKind("text") /\ OfKind("reasoning")' = OfKind("reasoning")
          /\ \A c : (PartsOf(c)' = PartsOf(c)) /\ (Begun(c)' <=> Begun(c))
      BY <2>7 DEF OfKind, PartsOf, Begun, vars
    <3>2. (Assembled' <=> Assembled) /\ (Indexed' <=> Indexed)
      BY <2>7, <3>1 DEF Assembled, Indexed, vars
    <3>3. (ShownOnce' <=> ShownOnce) /\ (AnswerExact' <=> AnswerExact)
      BY <2>7, <3>1 DEF ShownOnce, AnswerExact, Content, Errors, Shown, Streamed, vars
    <3>4. QED
      BY <2>7, <3>2, <3>3 DEF StreamInv, vars
  <2>8. QED
    BY <2>1, <2>2, <2>3, <2>4, <2>5, <2>6, <2>7 DEF Next, Step
<1>3. QED
  BY <1>1, <1>2, PTL DEF Spec

(* What a user has been shown of a call comes from one attempt, each fragment   *)
(* once and in order: a stream is tried again only while nothing was shown,    *)
(* and a failure is told once, at the end.                                     *)
THEOREM AttemptShownOnce == Spec => []ShownOnce
<1>1. StreamInv => ShownOnce
  BY DEF StreamInv
<1>2. QED
  BY <1>1, StreamInvariant, PTL

(* A response that was streamed is exactly what the provider sent: whether its  *)
(* parts name their calls or number them, and however they interleave.         *)
THEOREM AnswersAreExact == Spec => []AnswerExact
<1>1. StreamInv => AnswerExact
  BY DEF StreamInv
<1>2. QED
  BY <1>1, StreamInvariant, PTL
-----------------------------------------------------------------------------
(* The events of a Thread.  No event has a sequence above highest, and the     *)
(* store has reserved all of those, so that what a restart resumes from is not *)
(* below any event's, were it never committed.                                 *)
Numbered == [id : Nat, seq : Nat, semantic : BOOLEAN]
Counters == [events : Nat, lost : Nat, crashes : Nat, failures : Nat, drops : Nat, toggles : Nat]

EventsInv ==
    /\ log \in Seq(Numbered) /\ durable \in Seq(Numbered) /\ used \in Counters
    /\ {sequence, watermark, stored, highest} \subseteq Nat
    /\ highest <= sequence /\ sequence <= watermark /\ watermark <= stored
    /\ \A i \in DOMAIN durable : durable[i].seq <= highest

(* Every event of a sequence of events has a number.                           *)
LEMMA HaveNumbers ==
    ASSUME NEW s \in Seq(Numbered) PROVE \A i \in DOMAIN s : s[i].seq \in Nat
<1> TAKE i \in DOMAIN s
<1>1. s[i] \in Numbered
  OBVIOUS
<1>2. QED
  BY <1>1 DEF Numbered

(* A new event's number is reserved, and above every other.                    *)
LEMMA EmitKeeps ==
    ASSUME EventsInv, NEW semantic \in BOOLEAN, Emit(semantic)
    PROVE  EventsInv' /\ Last(log').seq > highest
<1> DEFINE event == [id |-> used.events + 1, seq |-> sequence', semantic |-> semantic]
<1>1. /\ log \in Seq(Numbered) /\ durable \in Seq(Numbered) /\ used \in Counters
      /\ {sequence, watermark, stored, highest} \subseteq Nat
      /\ highest <= sequence /\ sequence <= watermark /\ watermark <= stored
      /\ \A i \in DOMAIN durable : durable[i].seq <= highest
  BY DEF EventsInv
<1>2. Reservation \in Nat /\ Reservation >= 1
  BY StreamBounds
<1>3. /\ sequence' = sequence + 1
      /\ watermark' = IF sequence >= watermark THEN sequence + Reservation ELSE watermark
      /\ stored' = IF sequence >= watermark THEN watermark' ELSE stored
      /\ log' = Append(log, event) /\ highest' = Max({highest, event.seq})
      /\ durable' \in {durable, Append(durable, event)}
      /\ \/ used' = [used EXCEPT !.events = @ + 1]
         \/ used' = [used EXCEPT !.events = @ + 1, !.lost = @ + 1]
  BY DEF Emit, Reserve
<1>4. event \in Numbered /\ event.seq = sequence + 1 /\ event.seq \in Nat
  <2>1. used.events \in Nat /\ used.events + 1 \in Nat
    BY <1>1 DEF Counters
  <2>2. sequence' \in Nat
    BY <1>1, <1>3
  <2>3. QED
    BY <1>3, <2>1, <2>2 DEF Numbered
<1> HIDE DEF event
<1>5. highest' \in Nat /\ highest' = sequence + 1
  <2>1. Max({highest, event.seq}) \in Nat /\ Max({highest, event.seq}) >= event.seq
    BY <1>1, <1>4, MaxOfTwo
  <2>2. Max({highest, event.seq}) \in {highest, event.seq}
    <3>1. \A y \in {highest, event.seq} : event.seq >= y
      BY <1>1, <1>4
    <3>2. QED
      BY <3>1 DEF Max
  <2>3. QED
    BY <1>1, <1>3, <1>4, <2>1, <2>2
<1>6. /\ {sequence', watermark', stored', highest'} \subseteq Nat
      /\ highest' <= sequence' /\ sequence' <= watermark' /\ watermark' <= stored'
  BY <1>1, <1>2, <1>3, <1>5
<1>7. used' \in Counters
  <2>1. used.events + 1 \in Nat /\ used.lost + 1 \in Nat
    BY <1>1 DEF Counters
  <2>2. CASE used' = [used EXCEPT !.events = @ + 1]
    BY <1>1, <2>1, <2>2 DEF Counters
  <2>3. CASE used' = [used EXCEPT !.events = @ + 1, !.lost = @ + 1]
    BY <1>1, <2>1, <2>3 DEF Counters
  <2>4. QED
    BY <1>3, <2>2, <2>3
<1>8. log' \in Seq(Numbered) /\ log'[Len(log')] = event
  BY <1>1, <1>3, <1>4, AppendProperties
<1>9. durable' \in Seq(Numbered) /\ \A i \in DOMAIN durable' : durable'[i].seq <= highest'
  <2>1. CASE durable' = durable
    <3>1. \A i \in DOMAIN durable : durable[i].seq \in Nat
      BY <1>1, HaveNumbers
    <3>2. QED
      BY <1>1, <1>5, <2>1, <3>1
  <2>2. CASE durable' = Append(durable, event)
    <3>1. /\ durable' \in Seq(Numbered) /\ Len(durable) \in Nat
          /\ DOMAIN durable = 1..Len(durable) /\ DOMAIN durable' = 1..(Len(durable) + 1)
          /\ durable'[Len(durable) + 1] = event
          /\ \A i \in DOMAIN durable : durable'[i] = durable[i]
      BY <1>1, <1>4, <2>2, OneMore
    <3>2. \A i \in DOMAIN durable' : i = Len(durable) + 1 \/ i \in DOMAIN durable
      BY <3>1
    <3>3. \A i \in DOMAIN durable : durable[i].seq \in Nat
      BY <1>1, HaveNumbers
    <3>4. \A i \in DOMAIN durable : durable[i].seq <= highest'
      BY <1>1, <1>5, <3>3
    <3>5. event.seq <= highest'
      BY <1>1, <1>4, <1>5
    <3>6. QED
      BY <3>1, <3>2, <3>4, <3>5
  <2>3. QED
    BY <1>3, <2>1, <2>2
<1>10. Last(log').seq > highest
  <2>1. Last(log') = event
    BY <1>8 DEF Last
  <2>2. QED
    BY <1>1, <1>4, <2>1
<1>11. QED
  BY <1>6, <1>7, <1>8, <1>9, <1>10 DEF EventsInv

(* A restart goes on from what the store has reserved.                         *)
LEMMA RestartKeeps ==
    ASSUME EventsInv, Restart PROVE EventsInv'
<1> DEFINE all == {stored} \cup {e.seq : e \in ToSet(durable)}
<1>1. /\ log \in Seq(Numbered) /\ durable \in Seq(Numbered) /\ used \in Counters
      /\ {sequence, watermark, stored, highest} \subseteq Nat
      /\ highest <= sequence /\ sequence <= watermark /\ watermark <= stored
      /\ \A i \in DOMAIN durable : durable[i].seq <= highest
  BY DEF EventsInv
<1>2. \A s \in all : s \in Nat /\ stored >= s
  <2>1. \A i \in DOMAIN durable : durable[i].seq \in Nat
    BY <1>1, HaveNumbers
  <2>2. \A i \in DOMAIN durable : stored >= durable[i].seq
    BY <1>1, <2>1
  <2>3. QED
    BY <1>1, <2>1, <2>2 DEF ToSet
<1> HIDE DEF all
<1>3. stored \in all
  BY DEF all
<1>4. Max(all) = stored
  <2>1. Max(all) \in all /\ \A y \in all : Max(all) >= y
    <3>1. \E x \in all : \A y \in all : x >= y
      BY <1>2, <1>3
    <3>2. QED
      BY <3>1 DEF Max
  <2>2. QED
    BY <1>1, <1>2, <1>3, <2>1
<1>5. /\ log' = durable /\ sequence' = stored /\ watermark' = stored
      /\ durable' = durable /\ stored' = stored /\ highest' = highest /\ used' = used
  BY <1>4 DEF Restart, all
<1>6. QED
  BY <1>1, <1>5 DEF EventsInv

(* What the other steps leave alone.                                          *)
LEMMA OthersKeep ==
    ASSUME EventsInv,
           \/ HostFails \/ FailureCleared \/ Crash \/ StreamStep \/ PageStep
           \/ ConnectionDrops \/ Resubscribe \/ UNCHANGED eventVars
    PROVE  EventsInv' /\ used'.events = used.events
<1>1. used \in Counters
  BY DEF EventsInv
<1>2. UNCHANGED <<log, durable, sequence, watermark, stored, highest>>
  BY DEF HostFails, FailureCleared, Crash, StreamStep, TaskReads, RecoverInStream, SendEvent, NextBatch,
         PageStep, Open, Receive, ConnectionDies, RecoverAnswers, Recovered, ConnectionDrops,
         Resubscribe, Disconnect, server, eventVars
<1>3. used' \in Counters /\ used'.events = used.events
  <2>1. \/ used' = used \/ used' = [used EXCEPT !.crashes = @ + 1]
        \/ used' = [used EXCEPT !.failures = @ + 1] \/ used' = [used EXCEPT !.drops = @ + 1]
        \/ used' = [used EXCEPT !.toggles = @ + 1]
    BY DEF HostFails, FailureCleared, Crash, StreamStep, TaskReads, RecoverInStream, SendEvent,
           NextBatch, PageStep, Open, Receive, ConnectionDies, RecoverAnswers, Recovered,
           ConnectionDrops, Resubscribe, eventVars
  <2>2. QED
    BY <1>1, <2>1 DEF Counters
<1>4. QED
  BY <1>2, <1>3 DEF EventsInv

(* Through every lost commit, crash and restart, the numbers in use are        *)
(* reserved.                                                                  *)
THEOREM EventsInvariant == EventsSpec => []EventsInv
<1>1. EventsInit => EventsInv
  <2> SUFFICES ASSUME EventsInit PROVE EventsInv
    OBVIOUS
  <2> DEFINE one == <<[id |-> 1, seq |-> 1, semantic |-> TRUE]>>
  <2>1. PICK old \in {<<>>, one} :
           /\ log = old /\ durable = old
           /\ sequence = Len(old) /\ watermark = Len(old) /\ stored = Len(old)
           /\ highest = Len(old) /\ used = [Unused EXCEPT !.events = Len(old)]
    BY DEF EventsInit
  <2>2. CASE old = <<>>
    BY <2>1, <2>2 DEF EventsInv, Unused, Counters
  <2>3. CASE old = one
    <3>1. one \in Seq(Numbered) /\ Len(one) = 1 /\ DOMAIN one = {1} /\ one[1].seq = 1
      BY DEF Numbered
    <3> HIDE DEF one
    <3>2. QED
      BY <2>1, <2>3, <3>1 DEF EventsInv, Unused, Counters
  <2>4. QED
    BY <2>1, <2>2, <2>3
<1>2. EventsInv /\ [EventsNext]_eventVars => EventsInv'
  BY EmitKeeps, RestartKeeps, OthersKeep DEF EventsNext
<1>3. QED
  BY <1>1, <1>2, PTL DEF EventsSpec

(* A new event has a greater sequence than any event before it, also when the   *)
(* commits of some were lost and the Host was restarted since.                 *)
THEOREM SequencesAlwaysGrow == EventsSpec => SequencesGrow
<1>1. EventsInv /\ [EventsNext]_eventVars =>
         [used'.events > used.events => Last(log').seq > highest]_eventVars
  <2> SUFFICES ASSUME EventsInv, [EventsNext]_eventVars, used'.events > used.events
               PROVE  Last(log').seq > highest
    OBVIOUS
  <2>1. used.events \in Nat
    BY DEF EventsInv, Counters
  <2>2. CASE \E semantic \in BOOLEAN : Emit(semantic)
    BY <2>2, EmitKeeps
  <2>3. CASE Restart
    <3>1. used' = used
      BY <2>3 DEF Restart
    <3>2. QED
      BY <2>1, <3>1
  <2>4. CASE \/ HostFails \/ FailureCleared \/ Crash \/ StreamStep \/ PageStep
             \/ ConnectionDrops \/ Resubscribe \/ UNCHANGED eventVars
    <3>1. used'.events = used.events
      BY <2>4, OthersKeep
    <3>2. QED
      BY <2>1, <3>1
  <2>5. QED
    BY <2>2, <2>3, <2>4 DEF EventsNext
<1>2. QED
  BY <1>1, EventsInvariant, PTL DEF EventsSpec, SequencesGrow
=============================================================================
