---------------------------- MODULE PageViewProofs ----------------------------
(***************************************************************************)
(* What a page shows of a Thread (PageView), for any number of Turns, tool    *)
(* calls, lost connections and requests in flight.                           *)
(*                                                                         *)
(* The events of a Thread have a grammar, which the Host keeps; what a         *)
(* reducer does with one event is looked at under it; and the views, cards     *)
(* and requests are related to the Host they are about.                       *)
(***************************************************************************)
EXTENDS PageView, SequenceTheorems, FiniteSetTheorems, WellFoundedInduction, TLAPS

Boundary == {"started", "rejected", "ended"}
OfCall == {"requested", "running", "finished", "asked"}
InTurn == {"calls", "answer", "changed", "resolved", "stopping", "model_error"} \cup OfCall

Event == [type : Boundary \cup InTurn, turn : Nat \ {0}, arg : Nat, ok : BOOLEAN]

Is(l, i, type, turn) == i \in DOMAIN l /\ l[i].type = type /\ l[i].turn = turn

(* Turn t has settled its call c. *)
Done(l, t, c) == \E i \in DOMAIN l : Is(l, i, "finished", t) /\ l[i].arg = c

(* The grammar: Turns follow each other; a Turn that starts has its start as   *)
(* its first event and ends before the next, with its end as its last event;   *)
(* the events of a call are after the answer that made it, and at the end all  *)
(* are settled.  The one event of a rejected Turn is alone.                   *)
Follow(l) ==
    \A i, j \in DOMAIN l : i < j =>
        /\ l[i].turn <= l[j].turn
        /\ l[i].type \in {"ended", "rejected"} \/ l[j].type \in {"started", "rejected"}
              => l[i].turn < l[j].turn
BeginTurns(l) ==
    \A i \in DOMAIN l : l[i].type \notin {"started", "rejected"} =>
        \E s \in DOMAIN l : Is(l, s, "started", l[i].turn)
EndTurns(l) ==
    \A i, j \in DOMAIN l : l[i].type = "started" /\ l[i].turn < l[j].turn =>
        \E m \in DOMAIN l : Is(l, m, "ended", l[i].turn)
HaveCalls(l) ==
    \A i \in DOMAIN l : l[i].type \in OfCall =>
        \E j \in DOMAIN l : j < i /\ Is(l, j, "calls", l[i].turn) /\ l[i].arg \in 1..l[j].arg
SettleCalls(l) ==
    \A i, j \in DOMAIN l : Is(l, i, "ended", l[j].turn) /\ l[j].type = "calls" =>
        \A c \in 1..l[j].arg : Done(l, l[j].turn, c)

Grammar(l) ==
    /\ l \in Seq(Event)
    /\ Follow(l) /\ BeginTurns(l) /\ EndTurns(l) /\ HaveCalls(l) /\ SettleCalls(l)

(* Turn t is under way, and has made k calls. *)
Open(l, t, k) ==
    /\ t \in Nat \ {0} /\ k \in Nat
    /\ \E s \in DOMAIN l : Is(l, s, "started", t)
    /\ \A i \in DOMAIN l : /\ l[i].turn <= t
                           /\ l[i].type \in {"ended", "rejected"} => l[i].turn < t
                           /\ Is(l, i, "calls", t) => k > 0 /\ l[i].arg = k
    /\ k > 0 => \E j \in DOMAIN l : Is(l, j, "calls", t)

(* Turn t is over, or has not begun; none is under way. *)
Closed(l, t) ==
    /\ t \in Nat
    /\ \A i \in DOMAIN l : /\ l[i].turn <= t
                           /\ l[i].type = "started" =>
                                 \E m \in DOMAIN l : Is(l, m, "ended", l[i].turn)
-----------------------------------------------------------------------------
HostState ==
    [stage : {"idle", "preflight", "model", "executing", "asking"}, turn : Nat, calls : Nat,
     call : Nat, approval : Nat, decision : {"none", "approved", "denied"}, stopping : BOOLEAN,
     failed : BOOLEAN]

(* The calls of the Turn that are settled. *)
DoneCalls(h) == 1..(IF h.stage = "model" THEN h.calls ELSE h.call - 1)

Waits(l, h) ==
    /\ Is(l, h.approval, "asked", h.turn) /\ l[h.approval].arg = h.call
    /\ \A i \in DOMAIN l : i > h.approval => l[i].type = "stopping"

Rests(l, h) == l # <<>> => l[Len(l)].type = IF h.failed THEN "rejected" ELSE "ended"

HostInv(l, h) ==
    /\ h \in HostState
    /\ h.failed => h.stage = "idle"
    /\ h.stage \in {"idle", "preflight"} => Closed(l, h.turn)
    /\ h.stage = "idle" => Rests(l, h) /\ (l = <<>> => ~h.failed)
    /\ h.stage = "preflight" => h.turn > 0 /\ \A i \in DOMAIN l : l[i].turn < h.turn
    /\ h.stage \notin {"idle", "preflight"} =>
          Open(l, h.turn, h.calls) /\ \A c \in DoneCalls(h) : Done(l, h.turn, c)
    /\ h.stage \in {"executing", "asking"} => h.call \in 1..h.calls
    /\ h.stage = "asking" => Waits(l, h)
-----------------------------------------------------------------------------
Statuses == {"requested", "running", "success", "error"}
ToolMaps == UNION {[S -> Statuses] : S \in SUBSET Nat}

PageState ==
    [messages : Seq(Nat), tools : ToolMaps, files : SUBSET Nat, terminal : Int, error : BOOLEAN,
     stopping : BOOLEAN, approval : Nat, current : Nat, upto : Nat]

(* A row is as the Host's, or ahead of it. *)
RowsAgree(l, p) ==
    LET rows == Rows(SubSeq(l, 1, p.upto)) IN
    /\ DOMAIN rows \subseteq DOMAIN p.tools
    /\ \A c \in DOMAIN p.tools :
          IF c \in DOMAIN rows
            THEN p.tools[c] \in {rows[c]} \cup IF rows[c] = "requested" THEN {"running"} ELSE {}
            ELSE /\ p.tools[c] = "requested"
                 /\ \E i \in At(l, {"asked"}) : l[i].arg = c /\ l[i].turn = p.current

(* What is shown of a Turn that is under way, and of one that is over.         *)
FailureTold(l, n, t) == \E i \in DOMAIN l : i <= n /\ Is(l, i, "model_error", t)
ShownOfTurn(l, p) ==
    /\ p.current # None =>
          /\ p.terminal = None /\ (p.error => FailureTold(l, p.upto, p.current))
          /\ \A i \in p.files : i <= p.upto /\ Is(l, i, "changed", p.current)
    /\ p.current = None => ~p.stopping
ShownAtRest(l, h, p) ==
    h.stage = "idle" /\ p.upto = Len(l) =>
        LET ended == LastEnd(l) IN
        /\ p.terminal = IF h.failed THEN Rejected ELSE ended
        /\ h.failed \/ Fails(ended) => p.error
        /\ p.error => h.failed \/ Fails(ended) \/ ErrorTold(l, l[Len(l)].turn)
        /\ ~h.failed => p.files = Files(ended)

(* A page that is not misled. *)
PageInv ==
    /\ page.messages = Messages(Seen(page.upto))
    /\ page.current = ActiveTurn(Seen(page.upto))
    /\ RowsAgree(log, page)
    /\ ShownOfTurn(log, page) /\ ShownAtRest(log, host, page)
    /\ Pending # None /\ Pending <= page.upto => page.approval = Pending

(* A view was the Host's record at some event, and its approval is still the   *)
(* one that is pending unless there is a newer one.                           *)
ViewOk(view) ==
    /\ view = [n |-> view.n, pending |-> view.pending, failed |-> view.failed,
               submitted |-> view.submitted]
    /\ view.n \in 0..Len(log) /\ view.pending \in 0..view.n
    /\ {view.failed, view.submitted} \subseteq BOOLEAN
    /\ view.pending # None =>
          /\ Is(log, view.pending, "asked", ActiveTurn(Seen(view.n)))
          /\ AskedCall(view.pending) \in Called(Seen(view.n))
    /\ Pending # None /\ Pending <= view.n => view.pending = Pending
    /\ ActiveTurn(Seen(view.n)) # None => view.submitted
    /\ view.n = Len(log) /\ host.stage = "idle" => ~view.submitted /\ view.failed = host.failed

(* An answered approval is not pending any more, nor is one whose answer was   *)
(* refused while no message was lost.                                         *)
FlightOk(f) ==
    /\ f = [kind |-> f.kind, key |-> f.key, yes |-> f.yes, phase |-> f.phase, view |-> f.view]
    /\ f.kind \in {"recover", "resolve", "reconcile"} /\ f.phase \in {"sent", "ok", "refused"}
    /\ f.yes \in BOOLEAN
    /\ f.kind # "resolve" /\ f.phase = "ok" => ViewOk(f.view)
    /\ f.kind # "recover" => f.key \in 1..Len(log) /\ f.key = action.approval
    /\ f.kind = "resolve" /\ f.phase = "ok" => f.key # Pending
    /\ f.kind = "reconcile" /\ f.yes => f.key # Pending
    /\ losses = 0 /\ f.kind = "resolve" /\ f.phase = "refused" => f.key # Pending
    /\ losses = 0 /\ f.kind = "reconcile" => f.key # Pending /\ f.phase # "refused"

CardInv ==
    /\ \A f \in flight : FlightOk(f)
    /\ \A f, g \in Card : f = g
    /\ action = [approval |-> action.approval, phase |-> action.phase]
    /\ action.phase \in {"none", "submitting", "settled"}
    /\ action.phase = "none" => action = NoAction
    /\ action.phase = "submitting" <=> Card # {}
    /\ action.phase = "settled" => /\ action.approval # None /\ page.approval = action.approval
                                   /\ losses = 0 => action.approval # Pending

IInv ==
    /\ Grammar(log) /\ HostInv(log, host)
    /\ page \in PageState /\ cursor = page.upto /\ cursor \in 0..Len(log)
    /\ page.approval \in 0..Len(log) /\ (page.approval # None => page.current # None)
    /\ misled \in BOOLEAN /\ losses \in Nat
    /\ CardInv
    /\ ~misled => PageInv
-----------------------------------------------------------------------------
(* The log after one or more events. *)
Prefix(l, g) == Len(l) <= Len(g) /\ \A i \in DOMAIN l : i \in DOMAIN g /\ g[i] = l[i]
New(l, g) == DOMAIN g \ DOMAIN l

LEMMA Joined ==
    ASSUME NEW l \in Seq(Event), NEW es \in Seq(Event)
    PROVE  /\ l \o es \in Seq(Event) /\ Prefix(l, l \o es)
           /\ \A i \in New(l, l \o es) : i > Len(l) /\ \E j \in DOMAIN es : (l \o es)[i] = es[j]
           /\ \A j \in DOMAIN es : /\ Len(l) + j \in New(l, l \o es)
                                   /\ (l \o es)[Len(l) + j] = es[j]
           /\ Len(l \o es) = Len(l) + Len(es)
<1> DEFINE g == l \o es
<1>1. /\ g \in Seq(Event) /\ Len(g) = Len(l) + Len(es)
      /\ \A i \in 1..(Len(l) + Len(es)) : g[i] = IF i <= Len(l) THEN l[i] ELSE es[i - Len(l)]
  BY ConcatProperties
<1>2. /\ Len(l) \in Nat /\ Len(es) \in Nat
      /\ DOMAIN l = 1..Len(l) /\ DOMAIN es = 1..Len(es) /\ DOMAIN g = 1..(Len(l) + Len(es))
  BY <1>1, LenProperties
<1> HIDE DEF g
<1>3. Prefix(l, g)
  BY <1>1, <1>2 DEF Prefix
<1>4. ASSUME NEW i \in New(l, g) PROVE i > Len(l) /\ \E j \in DOMAIN es : g[i] = es[j]
  <2>1. i \in 1..(Len(l) + Len(es)) /\ i > Len(l)
    BY <1>2, <1>4 DEF New
  <2>2. g[i] = es[i - Len(l)] /\ i - Len(l) \in DOMAIN es
    BY <1>1, <1>2, <2>1
  <2>3. QED
    BY <2>1, <2>2
<1>5. ASSUME NEW j \in DOMAIN es PROVE Len(l) + j \in New(l, g) /\ g[Len(l) + j] = es[j]
  BY <1>1, <1>2, <1>5 DEF New
<1>6. QED
  BY <1>1, <1>3, <1>4, <1>5 DEF g

LEMMA EventFields ==
    ASSUME NEW l \in Seq(Event), NEW i \in DOMAIN l
    PROVE  /\ l[i] \in Event /\ l[i].type \in Boundary \cup InTurn /\ l[i].turn \in Nat \ {0}
           /\ l[i].arg \in Nat /\ l[i].ok \in BOOLEAN
           /\ i \in Nat /\ i >= 1 /\ i <= Len(l) /\ Len(l) \in Nat
<1>1. l[i] \in Event /\ i \in 1..Len(l) /\ Len(l) \in Nat
  OBVIOUS
<1>2. QED
  BY <1>1 DEF Event

(* What was there stays. *)
LEMMA DoneStays ==
    ASSUME NEW l, NEW g, Prefix(l, g), NEW t, NEW c, Done(l, t, c)
    PROVE  Done(g, t, c)
BY DEF Done, Is, Prefix

(* Events in the middle of a Turn. *)
MidOk(es, t, k) ==
    /\ es \in Seq(Event)
    /\ \A j \in DOMAIN es : /\ es[j].turn = t /\ es[j].type \in InTurn \ {"calls"}
                            /\ es[j].type \in OfCall => es[j].arg \in 1..k

LEMMA MidGrows ==
    ASSUME NEW l, Grammar(l), NEW t, NEW k, Open(l, t, k), NEW es, MidOk(es, t, k)
    PROVE  /\ Grammar(l \o es) /\ Open(l \o es, t, k) /\ Prefix(l, l \o es)
           /\ \A c : Done(l, t, c) \/ Done(es, t, c) => Done(l \o es, t, c)
<1> DEFINE g == l \o es
<1>1. l \in Seq(Event) /\ es \in Seq(Event)
  BY DEF Grammar, MidOk
<1>2. /\ g \in Seq(Event) /\ Prefix(l, g)
      /\ \A i \in New(l, g) : i > Len(l) /\ \E j \in DOMAIN es : g[i] = es[j]
      /\ \A j \in DOMAIN es : Len(l) + j \in New(l, g) /\ g[Len(l) + j] = es[j]
  BY <1>1, Joined
<1> HIDE DEF g
<1>3. \A i \in New(l, g) : /\ i > Len(l) /\ g[i].turn = t /\ g[i].type \in InTurn \ {"calls"}
                           /\ g[i].type \in OfCall => g[i].arg \in 1..k
  BY <1>2 DEF MidOk
<1>4. \A i \in DOMAIN g : i \in New(l, g) \/ (i \in DOMAIN l /\ g[i] = l[i])
  BY <1>2 DEF New, Prefix
<1>5. \A i \in DOMAIN l : i \in Nat /\ i <= Len(l) /\ l[i].turn \in Nat /\ l[i].arg \in Nat
  BY <1>1, EventFields
<1>6. \A i \in DOMAIN g : i \in Nat /\ g[i].turn \in Nat
  BY <1>2, EventFields
<1>7. Len(l) \in Nat /\ t \in Nat \ {0} /\ k \in Nat
  BY <1>1 DEF Open
<1>8. \A i \in DOMAIN l : /\ l[i].turn <= t
                          /\ l[i].type \in {"ended", "rejected"} => l[i].turn < t
                          /\ Is(l, i, "calls", t) => k > 0 /\ l[i].arg = k
  BY DEF Open
<1>9. \A i \in DOMAIN l : i \in DOMAIN g /\ g[i] = l[i]
  BY <1>2 DEF Prefix
<1>10. PICK s \in DOMAIN l : Is(l, s, "started", t)
  BY DEF Open
<1>11. Follow(g)
  <2> SUFFICES ASSUME NEW i \in DOMAIN g, NEW j \in DOMAIN g, i < j
               PROVE  /\ g[i].turn <= g[j].turn
                      /\ g[i].type \in {"ended", "rejected"} \/ g[j].type \in {"started", "rejected"}
                            => g[i].turn < g[j].turn
    BY DEF Follow
  <2>1. CASE i \in DOMAIN l /\ j \in DOMAIN l
    BY <2>1, <1>9 DEF Grammar, Follow
  <2>2. CASE i \in DOMAIN l /\ j \in New(l, g)
    BY <2>2, <1>3, <1>8, <1>9 DEF InTurn, OfCall
  <2>3. CASE i \in New(l, g)
    <3>1. j \in New(l, g)
      BY <2>3, <1>3, <1>4, <1>5, <1>6, <1>7
    <3>2. QED
      BY <2>3, <3>1, <1>3, <1>7 DEF InTurn, OfCall
  <2>4. QED
    BY <2>1, <2>2, <2>3, <1>4
<1>12. BeginTurns(g)
  <2> SUFFICES ASSUME NEW i \in DOMAIN g, g[i].type \notin {"started", "rejected"}
               PROVE  \E x \in DOMAIN g : Is(g, x, "started", g[i].turn)
    BY DEF BeginTurns
  <2>1. CASE i \in DOMAIN l
    BY <2>1, <1>9 DEF Grammar, BeginTurns, Is
  <2>2. CASE i \in New(l, g)
    BY <2>2, <1>3, <1>9, <1>10 DEF Is
  <2>3. QED
    BY <2>1, <2>2, <1>4
<1>13. EndTurns(g)
  <2> SUFFICES ASSUME NEW i \in DOMAIN g, NEW j \in DOMAIN g, g[i].type = "started",
                      g[i].turn < g[j].turn
               PROVE  \E m \in DOMAIN g : Is(g, m, "ended", g[i].turn)
    BY DEF EndTurns
  <2>1. i \in DOMAIN l
    BY <1>3, <1>4 DEF InTurn, OfCall
  <2>2. \E x \in DOMAIN l : l[i].turn < l[x].turn
    BY <2>1, <1>3, <1>4, <1>9, <1>10 DEF Is
  <2>3. \E m \in DOMAIN l : Is(l, m, "ended", l[i].turn)
    BY <2>1, <2>2, <1>9 DEF Grammar, EndTurns
  <2>4. QED
    BY <2>1, <2>3, <1>9 DEF Is
<1>14. HaveCalls(g)
  <2> SUFFICES ASSUME NEW i \in DOMAIN g, g[i].type \in OfCall
               PROVE  \E j \in DOMAIN g : j < i /\ Is(g, j, "calls", g[i].turn)
                                          /\ g[i].arg \in 1..g[j].arg
    BY DEF HaveCalls
  <2>1. CASE i \in DOMAIN l
    <3>1. PICK j \in DOMAIN l : j < i /\ Is(l, j, "calls", l[i].turn) /\ l[i].arg \in 1..l[j].arg
      BY <2>1, <1>9 DEF Grammar, HaveCalls
    <3>2. QED
      BY <3>1, <2>1, <1>9 DEF Is
  <2>2. CASE i \in New(l, g)
    <3>1. g[i].arg \in 1..k /\ g[i].turn = t /\ i > Len(l)
      BY <2>2, <1>3
    <3>2. PICK j \in DOMAIN l : Is(l, j, "calls", t)
      BY <3>1, <1>7 DEF Open
    <3>3. l[j].arg = k /\ j < i
      BY <3>1, <3>2, <1>5, <1>6, <1>7, <1>8
    <3>4. QED
      BY <3>1, <3>2, <3>3, <1>9 DEF Is
  <2>3. QED
    BY <2>1, <2>2, <1>4
<1>15. \A c : Done(l, t, c) \/ Done(es, t, c) => Done(g, t, c)
  <2>1. \A c : Done(l, t, c) => Done(g, t, c)
    BY <1>2, DoneStays
  <2>2. \A c : Done(es, t, c) => Done(g, t, c)
    BY <1>2 DEF Done, Is, New
  <2>3. QED
    BY <2>1, <2>2
<1>16. SettleCalls(g)
  <2> SUFFICES ASSUME NEW i \in DOMAIN g, NEW j \in DOMAIN g, Is(g, i, "ended", g[j].turn),
                      g[j].type = "calls", NEW c \in 1..g[j].arg
               PROVE  Done(g, g[j].turn, c)
    BY DEF SettleCalls
  <2>1. i \in DOMAIN l /\ j \in DOMAIN l
    BY <1>3, <1>4 DEF Is, InTurn, OfCall
  <2>2. Done(l, l[j].turn, c)
    BY <2>1, <1>9 DEF Grammar, SettleCalls, Is
  <2>3. QED
    BY <2>1, <2>2, <1>2, <1>9, DoneStays
<1>17. Open(g, t, k)
  <2>1. \E x \in DOMAIN g : Is(g, x, "started", t)
    BY <1>9, <1>10 DEF Is
  <2>2. \A i \in DOMAIN g : /\ g[i].turn <= t
                            /\ g[i].type \in {"ended", "rejected"} => g[i].turn < t
                            /\ Is(g, i, "calls", t) => k > 0 /\ g[i].arg = k
    <3> SUFFICES ASSUME NEW i \in DOMAIN g
                 PROVE  /\ g[i].turn <= t
                        /\ g[i].type \in {"ended", "rejected"} => g[i].turn < t
                        /\ Is(g, i, "calls", t) => k > 0 /\ g[i].arg = k
      OBVIOUS
    <3>1. CASE i \in DOMAIN l
      BY <3>1, <1>8, <1>9 DEF Is
    <3>2. CASE i \in New(l, g)
      BY <3>2, <1>3, <1>7 DEF Is, InTurn, OfCall
    <3>3. QED
      BY <3>1, <3>2, <1>4
  <2>3. k > 0 => \E j \in DOMAIN g : Is(g, j, "calls", t)
    BY <1>9 DEF Is, Open
  <2>4. QED
    BY <2>1, <2>2, <2>3, <1>7 DEF Open
<1>18. QED
  BY <1>2, <1>11, <1>12, <1>13, <1>14, <1>15, <1>16, <1>17 DEF g, Grammar

(* Any other event: the first or the last of a Turn, or an answer with calls. *)
LEMMA Single ==
    ASSUME NEW l \in Seq(Event), NEW e \in Event
    PROVE  /\ l \o <<e>> \in Seq(Event) /\ Prefix(l, l \o <<e>>)
           /\ Len(l) \in Nat /\ Len(l \o <<e>>) = Len(l) + 1
           /\ Len(l) + 1 \in DOMAIN (l \o <<e>>) /\ (l \o <<e>>)[Len(l) + 1] = e
           /\ \A i \in DOMAIN (l \o <<e>>) : i = Len(l) + 1 \/ i \in DOMAIN l
           /\ DOMAIN (l \o <<e>>) = 1..(Len(l) + 1) /\ DOMAIN l = 1..Len(l)
<1>1. <<e>> \in Seq(Event) /\ Len(<<e>>) = 1 /\ <<e>>[1] = e
  OBVIOUS
<1>2. /\ l \o <<e>> \in Seq(Event) /\ Prefix(l, l \o <<e>>)
      /\ Len(l \o <<e>>) = Len(l) + Len(<<e>>)
  BY <1>1, Joined
<1>3. (l \o <<e>>)[Len(l) + 1] = e
  OBVIOUS
<1>4. /\ Len(l) \in Nat
      /\ DOMAIN (l \o <<e>>) = 1..Len(l \o <<e>>) /\ DOMAIN l = 1..Len(l)
  BY <1>2, LenProperties
<1>5. QED
  BY <1>1, <1>2, <1>3, <1>4

LEMMA BoundaryGrows ==
    ASSUME NEW l, Grammar(l), NEW e \in Event, e.type \notin OfCall,
           \A i \in DOMAIN l :
               /\ l[i].turn <= e.turn
               /\ l[i].type \in {"ended", "rejected"} => l[i].turn < e.turn
               /\ e.type \in {"started", "rejected"} => l[i].turn < e.turn
               /\ l[i].type = "started" /\ l[i].turn < e.turn =>
                      \E m \in DOMAIN l : Is(l, m, "ended", l[i].turn)
               /\ e.type = "ended" /\ Is(l, i, "calls", e.turn) =>
                      \A c \in 1..l[i].arg : Done(l, e.turn, c),
           e.type \notin {"started", "rejected"} => \E s \in DOMAIN l : Is(l, s, "started", e.turn)
    PROVE  Grammar(l \o <<e>>)
<1> DEFINE g == l \o <<e>>
           n == Len(l) + 1
<1>1. l \in Seq(Event)
  BY DEF Grammar
<1>2. /\ g \in Seq(Event) /\ Prefix(l, g) /\ Len(l) \in Nat
      /\ n \in DOMAIN g /\ g[n] = e
      /\ \A i \in DOMAIN g : i = n \/ i \in DOMAIN l
      /\ DOMAIN g = 1..n /\ DOMAIN l = 1..Len(l)
  BY <1>1, Single
<1>3. \A i \in DOMAIN l : /\ i < n /\ i \in DOMAIN g /\ g[i] = l[i]
                          /\ l[i].turn \in Nat /\ i \in Nat
  BY <1>1, <1>2, EventFields DEF Prefix
<1>4. e.turn \in Nat /\ n \in Nat
  BY <1>2 DEF Event
<1> HIDE DEF g, n
<1>5. Follow(g)
  <2> SUFFICES ASSUME NEW i \in DOMAIN g, NEW j \in DOMAIN g, i < j
               PROVE  /\ g[i].turn <= g[j].turn
                      /\ g[i].type \in {"ended", "rejected"} \/ g[j].type \in {"started", "rejected"}
                            => g[i].turn < g[j].turn
    BY DEF Follow
  <2>1. CASE i \in DOMAIN l /\ j \in DOMAIN l
    BY <2>1, <1>3 DEF Grammar, Follow
  <2>2. CASE i \in DOMAIN l /\ j = n
    BY <2>2, <1>2, <1>3
  <2>3. CASE i = n
    BY <2>3, <1>2, <1>3, <1>4
  <2>4. QED
    BY <2>1, <2>2, <2>3, <1>2
<1>6. BeginTurns(g)
  <2> SUFFICES ASSUME NEW i \in DOMAIN g, g[i].type \notin {"started", "rejected"}
               PROVE  \E x \in DOMAIN g : Is(g, x, "started", g[i].turn)
    BY DEF BeginTurns
  <2>1. CASE i \in DOMAIN l
    BY <2>1, <1>3 DEF Grammar, BeginTurns, Is
  <2>2. CASE i = n
    BY <2>2, <1>2, <1>3 DEF Is
  <2>3. QED
    BY <2>1, <2>2, <1>2
<1>7. EndTurns(g)
  <2> SUFFICES ASSUME NEW i \in DOMAIN g, NEW j \in DOMAIN g, g[i].type = "started",
                      g[i].turn < g[j].turn
               PROVE  \E m \in DOMAIN g : Is(g, m, "ended", g[i].turn)
    BY DEF EndTurns
  <2>1. i \in DOMAIN l
    <3>1. CASE i = n
      <4>1. j \in DOMAIN l
        BY <3>1, <1>2, <1>4
      <4>2. QED
        BY <3>1, <4>1, <1>2, <1>3, <1>4
    <3>2. QED
      BY <3>1, <1>2
  <2>2. \E m \in DOMAIN l : Is(l, m, "ended", l[i].turn)
    <3>1. CASE j \in DOMAIN l
      BY <3>1, <2>1, <1>3 DEF Grammar, EndTurns
    <3>2. CASE j = n
      <4>1. l[i].type = "started" /\ l[i].turn < e.turn
        BY <3>2, <2>1, <1>2, <1>3
      <4>2. \A x \in DOMAIN l : l[x].type = "started" /\ l[x].turn < e.turn =>
              \E m \in DOMAIN l : Is(l, m, "ended", l[x].turn)
        OBVIOUS
      <4>3. QED
        BY <2>1, <4>1, <4>2
    <3>3. QED
      BY <3>1, <3>2, <1>2
  <2>3. QED
    BY <2>1, <2>2, <1>3 DEF Is
<1>8. HaveCalls(g)
  <2> SUFFICES ASSUME NEW i \in DOMAIN g, g[i].type \in OfCall
               PROVE  \E j \in DOMAIN g : j < i /\ Is(g, j, "calls", g[i].turn)
                                          /\ g[i].arg \in 1..g[j].arg
    BY DEF HaveCalls
  <2>1. i \in DOMAIN l
    BY <1>2
  <2>2. PICK j \in DOMAIN l : j < i /\ Is(l, j, "calls", l[i].turn) /\ l[i].arg \in 1..l[j].arg
    BY <2>1, <1>3 DEF Grammar, HaveCalls
  <2>3. QED
    BY <2>1, <2>2, <1>3 DEF Is
<1>9. SettleCalls(g)
  <2> SUFFICES ASSUME NEW i \in DOMAIN g, NEW j \in DOMAIN g, Is(g, i, "ended", g[j].turn),
                      g[j].type = "calls", NEW c \in 1..g[j].arg
               PROVE  Done(g, g[j].turn, c)
    BY DEF SettleCalls
  <2>1. CASE i \in DOMAIN l /\ j \in DOMAIN l
    <3>1. Done(l, l[j].turn, c)
      BY <2>1, <1>3 DEF Grammar, SettleCalls, Is
    <3>2. QED
      BY <2>1, <3>1, <1>2, <1>3, DoneStays
  <2>2. CASE i = n /\ j \in DOMAIN l
    <3>1. Is(l, j, "calls", e.turn) /\ e.type = "ended" /\ c \in 1..l[j].arg
      BY <2>2, <1>2, <1>3 DEF Is
    <3>2. \A x \in DOMAIN l : e.type = "ended" /\ Is(l, x, "calls", e.turn) =>
            \A d \in 1..l[x].arg : Done(l, e.turn, d)
      OBVIOUS
    <3> HIDE DEF g
    <3>3. Done(l, e.turn, c)
      BY <2>2, <3>1, <3>2
    <3>4. QED
      BY <2>2, <3>1, <3>3, <1>2, <1>3, DoneStays DEF Is
  <2>3. CASE j = n
    <3>1. i \in DOMAIN l /\ l[i].type = "ended" /\ l[i].turn = e.turn
      BY <2>3, <1>2, <1>3 DEF Is
    <3>2. l[i].turn < e.turn
      BY <3>1
    <3>3. QED
      BY <3>1, <3>2, <1>4
  <2>4. QED
    BY <2>1, <2>2, <2>3, <1>2
<1>10. QED
  BY <1>2, <1>5, <1>6, <1>7, <1>8, <1>9 DEF g, Grammar

LEMMA EndGrows ==
    ASSUME NEW l, Grammar(l), NEW t, NEW k, Open(l, t, k), \A c \in 1..k : Done(l, t, c),
           NEW e \in Event, e.type = "ended", e.turn = t
    PROVE  Grammar(l \o <<e>>) /\ Closed(l \o <<e>>, t) /\ Prefix(l, l \o <<e>>)
           /\ (l \o <<e>>)[Len(l \o <<e>>)].type = "ended" /\ l \o <<e>> # <<>>
<1> DEFINE g == l \o <<e>>
           n == Len(l) + 1
<1>1. l \in Seq(Event) /\ e.type \notin OfCall /\ e.type \notin {"started", "rejected"}
  BY DEF Grammar, OfCall
<1>2. /\ g \in Seq(Event) /\ Prefix(l, g) /\ Len(l) \in Nat /\ Len(g) = n
      /\ n \in DOMAIN g /\ g[n] = e
      /\ \A i \in DOMAIN g : i = n \/ i \in DOMAIN l
  BY <1>1, Single
<1>3. PICK s \in DOMAIN l : Is(l, s, "started", t)
  BY DEF Open
<1>4. \A i \in DOMAIN l :
               /\ l[i].turn <= e.turn
               /\ l[i].type \in {"ended", "rejected"} => l[i].turn < e.turn
               /\ e.type \in {"started", "rejected"} => l[i].turn < e.turn
               /\ l[i].type = "started" /\ l[i].turn < e.turn =>
                      \E m \in DOMAIN l : Is(l, m, "ended", l[i].turn)
               /\ e.type = "ended" /\ Is(l, i, "calls", e.turn) =>
                      \A c \in 1..l[i].arg : Done(l, e.turn, c)
  <2> TAKE i \in DOMAIN l
  <2>1. l[i].turn <= e.turn /\ (l[i].type \in {"ended", "rejected"} => l[i].turn < e.turn)
    BY DEF Open
  <2>2. l[i].type = "started" /\ l[i].turn < e.turn =>
          \E m \in DOMAIN l : Is(l, m, "ended", l[i].turn)
    BY <1>3 DEF Grammar, EndTurns, Is
  <2>3. Is(l, i, "calls", e.turn) => \A c \in 1..l[i].arg : Done(l, e.turn, c)
    BY DEF Open
  <2>4. QED
    BY <2>1, <2>2, <2>3, <1>1
<1>5. Grammar(g)
  BY <1>1, <1>3, <1>4, BoundaryGrows
<1>6. Closed(g, t)
  <2>1. t \in Nat
    BY DEF Open
  <2>2. ASSUME NEW i \in DOMAIN g
        PROVE  /\ g[i].turn <= t
               /\ g[i].type = "started" => \E m \in DOMAIN g : Is(g, m, "ended", g[i].turn)
    <3>1. CASE i = n
      BY <3>1, <1>2, <2>1
    <3>2. CASE i \in DOMAIN l
      <4>1. g[i] = l[i] /\ l[i].turn \in Nat
        BY <3>2, <1>1, <1>2, EventFields DEF Prefix
      <4>2. CASE l[i].turn < t
        BY <3>2, <4>1, <4>2, <1>2, <1>4 DEF Prefix, Is
      <4>3. CASE l[i].turn = t
        BY <4>1, <4>3, <1>2, <2>1 DEF Is
      <4>4. QED
        BY <3>2, <4>1, <4>2, <4>3, <1>4, <2>1
    <3>3. QED
      BY <3>1, <3>2, <1>2
  <2>3. QED
    BY <2>1, <2>2 DEF Closed
<1>7. g # <<>>
  BY <1>2
<1>8. QED
  BY <1>2, <1>5, <1>6, <1>7

LEMMA StartGrows ==
    ASSUME NEW l, Grammar(l), NEW t, Closed(l, t), t > 0, \A i \in DOMAIN l : l[i].turn < t,
           NEW e \in Event, e.type = "started", e.turn = t
    PROVE  Grammar(l \o <<e>>) /\ Open(l \o <<e>>, t, 0) /\ Prefix(l, l \o <<e>>)
<1> DEFINE g == l \o <<e>>
           n == Len(l) + 1
<1>1. l \in Seq(Event) /\ e.type \notin OfCall /\ t \in Nat
  BY DEF Grammar, OfCall, Closed
<1>2. /\ g \in Seq(Event) /\ Prefix(l, g) /\ Len(l) \in Nat /\ Len(g) = n
      /\ n \in DOMAIN g /\ g[n] = e
      /\ \A i \in DOMAIN g : i = n \/ i \in DOMAIN l
  BY <1>1, Single
<1>3. \A i \in DOMAIN l :
               /\ l[i].turn <= e.turn
               /\ l[i].type \in {"ended", "rejected"} => l[i].turn < e.turn
               /\ e.type \in {"started", "rejected"} => l[i].turn < e.turn
               /\ l[i].type = "started" /\ l[i].turn < e.turn =>
                      \E m \in DOMAIN l : Is(l, m, "ended", l[i].turn)
               /\ e.type = "ended" /\ Is(l, i, "calls", e.turn) =>
                      \A c \in 1..l[i].arg : Done(l, e.turn, c)
  BY <1>1 DEF Closed
<1>4. Grammar(g)
  BY <1>1, <1>3, BoundaryGrows
<1>5. Open(g, t, 0)
  <2>1. \E s \in DOMAIN g : Is(g, s, "started", t)
    BY <1>2 DEF Is
  <2>2. ASSUME NEW i \in DOMAIN g
        PROVE  /\ g[i].turn <= t
               /\ g[i].type \in {"ended", "rejected"} => g[i].turn < t
               /\ Is(g, i, "calls", t) => 0 > 0 /\ g[i].arg = 0
    <3>1. CASE i = n
      BY <3>1, <1>1, <1>2 DEF Is
    <3>2. CASE i \in DOMAIN l
      <4>1. g[i] = l[i] /\ l[i].turn \in Nat /\ l[i].turn < t
        BY <3>2, <1>1, <1>2, EventFields DEF Prefix
      <4>2. QED
        BY <4>1, <1>1 DEF Is
    <3>3. QED
      BY <3>1, <3>2, <1>2
  <2>3. QED
    BY <2>1, <2>2, <1>1 DEF Open
<1>6. QED
  BY <1>2, <1>4, <1>5

LEMMA RejectGrows ==
    ASSUME NEW l, Grammar(l), NEW t, Closed(l, t), t > 0, \A i \in DOMAIN l : l[i].turn < t,
           NEW e \in Event, e.type = "rejected", e.turn = t
    PROVE  Grammar(l \o <<e>>) /\ Closed(l \o <<e>>, t) /\ Prefix(l, l \o <<e>>)
           /\ (l \o <<e>>)[Len(l \o <<e>>)].type = "rejected" /\ l \o <<e>> # <<>>
<1> DEFINE g == l \o <<e>>
           n == Len(l) + 1
<1>1. l \in Seq(Event) /\ e.type \notin OfCall /\ t \in Nat
  BY DEF Grammar, OfCall, Closed
<1>2. /\ g \in Seq(Event) /\ Prefix(l, g) /\ Len(l) \in Nat /\ Len(g) = n
      /\ n \in DOMAIN g /\ g[n] = e
      /\ \A i \in DOMAIN g : i = n \/ i \in DOMAIN l
  BY <1>1, Single
<1>3. \A i \in DOMAIN l :
               /\ l[i].turn <= e.turn
               /\ l[i].type \in {"ended", "rejected"} => l[i].turn < e.turn
               /\ e.type \in {"started", "rejected"} => l[i].turn < e.turn
               /\ l[i].type = "started" /\ l[i].turn < e.turn =>
                      \E m \in DOMAIN l : Is(l, m, "ended", l[i].turn)
               /\ e.type = "ended" /\ Is(l, i, "calls", e.turn) =>
                      \A c \in 1..l[i].arg : Done(l, e.turn, c)
  BY <1>1 DEF Closed
<1>4. Grammar(g)
  BY <1>1, <1>3, BoundaryGrows
<1>5. Closed(g, t)
  <2>1. ASSUME NEW i \in DOMAIN g
        PROVE  /\ g[i].turn <= t
               /\ g[i].type = "started" => \E m \in DOMAIN g : Is(g, m, "ended", g[i].turn)
    <3>1. CASE i = n
      BY <3>1, <1>1, <1>2
    <3>2. CASE i \in DOMAIN l
      <4>1. g[i] = l[i] /\ l[i].turn \in Nat /\ l[i].turn < t
        BY <3>2, <1>1, <1>2, EventFields DEF Prefix
      <4>2. l[i].type = "started" => \E m \in DOMAIN l : Is(l, m, "ended", l[i].turn)
        BY <3>2 DEF Closed
      <4>3. \A m : Is(l, m, "ended", l[i].turn) => m \in DOMAIN g /\ Is(g, m, "ended", l[i].turn)
        BY <1>2 DEF Is, Prefix
      <4> HIDE DEF g
      <4>4. g[i].type = "started" => \E m \in DOMAIN g : Is(g, m, "ended", g[i].turn)
        BY <4>1, <4>2, <4>3
      <4>5. QED
        BY <4>1, <4>4, <1>1
    <3>3. QED
      BY <3>1, <3>2, <1>2
  <2>2. QED
    BY <2>1, <1>1 DEF Closed
<1>6. g # <<>>
  BY <1>2
<1>7. QED
  BY <1>2, <1>4, <1>5, <1>6

LEMMA CallsGrows ==
    ASSUME NEW l, Grammar(l), NEW t, Open(l, t, 0), NEW k \in Nat \ {0},
           NEW e \in Event, e.type = "calls", e.turn = t, e.arg = k
    PROVE  Grammar(l \o <<e>>) /\ Open(l \o <<e>>, t, k) /\ Prefix(l, l \o <<e>>)
<1> DEFINE g == l \o <<e>>
           n == Len(l) + 1
<1>1. l \in Seq(Event) /\ e.type \notin OfCall /\ e.type \notin {"started", "rejected"}
  BY DEF Grammar, OfCall
<1>2. /\ g \in Seq(Event) /\ Prefix(l, g) /\ Len(l) \in Nat /\ Len(g) = n
      /\ n \in DOMAIN g /\ g[n] = e
      /\ \A i \in DOMAIN g : i = n \/ i \in DOMAIN l
  BY <1>1, Single
<1>3. PICK s \in DOMAIN l : Is(l, s, "started", t)
  BY DEF Open
<1>4. \A i \in DOMAIN l :
               /\ l[i].turn <= e.turn
               /\ l[i].type \in {"ended", "rejected"} => l[i].turn < e.turn
               /\ e.type \in {"started", "rejected"} => l[i].turn < e.turn
               /\ l[i].type = "started" /\ l[i].turn < e.turn =>
                      \E m \in DOMAIN l : Is(l, m, "ended", l[i].turn)
               /\ e.type = "ended" /\ Is(l, i, "calls", e.turn) =>
                      \A c \in 1..l[i].arg : Done(l, e.turn, c)
  <2> TAKE i \in DOMAIN l
  <2>1. l[i].turn <= e.turn /\ (l[i].type \in {"ended", "rejected"} => l[i].turn < e.turn)
    BY DEF Open
  <2>2. l[i].type = "started" /\ l[i].turn < e.turn =>
          \E m \in DOMAIN l : Is(l, m, "ended", l[i].turn)
    BY <1>3 DEF Grammar, EndTurns, Is
  <2>3. QED
    BY <2>1, <2>2, <1>1
<1>5. Grammar(g)
  BY <1>1, <1>3, <1>4, BoundaryGrows
<1>6. Open(g, t, k)
  <2>1. t \in Nat \ {0} /\ \E x \in DOMAIN g : Is(g, x, "started", t)
    BY <1>2, <1>3 DEF Is, Prefix, Open
  <2>2. ASSUME NEW i \in DOMAIN g
        PROVE  /\ g[i].turn <= t
               /\ g[i].type \in {"ended", "rejected"} => g[i].turn < t
               /\ Is(g, i, "calls", t) => k > 0 /\ g[i].arg = k
    <3>1. CASE i = n
      BY <3>1, <1>1, <1>2, <2>1 DEF Is
    <3>2. CASE i \in DOMAIN l
      <4> HIDE DEF g
      <4>1. g[i] = l[i]
        BY <3>2, <1>2 DEF Prefix
      <4>2. ~Is(l, i, "calls", t)
        BY <3>2 DEF Open
      <4>3. QED
        BY <3>2, <4>1, <4>2 DEF Is, Open
    <3>3. QED
      BY <3>1, <3>2, <1>2
  <2>3. \E j \in DOMAIN g : Is(g, j, "calls", t)
    BY <1>2 DEF Is
  <2>4. QED
    BY <2>1, <2>2, <2>3 DEF Open
<1>7. QED
  BY <1>2, <1>5, <1>6

-----------------------------------------------------------------------------
(* The events of one step of the Host.                                        *)
LEMMA MidOne ==
    ASSUME NEW e \in Event, NEW k, e.type \in InTurn \ {"calls"},
           e.type \in OfCall => e.arg \in 1..k
    PROVE  MidOk(<<e>>, e.turn, k)
BY DEF MidOk

LEMMA MidJoin ==
    ASSUME NEW t, NEW k, NEW a, NEW b, MidOk(a, t, k), MidOk(b, t, k)
    PROVE  /\ MidOk(a \o b, t, k)
           /\ \A c : Done(a, t, c) \/ Done(b, t, c) => Done(a \o b, t, c)
<1> DEFINE g == a \o b
<1>1. a \in Seq(Event) /\ b \in Seq(Event)
  BY DEF MidOk
<1>2. /\ g \in Seq(Event) /\ Prefix(a, g)
      /\ \A i \in New(a, g) : i > Len(a) /\ \E j \in DOMAIN b : g[i] = b[j]
      /\ \A j \in DOMAIN b : Len(a) + j \in New(a, g) /\ g[Len(a) + j] = b[j]
  BY <1>1, Joined
<1> HIDE DEF g
<1>3. \A i \in DOMAIN g : /\ g[i].turn = t /\ g[i].type \in InTurn \ {"calls"}
                          /\ g[i].type \in OfCall => g[i].arg \in 1..k
  <2> TAKE i \in DOMAIN g
  <2>1. CASE i \in DOMAIN a
    BY <2>1, <1>2 DEF MidOk, Prefix
  <2>2. CASE i \notin DOMAIN a
    BY <2>2, <1>2 DEF MidOk, New
  <2>3. QED
    BY <2>1, <2>2
<1>4. \A c : Done(a, t, c) => Done(g, t, c)
  BY <1>2, DoneStays
<1>5. \A c : Done(b, t, c) => Done(g, t, c)
  BY <1>2 DEF Done, Is, New
<1>6. QED
  BY <1>2, <1>3, <1>4, <1>5 DEF g, MidOk

LEMMA EventOf ==
    ASSUME HostInv(log, host), host.stage # "idle",
           NEW type \in Boundary \cup InTurn, NEW arg \in Nat, NEW ok \in BOOLEAN
    PROVE  /\ E(type, arg, ok) \in Event /\ E(type, arg, ok).type = type
           /\ E(type, arg, ok).turn = host.turn /\ E(type, arg, ok).arg = arg
           /\ host.turn \in Nat \ {0}
<1>1. host.turn \in Nat \ {0}
  <2>1. host \in HostState
    BY DEF HostInv
  <2>2. host.stage \in {"idle", "preflight", "model", "executing", "asking"} /\ host.turn \in Nat
    BY <2>1 DEF HostState
  <2>3. CASE host.stage = "preflight"
    BY <2>2, <2>3 DEF HostInv
  <2>4. CASE host.stage # "preflight"
    BY <2>4 DEF HostInv, Open
  <2>5. QED
    BY <2>3, <2>4
<1>2. QED
  BY <1>1 DEF E, Event

(* An event of the Turn in progress. *)
LEMMA MidEvent ==
    ASSUME HostInv(log, host), host.stage # "idle", NEW type \in InTurn \ {"calls"},
           NEW arg \in Nat, NEW k, type \in OfCall => arg \in 1..k
    PROVE  \A ok \in BOOLEAN : MidOk(<<E(type, arg, ok)>>, host.turn, k)
<1> TAKE ok \in BOOLEAN
<1> DEFINE e == E(type, arg, ok)
<1>1. e \in Event /\ e.type = type /\ e.turn = host.turn /\ e.arg = arg
  BY EventOf
<1> HIDE DEF e
<1>2. MidOk(<<e>>, e.turn, k)
  BY <1>1, MidOne
<1>3. QED
  BY <1>1, <1>2 DEF e

LEMMA DoneOne ==
    ASSUME HostInv(log, host), host.stage # "idle", NEW arg \in Nat
    PROVE  \A ok \in BOOLEAN : Done(<<E("finished", arg, ok)>>, host.turn, arg)
<1> TAKE ok \in BOOLEAN
<1> DEFINE e == E("finished", arg, ok)
<1>1. "finished" \in Boundary \cup InTurn
  BY DEF InTurn, OfCall
<1>2. e.type = "finished" /\ e.turn = host.turn /\ e.arg = arg
  BY <1>1, EventOf
<1> HIDE DEF e
<1>3. 1 \in DOMAIN <<e>> /\ <<e>>[1] = e
  OBVIOUS
<1>4. Done(<<e>>, host.turn, arg)
  BY <1>2, <1>3 DEF Done, Is
<1>5. QED
  BY <1>4 DEF e

(* The rest of a batch that is given up settles its calls. *)
LEMMA RestGivenUp ==
    ASSUME HostInv(log, host), host.stage \in {"executing", "asking"}
    PROVE  /\ MidOk(GivenUp, host.turn, host.calls)
           /\ \A c \in (host.call + 1)..host.calls : Done(GivenUp, host.turn, c)
<1>1. host.calls \in Nat /\ host.call \in Nat /\ host.call <= host.calls
  BY DEF HostInv, HostState
<1>2. /\ "finished" \in Boundary \cup InTurn /\ "requested" \in Boundary \cup InTurn
      /\ TRUE \in BOOLEAN /\ FALSE \in BOOLEAN /\ host.stage # "idle"
  BY DEF InTurn, OfCall
<1> DEFINE n == 2 * (host.calls - host.call)
           F(m) == LET c == host.call + (m + 1) \div 2
                   IN  IF m % 2 = 1 THEN E("requested", c, TRUE) ELSE E("finished", c, FALSE)
<1>3. ASSUME NEW m \in 1..n
      PROVE  /\ F(m) \in Event /\ F(m).turn = host.turn /\ F(m).type \in InTurn \ {"calls"}
             /\ F(m).type \in OfCall => F(m).arg \in 1..host.calls
  <2> DEFINE c == host.call + (m + 1) \div 2
  <2>1. c \in 1..host.calls /\ c \in Nat
    BY <1>1, <1>3
  <2> HIDE DEF c, F, n
  <2>2. \A ok \in BOOLEAN : /\ E("requested", c, ok) \in Event
                            /\ E("requested", c, ok).type = "requested"
                            /\ E("requested", c, ok).turn = host.turn
                            /\ E("requested", c, ok).arg = c
    BY <2>1, <1>2, EventOf
  <2>3. /\ E("requested", c, TRUE) \in Event /\ E("requested", c, TRUE).type = "requested"
        /\ E("requested", c, TRUE).turn = host.turn /\ E("requested", c, TRUE).arg = c
    BY <2>2
  <2>4. /\ E("finished", c, FALSE) \in Event /\ E("finished", c, FALSE).type = "finished"
        /\ E("finished", c, FALSE).turn = host.turn /\ E("finished", c, FALSE).arg = c
    BY <2>1, <1>2, EventOf, ZenonT(30)
  <2>5. F(m) = E("requested", c, TRUE) \/ F(m) = E("finished", c, FALSE)
    BY DEF c, F
  <2>6. CASE F(m) = E("requested", c, TRUE)
    BY <2>1, <2>3, <2>6 DEF InTurn, OfCall
  <2>7. CASE F(m) = E("finished", c, FALSE)
    BY <2>1, <2>4, <2>7 DEF InTurn, OfCall
  <2>8. QED
    BY <2>5, <2>6, <2>7
<1>4. GivenUp = [m \in 1..n |-> F(m)]
  BY DEF GivenUp
<1>5. n \in Nat
  BY <1>1
<1> HIDE DEF F, n
<1>6. GivenUp \in Seq(Event) /\ DOMAIN GivenUp = 1..n
  BY <1>3, <1>4, <1>5
<1>7. MidOk(GivenUp, host.turn, host.calls)
  BY <1>3, <1>4, <1>6 DEF MidOk
<1>8. ASSUME NEW c \in (host.call + 1)..host.calls
      PROVE  Done(GivenUp, host.turn, c)
  <2> DEFINE m == 2 * (c - host.call)
  <2>1. m \in 1..n /\ m % 2 # 1 /\ host.call + (m + 1) \div 2 = c /\ c \in Nat
    BY <1>1, <1>8 DEF n
  <2> HIDE DEF m
  <2>2. F(m) = E("finished", c, FALSE)
    BY <2>1 DEF F
  <2>3. /\ E("finished", c, FALSE).type = "finished"
        /\ E("finished", c, FALSE).turn = host.turn /\ E("finished", c, FALSE).arg = c
    BY <2>1, <1>2, EventOf, ZenonT(30)
  <2>4. QED
    BY <2>1, <2>2, <2>3, <1>4, <1>6 DEF Done, Is
<1>9. QED
  BY <1>7, <1>8

-----------------------------------------------------------------------------
(* What a step of the Host does to the log and to the pending approval.        *)
HostStep ==
    /\ Grammar(log') /\ HostInv(log', host') /\ Prefix(log, log')
    /\ Pending' = Pending \/ Pending' = None \/ Pending' > Len(log)
    /\ host'.stage = "idle" => Len(log') > Len(log)

Under == {"model", "executing", "asking"}

LEMMA HostFields ==
    ASSUME HostInv(log, host)
    PROVE  /\ host \in HostState /\ host.turn \in Nat /\ host.calls \in Nat /\ host.call \in Nat
           /\ host.approval \in Nat /\ host.stage \in {"idle", "preflight"} \cup Under
           /\ host.stage \in Under => Open(log, host.turn, host.calls) /\ ~host.failed
                                      /\ \A c \in DoneCalls(host) : Done(log, host.turn, c)
           /\ host.stage \in {"executing", "asking"} => host.call \in 1..host.calls
BY DEF HostInv, HostState, Under

LEMMA MidStep ==
    ASSUME NEW l, Grammar(l), NEW h \in HostState, Open(l, h.turn, h.calls),
           NEW es, MidOk(es, h.turn, h.calls), h.stage \in Under, ~h.failed,
           h.stage # "model" => h.call \in 1..h.calls,
           \A c \in DoneCalls(h) : Done(l, h.turn, c) \/ Done(es, h.turn, c),
           h.stage = "asking" => Waits(l \o es, h)
    PROVE  Grammar(l \o es) /\ HostInv(l \o es, h) /\ Prefix(l, l \o es)
<1> DEFINE g == l \o es
<1>1. /\ Grammar(g) /\ Open(g, h.turn, h.calls) /\ Prefix(l, g)
      /\ \A c : Done(l, h.turn, c) \/ Done(es, h.turn, c) => Done(g, h.turn, c)
  BY MidGrows
<1> HIDE DEF g
<1>2. \A c \in DoneCalls(h) : Done(g, h.turn, c)
  BY <1>1
<1>3. h.stage = "asking" => Waits(g, h)
  BY DEF g
<1>4. HostInv(g, h)
  BY <1>1, <1>2, <1>3 DEF HostInv, Under
<1>5. QED
  BY <1>1, <1>4 DEF g

LEMMA EndStep ==
    ASSUME NEW l, Grammar(l), NEW t, NEW k, Open(l, t, k), NEW es, MidOk(es, t, k),
           \A c \in 1..k : Done(l, t, c) \/ Done(es, t, c),
           NEW e \in Event, e.type = "ended", e.turn = t,
           NEW h \in HostState, h.stage = "idle", h.turn = t, ~h.failed
    PROVE  /\ Grammar(l \o (es \o <<e>>)) /\ HostInv(l \o (es \o <<e>>), h)
           /\ Prefix(l, l \o (es \o <<e>>)) /\ Len(l \o (es \o <<e>>)) > Len(l)
<1> DEFINE m == l \o es
           g == m \o <<e>>
<1>1. /\ Grammar(m) /\ Open(m, t, k) /\ Prefix(l, m)
      /\ \A c : Done(l, t, c) \/ Done(es, t, c) => Done(m, t, c)
  BY MidGrows
<1>2. l \in Seq(Event) /\ es \in Seq(Event) /\ <<e>> \in Seq(Event) /\ m \in Seq(Event)
  BY <1>1 DEF Grammar, MidOk
<1>3. g = l \o (es \o <<e>>)
  BY <1>2, ConcatAssociative
<1> HIDE DEF m
<1>4. \A c \in 1..k : Done(m, t, c)
  BY <1>1
<1>5. /\ Grammar(g) /\ Closed(g, t) /\ Prefix(m, g)
      /\ g[Len(g)].type = "ended" /\ g # <<>>
  BY <1>1, <1>4, EndGrows
<1>6. Len(m) \in Nat /\ Len(g) = Len(m) + 1 /\ Len(l) \in Nat
  BY <1>2, Single
<1> HIDE DEF g
<1>7. Prefix(l, g) /\ Len(g) > Len(l)
  BY <1>1, <1>5, <1>6 DEF Prefix
<1>8. HostInv(g, h)
  BY <1>5 DEF HostInv, Rests
<1>9. QED
  BY <1>3, <1>5, <1>7, <1>8

(* An approval that was asked for just now. *)
LEMMA JustAsked ==
    ASSUME NEW l \in Seq(Event), NEW e \in Event, NEW h, h.approval = Len(l \o <<e>>),
           e.type = "asked", e.turn = h.turn, e.arg = h.call
    PROVE  Waits(l \o <<e>>, h)
<1> DEFINE g == l \o <<e>>
           n == Len(l) + 1
<1>1. /\ Len(l) \in Nat /\ Len(g) = n /\ n \in DOMAIN g /\ g[n] = e /\ DOMAIN g = 1..n
  BY Single
<1> HIDE DEF g
<1>2. Waits(g, h)
  BY <1>1 DEF Waits, Is, g
<1>3. QED
  BY <1>2 DEF g

LEMMA SubmitStep ==
    ASSUME Grammar(log), HostInv(log, host), Submit PROVE HostStep
<1>1. /\ host.stage = "idle" /\ log' = log
      /\ host' = [Idle EXCEPT !.stage = "preflight", !.turn = host.turn + 1]
  BY DEF Submit
<1>2. host.turn \in Nat /\ Closed(log, host.turn) /\ log \in Seq(Event)
  BY <1>1, HostFields DEF HostInv, Grammar
<1>3. /\ host' \in HostState /\ host'.stage = "preflight" /\ host'.turn = host.turn + 1
      /\ ~host'.failed
  <2>1. host' = [stage |-> "preflight", turn |-> host.turn + 1, calls |-> 0, call |-> 0,
                 approval |-> 0, decision |-> "none", stopping |-> FALSE, failed |-> FALSE]
    BY <1>1 DEF Idle, None
  <2>2. host.turn + 1 \in Nat /\ 0 \in Nat
    BY <1>2
  <2>3. QED
    BY <2>1, <2>2 DEF HostState
<1>4. \A i \in DOMAIN log : log[i].turn < host.turn + 1
  BY <1>2, EventFields DEF Closed
<1>5. Closed(log, host.turn + 1)
  <2>1. \A i \in DOMAIN log : log[i].turn <= host.turn + 1
    BY <1>2, <1>4, EventFields
  <2>2. \A i \in DOMAIN log : log[i].type = "started" =>
          \E m \in DOMAIN log : Is(log, m, "ended", log[i].turn)
    BY <1>2 DEF Closed
  <2>3. QED
    BY <2>1, <2>2, <1>2 DEF Closed
<1>6. HostInv(log', host')
  BY <1>1, <1>2, <1>3, <1>4, <1>5 DEF HostInv
<1>7. Prefix(log, log') /\ Pending' = None
  BY <1>1, <1>2, <1>3 DEF Prefix, Pending
<1>8. QED
  BY <1>1, <1>3, <1>6, <1>7 DEF HostStep

LEMMA StopStep ==
    ASSUME Grammar(log), HostInv(log, host), Stop PROVE HostStep
<1> DEFINE es == IF host.stage = "preflight" THEN <<>> ELSE <<E("stopping", None, TRUE)>>
<1>1. /\ host.stage # "idle" /\ host' = [host EXCEPT !.stopping = TRUE] /\ log' = log \o es
  BY DEF Stop, Grow
<1>2. host \in HostState /\ log \in Seq(Event) /\ host.stage \in {"idle", "preflight"} \cup Under
  BY HostFields DEF Grammar
<1>3. /\ host' \in HostState /\ host'.stage = host.stage /\ host'.turn = host.turn
      /\ host'.calls = host.calls /\ host'.call = host.call /\ host'.approval = host.approval
      /\ host'.decision = host.decision /\ host'.failed = host.failed
  BY <1>1, <1>2 DEF HostState
<1>4. Pending' = Pending
  BY <1>3 DEF Pending
<1>5. CASE host.stage = "preflight"
  <2>1. log' = log
    BY <1>1, <1>2, <1>5, ConcatEmptySeq
  <2>2. HostInv(log', host')
    BY <2>1, <1>3, <1>5 DEF HostInv
  <2>3. QED
    BY <2>1, <2>2, <1>2, <1>3, <1>4, <1>5 DEF HostStep, Prefix
<1>6. CASE host.stage \in Under
  <2>1. MidOk(es, host.turn, host.calls)
    <3>1. \A ok \in BOOLEAN : MidOk(<<E("stopping", None, ok)>>, host.turn, host.calls)
      BY <1>1, MidEvent DEF InTurn, OfCall, None
    <3>2. es = <<E("stopping", None, TRUE)>>
      BY <1>6 DEF Under
    <3>3. QED
      BY <3>1, <3>2
  <2>2. Open(log, host.turn, host.calls) /\ ~host.failed
        /\ (host.stage # "model" => host.call \in 1..host.calls)
        /\ \A c \in DoneCalls(host) : Done(log, host.turn, c)
    BY <1>6, HostFields DEF Under
  <2>3. DoneCalls(host') = DoneCalls(host)
    BY <1>3 DEF DoneCalls
  <2>4. host.stage = "asking" => Waits(log \o es, host')
    <3> SUFFICES ASSUME host.stage = "asking" PROVE Waits(log', host')
      BY <1>1
    <3>1. Waits(log, host)
      BY DEF HostInv
    <3>2. /\ Prefix(log, log')
          /\ \A i \in New(log, log') : \E j \in DOMAIN es : log'[i] = es[j]
      BY <2>1, <1>1, <1>2, Joined, ZenonT(30) DEF MidOk
    <3>3. \A j \in DOMAIN es : es[j].type = "stopping"
      <4>1. es = <<E("stopping", None, TRUE)>>
        BY <1>6 DEF Under
      <4>2. QED
        BY <4>1 DEF E
    <3> HIDE DEF es
    <3>4. \A i \in DOMAIN log' : i > host.approval => log'[i].type = "stopping"
      <4> TAKE i \in DOMAIN log'
      <4>1. CASE i \in DOMAIN log
        BY <4>1, <3>1, <3>2 DEF Waits, Prefix
      <4>2. CASE i \notin DOMAIN log
        BY <4>2, <3>2, <3>3 DEF New
      <4>3. QED
        BY <4>1, <4>2
    <3>5. Is(log', host.approval, "asked", host.turn) /\ log'[host.approval].arg = host.call
      BY <3>1, <3>2 DEF Waits, Is, Prefix
    <3>6. QED
      BY <3>4, <3>5, <1>3 DEF Waits
  <2> HIDE DEF es
  <2>5. Grammar(log \o es) /\ HostInv(log \o es, host') /\ Prefix(log, log \o es)
    BY <2>1, <2>2, <2>3, <2>4, <1>3, <1>6, MidStep
  <2>6. QED
    BY <2>5, <1>1, <1>3, <1>4 DEF HostStep
<1>7. QED
  BY <1>1, <1>2, <1>5, <1>6

LEMMA PrefixTrans ==
    ASSUME NEW a \in Seq(Event), NEW b \in Seq(Event), NEW c \in Seq(Event), Prefix(a, b),
           Prefix(b, c)
    PROVE  Prefix(a, c)
<1>1. Len(a) \in Nat /\ Len(b) \in Nat /\ Len(c) \in Nat
  OBVIOUS
<1>2. QED
  BY <1>1 DEF Prefix

LEMMA Literals ==
    ASSUME NEW a \in Event, NEW b \in Event, NEW c \in Event
    PROVE  <<a, b>> = <<a>> \o <<b>> /\ <<a, b, c>> = (<<a>> \o <<b>>) \o <<c>>
<1>1. <<a>> \in Seq(Event) /\ <<a, b>> \in Seq(Event) /\ <<a, b, c>> \in Seq(Event)
  OBVIOUS
<1>2. <<a, b>> = <<a>> \o <<b>>
  <2> DEFINE g == <<a>> \o <<b>>
  <2>1. g \in Seq(Event) /\ Len(g) = 2 /\ g[1] = a /\ g[2] = b
    BY <1>1, Single, ConcatProperties
  <2> HIDE DEF g
  <2>2. <<a, b>> = g
    BY <1>1, <2>1, SeqEqual
  <2>3. QED
    BY <2>2 DEF g
<1>3. <<a, b, c>> = <<a, b>> \o <<c>>
  <2> DEFINE d == <<a, b>>
             g == d \o <<c>>
  <2>1. d \in Seq(Event) /\ Len(d) = 2 /\ d[1] = a /\ d[2] = b
    BY <1>1
  <2> HIDE DEF d
  <2>2. g \in Seq(Event) /\ Len(g) = 3 /\ g[1] = a /\ g[2] = b /\ g[3] = c
    <3>1. g \in Seq(Event) /\ Len(g) = Len(d) + 1 /\ g[Len(d) + 1] = c /\ Prefix(d, g)
      BY <2>1, Single
    <3> HIDE DEF g
    <3>2. g \in Seq(Event) /\ Len(g) = 3 /\ g[3] = c /\ Prefix(d, g)
      BY <2>1, <3>1
    <3>3. 1 \in DOMAIN d /\ 2 \in DOMAIN d
      BY <2>1
    <3>4. QED
      BY <2>1, <3>2, <3>3 DEF Prefix
  <2> HIDE DEF g
  <2>3. <<a, b, c>> = g
    BY <1>1, <2>2, SeqEqual
  <2>4. QED
    BY <2>3 DEF g, d
<1>4. QED
  BY <1>2, <1>3

(* A call begins after the events of l. *)
LEMMA BeginOn ==
    ASSUME Grammar(log), HostInv(log, host), host.stage \in Under,
           NEW l, Grammar(l), Prefix(log, l), NEW k, Open(l, host.turn, k),
           NEW c \in 1..k, \A d \in 1..(c - 1) : Done(l, host.turn, d),
           NEW h \in HostState, h.turn = host.turn, h.calls = k, h.call = c, ~h.failed,
           NEW x \in Event, x.turn = host.turn, x.arg = c,
           \/ x.type = "running" /\ h.stage = "executing"
           \/ x.type = "asked" /\ h.stage = "asking" /\ h.approval = Len(l) + 1
    PROVE  /\ Grammar(l \o <<x>>) /\ HostInv(l \o <<x>>, h) /\ Prefix(log, l \o <<x>>)
<1>1. MidOk(<<x>>, h.turn, h.calls)
  <2>1. x.type \in InTurn \ {"calls"}
    BY DEF InTurn, OfCall
  <2>2. QED
    BY <2>1, MidOne
<1>2. l \in Seq(Event) /\ log \in Seq(Event) /\ h.stage \in Under /\ h.stage # "model"
  BY DEF Grammar, Under
<1>3. h.stage = "asking" => Waits(l \o <<x>>, h)
  BY <1>2, JustAsked, Single
<1>4. \A d \in DoneCalls(h) : Done(l, h.turn, d)
  BY <1>2 DEF DoneCalls
<1>5. Grammar(l \o <<x>>) /\ HostInv(l \o <<x>>, h) /\ Prefix(l, l \o <<x>>)
  BY <1>1, <1>2, <1>3, <1>4, MidStep
<1>6. l \o <<x>> \in Seq(Event)
  BY <1>5 DEF Grammar
<1>7. QED
  BY <1>2, <1>5, <1>6, PrefixTrans

LEMMA StartTurnStep ==
    ASSUME Grammar(log), HostInv(log, host), StartTurn PROVE HostStep
<1> DEFINE e == E("started", None, TRUE)
<1>1. /\ host.stage = "preflight" /\ log' = log \o <<e>>
      /\ host' = [host EXCEPT !.stage = "model", !.calls = 0, !.call = 0]
  BY DEF StartTurn, Free, Grow
<1>2. /\ host \in HostState /\ ~host.failed /\ host.turn > 0 /\ Closed(log, host.turn)
      /\ \A i \in DOMAIN log : log[i].turn < host.turn
  BY <1>1, HostFields DEF HostInv
<1>3. /\ host' \in HostState /\ host'.stage = "model" /\ host'.turn = host.turn
      /\ host'.calls = 0 /\ ~host'.failed
  BY <1>1, <1>2 DEF HostState
<1>4. e \in Event /\ e.type = "started" /\ e.turn = host.turn
  <2>1. "started" \in Boundary \cup InTurn /\ None \in Nat /\ host.stage # "idle"
    BY <1>1 DEF Boundary, None
  <2>2. QED
    BY <2>1, EventOf
<1> HIDE DEF e
<1>5. Grammar(log \o <<e>>) /\ Open(log \o <<e>>, host.turn, 0) /\ Prefix(log, log \o <<e>>)
  BY <1>2, <1>4, StartGrows
<1>6. HostInv(log', host')
  BY <1>1, <1>3, <1>5 DEF HostInv, DoneCalls
<1>7. Pending' = None
  BY <1>3 DEF Pending
<1>8. QED
  BY <1>1, <1>3, <1>5, <1>6, <1>7 DEF HostStep

LEMMA RejectTurnStep ==
    ASSUME Grammar(log), HostInv(log, host), RejectTurn PROVE HostStep
<1> DEFINE e == E("rejected", None, FALSE)
<1>1. /\ host.stage = "preflight" /\ log' = log \o <<e>>
      /\ host' = [host EXCEPT !.stage = "idle", !.stopping = FALSE, !.failed = TRUE]
  BY DEF RejectTurn, Grow
<1>2. /\ host \in HostState /\ host.turn > 0 /\ Closed(log, host.turn)
      /\ \A i \in DOMAIN log : log[i].turn < host.turn
  BY <1>1, HostFields DEF HostInv
<1>3. /\ host' \in HostState /\ host'.stage = "idle" /\ host'.turn = host.turn
      /\ host'.failed = TRUE
  BY <1>1, <1>2 DEF HostState
<1>4. e \in Event /\ e.type = "rejected" /\ e.turn = host.turn
  <2>1. \A ok \in BOOLEAN : /\ E("rejected", None, ok) \in Event
                            /\ E("rejected", None, ok).type = "rejected"
                            /\ E("rejected", None, ok).turn = host.turn
    <3>1. "rejected" \in Boundary \cup InTurn /\ None \in Nat /\ host.stage # "idle"
      BY <1>1 DEF Boundary, None
    <3>2. QED
      BY <3>1, EventOf
  <2>2. QED
    BY <2>1
<1> HIDE DEF e
<1>5. /\ Grammar(log \o <<e>>) /\ Closed(log \o <<e>>, host.turn) /\ Prefix(log, log \o <<e>>)
      /\ (log \o <<e>>)[Len(log \o <<e>>)].type = "rejected" /\ log \o <<e>> # <<>>
  BY <1>2, <1>4, RejectGrows
<1>6. HostInv(log', host')
  BY <1>1, <1>3, <1>5 DEF HostInv, Rests
<1>7. Pending' = None
  BY <1>3 DEF Pending
<1>8. Len(log') > Len(log)
  <2>1. log \in Seq(Event)
    BY DEF Grammar
  <2>2. Len(log \o <<e>>) = Len(log) + 1 /\ Len(log) \in Nat
    BY <2>1, <1>4, Single
  <2>3. QED
    BY <2>2, <1>1
<1>9. QED
  BY <1>1, <1>3, <1>5, <1>6, <1>7, <1>8 DEF HostStep

LEMMA ModelCallsStep ==
    ASSUME Grammar(log), HostInv(log, host), ModelCalls PROVE HostStep
<1>1. host.stage = "model" /\ host.calls = 0
  BY DEF ModelCalls, Free
<1>2. PICK k \in 1..MaxCalls :
        LET calls == E("calls", k, TRUE) IN
            \/ /\ Grow(<<calls, E("requested", 1, TRUE), E("running", 1, TRUE)>>)
               /\ host' = [host EXCEPT !.stage = "executing", !.calls = k, !.call = 1]
            \/ /\ Grow(<<calls, E("requested", 1, TRUE), E("asked", 1, TRUE)>>)
               /\ host' = [host EXCEPT !.stage = "asking", !.calls = k, !.call = 1,
                                       !.decision = "none", !.approval = Len(log) + 3]
  BY DEF ModelCalls
<1>3. k \in Nat \ {0}
  BY PageBounds
<1> DEFINE a == E("calls", k, TRUE)
           r == E("requested", 1, TRUE)
           run == E("running", 1, TRUE)
           ask == E("asked", 1, TRUE)
<1>4. \/ /\ log' = log \o <<a, r, run>>
         /\ host' = [host EXCEPT !.stage = "executing", !.calls = k, !.call = 1]
      \/ /\ log' = log \o <<a, r, ask>>
         /\ host' = [host EXCEPT !.stage = "asking", !.calls = k, !.call = 1,
                                 !.decision = "none", !.approval = Len(log) + 3]
  BY <1>2 DEF Grow
<1>5. \A type \in InTurn : \A arg \in Nat :
        /\ E(type, arg, TRUE) \in Event /\ E(type, arg, TRUE).type = type
        /\ E(type, arg, TRUE).turn = host.turn /\ E(type, arg, TRUE).arg = arg
  <2>1. \A type \in InTurn : \A arg \in Nat : \A ok \in BOOLEAN :
        /\ E(type, arg, ok) \in Event /\ E(type, arg, ok).type = type
        /\ E(type, arg, ok).turn = host.turn /\ E(type, arg, ok).arg = arg
    BY <1>1, EventOf
  <2>2. QED
    BY <2>1
<1>6. a \in Event /\ a.type = "calls" /\ a.turn = host.turn /\ a.arg = k
  BY <1>3, <1>5 DEF InTurn, OfCall
<1>7. r \in Event /\ r.type = "requested" /\ r.turn = host.turn /\ r.arg = 1
  BY <1>5 DEF InTurn, OfCall
<1>8. run \in Event /\ run.type = "running" /\ run.turn = host.turn /\ run.arg = 1
  BY <1>5 DEF InTurn, OfCall
<1>9. ask \in Event /\ ask.type = "asked" /\ ask.turn = host.turn /\ ask.arg = 1
  BY <1>5 DEF InTurn, OfCall
<1> HIDE DEF a, r, run, ask
<1>10. log \in Seq(Event) /\ Open(log, host.turn, 0) /\ host \in HostState /\ ~host.failed
  BY <1>1, HostFields DEF Grammar, Under
<1> DEFINE m == log \o <<a>>
           l == m \o <<r>>
<1>11. Grammar(m) /\ Open(m, host.turn, k) /\ Prefix(log, m)
  BY <1>3, <1>6, <1>10, CallsGrows
<1>12. MidOk(<<r>>, host.turn, k)
  BY <1>3, <1>7, MidOne DEF InTurn, OfCall
<1>13. m \in Seq(Event)
  BY <1>11 DEF Grammar
<1> HIDE DEF m
<1>14. Grammar(l) /\ Open(l, host.turn, k) /\ Prefix(m, l)
  BY <1>11, <1>12, MidGrows
<1>15. l \in Seq(Event) /\ Prefix(log, l)
  <2>1. l \in Seq(Event)
    BY <1>14 DEF Grammar
  <2> HIDE DEF l
  <2>2. QED
    BY <2>1, <1>10, <1>11, <1>13, <1>14, PrefixTrans
<1>16. /\ <<a>> \in Seq(Event) /\ <<r>> \in Seq(Event) /\ <<run>> \in Seq(Event)
       /\ <<ask>> \in Seq(Event) /\ <<a>> \o <<r>> \in Seq(Event)
  BY <1>6, <1>7, <1>8, <1>9
<1>17. l = log \o (<<a>> \o <<r>>)
  BY <1>10, <1>16, ConcatAssociative DEF m
<1>18. Len(l) = Len(log) + 2
  <2>1. Len(m) = Len(log) + 1 /\ Len(log) \in Nat
    BY <1>6, <1>10, Single DEF m
  <2>2. Len(l) = Len(m) + 1
    BY <1>7, <1>13, Single
  <2>3. QED
    BY <2>1, <2>2
<1> HIDE DEF l
<1>19. log \o <<a, r, run>> = l \o <<run>> /\ log \o <<a, r, ask>> = l \o <<ask>>
  <2>1. ASSUME NEW x \in Event PROVE log \o <<a, r, x>> = l \o <<x>>
    <3>1. <<x>> \in Seq(Event)
      OBVIOUS
    <3>2. <<a, r, x>> = (<<a>> \o <<r>>) \o <<x>>
      BY <1>6, <1>7, Literals, SMTT(30)
    <3>3. QED
      BY <3>1, <3>2, <1>10, <1>16, <1>17, ConcatAssociative
  <2>2. QED
    BY <2>1, <1>8, <1>9
<1>20. host.stage \in Under /\ 1 \in 1..k /\ (\A d \in 1..(1 - 1) : Done(l, host.turn, d))
  BY <1>3, <1>1 DEF Under
<1>21. CASE /\ log' = log \o <<a, r, run>>
            /\ host' = [host EXCEPT !.stage = "executing", !.calls = k, !.call = 1]
  <2>1. /\ host' \in HostState /\ host'.turn = host.turn /\ host'.calls = k /\ host'.call = 1
        /\ ~host'.failed /\ host'.stage = "executing"
    BY <1>3, <1>10, <1>21 DEF HostState
  <2>2. Grammar(l \o <<run>>) /\ HostInv(l \o <<run>>, host') /\ Prefix(log, l \o <<run>>)
    BY <2>1, <1>8, <1>14, <1>15, <1>20, BeginOn
  <2>3. Pending' = None
    BY <2>1 DEF Pending
  <2>4. QED
    BY <2>1, <2>2, <2>3, <1>19, <1>21 DEF HostStep
<1>22. CASE /\ log' = log \o <<a, r, ask>>
            /\ host' = [host EXCEPT !.stage = "asking", !.calls = k, !.call = 1,
                                    !.decision = "none", !.approval = Len(log) + 3]
  <2>1. Len(log) + 3 \in Nat /\ Len(log) + 3 = Len(l) + 1 /\ Len(log) + 3 > Len(log)
    BY <1>10, <1>18
  <2>2. /\ host' \in HostState /\ host'.turn = host.turn /\ host'.calls = k /\ host'.call = 1
        /\ ~host'.failed /\ host'.stage = "asking" /\ host'.approval = Len(log) + 3
    BY <1>3, <1>10, <1>22, <2>1 DEF HostState
  <2>3. Grammar(l \o <<ask>>) /\ HostInv(l \o <<ask>>, host') /\ Prefix(log, l \o <<ask>>)
    BY <2>1, <2>2, <1>9, <1>14, <1>15, <1>20, BeginOn
  <2>4. Pending' = None \/ Pending' > Len(log)
    BY <2>1, <2>2 DEF Pending
  <2>5. QED
    BY <2>2, <2>3, <2>4, <1>19, <1>22 DEF HostStep
<1>23. QED
  BY <1>4, <1>21, <1>22

LEMMA EventsOf ==
    ASSUME HostInv(log, host), host.stage # "idle", NEW type \in InTurn, NEW arg \in Nat
    PROVE  /\ E(type, arg, TRUE) \in Event /\ E(type, arg, TRUE).type = type
           /\ E(type, arg, TRUE).turn = host.turn /\ E(type, arg, TRUE).arg = arg
<1>1. \A ok \in BOOLEAN : /\ E(type, arg, ok) \in Event /\ E(type, arg, ok).type = type
                          /\ E(type, arg, ok).turn = host.turn /\ E(type, arg, ok).arg = arg
  BY EventOf
<1>2. QED
  BY <1>1

LEMMA NextCallStep ==
    ASSUME Grammar(log), HostInv(log, host), host.stage \in {"executing", "asking"},
           NEW prefix, MidOk(prefix, host.turn, host.calls),
           Done(prefix, host.turn, host.call), NextCall(prefix)
    PROVE  HostStep
<1>1. /\ host \in HostState /\ host.calls \in Nat /\ host.call \in 1..host.calls
      /\ Open(log, host.turn, host.calls) /\ ~host.failed /\ host.stage # "idle"
      /\ \A d \in 1..(host.call - 1) : Done(log, host.turn, d)
      /\ host.stage \in Under
  BY HostFields DEF Under, DoneCalls
<1>2. CASE host.call < host.calls
  <2> DEFINE c == host.call + 1
             r == E("requested", c, TRUE)
             run == E("running", c, TRUE)
             ask == E("asked", c, TRUE)
             req == prefix \o <<r>>
             l == log \o req
  <2>1. \/ /\ log' = log \o (req \o <<run>>)
           /\ host' = [host EXCEPT !.stage = "executing", !.call = c, !.decision = "none"]
        \/ /\ log' = log \o (req \o <<ask>>)
           /\ host' = [host EXCEPT !.stage = "asking", !.call = c, !.decision = "none",
                                   !.approval = Len(log) + Len(req) + 1]
    BY <1>2 DEF NextCall, Begin, Grow
  <2>2. c \in 1..host.calls /\ c \in Nat /\ c - 1 = host.call
    BY <1>1, <1>2
  <2> HIDE DEF c
  <2>3. r \in Event /\ r.type = "requested" /\ r.turn = host.turn /\ r.arg = c
    BY <1>1, <2>2, EventsOf DEF InTurn, OfCall
  <2>4. run \in Event /\ run.type = "running" /\ run.turn = host.turn /\ run.arg = c
    BY <1>1, <2>2, EventsOf DEF InTurn, OfCall
  <2>5. ask \in Event /\ ask.type = "asked" /\ ask.turn = host.turn /\ ask.arg = c
    BY <1>1, <2>2, EventsOf DEF InTurn, OfCall
  <2> HIDE DEF r, run, ask
  <2>6. MidOk(<<r>>, host.turn, host.calls)
    BY <2>2, <2>3, MidOne DEF InTurn, OfCall
  <2>7. MidOk(req, host.turn, host.calls) /\ Done(req, host.turn, host.call)
    BY <2>6, MidJoin
  <2> HIDE DEF req
  <2>8. /\ Grammar(l) /\ Open(l, host.turn, host.calls) /\ Prefix(log, l)
        /\ \A d : Done(log, host.turn, d) \/ Done(req, host.turn, d) => Done(l, host.turn, d)
    BY <1>1, <2>7, MidGrows
  <2>9. /\ log \in Seq(Event) /\ req \in Seq(Event) /\ <<run>> \in Seq(Event)
        /\ <<ask>> \in Seq(Event)
    BY <2>4, <2>5, <2>7 DEF Grammar, MidOk
  <2>10. Len(l) = Len(log) + Len(req) /\ Len(log) \in Nat /\ Len(req) \in Nat
    BY <2>9, Joined
  <2>11. l \o <<run>> = log \o (req \o <<run>>) /\ l \o <<ask>> = log \o (req \o <<ask>>)
    BY <2>9, ConcatAssociative, SMTT(30)
  <2>12. \A d \in 1..(c - 1) : Done(l, host.turn, d)
    <3> TAKE d \in 1..(c - 1)
    <3>1. d \in 1..(host.call - 1) \/ d = host.call
      BY <1>1, <2>2
    <3>2. QED
      BY <3>1, <1>1, <2>7, <2>8
  <2> HIDE DEF l
  <2>13. CASE /\ log' = log \o (req \o <<run>>)
              /\ host' = [host EXCEPT !.stage = "executing", !.call = c, !.decision = "none"]
    <3>1. /\ host' \in HostState /\ host'.turn = host.turn /\ host'.calls = host.calls
          /\ host'.call = c /\ ~host'.failed /\ host'.stage = "executing"
      BY <1>1, <2>2, <2>13 DEF HostState
    <3>2. Grammar(l \o <<run>>) /\ HostInv(l \o <<run>>, host') /\ Prefix(log, l \o <<run>>)
      BY <3>1, <1>1, <2>2, <2>4, <2>8, <2>12, BeginOn
    <3>3. Pending' = None
      BY <3>1 DEF Pending
    <3>4. QED
      BY <3>1, <3>2, <3>3, <2>11, <2>13 DEF HostStep
  <2>14. CASE /\ log' = log \o (req \o <<ask>>)
              /\ host' = [host EXCEPT !.stage = "asking", !.call = c, !.decision = "none",
                                      !.approval = Len(log) + Len(req) + 1]
    <3>1. /\ Len(log) + Len(req) + 1 \in Nat /\ Len(log) + Len(req) + 1 = Len(l) + 1
          /\ Len(log) + Len(req) + 1 > Len(log)
      BY <2>10
    <3>2. /\ host' \in HostState /\ host'.turn = host.turn /\ host'.calls = host.calls
          /\ host'.call = c /\ ~host'.failed /\ host'.stage = "asking"
          /\ host'.approval = Len(log) + Len(req) + 1
      BY <1>1, <2>2, <2>14, <3>1 DEF HostState
    <3>3. Grammar(l \o <<ask>>) /\ HostInv(l \o <<ask>>, host') /\ Prefix(log, l \o <<ask>>)
      BY <3>1, <3>2, <1>1, <2>2, <2>5, <2>8, <2>12, BeginOn
    <3>4. Pending' = None \/ Pending' > Len(log)
      BY <3>1, <3>2 DEF Pending
    <3>5. QED
      BY <3>2, <3>3, <3>4, <2>11, <2>14 DEF HostStep
  <2>15. QED
    BY <2>1, <2>13, <2>14
<1>3. CASE ~(host.call < host.calls)
  <2>1. log' = log \o prefix /\ host' = [host EXCEPT !.stage = "model"]
    BY <1>3 DEF NextCall, Grow
  <2>2. /\ host' \in HostState /\ host'.turn = host.turn /\ host'.calls = host.calls
        /\ ~host'.failed /\ host'.stage = "model" /\ host'.stage \in Under
    BY <1>1, <2>1 DEF HostState, Under
  <2>3. \A d \in DoneCalls(host') : Done(log, host.turn, d) \/ Done(prefix, host.turn, d)
    <3> TAKE d \in DoneCalls(host')
    <3>1. d \in 1..host.calls
      BY <2>2 DEF DoneCalls
    <3>2. d \in 1..(host.call - 1) \/ d = host.call
      BY <1>1, <1>3, <3>1
    <3>3. QED
      BY <3>2, <1>1
  <2>4. Grammar(log \o prefix) /\ HostInv(log \o prefix, host') /\ Prefix(log, log \o prefix)
    BY <1>1, <2>2, <2>3, MidStep
  <2>5. Pending' = None
    BY <2>2 DEF Pending
  <2>6. QED
    BY <2>1, <2>2, <2>4, <2>5 DEF HostStep
<1>4. QED
  BY <1>2, <1>3

(* A call that settles, with the events of its settling before it.             *)
LEMMA SettledCall ==
    ASSUME HostInv(log, host), host.stage \in {"executing", "asking"},
           NEW e \in Event, e.turn = host.turn, e.type \in {"changed", "resolved"},
           NEW ok \in BOOLEAN
    PROVE  /\ MidOk(<<e, E("finished", host.call, ok)>>, host.turn, host.calls)
           /\ Done(<<e, E("finished", host.call, ok)>>, host.turn, host.call)
<1> DEFINE f == E("finished", host.call, ok)
<1>1. host.stage # "idle" /\ host.call \in Nat /\ host.call \in 1..host.calls
  BY HostFields
<1>2. MidOk(<<f>>, host.turn, host.calls) /\ Done(<<f>>, host.turn, host.call)
  <2>1. "finished" \in InTurn \ {"calls"}
    BY DEF InTurn, OfCall
  <2>2. QED
    BY <1>1, <2>1, MidEvent, DoneOne
<1>3. MidOk(<<e>>, host.turn, host.calls)
  <2>1. e.type \in InTurn \ {"calls"} /\ e.type \notin OfCall
    BY DEF InTurn, OfCall
  <2>2. QED
    BY <2>1, MidOne
<1>4. f \in Event
  <2>1. "finished" \in Boundary \cup InTurn
    BY DEF InTurn, OfCall
  <2>2. QED
    BY <1>1, <2>1, EventOf
<1> HIDE DEF f
<1>5. <<e, f>> = <<e>> \o <<f>>
  BY <1>4, Literals
<1>6. MidOk(<<e>> \o <<f>>, host.turn, host.calls) /\ Done(<<e>> \o <<f>>, host.turn, host.call)
  BY <1>2, <1>3, MidJoin
<1>7. QED
  BY <1>5, <1>6 DEF f

LEMMA ToolEndsStep ==
    ASSUME Grammar(log), HostInv(log, host), ToolEnds PROVE HostStep
<1> DEFINE e == E("changed", host.call, TRUE)
<1>1. /\ host.stage = "executing"
      /\ NextCall(<<e, E("finished", host.call, TRUE)>>)
  BY DEF ToolEnds, Free
<1>2. e \in Event /\ e.type = "changed" /\ e.turn = host.turn
  BY <1>1, HostFields, EventsOf DEF InTurn
<1> HIDE DEF e
<1>3. \A ok \in BOOLEAN :
        /\ MidOk(<<e, E("finished", host.call, ok)>>, host.turn, host.calls)
        /\ Done(<<e, E("finished", host.call, ok)>>, host.turn, host.call)
  BY <1>1, <1>2, SettledCall
<1>4. /\ MidOk(<<e, E("finished", host.call, TRUE)>>, host.turn, host.calls)
      /\ Done(<<e, E("finished", host.call, TRUE)>>, host.turn, host.call)
  BY <1>3
<1>5. QED
  BY <1>1, <1>4, NextCallStep

LEMMA EndTurnStep ==
    ASSUME Grammar(log), HostInv(log, host), host.stage \in Under,
           NEW es, MidOk(es, host.turn, host.calls),
           \A c \in 1..host.calls : Done(log, host.turn, c) \/ Done(es, host.turn, c),
           NEW ok \in BOOLEAN, EndTurn(es \o <<E("ended", None, ok)>>)
    PROVE  HostStep
<1> DEFINE e == E("ended", None, ok)
<1>1. log' = log \o (es \o <<e>>) /\ host' = [host EXCEPT !.stage = "idle", !.stopping = FALSE]
  BY DEF EndTurn, Grow
<1>2. e \in Event /\ e.type = "ended" /\ e.turn = host.turn
  <2>1. "ended" \in Boundary \cup InTurn /\ None \in Nat /\ host.stage # "idle"
    BY DEF Boundary, None, Under
  <2>2. QED
    BY <2>1, EventOf
<1> HIDE DEF e
<1>3. host \in HostState /\ ~host.failed /\ Open(log, host.turn, host.calls)
  BY HostFields
<1>4. /\ host' \in HostState /\ host'.stage = "idle" /\ host'.turn = host.turn /\ ~host'.failed
  BY <1>1, <1>3 DEF HostState
<1>5. /\ Grammar(log \o (es \o <<e>>)) /\ HostInv(log \o (es \o <<e>>), host')
      /\ Prefix(log, log \o (es \o <<e>>)) /\ Len(log \o (es \o <<e>>)) > Len(log)
  BY <1>2, <1>3, <1>4, EndStep
<1>6. Pending' = None
  BY <1>4 DEF Pending
<1>7. QED
  BY <1>1, <1>5, <1>6 DEF HostStep

LEMMA AbortStep ==
    ASSUME Grammar(log), HostInv(log, host), host.stage \in {"executing", "asking"},
           NEW p, MidOk(p, host.turn, host.calls), Done(p, host.turn, host.call),
           NEW ok \in BOOLEAN, EndTurn(p \o Abort(ok))
    PROVE  HostStep
<1> DEFINE es == p \o GivenUp
           x == <<E("ended", None, ok)>>
<1>1. /\ MidOk(GivenUp, host.turn, host.calls)
      /\ \A c \in (host.call + 1)..host.calls : Done(GivenUp, host.turn, c)
  BY RestGivenUp
<1>2. /\ MidOk(es, host.turn, host.calls)
      /\ \A c : Done(p, host.turn, c) \/ Done(GivenUp, host.turn, c) => Done(es, host.turn, c)
  BY <1>1, MidJoin
<1>3. x \in Seq(Event)
  <2>1. "ended" \in Boundary \cup InTurn /\ None \in Nat /\ host.stage # "idle"
    BY DEF Boundary, None
  <2>2. E("ended", None, ok) \in Event
    BY <2>1, EventOf
  <2>3. QED
    BY <2>2
<1>4. p \in Seq(Event) /\ GivenUp \in Seq(Event)
  BY <1>1 DEF MidOk
<1>5. EndTurn(es \o x)
  <2>1. p \o Abort(ok) = p \o (GivenUp \o x)
    BY DEF Abort
  <2>2. p \o (GivenUp \o x) = es \o x
    BY <1>3, <1>4, ConcatAssociative
  <2>3. QED
    BY <2>1, <2>2
<1>6. /\ host.calls \in Nat /\ host.call \in 1..host.calls /\ host.stage \in Under
      /\ \A c \in 1..(host.call - 1) : Done(log, host.turn, c)
  BY HostFields DEF Under, DoneCalls
<1> HIDE DEF es
<1>7. \A c \in 1..host.calls : Done(log, host.turn, c) \/ Done(es, host.turn, c)
  <2> TAKE c \in 1..host.calls
  <2>1. c \in 1..(host.call - 1) \/ c = host.call \/ c \in (host.call + 1)..host.calls
    BY <1>6
  <2>2. QED
    BY <2>1, <1>1, <1>2, <1>6
<1>8. QED
  BY <1>2, <1>5, <1>6, <1>7, EndTurnStep

(* A turn with all its calls settled. *)
LEMMA ModelEnds ==
    ASSUME Grammar(log), HostInv(log, host), host.stage = "model",
           NEW es, MidOk(es, host.turn, host.calls),
           NEW ok \in BOOLEAN, EndTurn(es \o <<E("ended", None, ok)>>)
    PROVE  HostStep
<1>1. host.stage \in Under /\ \A c \in 1..host.calls : Done(log, host.turn, c)
  BY HostFields DEF Under, DoneCalls
<1>2. QED
  BY <1>1, EndTurnStep

LEMMA ModelEndsAlone ==
    ASSUME Grammar(log), HostInv(log, host), host.stage = "model",
           NEW ok \in BOOLEAN, EndTurn(<<E("ended", None, ok)>>)
    PROVE  HostStep
<1> DEFINE x == <<E("ended", None, ok)>>
<1>1. x \in Seq(Event)
  <2>1. "ended" \in Boundary \cup InTurn /\ None \in Nat /\ host.stage # "idle"
    BY DEF Boundary, None
  <2>2. E("ended", None, ok) \in Event
    BY <2>1, EventOf
  <2>3. QED
    BY <2>2
<1>2. <<>> \o x = x
  BY <1>1, ConcatEmptySeq
<1>3. MidOk(<<>>, host.turn, host.calls)
  BY DEF MidOk
<1>4. EndTurn(<<>> \o x)
  BY <1>2
<1>5. QED
  BY <1>3, <1>4, ModelEnds

LEMMA ModelRaisesStep ==
    ASSUME Grammar(log), HostInv(log, host), ModelRaises PROVE HostStep
<1>1. host.stage = "model" /\ EndTurn(<<E("ended", None, FALSE)>>)
  BY DEF ModelRaises, Free
<1>2. \A ok \in BOOLEAN : EndTurn(<<E("ended", None, ok)>>) => HostStep
  BY <1>1, ModelEndsAlone
<1>3. QED
  BY <1>1, <1>2

LEMMA ModelTellsErrorStep ==
    ASSUME Grammar(log), HostInv(log, host), ModelTellsError PROVE HostStep
<1> DEFINE es == <<E("model_error", None, FALSE)>>
<1>1. host.stage = "model" /\ host' = host /\ log' = log \o es
  BY DEF ModelTellsError, Free, Grow
<1>2. MidOk(es, host.turn, host.calls)
  <2>1. \A ok \in BOOLEAN : MidOk(<<E("model_error", None, ok)>>, host.turn, host.calls)
    BY <1>1, MidEvent DEF InTurn, OfCall, None
  <2>2. QED
    BY <2>1
<1>3. /\ host \in HostState /\ host.stage \in Under /\ Open(log, host.turn, host.calls)
      /\ ~host.failed /\ \A c \in DoneCalls(host) : Done(log, host.turn, c)
  BY <1>1, HostFields DEF Under
<1> HIDE DEF es
<1>4. Grammar(log \o es) /\ HostInv(log \o es, host) /\ Prefix(log, log \o es)
  BY <1>1, <1>2, <1>3, MidStep
<1>5. Pending' = Pending
  BY <1>1 DEF Pending
<1>6. QED
  BY <1>1, <1>4, <1>5 DEF HostStep

LEMMA ModelAnswersStep ==
    ASSUME Grammar(log), HostInv(log, host), ModelAnswers PROVE HostStep
<1> DEFINE a == E("answer", None, TRUE)
           e == E("ended", None, TRUE)
<1>1. host.stage = "model" /\ host.stage # "idle" /\ EndTurn(<<a, e>>)
  BY DEF ModelAnswers, Free
<1>2. a \in Event /\ MidOk(<<a>>, host.turn, host.calls)
  <2>1. /\ "answer" \in InTurn \ {"calls"} /\ None \in Nat /\ "answer" \notin OfCall
        /\ "answer" \in InTurn
    BY DEF InTurn, OfCall, None
  <2>2. a \in Event /\ a.type = "answer" /\ a.turn = host.turn
    BY <1>1, <2>1, EventsOf
  <2> HIDE DEF a
  <2>3. QED
    BY <2>1, <2>2, MidOne
<1>3. e \in Event
  <2>1. "ended" \in Boundary \cup InTurn /\ None \in Nat
    BY DEF Boundary, None
  <2>2. \A ok \in BOOLEAN : E("ended", None, ok) \in Event
    BY <1>1, <2>1, EventOf
  <2>3. QED
    BY <2>2
<1>4. EndTurn(<<a>> \o <<e>>)
  <2> HIDE DEF a, e
  <2>1. <<a, e>> = <<a>> \o <<e>>
    BY <1>2, <1>3, Literals
  <2>2. QED
    BY <1>1, <2>1
<1> HIDE DEF a
<1>5. \A ok \in BOOLEAN : EndTurn(<<a>> \o <<E("ended", None, ok)>>) => HostStep
  BY <1>1, <1>2, ModelEnds
<1>6. QED
  BY <1>4, <1>5

LEMMA AbortCallStep ==
    ASSUME Grammar(log), HostInv(log, host), host.stage = "asking",
           NEW ok \in BOOLEAN,
           EndTurn(<<E("resolved", host.approval, TRUE)>> \o AbortCall(ok))
    PROVE  HostStep
<1> DEFINE r == E("resolved", host.approval, TRUE)
           f == E("finished", host.call, FALSE)
<1>1. r \in Event /\ r.type = "resolved" /\ r.turn = host.turn
  BY HostFields, EventsOf DEF InTurn
<1>2. f \in Event
  <2>1. "finished" \in Boundary \cup InTurn /\ host.call \in Nat
    BY HostFields DEF InTurn, OfCall
  <2>2. \A x \in BOOLEAN : E("finished", host.call, x) \in Event
    BY <2>1, EventOf
  <2>3. QED
    BY <2>2
<1>3. /\ MidOk(<<r, f>>, host.turn, host.calls) /\ Done(<<r, f>>, host.turn, host.call)
  <2> HIDE DEF r, f
  <2>1. \A x \in BOOLEAN :
          /\ MidOk(<<r, E("finished", host.call, x)>>, host.turn, host.calls)
          /\ Done(<<r, E("finished", host.call, x)>>, host.turn, host.call)
    BY <1>1, SettledCall
  <2>2. QED
    BY <2>1 DEF f
<1>4. Abort(ok) \in Seq(Event)
  <2>1. "ended" \in Boundary \cup InTurn /\ None \in Nat /\ host.stage # "idle"
    BY DEF Boundary, None
  <2>2. E("ended", None, ok) \in Event
    BY <2>1, EventOf
  <2>3. <<E("ended", None, ok)>> \in Seq(Event)
    BY <2>2
  <2>4. GivenUp \in Seq(Event)
    BY RestGivenUp DEF MidOk
  <2>5. QED
    BY <2>3, <2>4, ConcatProperties DEF Abort
<1>5. <<r>> \o AbortCall(ok) = <<r, f>> \o Abort(ok)
  <2>1. AbortCall(ok) = <<f>> \o Abort(ok)
    BY DEF AbortCall
  <2> HIDE DEF r, f
  <2>2. <<r, f>> = <<r>> \o <<f>>
    BY <1>1, <1>2, Literals
  <2>3. <<r>> \in Seq(Event) /\ <<f>> \in Seq(Event)
    BY <1>1, <1>2
  <2>4. QED
    BY <2>1, <2>2, <2>3, <1>4, ConcatAssociative
<1>6. EndTurn(<<r, f>> \o Abort(ok))
  BY <1>5
<1> HIDE DEF r, f
<1>7. QED
  BY <1>3, <1>6, AbortStep

LEMMA ApprovalEndsStep ==
    ASSUME Grammar(log), HostInv(log, host), ApprovalEnds PROVE HostStep
<1> DEFINE r == E("resolved", host.approval, TRUE)
           run == E("running", host.call, TRUE)
<1>1. host.stage = "asking" /\ host.stage # "idle" /\ host.stage # "model"
  BY DEF ApprovalEnds, Free
<1>2. /\ host \in HostState /\ host.calls \in Nat /\ host.call \in 1..host.calls
      /\ host.approval \in Nat /\ Open(log, host.turn, host.calls) /\ ~host.failed
      /\ \A d \in 1..(host.call - 1) : Done(log, host.turn, d)
  BY <1>1, HostFields DEF Under, DoneCalls
<1>3. r \in Event /\ r.type = "resolved" /\ r.turn = host.turn
  BY <1>1, <1>2, EventsOf DEF InTurn
<1>4. CASE host.decision = "approved"
  <2>1. log' = log \o <<r, run>> /\ host' = [host EXCEPT !.stage = "executing"]
    BY <1>4 DEF ApprovalEnds, Grow
  <2>2. run \in Event /\ run.type = "running" /\ run.turn = host.turn /\ run.arg = host.call
    <3>1. host.call \in Nat
      BY HostFields
    <3>2. QED
      BY <1>1, <3>1, EventsOf DEF InTurn, OfCall
  <2> HIDE DEF r, run
  <2>3. MidOk(<<r>>, host.turn, host.calls) /\ MidOk(<<run>>, host.turn, host.calls)
    <3>1. r.type \in InTurn \ {"calls"} /\ r.type \notin OfCall /\ run.type \in InTurn \ {"calls"}
      BY <1>3, <2>2 DEF InTurn, OfCall
    <3>2. MidOk(<<r>>, r.turn, host.calls)
      BY <1>3, <3>1, MidOne
    <3>3. MidOk(<<run>>, run.turn, host.calls)
      BY <1>2, <2>2, <3>1, MidOne
    <3>4. QED
      BY <1>3, <2>2, <3>2, <3>3
  <2>4. MidOk(<<r, run>>, host.turn, host.calls)
    <3>1. <<r, run>> = <<r>> \o <<run>>
      BY <1>3, <2>2, Literals
    <3>2. QED
      BY <3>1, <2>3, MidJoin
  <2>5. /\ host' \in HostState /\ host'.turn = host.turn /\ host'.calls = host.calls
        /\ ~host'.failed /\ host'.stage = "executing" /\ host'.stage \in Under
        /\ host'.call = host.call
    BY <1>2, <2>1 DEF HostState, Under
  <2>6. DoneCalls(host') = 1..(host.call - 1)
    BY <2>5 DEF DoneCalls
  <2>7. /\ Grammar(log \o <<r, run>>) /\ HostInv(log \o <<r, run>>, host')
        /\ Prefix(log, log \o <<r, run>>)
    BY <2>4, <2>5, <2>6, <1>2, MidStep
  <2>8. Pending' = None
    BY <2>5 DEF Pending
  <2>9. QED
    BY <2>1, <2>5, <2>7, <2>8 DEF HostStep
<1>5. CASE host.decision = "denied"
  <2>1. NextCall(<<r, E("finished", host.call, FALSE)>>)
    BY <1>5 DEF ApprovalEnds
  <2> HIDE DEF r
  <2>2. \A x \in BOOLEAN :
          /\ MidOk(<<r, E("finished", host.call, x)>>, host.turn, host.calls)
          /\ Done(<<r, E("finished", host.call, x)>>, host.turn, host.call)
    BY <1>1, <1>3, SettledCall
  <2>3. /\ MidOk(<<r, E("finished", host.call, FALSE)>>, host.turn, host.calls)
        /\ Done(<<r, E("finished", host.call, FALSE)>>, host.turn, host.call)
    BY <2>2
  <2>4. QED
    BY <1>1, <2>1, <2>3, NextCallStep
<1>6. CASE host.decision = "none"
  <2>1. EndTurn(<<r>> \o AbortCall(FALSE))
    BY <1>6 DEF ApprovalEnds
  <2>2. \A ok \in BOOLEAN : EndTurn(<<r>> \o AbortCall(ok)) => HostStep
    BY <1>1, AbortCallStep
  <2>3. QED
    BY <2>1, <2>2
<1>7. QED
  BY <1>2, <1>4, <1>5, <1>6 DEF HostState

LEMMA StopTakesStep ==
    ASSUME Grammar(log), HostInv(log, host), StopTakes PROVE HostStep
<1>1. CASE host.stage = "model" /\ EndTurn(<<E("ended", None, TRUE)>>)
  <2>1. \A ok \in BOOLEAN : EndTurn(<<E("ended", None, ok)>>) => HostStep
    BY <1>1, ModelEndsAlone
  <2>2. QED
    BY <1>1, <2>1
<1>2. CASE /\ host.stage = "asking"
           /\ EndTurn(<<E("resolved", host.approval, TRUE)>> \o AbortCall(TRUE))
  <2>1. \A ok \in BOOLEAN : EndTurn(<<E("resolved", host.approval, TRUE)>> \o AbortCall(ok))
                              => HostStep
    BY <1>2, AbortCallStep
  <2>2. QED
    BY <1>2, <2>1
<1>3. CASE host.stage = "executing" /\ EndTurn(AbortCall(TRUE))
  <2> DEFINE p == <<E("finished", host.call, FALSE)>>
  <2>1. MidOk(p, host.turn, host.calls) /\ Done(p, host.turn, host.call)
    <3>1. /\ "finished" \in InTurn \ {"calls"} /\ host.call \in Nat
          /\ host.call \in 1..host.calls /\ host.stage # "idle"
      BY <1>3, HostFields DEF InTurn, OfCall
    <3>2. \A ok \in BOOLEAN : /\ MidOk(<<E("finished", host.call, ok)>>, host.turn, host.calls)
                              /\ Done(<<E("finished", host.call, ok)>>, host.turn, host.call)
      BY <3>1, MidEvent, DoneOne
    <3>3. QED
      BY <3>2
  <2>2. EndTurn(p \o Abort(TRUE))
    BY <1>3 DEF AbortCall
  <2> HIDE DEF p
  <2>3. \A ok \in BOOLEAN : EndTurn(p \o Abort(ok)) => HostStep
    BY <1>3, <2>1, AbortStep
  <2>4. QED
    BY <2>2, <2>3
<1>4. CASE /\ host.stage = "executing"
           /\ EndTurn(<<E("changed", host.call, TRUE), E("finished", host.call, TRUE)>>
                      \o Abort(TRUE))
  <2> DEFINE e == E("changed", host.call, TRUE)
             p == <<e, E("finished", host.call, TRUE)>>
  <2>1. e \in Event /\ e.type = "changed" /\ e.turn = host.turn
    BY <1>4, HostFields, EventsOf DEF InTurn
  <2> HIDE DEF e
  <2>2. \A ok \in BOOLEAN :
          /\ MidOk(<<e, E("finished", host.call, ok)>>, host.turn, host.calls)
          /\ Done(<<e, E("finished", host.call, ok)>>, host.turn, host.call)
    BY <1>4, <2>1, SettledCall
  <2>3. MidOk(p, host.turn, host.calls) /\ Done(p, host.turn, host.call)
    BY <2>2
  <2>4. EndTurn(p \o Abort(TRUE))
    BY <1>4 DEF e
  <2> HIDE DEF p
  <2>5. \A ok \in BOOLEAN : EndTurn(p \o Abort(ok)) => HostStep
    BY <1>4, <2>3, AbortStep
  <2>6. QED
    BY <2>4, <2>5
<1>5. QED
  BY <1>1, <1>2, <1>3, <1>4 DEF StopTakes

LEMMA HostMoves ==
    ASSUME Grammar(log), HostInv(log, host),
           \/ Submit \/ StartTurn \/ RejectTurn \/ ModelCalls \/ ModelAnswers
           \/ ModelTellsError \/ ModelRaises \/ ToolEnds \/ ApprovalEnds \/ Stop \/ StopTakes
    PROVE  HostStep /\ UNCHANGED <<client, flight>>
<1>1. HostStep
  BY SubmitStep, StartTurnStep, RejectTurnStep, ModelCallsStep, ModelAnswersStep,
     ModelTellsErrorStep, ModelRaisesStep, ToolEndsStep, ApprovalEndsStep, StopStep, StopTakesStep
<1>2. UNCHANGED <<client, flight>>
  BY DEF Submit, StartTurn, RejectTurn, ModelCalls, ModelAnswers, ModelTellsError,
         ModelRaises, ToolEnds, ApprovalEnds, Stop, StopTakes
<1>3. QED
  BY <1>1, <1>2

-----------------------------------------------------------------------------
(* Histories: the events up to one of them.                                   *)
LEMMA Cut ==
    ASSUME NEW l, Grammar(l), NEW n \in 0..Len(l)
    PROVE  /\ Grammar(SubSeq(l, 1, n)) /\ Prefix(SubSeq(l, 1, n), l)
           /\ Len(SubSeq(l, 1, n)) = n /\ DOMAIN SubSeq(l, 1, n) = 1..n
<1> DEFINE h == SubSeq(l, 1, n)
<1>1. l \in Seq(Event) /\ Len(l) \in Nat /\ n \in Nat /\ n <= Len(l) /\ DOMAIN l = 1..Len(l)
  BY DEF Grammar
<1>2. h \in Seq(Event) /\ Len(h) = n /\ DOMAIN h = 1..n /\ \A i \in 1..n : h[i] = l[i]
  <2>1. /\ 1 \in 1..(Len(l) + 1) /\ n \in 0..Len(l)
    BY <1>1
  <2>2. h \in Seq(Event) /\ Len(h) = n /\ \A i \in 1..n : h[i] = l[i]
    BY <1>1, <2>1, SubSeqProperties
  <2> HIDE DEF h
  <2>3. DOMAIN h = 1..Len(h)
    BY <2>2
  <2>4. QED
    BY <2>2, <2>3
<1> HIDE DEF h
<1>3. Prefix(h, l)
  BY <1>1, <1>2 DEF Prefix
<1>4. \A i \in DOMAIN h : i \in DOMAIN l /\ h[i] = l[i]
  BY <1>3 DEF Prefix
<1>5. \A i, j \in DOMAIN l : i \in Nat /\ (i \in DOMAIN h <=> i <= n) /\ l[i].turn \in Nat
                             /\ (i < j \/ j < i \/ i = j)
  BY <1>1, <1>2, EventFields
<1>6. Follow(h)
  BY <1>4 DEF Grammar, Follow
<1>7. BeginTurns(h)
  <2> SUFFICES ASSUME NEW i \in DOMAIN h, h[i].type \notin {"started", "rejected"}
               PROVE  \E s \in DOMAIN h : Is(h, s, "started", h[i].turn)
    BY DEF BeginTurns
  <2>1. PICK s \in DOMAIN l : Is(l, s, "started", l[i].turn)
    BY <1>4 DEF Grammar, BeginTurns
  <2>2. ~(i < s)
    BY <2>1, <1>4, <1>5 DEF Grammar, Follow, Is
  <2>3. s \in DOMAIN h
    BY <2>2, <1>1, <1>4, <1>5
  <2>4. QED
    BY <2>1, <2>3, <1>4 DEF Is
<1>8. EndTurns(h)
  <2> SUFFICES ASSUME NEW i \in DOMAIN h, NEW j \in DOMAIN h, h[i].type = "started",
                      h[i].turn < h[j].turn
               PROVE  \E m \in DOMAIN h : Is(h, m, "ended", h[i].turn)
    BY DEF EndTurns
  <2>1. PICK m \in DOMAIN l : Is(l, m, "ended", l[i].turn)
    BY <1>4 DEF Grammar, EndTurns
  <2>2. ~(j < m)
    BY <2>1, <1>4, <1>5 DEF Grammar, Follow, Is
  <2>3. m \in DOMAIN h
    BY <2>2, <1>1, <1>4, <1>5
  <2>4. QED
    BY <2>1, <2>3, <1>4 DEF Is
<1>9. HaveCalls(h)
  <2> SUFFICES ASSUME NEW i \in DOMAIN h, h[i].type \in OfCall
               PROVE  \E j \in DOMAIN h : j < i /\ Is(h, j, "calls", h[i].turn)
                                          /\ h[i].arg \in 1..h[j].arg
    BY DEF HaveCalls
  <2>1. PICK j \in DOMAIN l : j < i /\ Is(l, j, "calls", l[i].turn) /\ l[i].arg \in 1..l[j].arg
    BY <1>4 DEF Grammar, HaveCalls
  <2>2. j \in DOMAIN h
    BY <2>1, <1>1, <1>4, <1>5
  <2>3. QED
    BY <2>1, <2>2, <1>4 DEF Is
<1>10. SettleCalls(h)
  <2> SUFFICES ASSUME NEW i \in DOMAIN h, NEW j \in DOMAIN h, Is(h, i, "ended", h[j].turn),
                      h[j].type = "calls", NEW c \in 1..h[j].arg
               PROVE  Done(h, h[j].turn, c)
    BY DEF SettleCalls
  <2>1. Done(l, l[j].turn, c)
    BY <1>4 DEF Grammar, SettleCalls, Is
  <2>2. PICK x \in DOMAIN l : Is(l, x, "finished", l[j].turn) /\ l[x].arg = c
    BY <2>1 DEF Done
  <2>3. ~(i < x)
    BY <2>2, <1>4, <1>5 DEF Grammar, Follow, Is
  <2>4. x \in DOMAIN h
    BY <2>3, <1>1, <1>4, <1>5
  <2>5. QED
    BY <2>2, <2>4, <1>4 DEF Is, Done
<1>11. QED
  BY <1>2, <1>3, <1>6, <1>7, <1>8, <1>9, <1>10 DEF h, Grammar

(* The newest of some positions. *)
LEMMA NewestIs ==
    ASSUME NEW S \in SUBSET Nat, NEW m \in S \cup {None}, \A j \in S : j <= m
    PROVE  Newest(S) = m
<1>1. m \in Nat
  BY DEF None
<1>2. \A i \in S \cup {None} : (\A j \in S : j <= i) => i = m
  <2> TAKE i \in S \cup {None}
  <2> HAVE \A j \in S : j <= i
  <2>1. i \in Nat
    BY DEF None
  <2>2. i <= m /\ m <= i
    BY <1>1, <2>1 DEF None
  <2>3. QED
    BY <2>1, <2>2, <1>1
<1>3. Newest(S) = CHOOSE i \in S \cup {None} : \A j \in S : j <= i
  BY DEF Newest
<1>4. QED
  BY <1>2, <1>3

LEMMA Least ==
    ASSUME NEW T \in SUBSET Nat, T # {}
    PROVE  \E x \in T : \A y \in T : x <= y
<1>1. PICK x \in T : \A y \in T : ~ (<<y, x>> \in OpToRel(<, Nat))
  BY WFMin, NatLessThanWellFounded
<1>2. \A y \in T : ~(y < x)
  BY <1>1 DEF OpToRel
<1>3. QED
  BY <1>2

LEMMA NewestOf ==
    ASSUME NEW n \in Nat, NEW S \in SUBSET (1..n)
    PROVE  /\ Newest(S) \in S \cup {None} /\ Newest(S) \in 0..n
           /\ \A j \in S : j <= Newest(S)
<1> DEFINE U == {u \in Nat : \A j \in S : j <= u}
<1>1. n \in U /\ U \subseteq Nat
  OBVIOUS
<1>2. PICK u \in U : \A x \in U : u <= x
  <2> HIDE DEF U
  <2>1. QED
    BY <1>1, Least
<1>3. \A x \in U : u <= x
  BY <1>2
<1>4. u \in Nat /\ \A j \in S : j <= u
  OBVIOUS
<1>5. u \in S \cup {None}
  <2> SUFFICES ASSUME u \notin S, u # 0 PROVE FALSE
    BY DEF None
  <2>1. u - 1 \in U
    BY <1>4
  <2>2. QED
    BY <2>1, <1>3, <1>4
<1>6. Newest(S) = u
  <2> HIDE DEF U
  <2>1. S \in SUBSET Nat
    OBVIOUS
  <2>2. QED
    BY <2>1, <1>4, <1>5, NewestIs
<1>7. u \in 0..n
  BY <1>1, <1>3, <1>4
<1>8. QED
  BY <1>4, <1>5, <1>6, <1>7

LEMMA Positions ==
    ASSUME NEW h, Grammar(h)
    PROVE  /\ TurnStart(h) \in 0..Len(h) /\ LastEnd(h) \in 0..Len(h) /\ Len(h) \in Nat
           /\ TurnStart(h) # None => TurnStart(h) \in DOMAIN h /\ h[TurnStart(h)].type = "started"
           /\ LastEnd(h) # None => LastEnd(h) \in DOMAIN h /\ h[LastEnd(h)].type = "ended"
           /\ \A i \in DOMAIN h : /\ h[i].type = "started" => i <= TurnStart(h)
                                  /\ h[i].type = "ended" => i <= LastEnd(h)
<1>1. h \in Seq(Event) /\ Len(h) \in Nat /\ DOMAIN h = 1..Len(h)
  BY DEF Grammar
<1>2. At(h, {"started"}) \in SUBSET (1..Len(h)) /\ At(h, {"ended"}) \in SUBSET (1..Len(h))
  BY <1>1 DEF At
<1>3. /\ TurnStart(h) \in At(h, {"started"}) \cup {None} /\ TurnStart(h) \in 0..Len(h)
      /\ \A j \in At(h, {"started"}) : j <= TurnStart(h)
  BY <1>1, <1>2, NewestOf DEF TurnStart
<1>4. /\ LastEnd(h) \in At(h, {"ended"}) \cup {None} /\ LastEnd(h) \in 0..Len(h)
      /\ \A j \in At(h, {"ended"}) : j <= LastEnd(h)
  BY <1>1, <1>2, NewestOf DEF LastEnd
<1>5. QED
  BY <1>1, <1>3, <1>4 DEF At

(* The Turn under way is the one that has started and has not ended. *)
Running(h, t) == /\ \E s \in DOMAIN h : Is(h, s, "started", t)
                 /\ \A m \in DOMAIN h : ~Is(h, m, "ended", t)

LEMMA ActiveRuns ==
    ASSUME NEW h, Grammar(h)
    PROVE  /\ ActiveTurn(h) \in Nat
           /\ \A t : Running(h, t) => /\ ActiveTurn(h) = t /\ t \in Nat \ {0}
                                      /\ Is(h, TurnStart(h), "started", t)
                                      /\ \A i \in DOMAIN h : h[i].turn <= t
                                      /\ \A i \in DOMAIN h :
                                            h[i].turn = t <=> i >= TurnStart(h)
           /\ ActiveTurn(h) # None => Running(h, ActiveTurn(h))
<1>1. /\ h \in Seq(Event) /\ DOMAIN h = 1..Len(h) /\ Len(h) \in Nat
      /\ TurnStart(h) \in 0..Len(h) /\ LastEnd(h) \in 0..Len(h)
      /\ TurnStart(h) # None => TurnStart(h) \in DOMAIN h /\ h[TurnStart(h)].type = "started"
      /\ LastEnd(h) # None => LastEnd(h) \in DOMAIN h /\ h[LastEnd(h)].type = "ended"
      /\ \A i \in DOMAIN h : /\ h[i].type = "started" => i <= TurnStart(h)
                             /\ h[i].type = "ended" => i <= LastEnd(h)
  BY Positions DEF Grammar
<1>2. \A i \in DOMAIN h : i \in Nat \ {0} /\ h[i].turn \in Nat \ {0}
  BY <1>1, EventFields
<1>3. Follow(h) /\ EndTurns(h)
  BY DEF Grammar
<1> DEFINE s == TurnStart(h)
           m == LastEnd(h)
<1>4. ASSUME NEW t, Running(h, t)
      PROVE  /\ ActiveTurn(h) = t /\ t \in Nat \ {0} /\ Is(h, TurnStart(h), "started", t)
             /\ \A i \in DOMAIN h : h[i].turn <= t
             /\ \A i \in DOMAIN h : h[i].turn = t <=> i >= TurnStart(h)
  <2>1. PICK x \in DOMAIN h : Is(h, x, "started", t)
    BY <1>4 DEF Running
  <2>2. t \in Nat \ {0} /\ h[x].turn = t
    BY <2>1, <1>2 DEF Is
  <2>3. \A i \in DOMAIN h : ~(t < h[i].turn)
    BY <2>1, <2>2, <1>3, <1>4 DEF EndTurns, Is, Running
  <2>4. \A i \in DOMAIN h : h[i].turn <= t
    BY <2>2, <2>3, <1>2
  <2>5. s \in DOMAIN h /\ h[s].type = "started" /\ x <= s
    BY <2>1, <1>1, <1>2 DEF Is, None
  <2>6. s = x
    BY <2>1, <2>2, <2>3, <2>5, <1>2, <1>3 DEF Is, Follow
  <2>7. ~(m > s)
    <3> SUFFICES ASSUME m > s PROVE FALSE
      OBVIOUS
    <3>1. m \in DOMAIN h /\ h[m].type = "ended" /\ s < m
      BY <2>5, <1>1, <1>2 DEF None
    <3>2. h[m].turn = t
      BY <3>1, <2>2, <2>4, <2>5, <2>6, <1>2, <1>3 DEF Follow
    <3>3. QED
      BY <3>1, <3>2, <1>4 DEF Running, Is
  <2>8. m # s
    BY <2>5, <1>1, <1>2 DEF None
  <2>9. s > m
    BY <2>7, <2>8, <1>1
  <2>10. \A i \in DOMAIN h : h[i].turn = t <=> i >= s
    BY <2>1, <2>2, <2>4, <2>5, <2>6, <1>2, <1>3 DEF Is, Follow
  <2>11. QED
    BY <2>1, <2>2, <2>4, <2>6, <2>9, <2>10 DEF ActiveTurn
<1>5. ASSUME ActiveTurn(h) # None
      PROVE  Running(h, ActiveTurn(h))
  <2>1. s > m /\ ActiveTurn(h) = h[s].turn
    BY <1>5 DEF ActiveTurn
  <2>2. s \in DOMAIN h /\ h[s].type = "started"
    BY <2>1, <1>1 DEF None
  <2>3. \A i \in DOMAIN h : ~Is(h, i, "ended", h[s].turn)
    <3> SUFFICES ASSUME NEW i \in DOMAIN h, Is(h, i, "ended", h[s].turn) PROVE FALSE
      OBVIOUS
    <3>1. i <= m /\ i < s
      BY <2>1, <1>1, <1>2 DEF Is
    <3>2. QED
      BY <3>1, <2>2, <1>2, <1>3 DEF Is, Follow
  <2>4. QED
    BY <2>1, <2>2, <2>3 DEF Running, Is
<1>6. ActiveTurn(h) \in Nat
  BY <1>1, <1>2 DEF ActiveTurn, None
<1>7. QED
  BY <1>4, <1>5, <1>6

(* One more event. *)
After(h, g) == Grammar(h) /\ Grammar(g) /\ Len(g) = Len(h) + 1 /\ Prefix(h, g)

LEMMA SeenNext ==
    ASSUME NEW l, Grammar(l), NEW n \in 0..Len(l), n < Len(l)
    PROVE  /\ After(SubSeq(l, 1, n), SubSeq(l, 1, n + 1)) /\ n + 1 \in DOMAIN l
           /\ Len(SubSeq(l, 1, n + 1)) = n + 1 /\ SubSeq(l, 1, n + 1)[n + 1] = l[n + 1]
<1>1. n + 1 \in 0..Len(l) /\ n + 1 \in 1..Len(l) /\ n + 1 \in 1..(n + 1) /\ l \in Seq(Event)
  BY DEF Grammar
<1> DEFINE h == SubSeq(l, 1, n)
           g == SubSeq(l, 1, n + 1)
<1>2. Grammar(h) /\ Prefix(h, l) /\ Len(h) = n /\ DOMAIN h = 1..n
  BY Cut
<1>3. Grammar(g) /\ Prefix(g, l) /\ Len(g) = n + 1 /\ DOMAIN g = 1..(n + 1)
  BY <1>1, Cut
<1> HIDE DEF h, g
<1>4. \A i \in 1..n : i \in 1..(n + 1)
  BY <1>1
<1>5. Prefix(h, g)
  BY <1>2, <1>3, <1>4 DEF Prefix
<1>6. g[n + 1] = l[n + 1]
  BY <1>1, <1>3 DEF Prefix
<1>7. QED
  BY <1>1, <1>2, <1>3, <1>5, <1>6 DEF After, h, g

LEMMA AfterFields ==
    ASSUME NEW h, NEW g, After(h, g)
    PROVE  /\ Len(h) \in Nat /\ Len(g) \in Nat \ {0} /\ Len(g) \in DOMAIN g
           /\ \A i \in DOMAIN h : i \in Nat /\ i < Len(g) /\ i \in DOMAIN g /\ g[i] = h[i]
           /\ \A i \in DOMAIN g : i = Len(g) \/ i \in DOMAIN h
           /\ g[Len(g)] \in Event /\ Len(g) \notin DOMAIN h
           /\ g[Len(g)].type \in Boundary \cup InTurn /\ g[Len(g)].turn \in Nat \ {0}
           /\ g[Len(g)].arg \in Nat /\ g[Len(g)].ok \in BOOLEAN
<1>1. /\ h \in Seq(Event) /\ g \in Seq(Event) /\ Len(g) = Len(h) + 1
      /\ DOMAIN h = 1..Len(h) /\ DOMAIN g = 1..Len(g) /\ Len(h) \in Nat
  BY DEF After, Grammar
<1>2. Len(g) \in DOMAIN g
  BY <1>1
<1>3. QED
  BY <1>1, <1>2, EventFields DEF After, Prefix

LEMMA AfterRuns ==
    ASSUME NEW h, NEW g, After(h, g), NEW e, e = g[Len(g)]
    PROVE  /\ e.type = "started" => Running(g, e.turn)
           /\ e.type \in InTurn => Running(h, e.turn) /\ Running(g, e.turn)
           /\ e.type = "ended" => Running(h, e.turn) /\ ActiveTurn(g) = None
           /\ e.type = "rejected" => ActiveTurn(h) = None /\ ActiveTurn(g) = None
<1> DEFINE n == Len(g)
<1>1. /\ n \in Nat \ {0} /\ n \in DOMAIN g
      /\ \A i \in DOMAIN h : i \in Nat /\ i < n /\ i \in DOMAIN g /\ g[i] = h[i]
      /\ \A i \in DOMAIN g : i = n \/ i \in DOMAIN h
  BY AfterFields
<1>2. \A i \in DOMAIN g : g[i].turn \in Nat \ {0}
  BY EventFields DEF After, Grammar
<1>3. Grammar(h) /\ Grammar(g) /\ Follow(g) /\ BeginTurns(g) /\ EndTurns(g)
  BY DEF After, Grammar
<1> HIDE DEF n
<1>4. e = g[n]
  BY DEF n
<1>5. CASE e.type = "started"
  <2>1. Is(g, n, "started", e.turn)
    BY <1>1, <1>5, <1>4 DEF Is
  <2>2. \A m \in DOMAIN g : ~Is(g, m, "ended", e.turn)
    <3> SUFFICES ASSUME NEW m \in DOMAIN g, Is(g, m, "ended", e.turn) PROVE FALSE
      OBVIOUS
    <3>1. m # n
      BY <1>5, <1>4 DEF Is
    <3>2. m < n
      BY <3>1, <1>1
    <3>3. g[m].turn < g[n].turn
      BY <3>2, <1>1, <1>3, <1>5, <1>4 DEF Follow
    <3>4. QED
      BY <3>3, <1>1, <1>2, <1>4 DEF Is
  <2>3. QED
    BY <2>1, <2>2, <1>1, <1>5 DEF Running, InTurn, OfCall
<1>6. ASSUME e.type \notin {"started", "rejected"} PROVE Running(h, e.turn)
  <2>1. PICK s \in DOMAIN g : Is(g, s, "started", e.turn)
    <3>1. g[n].type \notin {"started", "rejected"} /\ n \in DOMAIN g
      BY <1>6, <1>1, <1>4
    <3>2. \E s \in DOMAIN g : Is(g, s, "started", g[n].turn)
      BY <3>1, <1>3 DEF BeginTurns
    <3>3. QED
      BY <3>2, <1>4
  <2>2. s \in DOMAIN h
    BY <2>1, <1>1, <1>6, <1>4 DEF Is
  <2>3. \A m \in DOMAIN h : ~Is(h, m, "ended", e.turn)
    <3> SUFFICES ASSUME NEW m \in DOMAIN h, Is(h, m, "ended", e.turn) PROVE FALSE
      OBVIOUS
    <3>1. m < n /\ m \in DOMAIN g /\ g[m] = h[m]
      BY <1>1
    <3>2. g[m].turn < g[n].turn
      BY <3>1, <1>1, <1>3 DEF Follow, Is
    <3>3. QED
      BY <3>1, <3>2, <1>1, <1>2, <1>4 DEF Is
  <2>4. QED
    BY <2>1, <2>2, <2>3, <1>1 DEF Running, Is
<1>7. CASE e.type \in InTurn
  <2>1. Running(h, e.turn)
    BY <1>6, <1>7 DEF InTurn, OfCall
  <2>2. \E s \in DOMAIN g : Is(g, s, "started", e.turn)
    BY <2>1, <1>1 DEF Running, Is
  <2>3. \A m \in DOMAIN g : ~Is(g, m, "ended", e.turn)
    <3> TAKE m \in DOMAIN g
    <3>1. CASE m = n
      BY <3>1, <1>7, <1>4 DEF Is, InTurn, OfCall
    <3>2. CASE m \in DOMAIN h
      BY <3>2, <2>1, <1>1 DEF Running, Is
    <3>3. QED
      BY <3>1, <3>2, <1>1
  <2>4. QED
    BY <2>1, <2>2, <2>3, <1>7 DEF Running, InTurn, OfCall
<1>8. CASE e.type = "ended"
  <2>1. Running(h, e.turn)
    BY <1>6, <1>8
  <2>2. SUFFICES ASSUME ActiveTurn(g) # None PROVE FALSE
    BY <2>1, <1>8 DEF InTurn, OfCall
  <2> DEFINE t == ActiveTurn(g)
  <2>3. Running(g, t)
    BY <2>2, <1>3, ActiveRuns
  <2> HIDE DEF t
  <2>4. t # e.turn
    BY <2>3, <1>1, <1>8, <1>4 DEF Running, Is
  <2>5. PICK s \in DOMAIN g : Is(g, s, "started", t)
    BY <2>3 DEF Running
  <2>6. s \in DOMAIN h
    BY <2>5, <1>1, <1>8, <1>4 DEF Is
  <2>7. Running(h, t)
    BY <2>3, <2>5, <2>6, <1>1 DEF Running, Is
  <2>8. ActiveTurn(h) = t /\ ActiveTurn(h) = e.turn
    BY <2>1, <2>7, <1>3, ActiveRuns
  <2>9. QED
    BY <2>4, <2>8
<1>9. CASE e.type = "rejected"
  <2>1. ASSUME NEW t, NEW s \in DOMAIN h, Is(h, s, "started", t)
        PROVE  \E m \in DOMAIN h : Is(h, m, "ended", t)
    <3>1. s < n /\ s \in DOMAIN g /\ g[s] = h[s]
      BY <1>1
    <3>2. g[s].turn < g[n].turn /\ g[s].turn = t /\ g[s].type = "started"
      BY <3>1, <2>1, <1>1, <1>3, <1>9, <1>4 DEF Follow, Is
    <3>3. PICK m \in DOMAIN g : Is(g, m, "ended", t)
      BY <3>1, <3>2, <1>1, <1>3 DEF EndTurns
    <3>4. m \in DOMAIN h
      BY <3>3, <1>1, <1>9, <1>4 DEF Is
    <3>5. QED
      BY <3>3, <3>4, <1>1 DEF Is
  <2>2. ActiveTurn(h) = None
    BY <2>1, <1>3, ActiveRuns DEF Running
  <2>3. ActiveTurn(g) = None
    <3> SUFFICES ASSUME ActiveTurn(g) # None PROVE FALSE
      OBVIOUS
    <3> DEFINE t == ActiveTurn(g)
    <3>1. Running(g, t)
      BY <1>3, ActiveRuns
    <3> HIDE DEF t
    <3>2. PICK s \in DOMAIN g : Is(g, s, "started", t)
      BY <3>1 DEF Running
    <3>3. s \in DOMAIN h /\ Is(h, s, "started", t)
      BY <3>2, <1>1, <1>9, <1>4 DEF Is
    <3>4. PICK m \in DOMAIN h : Is(h, m, "ended", t)
      BY <3>3, <2>1
    <3>5. QED
      BY <3>1, <3>4, <1>1 DEF Running, Is
  <2>4. QED
    BY <2>2, <2>3, <1>9 DEF InTurn, OfCall
<1>10. e.type \in {"started", "ended", "rejected"} \cup InTurn
  BY <1>4, AfterFields DEF Boundary, n
<1>11. QED
  BY <1>5, <1>7, <1>8, <1>9, <1>10 DEF InTurn, OfCall

LEMMA AfterMarks ==
    ASSUME NEW h, NEW g, After(h, g), NEW e, e = g[Len(g)]
    PROVE  /\ TurnStart(g) = IF e.type = "started" THEN Len(g) ELSE TurnStart(h)
           /\ LastEnd(g) = IF e.type = "ended" THEN Len(g) ELSE LastEnd(h)
<1> DEFINE n == Len(g)
<1>1. /\ n \in Nat \ {0} /\ n \in DOMAIN g
      /\ \A i \in DOMAIN h : i \in Nat /\ i < n /\ i \in DOMAIN g /\ g[i] = h[i]
      /\ \A i \in DOMAIN g : i = n \/ i \in DOMAIN h
  BY AfterFields
<1>2. Grammar(h) /\ Grammar(g)
  BY DEF After
<1> HIDE DEF n
<1>3. e = g[n]
  BY DEF n
<1>4. ASSUME NEW type
      PROVE  Newest(At(g, {type})) = IF e.type = type THEN n ELSE Newest(At(h, {type}))
  <2>1. At(g, {type}) = IF e.type = type THEN At(h, {type}) \cup {n} ELSE At(h, {type})
    BY <1>1, <1>3 DEF At
  <2>2. CASE e.type = type
    <3>1. At(g, {type}) \in SUBSET Nat /\ n \in At(g, {type}) /\ \A j \in At(g, {type}) : j <= n
      BY <2>1, <2>2, <1>1 DEF At
    <3>2. QED
      BY <2>2, <3>1, NewestIs
  <2>3. QED
    BY <2>1, <2>2
<1>5. QED
  BY <1>4 DEF TurnStart, LastEnd, n

-----------------------------------------------------------------------------
(* The rows of the latest Turn. *)
LEMMA InCalled ==
    ASSUME NEW h, NEW c
    PROVE  c \in Called(h) <=>
             \E j \in DOMAIN h : h[j].type = "calls" /\ j > TurnStart(h) /\ c \in 1..h[j].arg
BY Zenon DEF Called, At

LEMMA InFinished ==
    ASSUME NEW h, NEW c, NEW i
    PROVE  i \in Finished(h, c) <=>
             i \in DOMAIN h /\ h[i].type = "finished" /\ i > TurnStart(h) /\ h[i].arg = c
BY Zenon DEF Finished, At

LEMMA CallOf ==
    ASSUME NEW h, Grammar(h), NEW i \in DOMAIN h, h[i].type \in OfCall, i > TurnStart(h)
    PROVE  h[i].arg \in Called(h)
<1> DEFINE s == TurnStart(h)
<1>1. PICK j \in DOMAIN h : j < i /\ Is(h, j, "calls", h[i].turn) /\ h[i].arg \in 1..h[j].arg
  BY DEF Grammar, HaveCalls
<1>2. /\ \A x \in DOMAIN h : x \in Nat \ {0} /\ h[x].turn \in Nat
      /\ s \in Nat /\ (s # 0 => s \in DOMAIN h /\ h[s].type = "started")
  BY Positions, EventFields DEF Grammar, None
<1> HIDE DEF s
<1>3. ~(j < s)
  <2> SUFFICES ASSUME j < s PROVE FALSE
    OBVIOUS
  <2>1. s \in DOMAIN h /\ h[s].type = "started" /\ s < i
    BY <1>2 DEF s
  <2>2. h[j].turn < h[s].turn /\ h[s].turn <= h[i].turn
    BY <2>1 DEF Grammar, Follow
  <2>3. QED
    BY <2>1, <2>2, <1>1, <1>2 DEF Is
<1>4. j # s
  BY <1>1, <1>2 DEF Is
<1>5. j > s
  BY <1>2, <1>3, <1>4
<1>6. QED
  BY <1>1, <1>5, InCalled DEF Is, s

LEMMA Fresh ==
    ASSUME NEW h, Grammar(h), NEW c, c \notin Called(h)
    PROVE  Finished(h, c) = {}
<1>1. ASSUME NEW i \in Finished(h, c) PROVE FALSE
  <2>1. i \in DOMAIN h /\ h[i].type = "finished" /\ i > TurnStart(h) /\ h[i].arg = c
    BY <1>1, InFinished
  <2>2. QED
    BY <2>1, CallOf DEF OfCall
<1>2. QED
  BY <1>1

LEMMA RowIs ==
    ASSUME NEW h, NEW c \in Called(h)
    PROVE  /\ DOMAIN Rows(h) = Called(h)
           /\ Rows(h)[c] = IF Finished(h, c) = {} THEN "requested"
                           ELSE IF h[Newest(Finished(h, c))].ok THEN "success" ELSE "error"
BY DEF Rows

LEMMA RowDomain == ASSUME NEW h PROVE DOMAIN Rows(h) = Called(h)
BY DEF Rows

LEMMA RowValue ==
    ASSUME NEW h, NEW c \in Called(h)
    PROVE  Rows(h)[c] \in {"requested", "success", "error"}
<1>1. CASE Finished(h, c) = {}
  BY <1>1, RowIs
<1>2. CASE Finished(h, c) # {}
  <2>1. Rows(h)[c] = IF h[Newest(Finished(h, c))].ok THEN "success" ELSE "error"
    BY <1>2, RowIs
  <2>2. QED
    BY <2>1
<1>3. QED
  BY <1>1, <1>2

LEMMA CalledAfter ==
    ASSUME NEW h, NEW g, After(h, g), NEW e, e = g[Len(g)]
    PROVE  /\ e.type = "started" => Called(g) = {}
           /\ e.type = "calls" => Called(g) = Called(h) \cup (1..e.arg)
           /\ e.type \notin {"started", "calls"} => Called(g) = Called(h)
           /\ Called(h) \subseteq Nat
<1> DEFINE n == Len(g)
<1>1. /\ n \in Nat \ {0} /\ n \in DOMAIN g
      /\ \A i \in DOMAIN h : i \in Nat /\ i < n /\ i \in DOMAIN g /\ g[i] = h[i]
      /\ \A i \in DOMAIN g : i = n \/ i \in DOMAIN h
      /\ Len(h) \in Nat /\ n = Len(h) + 1
  BY AfterFields DEF After
<1>2. TurnStart(g) = (IF e.type = "started" THEN n ELSE TurnStart(h)) /\ TurnStart(h) < n
      /\ TurnStart(h) \in Nat
  <2>1. TurnStart(h) \in 0..Len(h)
    BY Positions DEF After
  <2>2. QED
    BY <2>1, <1>1, AfterMarks
<1> HIDE DEF n
<1>3. e = g[n]
  BY DEF n
<1>4. ASSUME NEW c, c \in Called(g)
      PROVE  \/ e.type = "calls" /\ c \in 1..e.arg
             \/ e.type # "started" /\ c \in Called(h)
  <2>1. PICK j \in DOMAIN g : g[j].type = "calls" /\ j > TurnStart(g) /\ c \in 1..g[j].arg
    BY <1>4, InCalled
  <2>2. CASE j = n
    BY <2>1, <2>2, <1>3
  <2>3. CASE j \in DOMAIN h
    <3>1. e.type # "started"
      BY <2>1, <2>3, <1>1, <1>2
    <3>2. h[j].type = "calls" /\ j > TurnStart(h) /\ c \in 1..h[j].arg
      BY <3>1, <2>1, <2>3, <1>1, <1>2
    <3>3. QED
      BY <3>1, <3>2, <2>3, InCalled
  <2>4. QED
    BY <2>1, <2>2, <2>3, <1>1
<1>5. ASSUME NEW c, e.type = "calls", c \in 1..e.arg
      PROVE  c \in Called(g)
  <2>1. g[n].type = "calls" /\ n > TurnStart(g) /\ c \in 1..g[n].arg
    BY <1>1, <1>2, <1>5, <1>3
  <2>2. QED
    BY <2>1, <1>1, InCalled
<1>6. ASSUME NEW c, e.type # "started", c \in Called(h)
      PROVE  c \in Called(g)
  <2>1. PICK j \in DOMAIN h : h[j].type = "calls" /\ j > TurnStart(h) /\ c \in 1..h[j].arg
    BY <1>6, InCalled
  <2>2. j \in DOMAIN g /\ g[j].type = "calls" /\ j > TurnStart(g) /\ c \in 1..g[j].arg
    BY <2>1, <1>1, <1>2, <1>6
  <2>3. QED
    BY <2>2, InCalled
<1>7. Called(h) \subseteq Nat
  <2> SUFFICES ASSUME NEW c \in Called(h) PROVE c \in Nat
    OBVIOUS
  <2>1. PICK j \in DOMAIN h : c \in 1..h[j].arg
    BY InCalled
  <2>2. QED
    BY <2>1
<1>8. QED
  BY <1>4, <1>5, <1>6, <1>7

LEMMA RowsAfter ==
    ASSUME NEW h, NEW g, After(h, g), NEW e, e = g[Len(g)], e.type # "started",
           NEW c \in Called(g)
    PROVE  /\ c \in Called(h) =>
                Rows(g)[c] = IF e.type = "finished" /\ e.arg = c
                               THEN IF e.ok THEN "success" ELSE "error" ELSE Rows(h)[c]
           /\ c \notin Called(h) => Rows(g)[c] = "requested"
<1> DEFINE n == Len(g)
<1>1. /\ n \in Nat \ {0} /\ n \in DOMAIN g
      /\ \A i \in DOMAIN h : i \in Nat \ {0} /\ i < n /\ i \in DOMAIN g /\ g[i] = h[i]
      /\ \A i \in DOMAIN g : i = n \/ i \in DOMAIN h
      /\ Len(h) \in Nat /\ n = Len(h) + 1 /\ DOMAIN h = 1..Len(h) /\ n \notin DOMAIN h
  BY AfterFields DEF After, Grammar
<1>2. TurnStart(g) = TurnStart(h) /\ TurnStart(h) < n
  <2>1. TurnStart(h) \in 0..Len(h)
    BY Positions DEF After
  <2>2. QED
    BY <2>1, <1>1, AfterMarks
<1> HIDE DEF n
<1>3. e = g[n]
  BY DEF n
<1>4. \A i : i \in Finished(g, c) <=>
             \/ i \in Finished(h, c)
             \/ i = n /\ e.type = "finished" /\ e.arg = c
  BY <1>1, <1>2, <1>3, InFinished
<1>5. CASE e.type = "finished" /\ e.arg = c
  <2>1. \A i \in Finished(g, c) : i \in Nat /\ i <= n
    BY <1>1, InFinished
  <2>2. n \in Finished(g, c)
    BY <1>4, <1>5
  <2>3. Newest(Finished(g, c)) = n
    <3>1. Finished(g, c) \in SUBSET Nat
      BY <2>1
    <3>2. QED
      BY <3>1, <2>1, <2>2, NewestIs
  <2>4. Rows(g)[c] = IF g[n].ok THEN "success" ELSE "error"
    BY <2>2, <2>3, RowIs
  <2>5. c \in Called(h)
    <3>1. g[n].type \in OfCall
      BY <1>5, <1>3 DEF OfCall
    <3>2. g[n].arg \in Called(g)
      BY <3>1, <1>1, <1>2, CallOf DEF After
    <3>3. QED
      BY <3>2, <1>5, <1>3, CalledAfter
  <2>6. QED
    BY <2>4, <2>5, <1>5, <1>3
<1>6. CASE ~(e.type = "finished" /\ e.arg = c)
  <2>1. Finished(g, c) = Finished(h, c)
    BY <1>4, <1>6
  <2>2. ASSUME c \in Called(h) PROVE Rows(g)[c] = Rows(h)[c]
    <3>1. CASE Finished(h, c) = {}
      BY <3>1, <2>1, <2>2, RowIs
    <3>2. CASE Finished(h, c) # {}
      <4>1. Finished(h, c) \in SUBSET (1..Len(h))
        BY <1>1, InFinished
      <4>2. Newest(Finished(h, c)) \in Finished(h, c)
        <5>1. /\ Newest(Finished(h, c)) \in Finished(h, c) \cup {None}
              /\ \A j \in Finished(h, c) : j <= Newest(Finished(h, c))
          BY <4>1, <1>1, NewestOf
        <5>2. \A j \in Finished(h, c) : j \in Nat \ {0}
          BY <4>1, <1>1
        <5>3. QED
          BY <5>1, <5>2, <3>2 DEF None
      <4>3. g[Newest(Finished(h, c))] = h[Newest(Finished(h, c))]
        BY <4>1, <4>2, <1>1
      <4>4. QED
        BY <4>3, <2>1, <2>2, <3>2, RowIs
    <3>3. QED
      BY <3>1, <3>2
  <2>3. ASSUME c \notin Called(h) PROVE Rows(g)[c] = "requested"
    <3>1. Finished(h, c) = {}
      BY <2>3, Fresh DEF After
    <3>2. QED
      BY <3>1, <2>1, RowIs
  <2>4. QED
    BY <2>2, <2>3, <1>6
<1>7. QED
  BY <1>5, <1>6

(* At the end of a Turn all its calls are settled. *)
LEMMA RowsSettled ==
    ASSUME NEW l, Grammar(l), NEW t, Closed(l, t)
    PROVE  ActiveTurn(l) = None /\ \A c \in Called(l) : Rows(l)[c] # "requested"
<1> DEFINE s == TurnStart(l)
<1>1. /\ \A x \in DOMAIN l : x \in Nat \ {0} /\ l[x].turn \in Nat
      /\ s \in Nat /\ (s # 0 => s \in DOMAIN l /\ l[s].type = "started")
      /\ \A i \in DOMAIN l : l[i].type = "started" => i <= s
  BY Positions, EventFields DEF Grammar, None
<1>2. Follow(l) /\ BeginTurns(l) /\ SettleCalls(l)
  BY DEF Grammar
<1>3. ActiveTurn(l) = None
  BY ActiveRuns DEF Running, Closed, Is
<1> HIDE DEF s
<1>4. ASSUME NEW c \in Called(l) PROVE Rows(l)[c] # "requested"
  <2>1. PICK j \in DOMAIN l : l[j].type = "calls" /\ j > s /\ c \in 1..l[j].arg
    BY InCalled DEF s
  <2>2. PICK x \in DOMAIN l : Is(l, x, "started", l[j].turn)
    BY <2>1, <1>2 DEF BeginTurns
  <2>3. x <= s /\ s \in DOMAIN l /\ l[s].type = "started"
    BY <2>2, <1>1 DEF Is
  <2>4. l[s].turn = l[j].turn
    <3>1. l[s].turn <= l[j].turn
      BY <2>1, <2>3, <1>1, <1>2 DEF Follow
    <3>2. x # s => l[x].turn < l[s].turn
      BY <2>2, <2>3, <1>1, <1>2 DEF Follow
    <3>3. QED
      BY <3>1, <3>2, <2>2, <2>3, <1>1 DEF Is
  <2>5. PICK m \in DOMAIN l : Is(l, m, "ended", l[j].turn)
    BY <2>3, <2>4 DEF Closed
  <2>6. PICK i \in DOMAIN l : Is(l, i, "finished", l[j].turn) /\ l[i].arg = c
    BY <2>1, <2>5, <1>2 DEF SettleCalls, Done
  <2>7. ~(i < s) /\ i # s
    BY <2>3, <2>4, <2>6, <1>1, <1>2 DEF Follow, Is
  <2>8. i \in Finished(l, c)
    BY <2>3, <2>6, <2>7, <1>1, InFinished DEF Is, s
  <2>9. Rows(l)[c] = IF l[Newest(Finished(l, c))].ok THEN "success" ELSE "error"
    BY <2>8, RowIs
  <2>10. QED
    BY <2>9
<1>5. QED
  BY <1>3, <1>4

-----------------------------------------------------------------------------
(* The conversation. *)
Place(S, k) == {j \in S : Cardinality({m \in S : m < j}) = k - 1}

LEMMA InOrderIs ==
    ASSUME NEW S, NEW k \in 1..Cardinality(S)
    PROVE  InOrder(S)[k] = CHOOSE i \in Place(S, k) : TRUE
BY DEF InOrder, Place

LEMMA InOrderAdds ==
    ASSUME NEW n \in Nat, NEW S \in SUBSET (1..n), NEW m \in Nat, m > n,
           InOrder(S) \in Seq(Nat)
    PROVE  InOrder(S \cup {m}) = Append(InOrder(S), m) /\ InOrder(S \cup {m}) \in Seq(Nat)
<1> DEFINE T == S \cup {m}
           N == Cardinality(S)
<1>1. IsFiniteSet(S) /\ N \in Nat
  <2>1. IsFiniteSet(1..n)
    BY FS_Interval
  <2>2. IsFiniteSet(S)
    BY <2>1, FS_Subset
  <2>3. QED
    BY <2>2, FS_CardinalityType
<1>2. Cardinality(T) = N + 1 /\ m \notin S
  <2>1. m \notin S
    OBVIOUS
  <2>2. QED
    BY <2>1, <1>1, FS_AddElement
<1>3. ASSUME NEW j \in S
      PROVE  /\ {x \in T : x < j} = {x \in S : x < j}
             /\ Cardinality({x \in S : x < j}) \in Nat /\ Cardinality({x \in S : x < j}) < N
  <2>1. j < m /\ j \in Nat
    OBVIOUS
  <2>2. {x \in T : x < j} = {x \in S : x < j}
    BY <2>1
  <2> DEFINE L == {x \in S : x < j}
  <2>3. L \in SUBSET S /\ j \notin L
    BY <2>1
  <2> HIDE DEF L
  <2>4. IsFiniteSet(L) /\ Cardinality(L) <= N /\ Cardinality(L) # N
    BY <2>3, <1>1, <1>3, FS_Subset
  <2>5. Cardinality(L) \in Nat
    BY <2>4, FS_CardinalityType
  <2>6. Cardinality(L) < N
    BY <2>4, <2>5, <1>1
  <2>7. QED
    BY <2>2, <2>5, <2>6 DEF L
<1>4. {x \in T : x < m} = S
  <2>1. (\A x \in S : x < m) /\ ~(m < m)
    OBVIOUS
  <2>2. QED
    BY <2>1
<1> HIDE DEF T
<1>5. \A j : j \in T <=> j \in S \/ j = m
  BY DEF T
<1>6. \A j \in S : Cardinality({x \in T : x < j}) = Cardinality({x \in S : x < j})
  BY <1>3
<1>7. Cardinality({x \in T : x < m}) = N
  BY <1>4
<1>8. ASSUME NEW k \in 1..N
      PROVE  Place(T, k) = Place(S, k)
  <2>1. N # k - 1
    BY <1>1
  <2> HIDE DEF N
  <2>2. \A j : j \in Place(T, k) <=> j \in T /\ Cardinality({x \in T : x < j}) = k - 1
    BY DEF Place
  <2>3. \A j : j \in Place(S, k) <=> j \in S /\ Cardinality({x \in S : x < j}) = k - 1
    BY DEF Place
  <2>4. \A j : j \in Place(T, k) <=> j \in Place(S, k)
    BY <2>1, <2>2, <2>3, <1>2, <1>5, <1>6, <1>7
  <2>5. QED
    BY <2>4
<1>9. Place(T, N + 1) = {m}
  <2>1. N + 1 - 1 = N
    BY <1>1
  <2>2. \A j \in S : Cardinality({x \in S : x < j}) # N
    BY <1>1, <1>3
  <2> HIDE DEF N
  <2> DEFINE k == N + 1
  <2>3. \A j : j \in Place(T, k) <=> j \in T /\ Cardinality({x \in T : x < j}) = N
    <3> HIDE DEF k
    <3>1. \A j : j \in Place(T, k) <=> j \in T /\ Cardinality({x \in T : x < j}) = k - 1
      BY DEF Place
    <3>2. k - 1 = N
      BY <1>1 DEF k
    <3>3. QED
      BY <3>1, <3>2
  <2>4. \A j : j \in Place(T, N + 1) <=> j = m
    BY <2>2, <2>3, <1>5, <1>6, <1>7
  <2>5. QED
    BY <2>4
<1> DEFINE a == InOrder(S)
           b == InOrder(T)
           c == Append(a, m)
<1>10. Len(a) = N /\ \A k \in 1..N : a[k] = CHOOSE i \in Place(S, k) : TRUE
  <2>1. DOMAIN a = 1..N
    BY DEF InOrder
  <2>2. Len(a) \in Nat /\ DOMAIN a = 1..Len(a)
    BY LenProperties
  <2> HIDE DEF a
  <2>3. Len(a) = N
    <3> HIDE DEF N
    <3>1. 1..N = 1..Len(a)
      BY <2>1, <2>2
    <3>2. \A x, y \in Nat : 1..x = 1..y => x = y
      <4> SUFFICES ASSUME NEW x \in Nat, NEW y \in Nat, 1..x = 1..y PROVE x = y
        OBVIOUS
      <4>1. (x \in 1..x <=> x > 0) /\ (y \in 1..y <=> y > 0)
        OBVIOUS
      <4>2. (x \in 1..y <=> x > 0) /\ (y \in 1..x <=> y > 0)
        BY <4>1
      <4>3. QED
        BY <4>2
    <3>3. N \in Nat /\ Len(a) \in Nat
      BY <2>2, <1>1
    <3>4. QED
      BY <3>1, <3>2, <3>3
  <2>4. QED
    BY <2>3, InOrderIs DEF a
<1>11. DOMAIN b = 1..(N + 1) /\ \A k \in 1..(N + 1) : b[k] = CHOOSE i \in Place(T, k) : TRUE
  BY <1>2, InOrderIs DEF InOrder
<1>12. a \in Seq(Nat)
  OBVIOUS
<1> HIDE DEF a, b, N
<1>13. c \in Seq(Nat) /\ Len(c) = N + 1 /\ (\A k \in 1..N : c[k] = a[k]) /\ c[N + 1] = m
  BY <1>10, <1>12, AppendProperties
<1> HIDE DEF c
<1>14. \A k \in 1..(N + 1) : b[k] = c[k]
  <2> TAKE k \in 1..(N + 1)
  <2>1. CASE k \in 1..N
    BY <2>1, <1>8, <1>10, <1>11, <1>13, ZenonT(30)
  <2>2. CASE k = N + 1
    <3>1. b[k] = CHOOSE i \in {m} : TRUE
      BY <2>2, <1>9, <1>11
    <3>2. QED
      BY <3>1, <2>2, <1>13
  <2>3. QED
    BY <2>1, <2>2, <1>1
<1>15. DOMAIN c = 1..(N + 1) /\ \A k \in 1..(N + 1) : c[k] \in Nat
  BY <1>1, <1>13
<1>16. b = [k \in 1..(N + 1) |-> b[k]]
  <2>1. b = [k \in 1..Cardinality(T) |-> CHOOSE i \in {j \in T : Cardinality({x \in T : x < j}) = k - 1} : TRUE]
    BY DEF b, InOrder
  <2>2. QED
    BY <2>1, <1>11
<1>17. N + 1 \in Nat
  BY <1>1
<1>18. b \in Seq(Nat) /\ Len(b) = N + 1
  <2>1. \A k \in 1..(N + 1) : b[k] \in Nat
    BY <1>14, <1>15
  <2>2. b \in [1..(N + 1) -> Nat]
    BY <1>16, <2>1
  <2>3. QED
    BY <2>2, <1>17
<1>19. b = c
  BY <1>13, <1>14, <1>18, SeqEqual
<1>20. QED
  BY <1>13, <1>19 DEF a, b, c, T

LEMMA InOrderSeq ==
    ASSUME NEW n \in Nat, NEW S \in SUBSET (1..n)
    PROVE  InOrder(S) \in Seq(Nat)
<1> DEFINE Bad == {k \in Nat : \E A \in SUBSET (1..k) : InOrder(A) \notin Seq(Nat)}
<1>1. SUFFICES ASSUME Bad # {} PROVE FALSE
  OBVIOUS
<1>2. PICK k \in Bad : \A x \in Bad : k <= x
  <2>1. Bad \in SUBSET Nat
    OBVIOUS
  <2> HIDE DEF Bad
  <2>2. QED
    BY <2>1, <1>1, Least
<1>3. PICK A \in SUBSET (1..k) : InOrder(A) \notin Seq(Nat)
  OBVIOUS
<1>4. k \in Nat
  OBVIOUS
<1>5. k # 0
  <2> SUFFICES ASSUME k = 0 PROVE FALSE
    OBVIOUS
  <2>1. A = {}
    BY <1>3
  <2>2. Cardinality(A) = 0
    BY <2>1, FS_EmptySet
  <2>3. InOrder(A) = [i \in 1..0 |-> CHOOSE x \in {j \in A : Cardinality({m \in A : m < j}) = i - 1} : TRUE]
    BY <2>2 DEF InOrder
  <2>4. 1..0 = {}
    OBVIOUS
  <2>5. InOrder(A) \in [1..0 -> Nat]
    BY <2>3, <2>4
  <2>6. QED
    BY <2>5, <1>3
<1>6. k - 1 \in Nat /\ k > k - 1 /\ k - 1 \notin Bad
  <2>1. k - 1 \in Nat /\ k > k - 1 /\ ~(k <= k - 1)
    BY <1>4, <1>5
  <2>2. QED
    BY <2>1, <1>2
<1>7. \A B \in SUBSET (1..(k - 1)) : InOrder(B) \in Seq(Nat)
  BY <1>6
<1> HIDE DEF Bad
<1>8. k \in A
  <2> SUFFICES ASSUME k \notin A PROVE FALSE
    OBVIOUS
  <2>1. A \in SUBSET (1..(k - 1))
    BY <1>3, <1>4
  <2>2. QED
    BY <2>1, <1>3, <1>7
<1>9. A \ {k} \in SUBSET (1..(k - 1)) /\ (A \ {k}) \cup {k} = A
  BY <1>3, <1>4, <1>8
<1>10. InOrder((A \ {k}) \cup {k}) \in Seq(Nat)
  <2> DEFINE B == A \ {k}
  <2>1. B \in SUBSET (1..(k - 1)) /\ InOrder(B) \in Seq(Nat)
    BY <1>7, <1>9
  <2> HIDE DEF B
  <2>2. InOrder(B \cup {k}) \in Seq(Nat)
    BY <2>1, <1>4, <1>6, InOrderAdds
  <2>3. QED
    BY <2>2 DEF B
<1>11. QED
  BY <1>3, <1>9, <1>10

LEMMA MessagesAfter ==
    ASSUME NEW h, NEW g, After(h, g), NEW e, e = g[Len(g)]
    PROVE  /\ e.type \in {"started", "answer"} => Messages(g) = Append(Messages(h), Len(g))
           /\ e.type \notin {"started", "answer"} => Messages(g) = Messages(h)
<1> DEFINE n == Len(g)
           types == {"started", "answer"}
           S == At(h, types)
<1>1. /\ n \in Nat \ {0} /\ n \in DOMAIN g
      /\ \A i \in DOMAIN h : i \in Nat /\ i < n /\ i \in DOMAIN g /\ g[i] = h[i]
      /\ \A i \in DOMAIN g : i = n \/ i \in DOMAIN h
      /\ Len(h) \in Nat /\ n > Len(h) /\ DOMAIN h = 1..Len(h)
  BY AfterFields DEF After, Grammar
<1> HIDE DEF n
<1>2. e = g[n]
  BY DEF n
<1>3. S \in SUBSET (1..Len(h))
  BY <1>1 DEF At
<1>4. At(g, types) = IF e.type \in types THEN S \cup {n} ELSE S
  BY <1>1, <1>2 DEF At
<1>5. InOrder(S) \in Seq(Nat)
  BY <1>1, <1>3, InOrderSeq
<1> HIDE DEF S
<1>6. InOrder(S \cup {n}) = Append(InOrder(S), n)
  BY <1>1, <1>3, <1>5, InOrderAdds
<1>7. QED
  BY <1>4, <1>6 DEF Messages, S, n

LEMMA MessagesSeq == ASSUME NEW h, Grammar(h) PROVE Messages(h) \in Seq(Nat)
<1>1. Len(h) \in Nat /\ At(h, {"started", "answer"}) \in SUBSET (1..Len(h))
  BY DEF Grammar, At
<1>2. QED
  BY <1>1, InOrderSeq DEF Messages

-----------------------------------------------------------------------------
(* The tool rows of a page. *)
LEMMA ToolMapIs ==
    ASSUME NEW tools \in ToolMaps
    PROVE  /\ DOMAIN tools \in SUBSET Nat /\ \A c \in DOMAIN tools : tools[c] \in Statuses
           /\ tools = [c \in DOMAIN tools |-> tools[c]]
<1>1. PICK S \in SUBSET Nat : tools \in [S -> Statuses]
  BY DEF ToolMaps
<1>2. QED
  BY <1>1

LEMMA IsToolMap ==
    ASSUME NEW S \in SUBSET Nat, NEW tools \in [S -> Statuses]
    PROVE  tools \in ToolMaps
BY DEF ToolMaps

LEMMA NoTools ==
    ASSUME NEW f, f = [c \in {} |-> None]
    PROVE  f \in ToolMaps /\ DOMAIN f = {}
<1>1. f \in [{} -> Statuses] /\ {} \in SUBSET Nat
  OBVIOUS
<1>2. QED
  BY <1>1, IsToolMap

(* A status replaces one that does not rank above it. *)
Replaces(tools, c, status) == c \in DOMAIN tools => Rank(tools[c]) <= Rank(status)

Merged(m, tools, calls, status) ==
    /\ m \in ToolMaps /\ DOMAIN m = DOMAIN tools \cup calls
    /\ \A c \in DOMAIN m :
          m[c] = IF c \in calls /\ Replaces(tools, c, status) THEN status ELSE tools[c]

LEMMA MergeIs ==
    ASSUME NEW tools \in ToolMaps, NEW calls \in SUBSET Nat, NEW status \in Statuses
    PROVE  Merged(MergeTools(tools, calls, status), tools, calls, status)
<1> DEFINE m == MergeTools(tools, calls, status)
<1>1. DOMAIN tools \in SUBSET Nat /\ \A c \in DOMAIN tools : tools[c] \in Statuses
  BY ToolMapIs
<1>2. m = [c \in DOMAIN tools \cup calls |->
             IF c \in calls /\ Replaces(tools, c, status) THEN status ELSE tools[c]]
  BY DEF MergeTools, Replaces
<1>3. /\ DOMAIN m = DOMAIN tools \cup calls
      /\ \A c \in DOMAIN m :
            m[c] = IF c \in calls /\ Replaces(tools, c, status) THEN status ELSE tools[c]
  BY <1>2
<1> HIDE DEF m
<1>4. \A c \in DOMAIN m : m[c] \in Statuses
  BY <1>1, <1>3 DEF Replaces
<1>5. m \in [DOMAIN m -> Statuses]
  BY <1>2, <1>3, <1>4
<1>6. DOMAIN m \in SUBSET Nat
  BY <1>1, <1>3
<1>7. QED
  BY <1>3, <1>5, <1>6, IsToolMap DEF Merged, m

LEMMA Ranks ==
    /\ Rank("requested") = 0 /\ Rank("running") = 1 /\ Rank("success") = 2 /\ Rank("error") = 2
BY DEF Rank

(* A request never sets a row back. *)
Asks(m, tools, calls) ==
    /\ m \in ToolMaps /\ DOMAIN m = DOMAIN tools \cup calls
    /\ \A c \in DOMAIN m : m[c] = IF c \in DOMAIN tools THEN tools[c] ELSE "requested"
    /\ calls \subseteq DOMAIN tools => m = tools

LEMMA MergeRequested ==
    ASSUME NEW tools \in ToolMaps, NEW calls \in SUBSET Nat,
           NEW m, m = MergeTools(tools, calls, "requested")
    PROVE  Asks(m, tools, calls)
<1>1. "requested" \in Statuses
  BY DEF Statuses
<1>2. /\ m \in ToolMaps /\ DOMAIN m = DOMAIN tools \cup calls
      /\ \A c \in DOMAIN m :
            m[c] = IF c \in calls /\ Replaces(tools, c, "requested") THEN "requested"
                   ELSE tools[c]
  BY <1>1, MergeIs DEF Merged
<1>3. \A c \in DOMAIN tools : tools[c] \in Statuses
  BY ToolMapIs
<1>4. \A c \in DOMAIN tools : Replaces(tools, c, "requested") => tools[c] = "requested"
  BY <1>3, Ranks DEF Statuses, Replaces
<1>5. \A c \in DOMAIN m : m[c] = IF c \in DOMAIN tools THEN tools[c] ELSE "requested"
  <2>1. \A c \in DOMAIN m : c \notin DOMAIN tools => c \in calls /\ Replaces(tools, c, "requested")
    BY <1>2 DEF Replaces
  <2>2. QED
    BY <2>1, <1>2, <1>4
<1>6. ASSUME calls \subseteq DOMAIN tools PROVE m = tools
  <2>1. DOMAIN m = DOMAIN tools
    BY <1>2, <1>6
  <2>2. tools = [c \in DOMAIN tools |-> tools[c]] /\ m = [c \in DOMAIN m |-> m[c]]
    BY <1>2, ToolMapIs
  <2>3. QED
    BY <2>1, <2>2, <1>5
<1>7. QED
  BY <1>2, <1>5, <1>6 DEF Asks

-----------------------------------------------------------------------------
(* What the reducer does with an event. *)
LEMMA FilesTyped ==
    ASSUME Grammar(log), NEW i \in DOMAIN log
    PROVE  /\ \A j : j \in Files(i) <=> j \in 1..i /\ log[j].type = "changed" /\ log[j].turn = log[i].turn
           /\ Files(i) \in SUBSET Nat
<1>1. i \in 0..Len(log) /\ i \in Nat /\ i # 0
  BY DEF Grammar
<1>2. DOMAIN Seen(i) = 1..i /\ Prefix(Seen(i), log)
  BY <1>1, Cut DEF Seen
<1>3. Files(i) = {j \in At(Seen(i), {"changed"}) : log[j].turn = log[i].turn}
  BY <1>1 DEF Files, None
<1>4. \A j : j \in At(Seen(i), {"changed"}) <=> j \in 1..i /\ log[j].type = "changed"
  BY <1>2 DEF At, Prefix
<1>5. QED
  BY <1>3, <1>4

(* Of an event that belongs to the Turn that is shown. *)
Effect(p, i, e, q) ==
    /\ q.messages = IF e.type \in {"started", "answer"} THEN Append(p.messages, i)
                    ELSE p.messages
    /\ q.tools =
         CASE e.type = "started" -> [c \in {} |-> None]
           [] e.type = "calls" -> MergeTools(p.tools, 1..e.arg, "requested")
           [] e.type \in {"requested", "asked"} -> MergeTools(p.tools, {e.arg}, "requested")
           [] e.type = "running" -> MergeTools(p.tools, {e.arg}, "running")
           [] e.type = "finished" ->
                MergeTools(p.tools, {e.arg}, IF e.ok THEN "success" ELSE "error")
           [] OTHER -> p.tools
    /\ q.files = CASE e.type = "started" -> {} [] e.type = "changed" -> p.files \cup {i}
                   [] e.type = "ended" -> p.files \cup Files(i) [] OTHER -> p.files
    /\ q.terminal = CASE e.type = "started" -> None [] e.type = "ended" -> i
                      [] e.type = "rejected" -> Rejected [] OTHER -> p.terminal
    /\ q.error = CASE e.type = "started" -> FALSE [] e.type = "ended" -> p.error \/ Fails(i)
                   [] e.type \in {"rejected", "model_error"} -> TRUE [] OTHER -> p.error
    /\ q.stopping = CASE e.type \in Boundary -> FALSE [] e.type = "stopping" -> TRUE
                      [] OTHER -> p.stopping
    /\ q.approval = CASE e.type \in Boundary -> None [] e.type = "asked" -> i
                      [] e.type = "resolved" /\ p.approval = e.arg -> None
                      [] OTHER -> p.approval
    /\ q.current = CASE e.type = "started" -> e.turn
                     [] e.type \in {"ended", "rejected"} -> None [] OTHER -> p.current

LEMMA ReducedFields ==
    ASSUME Grammar(log), NEW p \in PageState, NEW i \in DOMAIN log, NEW e, e = log[i],
           NEW q, q = Reduced(p, i)
    PROVE  q \in PageState /\ q.upto = p.upto /\ Effect(p, i, e, q)
<1>1. /\ e \in Event /\ e.type \in Boundary \cup InTurn /\ e.turn \in Nat /\ e.arg \in Nat
      /\ e.ok \in BOOLEAN /\ i \in Nat /\ i # 0
  BY EventFields DEF Grammar
<1>2. /\ p.messages \in Seq(Nat) /\ p.tools \in ToolMaps /\ p.files \in SUBSET Nat
      /\ p.terminal \in Int /\ p.error \in BOOLEAN /\ p.stopping \in BOOLEAN
      /\ p.approval \in Nat /\ p.current \in Nat /\ p.upto \in Nat
  BY DEF PageState
<1>3. Append(p.messages, i) \in Seq(Nat)
  BY <1>1, <1>2, AppendProperties
<1>4. Files(i) \in SUBSET Nat
  BY FilesTyped
<1>5. /\ MergeTools(p.tools, 1..e.arg, "requested") \in ToolMaps
      /\ MergeTools(p.tools, {e.arg}, "requested") \in ToolMaps
      /\ MergeTools(p.tools, {e.arg}, "running") \in ToolMaps
      /\ MergeTools(p.tools, {e.arg}, IF e.ok THEN "success" ELSE "error") \in ToolMaps
      /\ [c \in {} |-> None] \in ToolMaps
  <2>1. \A calls \in SUBSET Nat : \A status \in Statuses :
          MergeTools(p.tools, calls, status) \in ToolMaps
    BY <1>2, MergeIs DEF Merged
  <2>2. 1..e.arg \in SUBSET Nat /\ {e.arg} \in SUBSET Nat
    BY <1>1
  <2>3. /\ "requested" \in Statuses /\ "running" \in Statuses
        /\ (IF e.ok THEN "success" ELSE "error") \in Statuses
    BY DEF Statuses
  <2>4. QED
    BY <2>1, <2>2, <2>3, NoTools
<1>6. /\ None \in Nat /\ None \in Int /\ Rejected \in Int
      /\ (p.error \/ Fails(i)) \in BOOLEAN /\ i \in Int
  BY <1>1 DEF None, Rejected
<1> USE DEF PageState
<1>7. CASE e.type = "started"
  <2>1. q = [p EXCEPT !.messages = Append(p.messages, i), !.tools = [c \in {} |-> None],
                      !.files = {}, !.terminal = None, !.error = FALSE, !.stopping = FALSE,
                      !.approval = None, !.current = e.turn]
    BY <1>7 DEF Reduced, Started
  <2> DEFINE m == Append(p.messages, i)
             t == [c \in {} |-> None]
  <2>2. m \in Seq(Nat) /\ t \in ToolMaps
    BY <1>3, <1>5
  <2> HIDE DEF m, t
  <2>3. q = [p EXCEPT !.messages = m, !.tools = t,
                      !.files = {}, !.terminal = None, !.error = FALSE, !.stopping = FALSE,
                      !.approval = None, !.current = e.turn]
    BY <2>1 DEF m, t
  <2>4. /\ q \in PageState /\ q.messages = m /\ q.tools = t /\ q.files = {} /\ q.terminal = None
        /\ q.error = FALSE /\ q.stopping = FALSE /\ q.approval = None /\ q.current = e.turn
        /\ q.upto = p.upto
    BY <2>2, <2>3, <1>1, <1>2, <1>6
  <2>5. QED
    BY <2>4, <1>7 DEF m, t, Boundary, Effect
<1>8. CASE e.type = "answer"
  <2> DEFINE m == Append(p.messages, i)
  <2>1. q = [p EXCEPT !.messages = m]
    BY <1>8 DEF Reduced
  <2>2. m \in Seq(Nat)
    BY <1>3
  <2> HIDE DEF m
  <2>3. /\ q \in PageState /\ q.messages = m /\ q.tools = p.tools /\ q.files = p.files
        /\ q.terminal = p.terminal /\ q.error = p.error /\ q.stopping = p.stopping
        /\ q.approval = p.approval /\ q.current = p.current /\ q.upto = p.upto
    BY <2>1, <2>2, <1>2
  <2>4. QED
    BY <2>3, <1>8 DEF m, Boundary, Effect
<1>9. ASSUME NEW m \in ToolMaps, q = [p EXCEPT !.tools = m]
      PROVE  /\ q \in PageState /\ q.messages = p.messages /\ q.tools = m /\ q.files = p.files
             /\ q.terminal = p.terminal /\ q.error = p.error /\ q.stopping = p.stopping
             /\ q.approval = p.approval /\ q.current = p.current /\ q.upto = p.upto
  BY <1>2, <1>9
<1>10. CASE e.type \in {"calls", "requested", "running", "finished"}
  <2> DEFINE m == CASE e.type = "calls" -> MergeTools(p.tools, 1..e.arg, "requested")
                    [] e.type = "requested" -> MergeTools(p.tools, {e.arg}, "requested")
                    [] e.type = "running" -> MergeTools(p.tools, {e.arg}, "running")
                    [] e.type = "finished" ->
                         MergeTools(p.tools, {e.arg}, IF e.ok THEN "success" ELSE "error")
  <2>1. q = [p EXCEPT !.tools = m]
    BY <1>10 DEF Reduced, MergeTool
  <2>2. m \in ToolMaps
    BY <1>5, <1>10
  <2> HIDE DEF m
  <2>3. /\ q \in PageState /\ q.messages = p.messages /\ q.tools = m /\ q.files = p.files
        /\ q.terminal = p.terminal /\ q.error = p.error /\ q.stopping = p.stopping
        /\ q.approval = p.approval /\ q.current = p.current /\ q.upto = p.upto
    BY <2>1, <2>2, <1>9
  <2>4. QED
    BY <2>3, <1>10 DEF m, Boundary, Effect
<1>11. CASE e.type = "asked"
  <2> DEFINE m == MergeTools(p.tools, {e.arg}, "requested")
  <2>1. q = [p EXCEPT !.approval = i, !.tools = m]
    BY <1>1, <1>11 DEF Reduced, WithApproval, AskedCall, None, MergeTool
  <2>2. m \in ToolMaps
    BY <1>5
  <2> HIDE DEF m
  <2>3. /\ q \in PageState /\ q.messages = p.messages /\ q.tools = m /\ q.files = p.files
        /\ q.terminal = p.terminal /\ q.error = p.error /\ q.stopping = p.stopping
        /\ q.approval = i /\ q.current = p.current /\ q.upto = p.upto
    BY <2>1, <2>2, <1>1, <1>2
  <2>4. QED
    BY <2>3, <1>11 DEF m, Boundary, Effect
<1>12. CASE e.type = "changed"
  <2>1. q = [p EXCEPT !.files = p.files \cup {i}]
    BY <1>12 DEF Reduced
  <2>2. /\ q \in PageState /\ q.messages = p.messages /\ q.tools = p.tools
        /\ q.files = p.files \cup {i}
        /\ q.terminal = p.terminal /\ q.error = p.error /\ q.stopping = p.stopping
        /\ q.approval = p.approval /\ q.current = p.current /\ q.upto = p.upto
    BY <2>1, <1>1, <1>2
  <2>3. QED
    BY <2>2, <1>12 DEF Boundary, Effect
<1>13. CASE e.type = "resolved"
  <2>1. q = IF p.approval = e.arg THEN [p EXCEPT !.approval = None] ELSE p
    BY <1>13 DEF Reduced, Resolved
  <2>2. /\ q \in PageState /\ q.messages = p.messages /\ q.tools = p.tools /\ q.files = p.files
        /\ q.terminal = p.terminal /\ q.error = p.error /\ q.stopping = p.stopping
        /\ q.approval = (IF p.approval = e.arg THEN None ELSE p.approval)
        /\ q.current = p.current /\ q.upto = p.upto
    BY <2>1, <1>2, <1>6
  <2>3. QED
    BY <2>2, <1>13 DEF Boundary, Effect
<1>14. CASE e.type = "stopping"
  <2>1. q = [p EXCEPT !.stopping = TRUE]
    BY <1>14 DEF Reduced
  <2>2. /\ q \in PageState /\ q.messages = p.messages /\ q.tools = p.tools /\ q.files = p.files
        /\ q.terminal = p.terminal /\ q.error = p.error /\ q.stopping = TRUE
        /\ q.approval = p.approval /\ q.current = p.current /\ q.upto = p.upto
    BY <2>1, <1>2
  <2>3. QED
    BY <2>2, <1>14 DEF Boundary, Effect
<1>15. CASE e.type = "model_error"
  <2>1. q = [p EXCEPT !.error = TRUE]
    BY <1>15 DEF Reduced
  <2>2. /\ q \in PageState /\ q.messages = p.messages /\ q.tools = p.tools /\ q.files = p.files
        /\ q.terminal = p.terminal /\ q.error = TRUE /\ q.stopping = p.stopping
        /\ q.approval = p.approval /\ q.current = p.current /\ q.upto = p.upto
    BY <2>1, <1>2
  <2>3. QED
    BY <2>2, <1>15 DEF Boundary, Effect
<1>16. CASE e.type = "ended"
  <2> DEFINE x == p.error \/ Fails(i)
             fs == p.files \cup Files(i)
  <2>1. q = [p EXCEPT !.terminal = i, !.files = fs, !.error = x,
                      !.stopping = FALSE, !.approval = None, !.current = None]
    BY <1>16 DEF Reduced, Ended
  <2>2. x \in BOOLEAN /\ fs \in SUBSET Nat
    BY <1>2, <1>4
  <2> HIDE DEF x, fs
  <2>3. /\ q \in PageState /\ q.messages = p.messages /\ q.tools = p.tools /\ q.files = fs
        /\ q.terminal = i /\ q.error = x /\ q.stopping = FALSE
        /\ q.approval = None /\ q.current = None /\ q.upto = p.upto
    BY <2>1, <2>2, <1>1, <1>2, <1>6
  <2>4. QED
    BY <2>3, <1>16 DEF x, fs, Boundary, Effect
<1>17. CASE e.type = "rejected"
  <2>1. q = [p EXCEPT !.terminal = Rejected, !.error = TRUE, !.stopping = FALSE,
                      !.approval = None, !.current = None]
    BY <1>17 DEF Reduced, Refused
  <2>2. /\ q \in PageState /\ q.messages = p.messages /\ q.tools = p.tools /\ q.files = p.files
        /\ q.terminal = Rejected /\ q.error = TRUE /\ q.stopping = FALSE
        /\ q.approval = None /\ q.current = None /\ q.upto = p.upto
    BY <2>1, <1>2, <1>6
  <2>3. QED
    BY <2>2, <1>17 DEF Boundary, Effect
<1>18. QED
  BY <1>1, <1>7, <1>8, <1>10, <1>11, <1>12, <1>13, <1>14, <1>15, <1>16,
     <1>17 DEF Boundary, InTurn, OfCall

LEMMA PutUpto ==
    ASSUME NEW p \in PageState, NEW i \in Nat, NEW q, q = [p EXCEPT !.upto = i]
    PROVE  /\ q \in PageState /\ q.upto = i /\ q.messages = p.messages /\ q.tools = p.tools
           /\ q.files = p.files /\ q.terminal = p.terminal /\ q.error = p.error
           /\ q.stopping = p.stopping /\ q.approval = p.approval /\ q.current = p.current
BY DEF PageState

LEMMA AppliedFields ==
    ASSUME Grammar(log), NEW p \in PageState, NEW i \in DOMAIN log, NEW e, e = log[i],
           NEW q, q = Applied(p, i)
    PROVE  /\ q \in PageState /\ q.upto = i
           /\ Belongs(p, e) => Effect(p, i, e, q)
           /\ ~Belongs(p, e) => q.approval = p.approval /\ q.current = p.current
<1>1. i \in Nat
  BY EventFields DEF Grammar
<1> DEFINE r == Reduced(p, i)
<1>2. r \in PageState /\ Effect(p, i, e, r)
  BY ReducedFields
<1> HIDE DEF r
<1>3. CASE Belongs(p, e)
  <2>1. q = [r EXCEPT !.upto = i]
    BY <1>3 DEF Applied, r
  <2>2. /\ q \in PageState /\ q.upto = i /\ q.messages = r.messages /\ q.tools = r.tools
        /\ q.files = r.files /\ q.terminal = r.terminal /\ q.error = r.error
        /\ q.stopping = r.stopping /\ q.approval = r.approval /\ q.current = r.current
    BY <1>1, <1>2, <2>1, PutUpto
  <2>3. Effect(p, i, e, q)
    BY <1>2, <2>2 DEF Effect
  <2>4. QED
    BY <1>3, <2>2, <2>3
<1>4. CASE ~Belongs(p, e)
  <2>1. q = [p EXCEPT !.upto = i]
    BY <1>4 DEF Applied
  <2>2. QED
    BY <1>1, <1>4, <2>1, PutUpto
<1>5. QED
  BY <1>3, <1>4

(* Whatever the page has been told, a card that is shown is one of its Turn.   *)
LEMMA CardHasTurn ==
    ASSUME Grammar(log), NEW p \in PageState, NEW i \in DOMAIN log, NEW q, q = Applied(p, i),
           p.approval \in 0..Len(log), p.approval # None => p.current # None
    PROVE  q.approval \in 0..Len(log) /\ (q.approval # None => q.current # None)
<1> DEFINE e == log[i]
<1>1. /\ e.type \in Boundary \cup InTurn /\ e.turn \in Nat \ {0}
      /\ i \in 0..Len(log) /\ None \in 0..Len(log)
  BY EventFields DEF Grammar, None
<1>2. /\ Belongs(p, e) => Effect(p, i, e, q)
      /\ ~Belongs(p, e) => q.approval = p.approval /\ q.current = p.current
  BY AppliedFields
<1> HIDE DEF e
<1>3. CASE ~Belongs(p, e)
  BY <1>2, <1>3
<1>4. CASE Belongs(p, e)
  <2>1. CASE e.type \in Boundary
    BY <1>1, <1>2, <1>4, <2>1 DEF Effect, Boundary
  <2>2. CASE e.type = "asked"
    <3>1. p.current = e.turn
      BY <1>4, <2>2 DEF Belongs
    <3>2. q.approval = i /\ q.current = p.current
      BY <1>2, <1>4, <2>2 DEF Effect, Boundary
    <3>3. QED
      BY <3>1, <3>2, <1>1 DEF None
  <2>3. CASE e.type \notin Boundary /\ e.type # "asked"
    <3>1. q.current = p.current /\ q.approval \in {None, p.approval}
      BY <1>2, <1>4, <2>3 DEF Effect, Boundary
    <3>2. QED
      BY <3>1, <1>1
  <2>4. QED
    BY <2>1, <2>2, <2>3
<1>5. QED
  BY <1>3, <1>4

(* A page that agrees with the Host is told of one more event: h and g are what *)
(* it was told of before and after.                                           *)
Told(p, i, e, h, g, q) ==
    /\ Grammar(log) /\ p \in PageState /\ p.upto \in 0..Len(log) /\ p.upto < Len(log)
    /\ i = p.upto + 1 /\ e = log[i] /\ h = Seen(p.upto) /\ g = Seen(i) /\ q = Applied(p, i)
    /\ p.current = ActiveTurn(h)

LEMMA ToldOf ==
    ASSUME NEW p, NEW i, NEW e, NEW h, NEW g, NEW q, Told(p, i, e, h, g, q)
    PROVE  /\ After(h, g) /\ e = g[Len(g)] /\ Len(g) = i /\ i \in DOMAIN log /\ i \in Nat \ {0}
           /\ q \in PageState /\ q.upto = i /\ Effect(p, i, e, q)
           /\ e \in Event /\ e.type \in Boundary \cup InTurn /\ e.turn \in Nat \ {0}
           /\ e.type \in InTurn => p.current = e.turn /\ ActiveTurn(g) = e.turn
           /\ e.type = "ended" => p.current = e.turn /\ ActiveTurn(g) = None
           /\ e.type = "started" => ActiveTurn(g) = e.turn
           /\ e.type = "rejected" => p.current = None /\ ActiveTurn(g) = None
           /\ Prefix(h, log) /\ DOMAIN h = 1..p.upto /\ p.upto \in Nat
<1>1. /\ Grammar(log) /\ p \in PageState /\ p.upto \in 0..Len(log) /\ p.upto < Len(log)
      /\ i = p.upto + 1 /\ e = log[i] /\ h = Seen(p.upto) /\ g = Seen(i) /\ q = Applied(p, i)
      /\ p.current = ActiveTurn(h)
  BY DEF Told
<1>2. /\ After(h, g) /\ i \in DOMAIN log /\ Len(g) = i /\ g[i] = log[i]
  BY <1>1, SeenNext DEF Seen
<1>3. /\ e \in Event /\ e.type \in Boundary \cup InTurn /\ e.turn \in Nat \ {0}
      /\ i \in Nat \ {0}
  BY <1>1, <1>2, EventFields DEF Grammar
<1>4. e = g[Len(g)]
  BY <1>1, <1>2
<1>5. /\ e.type = "started" => Running(g, e.turn)
      /\ e.type \in InTurn => Running(h, e.turn) /\ Running(g, e.turn)
      /\ e.type = "ended" => Running(h, e.turn) /\ ActiveTurn(g) = None
      /\ e.type = "rejected" => ActiveTurn(h) = None /\ ActiveTurn(g) = None
  BY <1>2, <1>4, AfterRuns
<1>6. Grammar(h) /\ Grammar(g)
  BY <1>2 DEF After
<1>7. /\ e.type \in InTurn => p.current = e.turn /\ ActiveTurn(g) = e.turn
      /\ e.type = "ended" => p.current = e.turn /\ ActiveTurn(g) = None
      /\ e.type = "started" => ActiveTurn(g) = e.turn
      /\ e.type = "rejected" => p.current = None /\ ActiveTurn(g) = None
  BY <1>1, <1>5, <1>6, ActiveRuns
<1>8. Belongs(p, e)
  BY <1>3, <1>7 DEF Belongs, Boundary
<1>9. q \in PageState /\ q.upto = i /\ Effect(p, i, e, q)
  BY <1>1, <1>2, <1>8, AppliedFields
<1>10. Prefix(h, log) /\ DOMAIN h = 1..p.upto
  BY <1>1, Cut DEF Seen
<1>11. QED
  BY <1>1, <1>2, <1>3, <1>4, <1>7, <1>9, <1>10

LEMMA ToldCurrent ==
    ASSUME NEW p, NEW i, NEW e, NEW h, NEW g, NEW q, Told(p, i, e, h, g, q)
    PROVE  q.current = ActiveTurn(g)
<1>1. /\ Effect(p, i, e, q) /\ e.type \in Boundary \cup InTurn
      /\ e.type \in InTurn => p.current = e.turn /\ ActiveTurn(g) = e.turn
      /\ e.type = "ended" => ActiveTurn(g) = None
      /\ e.type = "started" => ActiveTurn(g) = e.turn
      /\ e.type = "rejected" => ActiveTurn(g) = None
  BY ToldOf
<1>2. QED
  BY <1>1 DEF Effect, Boundary, InTurn, OfCall

LEMMA ToldMessages ==
    ASSUME NEW p, NEW i, NEW e, NEW h, NEW g, NEW q, Told(p, i, e, h, g, q),
           p.messages = Messages(h)
    PROVE  q.messages = Messages(g)
<1>1. Effect(p, i, e, q) /\ After(h, g) /\ e = g[Len(g)] /\ Len(g) = i
  BY ToldOf
<1>2. /\ e.type \in {"started", "answer"} => Messages(g) = Append(Messages(h), i)
      /\ e.type \notin {"started", "answer"} => Messages(g) = Messages(h)
  BY <1>1, MessagesAfter
<1>3. QED
  BY <1>1, <1>2 DEF Effect

-----------------------------------------------------------------------------
(* The rows of a page against those of the history it was told of.             *)
Ahead(c, t) == \E i \in At(log, {"asked"}) : log[i].arg = c /\ log[i].turn = t
Agree(tools, h, t) ==
    /\ Called(h) \subseteq DOMAIN tools
    /\ \A c \in Called(h) :
          tools[c] = Rows(h)[c] \/ (Rows(h)[c] = "requested" /\ tools[c] = "running")
    /\ \A c \in DOMAIN tools : c \notin Called(h) => tools[c] = "requested" /\ Ahead(c, t)

LEMMA RowsAgreeIs ==
    ASSUME NEW p
    PROVE  RowsAgree(log, p) <=> Agree(p.tools, Seen(p.upto), p.current)
<1> DEFINE h == Seen(p.upto)
           rows == Rows(h)
<1>1. DOMAIN rows = Called(h)
  BY RowDomain
<1>2. RowsAgree(log, p) <=>
        /\ DOMAIN rows \subseteq DOMAIN p.tools
        /\ \A c \in DOMAIN p.tools :
             IF c \in DOMAIN rows
               THEN p.tools[c] \in {rows[c]} \cup IF rows[c] = "requested" THEN {"running"} ELSE {}
               ELSE p.tools[c] = "requested" /\ Ahead(c, p.current)
  BY DEF RowsAgree, Seen, Ahead
<1> HIDE DEF h, rows
<1>3. \A c : p.tools[c] \in {rows[c]} \cup (IF rows[c] = "requested" THEN {"running"} ELSE {})
             <=> p.tools[c] = rows[c] \/ (rows[c] = "requested" /\ p.tools[c] = "running")
  OBVIOUS
<1>4. RowsAgree(log, p) <=>
        /\ Called(h) \subseteq DOMAIN p.tools
        /\ \A c \in DOMAIN p.tools :
             /\ c \in Called(h) =>
                  p.tools[c] = rows[c] \/ (rows[c] = "requested" /\ p.tools[c] = "running")
             /\ c \notin Called(h) => p.tools[c] = "requested" /\ Ahead(c, p.current)
  BY <1>1, <1>2, <1>3
<1>5. RowsAgree(log, p) <=> Agree(p.tools, h, p.current)
  BY <1>4 DEF Agree, rows
<1>6. QED
  BY <1>5 DEF h

LEMMA SameAgree ==
    ASSUME NEW tools, NEW h, NEW g, NEW t, Agree(tools, h, t), Called(g) = Called(h),
           \A c \in Called(h) : Rows(g)[c] = Rows(h)[c]
    PROVE  Agree(tools, g, t)
BY DEF Agree

(* No row is ahead when the Turn that is shown ends. *)
LEMMA NoneAhead ==
    ASSUME NEW p, NEW i, NEW e, NEW h, NEW g, NEW q, Told(p, i, e, h, g, q),
           e.type \in {"ended", "rejected"}, NEW c, Ahead(c, p.current)
    PROVE  c \in Called(h)
<1>1. /\ After(h, g) /\ i \in DOMAIN log /\ i \in Nat \ {0} /\ e = log[i]
      /\ e.type = "ended" => p.current = e.turn
      /\ e.type = "rejected" => p.current = None
      /\ Prefix(h, log) /\ DOMAIN h = 1..p.upto /\ p.upto \in Nat /\ i = p.upto + 1
      /\ Grammar(log) /\ p.current = ActiveTurn(h)
  BY ToldOf DEF Told
<1>2. PICK x \in DOMAIN log : log[x].type = "asked" /\ log[x].arg = c /\ log[x].turn = p.current
  BY DEF Ahead, At
<1>3. x \in Nat \ {0} /\ log[x].turn \in Nat \ {0}
  BY <1>1, EventFields DEF Grammar
<1>4. e.type = "ended" /\ p.current = e.turn /\ p.current # None
  BY <1>1, <1>2, <1>3 DEF None
<1>5. ~(i < x) /\ i # x
  BY <1>1, <1>2, <1>3, <1>4 DEF Grammar, Follow
<1>6. x \in DOMAIN h /\ h[x] = log[x]
  BY <1>1, <1>3, <1>5 DEF Prefix
<1>7. Grammar(h)
  BY <1>1 DEF After
<1>8. Running(h, p.current)
  <2>1. ActiveTurn(h) # None
    BY <1>1, <1>4
  <2>2. Running(h, ActiveTurn(h))
    BY <2>1, <1>7, ActiveRuns
  <2>3. QED
    BY <2>2, <1>1
<1>9. Is(h, TurnStart(h), "started", p.current) /\ x >= TurnStart(h)
  BY <1>2, <1>6, <1>7, <1>8, ActiveRuns
<1>10. x > TurnStart(h)
  <2>1. TurnStart(h) \in 0..Len(h)
    BY <1>7, Positions
  <2>2. TurnStart(h) # x
    BY <1>2, <1>6, <1>9 DEF Is
  <2>3. QED
    BY <2>1, <2>2, <1>3, <1>9
<1>11. h[x].arg \in Called(h)
  BY <1>2, <1>6, <1>7, <1>10, CallOf DEF OfCall
<1>12. QED
  BY <1>2, <1>6, <1>11

LEMMA ToldRows ==
    ASSUME NEW p, NEW i, NEW e, NEW h, NEW g, NEW q, Told(p, i, e, h, g, q),
           Agree(p.tools, h, p.current)
    PROVE  Agree(q.tools, g, q.current)
<1>1. /\ After(h, g) /\ e = g[Len(g)] /\ Effect(p, i, e, q) /\ e \in Event
      /\ e.type \in Boundary \cup InTurn /\ p \in PageState /\ i = Len(g)
  BY ToldOf DEF Told
<1>2. /\ e.type = "started" => Called(g) = {}
      /\ e.type = "calls" => Called(g) = Called(h) \cup (1..e.arg)
      /\ e.type \notin {"started", "calls"} => Called(g) = Called(h)
      /\ Called(h) \subseteq Nat
  BY <1>1, CalledAfter
<1>3. ASSUME e.type # "started", NEW c \in Called(g)
      PROVE  /\ c \in Called(h) =>
                  Rows(g)[c] = IF e.type = "finished" /\ e.arg = c
                                 THEN IF e.ok THEN "success" ELSE "error" ELSE Rows(h)[c]
             /\ c \notin Called(h) => Rows(g)[c] = "requested"
  BY <1>1, <1>3, RowsAfter
<1>4. p.tools \in ToolMaps /\ e.arg \in Nat /\ e.ok \in BOOLEAN
  BY <1>1 DEF PageState, Event
<1>5. \A c \in DOMAIN p.tools : p.tools[c] \in Statuses
  BY <1>4, ToolMapIs
<1>6. e.type \in OfCall => e.arg \in Called(h)
  <2> SUFFICES ASSUME e.type \in OfCall PROVE e.arg \in Called(h)
    OBVIOUS
  <2>1. e.type \notin {"started", "calls"}
    BY DEF OfCall
  <2>2. /\ TurnStart(g) = TurnStart(h) /\ TurnStart(h) \in 0..Len(h) /\ Len(g) \in DOMAIN g
        /\ Len(h) \in Nat /\ Len(g) = Len(h) + 1 /\ Grammar(g)
    BY <2>1, <1>1, AfterMarks, AfterFields, Positions DEF After
  <2>3. Len(g) > TurnStart(g)
    BY <2>2
  <2>4. g[Len(g)].arg \in Called(g)
    BY <2>2, <2>3, <1>1, CallOf
  <2>5. QED
    BY <2>1, <2>4, <1>1, <1>2
<1>7. CASE e.type = "started"
  <2>1. q.tools = [c \in {} |-> None]
    BY <1>1, <1>7 DEF Effect
  <2>2. DOMAIN q.tools = {}
    BY <2>1
  <2>3. QED
    BY <2>2, <1>2, <1>7 DEF Agree
<1>8. CASE e.type = "calls"
  <2>1. q.tools = MergeTools(p.tools, 1..e.arg, "requested") /\ q.current = p.current
    BY <1>1, <1>8 DEF Effect
  <2>2. /\ DOMAIN q.tools = DOMAIN p.tools \cup (1..e.arg)
        /\ \A c \in DOMAIN q.tools :
              q.tools[c] = IF c \in DOMAIN p.tools THEN p.tools[c] ELSE "requested"
    <3>1. 1..e.arg \in SUBSET Nat
      BY <1>4
    <3> DEFINE calls == 1..e.arg
               m == q.tools
               t == p.tools
    <3>2. m = MergeTools(t, calls, "requested") /\ calls \in SUBSET Nat /\ t \in ToolMaps
      BY <2>1, <3>1, <1>4
    <3> HIDE DEF calls, m, t
    <3>3. Asks(m, t, calls)
      BY <3>2, MergeRequested
    <3>4. QED
      BY <3>3 DEF Asks, calls, m, t
  <2>3. Called(g) \subseteq DOMAIN q.tools
    BY <2>2, <1>2, <1>8 DEF Agree
  <2>4. ASSUME NEW c \in Called(g)
        PROVE  q.tools[c] = Rows(g)[c] \/ (Rows(g)[c] = "requested" /\ q.tools[c] = "running")
    <3>1. CASE c \in Called(h)
      <4>1. Rows(g)[c] = Rows(h)[c]
        BY <1>3, <1>8, <2>4, <3>1
      <4>2. c \in DOMAIN p.tools /\ c \in DOMAIN q.tools
        BY <2>2, <3>1 DEF Agree
      <4>3. QED
        BY <4>1, <4>2, <2>2, <3>1 DEF Agree
    <3>2. CASE c \notin Called(h)
      <4>1. Rows(g)[c] = "requested"
        BY <1>3, <1>8, <2>4, <3>2
      <4>2. QED
        BY <4>1, <2>2, <2>3, <2>4, <3>2 DEF Agree
    <3>3. QED
      BY <3>1, <3>2
  <2>5. ASSUME NEW c \in DOMAIN q.tools, c \notin Called(g)
        PROVE  q.tools[c] = "requested" /\ Ahead(c, q.current)
    <3>1. c \in DOMAIN p.tools /\ c \notin Called(h)
      BY <2>2, <2>5, <1>2, <1>8
    <3>2. QED
      BY <3>1, <2>1, <2>2 DEF Agree
  <2>6. QED
    BY <2>3, <2>4, <2>5 DEF Agree
<1>9. ASSUME e.type \notin {"started", "calls", "finished"}
      PROVE  Called(g) = Called(h) /\ \A c \in Called(h) : Rows(g)[c] = Rows(h)[c]
  BY <1>2, <1>3, <1>9
<1>10. CASE e.type \in {"requested", "asked"}
  <2>1. q.tools = MergeTools(p.tools, {e.arg}, "requested") /\ q.current = p.current
    BY <1>1, <1>10 DEF Effect
  <2>2. {e.arg} \in SUBSET Nat /\ {e.arg} \subseteq DOMAIN p.tools
    BY <1>4, <1>6, <1>10 DEF Agree, OfCall
  <2>3. q.tools = p.tools
    <3> DEFINE calls == {e.arg}
               m == q.tools
               t == p.tools
    <3>1. /\ calls \in SUBSET Nat /\ calls \subseteq DOMAIN t /\ t \in ToolMaps
          /\ m = MergeTools(t, calls, "requested")
      BY <2>1, <2>2, <1>4
    <3> HIDE DEF calls, m, t
    <3>2. Asks(m, t, calls)
      BY <3>1, MergeRequested
    <3>3. QED
      BY <3>1, <3>2 DEF Asks, m, t
  <2>4. QED
    BY <2>1, <2>3, <1>9, <1>10, SameAgree
<1>11. ASSUME e.type \in {"running", "finished"}, NEW st \in Statuses,
              q.tools = MergeTools(p.tools, {e.arg}, st)
       PROVE  /\ DOMAIN q.tools = DOMAIN p.tools
              /\ \A c \in DOMAIN p.tools :
                    q.tools[c] = IF c = e.arg /\ Replaces(p.tools, c, st) THEN st
                                 ELSE p.tools[c]
  <2> DEFINE calls == {e.arg}
             m == q.tools
             t == p.tools
  <2>1. /\ calls \in SUBSET Nat /\ calls \subseteq DOMAIN t /\ t \in ToolMaps
        /\ m = MergeTools(t, calls, st)
    BY <1>4, <1>6, <1>11 DEF Agree, OfCall
  <2>2. \A c : c \in calls <=> c = e.arg
    OBVIOUS
  <2> HIDE DEF calls, m, t
  <2>3. /\ DOMAIN m = DOMAIN t \cup calls
        /\ \A c \in DOMAIN m :
              m[c] = IF c \in calls /\ Replaces(t, c, st) THEN st ELSE t[c]
    <3>1. Merged(m, t, calls, st)
      BY <2>1, MergeIs
    <3>2. QED
      BY <3>1 DEF Merged
  <2>4. /\ DOMAIN m = DOMAIN t
        /\ \A c \in DOMAIN t :
              m[c] = IF c = e.arg /\ Replaces(t, c, st) THEN st ELSE t[c]
    BY <2>1, <2>2, <2>3
  <2>5. QED
    BY <2>4 DEF m, t
<1>12. CASE e.type = "running"
  <2>1. q.tools = MergeTools(p.tools, {e.arg}, "running") /\ q.current = p.current
    BY <1>1, <1>12 DEF Effect
  <2>2. /\ DOMAIN q.tools = DOMAIN p.tools
        /\ \A c \in DOMAIN p.tools :
              q.tools[c] = IF c = e.arg /\ Replaces(p.tools, c, "running") THEN "running"
                           ELSE p.tools[c]
    BY <2>1, <1>11, <1>12 DEF Statuses
  <2>3. Called(g) = Called(h) /\ \A c \in Called(h) : Rows(g)[c] = Rows(h)[c]
    BY <1>9, <1>12
  <2>4. ASSUME NEW c \in Called(g)
        PROVE  q.tools[c] = Rows(g)[c] \/ (Rows(g)[c] = "requested" /\ q.tools[c] = "running")
    <3>1. c \in DOMAIN p.tools /\ Rows(g)[c] = Rows(h)[c] /\ c \in Called(h)
      BY <2>3, <2>4 DEF Agree
    <3>2. CASE c = e.arg /\ Replaces(p.tools, c, "running")
      <4>1. p.tools[c] \in {"requested", "running"}
        BY <3>1, <3>2, <1>5, Ranks DEF Replaces, Statuses
      <4>2. Rows(h)[c] \in {"requested", "success", "error"}
        BY <3>1, RowValue
      <4>3. Rows(h)[c] = "requested"
        BY <4>1, <4>2, <3>1 DEF Agree
      <4>4. QED
        BY <4>3, <3>1, <3>2, <2>2
    <3>3. CASE ~(c = e.arg /\ Replaces(p.tools, c, "running"))
      BY <3>1, <3>3, <2>2 DEF Agree
    <3>4. QED
      BY <3>2, <3>3
  <2>5. \A c \in DOMAIN q.tools : c \notin Called(g) =>
            q.tools[c] = "requested" /\ Ahead(c, q.current)
    BY <2>1, <2>2, <2>3, <1>6, <1>12 DEF Agree, OfCall
  <2>6. QED
    BY <2>2, <2>3, <2>4, <2>5 DEF Agree
<1>13. CASE e.type = "finished"
  <2> DEFINE status == IF e.ok THEN "success" ELSE "error"
  <2>1. status \in Statuses /\ Rank(status) = 2
    BY Ranks DEF Statuses
  <2>2. q.tools = MergeTools(p.tools, {e.arg}, status) /\ q.current = p.current
    BY <1>1, <1>13 DEF Effect
  <2>3. \A c \in Called(g) : Rows(g)[c] = IF e.arg = c THEN status ELSE Rows(h)[c]
    BY <1>2, <1>3, <1>13
  <2> HIDE DEF status
  <2>4. /\ DOMAIN q.tools = DOMAIN p.tools
        /\ \A c \in DOMAIN p.tools :
              q.tools[c] = IF c = e.arg /\ Replaces(p.tools, c, status) THEN status
                           ELSE p.tools[c]
    BY <2>1, <2>2, <1>11, <1>13
  <2>5. \A c \in DOMAIN p.tools : Replaces(p.tools, c, status)
    BY <2>1, <1>5, Ranks DEF Replaces, Statuses
  <2>6. Called(g) = Called(h)
    BY <1>2, <1>13
  <2>7. \A c \in Called(g) :
            q.tools[c] = Rows(g)[c] \/ (Rows(g)[c] = "requested" /\ q.tools[c] = "running")
    BY <2>3, <2>4, <2>5, <2>6 DEF Agree
  <2>8. \A c \in DOMAIN q.tools : c \notin Called(g) =>
            q.tools[c] = "requested" /\ Ahead(c, q.current)
    BY <2>2, <2>4, <2>6, <1>6, <1>13 DEF Agree, OfCall
  <2>9. QED
    BY <2>4, <2>6, <2>7, <2>8 DEF Agree
<1>14. CASE e.type \in {"answer", "changed", "resolved", "stopping", "model_error"}
  <2>1. q.tools = p.tools /\ q.current = p.current
    BY <1>1, <1>14 DEF Effect
  <2>2. QED
    BY <2>1, <1>9, <1>14, SameAgree
<1>15. CASE e.type \in {"ended", "rejected"}
  <2>1. q.tools = p.tools
    BY <1>1, <1>15 DEF Effect
  <2>2. \A c \in DOMAIN p.tools : c \in Called(h)
    BY <1>15, NoneAhead DEF Agree
  <2>3. Called(g) = Called(h) /\ \A c \in Called(h) : Rows(g)[c] = Rows(h)[c]
    BY <1>9, <1>15
  <2>4. QED
    BY <2>1, <2>2, <2>3 DEF Agree
<1>16. QED
  BY <1>1, <1>7, <1>8, <1>10, <1>12, <1>13, <1>14, <1>15 DEF Boundary, InTurn, OfCall

LEMMA ToldShown ==
    ASSUME NEW p, NEW i, NEW e, NEW h, NEW g, NEW q, Told(p, i, e, h, g, q),
           ShownOfTurn(log, p)
    PROVE  ShownOfTurn(log, q)
<1>1. /\ Effect(p, i, e, q) /\ e.type \in Boundary \cup InTurn /\ i \in DOMAIN log /\ q.upto = i
      /\ e.type \in InTurn => p.current = e.turn
      /\ e.type = "ended" => p.current = e.turn
      /\ e.type = "rejected" => p.current = None
      /\ p.upto \in Nat /\ i = p.upto + 1 /\ e = log[i] /\ e.turn \in Nat \ {0}
  BY ToldOf DEF Told
<1>2. /\ p.current # None =>
            /\ p.terminal = None /\ (p.error => FailureTold(log, p.upto, p.current))
            /\ \A j \in p.files : j <= p.upto /\ Is(log, j, "changed", p.current)
      /\ p.current = None => ~p.stopping
  BY DEF ShownOfTurn
<1>3. CASE e.type = "started"
  <2>1. q.terminal = None /\ q.error = FALSE /\ q.files = {} /\ q.stopping = FALSE
    BY <1>1, <1>3 DEF Effect, Boundary
  <2>2. QED
    BY <2>1 DEF ShownOfTurn
<1>4. CASE e.type \in {"ended", "rejected"}
  <2>1. q.current = None /\ q.stopping = FALSE
    BY <1>1, <1>4 DEF Effect, Boundary
  <2>2. QED
    BY <2>1 DEF ShownOfTurn
<1>5. CASE e.type \in InTurn
  <2>1. /\ q.terminal = p.terminal /\ q.current = p.current
        /\ q.error = IF e.type = "model_error" THEN TRUE ELSE p.error
        /\ q.files = IF e.type = "changed" THEN p.files \cup {i} ELSE p.files
    BY <1>1, <1>5 DEF Effect, Boundary, InTurn, OfCall
  <2>2. p.current # None
    BY <1>1, <1>5 DEF None
  <2>3. ASSUME NEW j \in q.files PROVE j <= q.upto /\ Is(log, j, "changed", q.current)
    <3>1. CASE j \in p.files
      <4>1. j <= p.upto /\ Is(log, j, "changed", p.current)
        BY <3>1, <1>2, <2>2
      <4>2. j \in Nat
        <5>1. j \in DOMAIN log /\ log \in Seq(Event)
          BY <4>1 DEF Is, Told, Grammar
        <5>2. QED
          BY <5>1, EventFields
      <4>3. j <= q.upto
        BY <4>1, <4>2, <1>1
      <4>4. QED
        BY <4>1, <4>3, <2>1
    <3>2. CASE j \notin p.files
      <4>1. j = i /\ e.type = "changed"
        BY <2>1, <2>3, <3>2
      <4>2. Is(log, j, "changed", p.current)
        BY <4>1, <1>1, <1>5 DEF Is
      <4>3. j <= q.upto
        BY <4>1, <1>1
      <4>4. QED
        BY <4>2, <4>3, <2>1
    <3>3. QED
      BY <3>1, <3>2
  <2>4. q.error => FailureTold(log, q.upto, q.current)
    <3>1. CASE e.type = "model_error"
      <4>1. i \in DOMAIN log /\ i <= q.upto /\ Is(log, i, "model_error", q.current)
        BY <3>1, <2>1, <1>1, <1>5 DEF Is
      <4>2. QED
        BY <4>1 DEF FailureTold
    <3>2. CASE e.type # "model_error"
      <4> SUFFICES ASSUME q.error PROVE FailureTold(log, q.upto, q.current)
        OBVIOUS
      <4>1. FailureTold(log, p.upto, p.current)
        BY <3>2, <2>1, <2>2, <1>2
      <4>2. PICK j \in DOMAIN log : j <= p.upto /\ Is(log, j, "model_error", p.current)
        BY <4>1 DEF FailureTold
      <4>3. j \in Nat
        <5>1. log \in Seq(Event)
          BY DEF Told, Grammar
        <5>2. QED
          BY <5>1, <4>2, EventFields
      <4>4. j <= q.upto
        BY <4>2, <4>3, <1>1
      <4>5. QED
        BY <4>2, <4>4, <2>1 DEF FailureTold
    <3>3. QED
      BY <3>1, <3>2
  <2>5. QED
    BY <2>1, <2>2, <2>3, <2>4, <1>2 DEF ShownOfTurn
<1>6. QED
  BY <1>1, <1>3, <1>4, <1>5 DEF Boundary

LEMMA ToldRest ==
    ASSUME NEW p, NEW i, NEW e, NEW h, NEW g, NEW q, Told(p, i, e, h, g, q),
           HostInv(log, host), ShownOfTurn(log, p)
    PROVE  ShownAtRest(log, host, q)
<1> SUFFICES ASSUME host.stage = "idle", q.upto = Len(log)
             PROVE  LET ended == LastEnd(log) IN
                      /\ q.terminal = IF host.failed THEN Rejected ELSE ended
                      /\ host.failed \/ Fails(ended) => q.error
                      /\ q.error => \/ host.failed \/ Fails(ended)
                                    \/ ErrorTold(log, log[Len(log)].turn)
                      /\ ~host.failed => q.files = Files(ended)
  BY DEF ShownAtRest
<1>1. /\ Effect(p, i, e, q) /\ i \in DOMAIN log /\ q.upto = i /\ i \in Nat \ {0}
      /\ After(h, g) /\ e = g[Len(g)] /\ Len(g) = i
      /\ e.type = "ended" => p.current = e.turn
      /\ i = p.upto + 1 /\ e = log[i] /\ e.turn \in Nat \ {0} /\ Grammar(log) /\ g = Seen(i)
      /\ p.upto \in Nat
  BY ToldOf DEF Told
<1>2. i = Len(log) /\ log # <<>> /\ log \in Seq(Event)
  BY <1>1 DEF Grammar
<1>3. e.type = IF host.failed THEN "rejected" ELSE "ended"
  BY <1>1, <1>2 DEF HostInv, Rests
<1>4. CASE host.failed
  <2>1. e.type = "rejected"
    BY <1>3, <1>4
  <2>2. q.terminal = Rejected /\ q.error = TRUE
    BY <1>1, <2>1 DEF Effect
  <2>3. QED
    BY <2>2, <1>4
<1>5. CASE ~host.failed
  <2>1. e.type = "ended"
    BY <1>3, <1>5
  <2>2. q.terminal = i /\ q.error = (p.error \/ Fails(i)) /\ q.files = p.files \cup Files(i)
    BY <1>1, <2>1 DEF Effect
  <2>3. LastEnd(log) = i
    <3>1. Grammar(log) /\ Is(log, i, "ended", e.turn)
      BY <1>1, <2>1 DEF Is
    <3>2. i <= LastEnd(log) /\ LastEnd(log) \in 0..Len(log)
      BY <3>1, <1>1, Positions DEF Is
    <3>3. QED
      BY <3>2, <1>1, <1>2
  <2>4. p.current # None
    BY <1>1, <2>1 DEF None
  <2>5. /\ p.error => FailureTold(log, p.upto, p.current)
        /\ \A j \in p.files : j <= p.upto /\ Is(log, j, "changed", p.current)
    BY <2>4 DEF ShownOfTurn
  <2>6. p.files \subseteq Files(i)
    <3> SUFFICES ASSUME NEW j \in p.files PROVE j \in Files(i)
      OBVIOUS
    <3>1. j <= p.upto /\ Is(log, j, "changed", p.current)
      BY <2>5
    <3>2. j \in Nat /\ j >= 1
      <4>1. j \in DOMAIN log
        BY <3>1 DEF Is
      <4>2. QED
        BY <4>1, <1>2, EventFields
    <3>3. j \in 1..i /\ log[j].type = "changed" /\ log[j].turn = log[i].turn
      BY <3>1, <3>2, <1>1, <2>1 DEF Is
    <3>4. QED
      BY <3>3, <1>1, FilesTyped
  <2>7. q.files = Files(i)
    BY <2>2, <2>6
  <2>8. p.error => ErrorTold(log, log[Len(log)].turn)
    <3> SUFFICES ASSUME p.error PROVE ErrorTold(log, log[Len(log)].turn)
      OBVIOUS
    <3>1. PICK j \in DOMAIN log : Is(log, j, "model_error", p.current)
      BY <2>5 DEF FailureTold
    <3>2. p.current = log[Len(log)].turn
      BY <1>1, <1>2, <2>1
    <3>3. QED
      BY <3>1, <3>2 DEF ErrorTold, At, Is
  <2>9. QED
    BY <2>2, <2>3, <2>7, <2>8, <1>5
<1>6. QED
  BY <1>4, <1>5

LEMMA PendingIs ==
    ASSUME Grammar(log), HostInv(log, host), Pending # None
    PROVE  /\ Pending = host.approval /\ Waits(log, host) /\ Pending \in DOMAIN log
           /\ host.stage = "asking" /\ host.decision = "none"
<1>1. Pending = host.approval /\ host.stage = "asking" /\ host.decision = "none"
  BY DEF Pending
<1>2. QED
  BY <1>1 DEF HostInv, Waits, Is

LEMMA ToldPending ==
    ASSUME NEW p, NEW i, NEW e, NEW h, NEW g, NEW q, Told(p, i, e, h, g, q),
           HostInv(log, host), Pending # None /\ Pending <= p.upto => p.approval = Pending
    PROVE  Pending # None /\ Pending <= q.upto => q.approval = Pending
<1> SUFFICES ASSUME Pending # None, Pending <= q.upto
             PROVE  q.approval = Pending
  OBVIOUS
<1>1. /\ Effect(p, i, e, q) /\ i \in DOMAIN log /\ q.upto = i /\ i \in Nat \ {0}
      /\ i = p.upto + 1 /\ e = log[i] /\ Grammar(log) /\ p.upto \in Nat
  BY ToldOf DEF Told
<1>2. /\ Is(log, Pending, "asked", host.turn)
      /\ \A x \in DOMAIN log : x > Pending => log[x].type = "stopping"
      /\ Pending \in DOMAIN log
  BY <1>1, PendingIs DEF Waits
<1>3. Pending \in Nat
  BY <1>1, <1>2, EventFields DEF Grammar
<1>4. CASE Pending = i
  <2>1. e.type = "asked"
    BY <1>1, <1>2, <1>4 DEF Is
  <2>2. QED
    BY <2>1, <1>1, <1>4 DEF Effect, Boundary
<1>5. CASE Pending # i
  <2>1. i > Pending /\ Pending <= p.upto
    BY <1>1, <1>3, <1>5
  <2>2. e.type = "stopping" /\ p.approval = Pending
    BY <2>1, <1>1, <1>2
  <2>3. QED
    BY <2>2, <1>1 DEF Effect, Boundary
<1>6. QED
  BY <1>4, <1>5

-----------------------------------------------------------------------------
(* The page's own steps: what stays when neither the log nor the Host moves.   *)
LEMMA NextPage ==
    ASSUME UNCHANGED <<log, host>>, NEW q, q = page',
           q.messages = Messages(Seen(q.upto)), q.current = ActiveTurn(Seen(q.upto)),
           RowsAgree(log, q), ShownOfTurn(log, q), ShownAtRest(log, host, q),
           Pending # None /\ Pending <= q.upto => q.approval = Pending
    PROVE  PageInv'
<1>1. Pending' = Pending
  BY DEF Pending
<1>2. (page.messages = Messages(Seen(page.upto)))' /\ (page.current = ActiveTurn(Seen(page.upto)))'
  BY DEF Seen
<1>3. RowsAgree(log, page)' /\ ShownOfTurn(log, page)'
  BY DEF RowsAgree, ShownOfTurn
<1>4. ShownAtRest(log, host, page)'
  BY DEF ShownAtRest, Files, Fails, Seen
<1>5. (Pending # None /\ Pending <= page.upto => page.approval = Pending)'
  BY <1>1
<1>6. QED
  BY <1>2, <1>3, <1>4, <1>5 DEF PageInv

LEMMA SameView ==
    ASSUME UNCHANGED <<log, host>>, NEW view, ViewOk(view)
    PROVE  ViewOk(view)'
BY DEF ViewOk, AskedCall, Seen, Pending

LEMMA SameFlight ==
    ASSUME UNCHANGED <<log, host, losses>>, NEW f, FlightOk(f),
           f.kind # "recover" => action'.approval = action.approval
    PROVE  FlightOk(f)'
<1>1. Pending' = Pending
  BY DEF Pending
<1>2. ViewOk(f.view) => ViewOk(f.view)'
  BY SameView
<1>3. QED
  BY <1>1, <1>2 DEF FlightOk

LEMMA GuardIs ==
    ASSUME NEW a, NEW p, a = [approval |-> a.approval, phase |-> a.phase],
           a.phase \in {"none", "submitting", "settled"}, a.phase = "none" => a = NoAction,
           NEW g, g = Guarded(a, p)
    PROVE  /\ g = [approval |-> g.approval, phase |-> g.phase]
           /\ g.phase \in {"none", "submitting", "settled"} /\ (g.phase = "none" => g = NoAction)
           /\ g.phase = "submitting" <=> a.phase = "submitting"
           /\ g.phase \in {"submitting", "settled"} => g = a
           /\ g.phase = "settled" => p.approval = a.approval
           /\ a.phase # "settled" => g = a
BY DEF Guarded, NoAction

(* The guard of a card that is settled is given up when the card goes. *)
LEMMA GuardStep ==
    ASSUME CardInv, UNCHANGED <<log, host, losses>>, action' = Guarded(action, page'),
           flight' \subseteq flight, Card' = Card
    PROVE  CardInv'
<1>1. /\ action = [approval |-> action.approval, phase |-> action.phase]
      /\ action.phase \in {"none", "submitting", "settled"}
      /\ action.phase = "none" => action = NoAction
      /\ action.phase = "submitting" <=> Card # {}
      /\ \A f \in flight : FlightOk(f)
      /\ \A f, k \in Card : f = k
      /\ action.phase = "settled" => /\ action.approval # None /\ page.approval = action.approval
                                     /\ losses = 0 => action.approval # Pending
  BY DEF CardInv
<1> DEFINE a == action'
           q == page'
<1>2. /\ a = [approval |-> a.approval, phase |-> a.phase]
      /\ a.phase \in {"none", "submitting", "settled"} /\ (a.phase = "none" => a = NoAction)
      /\ a.phase = "submitting" <=> action.phase = "submitting"
      /\ a.phase \in {"submitting", "settled"} => a = action
      /\ a.phase = "settled" => q.approval = action.approval
      /\ action.phase # "settled" => a = action
  BY <1>1, GuardIs
<1> HIDE DEF a
<1>3. Pending' = Pending
  BY DEF Pending
<1>4. ASSUME NEW f \in flight' PROVE FlightOk(f)'
  <2>1. f.kind # "recover" => f \in Card
    BY <1>1, <1>4 DEF Card, FlightOk
  <2>2. f.kind # "recover" => a.approval = action.approval
    BY <2>1, <1>1, <1>2
  <2>3. QED
    BY <1>1, <1>4, <2>2, SameFlight DEF a
<1>5. a.phase = "settled" => /\ a.approval # None /\ q.approval = a.approval
                             /\ losses = 0 => a.approval # Pending
  BY <1>1, <1>2
<1>6. QED
  BY <1>1, <1>2, <1>3, <1>4, <1>5 DEF CardInv, a

LEMMA DeliverStep ==
    ASSUME IInv, Deliver PROVE IInv'
<1> DEFINE p == page
           q == page'
           i == page.upto + 1
           e == log[i]
           h == Seen(page.upto)
           g == Seen(i)
<1>1. /\ Grammar(log) /\ HostInv(log, host) /\ p \in PageState /\ cursor = p.upto
      /\ p.upto \in 0..Len(log) /\ p.approval \in 0..Len(log)
      /\ p.approval # None => p.current # None
      /\ misled \in BOOLEAN /\ losses \in Nat /\ CardInv /\ (~misled => PageInv)
  BY DEF IInv
<1>2. /\ p.upto < Len(log) /\ cursor' = i /\ q = Applied(p, i) /\ action' = Guarded(action, page')
      /\ UNCHANGED <<log, host, link, flight, misled, losses>>
  BY <1>1 DEF Deliver
<1>3. i \in DOMAIN log /\ i \in 0..Len(log) /\ Len(log) \in Nat
  BY <1>1, <1>2, SeenNext DEF Grammar
<1>4. q \in PageState /\ q.upto = i
  BY <1>1, <1>2, <1>3, AppliedFields
<1>5. q.approval \in 0..Len(log) /\ (q.approval # None => q.current # None)
  BY <1>1, <1>2, <1>3, CardHasTurn
<1>6. ~misled => PageInv'
  <2> SUFFICES ASSUME ~misled PROVE PageInv'
    OBVIOUS
  <2>1. /\ p.messages = Messages(h) /\ p.current = ActiveTurn(h) /\ RowsAgree(log, p)
        /\ ShownOfTurn(log, p) /\ ShownAtRest(log, host, p)
        /\ Pending # None /\ Pending <= p.upto => p.approval = Pending
    BY <1>1 DEF PageInv
  <2>2. Told(p, i, e, h, g, q)
    BY <1>1, <1>2, <2>1 DEF Told
  <2> HIDE DEF p, q, i, e, h, g
  <2>3. q.current = ActiveTurn(g) /\ q.messages = Messages(g)
    BY <2>1, <2>2, ToldCurrent, ToldMessages
  <2>4. RowsAgree(log, q)
    <3>1. Agree(p.tools, h, p.current)
      BY <2>1, RowsAgreeIs DEF h, p
    <3>2. Agree(q.tools, g, q.current)
      BY <2>2, <3>1, ToldRows
    <3>3. Agree(q.tools, Seen(q.upto), q.current)
      BY <3>2, <1>4 DEF g
    <3>4. QED
      BY <3>3, RowsAgreeIs
  <2>5. ShownOfTurn(log, q) /\ ShownAtRest(log, host, q)
    BY <1>1, <2>1, <2>2, ToldShown, ToldRest
  <2>6. Pending # None /\ Pending <= q.upto => q.approval = Pending
    BY <1>1, <2>1, <2>2, ToldPending
  <2>7. g = Seen(q.upto)
    BY <1>4 DEF g
  <2>8. QED
    BY <1>2, <2>3, <2>4, <2>5, <2>6, <2>7, NextPage DEF q
<1>7. CardInv'
  BY <1>1, <1>2, GuardStep DEF Card
<1>8. Grammar(log)' /\ HostInv(log, host)'
  BY <1>1, <1>2
<1>9. QED
  BY <1>1, <1>2, <1>3, <1>4, <1>5, <1>6, <1>7, <1>8 DEF IInv

-----------------------------------------------------------------------------
(* The Host's steps: what a page shows, and what is on its way, is about events *)
(* that stay.                                                                  *)
LEMMA SeenStays ==
    ASSUME Grammar(log), HostStep, NEW n \in 0..Len(log)
    PROVE  SubSeq(log', 1, n) = SubSeq(log, 1, n) /\ n \in 0..Len(log') /\ n <= Len(log')
<1> DEFINE a == SubSeq(log, 1, n)
           b == SubSeq(log', 1, n)
<1>1. /\ Len(log) \in Nat /\ Len(log') \in Nat /\ Len(log) <= Len(log')
      /\ \A i \in DOMAIN log : i \in DOMAIN log' /\ log'[i] = log[i]
      /\ Grammar(log') /\ log \in Seq(Event) /\ log' \in Seq(Event)
  BY DEF HostStep, Prefix, Grammar
<1>2. n \in 0..Len(log')
  BY <1>1
<1>3. /\ Grammar(a) /\ Prefix(a, log) /\ Len(a) = n /\ DOMAIN a = 1..n
      /\ Grammar(b) /\ Prefix(b, log') /\ Len(b) = n /\ DOMAIN b = 1..n
  BY <1>1, <1>2, Cut
<1> HIDE DEF a, b
<1>4. \A i \in 1..n : a[i] = b[i]
  BY <1>1, <1>3 DEF Prefix
<1>5. a = b
  <2>1. a = [i \in 1..n |-> a[i]] /\ b = [i \in 1..n |-> b[i]]
    BY <1>3 DEF Grammar
  <2>2. QED
    BY <2>1, <1>4
<1>6. QED
  BY <1>1, <1>2, <1>5 DEF a, b

LEMMA IsStays ==
    ASSUME NEW l, NEW g, Prefix(l, g), NEW i, NEW type, NEW t, Is(l, i, type, t)
    PROVE  Is(g, i, type, t)
BY DEF Is, Prefix

LEMMA PageKeeps ==
    ASSUME Grammar(log), HostStep, page \in PageState, page.upto \in 0..Len(log),
           UNCHANGED page, PageInv
    PROVE  PageInv'
<1> DEFINE n == page.upto
           h == SubSeq(log, 1, n)
<1>1. SubSeq(log', 1, n) = h /\ n <= Len(log') /\ Prefix(log, log')
  BY SeenStays DEF HostStep
<1>2. /\ page.messages = Messages(h) /\ page.current = ActiveTurn(h) /\ RowsAgree(log, page)
      /\ ShownOfTurn(log, page)
      /\ Pending # None /\ Pending <= page.upto => page.approval = Pending
  BY DEF PageInv, Seen
<1>3. (page.messages = Messages(Seen(page.upto)))' /\ (page.current = ActiveTurn(Seen(page.upto)))'
  BY <1>1, <1>2 DEF Seen
<1>4. RowsAgree(log, page)'
  <2>1. \A c, t : (\E i \in At(log, {"asked"}) : log[i].arg = c /\ log[i].turn = t) =>
                  (\E i \in At(log', {"asked"}) : log'[i].arg = c /\ log'[i].turn = t)
    BY <1>1 DEF At, Prefix
  <2> DEFINE rows == Rows(h)
  <2>2. /\ DOMAIN rows \subseteq DOMAIN page.tools
        /\ \A c \in DOMAIN page.tools :
             IF c \in DOMAIN rows
               THEN page.tools[c] \in {rows[c]} \cup IF rows[c] = "requested" THEN {"running"} ELSE {}
               ELSE /\ page.tools[c] = "requested"
                    /\ \E i \in At(log, {"asked"}) : log[i].arg = c /\ log[i].turn = page.current
    BY <1>2 DEF RowsAgree
  <2>3. rows = Rows(SubSeq(log', 1, page'.upto)) /\ page' = page
    BY <1>1
  <2> HIDE DEF rows
  <2>4. /\ DOMAIN rows \subseteq DOMAIN page.tools
        /\ \A c \in DOMAIN page.tools :
             IF c \in DOMAIN rows
               THEN page.tools[c] \in {rows[c]} \cup IF rows[c] = "requested" THEN {"running"} ELSE {}
               ELSE /\ page.tools[c] = "requested"
                    /\ \E i \in At(log', {"asked"}) : log'[i].arg = c /\ log'[i].turn = page.current
    BY <2>1, <2>2
  <2>5. QED
    BY <2>3, <2>4 DEF RowsAgree
<1>5. ShownOfTurn(log, page)'
  <2>1. \A t : FailureTold(log, n, t) => FailureTold(log', n, t)
    BY <1>1, IsStays DEF FailureTold, Prefix
  <2> HIDE DEF n
  <2>2. /\ page.current # None =>
              /\ page.terminal = None /\ (page.error => FailureTold(log', n, page.current))
              /\ \A i \in page.files : i <= n /\ Is(log', i, "changed", page.current)
        /\ page.current = None => ~page.stopping
    BY <2>1, <1>1, <1>2, IsStays DEF ShownOfTurn, n
  <2>3. QED
    BY <2>2 DEF ShownOfTurn, n
<1>6. ShownAtRest(log, host, page)'
  <2>1. host'.stage = "idle" => Len(log') > Len(log)
    BY DEF HostStep
  <2>2. Len(log) \in Nat /\ Len(log') \in Nat
    BY DEF HostStep, Grammar
  <2>3. ~(host'.stage = "idle" /\ page'.upto = Len(log'))
    BY <2>1, <2>2
  <2>4. QED
    BY <2>3 DEF ShownAtRest
<1>7. (Pending # None /\ Pending <= page.upto => page.approval = Pending)'
  <2>1. Pending' = Pending \/ Pending' = None \/ Pending' > Len(log)
    BY DEF HostStep
  <2>2. Pending' # None => Pending' \in Nat
    BY DEF HostStep, HostInv, HostState, Pending
  <2>3. Len(log) \in Nat
    BY DEF Grammar
  <2>4. QED
    BY <1>2, <2>1, <2>2, <2>3 DEF None
<1>8. QED
  BY <1>3, <1>4, <1>5, <1>6, <1>7 DEF PageInv

LEMMA ViewKeeps ==
    ASSUME Grammar(log), HostStep, NEW view, ViewOk(view)
    PROVE  ViewOk(view)'
<1>1. /\ view = [n |-> view.n, pending |-> view.pending, failed |-> view.failed,
                 submitted |-> view.submitted]
      /\ view.n \in 0..Len(log) /\ view.pending \in 0..view.n
      /\ {view.failed, view.submitted} \subseteq BOOLEAN
      /\ view.pending # None =>
            /\ Is(log, view.pending, "asked", ActiveTurn(Seen(view.n)))
            /\ AskedCall(view.pending) \in Called(Seen(view.n))
      /\ Pending # None /\ Pending <= view.n => view.pending = Pending
      /\ ActiveTurn(Seen(view.n)) # None => view.submitted
  BY DEF ViewOk
<1>2. Seen(view.n)' = Seen(view.n) /\ view.n \in 0..Len(log') /\ Prefix(log, log')
  BY <1>1, SeenStays DEF Seen, HostStep
<1>3. view.pending # None => /\ Is(log', view.pending, "asked", ActiveTurn(Seen(view.n)))
                             /\ AskedCall(view.pending)' = AskedCall(view.pending)
  BY <1>1, <1>2 DEF Is, AskedCall, Prefix
<1>4. /\ Pending' = Pending \/ Pending' = None \/ Pending' > Len(log)
      /\ Pending' # None => Pending' \in Nat
      /\ Len(log) \in Nat /\ Len(log') \in Nat
      /\ host'.stage = "idle" => Len(log') > Len(log)
  BY DEF HostStep, Grammar, HostInv, HostState, Pending
<1>5. Pending' # None /\ Pending' <= view.n => view.pending = Pending'
  BY <1>1, <1>4 DEF None
<1>6. ~(view.n = Len(log') /\ host'.stage = "idle")
  BY <1>1, <1>4
<1>7. None' = None
  BY DEF None
<1>8. QED
  BY <1>1, <1>2, <1>3, <1>5, <1>6, <1>7 DEF ViewOk

LEMMA FlightKeeps ==
    ASSUME Grammar(log), HostStep, UNCHANGED <<action, losses>>, NEW f, FlightOk(f)
    PROVE  FlightOk(f)'
<1>1. /\ Pending' = Pending \/ Pending' = None \/ Pending' > Len(log)
      /\ Len(log) \in Nat /\ Len(log') \in Nat /\ Len(log) <= Len(log') 
      /\ Pending' # None => Pending' \in Nat
  BY DEF HostStep, Prefix, Grammar, HostInv, HostState, Pending
<1>2. ViewOk(f.view) => ViewOk(f.view)'
  BY ViewKeeps
<1>3. f.kind # "recover" =>
          /\ f.key \in 1..Len(log) /\ f.key \in 1..Len(log') /\ f.key = action.approval
          /\ f.key # Pending => f.key # Pending'
  BY <1>1 DEF FlightOk, None
<1>4. /\ f = [kind |-> f.kind, key |-> f.key, yes |-> f.yes, phase |-> f.phase, view |-> f.view]
      /\ f.kind \in {"recover", "resolve", "reconcile"} /\ f.phase \in {"sent", "ok", "refused"}
      /\ f.yes \in BOOLEAN
      /\ f.kind # "resolve" /\ f.phase = "ok" => ViewOk(f.view)
      /\ f.kind = "resolve" /\ f.phase = "ok" => f.key # Pending
      /\ f.kind = "reconcile" /\ f.yes => f.key # Pending
      /\ losses = 0 /\ f.kind = "resolve" /\ f.phase = "refused" => f.key # Pending
      /\ losses = 0 /\ f.kind = "reconcile" => f.key # Pending /\ f.phase # "refused"
  BY DEF FlightOk
<1>5. action' = action /\ losses' = losses
  OBVIOUS
<1>6. QED
  BY <1>2, <1>3, <1>4, <1>5 DEF FlightOk

LEMMA HostKeeps ==
    ASSUME IInv, HostStep, UNCHANGED <<client, flight>> PROVE IInv'
<1>1. /\ Grammar(log) /\ HostInv(log, host) /\ page \in PageState /\ cursor = page.upto
      /\ cursor \in 0..Len(log) /\ page.approval \in 0..Len(log)
      /\ page.approval # None => page.current # None
      /\ misled \in BOOLEAN /\ losses \in Nat /\ CardInv /\ (~misled => PageInv)
  BY DEF IInv
<1>2. UNCHANGED <<page, cursor, action, misled, losses, flight>>
  BY DEF client
<1>3. /\ Grammar(log') /\ HostInv(log', host') /\ Len(log) \in Nat /\ Len(log') \in Nat
      /\ Len(log) <= Len(log')
      /\ Pending' = Pending \/ Pending' = None \/ Pending' > Len(log)
  BY <1>1 DEF HostStep, Prefix, Grammar
<1>4. ~misled => PageInv'
  BY <1>1, <1>2, PageKeeps
<1>5. cursor \in 0..Len(log') /\ page.approval \in 0..Len(log')
  BY <1>1, <1>3
<1>6. CardInv'
  <2>1. /\ \A f \in flight : FlightOk(f)
        /\ \A f, g \in Card : f = g
        /\ action = [approval |-> action.approval, phase |-> action.phase]
        /\ action.phase \in {"none", "submitting", "settled"}
        /\ action.phase = "none" => action = NoAction
        /\ action.phase = "submitting" <=> Card # {}
        /\ action.phase = "settled" => /\ action.approval # None /\ page.approval = action.approval
                                       /\ losses = 0 => action.approval # Pending
    BY <1>1 DEF CardInv
  <2>2. \A f \in flight : FlightOk(f)'
    BY <1>1, <1>2, <2>1, FlightKeeps
  <2>3. Card' = Card
    BY <1>2 DEF Card
  <2>4. action.phase = "settled" => (losses = 0 => action.approval # Pending')
    BY <1>1, <1>3, <2>1
  <2>5. QED
    BY <1>2, <2>1, <2>2, <2>3, <2>4 DEF CardInv
<1>7. QED
  BY <1>1, <1>2, <1>3, <1>4, <1>5, <1>6 DEF IInv

-----------------------------------------------------------------------------
(* Requests and their answers: one of those on their way is replaced.          *)
LEMMA AnswerIs ==
    ASSUME NEW f, f = [kind |-> f.kind, key |-> f.key, yes |-> f.yes, phase |-> f.phase,
                       view |-> f.view],
           NEW phase, NEW view, NEW k, k = [f EXCEPT !.phase = phase, !.view = view]
    PROVE  /\ k = [kind |-> k.kind, key |-> k.key, yes |-> k.yes, phase |-> k.phase,
                   view |-> k.view]
           /\ k.kind = f.kind /\ k.key = f.key /\ k.yes = f.yes /\ k.phase = phase
           /\ k.view = view
OBVIOUS

LEMMA Replaced ==
    ASSUME NEW f \in flight, \A x, y \in Card : x = y, NEW k, k.kind = f.kind,
           flight' = (flight \ {f}) \cup {k}
    PROVE  (Card' # {} <=> Card # {}) /\ \A x, y \in Card' : x = y
<1>1. \A x : /\ x \in Card <=> x \in flight /\ x.kind \in {"resolve", "reconcile"}
             /\ x \in Card' <=> x \in flight' /\ x.kind \in {"resolve", "reconcile"}
             /\ x \in flight' <=> (x \in flight /\ x # f) \/ x = k
  BY DEF Card
<1>2. CASE f \in Card
  <2>1. \A x : x \in Card' <=> x = k
    BY <1>1, <1>2
  <2>2. QED
    BY <2>1, <1>2
<1>3. CASE f \notin Card
  <2>1. \A x : x \in Card' <=> x \in Card
    BY <1>1, <1>3
  <2>2. QED
    BY <2>1
<1>4. QED
  BY <1>2, <1>3

LEMMA AnswerStep ==
    ASSUME CardInv, UNCHANGED <<page, action>>, \A x \in flight : FlightOk(x)',
           NEW f \in flight, NEW phase, NEW view, Answer(f, phase, view),
           NEW k, k = [f EXCEPT !.phase = phase, !.view = view], FlightOk(k)',
           losses' = 0 => losses = 0,
           action.phase = "settled" /\ losses' = 0 => action.approval # Pending'
    PROVE  CardInv'
<1>1. /\ \A x \in flight : FlightOk(x)
      /\ \A x, y \in Card : x = y
      /\ action = [approval |-> action.approval, phase |-> action.phase]
      /\ action.phase \in {"none", "submitting", "settled"}
      /\ action.phase = "none" => action = NoAction
      /\ action.phase = "submitting" <=> Card # {}
      /\ action.phase = "settled" => action.approval # None /\ page.approval = action.approval
  BY DEF CardInv
<1>2. k.kind = f.kind
  <2>1. f = [kind |-> f.kind, key |-> f.key, yes |-> f.yes, phase |-> f.phase, view |-> f.view]
    BY <1>1 DEF FlightOk
  <2>2. QED
    BY <2>1, AnswerIs
<1>3. flight' = (flight \ {f}) \cup {k}
  BY DEF Answer
<1>4. (Card' # {} <=> Card # {}) /\ \A x, y \in Card' : x = y
  BY <1>1, <1>2, <1>3, Replaced
<1>5. \A x \in flight' : FlightOk(x)'
  BY <1>3
<1>6. QED
  BY <1>1, <1>4, <1>5 DEF CardInv

LEMMA WholeLog == ASSUME Grammar(log) PROVE Seen(Len(log)) = log
<1>1. log \in Seq(Event) /\ Len(log) \in 0..Len(log) /\ DOMAIN log = 1..Len(log)
  BY DEF Grammar
<1> DEFINE a == Seen(Len(log))
<1>2. Prefix(a, log) /\ DOMAIN a = 1..Len(log) /\ Grammar(a)
  BY <1>1, Cut DEF Seen
<1> HIDE DEF a
<1>3. \A i \in 1..Len(log) : a[i] = log[i]
  BY <1>2 DEF Prefix
<1>4. a = [i \in 1..Len(log) |-> a[i]] /\ log = [i \in 1..Len(log) |-> log[i]]
  BY <1>1, <1>2 DEF Grammar
<1>5. a = log
  BY <1>3, <1>4
<1>6. QED
  BY <1>5 DEF a

LEMMA ViewIsOk ==
    ASSUME Grammar(log), HostInv(log, host) PROVE ViewOk(View)
<1> DEFINE n == Len(log)
           v == View
<1>1. v = [n |-> n, pending |-> Pending, failed |-> host.failed,
           submitted |-> host.stage # "idle"]
  BY DEF View
<1>2. /\ v.n = n /\ v.pending = Pending /\ v.failed = host.failed
      /\ v.submitted = (host.stage # "idle")
      /\ v = [n |-> v.n, pending |-> v.pending, failed |-> v.failed, submitted |-> v.submitted]
  BY <1>1
<1>3. n \in Nat /\ n \in 0..n /\ Seen(n) = log /\ DOMAIN log = 1..n
  BY WholeLog DEF Grammar
<1> HIDE DEF n, v
<1>4. host.failed \in BOOLEAN /\ {v.failed, v.submitted} \subseteq BOOLEAN
  BY <1>2 DEF HostInv, HostState
<1>5. Pending \in 0..n
  <2>1. Pending # None => Pending \in DOMAIN log
    BY PendingIs
  <2>2. QED
    BY <2>1, <1>3 DEF None
<1>6. ASSUME Pending # None
      PROVE  /\ Is(log, Pending, "asked", ActiveTurn(log))
             /\ AskedCall(Pending) \in Called(log)
  <2>1. /\ Pending = host.approval /\ Waits(log, host) /\ host.stage = "asking"
        /\ Pending \in DOMAIN log
    BY <1>6, PendingIs
  <2>2. Open(log, host.turn, host.calls)
    BY <2>1 DEF HostInv
  <2>3. Is(log, Pending, "asked", host.turn)
    BY <2>1 DEF Waits
  <2>4. Running(log, host.turn)
    <3>1. \A m \in DOMAIN log : log[m].type \in {"ended", "rejected"} => log[m].turn < host.turn
      BY <2>2 DEF Open
    <3>2. host.turn \in Nat
      BY <2>2 DEF Open
    <3>3. \A m \in DOMAIN log : ~Is(log, m, "ended", host.turn)
      BY <3>1, <3>2 DEF Is
    <3>4. QED
      BY <3>3, <2>2 DEF Running, Open
  <2>5. /\ ActiveTurn(log) = host.turn /\ Is(log, TurnStart(log), "started", host.turn)
        /\ \A i \in DOMAIN log : log[i].turn = host.turn <=> i >= TurnStart(log)
    BY <2>4, ActiveRuns
  <2>6. Pending > TurnStart(log)
    <3>1. Pending >= TurnStart(log) /\ Pending # TurnStart(log)
      BY <2>3, <2>5 DEF Is
    <3>2. TurnStart(log) \in 0..Len(log) /\ Pending \in Nat
      BY <2>1, <1>3, Positions
    <3>3. QED
      BY <3>1, <3>2
  <2>7. log[Pending].arg \in Called(log)
    BY <2>1, <2>3, <2>6, CallOf DEF Is, OfCall
  <2>8. QED
    BY <2>3, <2>5, <2>7 DEF AskedCall
<1>7. ActiveTurn(log) # None => v.submitted
  <2> SUFFICES ASSUME host.stage = "idle" PROVE ActiveTurn(log) = None
    BY <1>2
  <2>1. Closed(log, host.turn)
    BY DEF HostInv
  <2>2. QED
    BY <2>1, RowsSettled
<1>8. ViewOk(v)
  BY <1>2, <1>3, <1>4, <1>5, <1>6, <1>7 DEF ViewOk, n
<1>9. QED
  BY <1>8 DEF v

LEMMA StillPage ==
    ASSUME UNCHANGED <<log, host, page>>, PageInv PROVE PageInv'
BY NextPage DEF PageInv

LEMMA HandleStep ==
    ASSUME IInv, Handle PROVE IInv'
<1>1. /\ Grammar(log) /\ HostInv(log, host) /\ page \in PageState /\ cursor = page.upto
      /\ cursor \in 0..Len(log) /\ page.approval \in 0..Len(log)
      /\ page.approval # None => page.current # None
      /\ misled \in BOOLEAN /\ losses \in Nat /\ CardInv /\ (~misled => PageInv)
  BY DEF IInv
<1>2. /\ \A x \in flight : FlightOk(x)
      /\ action.phase = "settled" => /\ action.approval # None /\ page.approval = action.approval
                                     /\ losses = 0 => action.approval # Pending
  BY <1>1 DEF CardInv
<1>3. PICK f \in flight : f.phase = "sent" /\ (HandleGet(f) \/ HandleResolve(f))
  BY DEF Handle
<1>4. UNCHANGED <<log, page, cursor, action, misled, losses>>
  BY DEF Handle, client
<1>5. FlightOk(f)
  BY <1>2, <1>3
<1>6. /\ f = [kind |-> f.kind, key |-> f.key, yes |-> f.yes, phase |-> f.phase, view |-> f.view]
      /\ f.kind \in {"recover", "resolve", "reconcile"} /\ f.yes \in BOOLEAN
      /\ f.kind # "recover" => f.key \in 1..Len(log) /\ f.key = action.approval
      /\ f.kind = "reconcile" /\ f.yes => f.key # Pending
      /\ losses = 0 /\ f.kind = "reconcile" => f.key # Pending
  BY <1>5 DEF FlightOk
<1>7. CASE HandleGet(f)
  <2>1. f.kind \in {"recover", "reconcile"} /\ Answer(f, "ok", View) /\ UNCHANGED host
    BY <1>7 DEF HandleGet
  <2>2. PICK v : v = View
    OBVIOUS
  <2>3. ViewOk(v)
    BY <1>1, <2>2, ViewIsOk
  <2>4. Answer(f, "ok", v)
    BY <2>2, <2>1
  <2>5. PICK k : k = [f EXCEPT !.phase = "ok", !.view = v]
    OBVIOUS
  <2>6. /\ k = [kind |-> k.kind, key |-> k.key, yes |-> k.yes, phase |-> k.phase, view |-> k.view]
        /\ k.kind = f.kind /\ k.key = f.key /\ k.yes = f.yes /\ k.phase = "ok" /\ k.view = v
    BY <1>6, <2>5, AnswerIs
  <2>7. FlightOk(k)
    BY <1>6, <2>1, <2>3, <2>6 DEF FlightOk
  <2>8. FlightOk(k)' /\ \A x \in flight : FlightOk(x)'
    BY <1>2, <1>4, <2>1, <2>7, SameFlight
  <2>9. Pending' = Pending
    BY <2>1 DEF Pending
  <2>10. CardInv'
    BY <1>1, <1>2, <1>3, <1>4, <2>4, <2>5, <2>8, <2>9, AnswerStep
  <2>11. ~misled => PageInv'
    BY <1>1, <1>4, <2>1, StillPage
  <2>12. QED
    BY <1>1, <1>4, <2>1, <2>10, <2>11 DEF IInv
<1>8. CASE HandleResolve(f) /\ Pending # f.key
  <2>1. f.kind = "resolve" /\ Answer(f, "refused", <<>>) /\ UNCHANGED host
    BY <1>8 DEF HandleResolve
  <2>2. PICK k : k = [f EXCEPT !.phase = "refused", !.view = <<>>]
    OBVIOUS
  <2>3. /\ k = [kind |-> k.kind, key |-> k.key, yes |-> k.yes, phase |-> k.phase, view |-> k.view]
        /\ k.kind = f.kind /\ k.key = f.key /\ k.yes = f.yes /\ k.phase = "refused"
    BY <1>6, <2>2, AnswerIs
  <2>4. FlightOk(k)
    BY <1>6, <1>8, <2>1, <2>3 DEF FlightOk
  <2>5. FlightOk(k)' /\ \A x \in flight : FlightOk(x)'
    BY <1>2, <1>4, <2>1, <2>4, SameFlight
  <2>6. Pending' = Pending
    BY <2>1 DEF Pending
  <2>7. CardInv'
    BY <1>1, <1>2, <1>3, <1>4, <2>1, <2>2, <2>5, <2>6, AnswerStep
  <2>8. ~misled => PageInv'
    BY <1>1, <1>4, <2>1, StillPage
  <2>9. QED
    BY <1>1, <1>4, <2>1, <2>7, <2>8 DEF IInv
<1>9. CASE HandleResolve(f) /\ Pending = f.key
  <2> DEFINE d == IF f.yes THEN "approved" ELSE "denied"
  <2>1. f.kind = "resolve" /\ Answer(f, "ok", <<>>) /\ host' = [host EXCEPT !.decision = d]
    BY <1>9 DEF HandleResolve
  <2>2. f.key \in 1..Len(log) /\ f.key # None /\ Len(log) \in Nat
    BY <1>1, <1>6, <2>1 DEF None, Grammar
  <2>3. host.stage = "asking" /\ HostInv(log, host) /\ Waits(log, host)
    BY <1>1, <1>9, <2>2, PendingIs
  <2>4. d \in {"approved", "denied"}
    OBVIOUS
  <2> HIDE DEF d
  <2>5. /\ host' \in HostState /\ host'.stage = "asking" /\ host'.turn = host.turn
        /\ host'.calls = host.calls /\ host'.call = host.call /\ host'.approval = host.approval
        /\ host'.failed = host.failed /\ host'.decision = d
    BY <2>1, <2>3, <2>4 DEF HostInv, HostState
  <2>6. HostInv(log, host')
    BY <2>3, <2>5 DEF HostInv, DoneCalls, Waits
  <2>7. Pending' = None
    BY <2>4, <2>5 DEF Pending, None
  <2>8. HostStep
    <3>1. Prefix(log, log) /\ log' = log
      BY <1>4, <2>2 DEF Prefix
    <3>2. host'.stage # "idle"
      BY <2>5
    <3>3. QED
      BY <1>1, <2>6, <2>7, <3>1, <3>2 DEF HostStep
  <2>9. PICK k : k = [f EXCEPT !.phase = "ok", !.view = <<>>]
    OBVIOUS
  <2>10. /\ k = [kind |-> k.kind, key |-> k.key, yes |-> k.yes, phase |-> k.phase, view |-> k.view]
         /\ k.kind = f.kind /\ k.key = f.key /\ k.yes = f.yes /\ k.phase = "ok"
    BY <1>6, <2>9, AnswerIs
  <2>11. \A x \in flight : FlightOk(x)'
    BY <1>1, <1>2, <1>4, <2>8, FlightKeeps
  <2>12. FlightOk(k)'
    <3>1. k.key # Pending' /\ k.key \in 1..Len(log') /\ k.key = action'.approval
      BY <1>4, <1>6, <2>1, <2>2, <2>7, <2>10
    <3>2. QED
      BY <1>6, <2>1, <2>10, <3>1 DEF FlightOk
  <2>13. CardInv'
    BY <1>1, <1>2, <1>3, <1>4, <2>1, <2>7, <2>9, <2>11, <2>12, AnswerStep
  <2>14. ~misled => PageInv'
    BY <1>1, <1>4, <2>8, PageKeeps
  <2>15. QED
    BY <1>1, <1>4, <2>6, <2>13, <2>14 DEF IInv
<1>10. QED
  BY <1>3, <1>7, <1>8, <1>9

LEMMA LoseStep ==
    ASSUME IInv, Lose PROVE IInv'
<1>1. /\ Grammar(log) /\ HostInv(log, host) /\ page \in PageState /\ cursor = page.upto
      /\ cursor \in 0..Len(log) /\ page.approval \in 0..Len(log)
      /\ page.approval # None => page.current # None
      /\ misled \in BOOLEAN /\ losses \in Nat /\ CardInv /\ (~misled => PageInv)
  BY DEF IInv
<1>2. PICK f \in flight : f.phase # "refused" /\ Answer(f, "refused", <<>>)
  BY DEF Lose
<1>3. UNCHANGED <<log, host, page, link, cursor, action, misled>> /\ losses' = losses + 1
  BY DEF Lose
<1>4. losses' \in Nat /\ losses' # 0 /\ Pending' = Pending
  BY <1>1, <1>3 DEF Pending
<1>5. ASSUME NEW x, FlightOk(x) PROVE FlightOk(x)'
  <2>1. ViewOk(x.view) => ViewOk(x.view)'
    BY <1>3, SameView
  <2>2. QED
    BY <1>3, <1>4, <1>5, <2>1 DEF FlightOk
<1>6. \A x \in flight : FlightOk(x)
  BY <1>1 DEF CardInv
<1>7. f = [kind |-> f.kind, key |-> f.key, yes |-> f.yes, phase |-> f.phase, view |-> f.view]
  BY <1>2, <1>6 DEF FlightOk
<1>8. PICK k : k = [f EXCEPT !.phase = "refused", !.view = <<>>]
  OBVIOUS
<1>9. /\ k = [kind |-> k.kind, key |-> k.key, yes |-> k.yes, phase |-> k.phase, view |-> k.view]
      /\ k.kind = f.kind /\ k.key = f.key /\ k.yes = f.yes /\ k.phase = "refused"
  BY <1>7, <1>8, AnswerIs
<1>10. FlightOk(k)'
  <2>1. FlightOk(f)
    BY <1>2, <1>6
  <2>2. QED
    BY <1>3, <1>4, <1>9, <2>1 DEF FlightOk
<1>11. CardInv'
  BY <1>1, <1>2, <1>3, <1>4, <1>5, <1>6, <1>8, <1>10, AnswerStep
<1>12. ~misled => PageInv'
  BY <1>1, <1>3, StillPage
<1>13. QED
  BY <1>1, <1>3, <1>4, <1>11, <1>12 DEF IInv

LEMMA DisconnectStep ==
    ASSUME IInv, Disconnect PROVE IInv'
<1>1. /\ Grammar(log) /\ HostInv(log, host) /\ page \in PageState /\ cursor = page.upto
      /\ cursor \in 0..Len(log) /\ page.approval \in 0..Len(log)
      /\ page.approval # None => page.current # None
      /\ misled \in BOOLEAN /\ losses \in Nat /\ CardInv /\ (~misled => PageInv)
  BY DEF IInv
<1> DEFINE k == Request("recover", None, TRUE)
<1>2. /\ UNCHANGED <<log, host, page, cursor, action, misled>> /\ losses' = losses + 1
      /\ flight' = flight \cup {k}
  BY DEF Disconnect
<1>3. losses' \in Nat /\ losses' # 0 /\ Pending' = Pending
  BY <1>1, <1>2 DEF Pending
<1>4. ASSUME NEW x, FlightOk(x) PROVE FlightOk(x)'
  <2>1. ViewOk(x.view) => ViewOk(x.view)'
    BY <1>2, SameView
  <2>2. QED
    BY <1>2, <1>3, <1>4, <2>1 DEF FlightOk
<1>5. /\ k = [kind |-> k.kind, key |-> k.key, yes |-> k.yes, phase |-> k.phase, view |-> k.view]
      /\ k.kind = "recover" /\ k.phase = "sent" /\ k.yes = TRUE
  BY DEF Request
<1> HIDE DEF k
<1>6. FlightOk(k)'
  BY <1>5 DEF FlightOk
<1>7. Card' = Card
  BY <1>2, <1>5 DEF Card
<1>8. CardInv'
  BY <1>1, <1>2, <1>3, <1>4, <1>6, <1>7 DEF CardInv
<1>9. ~misled => PageInv'
  BY <1>1, <1>2, StillPage
<1>10. QED
  BY <1>1, <1>2, <1>3, <1>8, <1>9 DEF IInv

LEMMA ClickStep ==
    ASSUME IInv, Click PROVE IInv'
<1>1. /\ Grammar(log) /\ HostInv(log, host) /\ page \in PageState /\ cursor = page.upto
      /\ cursor \in 0..Len(log) /\ page.approval \in 0..Len(log)
      /\ page.approval # None => page.current # None
      /\ misled \in BOOLEAN /\ losses \in Nat /\ CardInv /\ (~misled => PageInv)
  BY DEF IInv
<1>2. /\ page.approval # None /\ action = NoAction
      /\ action' = [approval |-> page.approval, phase |-> "submitting"]
      /\ UNCHANGED <<log, host, page, link, cursor, misled, losses>>
  BY DEF Click
<1>3. PICK yes \in BOOLEAN : flight' = flight \cup {Request("resolve", page.approval, yes)}
  BY DEF Click
<1>4. PICK k : k = Request("resolve", page.approval, yes)
  OBVIOUS
<1>5. /\ k = [kind |-> k.kind, key |-> k.key, yes |-> k.yes, phase |-> k.phase, view |-> k.view]
      /\ k.kind = "resolve" /\ k.phase = "sent" /\ k.yes = yes /\ k.key = page.approval
  BY <1>4 DEF Request
<1>6. flight' = flight \cup {k}
  BY <1>3, <1>4
<1>7. Card = {} /\ \A x \in flight : FlightOk(x)
  <2>1. action.phase # "submitting"
    BY <1>2 DEF NoAction
  <2>2. QED
    BY <2>1, <1>1 DEF CardInv
<1>8. \A x \in flight : x.kind = "recover"
  BY <1>7 DEF Card, FlightOk
<1>9. \A x \in flight : FlightOk(x)'
  BY <1>2, <1>7, <1>8, SameFlight
<1>10. /\ action'.approval = page.approval /\ action'.phase = "submitting"
       /\ action' = [approval |-> action'.approval, phase |-> action'.phase]
  BY <1>2
<1>11. FlightOk(k)'
  <2>1. page.approval \in 1..Len(log) /\ log' = log
    BY <1>1, <1>2 DEF None, Grammar
  <2>2. QED
    BY <1>5, <1>10, <2>1 DEF FlightOk
<1>12. \A x : x \in Card' <=> x = k
  <2>1. \A x : x \in Card' <=> x \in flight' /\ x.kind \in {"resolve", "reconcile"}
    BY DEF Card
  <2>2. QED
    BY <2>1, <1>5, <1>6, <1>8
<1>13. CardInv'
  <2>1. \A x \in flight' : FlightOk(x)'
    BY <1>6, <1>9, <1>11
  <2>2. Card' # {} /\ \A x, y \in Card' : x = y
    BY <1>12
  <2>3. QED
    BY <1>10, <2>1, <2>2 DEF CardInv
<1>14. ~misled => PageInv'
  BY <1>1, <1>2, StillPage
<1>15. QED
  BY <1>1, <1>2, <1>13, <1>14 DEF IInv

-----------------------------------------------------------------------------
(* What a Snapshot brings. *)
LEMMA RowsTyped ==
    ASSUME NEW h, Grammar(h) PROVE Rows(h) \in ToolMaps
<1>1. Called(h) \in SUBSET Nat
  <2> SUFFICES ASSUME NEW c \in Called(h) PROVE c \in Nat
    OBVIOUS
  <2>1. PICK j \in DOMAIN h : c \in 1..h[j].arg
    BY InCalled
  <2>2. h[j].arg \in Nat
    BY EventFields DEF Grammar
  <2>3. QED
    BY <2>1, <2>2
<1>2. DOMAIN Rows(h) = Called(h) /\ \A c \in Called(h) : Rows(h)[c] \in Statuses
  BY RowDomain, RowValue DEF Statuses
<1>3. Rows(h) = [c \in Called(h) |-> Rows(h)[c]]
  BY DEF Rows
<1>4. Rows(h) \in [Called(h) -> Statuses]
  BY <1>2, <1>3
<1>5. QED
  BY <1>1, <1>4, IsToolMap

LEMMA AskedMerges ==
    ASSUME NEW p \in PageState, NEW a \in Nat, a # None => AskedCall(a) \in Nat,
           NEW q, q = WithApproval(p, a)
    PROVE  /\ q \in PageState /\ q.messages = p.messages /\ q.files = p.files
           /\ q.terminal = p.terminal /\ q.error = p.error /\ q.stopping = p.stopping
           /\ q.approval = a /\ q.current = p.current /\ q.upto = p.upto
           /\ a = None => q.tools = p.tools
           /\ a # None =>
                /\ DOMAIN q.tools = DOMAIN p.tools \cup {AskedCall(a)}
                /\ \A c \in DOMAIN q.tools :
                      q.tools[c] = IF c \in DOMAIN p.tools THEN p.tools[c] ELSE "requested"
                /\ AskedCall(a) \in DOMAIN p.tools => q.tools = p.tools
<1>1. None \in Nat
  BY DEF None
<1>2. CASE a = None
  <2>1. q = [p EXCEPT !.approval = None]
    BY <1>2 DEF WithApproval
  <2>2. /\ q \in PageState /\ q.messages = p.messages /\ q.tools = p.tools /\ q.files = p.files
        /\ q.terminal = p.terminal /\ q.error = p.error /\ q.stopping = p.stopping
        /\ q.approval = None /\ q.current = p.current /\ q.upto = p.upto
    BY <2>1, <1>1 DEF PageState
  <2>3. QED
    BY <2>2, <1>2
<1>3. CASE a # None
  <2> DEFINE calls == {AskedCall(a)}
             t == p.tools
             m == MergeTools(t, calls, "requested")
  <2>1. q = [p EXCEPT !.approval = a, !.tools = m]
    BY <1>3 DEF WithApproval, MergeTool
  <2>2. t \in ToolMaps /\ calls \in SUBSET Nat
    BY <1>3 DEF PageState
  <2>3. calls \subseteq DOMAIN t <=> AskedCall(a) \in DOMAIN t
    OBVIOUS
  <2>4. m = MergeTools(t, calls, "requested")
    OBVIOUS
  <2> HIDE DEF m
  <2>5. calls = {AskedCall(a)} /\ t = p.tools
    OBVIOUS
  <2> HIDE DEF calls, t
  <2>6. /\ m \in ToolMaps /\ DOMAIN m = DOMAIN t \cup calls
        /\ \A c \in DOMAIN m : m[c] = IF c \in DOMAIN t THEN t[c] ELSE "requested"
        /\ calls \subseteq DOMAIN t => m = t
    <3>1. Asks(m, t, calls)
      BY <2>2, <2>4, MergeRequested
    <3>2. QED
      BY <3>1 DEF Asks
  <2>7. /\ q \in PageState /\ q.messages = p.messages /\ q.tools = m /\ q.files = p.files
        /\ q.terminal = p.terminal /\ q.error = p.error /\ q.stopping = p.stopping
        /\ q.approval = a /\ q.current = p.current /\ q.upto = p.upto
    BY <2>1, <2>6 DEF PageState
  <2>8. QED
    BY <1>3, <2>3, <2>5, <2>6, <2>7
<1>4. QED
  BY <1>2, <1>3

(* Page q shows the view: h is what it tells of. *)
ShowsView(q, view, h) ==
    /\ q \in PageState /\ q.upto = view.n /\ q.messages = Messages(h)
    /\ q.tools = Rows(h) /\ q.current = ActiveTurn(h) /\ q.stopping = FALSE
    /\ q.approval = view.pending
    /\ view.submitted => q.files = {} /\ q.terminal = None /\ q.error = FALSE
    /\ ~view.submitted =>
          /\ q.files = Files(LastEnd(h)) /\ q.error = (view.failed \/ Fails(LastEnd(h)))
          /\ q.terminal = IF view.failed THEN Rejected ELSE LastEnd(h)

LEMMA HydratedFields ==
    ASSUME Grammar(log), NEW view, ViewOk(view), NEW q, q = Hydrated(view),
           NEW h, h = Seen(view.n)
    PROVE  ShowsView(q, view, h)
<1>1. /\ view.n \in 0..Len(log) /\ view.pending \in 0..view.n
      /\ view.failed \in BOOLEAN /\ view.submitted \in BOOLEAN /\ Len(log) \in Nat
      /\ view.pending # None => AskedCall(view.pending) \in Called(h)
  BY DEF ViewOk, Grammar
<1>2. Grammar(h) /\ Len(h) = view.n /\ DOMAIN h = 1..view.n /\ view.n \in Nat
  BY <1>1, Cut DEF Seen
<1> DEFINE ended == LastEnd(h)
           msgs == Messages(h)
           rows == Rows(h)
           turn == ActiveTurn(h)
           fs == Files(ended)
           err == view.failed \/ Fails(ended)
           last == IF view.failed THEN Rejected ELSE ended
           none == [c \in {} |-> None]
<1>3. /\ msgs \in Seq(Nat) /\ rows \in ToolMaps /\ turn \in Nat /\ err \in BOOLEAN
      /\ ended \in 0..view.n /\ last \in Int
  <2>1. ended \in 0..view.n
    BY <1>2, Positions
  <2>2. last \in Int
    BY <2>1, <1>2 DEF Rejected
  <2>3. err \in BOOLEAN
    BY <1>1 DEF Fails
  <2>4. msgs \in Seq(Nat) /\ rows \in ToolMaps /\ turn \in Nat
    BY <1>2, MessagesSeq, RowsTyped, ActiveRuns
  <2>5. QED
    BY <2>1, <2>2, <2>3, <2>4
<1>4. fs \in SUBSET Nat
  <2>1. CASE ended = None
    BY <2>1 DEF Files
  <2>2. CASE ended # None
    <3>1. ended \in DOMAIN log
      BY <1>1, <1>3, <2>2 DEF None, Grammar
    <3>2. QED
      BY <3>1, FilesTyped
  <2>3. QED
    BY <2>1, <2>2
<1>5. none \in ToolMaps /\ <<>> \in Seq(Nat) /\ None \in Nat /\ None \in Int /\ {} \in SUBSET Nat
  BY NoTools DEF None
<1> DEFINE rest == [Blank EXCEPT !.messages = msgs, !.tools = rows, !.current = turn,
                                 !.upto = view.n]
           full == [rest EXCEPT !.files = fs, !.terminal = last, !.error = err]
           p == IF view.submitted THEN rest ELSE full
<1>6. q = WithApproval(p, view.pending)
  BY DEF Hydrated
<1>7. Blank = [messages |-> <<>>, tools |-> none, files |-> {}, terminal |-> None,
               error |-> FALSE, stopping |-> FALSE, approval |-> None, current |-> None,
               upto |-> 0]
  BY DEF Blank
<1>8. rest = [Blank EXCEPT !.messages = msgs, !.tools = rows, !.current = turn,
                            !.upto = view.n]
  OBVIOUS
<1>9. full = [rest EXCEPT !.files = fs, !.terminal = last, !.error = err]
  OBVIOUS
<1> HIDE DEF ended, msgs, rows, turn, fs, err, last, none, rest
<1>10. rest = [messages |-> msgs, tools |-> rows, files |-> {}, terminal |-> None,
              error |-> FALSE, stopping |-> FALSE, approval |-> None, current |-> turn,
              upto |-> view.n]
  BY <1>7, <1>8
<1> HIDE DEF full
<1>11. full = [messages |-> msgs, tools |-> rows, files |-> fs, terminal |-> last,
              error |-> err, stopping |-> FALSE, approval |-> None, current |-> turn,
              upto |-> view.n]
  BY <1>9, <1>10
<1>12. rest \in PageState /\ full \in PageState
  BY <1>2, <1>3, <1>4, <1>5, <1>10, <1>11 DEF PageState
<1>13. /\ p \in PageState /\ p.messages = msgs /\ p.tools = rows /\ p.stopping = FALSE
       /\ p.current = turn /\ p.upto = view.n
       /\ view.submitted => p.files = {} /\ p.terminal = None /\ p.error = FALSE
       /\ ~view.submitted => p.files = fs /\ p.terminal = last /\ p.error = err
  BY <1>1, <1>10, <1>11, <1>12
<1> HIDE DEF p
<1>14. DOMAIN rows = Called(h)
  BY RowDomain DEF rows
<1>15. view.pending \in Nat /\ (view.pending # None => AskedCall(view.pending) \in Nat)
  <2>1. DOMAIN rows \in SUBSET Nat
    BY <1>3, ToolMapIs
  <2>2. QED
    BY <2>1, <1>1, <1>14
<1>16. q.tools = rows
  <2>1. view.pending = None => q.tools = p.tools
    BY <1>6, <1>13, <1>15, AskedMerges
  <2>2. view.pending # None => (AskedCall(view.pending) \in DOMAIN p.tools => q.tools = p.tools)
    BY <1>6, <1>13, <1>15, AskedMerges
  <2>3. QED
    BY <2>1, <2>2, <1>1, <1>13, <1>14
<1>17. /\ q \in PageState /\ q.messages = p.messages /\ q.files = p.files
       /\ q.terminal = p.terminal /\ q.error = p.error /\ q.stopping = p.stopping
       /\ q.approval = view.pending /\ q.current = p.current /\ q.upto = p.upto
  BY <1>6, <1>13, <1>15, AskedMerges
<1>18. QED
  BY <1>13, <1>16, <1>17 DEF msgs, rows, turn, fs, err, last, ended, ShowsView

LEMMA HydratedAgrees ==
    ASSUME Grammar(log), HostInv(log, host), NEW view, ViewOk(view), NEW q, q = Hydrated(view)
    PROVE  /\ q.messages = Messages(Seen(q.upto)) /\ q.current = ActiveTurn(Seen(q.upto))
           /\ RowsAgree(log, q) /\ ShownOfTurn(log, q) /\ ShownAtRest(log, host, q)
           /\ Pending # None /\ Pending <= q.upto => q.approval = Pending
<1> DEFINE h == Seen(view.n)
<1>1. /\ q \in PageState /\ q.upto = view.n /\ q.messages = Messages(h)
      /\ q.tools = Rows(h) /\ q.current = ActiveTurn(h) /\ q.stopping = FALSE
      /\ q.approval = view.pending
      /\ view.submitted => q.files = {} /\ q.terminal = None /\ q.error = FALSE
      /\ ~view.submitted =>
           /\ q.files = Files(LastEnd(h)) /\ q.error = (view.failed \/ Fails(LastEnd(h)))
           /\ q.terminal = IF view.failed THEN Rejected ELSE LastEnd(h)
  <2>1. ShowsView(q, view, h)
    BY HydratedFields
  <2> HIDE DEF h
  <2>2. QED
    BY <2>1 DEF ShowsView
<1>2. /\ ActiveTurn(h) # None => view.submitted
      /\ view.n = Len(log) /\ host.stage = "idle" => ~view.submitted /\ view.failed = host.failed
      /\ Pending # None /\ Pending <= view.n => view.pending = Pending
  BY DEF ViewOk
<1>3. h = Seen(q.upto)
  BY <1>1
<1> HIDE DEF h
<1>4. RowsAgree(log, q)
  <2>1. DOMAIN Rows(h) = Called(h)
    BY RowDomain
  <2>2. Agree(q.tools, h, q.current)
    BY <1>1, <2>1 DEF Agree
  <2>3. QED
    BY <1>3, <2>2, RowsAgreeIs
<1>5. ShownOfTurn(log, q)
  BY <1>1, <1>2 DEF ShownOfTurn
<1>6. ShownAtRest(log, host, q)
  <2> SUFFICES ASSUME host.stage = "idle", q.upto = Len(log) PROVE ShownAtRest(log, host, q)
    BY DEF ShownAtRest
  <2>1. h = log
    BY <1>3, WholeLog
  <2>2. ~view.submitted /\ view.failed = host.failed
    BY <1>1, <1>2
  <2>3. QED
    <3>1. (q.error <=> host.failed \/ Fails(LastEnd(log))) /\ q.files = Files(LastEnd(log))
      BY <1>1, <2>1, <2>2
    <3>2. q.terminal = IF host.failed THEN Rejected ELSE LastEnd(log)
      BY <1>1, <2>1, <2>2
    <3>3. QED
      BY <3>1, <3>2 DEF ShownAtRest
<1>7. QED
  BY <1>1, <1>2, <1>3, <1>4, <1>5, <1>6

(* A card of a view is one of its Turn. *)
LEMMA ViewCard ==
    ASSUME Grammar(log), NEW view, ViewOk(view)
    PROVE  /\ view.pending \in 0..Len(log) /\ view.pending \in Nat /\ view.n \in 0..Len(log)
           /\ view.pending # None =>
                /\ ActiveTurn(Seen(view.n)) # None /\ AskedCall(view.pending) \in Nat
                /\ Ahead(AskedCall(view.pending), ActiveTurn(Seen(view.n)))
<1>1. /\ view.n \in 0..Len(log) /\ view.pending \in 0..view.n /\ Len(log) \in Nat
      /\ view.pending # None => Is(log, view.pending, "asked", ActiveTurn(Seen(view.n)))
  BY DEF ViewOk, Grammar
<1>2. ASSUME view.pending # None
      PROVE  /\ ActiveTurn(Seen(view.n)) # None /\ AskedCall(view.pending) \in Nat
             /\ Ahead(AskedCall(view.pending), ActiveTurn(Seen(view.n)))
  <2>1. Is(log, view.pending, "asked", ActiveTurn(Seen(view.n)))
    BY <1>1, <1>2
  <2>2. log[view.pending].turn \in Nat \ {0} /\ log[view.pending].arg \in Nat
    BY <2>1, EventFields DEF Is, Grammar
  <2>3. QED
    BY <2>1, <2>2 DEF Is, Ahead, At, AskedCall, None
<1>3. QED
  BY <1>1, <1>2

LEMMA RecoveredStep ==
    ASSUME IInv, UNCHANGED <<log, host, losses>>, NEW f \in flight, f.phase # "sent",
           Recovered(f)
    PROVE  IInv'
<1>1. /\ Grammar(log) /\ HostInv(log, host) /\ page \in PageState /\ cursor = page.upto
      /\ cursor \in 0..Len(log) /\ page.approval \in 0..Len(log)
      /\ page.approval # None => page.current # None
      /\ misled \in BOOLEAN /\ losses \in Nat /\ CardInv /\ (~misled => PageInv)
  BY DEF IInv
<1>2. f.kind = "recover" /\ flight' = flight \ {f} /\ action' = Guarded(action, page')
  BY DEF Recovered
<1>3. CardInv'
  <2>1. Card' = Card
    BY <1>2 DEF Card
  <2>2. QED
    BY <1>1, <1>2, <2>1, GuardStep
<1>4. CASE f.phase # "ok"
  <2>1. UNCHANGED <<page, cursor, misled>>
    BY <1>4 DEF Recovered
  <2>2. ~misled => PageInv'
    BY <1>1, <2>1, StillPage
  <2>3. QED
    BY <1>1, <1>3, <2>1, <2>2 DEF IInv
<1>5. CASE f.phase = "ok"
  <2>1. page' = Hydrated(f.view) /\ cursor' = f.view.n /\ misled' = FALSE
    BY <1>5 DEF Recovered
  <2>2. ViewOk(f.view)
    <3>1. FlightOk(f)
      BY <1>1 DEF CardInv
    <3>2. QED
      BY <3>1, <1>2, <1>5 DEF FlightOk
  <2> DEFINE view == f.view
             q == page'
  <2>3. ViewOk(view) /\ q = Hydrated(view)
    BY <2>1, <2>2
  <2> HIDE DEF view
  <2>4. /\ q \in PageState /\ q.upto = view.n /\ q.current = ActiveTurn(Seen(view.n))
        /\ q.approval = view.pending
    <3>1. ShowsView(q, view, Seen(view.n))
      BY <1>1, <2>3, HydratedFields
    <3>2. QED
      BY <3>1 DEF ShowsView
  <2>5. /\ view.n \in 0..Len(log) /\ view.pending \in 0..Len(log)
        /\ view.pending # None => ActiveTurn(Seen(view.n)) # None
    BY <1>1, <2>3, ViewCard
  <2>6. /\ q.messages = Messages(Seen(q.upto)) /\ q.current = ActiveTurn(Seen(q.upto))
        /\ RowsAgree(log, q) /\ ShownOfTurn(log, q) /\ ShownAtRest(log, host, q)
        /\ Pending # None /\ Pending <= q.upto => q.approval = Pending
    BY <1>1, <2>3, HydratedAgrees
  <2>7. PageInv'
    BY <2>6, NextPage
  <2>8. page' \in PageState /\ cursor' = page'.upto /\ misled' \in BOOLEAN
    BY <2>1, <2>4 DEF view
  <2>9. cursor' \in 0..Len(log) /\ page'.approval \in 0..Len(log)
        /\ (page'.approval # None => page'.current # None)
    BY <2>1, <2>4, <2>5 DEF view
  <2>10. QED
    BY <1>1, <1>3, <2>7, <2>8, <2>9 DEF IInv
<1>6. QED
  BY <1>4, <1>5

LEMMA ResolvedCard ==
    ASSUME UNCHANGED <<log, host>>, page \in PageState, NEW key, key # Pending,
           page' = Resolved(page, key)
    PROVE  /\ page' \in PageState /\ page'.upto = page.upto /\ page'.current = page.current
           /\ page'.approval \in {None, page.approval}
           /\ PageInv => PageInv'
<1> DEFINE q == page'
<1>1. q = IF page.approval = key THEN [page EXCEPT !.approval = None] ELSE page
  BY DEF Resolved
<1>2. None \in Nat
  BY DEF None
<1>3. /\ q \in PageState /\ q.messages = page.messages /\ q.tools = page.tools
      /\ q.files = page.files /\ q.terminal = page.terminal /\ q.error = page.error
      /\ q.stopping = page.stopping /\ q.current = page.current /\ q.upto = page.upto
      /\ q.approval = IF page.approval = key THEN None ELSE page.approval
  BY <1>1, <1>2 DEF PageState
<1>4. ASSUME PageInv PROVE PageInv'
  <2>1. q.messages = Messages(Seen(q.upto)) /\ q.current = ActiveTurn(Seen(q.upto))
    BY <1>3, <1>4 DEF PageInv
  <2>2. RowsAgree(log, q) /\ ShownOfTurn(log, q) /\ ShownAtRest(log, host, q)
    BY <1>3, <1>4 DEF PageInv, RowsAgree, ShownOfTurn, ShownAtRest
  <2>3. Pending # None /\ Pending <= q.upto => q.approval = Pending
    BY <1>3, <1>4 DEF PageInv
  <2>4. QED
    BY <2>1, <2>2, <2>3, NextPage
<1>5. QED
  BY <1>3, <1>4

LEMMA ResolveAnsweredStep ==
    ASSUME IInv, UNCHANGED <<log, host, losses>>, NEW f \in flight, f.phase # "sent",
           ResolveAnswered(f)
    PROVE  IInv'
<1>1. /\ Grammar(log) /\ HostInv(log, host) /\ page \in PageState /\ cursor = page.upto
      /\ cursor \in 0..Len(log) /\ page.approval \in 0..Len(log)
      /\ page.approval # None => page.current # None
      /\ misled \in BOOLEAN /\ losses \in Nat /\ CardInv /\ (~misled => PageInv)
  BY DEF IInv
<1> DEFINE accepted == f.phase = "ok"
<1>2. PICK k : k = Request("reconcile", f.key, accepted)
  OBVIOUS
<1>3. /\ f.kind = "resolve" /\ flight' = (flight \ {f}) \cup {k}
      /\ page' = IF f.phase = "ok" THEN Resolved(page, f.key) ELSE page
      /\ UNCHANGED <<cursor, action, misled>>
  BY <1>2 DEF ResolveAnswered
<1>4. /\ \A x \in flight : FlightOk(x)
      /\ \A x, y \in Card : x = y
      /\ action = [approval |-> action.approval, phase |-> action.phase]
      /\ action.phase \in {"none", "submitting", "settled"}
      /\ action.phase = "none" => action = NoAction
      /\ action.phase = "submitting" <=> Card # {}
  BY <1>1 DEF CardInv
<1>5. f \in Card /\ action.phase = "submitting"
  BY <1>3, <1>4 DEF Card
<1>6. FlightOk(f)
  BY <1>4
<1>7. /\ f.phase \in {"ok", "refused"} /\ f.key \in 1..Len(log) /\ f.key = action.approval
      /\ f.phase = "ok" => f.key # Pending
      /\ losses = 0 => f.key # Pending
  BY <1>3, <1>6 DEF FlightOk
<1>8. /\ page' \in PageState /\ page'.upto = page.upto /\ page'.current = page.current
      /\ page'.approval \in {None, page.approval}
      /\ PageInv => PageInv'
  <2>1. CASE f.phase = "ok"
    BY <1>1, <1>3, <1>7, <2>1, ResolvedCard
  <2>2. CASE f.phase # "ok"
    BY <1>1, <1>3, <2>2, StillPage
  <2>3. QED
    BY <2>1, <2>2
<1>9. /\ k = [kind |-> k.kind, key |-> k.key, yes |-> k.yes, phase |-> k.phase, view |-> k.view]
      /\ k.kind = "reconcile" /\ k.key = f.key /\ k.yes = accepted /\ k.phase = "sent"
  BY <1>2 DEF Request
<1>10. FlightOk(k)
  BY <1>7, <1>9 DEF FlightOk
<1>11. \A x \in flight' : FlightOk(x)'
  <2>1. \A x : FlightOk(x) => FlightOk(x)'
    BY <1>3, SameFlight
  <2>2. QED
    BY <1>3, <1>4, <1>10, <2>1
<1>12. Card' # {} /\ \A x, y \in Card' : x = y
  <2>1. \A x : /\ x \in Card <=> x \in flight /\ x.kind \in {"resolve", "reconcile"}
               /\ x \in Card' <=> x \in flight' /\ x.kind \in {"resolve", "reconcile"}
               /\ x \in flight' <=> (x \in flight /\ x # f) \/ x = k
    BY <1>3 DEF Card
  <2>2. \A x : x \in Card' <=> x = k
    BY <2>1, <1>4, <1>5, <1>9
  <2>3. QED
    BY <2>2
<1>13. CardInv'
  BY <1>3, <1>4, <1>5, <1>11, <1>12 DEF CardInv
<1>14. page'.approval \in 0..Len(log) /\ (page'.approval # None => page'.current # None)
  BY <1>1, <1>8 DEF None, Grammar
<1>15. QED
  BY <1>1, <1>3, <1>8, <1>13, <1>14 DEF IInv

(* A reconciliation that fits the page's events. *)
LEMMA ReconciledAgrees ==
    ASSUME UNCHANGED <<log, host>>, Grammar(log), HostInv(log, host), page \in PageState,
           page.upto \in 0..Len(log), NEW view, ViewOk(view), page' = Reconciled(page, view)
    PROVE  /\ page' \in PageState /\ page'.upto = page.upto
           /\ page'.approval \in 0..Len(log) /\ (page'.approval # None => page'.current # None)
           /\ PageInv /\ ~Misfits(view) => PageInv'
<1> DEFINE turn == ActiveTurn(Seen(view.n))
           p == [page EXCEPT !.current = turn]
           q == page'
           a == view.pending
<1>1. /\ a \in 0..Len(log) /\ a \in Nat /\ view.n \in 0..Len(log)
      /\ a # None => turn # None /\ AskedCall(a) \in Nat /\ Ahead(AskedCall(a), turn)
  BY ViewCard
<1>2. turn \in Nat
  <2>1. Grammar(Seen(view.n))
    BY <1>1, Cut DEF Seen
  <2>2. QED
    BY <2>1, ActiveRuns
<1>3. q = WithApproval(p, a)
  BY DEF Reconciled
<1>4. p = [page EXCEPT !.current = turn]
  OBVIOUS
<1>5. turn = ActiveTurn(Seen(view.n)) /\ a = view.pending
  OBVIOUS
<1> HIDE DEF p, turn, a
<1>6. /\ p \in PageState /\ p.messages = page.messages /\ p.tools = page.tools
      /\ p.files = page.files /\ p.terminal = page.terminal /\ p.error = page.error
      /\ p.stopping = page.stopping /\ p.approval = page.approval /\ p.current = turn
      /\ p.upto = page.upto
  BY <1>2, <1>4 DEF PageState
<1>7. /\ q \in PageState /\ q.messages = p.messages /\ q.files = p.files
      /\ q.terminal = p.terminal /\ q.error = p.error /\ q.stopping = p.stopping
      /\ q.approval = a /\ q.current = p.current /\ q.upto = p.upto
      /\ a = None => q.tools = p.tools
      /\ a # None =>
           /\ DOMAIN q.tools = DOMAIN p.tools \cup {AskedCall(a)}
           /\ \A c \in DOMAIN q.tools :
                 q.tools[c] = IF c \in DOMAIN p.tools THEN p.tools[c] ELSE "requested"
  BY <1>1, <1>3, <1>6, AskedMerges
<1>8. q.approval \in 0..Len(log) /\ (q.approval # None => q.current # None)
  BY <1>1, <1>6, <1>7
<1>9. ASSUME PageInv, ~Misfits(view) PROVE PageInv'
  <2>1. view.n >= page.upto /\ turn = page.current
    <3>1. ~(view.n < page.upto) /\ turn = page.current
      BY <1>5, <1>9 DEF Misfits
    <3>2. view.n \in Nat /\ page.upto \in Nat
      BY <1>1 DEF Grammar, PageState
    <3>3. QED
      BY <3>1, <3>2
  <2>2. q.messages = Messages(Seen(q.upto)) /\ q.current = ActiveTurn(Seen(q.upto))
    BY <1>6, <1>7, <1>9, <2>1 DEF PageInv
  <2>3. Agree(page.tools, Seen(page.upto), page.current)
    BY <1>9, RowsAgreeIs DEF PageInv
  <2>4. Agree(q.tools, Seen(q.upto), q.current)
    <3>1. CASE a = None
      BY <3>1, <1>6, <1>7, <2>1, <2>3
    <3>2. CASE a # None
      <4> DEFINE h == Seen(page.upto)
                 t == page.tools
                 u == q.tools
                 c0 == AskedCall(a)
      <4>1. /\ DOMAIN u = DOMAIN t \cup {c0}
            /\ \A c \in DOMAIN u : u[c] = IF c \in DOMAIN t THEN t[c] ELSE "requested"
        BY <3>2, <1>6, <1>7
      <4>2. Agree(t, h, turn) /\ Ahead(c0, turn)
        BY <3>2, <1>1, <2>1, <2>3
      <4> HIDE DEF h, t, u, c0
      <4>3. Agree(u, h, turn)
        BY <4>1, <4>2 DEF Agree
      <4>4. QED
        BY <4>3, <1>6, <1>7 DEF u, h
    <3>3. QED
      BY <3>1, <3>2
  <2>5. RowsAgree(log, q)
    BY <2>4, RowsAgreeIs
  <2>6. ShownOfTurn(log, q) /\ ShownAtRest(log, host, q)
    BY <1>6, <1>7, <1>9, <2>1 DEF PageInv, ShownOfTurn, ShownAtRest
  <2>7. Pending # None /\ Pending <= q.upto => q.approval = Pending
    <3> SUFFICES ASSUME Pending # None, Pending <= q.upto PROVE q.approval = Pending
      OBVIOUS
    <3>1. Pending \in DOMAIN log
      BY PendingIs
    <3>2. Pending \in Nat /\ view.n \in Nat /\ page.upto \in Nat
      BY <3>1, <1>1, EventFields DEF Grammar, PageState
    <3>3. Pending <= view.n
      BY <3>2, <2>1, <1>6, <1>7
    <3>4. QED
      BY <3>3, <1>5, <1>7 DEF ViewOk
  <2>8. QED
    BY <2>2, <2>5, <2>6, <2>7, NextPage
<1>10. QED
  BY <1>6, <1>7, <1>8, <1>9

LEMMA ReconcileAnsweredStep ==
    ASSUME IInv, UNCHANGED <<log, host, losses>>, NEW f \in flight, f.phase # "sent",
           ReconcileAnswered(f)
    PROVE  IInv'
<1>1. /\ Grammar(log) /\ HostInv(log, host) /\ page \in PageState /\ cursor = page.upto
      /\ cursor \in 0..Len(log) /\ page.approval \in 0..Len(log)
      /\ page.approval # None => page.current # None
      /\ misled \in BOOLEAN /\ losses \in Nat /\ CardInv /\ (~misled => PageInv)
  BY DEF IInv
<1>2. /\ \A x \in flight : FlightOk(x)
      /\ \A x, y \in Card : x = y
      /\ action = [approval |-> action.approval, phase |-> action.phase]
  BY <1>1 DEF CardInv
<1>3. f.kind = "reconcile" /\ flight' = flight \ {f} /\ UNCHANGED cursor
  BY DEF ReconcileAnswered
<1>4. FlightOk(f)
  BY <1>2
<1>5. /\ f.phase \in {"ok", "refused"} /\ f.key \in 1..Len(log) /\ f.key = action.approval
      /\ f.phase = "ok" => ViewOk(f.view)
      /\ losses = 0 => f.key # Pending
  BY <1>3, <1>4 DEF FlightOk
<1>6. f \in Card
  BY <1>3 DEF Card
<1>7. \A x : x \notin Card'
  <2>1. \A x : /\ x \in Card <=> x \in flight /\ x.kind \in {"resolve", "reconcile"}
               /\ x \in Card' <=> x \in flight' /\ x.kind \in {"resolve", "reconcile"}
    BY DEF Card
  <2>2. QED
    BY <2>1, <1>2, <1>3, <1>6
<1>8. CardInv'
  <2> DEFINE b == [action EXCEPT !.phase = "settled"]
             g == action'
             q == page'
  <2>1. /\ b = [approval |-> b.approval, phase |-> b.phase] /\ b.phase = "settled"
        /\ b.approval = f.key
    BY <1>2, <1>5
  <2>2. f.key # None
    BY <1>1, <1>5 DEF None, Grammar
  <2>3. g = NoAction \/ g = Guarded(b, q)
    BY DEF ReconcileAnswered
  <2> HIDE DEF b, g, q
  <2>4. /\ g = [approval |-> g.approval, phase |-> g.phase]
        /\ g.phase \in {"none", "settled"} /\ (g.phase = "none" => g = NoAction)
        /\ g.phase = "settled" => g.approval = f.key /\ q.approval = f.key
    BY <2>1, <2>3 DEF Guarded, NoAction
  <2>5. \A x \in flight' : FlightOk(x)'
    <3> SUFFICES ASSUME NEW x \in flight' PROVE FlightOk(x)'
      OBVIOUS
    <3>1. x.kind = "recover" /\ FlightOk(x)
      BY <1>2, <1>3, <1>7 DEF Card, FlightOk
    <3>2. QED
      BY <3>1, SameFlight
  <2>6. Pending' = Pending
    BY DEF Pending
  <2>7. QED
    BY <1>5, <1>7, <2>2, <2>4, <2>5, <2>6 DEF CardInv, g, q
<1>9. CASE f.phase = "ok"
  <2>1. page' = Reconciled(page, f.view) /\ misled' = (misled \/ Misfits(f.view))
    BY <1>9 DEF ReconcileAnswered
  <2>2. /\ page' \in PageState /\ page'.upto = page.upto
        /\ page'.approval \in 0..Len(log) /\ (page'.approval # None => page'.current # None)
        /\ PageInv /\ ~Misfits(f.view) => PageInv'
    BY <1>1, <1>5, <1>9, <2>1, ReconciledAgrees
  <2>3. misled' \in BOOLEAN /\ (~misled' => PageInv')
    BY <1>1, <2>1, <2>2 DEF Misfits
  <2>4. QED
    BY <1>1, <1>3, <1>8, <2>2, <2>3 DEF IInv
<1>10. CASE f.phase # "ok"
  <2>1. UNCHANGED <<page, misled>>
    BY <1>10 DEF ReconcileAnswered
  <2>2. ~misled => PageInv'
    BY <1>1, <2>1, StillPage
  <2>3. QED
    BY <1>1, <1>3, <1>8, <2>1, <2>2 DEF IInv
<1>11. QED
  BY <1>9, <1>10

LEMMA AnsweredStep ==
    ASSUME IInv, Answered PROVE IInv'
<1>1. PICK f \in flight :
        f.phase # "sent" /\ (Recovered(f) \/ ResolveAnswered(f) \/ ReconcileAnswered(f))
  BY DEF Answered
<1>2. UNCHANGED <<log, host, losses>>
  BY DEF Answered
<1>3. QED
  BY <1>1, <1>2, RecoveredStep, ResolveAnsweredStep, ReconcileAnsweredStep

-----------------------------------------------------------------------------
LEMMA NoEvents == Grammar(<<>>) /\ Closed(<<>>, 0) /\ Len(<<>>) = 0 /\ DOMAIN (<<>>) = {}
<1>1. <<>> \in Seq(Event) /\ DOMAIN (<<>>) = {} /\ Len(<<>>) = 0
  OBVIOUS
<1>2. QED
  BY <1>1 DEF Grammar, Follow, BeginTurns, EndTurns, HaveCalls, SettleCalls, Closed

LEMMA InitInv == Init => IInv
<1> SUFFICES ASSUME Init PROVE IInv
  OBVIOUS
<1>1. /\ log = <<>> /\ host = Idle /\ page = Blank /\ link = "open" /\ cursor = 0
      /\ action = NoAction /\ flight = {} /\ misled = FALSE /\ losses = 0
  BY DEF Init
<1>2. Grammar(log) /\ Closed(log, 0) /\ Len(log) = 0 /\ DOMAIN log = {}
  BY <1>1, NoEvents
<1>3. /\ host \in HostState /\ host.stage = "idle" /\ host.turn = 0 /\ host.failed = FALSE
  BY <1>1 DEF Idle, HostState, None
<1>4. HostInv(log, host)
  BY <1>1, <1>2, <1>3 DEF HostInv, Rests
<1> DEFINE none == [c \in {} |-> None]
<1>5. none \in ToolMaps /\ DOMAIN none = {} /\ <<>> \in Seq(Nat) /\ None \in Nat /\ None \in Int
  BY NoTools DEF None
<1>6. page = [messages |-> <<>>, tools |-> none, files |-> {}, terminal |-> None,
              error |-> FALSE, stopping |-> FALSE, approval |-> None, current |-> None,
              upto |-> 0]
  BY <1>1 DEF Blank
<1> HIDE DEF none
<1>7. /\ page \in PageState /\ page.messages = <<>> /\ page.tools = none /\ page.files = {}
      /\ page.terminal = None /\ page.error = FALSE /\ page.stopping = FALSE
      /\ page.approval = None /\ page.current = None /\ page.upto = 0
  BY <1>5, <1>6 DEF PageState
<1>8. Seen(0) = log
  BY <1>2, WholeLog
<1>9. \A types : At(log, types) = {}
  BY <1>2 DEF At
<1>10. Newest({}) = None
  BY NewestIs DEF None
<1>11. TurnStart(log) = None /\ LastEnd(log) = None
  BY <1>9, <1>10 DEF TurnStart, LastEnd
<1>12. ActiveTurn(log) = None
  BY <1>11 DEF ActiveTurn, None
<1>13. Messages(log) = <<>>
  <2>1. Messages(log) = InOrder({})
    BY <1>9 DEF Messages
  <2>2. Cardinality({}) = 0
    BY FS_EmptySet
  <2>3. 1..Cardinality({}) = {}
    BY <2>2
  <2>4. QED
    BY <2>1, <2>3 DEF InOrder
<1>14. Called(log) = {}
  BY <1>2, InCalled
<1>15. RowsAgree(log, page)
  <2>1. Agree(page.tools, Seen(page.upto), page.current)
    BY <1>5, <1>7, <1>8, <1>14 DEF Agree
  <2>2. QED
    BY <2>1, RowsAgreeIs
<1>16. Pending = None
  BY <1>3 DEF Pending
<1>17. ShownOfTurn(log, page) /\ ShownAtRest(log, host, page)
  BY <1>3, <1>7, <1>11 DEF ShownOfTurn, ShownAtRest, Fails, Files
<1>18. PageInv
  BY <1>7, <1>8, <1>12, <1>13, <1>15, <1>16, <1>17 DEF PageInv
<1>19. CardInv
  BY <1>1 DEF CardInv, Card, NoAction
<1>20. cursor = page.upto /\ cursor \in 0..Len(log) /\ page.approval \in 0..Len(log)
  BY <1>1, <1>2, <1>7 DEF None
<1>21. misled \in BOOLEAN /\ losses \in Nat
  BY <1>1
<1>22. QED
  BY <1>2, <1>4, <1>7, <1>18, <1>19, <1>20, <1>21 DEF IInv

LEMMA NextInv == IInv /\ [Next]_vars => IInv'
<1> SUFFICES ASSUME IInv, [Next]_vars PROVE IInv'
  OBVIOUS
<1>1. Grammar(log) /\ HostInv(log, host)
  BY DEF IInv
<1>2. CASE \/ Submit \/ StartTurn \/ RejectTurn \/ ModelCalls \/ ModelAnswers
           \/ ModelTellsError \/ ModelRaises \/ ToolEnds \/ ApprovalEnds \/ Stop \/ StopTakes
  BY <1>1, <1>2, HostMoves, HostKeeps
<1>3. CASE Handle
  BY <1>3, HandleStep
<1>4. CASE Lose
  BY <1>4, LoseStep
<1>5. CASE Deliver
  BY <1>5, DeliverStep
<1>6. CASE Disconnect
  BY <1>6, DisconnectStep
<1>7. CASE Click
  BY <1>7, ClickStep
<1>8. CASE Answered
  BY <1>8, AnsweredStep
<1>9. CASE UNCHANGED vars
  <2>1. UNCHANGED <<log, host, page, link, cursor, action, flight, misled, losses>>
    BY <1>9 DEF vars
  <2>2. ~misled => PageInv'
    BY <2>1, StillPage DEF IInv
  <2>3. CardInv'
    <3>1. \A x : FlightOk(x) => FlightOk(x)'
      BY <2>1, SameFlight
    <3>2. Card' = Card /\ Pending' = Pending
      BY <2>1 DEF Card, Pending
    <3>3. QED
      BY <2>1, <3>1, <3>2 DEF IInv, CardInv
  <2>4. QED
    BY <2>1, <2>2, <2>3 DEF IInv
<1>10. QED
  BY <1>2, <1>3, <1>4, <1>5, <1>6, <1>7, <1>8, <1>9 DEF Next

(* The invariant that holds in every state. *)
THEOREM PageInvariant == Spec => []IInv
<1>1. Init => IInv
  BY InitInv
<1>2. IInv /\ [Next]_vars => IInv'
  BY NextInv
<1>3. QED
  BY <1>1, <1>2, PTL DEF Spec

LEMMA GuardFree ==
    ASSUME CardInv, Card = {}
    PROVE  \/ action = NoAction
           \/ /\ action.approval # None /\ page.approval = action.approval
              /\ losses = 0 => action.approval # Pending
BY DEF CardInv

(* A page that was not misled agrees with the Host's record at the newest event *)
(* it was told of, an error beside a Turn under way is of that Turn, and the    *)
(* approval that waits for the user has its card (PageAgrees): through every    *)
(* interleaving of Turns, failing model calls, recoveries and answers.          *)
THEOREM PageAlwaysAgrees == Spec => []PageAgrees
<1>1. ASSUME IInv PROVE PageAgrees
  <2> SUFFICES ASSUME ~misled PROVE PageAgrees
    BY DEF PageAgrees
  <2> DEFINE told == Seen(page.upto)
  <2>1. PageInv /\ CardInv
    BY <1>1 DEF IInv
  <2>2. Pending # None /\ Pending <= page.upto =>
          page.approval = Pending /\ (losses = 0 /\ Card = {} => action = NoAction)
    BY <2>1, GuardFree DEF PageInv
  <2>3. page.messages = Messages(told) /\ page.current = ActiveTurn(told)
    BY <2>1 DEF PageInv
  <2>4. RowsAgree(log, page)
    BY <2>1 DEF PageInv
  <2>5. page.error /\ page.current # None => ErrorTold(told, page.current)
    <3> SUFFICES ASSUME page.error, page.current # None PROVE ErrorTold(told, page.current)
      OBVIOUS
    <3>1. PICK i \in DOMAIN log : i <= page.upto /\ Is(log, i, "model_error", page.current)
      BY <2>1 DEF PageInv, ShownOfTurn, FailureTold
    <3>2. Grammar(log) /\ page.upto \in 0..Len(log)
      BY <1>1 DEF IInv
    <3>3. i \in DOMAIN told /\ told[i] = log[i]
      BY <3>1, <3>2, EventFields, Cut DEF Grammar, Seen
    <3>4. QED
      BY <3>1, <3>3 DEF ErrorTold, At, Is
  <2>6. QED
    BY <2>2, <2>3, <2>4, <2>5 DEF PageAgrees, RowsAgree, Seen
<1>2. QED
  BY <1>1, PageInvariant, PTL

(* A page that was told everything shows what a fresh Snapshot would, and every *)
(* error of a Turn; what else it may keep is the error of a model call of the   *)
(* last Turn.  The guard of an approval has been given up (RestIsSnapshot).     *)
THEOREM RestAlwaysSnapshot == Spec => []RestIsSnapshot
<1>1. ASSUME IInv PROVE RestIsSnapshot
  <2> SUFFICES ASSUME AtRest, ~misled PROVE RestIsSnapshot
    BY DEF RestIsSnapshot
  <2>1. /\ Grammar(log) /\ HostInv(log, host) /\ page \in PageState /\ cursor = page.upto
        /\ page.approval # None => page.current # None
        /\ CardInv /\ PageInv
    BY <1>1 DEF IInv
  <2>2. host.stage = "idle" /\ flight = {} /\ page.upto = Len(log)
    BY <2>1 DEF AtRest
  <2>3. Seen(page.upto) = log
    BY <2>1, <2>2, WholeLog
  <2>4. ActiveTurn(log) = None /\ \A c \in Called(log) : Rows(log)[c] # "requested"
    <3>1. Closed(log, host.turn)
      BY <2>1, <2>2 DEF HostInv
    <3>2. QED
      BY <3>1, <2>1, RowsSettled
  <2>5. page.messages = Messages(log) /\ page.current = None /\ page.approval = None
    BY <2>1, <2>3, <2>4 DEF PageInv
  <2>6. page.tools = Rows(log)
    <3>1. Agree(page.tools, log, None)
      BY <2>1, <2>3, <2>5, RowsAgreeIs DEF PageInv
    <3>2. \A c : ~Ahead(c, None)
      BY <2>1, EventFields DEF Ahead, At, Grammar, None
    <3>3. DOMAIN page.tools = Called(log)
      BY <3>1, <3>2 DEF Agree
    <3>4. \A c \in Called(log) : page.tools[c] = Rows(log)[c]
      BY <3>1, <2>4 DEF Agree
    <3>5. page.tools = [c \in DOMAIN page.tools |-> page.tools[c]]
      BY <2>1, ToolMapIs DEF PageState
    <3>6. Rows(log) = [c \in Called(log) |-> Rows(log)[c]]
      BY DEF Rows
    <3>7. QED
      BY <3>3, <3>4, <3>5, <3>6
  <2> DEFINE v == View
             q == Hydrated(v)
             ended == LastEnd(log)
  <2>7. ViewOk(v)
    BY <2>1, ViewIsOk
  <2>8. v.n = Len(log) /\ v.pending = None /\ v.submitted = FALSE /\ v.failed = host.failed
    BY <2>2 DEF View, Pending
  <2>9. log = Seen(v.n)
    BY <2>1, <2>8, WholeLog
  <2>10. q = Hydrated(v)
    OBVIOUS
  <2> HIDE DEF v, q
  <2>11. /\ q \in PageState /\ q.upto = v.n /\ q.messages = Messages(log)
         /\ q.tools = Rows(log) /\ q.current = ActiveTurn(log) /\ q.stopping = FALSE
         /\ q.approval = v.pending
         /\ ~v.submitted =>
              /\ q.files = Files(ended) /\ q.error = (v.failed \/ Fails(ended))
              /\ q.terminal = IF v.failed THEN Rejected ELSE ended
    <3>1. ShowsView(q, v, log)
      BY <2>1, <2>7, <2>9, <2>10, HydratedFields
    <3>2. QED
      BY <3>1 DEF ShowsView
  <2>12. /\ page.terminal = (IF host.failed THEN Rejected ELSE ended)
         /\ host.failed \/ Fails(ended) => page.error
         /\ page.error => host.failed \/ Fails(ended) \/ ErrorTold(log, log[Len(log)].turn)
         /\ ~host.failed => page.files = Files(ended)
    BY <2>1, <2>2 DEF PageInv, ShownAtRest
  <2>13. page.stopping = FALSE
    BY <2>1, <2>5 DEF PageInv, ShownOfTurn, PageState
  <2> DEFINE fs == IF host.failed THEN page.files ELSE q.files
  <2>14. page.files = fs
    BY <2>8, <2>11, <2>12
  <2>15. /\ page.messages = q.messages /\ page.tools = q.tools /\ page.terminal = q.terminal
         /\ page.stopping = q.stopping /\ page.approval = q.approval
         /\ page.current = q.current /\ page.upto = q.upto
    BY <2>2, <2>4, <2>5, <2>6, <2>8, <2>11, <2>12, <2>13
  <2> HIDE DEF fs
  <2>16. page = [q EXCEPT !.files = fs, !.error = page.error]
    BY <2>1, <2>11, <2>14, <2>15 DEF PageState
  <2>17. action = NoAction
    <3>1. Card = {}
      BY <2>2 DEF Card
    <3>2. QED
      BY <3>1, <2>1, <2>5, GuardFree
  <2>18. /\ q.error => page.error
         /\ page.error => q.error \/ ErrorTold(log, log[Len(log)].turn)
    BY <2>8, <2>11, <2>12
  <2>19. QED
    BY <2>16, <2>17, <2>18 DEF RestIsSnapshot, fs, q, v
<1>2. QED
  BY <1>1, PageInvariant, PTL
=============================================================================
