------------------------------- MODULE PageView -------------------------------
(* What one browser page shows of a Thread: the event reducer of events.ts, the *)
(* Snapshot a recovery brings (hydrateThread, initialThreadState), the approval *)
(* card with its two requests (App.tsx), against the Turns of the Host as far   *)
(* as a page can see them.                                                     *)
(*                                                                             *)
(* The stream itself is EventStream's: here every event reaches the page once   *)
(* and in order from its cursor.  HTTP answers arrive in any order.  An event   *)
(* is named by its position in the log, an approval by the position of its      *)
(* request, a tool call by its number in its Turn (providers repeat their ids). *)
EXTENDS Integers, Sequences, FiniteSets

CONSTANTS MaxTurns,         \* bound: Turns submitted
          MaxCalls,         \* bound: tool calls of all Turns together
          MaxStops,         \* bound: Stops of Turns that run
          MaxFaults,        \* bound: connections and answers that are lost, and model
                            \* calls whose failure is told
          MaxFlight         \* bound: requests the page has on their way at once

ASSUME PageBounds ==
    {MaxTurns, MaxCalls, MaxStops, MaxFaults} \subseteq Nat /\ MaxFlight \in Nat \ {0}

VARIABLES log,              \* the events of the Thread
          host,             \* the Thread's Turn as the Host runs it
          page,             \* EventState; `upto` is the newest event it tells of
          link,             \* "open", or "lost" until a Snapshot has come
          cursor,           \* ThreadEventClient.cursor
          action,           \* the approvalAction of the Thread
          flight,           \* HTTP requests and answers on their way
          misled,           \* a reconciliation did not fit the page's events,
                            \* and no Snapshot has come since
          losses

vars == <<log, host, page, link, cursor, action, flight, misled, losses>>
client == <<page, link, cursor, action, misled, losses>>

None == 0
Rejected == -1

E(type, arg, ok) == [type |-> type, turn |-> host.turn, arg |-> arg, ok |-> ok]

Idle == [stage |-> "idle", turn |-> 0, calls |-> 0, call |-> 0, approval |-> None,
         decision |-> "none", stopping |-> FALSE, failed |-> FALSE]
Blank == [messages |-> <<>>, tools |-> [c \in {} |-> None], files |-> {}, terminal |-> None,
          error |-> FALSE, stopping |-> FALSE, approval |-> None, current |-> None,
          upto |-> 0]
NoAction == [approval |-> None, phase |-> "none"]

Init ==
    /\ log = <<>> /\ host = Idle /\ page = Blank
    /\ link = "open" /\ cursor = 0
    /\ action = NoAction /\ flight = {} /\ misled = FALSE /\ losses = 0
-----------------------------------------------------------------------------
(* The Host's record after the events of h, a prefix of the log. *)
Seen(n) == SubSeq(log, 1, n)
At(h, types) == {i \in DOMAIN h : h[i].type \in types}
Newest(S) == CHOOSE i \in S \cup {None} : \A j \in S : j <= i
TurnStart(h) == Newest(At(h, {"started"}))
LastEnd(h) == Newest(At(h, {"ended"}))
ActiveTurn(h) == IF TurnStart(h) > LastEnd(h) THEN h[TurnStart(h)].turn ELSE None

(* A set of positions, in order. *)
InOrder(S) ==
    [k \in 1..Cardinality(S) |->
       CHOOSE i \in {j \in S : Cardinality({m \in S : m < j}) = k - 1} : TRUE]
Messages(h) == InOrder(At(h, {"started", "answer"}))

(* hydrateToolBlocks over the messages of the latest Turn. *)
Called(h) == UNION {1..h[i].arg : i \in {j \in At(h, {"calls"}) : j > TurnStart(h)}}
Finished(h, c) == {i \in At(h, {"finished"}) : i > TurnStart(h) /\ h[i].arg = c}
Rows(h) ==
    [c \in Called(h) |-> IF Finished(h, c) = {} THEN "requested"
                        ELSE IF h[Newest(Finished(h, c))].ok THEN "success" ELSE "error"]

(* file_diffs of the summary that the terminal event i carries. *)
Files(i) == IF i = None THEN {}
            ELSE {j \in At(Seen(i), {"changed"}) : log[j].turn = log[i].turn}
Fails(i) == i # None /\ ~log[i].ok

(* An approval is pending until its future is done, which is before            *)
(* approval_resolved is emitted.                                              *)
Pending == IF host.stage = "asking" /\ host.decision = "none" THEN host.approval ELSE None

(* GET /threads/{id}: the Snapshot, the cursor, the submission, the failure.    *)
View == [n |-> Len(log), pending |-> Pending, failed |-> host.failed,
         submitted |-> host.stage # "idle"]
-----------------------------------------------------------------------------
(* The reducer. *)
Rank(status) == CASE status = "requested" -> 0 [] status = "running" -> 1 [] OTHER -> 2

(* mergeToolBlock, for each of some calls. *)
MergeTools(tools, calls, status) ==
    [c \in DOMAIN tools \cup calls |->
       IF c \in calls /\ (c \in DOMAIN tools => Rank(tools[c]) <= Rank(status))
         THEN status ELSE tools[c]]
MergeTool(tools, c, status) == MergeTools(tools, {c}, status)

AskedCall(approval) == log[approval].arg

WithApproval(p, approval) ==
    IF approval = None THEN [p EXCEPT !.approval = None]
    ELSE [p EXCEPT !.approval = approval,
                   !.tools = MergeTool(@, AskedCall(approval), "requested")]

(* hydrateThread, then initialThreadState: while a Turn is submitted nothing of *)
(* an earlier one is shown.                                                    *)
Hydrated(view) ==
    LET h == Seen(view.n)
        ended == LastEnd(h)
        rest == [Blank EXCEPT !.messages = Messages(h), !.tools = Rows(h),
                              !.current = ActiveTurn(h), !.upto = view.n] IN
    WithApproval(
        IF view.submitted THEN rest
        ELSE [rest EXCEPT !.files = Files(ended),
                          !.terminal = IF view.failed THEN Rejected ELSE ended,
                          !.error = view.failed \/ Fails(ended)],
        view.pending)

(* reconcileApprovalSnapshot: the pending approval and the current Turn of the  *)
(* view, everything else as it is.                                            *)
Reconciled(p, view) ==
    WithApproval([p EXCEPT !.current = ActiveTurn(Seen(view.n))], view.pending)

(* Fault: the turn-local state survives the next turn_started. *)
StartedKeepsTools(p, i) ==
    [p EXCEPT !.messages = Append(@, i), !.files = {}, !.terminal = None,
              !.error = FALSE, !.stopping = FALSE, !.approval = None,
              !.current = log[i].turn]

Started(p, i) ==
    [p EXCEPT !.messages = Append(@, i), !.tools = [c \in {} |-> None], !.files = {},
              !.terminal = None, !.error = FALSE, !.stopping = FALSE, !.approval = None,
              !.current = log[i].turn]

(* Only the event of the card that is shown clears it. *)
Resolved(p, approval) == IF p.approval = approval THEN [p EXCEPT !.approval = None] ELSE p

(* Fault: only the files that events announced. *)
EndedByEvents(p, i) ==
    [p EXCEPT !.terminal = i, !.error = @ \/ Fails(i),
              !.stopping = FALSE, !.approval = None, !.current = None]

Ended(p, i) ==
    [p EXCEPT !.terminal = i, !.files = @ \cup Files(i), !.error = @ \/ Fails(i),
              !.stopping = FALSE, !.approval = None, !.current = None]

Refused(p) ==
    [p EXCEPT !.terminal = Rejected, !.error = TRUE, !.stopping = FALSE,
              !.approval = None, !.current = None]

(* eventBelongsToCurrentTurn, with the exceptions for the two boundaries.      *)
Belongs(p, e) == \/ e.type = "started" \/ p.current = e.turn
                 \/ e.type = "rejected" /\ p.current = None

Reduced(p, i) ==
    LET e == log[i] IN
    CASE e.type = "started"   -> Started(p, i)
      [] e.type = "calls"     -> [p EXCEPT !.tools = MergeTools(@, 1..e.arg, "requested")]
      [] e.type = "answer"    -> [p EXCEPT !.messages = Append(@, i)]
      [] e.type = "requested" -> [p EXCEPT !.tools = MergeTool(@, e.arg, "requested")]
      [] e.type = "running"   -> [p EXCEPT !.tools = MergeTool(@, e.arg, "running")]
      [] e.type = "finished"  -> [p EXCEPT !.tools =
                                    MergeTool(@, e.arg, IF e.ok THEN "success" ELSE "error")]
      [] e.type = "changed"   -> [p EXCEPT !.files = @ \cup {i}]
      [] e.type = "asked"     -> WithApproval(p, i)
      [] e.type = "resolved"  -> Resolved(p, e.arg)
      [] e.type = "stopping"  -> [p EXCEPT !.stopping = TRUE]
      [] e.type = "model_error" -> [p EXCEPT !.error = TRUE]
      [] e.type = "ended"     -> Ended(p, i)
      [] e.type = "rejected"  -> Refused(p)

(* applyAgentEvent *)
Applied(p, i) == [(IF Belongs(p, log[i]) THEN Reduced(p, i) ELSE p) EXCEPT !.upto = i]
-----------------------------------------------------------------------------
MayFail == losses + Cardinality(At(log, {"model_error"})) < MaxFaults

(* The Host: a Turn between two of its awaits.                                 *)
Grow(events) == log' = log \o events

(* Call c is requested, and waits for the user or runs. *)
Begin(c, prefix) ==
    LET requested == prefix \o <<E("requested", c, TRUE)>> IN
    \/ /\ Grow(requested \o <<E("running", c, TRUE)>>)
       /\ host' = [host EXCEPT !.stage = "executing", !.call = c, !.decision = "none"]
    \/ /\ Grow(requested \o <<E("asked", c, TRUE)>>)
       /\ host' = [host EXCEPT !.stage = "asking", !.call = c, !.decision = "none",
                               !.approval = Len(log) + Len(requested) + 1]

(* After a call: the next one, or the next model request. *)
NextCall(prefix) ==
    IF host.call < host.calls THEN Begin(host.call + 1, prefix)
    ELSE Grow(prefix) /\ host' = [host EXCEPT !.stage = "model"]

(* The rest of a batch that is given up, and the end of its Turn. *)
GivenUp ==
    [m \in 1..(2 * (host.calls - host.call)) |->
       LET c == host.call + (m + 1) \div 2
       IN  IF m % 2 = 1 THEN E("requested", c, TRUE) ELSE E("finished", c, FALSE)]
Abort(ok) == GivenUp \o <<E("ended", None, ok)>>
AbortCall(ok) == <<E("finished", host.call, FALSE)>> \o Abort(ok)

EndTurn(events) == Grow(events) /\ host' = [host EXCEPT !.stage = "idle", !.stopping = FALSE]

Free(stage) == host.stage = stage /\ ~host.stopping

(* POST /turns and POST /cancel, of this page or another. *)
Submit ==
    /\ host.stage = "idle" /\ host.turn < MaxTurns
    /\ host' = [Idle EXCEPT !.stage = "preflight", !.turn = host.turn + 1]
    /\ UNCHANGED <<log, client, flight>>

Stop ==
    /\ host.stage # "idle" /\ ~host.stopping
    /\ Cardinality(At(log, {"stopping"})) < MaxStops
    /\ host' = [host EXCEPT !.stopping = TRUE]
    /\ Grow(IF host.stage = "preflight" THEN <<>> ELSE <<E("stopping", None, TRUE)>>)
    /\ UNCHANGED <<client, flight>>

StartTurn ==
    /\ Free("preflight")
    /\ Grow(<<E("started", None, TRUE)>>)
    /\ host' = [host EXCEPT !.stage = "model", !.calls = 0, !.call = 0]
    /\ UNCHANGED <<client, flight>>

(* A failing preflight, or one that is stopped. *)
RejectTurn ==
    /\ host.stage = "preflight"
    /\ Grow(<<E("rejected", None, FALSE)>>)
    /\ host' = [host EXCEPT !.stage = "idle", !.stopping = FALSE, !.failed = TRUE]
    /\ UNCHANGED <<client, flight>>

(* The model answers with tool calls (at most once a Turn here), or finally.    *)
ModelCalls ==
    /\ Free("model") /\ host.calls = 0
    /\ \E k \in 1..MaxCalls :
         /\ \A i \in At(log, {"calls"}) : log[i].arg + k <= MaxCalls
         /\ LET calls == E("calls", k, TRUE) IN
            \/ /\ Grow(<<calls, E("requested", 1, TRUE), E("running", 1, TRUE)>>)
               /\ host' = [host EXCEPT !.stage = "executing", !.calls = k, !.call = 1]
            \/ /\ Grow(<<calls, E("requested", 1, TRUE), E("asked", 1, TRUE)>>)
               /\ host' = [host EXCEPT !.stage = "asking", !.calls = k, !.call = 1,
                                       !.decision = "none", !.approval = Len(log) + 3]
    /\ UNCHANGED <<client, flight>>

(* A tool that fails brings no other events than a denied call; only the        *)
(* successes are modelled.                                                     *)
ModelAnswers ==
    /\ Free("model")
    /\ EndTurn(<<E("answer", None, TRUE), E("ended", None, TRUE)>>)
    /\ UNCHANGED <<client, flight>>

(* A model call tells its failure at most once.  Then it raises, or goes on     *)
(* where the answer was not a stream and is taken in place of one.  A Turn also *)
(* fails without a word of its model, by its deadline say; bounded as a fault is. *)
ModelTellsError ==
    /\ Free("model") /\ log[Len(log)].type # "model_error"
    /\ MayFail
    /\ Grow(<<E("model_error", None, FALSE)>>)
    /\ UNCHANGED <<host, client, flight>>

ModelRaises ==
    /\ Free("model") /\ (log[Len(log)].type = "model_error" \/ MayFail)
    /\ EndTurn(<<E("ended", None, FALSE)>>)
    /\ UNCHANGED <<client, flight>>

ToolEnds ==
    /\ Free("executing")
    /\ NextCall(<<E("changed", host.call, TRUE), E("finished", host.call, TRUE)>>)
    /\ UNCHANGED <<client, flight>>

(* The task resumes after the answer, or when the approval times out.          *)
ApprovalEnds ==
    /\ Free("asking")
    /\ LET resolved == E("resolved", host.approval, TRUE) IN
       CASE host.decision = "approved" ->
              /\ Grow(<<resolved, E("running", host.call, TRUE)>>)
              /\ host' = [host EXCEPT !.stage = "executing"]
         [] host.decision = "denied" ->
              NextCall(<<resolved, E("finished", host.call, FALSE)>>)
         [] host.decision = "none" -> EndTurn(<<resolved>> \o AbortCall(FALSE))
    /\ UNCHANGED <<client, flight>>

(* The cancellation of a Stop reaches the task; a tool may have settled.       *)
StopTakes ==
    /\ host.stopping
    /\ \/ host.stage = "model" /\ EndTurn(<<E("ended", None, TRUE)>>)
       \/ /\ host.stage = "asking"
          /\ EndTurn(<<E("resolved", host.approval, TRUE)>> \o AbortCall(TRUE))
       \/ host.stage = "executing" /\ EndTurn(AbortCall(TRUE))
       \/ /\ host.stage = "executing"
          /\ EndTurn(<<E("changed", host.call, TRUE), E("finished", host.call, TRUE)>>
                     \o Abort(TRUE))
    /\ UNCHANGED <<client, flight>>
-----------------------------------------------------------------------------
(* Requests and their answers. *)
Request(kind, key, yes) == [kind |-> kind, key |-> key, yes |-> yes,
                            phase |-> "sent", view |-> <<>>]
MaySend == Cardinality(flight) < MaxFlight
Card == {f \in flight : f.kind \in {"resolve", "reconcile"}}

Answer(f, phase, view) ==
    flight' = (flight \ {f}) \cup {[f EXCEPT !.phase = phase, !.view = view]}

(* ToolCoordinator.resolve_approval: the exact approval, once. *)
HandleResolve(f) ==
    /\ f.kind = "resolve"
    /\ IF Pending = f.key
         THEN /\ host' = [host EXCEPT !.decision = IF f.yes THEN "approved" ELSE "denied"]
              /\ Answer(f, "ok", <<>>)
         ELSE Answer(f, "refused", <<>>) /\ UNCHANGED host

HandleGet(f) ==
    /\ f.kind \in {"recover", "reconcile"}
    /\ Answer(f, "ok", View) /\ UNCHANGED host

Handle ==
    /\ \E f \in flight : f.phase = "sent" /\ (HandleGet(f) \/ HandleResolve(f))
    /\ UNCHANGED <<log, client>>

(* A request or its answer is lost; the page sees an error. *)
Lose ==
    /\ MayFail /\ losses' = losses + 1
    /\ \E f \in flight : f.phase # "refused" /\ Answer(f, "refused", <<>>)
    /\ UNCHANGED <<log, host, page, link, cursor, action, misled>>
-----------------------------------------------------------------------------
(* The page. *)

(* The effect that frees the card's guard once the settled card is gone. *)
Guarded(a, p) == IF a.phase = "settled" /\ p.approval # a.approval THEN NoAction ELSE a

Deliver ==
    /\ link = "open" /\ cursor < Len(log)
    /\ cursor' = cursor + 1 /\ page' = Applied(page, cursor + 1)
    /\ action' = Guarded(action, page')
    /\ UNCHANGED <<log, host, link, flight, misled, losses>>

(* The connection breaks: onerror asks for a Snapshot before it reconnects.     *)
Disconnect ==
    /\ link = "open" /\ MaySend /\ MayFail /\ losses' = losses + 1
    /\ link' = "lost" /\ flight' = flight \cup {Request("recover", None, TRUE)}
    /\ UNCHANGED <<log, host, page, cursor, action, misled>>

(* recoverThenReconnect; without a Snapshot the old cursor is used again.       *)
Recovered(f) ==
    /\ f.kind = "recover" /\ link' = "open"
    /\ IF f.phase = "ok"
         THEN page' = Hydrated(f.view) /\ cursor' = f.view.n /\ misled' = FALSE
         ELSE UNCHANGED <<page, cursor, misled>>
    /\ flight' = flight \ {f} /\ action' = Guarded(action, page')

(* The user answers the card. *)
Click ==
    /\ page.approval # None /\ action = NoAction /\ ~page.stopping /\ MaySend
    /\ action' = [approval |-> page.approval, phase |-> "submitting"]
    /\ \E yes \in BOOLEAN : flight' = flight \cup {Request("resolve", page.approval, yes)}
    /\ UNCHANGED <<log, host, page, link, cursor, misled, losses>>

(* An accepted answer clears its own card at once; the Thread is then read,     *)
(* whatever the answer was.                                                    *)
ResolveAnswered(f) ==
    /\ f.kind = "resolve"
    /\ page' = IF f.phase = "ok" THEN Resolved(page, f.key) ELSE page
    /\ flight' = (flight \ {f}) \cup {Request("reconcile", f.key, f.phase = "ok")}
    /\ UNCHANGED <<link, cursor, action, misled>>

(* A view that is older than the page, or of another Turn. *)
Misfits(view) == view.n < page.upto \/ ActiveTurn(Seen(view.n)) # page.current

(* An approval that is still pending after an answer that was not accepted may  *)
(* be clicked again.                                                          *)
RetryablePending(f) == f.phase = "ok" /\ ~f.yes /\ f.view.pending = f.key

ReconcileAnswered(f) ==
    /\ f.kind = "reconcile"
    /\ IF f.phase = "ok"
         THEN page' = Reconciled(page, f.view) /\ misled' = (misled \/ Misfits(f.view))
         ELSE UNCHANGED <<page, misled>>
    /\ action' = IF RetryablePending(f) THEN NoAction
                 ELSE Guarded([action EXCEPT !.phase = "settled"], page')
    /\ flight' = flight \ {f} /\ UNCHANGED <<link, cursor>>

Answered ==
    /\ \E f \in flight :
         f.phase # "sent" /\ (Recovered(f) \/ ResolveAnswered(f) \/ ReconcileAnswered(f))
    /\ UNCHANGED <<log, host, losses>>

Next == \/ Submit \/ StartTurn \/ RejectTurn \/ ModelCalls \/ ModelAnswers
        \/ ModelTellsError \/ ModelRaises \/ ToolEnds \/ ApprovalEnds \/ Stop \/ StopTakes
        \/ Handle \/ Lose \/ Deliver \/ Disconnect \/ Click \/ Answered

Spec == Init /\ [][Next]_vars
-----------------------------------------------------------------------------
(* The state is well typed. *)
TypeOK ==
    LET Event == 1..Len(log) IN
    /\ \A i \in Event :
          log[i].turn \in 1..MaxTurns /\ log[i].ok \in BOOLEAN /\ log[i].arg \in 0..MaxCalls \cup Event
    /\ host.stage \in {"idle", "preflight", "model", "executing", "asking"}
    /\ host.turn \in 0..MaxTurns /\ host.call \in 0..host.calls /\ host.calls \in 0..MaxCalls
    /\ page.messages \in Seq(Event) /\ page.files \subseteq Event /\ page.upto <= Len(log)
    /\ page.terminal \in {None, Rejected} \cup Event /\ page.approval \in {None} \cup Event
    /\ \A c \in DOMAIN page.tools : page.tools[c] \in {"requested", "running", "success", "error"}
    /\ link \in {"open", "lost"} /\ cursor \in 0..Len(log)
    /\ action.phase \in {"none", "submitting", "settled"}
    /\ \A f \in flight : /\ f.kind \in {"recover", "resolve", "reconcile"}
                        /\ f.phase \in {"sent", "ok", "refused"}
    /\ Cardinality(flight) <= MaxFlight /\ losses \in 0..MaxFaults /\ misled \in BOOLEAN

(* Turn t was told of a failed model call. *)
ErrorTold(h, t) == \E i \in At(h, {"model_error"}) : h[i].turn = t

AtRest == host.stage = "idle" /\ flight = {} /\ link = "open" /\ cursor = Len(log)

(* The conversation and the tool rows of the page are those of the Host's       *)
(* record at the newest event the page was told of, through recoveries    *)
(* and reconciled approvals.  A row may only be ahead by "running", or  *)
(* by the call of an approval that a reconciliation has brought.  An error      *)
(* beside a Turn under way is of that Turn.  The approval that waits for the    *)
(* user has its card, which can be clicked unless an answer to a click is       *)
(* still out.                                                                  *)
PageAgrees ==
    ~misled =>
        LET told == Seen(page.upto)
            rows == Rows(told) IN
        /\ Pending # None /\ Pending <= page.upto =>
              /\ page.approval = Pending
              /\ losses = 0 /\ Card = {} => action = NoAction
        /\ page.messages = Messages(told)
        /\ page.current = ActiveTurn(told)
        /\ page.error /\ page.current # None => ErrorTold(told, page.current)
        /\ DOMAIN rows \subseteq DOMAIN page.tools
        /\ \A c \in DOMAIN page.tools :
              IF c \in DOMAIN rows
                THEN page.tools[c] \in {rows[c]} \cup IF rows[c] = "requested" THEN {"running"} ELSE {}
                ELSE /\ page.tools[c] = "requested"
                     /\ \E i \in At(log, {"asked"}) :
                           log[i].arg = c /\ log[i].turn = page.current

(* A page that was told everything shows what a fresh Snapshot would, every     *)
(* error of a Turn included.  (It may also keep the error of a model call after *)
(* which its Turn went on; after a rejection the files of the Turn before it    *)
(* may be missing.)  The guard of an approval has been given up by then,        *)
(* whatever was lost, so that the next card can be clicked.                     *)
RestIsSnapshot ==
    AtRest /\ ~misled =>
        LET shown == Hydrated(View) IN
        /\ page = [shown EXCEPT !.files = IF host.failed THEN page.files ELSE @,
                                !.error = page.error]
        /\ shown.error => page.error
        /\ page.error => shown.error \/ ErrorTold(log, log[Len(log)].turn)
        /\ action = NoAction

=============================================================================
