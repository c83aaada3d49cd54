---------------------------- MODULE ThreadRuntime ----------------------------
(***************************************************************************)
(* The lifecycle of Threads and Turns in agent/runtime/thread_runtime.py:   *)
(* preflight, workspace lease, idempotent submission, the terminal          *)
(* transition, cancel, close, the durable ThreadStore and the recovery of   *)
(* work that died with the process.                                         *)
(*                                                                         *)
(* A Call is one invocation of run_turn (its Turn id is fresh, so the Call  *)
(* also names the Turn).  The event loop is cooperative: an action is the   *)
(* code between two awaits.  What the Agent loop does inside a Turn is one  *)
(* nondeterministic outcome here.                                           *)
(***************************************************************************)
EXTENDS Naturals, Sequences, FiniteSets

CONSTANTS Thread, Call, Key, Text,
          ThreadOf, TextOf, KeyOf,      \* the arguments of each run_turn call
          Workspace, Parents, WorkspaceOf,
          MaxActiveTurns,
          None,
          Legacy,                       \* finished Turns an older Runtime left marked active
          MaxApprovals,                 \* bound on approval requests of a Turn
          MaxCrashes,                   \* bound on process crashes
          MaxStoreFailures              \* bound on failed ThreadStore commits

ASSUME CallAssumption ==
    /\ IsFiniteSet(Call)
    /\ ThreadOf \in [Call -> Thread]
    /\ TextOf \in [Call -> Text]
    /\ KeyOf \in [Call -> Key \cup {None}]
    /\ WorkspaceOf \in [Thread -> Workspace]
    /\ None \notin Call \cup Key \cup Workspace \cup Text
    /\ Legacy \subseteq Call
    /\ \A c, d \in Legacy : ThreadOf[c] = ThreadOf[d] => c = d
ASSUME LeaseConfiguration ==
    Parents \in [Workspace -> SUBSET Workspace] /\ MaxActiveTurns \in 1..32
ASSUME BoundsAssumption == {MaxApprovals, MaxCrashes, MaxStoreFailures} \subseteq Nat

VARIABLES mode,           \* "up", "stopping" (after aclose), "down", "starting"
          rec,            \* the in-memory _ThreadRecord of each Thread
          durable,        \* what the ThreadStore has committed for each Thread
          leases,         \* the WorkspaceLeaseManager
          pc,             \* where each run_turn call is suspended
          result,         \* what each call returned or raised
          waits,          \* the Turn whose future a joined call awaits
          future,         \* the idempotency future of each Turn
          cancel,         \* the cancellation each call's task has received
          restored,       \* Threads hydrated so far after a restart
          crashes, storeFailures

callVars == <<pc, result, waits, future, cancel>>
vars == <<mode, rec, durable, leases, callVars, restored, crashes, storeFailures>>

(* Where a run_turn call awaits something. *)
Suspended == {"validating", "joined", "running", "cleanup"}

Leases == INSTANCE WorkspaceLease WITH Lease <- Call

TurnOutcome == {"completed", "limit_reached", "cancelled", "failed"}
Outcome == TurnOutcome \cup {"runtime_restarted"}
ErrorCode == {"none", "IDEMPOTENCY_CONFLICT", "IDEMPOTENCY_INTERRUPTED",
              "THREAD_BUSY", "THREAD_CLOSED", "WORKSPACE_BUSY",
              "PREFLIGHT_FAILED", "TURN_CANCELLED_BEFORE_START",
              "CancelledError", "ThreadStoreError"}

(* A TurnSummary, reduced to its Turn and status; and an exception. *)
Summary(c, o)  == [turn |-> c, code |-> o]
Raise(code)    == [turn |-> None, code |-> code]
NoResult       == Raise("none")

(* An _IdempotentSubmission; its future lives in `future`. *)
Submission(c) == [turn |-> c, text |-> TextOf[c], summary |-> NoResult,
                  interrupted |-> FALSE]
NoSubmission  == [turn |-> None, text |-> None, summary |-> NoResult,
                  interrupted |-> FALSE]

Event(type, c) == [type |-> type, turn |-> c]

NewRecord == [status |-> "idle", closing |-> FALSE, preflight |-> None,
              active |-> None, turns |-> <<>>, events |-> <<>>,
              idem |-> [k \in Key |-> NoSubmission], tools |-> "open"]

(* What _persist_record writes: every field but the process-local ones.  The *)
(* incremental store inserts only the events the transition names.           *)
Stored(old, r, newEvents) ==
    [status |-> r.status, active |-> r.active, turns |-> r.turns,
     idem |-> r.idem, events |-> old.events \o newEvents]

Keyed(c) == KeyOf[c] # None

PutKey(idem, c, s) == IF Keyed(c) THEN [idem EXCEPT ![KeyOf[c]] = s] ELSE idem

(* A store an older Runtime may have left: the Turn is finished in every way  *)
(* except that its active marker was not cleared.                           *)
Leftover(c) ==
    LET done == [Submission(c) EXCEPT !.summary = Summary(c, "completed")] IN
    [status |-> "running", active |-> c, turns |-> <<Summary(c, "completed")>>,
     idem |-> PutKey(NewRecord.idem, c, done),
     events |-> <<Event("turn_started", c), Event("terminal", c)>>]

InitialStore == [t \in Thread |->
    IF \E c \in Legacy : ThreadOf[c] = t
      THEN Leftover(CHOOSE c \in Legacy : ThreadOf[c] = t)
      ELSE Stored([events |-> <<>>], NewRecord, <<>>)]

Init ==
    /\ mode = IF Legacy = {} THEN "up" ELSE "down"
    /\ rec = [t \in Thread |-> NewRecord]
    /\ durable = InitialStore
    /\ leases = Leases!Free
    /\ pc = [c \in Call |-> IF c \in Legacy THEN "done" ELSE "idle"]
    /\ result = [c \in Call |-> IF c \in Legacy THEN Summary(c, "completed")
                                               ELSE NoResult]
    /\ waits = [c \in Call |-> None]
    /\ future = [c \in Call |-> NoResult]
    /\ cancel = [c \in Call |-> "no"]
    /\ restored = IF Legacy = {} THEN Thread ELSE {}
    /\ crashes = 0
    /\ storeFailures = 0

(* One uninterrupted stretch of code leaves record r in memory and d in the   *)
(* store, and `failed` of its commits have failed.  A record and its list of  *)
(* events change before the commit, so they keep the change when it fails.   *)
Apply(t, r, d, failed) ==
    /\ storeFailures + failed <= MaxStoreFailures
    /\ storeFailures' = storeFailures + failed
    /\ rec' = [rec EXCEPT ![t] = r]
    /\ durable' = [durable EXCEPT ![t] = d]

Emit(r, e) == [r EXCEPT !.events = Append(@, e)]

(* A single commit of r, which has just emitted e. *)
Commit(t, r, e, ok) ==
    Apply(t, Emit(r, e),
          IF ok THEN Stored(durable[t], r, <<e>>) ELSE durable[t],
          IF ok THEN 0 ELSE 1)

Finish(c, res) ==
    /\ pc' = [pc EXCEPT ![c] = "done"]
    /\ result' = [result EXCEPT ![c] = res]

Process == <<mode, restored, crashes>>
-----------------------------------------------------------------------------
(* run_turn up to its first await.                                         *)

Entry(c) == IF KeyOf[c] = None THEN NoSubmission
            ELSE rec[ThreadOf[c]].idem[KeyOf[c]]

Known(c) == Entry(c).turn # None

(* The four answers a known idempotency key has. *)
KeyAnswer(c) ==
    CASE Entry(c).text # TextOf[c] -> Raise("IDEMPOTENCY_CONFLICT")
      [] Entry(c).interrupted      -> Raise("IDEMPOTENCY_INTERRUPTED")
      [] OTHER                     -> Entry(c).summary

AnswerFromKey(c) ==
    /\ mode = "up" /\ pc[c] = "idle" /\ Known(c)
    /\ KeyAnswer(c) # NoResult
    /\ Finish(c, KeyAnswer(c))
    /\ UNCHANGED <<rec, durable, leases, waits, future, cancel, Process, storeFailures>>

(* A matching retry of a Turn in progress awaits its shielded future. *)
Join(c) ==
    /\ mode = "up" /\ pc[c] = "idle" /\ Known(c)
    /\ KeyAnswer(c) = NoResult
    /\ pc' = [pc EXCEPT ![c] = "joined"]
    /\ waits' = [waits EXCEPT ![c] = Entry(c).turn]
    /\ UNCHANGED <<rec, durable, leases, result, future, cancel, Process, storeFailures>>

Occupied(r) == r.status # "idle" \/ r.preflight # None

Refuse(c) ==
    LET r == rec[ThreadOf[c]] IN
    /\ mode = "up" /\ pc[c] = "idle" /\ ~Known(c) /\ Occupied(r)
    /\ Finish(c, Raise(IF r.status = "closed" \/ r.closing
                         THEN "THREAD_CLOSED" ELSE "THREAD_BUSY"))
    /\ UNCHANGED <<rec, durable, leases, waits, future, cancel, Process, storeFailures>>

(* The slot is reserved before the first await, the root validation. *)
BeginPreflight(c) ==
    LET t == ThreadOf[c] IN
    /\ mode = "up" /\ pc[c] = "idle" /\ ~Known(c) /\ ~Occupied(rec[t])
    /\ rec' = [rec EXCEPT ![t].preflight = c]
    /\ pc' = [pc EXCEPT ![c] = "validating"]
    /\ UNCHANGED <<durable, leases, result, waits, future, cancel, Process, storeFailures>>
-----------------------------------------------------------------------------
(* From the validation's await to the Turn's first await: no suspension      *)
(* point lies between acquiring the lease and starting or rejecting.         *)

Running == {"up", "stopping"}

(* The except branch of the preflight.  turn_rejected is emitted before the   *)
(* lease is released, so a failed commit skips the release.                  *)
Reject(c, code, holdsLease, ok) ==
    LET t == ThreadOf[c]
        r == [rec[t] EXCEPT !.preflight = None] IN
    /\ Commit(t, r, Event("turn_rejected", c), ok)
    /\ leases' = IF holdsLease /\ ~ok
                   THEN [leases EXCEPT ![c] = WorkspaceOf[t]] ELSE leases
    /\ Finish(c, Raise(IF ok THEN code ELSE "ThreadStoreError"))
    /\ UNCHANGED <<waits, future, cancel, Process>>

CanStart(c) == mode \in Running /\ pc[c] = "validating" /\ cancel[c] = "no"

(* The task was cancelled while it awaited the validation. *)
RejectCancelled(c) ==
    /\ mode \in Running /\ pc[c] = "validating" /\ cancel[c] # "no"
    /\ \E ok \in BOOLEAN : Reject(c, "TURN_CANCELLED_BEFORE_START", FALSE, ok)

(* The root is gone or is no directory. *)
RejectInvalidRoot(c) ==
    /\ CanStart(c)
    /\ \E ok \in BOOLEAN : Reject(c, "PREFLIGHT_FAILED", FALSE, ok)

RejectBusy(c) ==
    /\ CanStart(c)
    /\ Leases!Busy(WorkspaceOf[ThreadOf[c]])
    /\ \E ok \in BOOLEAN : Reject(c, "WORKSPACE_BUSY", FALSE, ok)

(* The Thread was closed during the validation. *)
RejectClosed(c) ==
    LET r == rec[ThreadOf[c]] IN
    /\ CanStart(c)
    /\ ~Leases!Busy(WorkspaceOf[ThreadOf[c]])
    /\ r.status = "closed" \/ r.closing
    /\ \E ok \in BOOLEAN : Reject(c, "THREAD_CLOSED", TRUE, ok)

Open(c) == LET r == rec[ThreadOf[c]] IN ~(r.status = "closed" \/ r.closing)

(* The context budget, the Skills or the model resolution refuse the Turn. *)
RejectContext(c) ==
    /\ CanStart(c)
    /\ ~Leases!Busy(WorkspaceOf[ThreadOf[c]])
    /\ Open(c)
    /\ \E ok \in BOOLEAN : Reject(c, "PREFLIGHT_FAILED", TRUE, ok)

(* Fault: the root is entered in the table without asking the manager. *)
StartUnasked(c) ==
    LET t == ThreadOf[c]
        r == [rec[t] EXCEPT !.preflight = None, !.status = "running", !.active = c] IN
    /\ CanStart(c) /\ Open(c)
    /\ leases' = [leases EXCEPT ![c] = WorkspaceOf[t]]
    /\ Commit(t, r, Event("turn_started", c), TRUE)
    /\ pc' = [pc EXCEPT ![c] = "running"]
    /\ UNCHANGED <<result, waits, future, cancel, Process>>

StartTurn(c) ==
    LET t == ThreadOf[c]
        r == [rec[t] EXCEPT !.preflight = None, !.status = "running",
                            !.active = c, !.idem = PutKey(@, c, Submission(c))] IN
    /\ CanStart(c)
    /\ Open(c)
    /\ Leases!Acquire(c, WorkspaceOf[t])
    /\ Commit(t, r, Event("turn_started", c), TRUE)
    /\ pc' = [pc EXCEPT ![c] = "running"]
    /\ UNCHANGED <<result, waits, future, cancel, Process>>

(* The commit of turn_started fails: the submission is withdrawn and nothing *)
(* of the Turn runs.                                                        *)
StartLost(c) ==
    LET t == ThreadOf[c]
        r == Emit([rec[t] EXCEPT !.preflight = None], Event("turn_started", c)) IN
    /\ CanStart(c)
    /\ Open(c)
    /\ ~Leases!Busy(WorkspaceOf[t])
    /\ \/ Apply(t, r, Stored(durable[t], r, <<>>), 1)
       \/ Apply(t, r, durable[t], 2)
    /\ Finish(c, Raise("ThreadStoreError"))
    /\ UNCHANGED <<leases, waits, future, cancel, Process>>
-----------------------------------------------------------------------------
(* The active Turn.                                                        *)

Active(c) == mode \in Running /\ pc[c] = "running"

(* The tool coordinator asks for an approval, and the request is settled.   *)
SetWaiting(c, type, before, after) ==
    LET t == ThreadOf[c] IN
    /\ Active(c)
    /\ rec[t].status = before
    /\ Commit(t, [rec[t] EXCEPT !.status = after], Event(type, c), TRUE)
    /\ UNCHANGED <<leases, pc, result, waits, future, cancel, Process>>

Asked(c) == {i \in DOMAIN rec[ThreadOf[c]].events :
                rec[ThreadOf[c]].events[i] = Event("approval_requested", c)}

RequestApproval(c) ==
    /\ cancel[c] = "no" /\ Cardinality(Asked(c)) < MaxApprovals
    /\ SetWaiting(c, "approval_requested", "running", "waiting_approval")

(* Approved, denied, timed out or cancelled: the `finally` is the same. *)
SettleApproval(c) ==
    SetWaiting(c, "approval_resolved", "waiting_approval", "running")

(* Faults of the terminal transition: the active marker survives it, ... *)
EndedKeepsActive(r, c, o) ==
    [r EXCEPT !.status = IF r.closing THEN "closed" ELSE "idle",
              !.turns = Append(@, Summary(c, o)),
              !.idem = IF Keyed(c) /\ @[KeyOf[c]].turn # None
                         THEN [@ EXCEPT ![KeyOf[c]].summary = Summary(c, o)]
                         ELSE @]

(* The terminal fields that _finish_turn sets before it emits. *)
Ended(r, c, o) ==
    [r EXCEPT !.status = IF r.closing THEN "closed" ELSE "idle",
              !.active = None,
              !.turns = Append(@, Summary(c, o)),
              !.idem = IF Keyed(c) /\ @[KeyOf[c]].turn # None
                         THEN [@ EXCEPT ![KeyOf[c]].summary = Summary(c, o)]
                         ELSE @]

(* Fault: a failed Turn keeps its submission. *)
ForgetNothing(r, c) == r

Forget(r, c) == [r EXCEPT !.idem = PutKey(@, c, NoSubmission)]

Terminal(c) == Event("terminal", c)

(* A Stop that went through the controller always ends the Turn as           *)
(* cancelled; a bare task.cancel() can be absorbed by a tool that settles.   *)
Possible(c, o) ==
    /\ rec[ThreadOf[c]].status = "running"
    /\ o = "cancelled" => cancel[c] # "no"
    /\ cancel[c] = "turn" => o = "cancelled"

(* Fault: a closing Thread leaves without releasing its lease. *)
LeaveUnreleased(c, res) ==
    LET t == ThreadOf[c] IN
    /\ IF rec[t].closing THEN UNCHANGED leases ELSE Leases!Release(c, WorkspaceOf[t])
    /\ pc' = [pc EXCEPT ![c] = IF rec[t].closing THEN "cleanup" ELSE "done"]
    /\ result' = [result EXCEPT ![c] = res]
    /\ cancel' = [cancel EXCEPT ![c] = "no"]
    /\ UNCHANGED <<waits, Process>>

(* The `finally` of run_turn: the lease goes first; a closing Thread then     *)
(* awaits the cleanup of its tools.                                          *)
Leave(c, res) ==
    LET t == ThreadOf[c] IN
    /\ Leases!Release(c, WorkspaceOf[t])
    /\ pc' = [pc EXCEPT ![c] = IF rec[t].closing THEN "cleanup" ELSE "done"]
    /\ result' = [result EXCEPT ![c] = res]
    /\ cancel' = [cancel EXCEPT ![c] = "no"]
    /\ UNCHANGED <<waits, Process>>

(* Fault: an exception leaves the future pending. *)
ResolveSummaries(c, res) ==
    future' = IF Keyed(c) /\ res.turn # None THEN [future EXCEPT ![c] = res] ELSE future

(* set_result and cancel of the idempotency future, if the Turn has one. *)
Resolve(c, res) ==
    future' = IF Keyed(c) THEN [future EXCEPT ![c] = res] ELSE future

TurnEnds(c, o) ==
    LET t == ThreadOf[c] IN
    /\ Active(c) /\ Possible(c, o)
    /\ Commit(t, Ended(rec[t], c, o), Terminal(c), TRUE)
    /\ Resolve(c, Summary(c, o))
    /\ Leave(c, Summary(c, o))

(* The terminal commit of a completed Turn fails inside the try block, whose *)
(* catch-all branch then finishes the Turn a second time, as failed.         *)
FinishedTwice(c) ==
    LET t == ThreadOf[c]
        once  == Emit(Ended(rec[t], c, "completed"), Terminal(c))
        twice == Ended(once, c, "failed") IN
    /\ Active(c) /\ Possible(c, "completed")
    /\ Apply(t, Emit(twice, Terminal(c)),
             Stored(durable[t], twice, <<Terminal(c)>>), 1)
    /\ Resolve(c, Summary(c, "failed"))
    /\ Leave(c, Summary(c, "failed"))

(* No terminal commit succeeds: the exception leaves run_turn, which forgets *)
(* the submission; its last save may still succeed.                         *)
TerminalLost(c, o) ==
    LET t == ThreadOf[c]
        once == Emit(Ended(rec[t], c, o), Terminal(c))
        r == Forget(IF o = "completed"
                      THEN Emit(Ended(once, c, "failed"), Terminal(c)) ELSE once, c)
        lost == IF o = "completed" THEN 2 ELSE 1 IN
    /\ Active(c) /\ Possible(c, o)
    /\ \/ Apply(t, r, Stored(durable[t], r, <<>>), lost)
       \/ Apply(t, r, durable[t], lost + 1)
    /\ Resolve(c, Raise("CancelledError"))
    /\ Leave(c, Raise("ThreadStoreError"))

(* The terminal commit succeeds and the next save, of the replay value, does  *)
(* not: the submission is forgotten although its future has its result.       *)
ReplayLost(c, o) ==
    LET t == ThreadOf[c]
        r == Ended(rec[t], c, o)
        committed == Stored(durable[t], r, <<Terminal(c)>>) IN
    /\ Active(c) /\ Possible(c, o)
    /\ \/ Apply(t, Emit(Forget(r, c), Terminal(c)),
                Stored(committed, Forget(r, c), <<>>), 1)
       \/ Apply(t, Emit(Forget(r, c), Terminal(c)), committed, 2)
    /\ Resolve(c, Summary(c, o))
    /\ Leave(c, Raise("ThreadStoreError"))

(* Only the save of the `finally` fails, and replaces the returned summary. *)
ReturnLost(c, o) ==
    LET t == ThreadOf[c]
        r == Ended(rec[t], c, o) IN
    /\ Active(c) /\ Possible(c, o)
    /\ Apply(t, Emit(r, Terminal(c)), Stored(durable[t], r, <<Terminal(c)>>), 1)
    /\ Resolve(c, Summary(c, o))
    /\ Leave(c, Raise("ThreadStoreError"))

(* tools.aclose() of a closing Thread has settled, or its await was cancelled. *)
CleanupEnds(c) ==
    /\ mode \in Running /\ pc[c] = "cleanup"
    /\ rec' = [rec EXCEPT ![ThreadOf[c]].tools = "closed"]
    /\ Finish(c, IF cancel[c] = "no" THEN result[c] ELSE Raise("CancelledError"))
    /\ UNCHANGED <<durable, leases, waits, future, cancel, Process, storeFailures>>

(* A joined call resumes when the future it awaits is settled. *)
JoinEnds(c) ==
    /\ mode \in Running /\ pc[c] = "joined"
    /\ \/ cancel[c] # "no" /\ Finish(c, Raise("CancelledError"))
       \/ \E d \in Call : /\ waits[c] = d /\ future[d] # NoResult
                        /\ Finish(c, future[d])
    /\ waits' = [waits EXCEPT ![c] = None]
    /\ UNCHANGED <<rec, durable, leases, future, cancel, Process, storeFailures>>
-----------------------------------------------------------------------------
(* Commands of other callers, each without an await.                       *)

(* cancel_turn: the controller cancels the Turn's task once.               *)
Stop(t) ==
    LET c == rec[t].active IN
    /\ mode \in Running /\ c # None
    /\ cancel[c] # "turn"
    /\ cancel' = [cancel EXCEPT ![c] = "turn"]
    /\ \E ok \in BOOLEAN : Commit(t, rec[t], Event("turn_cancel_requested", c), ok)
    /\ UNCHANGED <<leases, pc, result, waits, future, Process>>

CloseIdle(t) ==
    LET r == [rec[t] EXCEPT !.closing = TRUE, !.status = "closed",
                            !.tools = "closed"] IN
    /\ mode \in Running /\ rec[t].status # "closed" /\ ~rec[t].closing
    /\ rec[t].active = None
    /\ \/ Apply(t, r, Stored(durable[t], r, <<>>), 0)
       \/ Apply(t, r, durable[t], 1)
    /\ UNCHANGED <<leases, callVars, Process>>

(* The event is emitted before the controller cancels, so a failed commit    *)
(* leaves the Thread closing and its Turn uncancelled.                       *)
CloseActive(t) ==
    LET c == rec[t].active IN
    /\ mode \in Running /\ rec[t].status # "closed" /\ ~rec[t].closing
    /\ c # None
    /\ \E ok \in BOOLEAN :
          /\ Commit(t, [rec[t] EXCEPT !.closing = TRUE],
                    Event("thread_close_requested", c), ok)
          /\ cancel' = IF ok THEN [cancel EXCEPT ![c] = "turn"] ELSE cancel
    /\ UNCHANGED <<leases, pc, result, waits, future, Process>>

(* The owner of the task that runs run_turn cancels it. *)
CancelTask(c) ==
    /\ mode \in Running /\ cancel[c] = "no"
    /\ pc[c] \in Suspended
    /\ cancel' = [cancel EXCEPT ![c] = "task"]
    /\ UNCHANGED <<rec, durable, leases, pc, result, waits, future, Process, storeFailures>>

(* A Thread that aclose saves as it is. *)
Resumable(t) == rec[t].active = None /\ rec[t].status # "closed"

(* aclose() after its loop has passed the Threads of T. *)
Passed(T) ==
    /\ mode = "up" /\ mode' = "stopping"
    /\ cancel' = [c \in Call |-> IF ThreadOf[c] \in T /\ rec[ThreadOf[c]].active = c
                                 THEN "turn" ELSE cancel[c]]
    /\ durable' = [t \in Thread |-> IF t \in T /\ Resumable(t)
                                    THEN Stored(durable[t], rec[t], <<>>) ELSE durable[t]]
    /\ UNCHANGED <<leases, pc, result, waits, future, restored, crashes>>

(* Host shutdown, which keeps Threads resumable. *)
Aclose ==
    /\ Passed(Thread)
    /\ rec' = [t \in Thread |-> [rec[t] EXCEPT !.tools = "closed"]]
    /\ UNCHANGED storeFailures

(* The save of one Thread fails: the exception leaves aclose with the Turns of *)
(* later Threads uncancelled and every tool open.                             *)
AcloseFails ==
    /\ storeFailures < MaxStoreFailures /\ storeFailures' = storeFailures + 1
    /\ \E t \in Thread : Resumable(t) /\ \E T \in SUBSET (Thread \ {t}) : Passed(T)
    /\ UNCHANGED rec
-----------------------------------------------------------------------------
(* Crash and restart.  Everything but the store is process memory.         *)

Crash ==
    /\ mode # "down" /\ crashes < MaxCrashes
    /\ mode' = "down"
    /\ crashes' = crashes + 1
    /\ Leases!ProcessEnds
    /\ rec' = [t \in Thread |-> NewRecord]
    /\ pc' = [c \in Call |-> IF pc[c] \in {"idle", "done"} THEN pc[c] ELSE "lost"]
    /\ result' = [c \in Call |-> IF pc[c] = "done" THEN result[c] ELSE NoResult]
    /\ waits' = [c \in Call |-> None]
    /\ future' = [c \in Call |-> NoResult]
    /\ cancel' = [c \in Call |-> "no"]
    /\ restored' = {}
    /\ UNCHANGED <<durable, storeFailures>>

Restart ==
    /\ mode = "down"
    /\ mode' = "starting"
    /\ UNCHANGED <<rec, durable, leases, callVars, restored, crashes, storeFailures>>

Contains(s, x) == \E i \in DOMAIN s : s[i] = x

(* The terminal transition of the active marker's Turn is committed. *)
IsCoherentlyTerminal(d) ==
    /\ d.active # None /\ d.turns # <<>>
    /\ LET latest == d.turns[Len(d.turns)] IN
          /\ latest.turn = d.active
          /\ Contains(d.events, Terminal(d.active))
          /\ Keyed(d.active) => d.idem[KeyOf[d.active]].summary = latest

Loaded(d) == [NewRecord EXCEPT !.status = d.status, !.active = d.active,
                               !.turns = d.turns, !.idem = d.idem,
                               !.events = d.events]

Repaired(d) == [Loaded(d) EXCEPT !.active = None,
                                 !.status = IF @ = "closed" THEN "closed" ELSE "idle"]

(* Faults of recovery: the key is freed, or the Turn dropped without outcome. *)
RecoveredFreesKey(d) ==
    [Loaded(d) EXCEPT !.active = None, !.status = "idle",
                      !.turns = Append(@, Summary(d.active, "runtime_restarted")),
                      !.idem = PutKey(@, d.active, NoSubmission)]
RecoveredSilently(d) == [Loaded(d) EXCEPT !.active = None, !.status = "idle"]

(* _recover_active_record: the interrupted Turn becomes one failure. *)
Recovered(d) ==
    LET c == d.active
        s == [Submission(c) EXCEPT !.summary = Summary(c, "runtime_restarted"),
                                   !.interrupted = TRUE] IN
    [Loaded(d) EXCEPT !.active = None, !.status = "idle",
                      !.turns = Append(@, Summary(c, "runtime_restarted")),
                      !.idem = IF Keyed(c) /\ @[KeyOf[c]].turn # None
                                 THEN PutKey(@, c, s) ELSE @]

RestoreThread(t) ==
    LET d == durable[t] IN
    /\ mode = "starting" /\ t \notin restored
    /\ restored' = restored \cup {t}
    /\ mode' = IF restored' = Thread THEN "up" ELSE mode
    /\ IF IsCoherentlyTerminal(d)
         THEN Apply(t, Repaired(d), Stored(d, Repaired(d), <<>>), 0)
         ELSE IF d.active # None
           THEN Commit(t, Recovered(d), Terminal(d.active), TRUE)
           ELSE Apply(t, Loaded(d), d, 0)
    /\ UNCHANGED <<leases, callVars, crashes>>

(* A save of the recovery fails and the constructor raises: the process has not *)
(* started.  An interrupted Turn is saved with its terminal event and then     *)
(* once more, so it may have its outcome.                                     *)
RestoreFails(t) ==
    LET d == durable[t] IN
    /\ mode = "starting" /\ t \notin restored /\ d.active # None
    /\ storeFailures < MaxStoreFailures /\ storeFailures' = storeFailures + 1
    /\ mode' = "down" /\ restored' = {} /\ rec' = [u \in Thread |-> NewRecord]
    /\ \/ UNCHANGED durable
       \/ /\ ~IsCoherentlyTerminal(d)
          /\ durable' = [durable EXCEPT ![t] =
                             Stored(d, Recovered(d), <<Terminal(d.active)>>)]
    /\ UNCHANGED <<leases, callVars, crashes>>
-----------------------------------------------------------------------------
Preflight(c) == \/ RejectCancelled(c) \/ RejectInvalidRoot(c) \/ RejectBusy(c)
                \/ RejectClosed(c) \/ RejectContext(c)
                \/ StartTurn(c) \/ StartLost(c)

TurnTerminates(c) ==
    \/ FinishedTwice(c)
    \/ \E o \in TurnOutcome :
          TurnEnds(c, o) \/ TerminalLost(c, o) \/ ReplayLost(c, o) \/ ReturnLost(c, o)

Invoke(c) == AnswerFromKey(c) \/ Join(c) \/ Refuse(c) \/ BeginPreflight(c)

Settles(c) == Preflight(c) \/ SettleApproval(c) \/ TurnTerminates(c)
              \/ CleanupEnds(c) \/ JoinEnds(c)

Next ==
    \/ \E c \in Call : Invoke(c) \/ Settles(c) \/ RequestApproval(c) \/ CancelTask(c)
    \/ \E t \in Thread : \/ Stop(t) \/ CloseIdle(t) \/ CloseActive(t)
                         \/ RestoreThread(t) \/ RestoreFails(t)
    \/ Aclose \/ AcloseFails \/ Crash \/ Restart

Spec == Init /\ [][Next]_vars

(* The event loop runs every ready task; validation, models, tools and        *)
(* approvals are all bounded by timeouts.  Nothing restarts a dead process,   *)
(* but a starting one finishes its recovery.                                 *)
Fairness == /\ \A c \in Call : WF_vars(Settles(c))
            /\ \A t \in Thread : WF_vars(RestoreThread(t))

FairSpec == Spec /\ Fairness
-----------------------------------------------------------------------------
Status == {"idle", "running", "waiting_approval", "closed"}
EventType == {"turn_started", "turn_rejected", "approval_requested",
              "approval_resolved", "turn_cancel_requested",
              "thread_close_requested", "terminal"}
Result == [turn : Call, code : Outcome] \cup [turn : {None}, code : ErrorCode]
EventRec == [type : EventType, turn : Call]
SubmissionRec == [turn : Call \cup {None}, text : Text \cup {None},
                  summary : Result, interrupted : BOOLEAN]
TurnList == Seq([turn : Call, code : Outcome])
ThreadRecord == [status : Status, closing : BOOLEAN,
                 preflight : Call \cup {None}, active : Call \cup {None},
                 turns : TurnList, events : Seq(EventRec),
                 idem : [Key -> SubmissionRec], tools : {"open", "closed"}]
StoredThread == [status : Status, active : Call \cup {None}, turns : TurnList,
                 idem : [Key -> SubmissionRec], events : Seq(EventRec)]
PC == {"idle", "validating", "joined", "running", "cleanup", "done", "lost"}

TypeOK ==
    /\ mode \in {"up", "stopping", "down", "starting"}
    /\ rec \in [Thread -> ThreadRecord]
    /\ durable \in [Thread -> StoredThread]
    /\ Leases!TypeOK
    /\ pc \in [Call -> PC]
    /\ result \in [Call -> Result]
    /\ waits \in [Call -> Call \cup {None}]
    /\ future \in [Call -> Result]
    /\ cancel \in [Call -> {"no", "task", "turn"}]
    /\ restored \subseteq Thread
    /\ crashes \in 0..MaxCrashes
    /\ storeFailures \in 0..MaxStoreFailures

(* The four places that say a Turn is active - the record's status, its       *)
(* active_turn, its preflight slot and the suspended run_turn call - agree    *)
(* after every stretch of code, failed commits, closes and crashes included. *)
RecordsAgree ==
    /\ \A t \in Thread :
          /\ (rec[t].status \in {"running", "waiting_approval"}) <=> (rec[t].active # None)
          /\ rec[t].active # None => rec[t].preflight = None
    /\ \A c \in Call :
          /\ (pc[c] = "running") <=> (rec[ThreadOf[c]].active = c)
          /\ (pc[c] = "validating") <=> (rec[ThreadOf[c]].preflight = c)

(* A running Turn holds the lease of its Thread's root, whatever fails. *)
RunningHoldsLease ==
    \A c \in Call : pc[c] = "running" => leases[c] = WorkspaceOf[ThreadOf[c]]

(* Every step of the Runtime is one of the lease manager: no path takes a     *)
(* lease without the two refusals or changes the table behind its back.      *)
LeasesImplemented == Leases!Spec

(* Two running Turns, of any Threads, never work under roots that overlap,    *)
(* and there are never more of them than the capacity.                       *)
RunningDisjoint ==
    LET R == {c \in Call : pc[c] = "running"} IN
    /\ Cardinality(R) <= MaxActiveTurns
    /\ \A c, d \in R : c # d =>
          ~Leases!Overlaps(WorkspaceOf[ThreadOf[c]], WorkspaceOf[ThreadOf[d]])

(* Docs: a lease "is held during RUNNING and WAITING_APPROVAL and released on *)
(* every terminal path".  Rejections, closes, cancels and recoveries included.*)
LeaseReleased == \A c \in Call : leases[c] # None => pc[c] = "running"

Outcomes(d, c) == {i \in DOMAIN d.turns : d.turns[i].turn = c}

(* A summary that run_turn returned - to the caller that ran the Turn, to one *)
(* that joined it or replayed its key - is already committed, so no crash can *)
(* take it back.                                                            *)
ReturnedIsDurable == \A c \in Call :
    result[c].turn # None => Contains(durable[ThreadOf[c]].turns, result[c])

Started(t) == {c \in Call : Contains(durable[t].events, Event("turn_started", c))}

(* As long as every commit succeeded, an idempotency key starts at most one   *)
(* Turn of a Thread, across retries, cancels, crashes and restarts.  (A Turn  *)
(* whose failed start commit reached the store anyway has lost its key.)      *)
OneTurnPerKey == storeFailures = 0 => \A t \in Thread : \A c, d \in Started(t) :
    Keyed(c) /\ KeyOf[c] = KeyOf[d] => c = d

(* Every Turn the store has started is active there or has its outcome: none  *)
(* is lost between a failed commit, a crash and a recovery; nor, as long as   *)
(* every commit succeeded, does a Turn end twice, a stale marker included.    *)
(* (A Turn whose terminal commit fails is ended again, as failed.)            *)
NoTurnForgotten == \A t \in Thread : \A c \in Started(t) :
    \/ durable[t].active = c
    \/ /\ Outcomes(durable[t], c) # {}
       /\ storeFailures = 0 => Cardinality(Outcomes(durable[t], c)) = 1

(* No run_turn call is suspended for ever: each returns, raises or dies with  *)
(* the process; nobody waits for ever for a root check, an approval, a tool,  *)
(* a joined Turn or a cleanup.  Nor is an active Thread closing for ever: the *)
(* close request ends with it closed, or the process gone.                    *)
CallsSettle ==
    /\ \A c \in Call : []<>(pc[c] \notin Suspended)
    /\ \A t \in Thread : []<>(~rec[t].closing \/ rec[t].status = "closed" \/ mode \notin Running)
=============================================================================
