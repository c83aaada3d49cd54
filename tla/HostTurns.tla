------------------------------ MODULE HostTurns ------------------------------
(***************************************************************************)
(* The Host above the Thread Runtime, for one life of its process: the       *)
(* TurnTaskManager of agent/host/turn_tasks.py with the start, cancel and    *)
(* close endpoints and the shutdown of agent/host/app.py.                   *)
(*                                                                         *)
(* A Call of the Runtime is now the background task of one accepted start    *)
(* request; every step of run_turn is taken by that task, and the task's      *)
(* except and finally clauses run in the step in which run_turn leaves.       *)
(***************************************************************************)
EXTENDS ThreadRuntime

VARIABLES submission,     \* the _Submission of each Thread
          failure,        \* the _failures entry of each Thread
          task,           \* the asyncio task of each call
          accepting       \* TurnTaskManager._accepting

hostVars == <<submission, failure, task, accepting>>
allVars == <<vars, hostVars>>

NoTask == [turn |-> None, cancelling |-> FALSE]
NoFailure == [code |-> "none", turn |-> None]

HostInit ==
    /\ Init
    /\ submission = [t \in Thread |-> NoTask]
    /\ failure = [t \in Thread |-> NoFailure]
    /\ task = [c \in Call |-> "none"]
    /\ accepting = TRUE

(* _latest_rejection: the code and Turn of the Thread's newest event, if that *)
(* is a turn_rejected.                                                       *)
LatestRejection(events) ==
    IF events # <<>> /\ events[Len(events)].type = "turn_rejected"
      THEN [code |-> "REJECTED", turn |-> events[Len(events)].turn]
      ELSE NoFailure

Cancelled(code) == code \in {"CancelledError", "TURN_CANCELLED_BEFORE_START"}

RecordedFailure(events, code) ==
    IF LatestRejection(events) # NoFailure THEN LatestRejection(events)
    ELSE [code |-> IF Cancelled(code) THEN "TURN_CANCELLED_BEFORE_START"
                                      ELSE "TURN_TASK_FAILED", turn |-> None]

(* _run after its await: consume the result or exception, remove the mapping. *)
Bookkeeping(c) ==
    LET t == ThreadOf[c]
        ended == pc'[c] = "done" IN
    /\ submission' = IF ended /\ submission[t].turn = c
                       THEN [submission EXCEPT ![t] = NoTask] ELSE submission
    /\ failure' = IF ended /\ result'[c].turn = None
         THEN [failure EXCEPT ![t] = RecordedFailure(rec'[t].events, result'[c].code)]
         ELSE failure
-----------------------------------------------------------------------------
(* The endpoints.  Requests they refuse change nothing and are not steps.    *)

(* Fault: only a running Turn counts as a duplicate. *)
StartDuringPreflight(c) ==
    LET t == ThreadOf[c] IN
    /\ accepting /\ task[c] = "none"
    /\ rec[t].status # "closed" /\ rec[t].active = None
    /\ failure' = [failure EXCEPT ![t] = NoFailure]
    /\ submission' = [submission EXCEPT ![t] = [turn |-> c, cancelling |-> FALSE]]
    /\ task' = [task EXCEPT ![c] = "created"]
    /\ UNCHANGED <<vars, accepting>>

(* POST /turns: TurnTaskManager.start up to its sleep(0).                   *)
StartRequest(c) ==
    LET t == ThreadOf[c] IN
    /\ accepting /\ task[c] = "none"
    /\ rec[t].status # "closed"
    /\ submission[t] = NoTask /\ rec[t].active = None
    /\ failure' = [failure EXCEPT ![t] = NoFailure]
    /\ submission' = [submission EXCEPT ![t] = [turn |-> c, cancelling |-> FALSE]]
    /\ task' = [task EXCEPT ![c] = "created"]
    /\ UNCHANGED <<vars, accepting>>

(* The task's first step: run_turn up to its first await. *)
TaskBegins(c) ==
    /\ task[c] = "created"
    /\ task' = [task EXCEPT ![c] = "started"]
    /\ Invoke(c) /\ Bookkeeping(c)
    /\ UNCHANGED <<accepting>>

TaskSettles(c) ==
    /\ Settles(c) /\ Bookkeeping(c)
    /\ UNCHANGED <<task, accepting>>

TaskAsks(c) == RequestApproval(c) /\ UNCHANGED hostVars

(* task.cancel() on the task of c: one that has not run its first step never *)
(* enters _run, one that is suspended is cancelled at its await.              *)
NeverRun(cs) == task' = [c \in Call |-> IF c \in cs /\ task[c] = "created"
                                          THEN "never" ELSE task[c]]
Interrupted(cs) == [c \in Call |-> IF c \in cs /\ pc[c] \in Suspended /\ cancel[c] = "no"
                                     THEN "task" ELSE cancel[c]]

Cancelling(t) == submission' = [submission EXCEPT ![t].cancelling = TRUE]

(* POST /cancel before the Turn is active, or while its tools are closed.    *)
CancelPending(t) ==
    LET c == submission[t].turn IN
    /\ c # None /\ rec[t].active = None
    /\ NeverRun({c}) /\ cancel' = Interrupted({c})
    /\ Cancelling(t)
    /\ UNCHANGED <<mode, rec, durable, leases, pc, result, waits, future, restored,
                   crashes, storeFailures, failure, accepting>>

(* POST /cancel of an active Turn delegates to Runtime.cancel_turn. *)
CancelActive(t) ==
    /\ submission[t].turn # None
    /\ Stop(t)
    /\ Cancelling(t)
    /\ UNCHANGED <<failure, task, accepting>>

(* Closing the Thread: the record and the store without any lease or call.   *)
Close(t, r, newEvents) ==
    Apply(t, [r EXCEPT !.events = @ \o newEvents],
          Stored(durable[t], r, newEvents), 0)

CanClose(t) == mode \in Running /\ rec[t].status # "closed" /\ ~rec[t].closing

(* POST /close of a Thread without a submission. *)
CloseQuiet(t) ==
    /\ submission[t] = NoTask
    /\ CloseIdle(t)
    /\ UNCHANGED <<submission, failure, task, accepting>>

(* POST /close during the preflight: the task is cancelled, then the Thread,  *)
(* which has no active Turn, is closed at once.                              *)
ClosePending(t) ==
    LET c == submission[t].turn IN
    /\ c # None /\ rec[t].active = None /\ CanClose(t)
    /\ NeverRun({c}) /\ cancel' = Interrupted({c})
    /\ Cancelling(t)
    /\ Close(t, [rec[t] EXCEPT !.closing = TRUE, !.status = "closed",
                               !.tools = "closed"], <<>>)
    /\ UNCHANGED <<leases, pc, result, waits, future, Process, failure, accepting>>

(* POST /close of an active Turn: cancel_turn, then close_thread. *)
CloseRunning(t) ==
    LET c == rec[t].active IN
    /\ submission[t].turn # None /\ c # None /\ CanClose(t)
    /\ cancel[c] # "turn"
    /\ cancel' = [cancel EXCEPT ![c] = "turn"]
    /\ Cancelling(t)
    /\ Close(t, [rec[t] EXCEPT !.closing = TRUE],
             <<Event("turn_cancel_requested", c), Event("thread_close_requested", c)>>)
    /\ UNCHANGED <<leases, pc, result, waits, future, Process, failure, task, accepting>>

(* After a Stop, cancel_turn answers False, the endpoint raises              *)
(* NoActiveTurnError before it reaches close_thread, and nothing changes.    *)

Submitted == {submission[t].turn : t \in Thread} \ {None}

(* TurnTaskManager.shutdown up to its gather. *)
ShutdownBegins ==
    /\ accepting
    /\ accepting' = FALSE
    /\ NeverRun(Submitted) /\ cancel' = Interrupted(Submitted)
    /\ UNCHANGED <<mode, rec, durable, leases, pc, result, waits, future, restored,
                   crashes, storeFailures, submission, failure>>

(* Fault: the shutdown waits for an empty mapping instead of its tasks. *)
ShutdownPolls ==
    /\ ~accepting /\ Submitted = {}
    /\ Aclose
    /\ UNCHANGED hostVars

(* Every gathered task is done; the Runtime is closed next.  The ten-second    *)
(* deadline cancels the gathered tasks once more but still waits for them.    *)
ShutdownEnds ==
    /\ ~accepting
    /\ \A c \in Submitted : pc[c] = "done" \/ task[c] = "never"
    /\ Aclose \/ AcloseFails
    /\ submission' = [t \in Thread |-> NoTask]
    /\ UNCHANGED <<failure, task, accepting>>
-----------------------------------------------------------------------------
HostNext ==
    \/ \E c \in Call : StartRequest(c) \/ TaskBegins(c) \/ TaskSettles(c) \/ TaskAsks(c)
    \/ \E t \in Thread : \/ CancelPending(t) \/ CancelActive(t)
                         \/ CloseQuiet(t) \/ ClosePending(t)
                         \/ CloseRunning(t)
    \/ ShutdownBegins \/ ShutdownEnds

HostSpec == HostInit /\ [][HostNext]_allVars

(* The event loop runs every ready task and resumes the shutdown coroutine   *)
(* after its gather; no request is ever forced to arrive.                    *)
HostFairSpec == /\ HostSpec
                /\ \A c \in Call : WF_allVars(TaskBegins(c)) /\ WF_allVars(TaskSettles(c))
                /\ WF_allVars(ShutdownEnds)
-----------------------------------------------------------------------------
HostTypeOK ==
    /\ TypeOK
    /\ submission \in [Thread -> [turn : Call \cup {None}, cancelling : BOOLEAN]]
    /\ failure \in [Thread -> [code : {"none", "REJECTED", "TURN_TASK_FAILED",
                                       "TURN_CANCELLED_BEFORE_START"},
                               turn : Call \cup {None}]]
    /\ task \in [Call -> {"none", "created", "started", "never"}]
    /\ accepting \in BOOLEAN

(* Every suspended run_turn call is the one its Thread's mapping names, so a  *)
(* Stop, a close and the shutdown always reach it.                          *)
SubmissionCovers == \A c \in Call :
    pc[c] \in Suspended => submission[ThreadOf[c]].turn = c

(* The shutdown always gets as far as closing the Runtime. *)
ShutdownCompletes == ~accepting ~> mode = "stopping"

=============================================================================
