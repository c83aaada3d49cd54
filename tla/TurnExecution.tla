---------------------------- MODULE TurnExecution ----------------------------
(* One Turn: AgentLoop.run, the ToolCoordinator's batch of tool calls with     *)
(* their approvals, and RunController.wait, which races every model call and   *)
(* tool against the execution deadline and the cancellation of the Turn's      *)
(* task.                                                                       *)
(*                                                                             *)
(* The event loop is single-threaded: a request (Stop, an approval, the        *)
(* shutdown's task.cancel()) is handled only while the Turn's task is          *)
(* suspended at an await.  Between two awaits the Turn moves alone, but clocks *)
(* and the worker threads of synchronous tools go on.                          *)
EXTENDS Naturals, Sequences

CONSTANTS MaxIterations,    \* AgentLimits.max_iterations
          MaxToolCalls,     \* AgentLimits.max_tool_calls
          RepeatLimit,      \* _REPEATED_FAILURE_LIMIT
          MaxBatch,         \* bound: tool calls of one response
          MaxInterrupts,    \* bound: task.cancel() calls by the Host
          MaxEmitFailures   \* bound: events whose commit fails

ASSUME TurnBounds ==
    /\ {MaxIterations, MaxToolCalls, RepeatLimit, MaxBatch} \subseteq Nat \ {0}
    /\ {MaxInterrupts, MaxEmitFailures} \subseteq Nat

VARIABLES pc,               \* where the Turn's task is
          wait,             \* where it is inside RunController.wait
          op,               \* the operation task of that wait
          interrupt,        \* a CancelledError the task gets when it resumes
          stopRequested,    \* RunController._cancel_requested
          cancels,          \* accepted Stop plus the Host's task.cancel() calls
          expired,          \* no execution time remains
          paused,           \* _paused_at is set
          iterations, toolCalls,
          failures,         \* the last failure fingerprint and its repetitions
          batch,            \* number of tool calls of the last response
          index,            \* the call the batch is at
          current,          \* the result of that call, before it is recorded
          results,          \* the tool messages that follow the last response
          approval,         \* the approval of the current call
          patience,         \* the approval timeout has not fired
          emitFailures,
          outcome           \* the stop reason, once the Turn has ended

clocks == <<expired, paused, patience>>
counters == <<iterations, toolCalls, failures, emitFailures>>
calls == <<batch, index, current, results>>
control == <<wait, op, interrupt, stopRequested, cancels>>
vars == <<pc, control, clocks, counters, calls, approval, outcome>>

Suspended == pc \in {"assembling", "streaming", "approval", "executing"}
Codes == {"ok", "failed"}
Response == {"calls", "text", "length", "empty"}
NoOp == [kind |-> "none", call |-> 0, state |-> "done", settled |-> FALSE, result |-> "none"]
NoFailure == [code |-> "none", count |-> 0]

Init ==
    /\ pc = "loop" /\ wait = "none" /\ op = NoOp
    /\ interrupt = FALSE /\ stopRequested = FALSE /\ cancels = 0
    /\ expired = FALSE /\ paused = FALSE /\ patience = TRUE
    /\ iterations = 0 /\ toolCalls = 0 /\ failures = NoFailure /\ emitFailures = 0
    /\ batch = 0 /\ index = 0 /\ current = "none" /\ results = <<>>
    /\ approval = "none" /\ outcome = "none"
-----------------------------------------------------------------------------
(* Fault: only the deadline is checked. *)
CheckDeadline == IF expired THEN "execution_timeout" ELSE "none"

(* RunController.checkpoint: what it raises. *)
CheckError == IF stopRequested THEN "cancelled"
              ELSE IF expired THEN "execution_timeout" ELSE "none"

(* _execute_active_turn maps the exception to the Turn's stop reason. *)
Finish(reason) == pc' = "ended" /\ outcome' = reason

Answers(from, code) ==
    [i \in 1..(batch - from + 1) |-> [call |-> from + i - 1, code |-> code]]

AbortCode(error) ==
    CASE error = "approval_timeout" -> "APPROVAL_TIMEOUT"
      [] error = "cancelled"        -> "CANCELLED"
      [] error = "runtime_error"    -> "INTERNAL_ERROR"
      [] OTHER                      -> "LIMIT_REACHED"

(* _abort_batch: the current call and every later one get a result; when the *)
(* commit of a tool_finished event fails, only those before it do.           *)
Abort(error) ==
    \/ /\ results' = results \o Answers(index, AbortCode(error))
       /\ Finish(error)
       /\ UNCHANGED emitFailures
    \/ /\ emitFailures < MaxEmitFailures /\ emitFailures' = emitFailures + 1
       /\ results' = Append(results, [call |-> index, code |-> AbortCode(error)])
       /\ Finish("runtime_error")

(* Task.cancel() on the operation: one that has not begun never will; the     *)
(* dispatch of a synchronous tool absorbs the cancellation until its worker   *)
(* thread is done; anything else unwinds.                                     *)
CancelOp ==
    op' = CASE op.state = "created" -> [op EXCEPT !.state = "cancelled"]
            [] op.state = "running" /\ op.kind = "sync" -> [op EXCEPT !.settled = TRUE]
            [] op.state = "running" /\ op.kind # "sync" -> [op EXCEPT !.state = "unwinding"]
            [] OTHER -> op

OpDone == op.state \in {"done", "cancelled"}

(* Fault: the clock stays paused. *)
ResumeNothing == UNCHANGED paused

ResumeDeadline == paused' = FALSE

(* RunController.wait up to its asyncio.wait. *)
Launch(kind, where) ==
    /\ pc' = where /\ wait' = "waiting"
    /\ op' = [NoOp EXCEPT !.kind = kind, !.call = index, !.state = "created"]
    /\ UNCHANGED <<interrupt, stopRequested, cancels>>
-----------------------------------------------------------------------------
(* The operation task. *)
OpBegins ==
    /\ op.state = "created" /\ op' = [op EXCEPT !.state = "running"]
    /\ UNCHANGED <<pc, wait, interrupt, stopRequested, cancels, clocks, counters,
                   calls, approval, outcome>>

OpResults == CASE op.kind = "assemble" -> {"ok", "context_limit", "context_compaction_failed"}
               [] op.kind = "model"    -> Response \cup {"model_error"}
               [] OTHER                -> Codes

OpEnds ==
    /\ op.state = "running"
    /\ \E r \in OpResults : op' = [op EXCEPT !.state = "done", !.result = r]
    /\ UNCHANGED <<pc, wait, interrupt, stopRequested, cancels, clocks, counters,
                   calls, approval, outcome>>

OpUnwinds ==
    /\ op.state = "unwinding" /\ op' = [op EXCEPT !.state = "cancelled"]
    /\ UNCHANGED <<pc, wait, interrupt, stopRequested, cancels, clocks, counters,
                   calls, approval, outcome>>
-----------------------------------------------------------------------------
(* RunController.wait, one action per resumption of the Turn's task. *)
Parked == UNCHANGED <<pc, stopRequested, cancels, clocks, counters, calls, approval, outcome>>

(* asyncio.wait was cancelled: the except clause cancels the operation. *)
WaitInterrupted ==
    /\ wait = "waiting" /\ interrupt
    /\ wait' = "unwindSweep" /\ interrupt' = FALSE /\ CancelOp /\ Parked

WaitReturns ==
    /\ wait = "waiting" /\ ~interrupt /\ OpDone
    /\ wait' = "sweeping" /\ UNCHANGED <<op, interrupt>> /\ Parked

WaitExpires ==
    /\ wait = "waiting" /\ ~interrupt /\ ~OpDone /\ expired
    /\ wait' = "late" /\ CancelOp /\ UNCHANGED interrupt /\ Parked

(* The awaits inside the try block, interrupted. *)
LaterInterrupted ==
    /\ wait \in {"sweeping", "late", "lateSweep"} /\ interrupt /\ OpDone
    /\ wait' = "unwindSweep" /\ interrupt' = FALSE /\ UNCHANGED op /\ Parked

(* Fault: the timed-out operation is not awaited. *)
LateUnawaited ==
    /\ wait = "late" /\ ~interrupt
    /\ wait' = "lateSweep" /\ UNCHANGED <<op, interrupt>> /\ Parked

LateEnds ==
    /\ wait = "late" /\ ~interrupt /\ OpDone
    /\ wait' = "lateSweep" /\ UNCHANGED <<op, interrupt>> /\ Parked

UnwindSwept ==
    /\ wait = "unwindSweep" /\ ~interrupt
    /\ wait' = "unwinding" /\ UNCHANGED <<op, interrupt>> /\ Parked

(* Faults: any completed operation survives, or only a successful tool. *)
KeptAny == op.state = "done"
KeptOk == op.state = "done" /\ op.settled /\ op.result = "ok"

(* Only a ToolResult marked _settled_after_cancellation survives. *)
Kept == op.state = "done" /\ op.settled

(* The wait hands the operation's result over. *)
WaitAnswers ==
    \/ wait = "sweeping" /\ ~interrupt
    \/ wait = "lateSweep" /\ ~interrupt /\ Kept
    \/ wait = "unwinding" /\ ~interrupt /\ OpDone /\ Kept

(* The wait raises: a second cancellation during its except clause goes       *)
(* through at once while the timers are swept, and once the operation is done *)
(* while that is gathered.                                                   *)
WaitRaises(error) ==
    \/ error = "execution_timeout" /\ wait = "lateSweep" /\ ~interrupt /\ ~Kept
    \/ error = "cancelled" /\ wait = "unwindSweep" /\ interrupt
    \/ error = "cancelled" /\ wait = "unwinding" /\ OpDone /\ (interrupt \/ ~Kept)

LeaveWait == wait' = "none" /\ interrupt' = FALSE /\ UNCHANGED <<op, stopRequested, cancels>>
-----------------------------------------------------------------------------
(* AgentLoop.run. *)
BeginIteration ==
    /\ pc = "loop"
    /\ IF CheckError = "none" /\ iterations < MaxIterations
         THEN /\ iterations' = iterations + 1
              /\ Launch("assemble", "assembling")
              /\ UNCHANGED outcome
         ELSE /\ Finish(IF CheckError = "none" THEN "max_iterations" ELSE CheckError)
              /\ UNCHANGED <<iterations, control>>
    /\ UNCHANGED <<clocks, toolCalls, failures, emitFailures, calls, approval>>

Assembled ==
    /\ pc = "assembling" /\ WaitAnswers
    /\ IF op.result = "ok" /\ CheckError = "none"
         THEN Launch("model", "streaming") /\ UNCHANGED outcome
         ELSE /\ Finish(IF op.result = "ok" THEN CheckError ELSE op.result)
              /\ LeaveWait
    /\ UNCHANGED <<clocks, counters, calls, approval>>

StopReason(response) ==
    CASE response = "text"   -> "completed"
      [] response = "length" -> "output_length"
      [] response = "empty"  -> "empty_response"
      [] OTHER               -> response

Responded ==
    /\ pc = "streaming" /\ WaitAnswers /\ LeaveWait
    /\ IF op.result = "calls"
         THEN /\ pc' = "call" /\ batch' \in 1..MaxBatch /\ index' = 1 /\ results' = <<>>
              /\ UNCHANGED <<current, outcome>>
         ELSE Finish(StopReason(op.result)) /\ UNCHANGED calls
    /\ UNCHANGED <<clocks, counters, approval>>

ModelStepRaises ==
    /\ pc \in {"assembling", "streaming"}
    /\ \E error \in {"cancelled", "execution_timeout"} : WaitRaises(error) /\ Finish(error)
    /\ LeaveWait
    /\ UNCHANGED <<clocks, counters, calls, approval>>
-----------------------------------------------------------------------------
(* ToolCoordinator.execute, call by call. *)
BatchDone ==
    /\ pc = "call" /\ index > batch /\ pc' = "loop"
    /\ UNCHANGED <<control, clocks, counters, calls, approval, outcome>>

MayBegin == CheckError = "none" /\ toolCalls < MaxToolCalls

(* Fault: the refused call itself is not answered. *)
RefusedLater(error) ==
    /\ results' = results \o Answers(index + 1, "LIMIT_REACHED")
    /\ Finish(error)

(* begin_tool refuses the call: for a limit, it and all later ones are         *)
(* answered as skipped; a CancelledError is not caught here.                  *)
Refused(error) ==
    /\ results' = IF error = "cancelled" THEN results
                  ELSE results \o Answers(index, "LIMIT_REACHED")
    /\ Finish(error)

BeginTool ==
    /\ pc = "call" /\ index <= batch
    /\ approval' = "none"
    /\ \/ /\ MayBegin
          /\ toolCalls' = toolCalls + 1 /\ pc' = "decide"
          /\ UNCHANGED <<results, outcome>>
       \/ /\ ~MayBegin
          /\ Refused(IF CheckError = "none" THEN "max_tool_calls" ELSE CheckError)
          /\ UNCHANGED toolCalls
    /\ UNCHANGED <<control, clocks, iterations, failures, emitFailures,
                   batch, index, current>>

(* Policy.decide: a denial is an ordinary result. *)
Decide ==
    /\ pc = "decide"
    /\ \/ pc' = "start" /\ UNCHANGED current
       \/ pc' = "record" /\ current' = "POLICY_DENIED"
    /\ UNCHANGED <<control, clocks, counters, batch, index, results, approval, outcome>>

(* _request_approval up to its await: pause_deadline is the last check. *)
AskApproval ==
    /\ pc = "decide" /\ approval' = "pending"
    /\ IF CheckError = "none"
         THEN /\ pc' = "approval" /\ paused' = TRUE /\ patience' = TRUE
              /\ UNCHANGED <<results, outcome, emitFailures>>
         ELSE Abort(CheckError) /\ UNCHANGED <<paused, patience>>
    /\ UNCHANGED <<control, expired, iterations, toolCalls, failures,
                   batch, index, current>>

(* resolve_approval and the timer of asyncio.wait_for. *)
ResolveApproval(answer) ==
    /\ pc = "approval" /\ approval = "pending" /\ approval' = answer
    /\ UNCHANGED <<pc, control, clocks, counters, calls, outcome>>

PatienceEnds ==
    /\ pc = "approval" /\ approval = "pending" /\ patience /\ patience' = FALSE
    /\ UNCHANGED <<pc, control, expired, paused, counters, calls, approval, outcome>>

(* asyncio.wait_for (Python 3.11): a settled future wins over the timer and   *)
(* over a cancellation that reach the task before it resumes.                *)
Answered ==
    /\ pc = "approval" /\ approval \in {"approved", "denied"}
    /\ IF approval = "approved"
         THEN pc' = "start" /\ UNCHANGED current
         ELSE pc' = "record" /\ current' = "POLICY_DENIED"
    /\ interrupt' = FALSE /\ ResumeDeadline
    /\ UNCHANGED <<wait, op, stopRequested, cancels, expired, patience, counters,
                   batch, index, results, approval, outcome>>

(* Fault: the timer wins over an answer that is already there. *)
GiveUpAnswered ==
    /\ pc = "approval" /\ approval # "cancelled" /\ ~patience /\ ~interrupt
    /\ approval' = "cancelled"
    /\ UNCHANGED <<pc, control, clocks, counters, calls, outcome>>

(* The timer won: the future is cancelled before the task waits for it once more. *)
GiveUp ==
    /\ pc = "approval" /\ approval = "pending" /\ ~patience /\ ~interrupt
    /\ approval' = "cancelled"
    /\ UNCHANGED <<pc, control, clocks, counters, calls, outcome>>

ApprovalRaises ==
    /\ pc = "approval" /\ interrupt' = FALSE /\ ResumeDeadline /\ approval' = "cancelled"
    /\ \/ approval \in {"pending", "cancelled"} /\ interrupt /\ Abort("cancelled")
       \/ approval = "cancelled" /\ ~interrupt /\ Abort("approval_timeout")
    /\ UNCHANGED <<wait, op, stopRequested, cancels, expired, patience,
                   iterations, toolCalls, failures, batch, index, current>>

(* _execute_one after the decision: tool_started, the change tracker's        *)
(* conflict check, and the operation itself.                                 *)
Conflict ==
    /\ pc = "start" /\ pc' = "record" /\ current' = "FILE_CHANGED"
    /\ UNCHANGED <<control, clocks, counters, batch, index, results, approval, outcome>>

StartTool ==
    /\ pc = "start"
    /\ IF CheckError = "none"
         THEN /\ \E kind \in {"sync", "async"} : Launch(kind, "executing")
              /\ UNCHANGED <<results, outcome, emitFailures>>
         ELSE Abort(CheckError) /\ UNCHANGED control
    /\ UNCHANGED <<clocks, iterations, toolCalls, failures, batch, index, current, approval>>

Executed ==
    /\ pc = "executing" /\ WaitAnswers /\ LeaveWait
    /\ pc' = "record" /\ current' = op.result
    /\ UNCHANGED <<clocks, counters, batch, index, results, approval, outcome>>

ToolRaises ==
    /\ pc = "executing" /\ LeaveWait
    /\ \E error \in {"cancelled", "execution_timeout"} : WaitRaises(error) /\ Abort(error)
    /\ UNCHANGED <<clocks, iterations, toolCalls, failures, batch, index, current, approval>>

(* The fingerprint of a failure is its error, its tool and its arguments: a    *)
(* failure with the same error may be the same call again or another one.     *)
Repeated == IF current = "ok" THEN {NoFailure}
            ELSE [code : {current},
                  count : {1} \cup IF failures.code = current THEN {failures.count + 1} ELSE {}]

Recorded == Append(results, [call |-> index, code |-> current])

(* _record and record_tool_result: identical failures in a row, a Stop or the  *)
(* deadline end the batch, and the later calls are skipped.                   *)
Record ==
    /\ pc = "record"
    /\ failures' \in Repeated
    /\ LET error == IF failures'.count >= RepeatLimit THEN "repeated_tool_failure"
                    ELSE CheckError IN
         IF error = "none"
           THEN /\ results' = Recorded /\ pc' = "call" /\ index' = index + 1
                /\ UNCHANGED outcome
           ELSE /\ results' = Recorded \o Answers(index + 1, AbortCode(error))
                /\ Finish(error) /\ UNCHANGED index
    /\ UNCHANGED <<control, clocks, iterations, toolCalls, emitFailures,
                   batch, current, approval>>
-----------------------------------------------------------------------------
(* The commit of one event fails, and emit raises. *)
EmitFails == emitFailures < MaxEmitFailures /\ emitFailures' = emitFailures + 1

(* tool_requested and tool_finished are emitted outside the try block.        *)
RequestLost ==
    /\ pc = "call" /\ index <= batch /\ EmitFails /\ Finish("runtime_error")
    /\ UNCHANGED <<control, clocks, iterations, toolCalls, failures, calls, approval>>

RecordLost ==
    /\ pc = "record" /\ EmitFails /\ Finish("runtime_error") /\ results' = Recorded
    /\ UNCHANGED <<control, clocks, iterations, toolCalls, failures,
                   batch, index, current, approval>>

AbortAll ==
    /\ results' = results \o Answers(index, "INTERNAL_ERROR")
    /\ Finish("runtime_error")

(* tool_started; approval_requested, whose pause is never undone; and         *)
(* approval_resolved, which replaces the answer.                             *)
StartLost ==
    /\ pc = "start" /\ EmitFails /\ AbortAll
    /\ UNCHANGED <<control, clocks, iterations, toolCalls, failures,
                   batch, index, current, approval>>

AskLost ==
    /\ pc = "decide" /\ CheckError = "none" /\ EmitFails /\ AbortAll
    /\ approval' = "pending" /\ paused' = TRUE /\ patience' = TRUE
    /\ UNCHANGED <<control, expired, iterations, toolCalls, failures,
                   batch, index, current>>

AnswerLost ==
    /\ pc = "approval" /\ approval \in {"approved", "denied"} /\ EmitFails /\ AbortAll
    /\ interrupt' = FALSE /\ ResumeDeadline
    /\ UNCHANGED <<wait, op, stopRequested, cancels, expired, patience,
                   iterations, toolCalls, failures, batch, index, current, approval>>
-----------------------------------------------------------------------------
(* The outside. RunController.cancel, once; the Host's task.cancel(). Both     *)
(* reach a gathered operation too, whose cancellation they repeat.            *)
Reach ==
    /\ interrupt' = TRUE /\ cancels' = cancels + 1
    /\ IF wait \in {"late", "unwinding"} THEN CancelOp ELSE UNCHANGED op
    /\ UNCHANGED <<pc, wait, clocks, counters, calls, approval, outcome>>

Stop == Suspended /\ ~stopRequested /\ stopRequested' = TRUE /\ Reach

Interrupt == /\ Suspended /\ cancels < MaxInterrupts + (IF stopRequested THEN 1 ELSE 0)
             /\ UNCHANGED stopRequested /\ Reach

(* max_execution_seconds run out; the clock stands still during an approval.  *)
Expire ==
    /\ pc # "ended" /\ ~paused /\ ~expired /\ expired' = TRUE
    /\ UNCHANGED <<pc, control, paused, patience, counters, calls, approval, outcome>>

WaitStep == \/ WaitInterrupted \/ WaitReturns \/ WaitExpires \/ LaterInterrupted
            \/ LateEnds \/ UnwindSwept

LoopStep == BeginIteration \/ Assembled \/ Responded \/ ModelStepRaises

BatchStep == \/ BatchDone \/ BeginTool \/ Decide \/ AskApproval \/ Answered \/ GiveUp
             \/ ApprovalRaises \/ Conflict \/ StartTool \/ Executed \/ ToolRaises \/ Record

Lost == RequestLost \/ RecordLost \/ StartLost \/ AskLost \/ AnswerLost

Next ==
    \/ OpBegins \/ OpEnds \/ OpUnwinds
    \/ WaitStep \/ LoopStep \/ BatchStep \/ Lost
    \/ \E answer \in {"approved", "denied"} : ResolveApproval(answer)
    \/ PatienceEnds \/ Stop \/ Interrupt \/ Expire

Spec == Init /\ [][Next]_vars

(* The event loop resumes every ready task and fires every timer. Models and   *)
(* asynchronous tools may hang for ever; the worker of a synchronous tool,    *)
(* which nothing can stop, is taken to return, and so is cancelled code.      *)
FairSpec == /\ Spec
            /\ WF_vars(WaitStep) /\ WF_vars(LoopStep) /\ WF_vars(BatchStep)
            /\ WF_vars(OpBegins) /\ WF_vars(OpUnwinds)
            /\ WF_vars(op.kind = "sync" /\ OpEnds)
            /\ WF_vars(PatienceEnds) /\ WF_vars(Expire)
-----------------------------------------------------------------------------
ControlType ==
    /\ pc \in {"loop", "assembling", "streaming", "call", "decide", "approval", "start",
               "executing", "record", "ended"}
    /\ wait \in {"none", "waiting", "sweeping", "late", "lateSweep", "unwindSweep",
                 "unwinding"}
    /\ interrupt \in BOOLEAN /\ stopRequested \in BOOLEAN
    /\ expired \in BOOLEAN /\ paused \in BOOLEAN /\ patience \in BOOLEAN
    /\ cancels \in 0..(MaxInterrupts + 1)
    /\ approval \in {"none", "pending", "approved", "denied", "cancelled"}

OutcomeType ==
    outcome \in {"none", "completed", "output_length", "empty_response", "cancelled",
                "max_iterations", "max_tool_calls", "repeated_tool_failure",
                "execution_timeout", "approval_timeout", "context_limit",
                "context_compaction_failed", "model_error", "runtime_error"}

OpType ==
    op \in [kind : {"none", "assemble", "model", "sync", "async"},
           call : 0..(MaxBatch + 1),
           state : {"created", "running", "unwinding", "done", "cancelled"},
           settled : BOOLEAN,
           result : {"none", "ok", "failed", "context_limit", "context_compaction_failed",
                     "model_error"} \cup Response]

Failures == [code : {"none", "failed", "POLICY_DENIED", "FILE_CHANGED"}, count : 0..RepeatLimit]

CountersType ==
    /\ iterations \in 0..MaxIterations /\ toolCalls \in 0..MaxToolCalls
    /\ emitFailures \in 0..MaxEmitFailures /\ failures \in Failures

ResultCodes == {"ok", "failed", "POLICY_DENIED", "FILE_CHANGED", "APPROVAL_TIMEOUT",
                "CANCELLED", "INTERNAL_ERROR", "LIMIT_REACHED"}
Message == [call : 1..MaxBatch, code : ResultCodes]

CallsType ==
    /\ batch \in 0..MaxBatch /\ index \in 0..(MaxBatch + 1)
    /\ current \in {"none", "ok", "failed", "POLICY_DENIED", "FILE_CHANGED"}
    /\ results \in Seq(Message)

(* The state is well typed; the counters stay within the limits of the Turn. *)
TypeOK == ControlType /\ OutcomeType /\ OpType /\ CountersType /\ CallsType

(* Docs: the coordinator "ensures every accepted call receives a               *)
(* corresponding result". Before every model request and at the end of a Turn *)
(* whose events were committed, the last response's calls are answered once   *)
(* each, in order.                                                           *)
AllAnswered == [i \in DOMAIN results |-> results[i].call] = [i \in 1..batch |-> i]

CallsAnswered ==
    \/ pc \in {"loop", "assembling", "streaming"}
    \/ pc = "ended" /\ emitFailures = 0
    => AllAnswered

(* After an accepted Stop no model call, tool or approval begins, even when   *)
(* the cancellation itself was absorbed by an answer or a settled tool.       *)
StopLaunchesNothing == [][stopRequested =>
    /\ pc \notin {"assembling", "streaming", "approval", "executing"} => pc' # "approval"
    /\ pc' \in {"assembling", "streaming", "executing"} => pc' = pc]_vars

(* A Turn that was stopped never reports that it completed. *)
StopNeverCompletes == stopRequested => outcome # "completed"

(* Docs: only the result of a tool that settled after the cancellation is     *)
(* returned, and "its actual history" recorded. It is, if nothing cancelled  *)
(* the Turn a second time.                                                   *)
SettledRecorded == \A i \in DOMAIN results :
    /\ op.kind = "sync" /\ op.call = results[i].call
    /\ op.state = "done" /\ op.settled /\ cancels <= 1
    => results[i].code = op.result

(* When a Turn that was cancelled at most once ends, its lease is released    *)
(* with no tool and no model call still running.                             *)
QuietAtEnd == pc = "ended" /\ cancels <= 1 => OpDone

(* An answer that resolve_approval accepted decides: neither the timer nor a  *)
(* cancellation withdraws it before the next call, and no denied or           *)
(* unanswered call runs.                                                      *)
AnswerDecides ==
    /\ [](pc = "executing" => approval \in {"none", "approved"})
    /\ [][pc # "call" /\ approval \in {"approved", "denied"} => approval' = approval]_vars

(* Every Turn ends, whatever hangs. *)
TurnEnds == <>(pc = "ended")
=============================================================================
