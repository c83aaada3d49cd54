--------------------------- MODULE ContextReduction ---------------------------
(* The model steps of one Thread's Turns: AgentLoop.run asks                   *)
(* ContextManager.assemble_with_reduction for a request that fits, which       *)
(* prunes, selects and compacts detached copies of the canonical history; the  *)
(* checkpoint of a compaction is saved with the history, and both come back    *)
(* after a crash.  The compaction provider, the model and the tools are the    *)
(* environment: they answer anything, or fail.                                 *)
EXTENDS History

CONSTANTS UserSizes, AnswerSizes, CallSizes, ResultSizes,   \* tokens of a message
          MaxCalls,         \* bound: tool calls of one response
          MaxMessages,      \* bound: messages of the history, but for recovery's
          MaxCrashes,       \* bound: crashes of the process
          Strict            \* the model refuses a request with an unanswered call

ASSUME ReductionBounds ==
    /\ UserSizes \cup AnswerSizes \cup CallSizes \cup ResultSizes \subseteq Nat
    /\ MaxCalls \in Nat \ {0} /\ {MaxMessages, MaxCrashes} \subseteq Nat
    /\ Strict \in BOOLEAN

VARIABLES history,      \* Conversation._messages
          checkpoint,   \* _ThreadRecord.compaction_checkpoint
          saved,        \* the ThreadStore's copy of both, and of the active Turn
          phase,        \* where the Turn is: "idle" between Turns
          fresh,        \* AgentLoop.run's pending_input is not None
          plan,         \* the selection a running compaction works for
          request,      \* the request the model is answering
          crashes

vars == <<history, checkpoint, saved, phase, fresh, plan, request, crashes>>

NoPlan == [tail |-> {}, source |-> {}]
NoRequest == [shown |-> {}, pruned |-> {}, known |-> {}, input |-> FALSE]
Saved(h, c, active) == [history |-> h, checkpoint |-> c, active |-> active]

Init ==
    /\ history = <<>> /\ checkpoint = NoCheckpoint
    /\ saved = Saved(<<>>, NoCheckpoint, FALSE)
    /\ phase = "idle" /\ fresh = FALSE /\ plan = NoPlan /\ request = NoRequest
    /\ crashes = 0

(* _persist_record commits the record, or raises and leaves the store alone. *)
Commit(active) == saved' = Saved(history', checkpoint', active)

(* _finish_turn and run_turn's finally clause, whose commits may fail too. *)
EndTurn ==
    /\ phase' = "idle" /\ fresh' = FALSE /\ plan' = NoPlan /\ request' = NoRequest
    /\ Commit(FALSE) \/ UNCHANGED saved

-----------------------------------------------------------------------------
(* run_turn: the preflight of the irreducible prefix, the user's message and   *)
(* the commit of turn_started.                                                 *)
StartTurn ==
    /\ phase = "idle" /\ Len(history) < MaxMessages /\ UNCHANGED <<checkpoint, crashes>>
    /\ \E s \in UserSizes :
          /\ Overhead + s <= Usable
          /\ history' = Append(history, Message("user", s))
    /\ \/ phase' = "assemble" /\ fresh' = TRUE /\ Commit(TRUE) /\ UNCHANGED <<plan, request>>
       \/ EndTurn
-----------------------------------------------------------------------------
(* assemble_with_reduction. *)
Previous == IF ValidFor(checkpoint, history) THEN checkpoint ELSE NoCheckpoint

(* _build_plan and ContextRenderer.render: the current input is appended when *)
(* the rendered history does not end with it.                                 *)
Request(shown, pruned, known) ==
    [shown |-> shown, pruned |-> pruned \cap shown, known |-> known,
     input |-> fresh /\ Len(history) \notin shown]

RequestWeight(r) ==
    Overhead + (IF r.known = {} THEN 0 ELSE SummarySize)
             + Weight(history, r.pruned, r.shown)
             + (IF r.input THEN history[Len(history)].size ELSE 0)

(* ContextBudgetPolicy.assess *)
Normal(r) == RequestWeight(r) < Usable /\ RequestWeight(r) < (Usable * SoftPercent) \div 100
Fits(r) == Usable > 0 /\ RequestWeight(r) <= Usable

Visible == (Previous.covered + 1)..Len(history)
Whole == Request(Visible, {}, Previous.known)
Pruned == Request(Visible, Prunable(history), Previous.known)

(* The tail: select, and the promotion when the pruned request still overflows *)
Kept ==
    LET tail == RawTail(history, Prunable(history), Previous.covered)
    IN  IF Fits(Pruned) THEN tail ELSE Promoted(history, Prunable(history), tail)
Region == Candidates(history, Kept, Previous.covered)
Shown(tail, known) == Request(Positions(history, tail), Prunable(history), known)

Send(r) == phase' = "stream" /\ request' = r /\ UNCHANGED <<history, checkpoint, saved, fresh, plan, crashes>>
Fail == UNCHANGED <<history, checkpoint, crashes>> /\ EndTurn

SendWhole == phase = "assemble" /\ Normal(Whole) /\ Send(Whole)

SendPruned ==
    /\ phase = "assemble" /\ ~Normal(Whole) /\ Normal(Pruned)
    /\ Send(Pruned)

Pressed == phase = "assemble" /\ ~Normal(Whole) /\ ~Normal(Pruned)

(* Nothing to compact: the tail alone is the request, or the Turn fails. *)
SendTail ==
    /\ Pressed /\ Region = {} /\ Fits(Shown(Kept, Previous.known))
    /\ Send(Shown(Kept, Previous.known))

TailOverflows ==
    /\ Pressed /\ Region = {} /\ ~Fits(Shown(Kept, Previous.known))
    /\ Fail

(* LLMHistoryCompactor.compact up to its call of the provider. *)
Sent == Source(history, Prunable(history), Region, Previous)

StartCompaction ==
    /\ Pressed /\ Region # {} /\ Sent # {}
    /\ phase' = "compacting" /\ plan' = [tail |-> Kept, source |-> Sent]
    /\ UNCHANGED <<history, checkpoint, saved, fresh, request, crashes>>

NothingFits ==
    /\ Pressed /\ Region # {} /\ Sent = {}
    /\ Fail
-----------------------------------------------------------------------------
(* The provider's summary: the final request is the tail and the new summary. *)
(* It must fit before _save_checkpoint commits the checkpoint.                 *)
NewCheckpoint == Rolled(history, plan.source, Previous)
Final == Shown(plan.tail, NewCheckpoint.known)

CompactionEnds ==
    /\ phase = "compacting" /\ Fits(Final)
    /\ checkpoint' = NewCheckpoint
    /\ phase' = "stream" /\ plan' = NoPlan /\ request' = Final
    /\ UNCHANGED <<history, fresh, crashes>> /\ Commit(TRUE)

(* Fault: the record keeps the checkpoint whose commit failed. *)
Advertised == checkpoint' = NewCheckpoint

Restored == UNCHANGED checkpoint

(* The final request overflows, the commit fails, or the provider does: the    *)
(* Turn fails with the record and its store as they were.                      *)
CompactionFails ==
    /\ phase = "compacting" /\ Restored
    /\ UNCHANGED <<history, crashes>> /\ EndTurn
-----------------------------------------------------------------------------
(* A provider of the OpenAI protocol answers no request with an open call. *)
Accepted == Strict => \A i \in request.shown : history[i].calls > 0 => Answered(history, i)

(* The model's response is appended before model_response commits it. *)
Answers ==
    /\ phase = "stream" /\ Accepted /\ Len(history) < MaxMessages /\ UNCHANGED <<checkpoint, crashes>>
    /\ \E s \in AnswerSizes : history' = Append(history, Message("assistant", s))
    /\ EndTurn

Calls ==
    /\ phase = "stream" /\ Accepted /\ Len(history) < MaxMessages /\ UNCHANGED <<checkpoint, crashes>>
    /\ \E s \in CallSizes, n \in 1..MaxCalls :
          history' = Append(history, [Message("assistant", s) EXCEPT !.calls = n])
    /\ \/ phase' = "tools" /\ Commit(TRUE) /\ fresh' = FALSE /\ request' = NoRequest /\ UNCHANGED plan
       \/ EndTurn

(* A limit, a cancellation, an error of the model. *)
Stops == phase \in {"assemble", "stream"} /\ Fail

(* ToolCoordinator: the batch is worked through in order. *)
Batch == Max({i \in DOMAIN history : history[i].calls > 0})
Result(k, s) == [Message("tool", s) EXCEPT !.call = <<Batch, k>>]
NextCall == Cardinality(Results(history, Batch)) + 1

Records ==
    /\ phase = "tools" /\ UNCHANGED <<checkpoint, crashes>>
    /\ \E s \in ResultSizes : history' = Append(history, Result(NextCall, s))
    /\ \/ /\ phase' = (IF NextCall = history[Batch].calls THEN "assemble" ELSE "tools")
          /\ Commit(TRUE) /\ UNCHANGED <<fresh, plan, request>>
       \/ EndTurn

(* _abort_batch: the calls left get a result each. *)
Aborts ==
    /\ phase = "tools" /\ UNCHANGED <<checkpoint, crashes>>
    /\ history' = history \o [n \in 1..(history[Batch].calls - NextCall + 1) |->
                                 Result(NextCall + n - 1, MarkerSize)]
    /\ EndTurn
-----------------------------------------------------------------------------
(* The process dies; _restore_stored_threads reads the store, ignores a        *)
(* checkpoint that is not valid for the stored history and, when a Turn was    *)
(* active, closes its calls.                                                   *)
Crash ==
    /\ crashes < MaxCrashes /\ crashes' = crashes + 1
    /\ LET c == IF ValidFor(saved.checkpoint, saved.history) THEN saved.checkpoint ELSE NoCheckpoint
       IN  /\ checkpoint' = c
           /\ history' = IF saved.active THEN Interrupted(saved.history) ELSE saved.history
    /\ phase' = "idle" /\ fresh' = FALSE /\ plan' = NoPlan /\ request' = NoRequest
    /\ Commit(FALSE)

Next ==
    \/ StartTurn \/ SendWhole \/ SendPruned \/ SendTail \/ TailOverflows
    \/ StartCompaction \/ NothingFits \/ CompactionEnds \/ CompactionFails
    \/ Answers \/ Calls \/ Stops \/ Records \/ Aborts \/ Crash

Spec == Init /\ [][Next]_vars
-----------------------------------------------------------------------------
(* A request never shows a tool result without the call it answers, nor a call *)
(* without every result there is: no selection, no checkpoint and no recovery  *)
(* cuts an interaction in two.                                                 *)
PairsWhole ==
    \A i \in DOMAIN history : history[i].role = "tool" =>
        (i \in request.shown <=> history[i].call[1] \in request.shown)

(* Docs: the interaction at the end of the transcript, which no response has   *)
(* consumed yet, is protected: however pressed, the request that follows a     *)
(* batch shows its calls and results as they are.                              *)
FreshShown ==
    LET last == Max(Units(history)) IN
    request # NoRequest /\ IsTool(history, last) =>
        Unit(history, last) \subseteq request.shown \ request.pruned

(* What a summary tells is never lost again, by a later compaction, a commit   *)
(* that fails, a longer history or a crash: the checkpoint in use stays valid  *)
(* until one that knows more replaces it.                                      *)
SummariesKept == [][Previous.known \subseteq Previous'.known]_vars

=============================================================================
