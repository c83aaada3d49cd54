----------------------------- MODULE ModelStream -----------------------------
(* One model call: ModelInvoker.stream with its retries, the OpenAI-compatible *)
(* adapter that turns the provider's chunks into events, the MessageAssembler, *)
(* and what the user is shown meanwhile; or ModelInvoker.chat, for a provider  *)
(* that does not stream.                                                      *)
(*                                                                             *)
(* A fragment of the answer stands for its content by its position among the   *)
(* fragments the provider sent in the attempt, so that a message can be        *)
(* compared with what was sent and with what was shown.                       *)
EXTENDS Naturals, Sequences, FiniteSetsExt

CONSTANTS MaxAttempts,      \* attempts of one call: range(5) in the code
          MaxCalls,         \* bound: tool calls of one answer
          MaxFragments      \* bound: fragments of one answer

ASSUME StreamAssumption ==
    /\ MaxAttempts \in Nat \ {0} /\ MaxCalls \in Nat /\ MaxFragments \in Nat

VARIABLES pc,               \* where the call is
          attempt,
          style,            \* how this provider names the call of a fragment
          sent,             \* the fragments it sent in this attempt
          indexes,          \* the adapter: call_indexes and next_index
          assembler,        \* the MessageAssembler of this attempt
          emitted,          \* the events that on_event was given
          outcome           \* what the call returned or raised

vars == <<pc, attempt, style, sent, indexes, assembler, emitted, outcome>>

Call == 1..MaxCalls
None == 0

(* A fragment is text, reasoning or a part of a tool call; a part carries the  *)
(* call's id (and name) or not, and its index or not.                          *)
Fragment == [kind : {"text", "reasoning"}, call : {None}, id : {FALSE}]
              \cup [kind : {"call"}, call : Call, id : BOOLEAN]

(* Errors as the adapter translates them. *)
Transient == {"LLMConnectionError", "LLMRateLimitError", "LLMServerError"}
Permanent == {"LLMAuthenticationError", "LLMRequestError"}
ParseError == "LLMResponseParseError"
Retryable(error) == error \in Transient

NoIndexes == [of |-> [c \in {} |-> None], next |-> 0]
NewAssembler == [text |-> <<>>, reasoning |-> <<>>, calls |-> [i \in {} |-> None],
                 ids |-> [c \in {} |-> None], seen |-> FALSE, finished |-> FALSE]
Pending == [kind |-> "pending", via |-> "none"]

(* The map f with the value of one key set. *)
SetKey(f, key, value) == [x \in DOMAIN f \cup {key} |-> IF x = key THEN value ELSE f[x]]

Init ==
    /\ pc \in {"streaming", "chatting"}
    /\ attempt = 1 /\ style = "indexed" /\ sent = <<>>
    /\ indexes = NoIndexes /\ assembler = NewAssembler
    /\ emitted = <<>> /\ outcome = Pending
-----------------------------------------------------------------------------
(* The adapter: the event a part of a tool call becomes.                       *)

(* Without an index, a known id has the index it had; anything else is new.    *)
IndexOf(fragment) ==
    IF style = "indexed" THEN fragment.call - 1
    ELSE IF fragment.id /\ fragment.call \in DOMAIN indexes.of THEN indexes.of[fragment.call]
    ELSE indexes.next

Noted(fragment, index) ==
    [of   |-> IF fragment.id THEN SetKey(indexes.of, fragment.call, index) ELSE indexes.of,
     next |-> Max({indexes.next, index + 1})]
-----------------------------------------------------------------------------
(* The assembler. *)

(* _add_tool_call refuses an id that changes its index and an index that       *)
(* changes its id.                                                            *)
Rebinds(fragment, index) ==
    /\ fragment.id
    /\ \/ /\ fragment.call \in DOMAIN assembler.ids
          /\ assembler.ids[fragment.call] # index
       \/ /\ index \in DOMAIN assembler.calls
          /\ assembler.calls[index].id \notin {None, fragment.call}

AddCall(fragment, index, n) ==
    LET old == IF index \in DOMAIN assembler.calls
                 THEN assembler.calls[index] ELSE [id |-> None, pieces |-> <<>>] IN
    [assembler EXCEPT
       !.ids = IF fragment.id THEN SetKey(@, fragment.call, index) ELSE @,
       !.calls = SetKey(@, index, [id |-> IF fragment.id THEN fragment.call ELSE old.id,
                                pieces |-> Append(old.pieces, n)]),
       !.seen = TRUE]

Added(fragment, index, n) ==
    CASE fragment.kind = "text"      -> [assembler EXCEPT !.text = Append(@, n), !.seen = TRUE]
      [] fragment.kind = "reasoning" -> [assembler EXCEPT !.reasoning = Append(@, n), !.seen = TRUE]
      [] fragment.kind = "call"      -> AddCall(fragment, index, n)

(* Fault: a call that was never named is assembled too. *)
CompleteUnnamed(calls) == TRUE

(* assemble: every call must have an id by now. *)
Complete(calls) == \A i \in DOMAIN calls : calls[i].id # None

(* The blocks of the message; a call is named by its index, in whose order the *)
(* message has them.                                                          *)
Message(a) == [text |-> a.text, reasoning |-> a.reasoning, calls |-> a.calls]
-----------------------------------------------------------------------------
(* ModelInvoker. *)
Event(kind, n) == [kind |-> kind, attempt |-> attempt, n |-> n]

(* _error_from_event keeps two classes; any other becomes a connection error.  *)
RaisedAs(error) ==
    IF error = ParseError THEN ParseError ELSE "LLMConnectionError"

(* Fault: the stream is tried again whatever was shown. *)
LastWhatever(error) == ~Retryable(error) \/ attempt = MaxAttempts

(* should_retry, negated: nothing is tried again after provisional output.     *)
IsLast(error) == assembler.seen \/ ~Retryable(error) \/ attempt = MaxAttempts

(* A stream that fails: shown as an error and raised, or tried again later.    *)
(* The error is shown once, by the branch that saw it first.                   *)
Fail(error, raised) ==
    IF IsLast(error)
      THEN /\ pc' = "ended" /\ outcome' = [kind |-> "failed", via |-> "stream", error |-> raised]
           /\ emitted' = Append(emitted, Event("error", None))
           /\ UNCHANGED attempt
      ELSE /\ pc' = "sleeping" /\ attempt' = attempt + 1
           /\ UNCHANGED <<emitted, outcome>>

(* The request is sent; the provider accepts it and will send chunks, refuses  *)
(* it, or answers with a whole completion instead of a stream.                 *)
Accepted ==
    /\ pc = "streaming" /\ pc' = "reading"
    /\ style' \in {"indexed", "bare"}
    /\ UNCHANGED <<attempt, sent, indexes, assembler, emitted, outcome>>

RequestFails ==
    /\ pc = "streaming"
    /\ \E error \in Transient \cup Permanent : Fail(error, RaisedAs(error))
    /\ UNCHANGED <<style, sent, indexes, assembler>>

(* LLMStreamingNotImplementedError carries the parsed completion: it is shown  *)
(* as an error, not being retryable, and then the completion is returned.      *)
NotAStream ==
    /\ pc = "streaming"
    /\ \/ /\ pc' = "ended" /\ outcome' = [kind |-> "response", via |-> "fallback"]
          /\ emitted' = Append(emitted, Event("error", None))
          /\ UNCHANGED attempt
       \/ Fail(ParseError, ParseError)
    /\ UNCHANGED <<style, sent, indexes, assembler>>

(* The next fragment is consistent with the provider's style: calls begin one  *)
(* after the other, each with its id; later parts may interleave.              *)
Begun(c) == \E i \in DOMAIN sent : sent[i].call = c
Sendable(fragment) ==
    fragment.kind = "call" /\ ~Begun(fragment.call) =>
        fragment.id /\ (fragment.call = 1 \/ Begun(fragment.call - 1))

(* A fragment arrives: adapter, assembler, on_event.  The assembler's refusal  *)
(* is raised before on_event, and not as an ErrorEvent.                        *)
Arrives ==
    /\ pc = "reading" /\ Len(sent) < MaxFragments
    /\ \E fragment \in {f \in Fragment : Sendable(f)} :
         LET index == IndexOf(fragment)
             n == Len(sent) + 1 IN
         /\ sent' = Append(sent, fragment)
         /\ indexes' = IF fragment.kind = "call" THEN Noted(fragment, index) ELSE indexes
         /\ IF fragment.kind = "call" /\ Rebinds(fragment, index)
              THEN Fail(ParseError, ParseError) /\ UNCHANGED assembler
              ELSE /\ assembler' = Added(fragment, index, n)
                   /\ emitted' = Append(emitted, Event(fragment.kind, n))
                   /\ UNCHANGED <<pc, attempt, outcome>>
    /\ UNCHANGED style

(* The connection breaks, or a chunk is malformed. *)
StreamBreaks ==
    /\ pc = "reading"
    /\ \E error \in Transient \cup {ParseError} : Fail(error, RaisedAs(error))
    /\ UNCHANGED <<style, sent, indexes, assembler>>

(* The stream ends, with a finish_reason or without: MessageEnd is shown, then *)
(* the message is assembled.                                                  *)
StreamEnds ==
    /\ pc = "reading"
    /\ assembler' = [assembler EXCEPT !.finished = TRUE]
    /\ IF Complete(assembler.calls)
         THEN /\ pc' = "ended"
              /\ outcome' = [kind |-> "response", via |-> "stream", message |-> Message(assembler)]
              /\ emitted' = Append(emitted, Event("end", None))
         ELSE /\ pc' = "ended" /\ outcome' = [kind |-> "failed", via |-> "stream", error |-> ParseError]
              /\ emitted' = emitted \o <<Event("end", None), Event("error", None)>>
    /\ UNCHANGED <<attempt, style, sent, indexes>>

(* The backoff is over; everything of the attempt is new. *)
Retry ==
    /\ pc = "sleeping" /\ pc' = "streaming"
    /\ sent' = <<>> /\ indexes' = NoIndexes /\ assembler' = NewAssembler
    /\ UNCHANGED <<attempt, style, emitted, outcome>>

(* chat: a whole completion, or an error that is retried or raised.            *)
Chat ==
    /\ pc = "chatting"
    /\ \/ /\ pc' = "ended" /\ outcome' = [kind |-> "response", via |-> "chat"]
          /\ UNCHANGED attempt
       \/ \E error \in Transient \cup Permanent \cup {ParseError} :
            IF ~Retryable(error) \/ attempt = MaxAttempts
              THEN /\ pc' = "ended" /\ outcome' = [kind |-> "failed", via |-> "chat", error |-> error]
                   /\ UNCHANGED attempt
              ELSE pc' = "waiting" /\ attempt' = attempt + 1 /\ UNCHANGED outcome
    /\ UNCHANGED <<style, sent, indexes, assembler, emitted>>

ChatAgain ==
    /\ pc = "waiting" /\ pc' = "chatting"
    /\ UNCHANGED <<attempt, style, sent, indexes, assembler, emitted, outcome>>

(* Stop, or the deadline: the call is cancelled at whichever await it is.      *)
Cancel ==
    /\ pc # "ended" /\ pc' = "ended" /\ outcome' = [kind |-> "cancelled", via |-> "none"]
    /\ UNCHANGED <<attempt, style, sent, indexes, assembler, emitted>>

Step == \/ Accepted \/ RequestFails \/ NotAStream \/ Arrives \/ StreamBreaks \/ StreamEnds
        \/ Retry \/ Chat \/ ChatAgain
Next == Step \/ Cancel

Spec == Init /\ [][Next]_vars

-----------------------------------------------------------------------------
Shown(kinds) == {i \in DOMAIN emitted : emitted[i].kind \in kinds}
Content == Shown({"text", "reasoning", "call"})
Errors == Shown({"error"})
Streamed == outcome.kind = "response" /\ outcome.via = "stream"

(* The state is well typed. *)
TypeOK ==
    /\ pc \in {"streaming", "reading", "sleeping", "chatting", "waiting", "ended"}
    /\ attempt \in 1..MaxAttempts /\ style \in {"indexed", "bare"}
    /\ sent \in Seq(Fragment) /\ Len(sent) <= MaxFragments
    /\ indexes.next \in Nat /\ DOMAIN indexes.of \subseteq Call
    /\ DOMAIN assembler.calls \subseteq Nat
    /\ {assembler.seen, assembler.finished} \subseteq BOOLEAN
    /\ emitted \in Seq([kind : {"text", "reasoning", "call", "end", "error"},
                      attempt : 1..MaxAttempts, n : 0..MaxFragments])
    /\ outcome.kind \in {"pending", "response", "failed", "cancelled"}

(* Docs: "once a delta is emitted, that attempt fails without replaying or     *)
(* duplicating prior output".  Whatever is shown comes from one attempt, each  *)
(* fragment once and in order, and a response holds all of what was shown.     *)
(* A failed stream is told once, at its end, and no attempt that was tried     *)
(* again is told of.  (A completion returned in place of a stream is told as   *)
(* an error too.)                                                             *)
ShownOnce ==
    /\ \A i \in Content : emitted[i].n = i /\ emitted[i].attempt = emitted[1].attempt
    /\ Streamed => /\ Content = DOMAIN sent
                   /\ \A i \in Content : emitted[i].attempt = attempt
    /\ Errors = IF <<outcome.kind, outcome.via>> \in {<<"failed", "stream">>,
                                                     <<"response", "fallback">>}
                  THEN {Len(emitted)} ELSE {}

(* The sequence s lists the positions ps in their order. *)
Lists(s, ps) ==
    /\ {s[i] : i \in DOMAIN s} = ps
    /\ \A i, j \in DOMAIN s : i < j => s[i] < s[j]

(* Positions of the fragments of one kind, and of the parts of one call. *)
OfKind(kind) == {i \in DOMAIN sent : sent[i].kind = kind}
PartsOf(c) == {i \in DOMAIN sent : sent[i].call = c}

(* A response is exactly the provider's answer: every part of a call, however  *)
(* named and interleaved, is in the one call it was sent for, no call is lost,  *)
(* and the calls are in the order in which the provider began them.            *)
AnswerExact ==
    Streamed =>
        LET m == outcome.message IN
        /\ Lists(m.text, OfKind("text")) /\ Lists(m.reasoning, OfKind("reasoning"))
        /\ {m.calls[i].id : i \in DOMAIN m.calls} = {c \in Call : Begun(c)}
        /\ \A i \in DOMAIN m.calls : Lists(m.calls[i].pieces, PartsOf(m.calls[i].id))
        /\ \A i, j \in DOMAIN m.calls : i < j => m.calls[i].id < m.calls[j].id

=============================================================================
