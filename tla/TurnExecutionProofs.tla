------------------------ MODULE TurnExecutionProofs ------------------------
(* What holds of a Turn for every limit, batch size, number of cancellations  *)
(* and number of failed commits; and of the task state it keeps.              *)
EXTENDS TurnEvidence, FiniteSetTheorems, WellFoundedInduction, TLAPS

InBatch == {"call", "decide", "approval", "start", "executing", "record"}
AtCall == InBatch \ {"call"}

(* Where the Turn is bounds where its batch is. *)
PlaceInv ==
    /\ pc # "ended" => outcome = "none" /\ failures.count < RepeatLimit
    /\ pc \in AtCall => index \in 1..batch
    /\ pc = "call" => index \in 1..(batch + 1)
    /\ pc = "record" => current # "none"

(* The operation is the one the Turn waits for, and a wait that ends normally *)
(* has its result.                                                            *)
OpInv ==
    /\ op.settled => op.kind = "sync"
    /\ op.state = "done" /\ op.kind # "none" => op.result \in OpResults
    /\ wait = "waiting" => op.state \in {"created", "running", "done"}
    /\ wait = "sweeping" => op.state = "done"
    /\ pc = "assembling" => op.kind = "assemble"
    /\ pc = "streaming" => op.kind = "model"
    /\ pc = "executing" => op.kind \in {"sync", "async"}
    /\ wait # "none" <=> pc \in {"assembling", "streaming", "executing"}

(* The tool messages are those of the calls before the current one. *)
ResultsInv ==
    /\ \A i \in DOMAIN results : results[i].call = i
    /\ pc \in InBatch => Len(results) = index - 1
    /\ pc \in {"loop", "assembling", "streaming"} \/ (pc = "ended" /\ emitFailures = 0)
       => Len(results) = batch

(* A Stop that the Turn has not met yet is still on its way to it. *)
StopInv ==
    /\ pc \in {"loop", "call", "decide"} => ~stopRequested
    /\ pc = "streaming" /\ wait \in {"waiting", "sweeping"} /\ stopRequested => interrupt
    /\ StopNeverCompletes

(* Only a second cancellation can leave an operation behind. *)
CancelInv ==
    /\ cancels <= MaxInterrupts + (IF stopRequested THEN 1 ELSE 0)
    /\ interrupt => cancels >= 1
    /\ wait \in {"unwindSweep", "unwinding"} => cancels >= (IF interrupt THEN 2 ELSE 1)
    /\ wait \in {"none", "sweeping", "lateSweep"} /\ cancels <= 1 => OpDone

ApprovalInv ==
    /\ pc = "decide" => approval = "none"
    /\ pc \in {"start", "executing"} => approval \in {"none", "approved"}

(* The last tool is an earlier call's, or its result is the current one. *)
LastTool ==
    /\ pc \in {"call", "decide", "approval", "start"} /\ op.kind = "sync" => op.call < index
    /\ pc = "executing" => op.call = index
    /\ pc = "record" /\ op.kind = "sync" =>
           \/ op.call < index
           \/ op.call = index /\ op.state = "done" /\ current = op.result

SettledInv == LastTool /\ SettledRecorded

TurnInv == /\ TypeOK /\ PlaceInv /\ OpInv /\ ResultsInv /\ StopInv /\ CancelInv
           /\ ApprovalInv /\ SettledInv
-----------------------------------------------------------------------------
Messages == Seq(Message)

(* The messages of the first calls, up to and without call k. *)
Answer(seq, k) == /\ seq \in Messages /\ Len(seq) = k - 1
                  /\ \A i \in DOMAIN seq : seq[i].call = i

(* Answers gives one result of one code to each call from the given one on. *)
LEMMA AnswersType ==
    ASSUME NEW from \in Nat, from >= 1, NEW code \in ResultCodes,
           batch \in 0..MaxBatch, MaxBatch \in Nat, from <= batch + 1
    PROVE  /\ Answers(from, code) \in Messages
           /\ Len(Answers(from, code)) = batch - from + 1
           /\ \A i \in 1..(batch - from + 1) :
                  Answers(from, code)[i] = [call |-> from + i - 1, code |-> code]
<1> DEFINE n == batch - from + 1
           f == [i \in 1..n |-> [call |-> from + i - 1, code |-> code]]
<1>1. n \in Nat
  OBVIOUS
<1>2. \A i \in 1..n : [call |-> from + i - 1, code |-> code] \in
                          [call : 1..MaxBatch, code : ResultCodes]
  OBVIOUS
<1>3. f \in Messages /\ Len(f) = n
  BY <1>1, <1>2 DEF Messages, Message
<1>4. Answers(from, code) = f
  BY DEF Answers
<1> QED
  BY <1>3, <1>4

(* Answering every call from the k-th on completes the batch. *)
LEMMA Completes ==
    ASSUME NEW k \in Nat, k >= 1, NEW code \in ResultCodes, NEW seq,
           batch \in 0..MaxBatch, MaxBatch \in Nat, k <= batch + 1, Answer(seq, k)
    PROVE  /\ Answer(seq \o Answers(k, code), batch + 1)
           /\ \A i \in DOMAIN (seq \o Answers(k, code)) :
                  (seq \o Answers(k, code))[i] =
                      IF i < k THEN seq[i] ELSE [call |-> i, code |-> code]
<1> DEFINE a == Answers(k, code)
           s == seq \o a
<1>1. a \in Messages /\ Len(a) = batch - k + 1
  BY AnswersType
<1>2. \A i \in 1..(batch - k + 1) : a[i] = [call |-> k + i - 1, code |-> code]
  BY AnswersType
<1>3. seq \in Messages /\ Len(seq) = k - 1 /\ \A i \in 1..(k - 1) : seq[i].call = i
  BY DEF Answer, Messages
<1> HIDE DEF a
<1>4. s \in Messages /\ Len(s) = batch
  <2>1. s \in Messages /\ Len(s) = Len(seq) + Len(a)
    BY <1>1, <1>3 DEF Messages
  <2> QED
    BY <1>1, <1>3, <2>1
<1>5. \A i \in 1..(k - 1) : s[i] = seq[i]
  BY <1>1, <1>3 DEF Messages
<1>6. ASSUME NEW i \in k..batch PROVE s[i] = [call |-> i, code |-> code]
  <2>1. s[i] = a[i - (k - 1)]
    BY <1>1, <1>3 DEF Messages
  <2>2. i - (k - 1) \in 1..(batch - k + 1) /\ k + (i - (k - 1)) - 1 = i
    OBVIOUS
  <2> QED
    BY <1>2, <2>1, <2>2
<1>7. DOMAIN s = 1..batch
  BY <1>4 DEF Messages
<1> HIDE DEF s
<1>8. \A i \in 1..batch : s[i] = IF i < k THEN seq[i] ELSE [call |-> i, code |-> code]
  BY <1>5, <1>6
<1>9. Answer(s, batch + 1)
  BY <1>3, <1>4, <1>7, <1>8 DEF Answer
<1> QED
  BY <1>7, <1>8, <1>9 DEF s, a

(* One more message. *)
LEMMA Grows ==
    ASSUME NEW k \in 1..MaxBatch, MaxBatch \in Nat, NEW code \in ResultCodes, NEW seq,
           Answer(seq, k)
    PROVE  /\ Answer(Append(seq, [call |-> k, code |-> code]), k + 1)
           /\ \A i \in DOMAIN Append(seq, [call |-> k, code |-> code]) :
                  Append(seq, [call |-> k, code |-> code])[i] =
                      IF i < k THEN seq[i] ELSE [call |-> k, code |-> code]
<1> DEFINE r == [call |-> k, code |-> code]
           s == Append(seq, r)
<1>1. seq \in Messages /\ Len(seq) = k - 1 /\ \A i \in 1..(k - 1) : seq[i].call = i
  BY DEF Answer, Messages
<1>2. r \in Message /\ r.call = k
  BY DEF Message
<1> HIDE DEF r
<1>3. s \in Messages /\ Len(s) = k /\ DOMAIN s = 1..k
  BY <1>1, <1>2 DEF Messages
<1>4. \A i \in 1..k : s[i] = IF i < k THEN seq[i] ELSE r
  BY <1>1, <1>2 DEF Messages
<1> HIDE DEF s
<1>5. Answer(s, k + 1)
  BY <1>1, <1>2, <1>3, <1>4 DEF Answer
<1> QED
  BY <1>3, <1>4, <1>5 DEF s, r

(* The fingerprint counter stays well formed. *)
LEMMA RepeatedType ==
    ASSUME TypeOK, PlaceInv, pc = "record", NEW next \in Repeated
    PROVE  next \in Failures
<1>1. failures.count \in 0..RepeatLimit /\ failures.count < RepeatLimit
      /\ RepeatLimit \in Nat \ {0}
  BY TurnBounds DEF TypeOK, CountersType, Failures, PlaceInv
<1>2. CASE current = "ok"
  BY <1>1, <1>2 DEF Repeated, NoFailure, Failures
<1>3. CASE current # "ok"
  <2>1. current \in {"none", "failed", "POLICY_DENIED", "FILE_CHANGED"}
    BY <1>3 DEF TypeOK, CallsType
  <2>2. 1 \in 0..RepeatLimit /\ failures.count + 1 \in 0..RepeatLimit
    BY <1>1
  <2> QED
    BY <1>3, <2>1, <2>2 DEF Repeated, Failures
<1> QED
  BY <1>2, <1>3

(* What a step may do to the tool messages: the earlier ones stay, and a       *)
(* result that is recorded is the current one.                                *)
EarlierStay == \A i \in DOMAIN results' : i < index => i \in DOMAIN results /\ results'[i] = results[i]
MessagesStep ==
    /\ results' \in Messages /\ ResultsInv'
    /\ pc \in InBatch => EarlierStay
    /\ pc = "record" => \A i \in DOMAIN results' : i = index => results'[i].code = current

(* The types of the batch that the steps on messages need. *)
LEMMA BatchTypes ==
    TurnInv => /\ batch \in 0..MaxBatch /\ MaxBatch \in Nat /\ results \in Messages
               /\ pc \in InBatch => index \in 1..(batch + 1) /\ Answer(results, index)
               /\ pc \in AtCall => index \in 1..batch /\ index \in 1..MaxBatch
               /\ emitFailures \in Nat
<1> SUFFICES ASSUME TurnInv
             PROVE  /\ batch \in 0..MaxBatch /\ MaxBatch \in Nat /\ results \in Messages
                    /\ pc \in InBatch => index \in 1..(batch + 1) /\ Answer(results, index)
                    /\ pc \in AtCall => index \in 1..batch /\ index \in 1..MaxBatch
                    /\ emitFailures \in Nat
  OBVIOUS
<1>1. batch \in 0..MaxBatch /\ MaxBatch \in Nat /\ index \in 0..(MaxBatch + 1)
  BY TurnBounds DEF TurnInv, TypeOK, CallsType
<1>2. results \in Messages
  BY DEF TurnInv, TypeOK, CallsType, Messages
<1>3. pc \in AtCall => index \in 1..batch /\ index \in 1..MaxBatch
  BY <1>1 DEF TurnInv, PlaceInv
<1>4. pc \in InBatch => index \in 1..(batch + 1)
  BY <1>1, <1>3 DEF TurnInv, PlaceInv, AtCall, InBatch
<1>5. pc \in InBatch => Answer(results, index)
  BY <1>2 DEF TurnInv, ResultsInv, Answer
<1>6. emitFailures \in Nat
  BY TurnBounds DEF TurnInv, TypeOK, CountersType
<1> QED
  BY <1>1, <1>2, <1>3, <1>4, <1>5, <1>6

(* The three ways a batch ends early. *)
LEMMA AllAnsweredStep ==
    ASSUME TurnInv, pc \in InBatch, NEW code \in ResultCodes, UNCHANGED <<batch, index>>,
           results' = results \o Answers(index, code), pc' = "ended", pc # "record"
    PROVE  MessagesStep
<1>1. /\ Answer(results', batch + 1)
      /\ \A i \in DOMAIN results' :
             results'[i] = IF i < index THEN results[i] ELSE [call |-> i, code |-> code]
  BY BatchTypes, Completes
<1>2. \A i \in DOMAIN results' : i < index => i \in DOMAIN results
  <2>1. Answer(results, index) /\ index \in Nat /\ batch \in Nat
    BY BatchTypes
  <2> QED
    BY <1>1, <2>1 DEF Answer, Messages
<1> QED
  BY <1>1, <1>2, BatchTypes DEF MessagesStep, EarlierStay, ResultsInv, Answer, InBatch

(* A Turn that ends after the result of the current call keeps one message per call. *)
LEMMA OneAnsweredStep ==
    ASSUME TurnInv, pc \in AtCall, NEW code \in ResultCodes, UNCHANGED <<batch, index>>,
           results' = Append(results, [call |-> index, code |-> code]),
           pc' = "ended", emitFailures' # 0, pc = "record" => code = current
    PROVE  MessagesStep
<1>1. /\ Answer(results', index + 1)
      /\ \A i \in DOMAIN results' :
             results'[i] = IF i < index THEN results[i] ELSE [call |-> index, code |-> code]
  BY BatchTypes, Grows DEF AtCall
<1>2. \A i \in DOMAIN results' : i < index => i \in DOMAIN results
  <2>1. Answer(results, index) /\ index \in Nat
    BY BatchTypes DEF AtCall
  <2> QED
    BY <1>1, <2>1 DEF Answer, Messages
<1> QED
  BY <1>1, <1>2, BatchTypes DEF MessagesStep, EarlierStay, ResultsInv, Answer, InBatch, AtCall

(* So does an abort, which answers the calls that are left, or ends after a failed commit. *)
LEMMA AbortAnswers ==
    ASSUME TurnInv, pc \in AtCall, pc # "record", NEW error, Abort(error),
           UNCHANGED <<batch, index>>
    PROVE  MessagesStep
<1>1. AbortCode(error) \in ResultCodes
  BY DEF AbortCode, ResultCodes
<1>2. CASE results' = results \o Answers(index, AbortCode(error)) /\ pc' = "ended"
  BY <1>1, <1>2, AllAnsweredStep DEF AtCall
<1>3. CASE /\ results' = Append(results, [call |-> index, code |-> AbortCode(error)])
           /\ emitFailures' = emitFailures + 1 /\ pc' = "ended"
  BY <1>1, <1>3, OneAnsweredStep, BatchTypes
<1> QED
  BY <1>2, <1>3 DEF Abort, Finish

(* The abort of the rest of a batch answers every call. *)
LEMMA AbortAllStep ==
    ASSUME TurnInv, pc \in AtCall, pc # "record", AbortAll, UNCHANGED <<batch, index>>
    PROVE  MessagesStep
BY AllAnsweredStep DEF AbortAll, Finish, AtCall, ResultCodes

(* _record, then the next call or the end of the batch. *)
LEMMA RecordStep == ASSUME TurnInv, Record PROVE MessagesStep
<1>1. pc = "record" /\ UNCHANGED batch /\ pc \in AtCall /\ pc \in InBatch
  BY DEF Record, AtCall, InBatch
<1>2. current \in ResultCodes
  BY <1>1 DEF TurnInv, TypeOK, CallsType, ResultCodes, PlaceInv
<1>3. Answer(results, index) /\ index \in 1..batch /\ index \in 1..MaxBatch /\ MaxBatch \in Nat
      /\ batch \in 0..MaxBatch
  BY <1>1, BatchTypes
<1>4. /\ Answer(Recorded, index + 1)
      /\ \A i \in DOMAIN Recorded :
             Recorded[i] = IF i < index THEN results[i] ELSE [call |-> index, code |-> current]
  BY <1>2, <1>3, Grows DEF Recorded
<1>5. CASE results' = Recorded /\ pc' = "call" /\ index' = index + 1
  BY <1>1, <1>3, <1>4, <1>5 DEF MessagesStep, EarlierStay, ResultsInv, Answer, Messages, InBatch
<1>6. ASSUME NEW code \in ResultCodes, pc' = "ended",
             results' = Recorded \o Answers(index + 1, code)
      PROVE  MessagesStep
  <2>1. /\ Answer(results', batch + 1)
        /\ \A i \in DOMAIN results' :
               results'[i] = IF i < index + 1 THEN Recorded[i]
                             ELSE [call |-> i, code |-> code]
    <3>1. index + 1 \in Nat /\ index + 1 >= 1 /\ index + 1 <= batch + 1
      BY <1>3
    <3>2. Answer(Recorded, index + 1) /\ batch \in 0..MaxBatch /\ MaxBatch \in Nat
      BY <1>3, <1>4
    <3> DEFINE all == Recorded \o Answers(index + 1, code)
    <3>3. /\ Answer(all, batch + 1)
          /\ \A i \in DOMAIN all :
                 all[i] = IF i < index + 1 THEN Recorded[i] ELSE [call |-> i, code |-> code]
      BY <3>1, <3>2, Completes
    <3>4. results' = all
      BY <1>6
    <3> HIDE DEF all
    <3> QED
      BY <3>3, <3>4
  <2>2. \A i \in DOMAIN results' : i < index + 1 => i \in DOMAIN Recorded
    <3>1. Recorded \in Messages /\ Len(Recorded) = (index + 1) - 1
      BY <1>4 DEF Answer
    <3>2. results' \in Messages /\ Len(results') = (batch + 1) - 1
      BY <2>1 DEF Answer
    <3>3. DOMAIN Recorded = 1..index
      BY <1>3, <3>1 DEF Messages
    <3>4. DOMAIN results' = 1..batch
      BY <1>3, <3>2 DEF Messages
    <3> QED
      BY <1>3, <3>3, <3>4
  <2>3. \A i \in DOMAIN results' : i < index => i \in DOMAIN results
    BY <1>3, <2>1 DEF Answer, Messages
  <2>4. \A i \in DOMAIN results' : i \in Nat
    BY <2>1 DEF Answer, Messages
  <2> QED
    BY <1>1, <1>3, <1>4, <1>6, <2>1, <2>2, <2>3, <2>4
    DEF MessagesStep, EarlierStay, ResultsInv, Answer, InBatch
<1>7. \A error : AbortCode(error) \in ResultCodes
  BY DEF AbortCode, ResultCodes
<1> QED
  BY <1>5, <1>6, <1>7 DEF Record, Finish

(* A step that records nothing. *)
LEMMA StillStep ==
    ASSUME TurnInv, UNCHANGED <<results, batch, index>>,
           pc' \in InBatch => pc \in InBatch,
           pc' \in {"loop", "assembling", "streaming"} =>
               \/ pc \in {"loop", "assembling", "streaming"}
               \/ pc = "call" /\ index > batch,
           pc' = "ended" => \/ pc \in {"loop", "assembling", "streaming"}
                            \/ pc = "ended" /\ UNCHANGED emitFailures
                            \/ emitFailures' # 0
    PROVE  MessagesStep
<1>1. pc \in InBatch => DOMAIN results = 1..(index - 1)
  BY BatchTypes DEF Answer, Messages
<1>2. \A i \in DOMAIN results : i \in Nat
  BY BatchTypes DEF Messages
<1>3. ResultsInv'
  BY BatchTypes DEF TurnInv, ResultsInv, InBatch, Answer
<1>4. results' \in Messages
  BY BatchTypes
<1>5. pc = "record" => index \notin DOMAIN results
  BY <1>1, BatchTypes DEF InBatch
<1> QED
  BY <1>3, <1>4, <1>5 DEF MessagesStep, EarlierStay

(* Every step keeps the messages complete. *)
LEMMA MessagesHold == TurnInv /\ [Next]_vars => MessagesStep
<1> SUFFICES ASSUME TurnInv, [Next]_vars PROVE MessagesStep
  OBVIOUS
<1>1. ASSUME OpBegins \/ OpEnds \/ OpUnwinds \/ WaitStep PROVE MessagesStep
  BY <1>1, StillStep DEF OpBegins, OpEnds, OpUnwinds, WaitStep, WaitInterrupted, WaitReturns,
     WaitExpires, LaterInterrupted, LateEnds, UnwindSwept, Parked, calls, counters
<1>2. CASE BeginIteration
  BY <1>2, StillStep DEF BeginIteration, Launch, Finish, calls, InBatch
<1>3. CASE Assembled
  BY <1>3, StillStep DEF Assembled, Launch, Finish, calls, InBatch
<1>4. CASE Responded
  <2>1. CASE op.result = "calls"
    <3>1. /\ results' = <<>> /\ index' = 1 /\ pc' = "call"
      BY <1>4, <2>1 DEF Responded
    <3>2. results' \in Messages /\ Len(results') = 0 /\ DOMAIN results' = {}
      BY <3>1 DEF Messages
    <3> QED
      BY <1>4, <3>1, <3>2 DEF MessagesStep, EarlierStay, ResultsInv, Responded, InBatch
  <2>2. CASE op.result # "calls"
    BY <1>4, <2>2, StillStep DEF Responded, Finish, calls, InBatch
  <2> QED
    BY <2>1, <2>2
<1>5. CASE ModelStepRaises
  BY <1>5, StillStep DEF ModelStepRaises, Finish, calls, InBatch
<1>6. CASE BatchDone
  BY <1>6, StillStep DEF BatchDone, calls, InBatch
<1>7. CASE BeginTool
  <2>1. CASE MayBegin
    BY <1>7, <2>1, StillStep DEF BeginTool, InBatch
  <2>2. CASE ~MayBegin
    <3>1. PICK error \in {"max_tool_calls", "execution_timeout"} : Refused(error)
      BY <1>7, <2>2 DEF BeginTool, CheckError, TurnInv, StopInv
    <3>2. results' = results \o Answers(index, "LIMIT_REACHED") /\ pc' = "ended"
      BY <3>1 DEF Refused, Finish
    <3> QED
      BY <1>7, <3>2, AllAnsweredStep DEF BeginTool, InBatch, ResultCodes
  <2> QED
    BY <2>1, <2>2
<1>8. ASSUME Decide \/ Answered \/ GiveUp \/ Conflict \/ Executed PROVE MessagesStep
  BY <1>8, StillStep DEF Decide, Answered, GiveUp, Conflict, Executed, calls, InBatch
<1>9. CASE AskApproval
  BY <1>9, StillStep, AbortAnswers DEF AskApproval, InBatch, AtCall
<1>10. CASE ApprovalRaises
  BY <1>10, AbortAnswers DEF ApprovalRaises, InBatch, AtCall
<1>11. CASE StartTool
  BY <1>11, StillStep, AbortAnswers DEF StartTool, Launch, InBatch, AtCall
<1>12. CASE ToolRaises
  BY <1>12, AbortAnswers DEF ToolRaises, InBatch, AtCall
<1>13. CASE Record
  BY <1>13, RecordStep
<1>14. CASE RequestLost
  BY <1>14, StillStep, BatchTypes DEF RequestLost, EmitFails, Finish, calls, InBatch
<1>15. CASE RecordLost
  <2>1. current \in ResultCodes /\ pc = "record" /\ emitFailures' # 0
    BY <1>15, BatchTypes DEF RecordLost, EmitFails, TurnInv, TypeOK, ControlType, OpType, CallsType, PlaceInv, ResultCodes
  <2> QED
    BY <1>15, <2>1, OneAnsweredStep DEF RecordLost, Recorded, Finish, InBatch, AtCall
<1>16. ASSUME StartLost \/ AskLost \/ AnswerLost PROVE MessagesStep
  BY <1>16, AbortAllStep DEF StartLost, AskLost, AnswerLost, InBatch, AtCall
<1>17. ASSUME \/ \E answer \in {"approved", "denied"} : ResolveApproval(answer)
              \/ PatienceEnds \/ Stop \/ Interrupt \/ Expire
       PROVE  MessagesStep
  BY <1>17, StillStep DEF ResolveApproval, PatienceEnds, Stop, Interrupt, Reach, Expire,
     calls, counters
<1>18. CASE UNCHANGED vars
  BY <1>18, StillStep DEF vars, calls, counters
<1> QED
  BY <1>1, <1>2, <1>3, <1>4, <1>5, <1>6, <1>7, <1>8, <1>9, <1>10, <1>11, <1>12, <1>13,
     <1>14, <1>15, <1>16, <1>17, <1>18 DEF Next, LoopStep, BatchStep, Lost

(* What the earlier messages say of the last tool stays true. *)
LEMMA SettledFrame ==
    ASSUME TurnInv, MessagesStep, pc \in InBatch \cup {"loop", "assembling", "streaming", "ended"},
           UNCHANGED op,
           cancels' \in Nat, cancels' >= cancels,
           pc \notin InBatch => results' = results \/ results' = <<>>,
           \A i \in DOMAIN results' :
               pc \in InBatch /\ i >= index /\ op.kind = "sync" /\ op.call = i
               /\ op.state = "done" /\ op.settled /\ cancels' <= 1
               => results'[i].code = op.result
    PROVE  SettledRecorded'
<1>1. cancels \in Nat /\ (cancels' <= 1 => cancels <= 1)
  BY TurnBounds DEF TurnInv, TypeOK, ControlType, OpType, CallsType
<1>2. SettledRecorded
  BY DEF TurnInv, SettledInv
<1> SUFFICES ASSUME NEW i \in DOMAIN results', op.kind = "sync", op.call = results'[i].call,
                    op.state = "done", op.settled, cancels' <= 1
             PROVE  results'[i].code = op.result
  BY DEF SettledRecorded
<1>3. i \in Nat /\ results'[i].call = i
  BY DEF MessagesStep, ResultsInv, Messages
<1>4. CASE pc \in InBatch /\ i < index
  BY <1>1, <1>2, <1>4 DEF MessagesStep, EarlierStay, SettledRecorded
<1>5. CASE pc \in InBatch /\ i >= index
  BY <1>3, <1>5
<1>6. CASE pc \notin InBatch
  BY <1>1, <1>2, <1>6 DEF SettledRecorded
<1>7. pc \in InBatch => index \in Nat
  BY BatchTypes
<1> QED
  BY <1>3, <1>4, <1>5, <1>6, <1>7

(* Every step keeps the settled results recorded. *)
LEMMA SettledStep == TurnInv /\ [Next]_vars => SettledRecorded'
<1> SUFFICES ASSUME TurnInv, [Next]_vars PROVE SettledRecorded'
  OBVIOUS
<1>1. MessagesStep
  BY MessagesHold
<1>2. /\ cancels \in Nat /\ TypeOK
      /\ pc \in InBatch \cup {"loop", "assembling", "streaming", "ended"}
  BY TurnBounds DEF TurnInv, TypeOK, ControlType, OpType, CallsType, InBatch
<1>3. LastTool /\ SettledRecorded /\ OpInv /\ CancelInv
  BY DEF TurnInv, SettledInv
<1>4. pc \in InBatch => index \in Nat /\ DOMAIN results = 1..(index - 1)
  BY BatchTypes DEF Answer, Messages
<1>5. ASSUME UNCHANGED <<results, op>>, cancels' \in Nat, cancels' >= cancels
      PROVE  SettledRecorded'
  BY <1>1, <1>2, <1>4, <1>5, SettledFrame
<1>6. ASSUME UNCHANGED <<op, cancels>>, pc \in {"call", "decide", "approval", "start"}
      PROVE  SettledRecorded'
  <2>1. op.kind = "sync" => op.call < index /\ op.call \in Nat
    BY <1>2, <1>3, <1>6, TurnBounds DEF LastTool, TypeOK, ControlType, OpType, CallsType
  <2> QED
    BY <1>1, <1>2, <1>4, <1>6, <2>1, SettledFrame DEF InBatch
<1>7. CASE OpBegins \/ OpUnwinds
  BY <1>2, <1>3, <1>7 DEF OpBegins, OpUnwinds, SettledRecorded, calls, TypeOK, ControlType, OpType, CallsType
<1>8. CASE OpEnds
  <2>1. op.state = "running" /\ UNCHANGED <<results, cancels, pc>>
        /\ op'.kind = op.kind /\ op'.call = op.call
    BY <1>2, <1>8 DEF OpEnds, TypeOK, ControlType, OpType, CallsType, calls
  <2>2. cancels <= 1 => wait # "none"
    BY <1>3, <2>1 DEF CancelInv, OpDone
  <2>3. cancels <= 1 /\ op.kind = "sync" => pc = "executing"
    BY <1>2, <1>3, <2>2 DEF OpInv, TypeOK, ControlType, OpType, CallsType
  <2>4. cancels <= 1 /\ op.kind = "sync" => op.call = index /\ pc \in InBatch
    BY <1>3, <2>3 DEF LastTool, InBatch
  <2>5. \A i \in DOMAIN results : results[i].call = i
    BY DEF TurnInv, ResultsInv
  <2> QED
    BY <1>4, <2>1, <2>4, <2>5 DEF SettledRecorded
<1>9. CASE WaitStep
  BY <1>3, <1>9, <1>2 DEF WaitStep, WaitInterrupted, WaitReturns, WaitExpires, LaterInterrupted,
     LateEnds, UnwindSwept, Parked, CancelOp, SettledRecorded, calls, TypeOK, ControlType, OpType, CallsType
<1>10. CASE BeginIteration \/ Assembled
  <2>1. UNCHANGED <<results, cancels>> /\ (op' = op \/ op'.kind # "sync")
    BY <1>10 DEF BeginIteration, Assembled, Launch, LeaveWait, NoOp, control, calls
  <2> QED
    BY <1>2, <1>5, <2>1 DEF SettledRecorded
<1>11. CASE Responded
  BY <1>1, <1>2, <1>11, SettledFrame DEF Responded, LeaveWait, calls, InBatch
<1>12. CASE ModelStepRaises
  BY <1>2, <1>5, <1>12 DEF ModelStepRaises, LeaveWait, calls
<1>13. CASE BatchDone \/ BeginTool \/ Decide \/ AskApproval \/ Conflict \/ GiveUp
  BY <1>6, <1>13 DEF BatchDone, BeginTool, Decide, AskApproval, Conflict, GiveUp, control
<1>14. CASE Answered \/ ApprovalRaises
  BY <1>6, <1>14 DEF Answered, ApprovalRaises
<1>15. CASE StartTool
  <2>1. CASE UNCHANGED control
    BY <1>6, <1>15, <2>1 DEF StartTool, control
  <2>2. CASE UNCHANGED results /\ \E kind \in {"sync", "async"} : Launch(kind, "executing")
    BY <2>2 DEF Launch, NoOp, SettledRecorded
  <2> QED
    BY <1>15, <2>1, <2>2 DEF StartTool
<1>16. CASE Executed
  BY <1>2, <1>5, <1>16 DEF Executed, LeaveWait
<1>17. CASE ToolRaises
  <2>1. UNCHANGED <<op, cancels>> /\ pc = "executing" /\ pc \in InBatch
    BY <1>17 DEF ToolRaises, LeaveWait, InBatch
  <2>2. op.state = "done" /\ op.settled => cancels > 1
    BY <1>2, <1>3, <1>17 DEF ToolRaises, WaitRaises, Kept, CancelInv
  <2> QED
    BY <1>1, <1>2, <2>1, <2>2, SettledFrame
<1>18. CASE Record \/ RecordLost
  <2>1. UNCHANGED <<op, cancels>> /\ pc = "record" /\ pc \in InBatch
    BY <1>18 DEF Record, RecordLost, control, InBatch
  <2>2. \A i \in DOMAIN results' : i = index => results'[i].code = current
    BY <1>1, <2>1 DEF MessagesStep
  <2>3. op.kind = "sync" /\ op.call >= index => op.call = index /\ current = op.result
    BY <1>2, <1>3, <1>4, <2>1, TurnBounds DEF LastTool, TypeOK, ControlType, OpType, CallsType
  <2> QED
    BY <1>1, <1>2, <2>1, <2>2, <2>3, SettledFrame
<1>19. CASE RequestLost \/ StartLost \/ AskLost \/ AnswerLost
  BY <1>6, <1>19 DEF RequestLost, StartLost, AskLost, AnswerLost, control
<1>20. CASE Stop \/ Interrupt
  <2>1. UNCHANGED results /\ cancels' = cancels + 1
    BY <1>20 DEF Stop, Interrupt, Reach, calls
  <2>2. CASE UNCHANGED op
    BY <1>2, <1>5, <2>1, <2>2
  <2>3. CASE CancelOp
    BY <1>2, <1>3, <2>1, <2>3 DEF CancelOp, SettledRecorded, TypeOK, ControlType, OpType, CallsType
  <2> QED
    BY <1>20, <2>2, <2>3 DEF Stop, Interrupt, Reach
<1>21. CASE \/ \E answer \in {"approved", "denied"} : ResolveApproval(answer)
            \/ PatienceEnds \/ Expire \/ UNCHANGED vars
  BY <1>2, <1>5, <1>21 DEF ResolveApproval, PatienceEnds, Expire, control, calls, vars
<1> QED
  BY <1>7, <1>8, <1>9, <1>10, <1>11, <1>12, <1>13, <1>14, <1>15, <1>16, <1>17, <1>18, <1>19,
     <1>20, <1>21 DEF Next, LoopStep, BatchStep, Lost

(* The arithmetic of the bounds. *)
LEMMA Bounds ==
    /\ MaxIterations \in Nat /\ MaxToolCalls \in Nat /\ MaxBatch \in Nat
    /\ RepeatLimit \in Nat /\ RepeatLimit >= 1
    /\ MaxInterrupts \in Nat /\ MaxEmitFailures \in Nat
BY TurnBounds

(* A cancelled operation has a type. *)
LEMMA CancelOpType == ASSUME OpType, CancelOp PROVE OpType'
BY DEF OpType, CancelOp

(* A launched operation has a type. *)
LEMMA LaunchType ==
    ASSUME CallsType, NEW kind \in {"assemble", "model", "sync", "async"}, NEW where,
           Launch(kind, where)
    PROVE  OpType'
BY DEF CallsType, Launch, NoOp, OpType

(* Every step preserves the type of the operation. *)
LEMMA OpTypeStep == TurnInv /\ [Next]_vars => OpType'
<1> SUFFICES ASSUME TurnInv, [Next]_vars PROVE OpType'
  OBVIOUS
<1>1. OpType /\ CallsType /\ OpInv
  BY DEF TurnInv, TypeOK
<1>2. ASSUME UNCHANGED op PROVE OpType'
  BY <1>1, <1>2 DEF OpType
<1>3. CASE OpBegins \/ OpEnds \/ OpUnwinds
  BY <1>1, <1>3 DEF OpBegins, OpEnds, OpUnwinds, OpType, OpResults, Response, Codes
<1>4. CASE WaitStep
  BY <1>1, <1>2, <1>4, CancelOpType DEF WaitStep, WaitInterrupted, WaitReturns, WaitExpires,
     LaterInterrupted, LateEnds, UnwindSwept
<1>5. CASE LoopStep
  BY <1>1, <1>2, <1>5, LaunchType DEF LoopStep, BeginIteration, Assembled, Responded,
     ModelStepRaises, LeaveWait, control
<1>6. CASE BatchStep
  BY <1>1, <1>2, <1>6, LaunchType DEF BatchStep, BatchDone, BeginTool, Decide, AskApproval,
     Answered, GiveUp, ApprovalRaises, Conflict, StartTool, Executed, ToolRaises, Record,
     LeaveWait, control
<1>7. CASE Lost
  BY <1>2, <1>7 DEF Lost, RequestLost, RecordLost, StartLost, AskLost, AnswerLost, control
<1>8. CASE Stop \/ Interrupt
  BY <1>1, <1>2, <1>8, CancelOpType DEF Stop, Interrupt, Reach
<1>9. CASE \/ \E answer \in {"approved", "denied"} : ResolveApproval(answer)
           \/ PatienceEnds \/ Expire \/ UNCHANGED vars
  BY <1>2, <1>9 DEF ResolveApproval, PatienceEnds, Expire, control, vars
<1> QED
  BY <1>3, <1>4, <1>5, <1>6, <1>7, <1>8, <1>9 DEF Next

(* Every step preserves the types of the counters. *)
LEMMA CountersStep == TurnInv /\ [Next]_vars => CountersType'
<1> SUFFICES ASSUME TurnInv, [Next]_vars PROVE CountersType'
  OBVIOUS
<1>1. CountersType /\ TypeOK /\ PlaceInv
  BY DEF TurnInv, TypeOK
<1>2. ASSUME UNCHANGED counters PROVE CountersType'
  BY <1>1, <1>2 DEF CountersType, counters
<1>3. ASSUME UNCHANGED <<iterations, toolCalls, failures>>,
             UNCHANGED emitFailures \/ EmitFails
             \/ (emitFailures < MaxEmitFailures /\ emitFailures' = emitFailures + 1)
      PROVE  CountersType'
  <2>1. emitFailures' \in 0..MaxEmitFailures
    BY <1>1, <1>3, Bounds DEF CountersType, EmitFails
  <2> QED
    BY <1>1, <1>3, <2>1 DEF CountersType
<1>4. CASE BeginIteration
  BY <1>1, <1>4, Bounds DEF CountersType, BeginIteration
<1>5. CASE BeginTool
  BY <1>1, <1>5, Bounds DEF CountersType, BeginTool, MayBegin
<1>6. CASE Record
  BY <1>1, <1>6, RepeatedType DEF CountersType, Record
<1>7. CASE OpBegins \/ OpEnds \/ OpUnwinds \/ WaitStep \/ Assembled \/ Responded \/ ModelStepRaises
  BY <1>2, <1>7 DEF OpBegins, OpEnds, OpUnwinds, WaitStep, WaitInterrupted, WaitReturns,
     WaitExpires, LaterInterrupted, LateEnds, UnwindSwept, Parked, Assembled, Responded,
     ModelStepRaises
<1>8. CASE BatchDone \/ Decide \/ Answered \/ GiveUp \/ Conflict \/ Executed
  BY <1>2, <1>8 DEF BatchDone, Decide, Answered, GiveUp, Conflict, Executed
<1>9. CASE AskApproval \/ ApprovalRaises \/ StartTool \/ ToolRaises
  BY <1>3, <1>9 DEF AskApproval, ApprovalRaises, StartTool, ToolRaises, Abort
<1>10. CASE Lost
  BY <1>3, <1>10 DEF Lost, RequestLost, RecordLost, StartLost, AskLost, AnswerLost
<1>11. CASE \/ \E answer \in {"approved", "denied"} : ResolveApproval(answer)
            \/ PatienceEnds \/ Stop \/ Interrupt \/ Expire \/ UNCHANGED vars
  BY <1>2, <1>11 DEF ResolveApproval, PatienceEnds, Stop, Interrupt, Reach, Expire, vars
<1> QED
  BY <1>4, <1>5, <1>6, <1>7, <1>8, <1>9, <1>10, <1>11 DEF Next, LoopStep, BatchStep

(* Every step preserves the types of the calls and their results. *)
LEMMA CallsStep == TurnInv /\ [Next]_vars => CallsType'
<1> SUFFICES ASSUME TurnInv, [Next]_vars PROVE CallsType'
  OBVIOUS
<1>1. CallsType /\ TypeOK /\ OpInv /\ PlaceInv
  BY DEF TurnInv, TypeOK
<1>2. results' \in Seq(Message)
  BY MessagesHold DEF MessagesStep, Messages
<1>3. ASSUME UNCHANGED <<batch, index>>,
             current' \in {current, "ok", "failed", "POLICY_DENIED", "FILE_CHANGED"}
      PROVE  CallsType'
  BY <1>1, <1>2, <1>3 DEF CallsType
<1>4. CASE Responded
  <2>1. batch' \in 0..MaxBatch /\ index' \in 0..(MaxBatch + 1) /\ UNCHANGED current
    BY <1>1, <1>4, Bounds DEF CallsType, Responded, calls
  <2> QED
    BY <1>1, <1>2, <2>1 DEF CallsType
<1>5. CASE Record
  <2>1. index' \in 0..(MaxBatch + 1) /\ UNCHANGED <<batch, current>>
    BY <1>1, <1>5, Bounds DEF CallsType, PlaceInv, Record, AtCall, InBatch
  <2> QED
    BY <1>1, <1>2, <2>1 DEF CallsType
<1>6. CASE Executed
  <2>1. op.state = "done" /\ op.kind \in {"sync", "async"}
    BY <1>1, <1>6 DEF Executed, WaitAnswers, Kept, OpInv, TypeOK, ControlType
  <2> QED
    BY <1>1, <1>3, <1>6, <2>1 DEF Executed, OpInv, OpResults, Codes
<1>7. CASE OpBegins \/ OpEnds \/ OpUnwinds \/ WaitStep \/ BeginIteration \/ Assembled
           \/ ModelStepRaises
  BY <1>3, <1>7 DEF OpBegins, OpEnds, OpUnwinds, WaitStep, WaitInterrupted, WaitReturns,
     WaitExpires, LaterInterrupted, LateEnds, UnwindSwept, Parked, BeginIteration, Assembled,
     ModelStepRaises, calls
<1>8. CASE BatchDone \/ BeginTool \/ Decide \/ AskApproval \/ Answered \/ GiveUp
           \/ ApprovalRaises \/ Conflict \/ StartTool \/ ToolRaises
  BY <1>3, <1>8 DEF BatchDone, BeginTool, Decide, AskApproval, Answered, GiveUp,
     ApprovalRaises, Conflict, StartTool, ToolRaises, calls
<1>9. CASE Lost
  BY <1>3, <1>9 DEF Lost, RequestLost, RecordLost, StartLost, AskLost, AnswerLost, calls
<1>10. CASE \/ \E answer \in {"approved", "denied"} : ResolveApproval(answer)
            \/ PatienceEnds \/ Stop \/ Interrupt \/ Expire \/ UNCHANGED vars
  BY <1>3, <1>10 DEF ResolveApproval, PatienceEnds, Stop, Interrupt, Reach, Expire, calls, vars
<1> QED
  BY <1>4, <1>5, <1>6, <1>7, <1>8, <1>9, <1>10 DEF Next, LoopStep, BatchStep

(* Every step preserves the types of the control variables. *)
LEMMA ControlStep == TurnInv /\ [Next]_vars => ControlType'
<1> SUFFICES ASSUME TurnInv, [Next]_vars PROVE ControlType'
  OBVIOUS
<1>1. ControlType
  BY DEF TurnInv, TypeOK
<1>2. CASE OpBegins \/ OpEnds \/ OpUnwinds \/ WaitStep
  <2>1. CASE OpBegins \/ OpEnds \/ OpUnwinds
    BY <1>1, <2>1 DEF ControlType, OpBegins, OpEnds, OpUnwinds, Parked, clocks
  <2>2. CASE WaitInterrupted \/ WaitReturns \/ WaitExpires
    BY <1>1, <2>2 DEF ControlType, WaitInterrupted, WaitReturns, WaitExpires, Parked, clocks
  <2>3. CASE WaitStep /\ ~(WaitInterrupted \/ WaitReturns \/ WaitExpires)
    BY <1>1, <2>3 DEF ControlType, WaitStep, LaterInterrupted, LateEnds, UnwindSwept, Parked, clocks
  <2> QED
    BY <1>2, <2>1, <2>2, <2>3
<1>3. CASE LoopStep
  <2>1. CASE BeginIteration
    BY <1>1, <2>1 DEF ControlType, BeginIteration, Launch, Finish, clocks, control
  <2>2. CASE Assembled
    BY <1>1, <2>2 DEF ControlType, Assembled, Launch, LeaveWait, Finish, clocks
  <2>3. CASE Responded \/ ModelStepRaises
    BY <1>1, <2>3 DEF ControlType, Responded, ModelStepRaises, LeaveWait, Finish, clocks
  <2> QED
    BY <1>3, <2>1, <2>2, <2>3 DEF LoopStep
<1>4. CASE BatchStep
  <2>1. CASE AskApproval \/ ApprovalRaises
    BY <1>1, <2>1 DEF ControlType, AskApproval, ApprovalRaises, Abort, Finish, ResumeDeadline,
       control
  <2>2. CASE StartTool \/ ToolRaises
    BY <1>1, <2>2 DEF ControlType, StartTool, ToolRaises, Launch, LeaveWait, Abort, Finish,
       clocks, control
  <2>3. CASE BatchDone \/ BeginTool \/ Decide
    BY <1>1, <2>3 DEF ControlType, BatchDone, BeginTool, Decide, Refused, Finish, ResumeDeadline,
       clocks, control
  <2>4. CASE Answered
    BY <1>1, <2>4 DEF ControlType, Answered, Refused, ResumeDeadline, clocks, control
  <2>5. CASE GiveUp \/ Conflict
    BY <1>1, <2>5 DEF ControlType, GiveUp, Conflict, LeaveWait, clocks, control
  <2>6. CASE Executed \/ Record
    BY <1>1, <2>6 DEF ControlType, Executed, Record, LeaveWait, Finish, clocks, control
  <2> QED
    BY <1>4, <2>1, <2>2, <2>3, <2>4, <2>5, <2>6 DEF BatchStep
<1>5. CASE Lost
  BY <1>1, <1>5 DEF ControlType, Lost, RequestLost, RecordLost, StartLost, AskLost, AnswerLost,
     AbortAll, Finish, ResumeDeadline, clocks, control
<1>6. CASE Stop \/ Interrupt
  <2>1. cancels \in 0..MaxInterrupts
    BY <1>1, <1>6, Bounds DEF Stop, Interrupt, ControlType, TurnInv, CancelInv
  <2>2. cancels' = cancels + 1 /\ interrupt' = TRUE /\ stopRequested' \in BOOLEAN
        /\ UNCHANGED <<pc, wait, clocks, approval>>
    BY <1>1, <1>6 DEF Stop, Interrupt, Reach, ControlType
  <2>3. cancels' \in 0..(MaxInterrupts + 1)
    BY <2>1, <2>2, Bounds
  <2> QED
    BY <1>1, <2>2, <2>3 DEF ControlType, clocks
<1>7. CASE \/ \E answer \in {"approved", "denied"} : ResolveApproval(answer)
           \/ PatienceEnds \/ Expire \/ UNCHANGED vars
  BY <1>1, <1>7 DEF ControlType, ResolveApproval, PatienceEnds, Expire, clocks, control, vars
<1> QED
  BY <1>2, <1>3, <1>4, <1>5, <1>6, <1>7 DEF Next

(* Every step preserves the types of the outcome. *)
LEMMA OutcomeStep == TurnInv /\ [Next]_vars => OutcomeType'
<1> SUFFICES ASSUME TurnInv, [Next]_vars PROVE OutcomeType'
  OBVIOUS
<1>1. OutcomeType /\ OpInv
  BY DEF TurnInv, TypeOK
<1>2. ASSUME UNCHANGED outcome PROVE OutcomeType'
  BY <1>1, <1>2 DEF OutcomeType
<1>3. CheckError \in {"none", "cancelled", "execution_timeout"}
  BY DEF CheckError
<1>4. CASE BeginIteration
  BY <1>2, <1>3, <1>4 DEF OutcomeType, BeginIteration, Finish
<1>5. CASE Assembled
  <2>1. op.state = "done" => op.result \in {"ok", "context_limit", "context_compaction_failed"}
    BY <1>1, <1>5 DEF Assembled, OpInv, OpResults
  <2>2. op.state = "done"
    BY <1>1, <1>5 DEF Assembled, WaitAnswers, Kept, OpInv
  <2> QED
    BY <1>2, <1>3, <1>5, <2>1, <2>2 DEF OutcomeType, Assembled, Finish
<1>6. CASE Responded
  <2>1. op.state = "done" => op.result \in Response \cup {"model_error"}
    BY <1>1, <1>6 DEF Responded, OpInv, OpResults
  <2>2. op.state = "done"
    BY <1>1, <1>6 DEF Responded, WaitAnswers, Kept, OpInv
  <2> QED
    BY <1>2, <1>6, <2>1, <2>2 DEF OutcomeType, Responded, Finish, StopReason, Response
<1>7. CASE ModelStepRaises
  BY <1>7 DEF OutcomeType, ModelStepRaises, Finish
<1>8. CASE BeginTool \/ AskApproval \/ StartTool
  BY <1>2, <1>3, <1>8 DEF OutcomeType, BeginTool, AskApproval, StartTool, Refused, Abort, Finish
<1>9. CASE ApprovalRaises \/ ToolRaises
  BY <1>9 DEF OutcomeType, ApprovalRaises, ToolRaises, Abort, Finish
<1>10. CASE Record
  BY <1>2, <1>3, <1>10 DEF OutcomeType, Record, Finish
<1>11. CASE BatchDone \/ Decide \/ Answered \/ GiveUp \/ Conflict \/ Executed
  BY <1>2, <1>11 DEF BatchDone, Decide, Answered, GiveUp, Conflict, Executed
<1>12. CASE Lost
  BY <1>12 DEF OutcomeType, Lost, RequestLost, RecordLost, StartLost, AskLost, AnswerLost,
     AbortAll, Finish
<1>13. CASE OpBegins \/ OpEnds \/ OpUnwinds \/ WaitStep
  BY <1>2, <1>13 DEF OpBegins, OpEnds, OpUnwinds, WaitStep, WaitInterrupted, WaitReturns,
     WaitExpires, LaterInterrupted, LateEnds, UnwindSwept, Parked
<1>14. CASE \/ \E answer \in {"approved", "denied"} : ResolveApproval(answer)
            \/ PatienceEnds \/ Stop \/ Interrupt \/ Expire \/ UNCHANGED vars
  BY <1>2, <1>14 DEF ResolveApproval, PatienceEnds, Stop, Interrupt, Reach, Expire, vars
<1> QED
  BY <1>4, <1>5, <1>6, <1>7, <1>8, <1>9, <1>10, <1>11, <1>12, <1>13, <1>14
  DEF Next, LoopStep, BatchStep

(* The actions of an operation, of the clocks and of the requests leave the     *)
(* Turn where it is.                                                          *)
LEMMA OutsideStep ==
    ASSUME OpBegins \/ OpEnds \/ OpUnwinds \/ WaitStep \/ PatienceEnds \/ Stop \/ Interrupt
           \/ Expire \/ (\E answer \in {"approved", "denied"} : ResolveApproval(answer))
           \/ UNCHANGED vars
    PROVE  UNCHANGED <<pc, batch, index, current, results, iterations, toolCalls, failures,
                       emitFailures, outcome>>
BY DEF OpBegins, OpEnds, OpUnwinds, WaitStep, WaitInterrupted, WaitReturns, WaitExpires,
   LaterInterrupted, LateEnds, UnwindSwept, Parked, ResolveApproval, PatienceEnds, Stop,
   Interrupt, Reach, Expire, calls, counters, vars

(* Every step keeps the place in wait in agreement with pc. *)
LEMMA PlaceStep == TurnInv /\ [Next]_vars => PlaceInv'
<1> SUFFICES ASSUME TurnInv, [Next]_vars PROVE PlaceInv'
  OBVIOUS
<1>1. PlaceInv /\ TypeOK /\ CallsType /\ OpInv
  BY DEF TurnInv, TypeOK
<1>2. batch \in Nat /\ index \in Nat
  BY <1>1, Bounds DEF CallsType
<1>3. CASE LoopStep
  BY <1>1, <1>2, <1>3 DEF PlaceInv, LoopStep, BeginIteration, Assembled, Responded,
     ModelStepRaises, Launch, LeaveWait, Finish, calls, counters, AtCall, InBatch
<1>4. ASSUME pc' = "ended" PROVE PlaceInv'
  BY <1>4 DEF PlaceInv, AtCall, InBatch
<1>5. CASE Lost
  BY <1>4, <1>5 DEF Lost, RequestLost, RecordLost, StartLost, AskLost, AnswerLost, AbortAll,
     Finish
<1>6. CASE ApprovalRaises \/ ToolRaises
  BY <1>4, <1>6 DEF ApprovalRaises, ToolRaises, Abort, Finish
<1>7. CASE BeginTool
  BY <1>1, <1>2, <1>4, <1>7 DEF PlaceInv, BeginTool, Refused, Finish, AtCall, InBatch
<1>8. CASE BatchDone \/ Decide \/ Answered \/ GiveUp \/ Conflict
  BY <1>1, <1>8 DEF PlaceInv, BatchDone, Decide, Answered, GiveUp, Conflict, calls, counters,
     AtCall, InBatch
<1>9. CASE AskApproval \/ StartTool
  BY <1>1, <1>4, <1>9 DEF PlaceInv, AskApproval, StartTool, Launch, Abort, Finish, AtCall, InBatch
<1>10. CASE Executed
  <2>1. op.state = "done" /\ op.kind \in {"sync", "async"}
    BY <1>1, <1>10 DEF Executed, WaitAnswers, Kept, OpInv
  <2>2. current' # "none"
    BY <1>1, <1>10, <2>1 DEF Executed, OpInv, OpResults, Codes
  <2> QED
    BY <1>1, <1>10, <2>2 DEF PlaceInv, Executed, counters, AtCall, InBatch
<1>11. CASE Record
  <2>1. failures'.count \in Nat
    BY <1>1, <1>11, RepeatedType, Bounds DEF Record, Failures
  <2>2. CASE pc' = "ended"
    BY <1>4, <2>2
  <2>3. CASE pc' = "call"
    <3>1. failures'.count < RepeatLimit
      BY <1>11, <2>1, <2>3, Bounds DEF Record, Finish
    <3>2. index' = index + 1 /\ batch' = batch /\ outcome' = outcome /\ pc = "record"
      BY <1>11, <2>3 DEF Record, Finish
    <3> QED
      BY <1>1, <1>2, <2>3, <3>1, <3>2 DEF PlaceInv, AtCall, InBatch
  <2> QED
    BY <1>11, <2>2, <2>3 DEF Record, Finish
<1>12. ASSUME UNCHANGED <<pc, batch, index, current, failures, outcome>> PROVE PlaceInv'
  BY <1>1, <1>12 DEF PlaceInv
<1> QED
  BY <1>3, <1>5, <1>6, <1>7, <1>8, <1>9, <1>10, <1>11, <1>12, OutsideStep DEF Next, BatchStep

(* Every step keeps the operation in agreement with the place that waits for it. *)
LEMMA OpStep == TurnInv /\ [Next]_vars => OpInv'
<1> SUFFICES ASSUME TurnInv, [Next]_vars PROVE OpInv'
  OBVIOUS
<1>1. OpInv /\ OpType
  BY DEF TurnInv, TypeOK
<1>2. CASE OpBegins
  BY <1>1, <1>2 DEF OpInv, OpType, OpBegins, OpResults
<1>3. CASE OpEnds
  BY <1>1, <1>3 DEF OpInv, OpType, OpEnds, OpResults
<1>4. CASE OpUnwinds
  BY <1>1, <1>4 DEF OpInv, OpType, OpUnwinds, OpResults
<1>5. CASE WaitInterrupted \/ WaitExpires
  BY <1>1, <1>5 DEF OpInv, OpType, WaitInterrupted, WaitExpires, CancelOp, Parked, OpResults
<1>6. CASE WaitReturns \/ LaterInterrupted \/ LateEnds \/ UnwindSwept
  BY <1>1, <1>6 DEF OpInv, WaitReturns, LaterInterrupted, LateEnds, UnwindSwept, OpDone, Parked,
     OpResults
<1>7. ASSUME NEW kind \in {"assemble", "model", "sync", "async"}, NEW where, Launch(kind, where),
             <<kind, where>> \in {<<"assemble", "assembling">>, <<"model", "streaming">>,
                                  <<"sync", "executing">>, <<"async", "executing">>}
      PROVE  OpInv'
  BY <1>1, <1>7 DEF OpInv, Launch, NoOp, OpResults
<1>8. ASSUME UNCHANGED op, wait' = "none",
             pc' \notin {"assembling", "streaming", "executing"}
      PROVE  OpInv'
  BY <1>1, <1>8 DEF OpInv, OpResults
<1>9. CASE LoopStep
  BY <1>1, <1>7, <1>8, <1>9 DEF OpInv, LoopStep, BeginIteration, Assembled, Responded,
     ModelStepRaises, LeaveWait, Finish, control
<1>10. CASE Executed \/ ToolRaises
  BY <1>8, <1>10 DEF Executed, ToolRaises, LeaveWait, Abort, Finish
<1>11. CASE StartTool
  BY <1>1, <1>7, <1>8, <1>11 DEF OpInv, StartTool, Abort, Finish, control
<1>12. CASE BatchDone \/ BeginTool \/ Decide \/ AskApproval \/ Conflict \/ Record
  BY <1>1, <1>8, <1>12 DEF OpInv, BatchDone, BeginTool, Decide, AskApproval, Conflict, Record,
     Refused, Abort, Finish, control
<1>13. CASE Answered \/ GiveUp \/ ApprovalRaises
  BY <1>1, <1>8, <1>13 DEF OpInv, Answered, GiveUp, ApprovalRaises, Abort, Finish, control
<1>14. CASE Lost
  BY <1>1, <1>8, <1>14 DEF OpInv, Lost, RequestLost, RecordLost, StartLost, AskLost, AnswerLost,
     AbortAll, Finish, control
<1>15. CASE Stop \/ Interrupt
  BY <1>1, <1>15 DEF OpInv, OpType, Stop, Interrupt, Reach, CancelOp, OpResults
<1>16. CASE \/ \E answer \in {"approved", "denied"} : ResolveApproval(answer)
            \/ PatienceEnds \/ Expire \/ UNCHANGED vars
  BY <1>1, <1>16 DEF OpInv, ResolveApproval, PatienceEnds, Expire, control, vars, OpResults
<1> QED
  BY <1>2, <1>3, <1>4, <1>5, <1>6, <1>9, <1>10, <1>11, <1>12, <1>13, <1>14, <1>15, <1>16
  DEF Next, WaitStep, BatchStep

(* Every step preserves what is known of an accepted Stop. *)
LEMMA StopStep == TurnInv /\ [Next]_vars => StopInv'
<1> SUFFICES ASSUME TurnInv, [Next]_vars PROVE StopInv'
  OBVIOUS
<1>1. StopInv /\ OpInv /\ PlaceInv
  BY DEF TurnInv
<1>2. ASSUME UNCHANGED <<pc, stopRequested, outcome>>,
             \/ UNCHANGED <<wait, interrupt>>
             \/ wait' \notin {"waiting", "sweeping"}
      PROVE  StopInv'
  BY <1>1, <1>2 DEF StopInv, StopNeverCompletes
<1>3. CASE OpBegins \/ OpEnds \/ OpUnwinds
  BY <1>2, <1>3 DEF OpBegins, OpEnds, OpUnwinds
<1>4. CASE WaitReturns
  BY <1>1, <1>4 DEF StopInv, StopNeverCompletes, WaitReturns, Parked
<1>5. CASE WaitInterrupted \/ WaitExpires \/ LaterInterrupted \/ LateEnds \/ UnwindSwept
  BY <1>2, <1>5 DEF WaitInterrupted, WaitExpires, LaterInterrupted, LateEnds, UnwindSwept, Parked
<1>6. CASE BeginIteration
  BY <1>1, <1>6 DEF StopInv, StopNeverCompletes, PlaceInv, BeginIteration, Launch, Finish,
     CheckError, control
<1>7. CASE Assembled
  <2>1. op.state = "done" => op.result # "completed"
    BY <1>1, <1>7 DEF Assembled, OpInv, OpResults
  <2>2. op.state = "done" /\ outcome = "none"
    BY <1>1, <1>7 DEF Assembled, WaitAnswers, Kept, OpInv, PlaceInv
  <2>3. CASE Launch("model", "streaming") /\ UNCHANGED outcome /\ CheckError = "none"
    BY <2>2, <2>3 DEF StopInv, StopNeverCompletes, Launch, CheckError
  <2>4. CASE /\ Finish(IF op.result = "ok" THEN CheckError ELSE op.result)
             /\ LeaveWait
    BY <2>1, <2>2, <2>4 DEF StopInv, StopNeverCompletes, Finish, LeaveWait, CheckError
  <2> QED
    BY <1>7, <2>3, <2>4 DEF Assembled
<1>8. CASE Responded
  <2>1. ~stopRequested /\ UNCHANGED stopRequested
    BY <1>1, <1>8 DEF StopInv, OpInv, Responded, WaitAnswers, Kept, LeaveWait
  <2> QED
    BY <2>1 DEF StopInv, StopNeverCompletes
<1>9. ASSUME UNCHANGED stopRequested, pc' \notin {"loop", "call", "decide", "streaming"},
             outcome' # "completed"
      PROVE  StopInv'
  BY <1>9 DEF StopInv, StopNeverCompletes
<1>10. outcome # "completed" \/ pc = "ended"
  BY <1>1 DEF PlaceInv
<1>11. CASE ModelStepRaises
  BY <1>9, <1>11 DEF ModelStepRaises, Finish, LeaveWait
<1>12. CASE BeginTool
  BY <1>1, <1>9, <1>12 DEF StopInv, StopNeverCompletes, BeginTool, Refused, Finish, CheckError,
     control
<1>13. CASE BatchDone
  BY <1>1, <1>13 DEF StopInv, StopNeverCompletes, BatchDone, control
<1>14. CASE Record
  BY <1>1, <1>9, <1>14 DEF StopInv, StopNeverCompletes, PlaceInv, Record, Finish, CheckError,
     control
<1>15. CASE Decide \/ Answered \/ GiveUp \/ Conflict \/ Executed
  BY <1>9, <1>10, <1>15 DEF Decide, Answered, GiveUp, Conflict, Executed, LeaveWait, control
<1>16. CASE AskApproval \/ StartTool \/ ApprovalRaises \/ ToolRaises
  BY <1>9, <1>10, <1>16 DEF AskApproval, StartTool, ApprovalRaises, ToolRaises, Abort, Finish,
     Launch, LeaveWait, CheckError, control
<1>17. CASE Lost
  BY <1>9, <1>17 DEF Lost, RequestLost, RecordLost, StartLost, AskLost, AnswerLost, AbortAll,
     Finish, control
<1>18. CASE Stop \/ Interrupt
  BY <1>1, <1>18 DEF StopInv, StopNeverCompletes, PlaceInv, Stop, Interrupt, Reach, Suspended
<1>19. CASE \/ \E answer \in {"approved", "denied"} : ResolveApproval(answer)
            \/ PatienceEnds \/ Expire \/ UNCHANGED vars
  BY <1>2, <1>19 DEF ResolveApproval, PatienceEnds, Expire, control, vars
<1> QED
  BY <1>3, <1>4, <1>5, <1>6, <1>7, <1>8, <1>11, <1>12, <1>13, <1>14, <1>15, <1>16, <1>17,
     <1>18, <1>19 DEF Next, WaitStep, LoopStep, BatchStep

(* Every step preserves what is known of pending cancellations. *)
LEMMA CancelStep == TurnInv /\ [Next]_vars => CancelInv'
<1> SUFFICES ASSUME TurnInv, [Next]_vars PROVE CancelInv'
  OBVIOUS
<1>1. CancelInv /\ OpInv
  BY DEF TurnInv
<1>2. cancels \in Nat /\ stopRequested \in BOOLEAN
  BY Bounds DEF TurnInv, TypeOK, ControlType
<1>3. ASSUME UNCHANGED <<cancels, stopRequested, interrupt, wait, op>> PROVE CancelInv'
  BY <1>1, <1>3 DEF CancelInv, OpDone
<1>4. CASE OpBegins
  BY <1>1, <1>4 DEF CancelInv, OpDone, OpBegins
<1>5. CASE OpEnds
  BY <1>1, <1>5 DEF CancelInv, OpDone, OpEnds
<1>6. CASE OpUnwinds
  BY <1>1, <1>6 DEF CancelInv, OpDone, OpUnwinds
<1>7. CASE WaitInterrupted \/ LaterInterrupted
  BY <1>1, <1>2, <1>7 DEF CancelInv, WaitInterrupted, LaterInterrupted, Parked
<1>8. CASE WaitReturns
  BY <1>1, <1>8 DEF CancelInv, OpDone, WaitReturns, Parked
<1>9. CASE WaitExpires \/ LateEnds
  BY <1>1, <1>9 DEF CancelInv, OpDone, WaitExpires, LateEnds, Parked
<1>10. CASE UnwindSwept
  BY <1>1, <1>10 DEF CancelInv, UnwindSwept, Parked
<1>11. CASE BeginIteration
  BY <1>1, <1>3, <1>11 DEF CancelInv, BeginIteration, Launch, control
<1>12. ASSUME LeaveWait, OpDone \/ cancels > 1 PROVE CancelInv'
  BY <1>1, <1>2, <1>12 DEF CancelInv, LeaveWait, OpDone
<1>13. WaitAnswers => OpDone
  BY <1>1 DEF WaitAnswers, Kept, OpDone, OpInv
<1>14. \A error : WaitRaises(error) => OpDone \/ cancels > 1
  BY <1>1, <1>2 DEF WaitRaises, CancelInv, OpDone
<1>15. CASE Assembled
  BY <1>1, <1>12, <1>13, <1>15 DEF CancelInv, Assembled, Launch
<1>16. CASE Responded \/ Executed
  BY <1>12, <1>13, <1>16 DEF Responded, Executed
<1>17. CASE ModelStepRaises \/ ToolRaises
  BY <1>12, <1>14, <1>17 DEF ModelStepRaises, ToolRaises
<1>18. CASE StartTool
  BY <1>1, <1>3, <1>18 DEF CancelInv, StartTool, Launch, control
<1>19. CASE Answered \/ ApprovalRaises \/ AnswerLost
  BY <1>1, <1>19 DEF CancelInv, OpDone, Answered, ApprovalRaises, AnswerLost
<1>20. CASE BatchDone \/ BeginTool \/ Decide \/ AskApproval \/ GiveUp \/ Conflict \/ Record
  BY <1>3, <1>20 DEF BatchDone, BeginTool, Decide, AskApproval, GiveUp, Conflict, Record, control
<1>21. CASE RequestLost \/ RecordLost \/ StartLost \/ AskLost
  BY <1>3, <1>21 DEF RequestLost, RecordLost, StartLost, AskLost, control
<1>22. CASE Stop \/ Interrupt
  <2>1. cancels' = cancels + 1 /\ interrupt' /\ UNCHANGED wait
        /\ cancels' <= MaxInterrupts + (IF stopRequested' THEN 1 ELSE 0)
    BY <1>1, <1>2, <1>22, Bounds DEF CancelInv, Stop, Interrupt, Reach
  <2>2. OpDone => OpDone'
    BY <1>22 DEF Stop, Interrupt, Reach, CancelOp, OpDone
  <2> QED
    BY <1>1, <1>2, <2>1, <2>2 DEF CancelInv
<1>23. CASE \/ \E answer \in {"approved", "denied"} : ResolveApproval(answer)
            \/ PatienceEnds \/ Expire \/ UNCHANGED vars
  BY <1>3, <1>23 DEF ResolveApproval, PatienceEnds, Expire, control, vars
<1> QED
  BY <1>4, <1>5, <1>6, <1>7, <1>8, <1>9, <1>10, <1>11, <1>15, <1>16, <1>17, <1>18, <1>19,
     <1>20, <1>21, <1>22, <1>23 DEF Next, WaitStep, LoopStep, BatchStep, Lost

(* Every step preserves what is known of the approval. *)
LEMMA ApprovalStep == TurnInv /\ [Next]_vars => ApprovalInv'
<1> SUFFICES ASSUME TurnInv, [Next]_vars PROVE ApprovalInv'
  OBVIOUS
<1>1. ApprovalInv
  BY DEF TurnInv
<1>2. ASSUME pc' \notin {"decide", "start", "executing"} PROVE ApprovalInv'
  BY <1>2 DEF ApprovalInv
<1>3. ASSUME UNCHANGED <<pc, approval>> PROVE ApprovalInv'
  BY <1>1, <1>3 DEF ApprovalInv
<1>4. CASE LoopStep
  BY <1>2, <1>4 DEF LoopStep, BeginIteration, Assembled, Responded, ModelStepRaises, Launch,
     Finish
<1>5. CASE Lost
  BY <1>2, <1>5 DEF Lost, RequestLost, RecordLost, StartLost, AskLost, AnswerLost, AbortAll,
     Finish
<1>6. CASE BeginTool \/ Decide \/ Answered
  BY <1>1, <1>2, <1>6 DEF ApprovalInv, BeginTool, Refused, Decide, Answered, Finish
<1>7. CASE BatchDone \/ AskApproval \/ GiveUp \/ ApprovalRaises
  BY <1>2, <1>7 DEF BatchDone, AskApproval, GiveUp, ApprovalRaises, Abort, Finish
<1>8. CASE Conflict \/ Executed \/ ToolRaises \/ Record
  BY <1>2, <1>8 DEF Conflict, Executed, ToolRaises, Record, Abort, Finish
<1>9. CASE StartTool
  BY <1>1, <1>2, <1>9 DEF ApprovalInv, StartTool, Launch, Abort, Finish
<1>10. CASE OpBegins \/ OpEnds \/ OpUnwinds \/ WaitStep
  BY <1>3, <1>10 DEF OpBegins, OpEnds, OpUnwinds, WaitStep, WaitInterrupted, WaitReturns,
     WaitExpires, LaterInterrupted, LateEnds, UnwindSwept, Parked
<1>11. CASE \E answer \in {"approved", "denied"} : ResolveApproval(answer)
  BY <1>2, <1>11 DEF ResolveApproval
<1>12. CASE PatienceEnds \/ Stop \/ Interrupt \/ Expire \/ UNCHANGED vars
  BY <1>3, <1>12 DEF PatienceEnds, Stop, Interrupt, Reach, Expire, vars
<1> QED
  BY <1>4, <1>5, <1>6, <1>7, <1>8, <1>9, <1>10, <1>11, <1>12 DEF Next, BatchStep

(* Every step keeps the last launched tool the one of the current call. *)
LEMMA LastToolStep == TurnInv /\ [Next]_vars => LastTool'
<1> SUFFICES ASSUME TurnInv, [Next]_vars PROVE LastTool'
  OBVIOUS
<1>1. LastTool /\ PlaceInv /\ OpInv
  BY DEF TurnInv, SettledInv
<1>2. op.call \in Nat /\ index \in Nat /\ OpType
  BY Bounds DEF TurnInv, TypeOK, OpType, CallsType
<1>3. ASSUME pc' \in {"loop", "assembling", "streaming", "ended"} PROVE LastTool'
  BY <1>3 DEF LastTool
<1>4. CASE BeginIteration \/ Assembled \/ ModelStepRaises
  BY <1>3, <1>4 DEF BeginIteration, Assembled, ModelStepRaises, Launch, Finish
<1>5. CASE Responded
  BY <1>1, <1>5 DEF LastTool, OpInv, Responded, LeaveWait, Finish
<1>6. CASE BatchDone \/ BeginTool \/ Decide \/ Conflict
  BY <1>1, <1>6 DEF LastTool, BatchDone, BeginTool, Decide, Conflict, Refused, Finish, calls,
     control
<1>7. CASE AskApproval \/ Answered \/ GiveUp \/ ApprovalRaises
  BY <1>1, <1>7 DEF LastTool, AskApproval, Answered, GiveUp, ApprovalRaises, Abort, Finish, calls,
     control
<1>8. CASE StartTool
  BY <1>3, <1>8 DEF LastTool, StartTool, Launch, NoOp, Abort, Finish
<1>9. CASE Executed
  BY <1>1, <1>9 DEF LastTool, OpInv, Executed, WaitAnswers, Kept, LeaveWait
<1>10. CASE ToolRaises
  BY <1>3, <1>10 DEF ToolRaises, Abort, Finish
<1>11. CASE Record
  BY <1>1, <1>2, <1>3, <1>11 DEF LastTool, Record, Finish, control
<1>12. CASE Lost
  BY <1>3, <1>12 DEF Lost, RequestLost, RecordLost, StartLost, AskLost, AnswerLost, AbortAll,
     Finish
<1>13. CASE OpBegins \/ OpEnds \/ OpUnwinds
  BY <1>1, <1>2, <1>13 DEF LastTool, OpType, OpBegins, OpEnds, OpUnwinds, calls
<1>14. CASE WaitStep
  BY <1>1, <1>2, <1>14 DEF LastTool, OpType, WaitStep, WaitInterrupted, WaitReturns, WaitExpires,
     LaterInterrupted, LateEnds, UnwindSwept, CancelOp, Parked, calls
<1>15. CASE Stop \/ Interrupt
  BY <1>1, <1>2, <1>15 DEF LastTool, OpType, Stop, Interrupt, Reach, CancelOp, calls
<1>16. CASE \/ \E answer \in {"approved", "denied"} : ResolveApproval(answer)
            \/ PatienceEnds \/ Expire \/ UNCHANGED vars
  BY <1>1, <1>16 DEF LastTool, ResolveApproval, PatienceEnds, Expire, calls, control, vars
<1> QED
  BY <1>4, <1>5, <1>6, <1>7, <1>8, <1>9, <1>10, <1>11, <1>12, <1>13, <1>14, <1>15, <1>16
  DEF Next, LoopStep, BatchStep
-----------------------------------------------------------------------------
(* The initial states satisfy TurnInv. *)
LEMMA TurnInit == Init => TurnInv
<1> SUFFICES ASSUME Init PROVE TurnInv
  OBVIOUS
<1>1. TypeOK
  <2>1. ControlType /\ OutcomeType
    <3>1. 0 \in 0..(MaxInterrupts + 1)
      BY Bounds
    <3> QED
      BY <3>1, Zenon DEF Init, ControlType, OutcomeType
  <2>2. OpType
    BY Bounds DEF Init, OpType, NoOp
  <2>3. CountersType
    BY Bounds DEF Init, CountersType, NoFailure, Failures
  <2>4. CallsType
    BY Bounds DEF Init, CallsType
  <2> QED
    BY <2>1, <2>2, <2>3, <2>4 DEF TypeOK
<1>2. PlaceInv /\ OpInv
  BY Bounds DEF Init, PlaceInv, OpInv, NoOp, NoFailure, InBatch, AtCall
<1>3. ResultsInv
  BY DEF Init, ResultsInv, InBatch
<1>4. StopInv /\ CancelInv /\ ApprovalInv
  BY Bounds DEF Init, StopInv, StopNeverCompletes, CancelInv, OpDone, NoOp, ApprovalInv
<1>5. SettledInv
  BY DEF Init, SettledInv, LastTool, SettledRecorded, NoOp
<1> QED
  BY <1>1, <1>2, <1>3, <1>4, <1>5 DEF TurnInv

(* Every step preserves TurnInv. *)
LEMMA TurnStep == TurnInv /\ [Next]_vars => TurnInv'
<1> SUFFICES ASSUME TurnInv, [Next]_vars PROVE TurnInv'
  OBVIOUS
<1>1. TypeOK'
  BY ControlStep, OutcomeStep, OpTypeStep, CountersStep, CallsStep DEF TypeOK
<1>2. ResultsInv'
  BY MessagesHold DEF MessagesStep
<1>3. SettledInv'
  BY LastToolStep, SettledStep DEF SettledInv
<1> QED
  BY <1>1, <1>2, <1>3, PlaceStep, OpStep, StopStep, CancelStep, ApprovalStep DEF TurnInv

(* The inductive invariant of a Turn. *)
THEOREM TurnInvariant == Spec => []TurnInv
BY TurnInit, TurnStep, PTL DEF Spec

(* The counters of a Turn stay within its limits, whatever interrupts it. *)
THEOREM TurnTypeCorrect == Spec => []TypeOK
<1>1. TurnInv => TypeOK
  BY DEF TurnInv
<1> QED
  BY <1>1, TurnInvariant, PTL

(* Every accepted tool call has exactly one message, in the order of the       *)
(* calls, before the next model request and at the end of the Turn.           *)
THEOREM EveryCallAnswered == Spec => []CallsAnswered
<1>1. TurnInv => CallsAnswered
  <2> SUFFICES ASSUME TurnInv, \/ pc \in {"loop", "assembling", "streaming"}
                               \/ pc = "ended" /\ emitFailures = 0
               PROVE  AllAnswered
    BY DEF CallsAnswered
  <2>1. Len(results) = batch /\ \A i \in DOMAIN results : results[i].call = i
    BY DEF TurnInv, ResultsInv
  <2>2. DOMAIN results = 1..batch
    BY <2>1, BatchTypes DEF Messages
  <2> QED
    BY <2>1, <2>2 DEF AllAnswered
<1> QED
  BY <1>1, TurnInvariant, PTL

(* A Turn that accepted a Stop never reports that it completed. *)
THEOREM StoppedNeverCompletes == Spec => []StopNeverCompletes
<1>1. TurnInv => StopNeverCompletes
  BY DEF TurnInv, StopInv
<1> QED
  BY <1>1, TurnInvariant, PTL

(* After an accepted Stop no model call, tool or approval begins. *)
THEOREM StoppedLaunchesNothing == Spec => StopLaunchesNothing
<1>1. ASSUME stopRequested, [Next]_vars
      PROVE  /\ pc \notin {"assembling", "streaming", "approval", "executing"} => pc' # "approval"
             /\ pc' \in {"assembling", "streaming", "executing"} => pc' = pc
  <2>1. ASSUME UNCHANGED pc \/ pc' \notin {"assembling", "streaming", "approval", "executing"}
        PROVE  /\ pc \notin {"assembling", "streaming", "approval", "executing"} => pc' # "approval"
               /\ pc' \in {"assembling", "streaming", "executing"} => pc' = pc
    BY <2>1
  <2>2. CheckError = "cancelled"
    BY <1>1 DEF CheckError
  <2>3. CASE LoopStep
    BY <2>1, <2>2, <2>3 DEF LoopStep, BeginIteration, Assembled, Responded, ModelStepRaises, Finish
  <2>4. CASE AskApproval \/ StartTool
    BY <2>1, <2>2, <2>4 DEF AskApproval, StartTool, Abort, Finish
  <2>5. CASE BatchDone \/ BeginTool \/ Decide \/ Answered \/ GiveUp \/ Conflict
    BY <2>1, <2>5 DEF BatchDone, BeginTool, Decide, Answered, GiveUp, Conflict, Refused, Finish
  <2>6. CASE ApprovalRaises \/ Executed \/ ToolRaises \/ Record
    BY <2>1, <2>6 DEF ApprovalRaises, Executed, ToolRaises, Record, Abort, Finish
  <2>7. CASE Lost
    BY <2>1, <2>7 DEF Lost, RequestLost, RecordLost, StartLost, AskLost, AnswerLost, AbortAll,
       Finish
  <2> QED
    BY <1>1, <2>1, <2>3, <2>4, <2>5, <2>6, <2>7, OutsideStep DEF Next, BatchStep
<1> QED
  BY <1>1, PTL DEF Spec, StopLaunchesNothing

(* The real result of a tool that settled after the only cancellation of its   *)
(* Turn is the one recorded for it.                                           *)
THEOREM SettledIsRecorded == Spec => []SettledRecorded
<1>1. TurnInv => SettledRecorded
  BY DEF TurnInv, SettledInv
<1> QED
  BY <1>1, TurnInvariant, PTL

(* Nothing of the Turn runs after it ended, unless it was cancelled twice. *)
THEOREM EndsQuietly == Spec => []QuietAtEnd
<1>1. TurnInv => QuietAtEnd
  <2> SUFFICES ASSUME TurnInv, pc = "ended", cancels <= 1 PROVE OpDone
    BY DEF QuietAtEnd
  <2>1. wait = "none"
    BY DEF TurnInv, OpInv, TypeOK, ControlType
  <2> QED
    BY <2>1 DEF TurnInv, CancelInv
<1> QED
  BY <1>1, TurnInvariant, PTL

(* An accepted answer to an approval is final, and only an approved call runs. *)
THEOREM AnswerIsFinal == Spec => AnswerDecides
<1>1. TurnInv => (pc = "executing" => approval \in {"none", "approved"})
  BY DEF TurnInv, ApprovalInv
<1>2. ASSUME TurnInv, [Next]_vars, pc # "call", approval \in {"approved", "denied"}
      PROVE  approval' = approval
  <2>1. pc # "decide"
    BY <1>2 DEF TurnInv, ApprovalInv
  <2>2. CASE LoopStep
    BY <2>2 DEF LoopStep, BeginIteration, Assembled, Responded, ModelStepRaises
  <2>3. CASE BatchStep
    BY <1>2, <2>1, <2>3 DEF BatchStep, BatchDone, BeginTool, Decide, AskApproval, Answered,
       GiveUp, ApprovalRaises, Conflict, StartTool, Executed, ToolRaises, Record
  <2>4. CASE Lost
    BY <2>1, <2>4 DEF Lost, RequestLost, RecordLost, StartLost, AskLost, AnswerLost
  <2>5. CASE OpBegins \/ OpEnds \/ OpUnwinds \/ WaitStep
    BY <2>5 DEF OpBegins, OpEnds, OpUnwinds, WaitStep, WaitInterrupted, WaitReturns,
       WaitExpires, LaterInterrupted, LateEnds, UnwindSwept, Parked
  <2>6. CASE \/ \E answer \in {"approved", "denied"} : ResolveApproval(answer)
             \/ PatienceEnds \/ Stop \/ Interrupt \/ Expire \/ UNCHANGED vars
    BY <1>2, <2>6 DEF ResolveApproval, PatienceEnds, Stop, Interrupt, Reach, Expire, vars
  <2> QED
    BY <1>2, <2>2, <2>3, <2>4, <2>5, <2>6 DEF Next
<1> QED
  BY <1>1, <1>2, TurnInvariant, PTL DEF Spec, AnswerDecides
-----------------------------------------------------------------------------
(* The facts a call may leave. *)
FactSet ==
    {fact \in [kind : {"mutation", "validation", "failure"}, status : Statuses,
               size : Nat \ {0}, key : {None, Command}] :
        /\ fact.kind = "mutation" => fact.key = None
        /\ fact.kind = "validation" => fact.key = Command
        /\ fact.kind = "failure" => fact.status = "failed"}

(* The facts that are kept say of the last run what is known of it: its fact   *)
(* is where it should be, and nothing newer is of the command.                 *)
RunKept(kept, run) ==
    /\ run.newer < Len(kept)
    /\ kept[Len(kept) - run.newer].key = Command
    /\ kept[Len(kept) - run.newer].status = run.status
    /\ \A d \in 0..(run.newer - 1) : kept[Len(kept) - d].key # Command

(* Or that run is forgotten, with every older one.                             *)
Remembered(kept, run) ==
    /\ kept \in Seq(FactSet) /\ Len(kept) <= MaxEvidence
    /\ run.newer \in 0..MaxEvidence
    /\ run.newer = MaxEvidence => \A i \in DOMAIN kept : kept[i].key # Command
    /\ run.newer # MaxEvidence => RunKept(kept, run)

LEMMA EvidenceNumbers ==
    MaxEvidence \in Nat \ {0} /\ MaxMilestones \in Nat \ {0} /\ ViewRoom \in Nat \ {0}
BY EvidenceBounds

(* A function's image is no larger than its domain. *)
LEMMA ImageBound ==
    ASSUME NEW S, IsFiniteSet(S), NEW f, f = [x \in S |-> f[x]]
    PROVE  /\ IsFiniteSet({f[x] : x \in S}) /\ Cardinality({f[x] : x \in S}) \in Nat
           /\ Cardinality({f[x] : x \in S}) <= Cardinality(S)
<1> DEFINE T == {f[x] : x \in S}
<1>1. f \in Surjection(S, T)
  BY DEF Surjection
<1>2. IsFiniteSet(T) /\ Cardinality(T) <= Cardinality(S)
  BY <1>1, FS_Surjection
<1> QED
  BY <1>2, FS_CardinalityType

(* A kind of fact that is there or not. *)
LEMMA OneKind ==
    ASSUME NEW K, NEW kind \in K, NEW kinds, kinds = <<kind>> \/ kinds = <<>>
    PROVE  /\ kinds \in Seq(K) /\ Len(kinds) \in 0..1
           /\ \A i \in 1..Len(kinds) : kinds[i] = kind /\ kinds # <<>>
<1>1. CASE kinds = <<kind>>
  <2>1. <<kind>> \in Seq(K) /\ Len(<<kind>>) = 1 /\ <<kind>>[1] = kind /\ <<kind>> # <<>>
    OBVIOUS
  <2> QED
    BY <1>1, <2>1
<1>2. CASE kinds = <<>>
  <2>1. kinds \in Seq(K) /\ Len(kinds) = 0
    BY <1>2
  <2> QED
    BY <2>1
<1> QED
  BY <1>1, <1>2

(* Where the members of a concatenation come from. *)
LEMMA Joined ==
    ASSUME NEW K, NEW s \in Seq(K), NEW t \in Seq(K)
    PROVE  /\ s \o t \in Seq(K) /\ Len(s \o t) = Len(s) + Len(t)
           /\ Len(s) \in Nat /\ Len(t) \in Nat
           /\ \A i \in 1..Len(s \o t) :
                \/ i \in 1..Len(s) /\ (s \o t)[i] = s[i]
                \/ i - Len(s) \in 1..Len(t) /\ (s \o t)[i] = t[i - Len(s)]
<1>1. /\ s \o t \in Seq(K) /\ Len(s \o t) = Len(s) + Len(t)
      /\ Len(s) \in Nat /\ Len(t) \in Nat
  OBVIOUS
<1>2. ASSUME NEW i \in 1..Len(s \o t)
      PROVE  \/ i \in 1..Len(s) /\ (s \o t)[i] = s[i]
             \/ i - Len(s) \in 1..Len(t) /\ (s \o t)[i] = t[i - Len(s)]
  <2>1. CASE i <= Len(s)
    BY <1>1, <2>1
  <2>2. CASE i > Len(s)
    BY <1>1, <2>2
  <2> QED
    BY <1>1, <2>1, <2>2
<1> QED
  BY <1>1, <1>2

(* What a call leaves are at most three facts. *)
LEMMA FactsAreFacts ==
    ASSUME NEW code, NEW facts \in Facts(code)
    PROVE  Len(facts) \in 0..3 /\ \A i \in 1..Len(facts) : facts[i] \in FactSet
<1>1. CASE facts = <<>>
  BY <1>1
<1>2. ASSUME NEW extract \in Extracts, facts = EvidenceOf(extract)
      PROVE  Len(facts) \in 0..3 /\ \A i \in 1..Len(facts) : facts[i] \in FactSet
  <2> DEFINE kinds == Kinds(extract)
  <2>1. extract.tool \in Tools /\ extract.status \in Statuses /\ extract.size \in Nat \ {0}
    BY <1>2, ExtractAssumption DEF Extraction
  <2>2. /\ kinds \in Seq({"mutation", "validation", "failure"}) /\ Len(kinds) \in 0..3
        /\ \A i \in 1..Len(kinds) :
             \/ kinds[i] = "mutation"
             \/ kinds[i] = "validation" /\ extract.tool = "run_command"
             \/ kinds[i] = "failure" /\ extract.status = "failed"
    <3> DEFINE a == IF Mutates(extract) THEN <<"mutation">> ELSE <<>>
               b == IF extract.tool = "run_command" THEN <<"validation">> ELSE <<>>
               c == IF extract.status = "failed" THEN <<"failure">> ELSE <<>>
               K == {"mutation", "validation", "failure"}
    <3>1. a \in Seq(K) /\ Len(a) \in 0..1 /\ \A i \in 1..Len(a) : a[i] = "mutation"
      <4>1. "mutation" \in K /\ (a = <<"mutation">> \/ a = <<>>)
        OBVIOUS
      <4> HIDE DEF a, K
      <4> QED
        BY <4>1, OneKind
    <3>2. /\ b \in Seq(K) /\ Len(b) \in 0..1
          /\ \A i \in 1..Len(b) : b[i] = "validation" /\ extract.tool = "run_command"
      <4>1. "validation" \in K /\ (b = <<"validation">> \/ b = <<>>)
            /\ (b # <<>> => extract.tool = "run_command")
        OBVIOUS
      <4> HIDE DEF b, K
      <4> QED
        BY <4>1, OneKind
    <3>3. /\ c \in Seq(K) /\ Len(c) \in 0..1
          /\ \A i \in 1..Len(c) : c[i] = "failure" /\ extract.status = "failed"
      <4>1. "failure" \in K /\ (c = <<"failure">> \/ c = <<>>)
            /\ (c # <<>> => extract.status = "failed")
        OBVIOUS
      <4> HIDE DEF c, K
      <4> QED
        BY <4>1, OneKind
    <3>4. kinds = (a \o b) \o c
      BY DEF Kinds
    <3> HIDE DEF a, b, c, K, kinds
    <3> DEFINE ab == a \o b
    <3>5. /\ ab \in Seq(K) /\ Len(ab) = Len(a) + Len(b)
          /\ \A i \in 1..Len(ab) : \/ i \in 1..Len(a) /\ ab[i] = a[i]
                                   \/ i - Len(a) \in 1..Len(b) /\ ab[i] = b[i - Len(a)]
      BY <3>1, <3>2, Joined
    <3>6. kinds = ab \o c
      BY <3>4
    <3> HIDE DEF ab
    <3>7. /\ kinds \in Seq(K) /\ Len(kinds) = Len(ab) + Len(c)
          /\ \A i \in 1..Len(kinds) : \/ i \in 1..Len(ab) /\ kinds[i] = ab[i]
                                      \/ i - Len(ab) \in 1..Len(c) /\ kinds[i] = c[i - Len(ab)]
      BY <3>3, <3>5, <3>6, Joined
    <3>8. Len(kinds) \in 0..3
      BY <3>1, <3>2, <3>3, <3>5, <3>7, SMTT(30)
    <3>9. ASSUME NEW i \in 1..Len(kinds)
          PROVE  \/ kinds[i] = "mutation"
                 \/ kinds[i] = "validation" /\ extract.tool = "run_command"
                 \/ kinds[i] = "failure" /\ extract.status = "failed"
      <4>1. \/ i \in 1..Len(a) /\ kinds[i] = a[i]
            \/ i - Len(a) \in 1..Len(b) /\ kinds[i] = b[i - Len(a)]
            \/ i - Len(ab) \in 1..Len(c) /\ kinds[i] = c[i - Len(ab)]
        BY <3>5, <3>7
      <4> QED
        BY <3>1, <3>2, <3>3, <4>1
    <3> QED
      BY <3>7, <3>8, <3>9 DEF K
  <2> HIDE DEF kinds
  <2>3. facts = [i \in 1..Len(kinds) |-> Fact(kinds[i], extract)]
    <3>1. facts = [i \in DOMAIN kinds |-> Fact(kinds[i], extract)]
      BY <1>2 DEF EvidenceOf, kinds
    <3> QED
      BY <2>2, <3>1
  <2>4. Len(facts) = Len(kinds) /\ \A i \in 1..Len(kinds) : facts[i] = Fact(kinds[i], extract)
    BY <2>2, <2>3
  <2>5. ASSUME NEW i \in 1..Len(kinds) PROVE Fact(kinds[i], extract) \in FactSet
    BY <2>1, <2>2, <2>5 DEF Fact, FactSet, Tools, None, Command
  <2> QED
    BY <2>2, <2>4, <2>5
<1> QED
  BY <1>1, <1>2 DEF Facts

(* The newest fact is kept; the others stay, but for the oldest beyond the limit. *)
LEMMA RecordedAt ==
    ASSUME NEW kept \in Seq(FactSet), Len(kept) <= MaxEvidence, NEW fact \in FactSet
    PROVE  LET r == RecordEvidence(kept, fact) IN
           /\ r \in Seq(FactSet) /\ Len(r) <= MaxEvidence
           /\ Len(r) = IF Len(kept) = MaxEvidence THEN MaxEvidence ELSE Len(kept) + 1
           /\ r[Len(r)] = fact
           /\ \A d \in 1..(Len(r) - 1) : r[Len(r) - d] = kept[Len(kept) - (d - 1)]
<1> DEFINE all == Append(kept, fact)
           n == Len(kept)
           r == RecordEvidence(kept, fact)
<1>1. n \in Nat /\ MaxEvidence \in Nat /\ MaxEvidence >= 1
  BY EvidenceNumbers
<1>2. all \in Seq(FactSet) /\ Len(all) = n + 1 /\ all[n + 1] = fact
      /\ \A i \in 1..n : all[i] = kept[i]
  OBVIOUS
<1> HIDE DEF all
<1>3. CASE n = MaxEvidence
  <2>1. r = Tail(all)
    BY <1>1, <1>2, <1>3 DEF RecordEvidence, all
  <2>2. r \in Seq(FactSet) /\ Len(r) = n /\ \A i \in 1..n : r[i] = all[i + 1]
    BY <1>1, <1>2, <2>1
  <2> HIDE DEF r
  <2>3. \A d \in 1..(Len(r) - 1) : r[Len(r) - d] = kept[Len(kept) - (d - 1)]
    <3> SUFFICES ASSUME NEW d \in 1..(n - 1) PROVE r[n - d] = kept[n - (d - 1)]
      BY <2>2
    <3>1. n - d \in 1..n /\ n - d + 1 \in 1..n /\ n - d + 1 = n - (d - 1)
      BY <1>1
    <3> QED
      BY <1>2, <2>2, <3>1
  <2> QED
    BY <1>1, <1>2, <1>3, <2>2, <2>3 DEF r
<1>4. CASE n # MaxEvidence
  <2>1. r = all
    BY <1>1, <1>2, <1>4 DEF RecordEvidence, all
  <2> HIDE DEF r
  <2>2. \A d \in 1..(Len(r) - 1) : r[Len(r) - d] = kept[Len(kept) - (d - 1)]
    <3> SUFFICES ASSUME NEW d \in 1..n PROVE r[n + 1 - d] = kept[n - (d - 1)]
      BY <1>2, <2>1
    <3>1. n + 1 - d \in 1..n /\ n + 1 - d = n - (d - 1)
      BY <1>1
    <3> QED
      BY <1>2, <2>1, <3>1
  <2> QED
    BY <1>1, <1>2, <1>4, <2>1, <2>2 DEF r
<1> QED
  BY <1>3, <1>4

-----------------------------------------------------------------------------
(* So what is kept remains true of the last run, fact by fact. *)
LEMMA FactStep ==
    ASSUME NEW kept, NEW run, NEW fact \in FactSet, Remembered(kept, run)
    PROVE  Remembered(RecordEvidence(kept, fact), RunAfter(run, fact))
<1> DEFINE r == RecordEvidence(kept, fact)
           after == RunAfter(run, fact)
<1>1. kept \in Seq(FactSet) /\ Len(kept) \in Nat /\ Len(kept) <= MaxEvidence
      /\ MaxEvidence \in Nat /\ MaxEvidence >= 1 /\ run.newer \in 0..MaxEvidence
  BY EvidenceNumbers DEF Remembered
<1>2. /\ r \in Seq(FactSet) /\ Len(r) <= MaxEvidence
      /\ Len(r) = IF Len(kept) = MaxEvidence THEN MaxEvidence ELSE Len(kept) + 1
      /\ r[Len(r)] = fact
      /\ \A d \in 1..(Len(r) - 1) : r[Len(r) - d] = kept[Len(kept) - (d - 1)]
  BY <1>1, RecordedAt
<1> HIDE DEF r
<1>3. CASE fact.key = Command
  <2>1. after = [status |-> fact.status, newer |-> 0]
    BY <1>3 DEF RunAfter
  <2>2. after.newer = 0 /\ after.status = fact.status
    BY <2>1
  <2> HIDE DEF after
  <2>4. RunKept(r, after)
    <3>1. Len(r) \in Nat /\ 0 < Len(r) /\ Len(r) - 0 = Len(r) /\ 0..(0 - 1) = {}
      BY <1>1, <1>2
    <3> QED
      BY <1>2, <1>3, <2>2, <3>1 DEF RunKept
  <2>5. after.newer \in 0..MaxEvidence /\ after.newer # MaxEvidence
    BY <1>1, <2>2
  <2> QED
    BY <1>2, <2>4, <2>5 DEF Remembered, r, after
<1>4. CASE fact.key # Command /\ run.newer = MaxEvidence
  <2>1. after = run
    BY <1>4 DEF RunAfter
  <2>2. \A i \in 1..Len(kept) : kept[i].key # Command
    BY <1>1, <1>4 DEF Remembered
  <2>3. ASSUME NEW i \in 1..Len(r) PROVE r[i].key # Command
    <3>1. CASE i = Len(r)
      BY <1>2, <1>4, <3>1
    <3>2. CASE i # Len(r)
      <4>1. Len(r) \in Nat /\ Len(r) - i \in 1..(Len(r) - 1) /\ Len(r) - (Len(r) - i) = i
        BY <1>1, <1>2, <2>3, <3>2
      <4>2. r[i] = kept[Len(kept) - (Len(r) - i - 1)]
        BY <1>2, <4>1
      <4>3. Len(kept) - (Len(r) - i - 1) \in 1..Len(kept)
        BY <1>1, <1>2, <2>3, <4>1
      <4> QED
        BY <2>2, <4>2, <4>3
    <3> QED
      BY <3>1, <3>2
  <2> HIDE DEF after
  <2>4. DOMAIN r = 1..Len(r)
    BY <1>2
  <2> QED
    BY <1>1, <1>2, <1>4, <2>1, <2>3, <2>4 DEF Remembered, r, after
<1>5. CASE fact.key # Command /\ run.newer # MaxEvidence
  <2> DEFINE k == run.newer
  <2>1. RunKept(kept, run) /\ k \in Nat /\ k < Len(kept) /\ k < MaxEvidence
    BY <1>1, <1>5 DEF Remembered, RunKept
  <2>2. after = [status |-> run.status, newer |-> k + 1]
    BY <1>5 DEF RunAfter
  <2>3. after.status = run.status /\ after.newer = k + 1
    BY <2>2
  <2> HIDE DEF after
  <2>4. CASE k + 1 = MaxEvidence
    <3>1. Len(kept) = MaxEvidence /\ Len(r) = MaxEvidence
      BY <1>1, <1>2, <2>1, <2>4
    <3>2. ASSUME NEW i \in 1..Len(r) PROVE r[i].key # Command
      <4>1. CASE i = Len(r)
        BY <1>2, <1>5, <4>1
      <4>2. CASE i # Len(r)
        <5>1. /\ MaxEvidence - i \in 1..(Len(r) - 1) /\ Len(r) - (MaxEvidence - i) = i
              /\ MaxEvidence - i - 1 \in 0..(k - 1)
          BY <1>1, <2>1, <2>4, <3>1, <3>2, <4>2
        <5>2. r[i] = kept[Len(kept) - (MaxEvidence - i - 1)]
          BY <1>2, <5>1
        <5> QED
          BY <2>1, <5>1, <5>2 DEF RunKept
      <4> QED
        BY <4>1, <4>2
    <3>3. DOMAIN r = 1..Len(r)
      BY <1>2
    <3>4. after.newer \in 0..MaxEvidence /\ after.newer = MaxEvidence
      BY <1>1, <2>1, <2>3, <2>4
    <3> QED
      BY <1>2, <3>2, <3>3, <3>4 DEF Remembered, r, after
  <2>5. CASE k + 1 # MaxEvidence
    <3>1. k + 1 < MaxEvidence /\ k + 1 < Len(r) /\ Len(r) \in Nat
      BY <1>1, <1>2, <2>1, <2>5
    <3>4. r[Len(r) - (k + 1)] = kept[Len(kept) - k]
      <4>1. k + 1 \in 1..(Len(r) - 1) /\ (k + 1) - 1 = k
        BY <2>1, <3>1
      <4> QED
        BY <1>2, <4>1
    <3>5. ASSUME NEW d \in 0..k PROVE r[Len(r) - d].key # Command
      <4>1. CASE d = 0
        BY <1>2, <1>5, <3>1, <4>1
      <4>2. CASE d # 0
        <5>1. d \in 1..(Len(r) - 1) /\ d - 1 \in 0..(k - 1)
          BY <2>1, <3>1, <4>2
        <5> QED
          BY <1>2, <2>1, <5>1 DEF RunKept
      <4> QED
        BY <4>1, <4>2
    <3>6. RunKept(r, after)
      <4>1. (k + 1) - 1 = k
        BY <2>1
      <4> QED
        BY <2>1, <2>3, <3>1, <3>4, <3>5, <4>1 DEF RunKept
    <3>7. after.newer \in 0..MaxEvidence /\ after.newer # MaxEvidence
      BY <1>1, <2>1, <2>3, <3>1, <2>5
    <3> QED
      BY <1>2, <3>6, <3>7 DEF Remembered, r, after
  <2> QED
    BY <2>4, <2>5
<1> QED
  BY <1>3, <1>4, <1>5

(* And so it does over the facts of a call, all of them or the first.          *)
LEMMA FactsStep ==
    ASSUME Remembered(evidence, lastRun), NEW code, RecordAnswer(code)
    PROVE  Remembered(evidence', lastRun')
<1>1. PICK facts \in Facts(code) : \E n \in 0..Len(facts) : RecordFacts(facts, n)
  BY DEF RecordAnswer
<1>2. PICK n \in 0..Len(facts) : RecordFacts(facts, n)
  BY <1>1
<1>3. Len(facts) \in 0..3 /\ \A i \in 1..Len(facts) : facts[i] \in FactSet
  BY FactsAreFacts
<1>4. CASE n = 0
  BY <1>2, <1>4 DEF RecordFacts, OneByOne
<1>5. CASE n = 1
  <2>1. facts[1] \in FactSet
    BY <1>3, <1>5
  <2> QED
    BY <1>2, <1>5, <2>1, FactStep DEF RecordFacts, OneByOne
<1> DEFINE e1 == RecordEvidence(evidence, facts[1])
           r1 == RunAfter(lastRun, facts[1])
           e2 == RecordEvidence(e1, facts[2])
           r2 == RunAfter(r1, facts[2])
<1>6. ASSUME n \in {2, 3} PROVE Remembered(e2, r2)
  <2>1. facts[1] \in FactSet /\ facts[2] \in FactSet
    BY <1>3, <1>6
  <2>2. Remembered(e1, r1)
    BY <2>1, FactStep
  <2> HIDE DEF e1, r1
  <2> QED
    BY <2>1, <2>2, FactStep DEF e2, r2
<1>7. CASE n = 2
  BY <1>2, <1>6, <1>7 DEF RecordFacts, OneByOne
<1>8. CASE n = 3
  <2>1. facts[3] \in FactSet
    BY <1>3, <1>8
  <2>2. evidence' = RecordEvidence(e2, facts[3]) /\ lastRun' = RunAfter(r2, facts[3])
    BY <1>2, <1>8 DEF RecordFacts, OneByOne
  <2>3. Remembered(e2, r2)
    BY <1>6, <1>8
  <2> HIDE DEF e2, r2
  <2> QED
    BY <2>1, <2>2, <2>3, FactStep
<1> QED
  BY <1>3, <1>4, <1>5, <1>7, <1>8
-----------------------------------------------------------------------------
(* An item is of a fact or of a step. *)
LEMMA ItemOf ==
    ASSUME NEW item \in Projected
    PROVE  \/ /\ item \in [priority : OfFacts, at : DOMAIN evidence]
              /\ FactProjected(item.priority, item.at)
           \/ /\ item \in [priority : OfSteps, at : DOMAIN plan]
              /\ StepProjected(item.priority, item.at)
BY Zenon DEF Projected

(* There are finitely many items. *)
LEMMA ProjectedFinite ==
    ASSUME evidence \in Seq(FactSet), plan \in Payloads \cup {NoPlan}
    PROVE  IsFiniteSet(Projected)
<1> DEFINE P == OfFacts \cup OfSteps
           A == DOMAIN evidence \cup DOMAIN plan
           f == [x \in P \X A |-> [priority |-> x[1], at |-> x[2]]]
           T == {f[x] : x \in P \X A}
<1>1. IsFiniteSet(P)
  <2>1. P \subseteq 0..8
    BY DEF OfFacts, OfSteps
  <2>2. 0 \in Int /\ 8 \in Int
    OBVIOUS
  <2>3. IsFiniteSet(0..8)
    BY <2>2, FS_Interval
  <2> QED
    BY <2>1, <2>3, FS_Subset
<1>2. IsFiniteSet(A)
  <2>1. DOMAIN evidence = 1..Len(evidence) /\ Len(evidence) \in Nat
    OBVIOUS
  <2>2. plan \in Seq([status : StepStatus, size : Nat \ {0}]) \/ plan = NoPlan
    BY PayloadAssumption
  <2>3. DOMAIN plan = 1..Len(plan) /\ Len(plan) \in Nat
    BY <2>2 DEF NoPlan
  <2>4. IsFiniteSet(1..Len(evidence)) /\ IsFiniteSet(1..Len(plan))
    BY <2>1, <2>3, FS_Interval
  <2> QED
    BY <2>1, <2>3, <2>4, FS_Union
<1>3. IsFiniteSet(P \X A)
  BY <1>1, <1>2, FS_Product
<1>4. f = [x \in P \X A |-> f[x]]
  OBVIOUS
<1>5. IsFiniteSet(T)
  <2> DEFINE S == P \X A
  <2>1. IsFiniteSet(S) /\ f = [x \in S |-> f[x]]
    BY <1>3, <1>4
  <2> HIDE DEF f, S
  <2>2. IsFiniteSet({f[x] : x \in S})
    BY <2>1, ImageBound
  <2> QED
    BY <2>2 DEF S
<1>6. ASSUME NEW item \in Projected PROVE item \in T
  <2>1. item.priority \in P /\ item.at \in A /\ item = [priority |-> item.priority, at |-> item.at]
    <3>1. \/ item \in [priority : OfFacts, at : DOMAIN evidence]
          \/ item \in [priority : OfSteps, at : DOMAIN plan]
      BY ItemOf
    <3>2. ASSUME NEW Q, NEW B, item \in [priority : Q, at : B]
          PROVE  /\ item.priority \in Q /\ item.at \in B
                 /\ item = [priority |-> item.priority, at |-> item.at]
      BY <3>2
    <3>3. /\ item.priority \in P /\ item.at \in A
      BY <3>1, <3>2
    <3>4. item = [priority |-> item.priority, at |-> item.at]
      BY <3>1, <3>2
    <3> QED
      BY <3>3, <3>4
  <2>2. <<item.priority, item.at>> \in P \X A /\ f[<<item.priority, item.at>>] = item
    BY <2>1
  <2> QED
    BY <2>2
<1>7. Projected \in SUBSET T
  BY <1>6
<1> QED
  BY <1>5, <1>7, FS_Subset

(* A set of natural numbers has a least element. *)
LEMMA LeastOf ==
    ASSUME NEW T \in SUBSET Nat, T # {}
    PROVE  \E x \in T : \A y \in T : x <= y
<1>1. PICK x \in T : \A y \in T : ~ (<<y, x>> \in OpToRel(<, Nat))
  BY WFMin, NatLessThanWellFounded
<1>2. \A y \in T : ~(y < x)
  BY <1>1 DEF OpToRel
<1> QED
  BY <1>2

(* What a view has taken up to each place. *)
FilledTo(filled, sorted, last) ==
    filled = [place \in 0..last |->
                 IF place = 0 THEN {} ELSE FillAt(filled[place - 1], sorted, place)]

LEMMA FilledExists ==
    ASSUME NEW sorted, NEW last \in Nat
    PROVE  \E filled : FilledTo(filled, sorted, last)
<1> DEFINE T == {m \in Nat : ~ \E filled : FilledTo(filled, sorted, m)}
<1> SUFFICES ASSUME T # {} PROVE FALSE
  OBVIOUS
<1>1. PICK m \in T : \A y \in T : m <= y
  <2>1. T \in SUBSET Nat
    OBVIOUS
  <2> HIDE DEF T
  <2> QED
    BY <2>1, LeastOf
<1>2. m \in Nat /\ ~ \E filled : FilledTo(filled, sorted, m)
  OBVIOUS
<1>3. CASE m = 0
  <2>1. FilledTo([place \in 0..0 |-> {}], sorted, 0)
    BY DEF FilledTo
  <2> QED
    BY <1>2, <1>3, <2>1
<1>4. CASE m # 0
  <2>1. m - 1 \in Nat /\ m - 1 \notin T
    BY <1>1, <1>2, <1>4
  <2>2. PICK before : FilledTo(before, sorted, m - 1)
    BY <2>1
  <2> DEFINE filled == [place \in 0..m |->
                           IF place = m THEN FillAt(before[m - 1], sorted, m) ELSE before[place]]
  <2>3. ASSUME NEW place \in 0..m
        PROVE  filled[place] = IF place = 0 THEN {} ELSE FillAt(filled[place - 1], sorted, place)
    <3>1. CASE place = m
      <4>1. filled[place - 1] = before[m - 1]
        BY <1>2, <1>4, <3>1
      <4> QED
        BY <1>4, <3>1, <4>1
    <3>2. CASE place # m
      <4>1. place \in 0..(m - 1) /\ filled[place] = before[place]
        BY <1>2, <3>2
      <4>2. place # 0 => filled[place - 1] = before[place - 1]
        BY <1>2, <3>2
      <4>3. before[place] = IF place = 0 THEN {} ELSE FillAt(before[place - 1], sorted, place)
        BY <2>2, <4>1 DEF FilledTo
      <4> QED
        BY <4>1, <4>2, <4>3
    <3> QED
      BY <3>1, <3>2
  <2>4. filled = [place \in 0..m |-> filled[place]]
    OBVIOUS
  <2> HIDE DEF filled
  <2>5. FilledTo(filled, sorted, m)
    BY <2>3, <2>4 DEF FilledTo
  <2> QED
    BY <1>2, <2>5
<1> QED
  BY <1>3, <1>4

LEMMA ViewIsFilled ==
    ASSUME evidence \in Seq(FactSet), Len(plan) \in Nat
    PROVE  /\ Width \in Nat /\ Width > Len(evidence)
           /\ \E filled : /\ FilledTo(filled, Sorted(Projected), 9 * Width)
                          /\ View = filled[9 * Width]
<1>1. Width \in Nat /\ Width > Len(evidence)
  BY DEF Width
<1> DEFINE filled == CHOOSE f : FilledTo(f, Sorted(Projected), 9 * Width)
<1>2. FilledTo(filled, Sorted(Projected), 9 * Width)
  <2>1. 9 * Width \in Nat
    BY <1>1
  <2> QED
    BY <2>1, FilledExists
<1>3. View = filled[9 * Width]
  BY DEF View, FilledTo
<1> QED
  BY <1>1, <1>2, <1>3

(* Every place of the order has the one item that belongs there. *)
LEMMA SortedItems ==
    /\ \A place \in DOMAIN Sorted(Projected) :
         Sorted(Projected)[place] \in Projected /\ Place(Sorted(Projected)[place]) = place
    /\ \A item \in Projected : Place(item) \in DOMAIN Sorted(Projected)
<1> DEFINE P == Projected
<1> HIDE DEF P
<1>1. ASSUME NEW place \in {Place(item) : item \in P}
      PROVE  Sorted(P)[place] \in P /\ Place(Sorted(P)[place]) = place
  <2>1. Sorted(P)[place] = CHOOSE item \in P : Place(item) = place
    BY <1>1 DEF Sorted
  <2>2. \E item \in P : Place(item) = place
    BY <1>1
  <2> QED
    BY <2>1, <2>2
<1>2. DOMAIN Sorted(P) = {Place(item) : item \in P}
  BY DEF Sorted
<1> QED
  BY <1>1, <1>2 DEF P

(* What a view has taken are items up to the place it has come to. *)
LEMMA FilledItems ==
    ASSUME NEW filled, NEW last \in Nat, FilledTo(filled, Sorted(Projected), last),
           NEW n \in 0..last
    PROVE  \A item \in filled[n] : item \in Projected /\ Place(item) \in 1..n
<1> DEFINE Q(m) == \A item \in filled[m] : item \in Projected /\ Place(item) \in 1..m
           T == {m \in 0..last : ~Q(m)}
<1> SUFFICES ASSUME T # {} PROVE FALSE
  OBVIOUS
<1>1. PICK m \in T : \A y \in T : m <= y
  <2>1. T \in SUBSET Nat
    OBVIOUS
  <2> HIDE DEF T
  <2> QED
    BY <2>1, LeastOf
<1>2. m \in 0..last /\ ~Q(m)
  OBVIOUS
<1>3. filled[m] = IF m = 0 THEN {} ELSE FillAt(filled[m - 1], Sorted(Projected), m)
  BY <1>2 DEF FilledTo
<1>4. CASE m = 0
  BY <1>2, <1>3, <1>4
<1>5. CASE m # 0
  <2>1. m - 1 \in 0..last /\ Q(m - 1)
    <3>1. m - 1 \in 0..last /\ ~(m <= m - 1)
      BY <1>2, <1>5
    <3> QED
      BY <1>1, <3>1
  <2>2. ASSUME NEW item \in filled[m] PROVE item \in Projected /\ Place(item) \in 1..m
    <3>1. \/ item \in filled[m - 1]
          \/ m \in DOMAIN Sorted(Projected) /\ item = Sorted(Projected)[m]
      BY <1>3, <1>5, <2>2 DEF FillAt, Fill
    <3>2. CASE item \in filled[m - 1]
      BY <1>2, <1>5, <2>1, <3>2
    <3>3. CASE m \in DOMAIN Sorted(Projected) /\ item = Sorted(Projected)[m]
      <4>1. m \in 1..m
        BY <1>2, <1>5
      <4> QED
        BY <3>3, <4>1, SortedItems
    <3> QED
      BY <3>1, <3>2, <3>3
  <2> QED
    BY <1>2, <2>2
<1> QED
  BY <1>4, <1>5

(* What it has taken it keeps. *)
LEMMA FilledGrows ==
    ASSUME NEW filled, NEW sorted, NEW last \in Nat, FilledTo(filled, sorted, last),
           NEW n \in 0..last
    PROVE  filled[n] \subseteq filled[last]
<1> DEFINE T == {m \in 0..last : n <= m /\ ~(filled[n] \subseteq filled[m])}
<1> SUFFICES ASSUME T # {} PROVE FALSE
  OBVIOUS
<1>1. PICK m \in T : \A y \in T : m <= y
  <2>1. T \in SUBSET Nat
    OBVIOUS
  <2> HIDE DEF T
  <2> QED
    BY <2>1, LeastOf
<1>2. m \in 0..last /\ n <= m /\ ~(filled[n] \subseteq filled[m]) /\ m # n
  OBVIOUS
<1>3. m - 1 \in 0..last /\ n <= m - 1 /\ m # 0
  BY <1>2
<1>4. m - 1 \notin T
  BY <1>1, <1>2
<1>5. filled[n] \subseteq filled[m - 1]
  BY <1>3, <1>4
<1>6. filled[m] = FillAt(filled[m - 1], sorted, m)
  BY <1>2, <1>3 DEF FilledTo
<1>7. filled[m - 1] \subseteq filled[m]
  BY <1>6 DEF FillAt, Fill
<1> QED
  BY <1>2, <1>5, <1>7

(* Fewer lines take no more room. *)
LEMMA TakenLess ==
    ASSUME NEW B, IsFiniteSet(B), \A item \in B : SizeOf(item) \in Nat, NEW A \in SUBSET B
    PROVE  Taken(A) \in Nat /\ Taken(B) \in Nat /\ Taken(A) <= Taken(B)
<1> DEFINE f == [item \in B |-> {item} \X (1..SizeOf(item))]
           T == {f[item] : item \in B}
           a == UNION {{item} \X (1..SizeOf(item)) : item \in A}
           b == UNION {{item} \X (1..SizeOf(item)) : item \in B}
<1>1. IsFiniteSet(T)
  <2>1. f = [item \in B |-> f[item]]
    OBVIOUS
  <2> HIDE DEF f
  <2> QED
    BY <2>1, ImageBound
<1>2. \A s \in T : IsFiniteSet(s)
  <2> SUFFICES ASSUME NEW item \in B PROVE IsFiniteSet({item} \X (1..SizeOf(item)))
    OBVIOUS
  <2>1. 1 \in Int /\ SizeOf(item) \in Int
    OBVIOUS
  <2>2. IsFiniteSet({item}) /\ IsFiniteSet(1..SizeOf(item))
    BY <2>1, FS_Singleton, FS_Interval
  <2> QED
    BY <2>2, FS_Product
<1>3. b = UNION T
  OBVIOUS
<1>4. IsFiniteSet(b)
  <2> HIDE DEF T
  <2> QED
    BY <1>1, <1>2, <1>3, FS_UNION
<1>5. a \in SUBSET b
  OBVIOUS
<1>6. Taken(A) = Cardinality(a) /\ Taken(B) = Cardinality(b)
  BY DEF Taken
<1> HIDE DEF a, b
<1>7. IsFiniteSet(a) /\ Cardinality(a) <= Cardinality(b)
  BY <1>4, <1>5, FS_Subset
<1>8. Cardinality(a) \in Nat /\ Cardinality(b) \in Nat
  BY <1>4, <1>7, FS_CardinalityType
<1> QED
  BY <1>6, <1>7, <1>8

(* The failures come first, the newest of them before the others. *)
LEMMA FirstPlaces ==
    ASSUME evidence \in Seq(FactSet), Len(plan) \in Nat, NEW item \in Projected,
           Place(item) < Width
    PROVE  /\ item.priority = 0 /\ item.at \in 1..Len(evidence)
           /\ Place(item) = Len(evidence) - item.at + 1
           /\ item = [priority |-> 0, at |-> item.at]
<1> DEFINE n == Len(evidence)
           w == Width
           r == IF item.priority \in OfSteps THEN item.at ELSE n - item.at + 1
<1>1. n \in Nat /\ DOMAIN evidence = 1..n /\ DOMAIN plan = 1..Len(plan)
      /\ w = n + Len(plan) + 1
  BY DEF Width
<1>2. \/ item \in [priority : OfFacts, at : 1..n]
      \/ item \in [priority : OfSteps, at : 1..Len(plan)]
  BY <1>1, ItemOf
<1>3. item.priority \in {0, 1, 2, 3, 4, 5, 8} /\ r \in Nat /\ r >= 1
  <2>1. CASE item \in [priority : OfFacts, at : 1..n]
    BY <1>1, <2>1 DEF OfFacts, OfSteps
  <2>2. CASE item \in [priority : OfSteps, at : 1..Len(plan)]
    BY <1>1, <2>2 DEF OfFacts, OfSteps
  <2> QED
    BY <1>2, <2>1, <2>2
<1>4. Place(item) = item.priority * w + r
  BY DEF Place
<1> HIDE DEF r, w, n
<1>5. w \in Nat /\ Place(item) < w
  BY <1>1 DEF w
<1>6. item.priority = 0
  <2> DEFINE p == item.priority
  <2>1. CASE p = 1
    BY <1>3, <1>4, <1>5, <2>1
  <2>2. CASE p = 2
    BY <1>3, <1>4, <1>5, <2>2
  <2>3. CASE p = 3
    BY <1>3, <1>4, <1>5, <2>3
  <2>4. CASE p = 4
    BY <1>3, <1>4, <1>5, <2>4
  <2>5. CASE p = 5
    BY <1>3, <1>4, <1>5, <2>5
  <2>6. CASE p = 8
    BY <1>3, <1>4, <1>5, <2>6
  <2> QED
    BY <1>3, <2>1, <2>2, <2>3, <2>4, <2>5, <2>6
<1>7. item \in [priority : OfFacts, at : 1..n]
  BY <1>2, <1>6 DEF OfSteps
<1>8. item.at \in 1..n /\ item = [priority |-> item.priority, at |-> item.at]
  BY <1>7
<1>9. Place(item) = n - item.at + 1
  <2>1. r = n - item.at + 1
    BY <1>6 DEF r, n, OfSteps
  <2> QED
    BY <1>1, <1>4, <1>5, <1>6, <1>8, <2>1
<1> QED
  BY <1>6, <1>8, <1>9 DEF n

(* So a failure is shown, if its line fits with those of the newer ones. *)
LEMMA FailureFits ==
    ASSUME evidence \in Seq(FactSet), plan \in Payloads \cup {NoPlan},
           NEW p \in 1..Len(evidence), NEW first, first = [priority |-> 0, at |-> p],
           first \in Projected, NEW B, B = {x \in Projected : x.priority = 0 /\ x.at >= p},
           Taken(B) <= ViewRoom
    PROVE  first \in View
<1> DEFINE n == Len(evidence)
           d == n - p + 1
           sorted == Sorted(Projected)
<1>1. n \in Nat /\ p \in 1..n /\ d \in 1..n /\ Len(plan) \in Nat /\ ViewRoom \in Nat
  <2>1. plan \in Seq([status : StepStatus, size : Nat \ {0}]) \/ plan = NoPlan
    BY PayloadAssumption
  <2>2. Len(plan) \in Nat
    BY <2>1 DEF NoPlan
  <2> QED
    BY <2>2, EvidenceNumbers
<1>2. Width \in Nat /\ Width > n
  BY <1>1, ViewIsFilled
<1>3. PICK filled : FilledTo(filled, sorted, 9 * Width) /\ View = filled[9 * Width]
  BY <1>1, ViewIsFilled
<1> DEFINE last == 9 * Width
<1>4. last \in Nat /\ d \in 0..last /\ d - 1 \in 0..last /\ d # 0 /\ d < Width
  BY <1>1, <1>2
<1>5. Place(first) = d
  <2>1. first.priority = 0 /\ first.at = p /\ 0 * Width = 0
    BY <1>2
  <2> QED
    BY <1>1, <2>1 DEF Place, OfSteps
<1> HIDE DEF last, d, sorted
<1>6. d \in DOMAIN sorted /\ sorted[d] = first
  <2>1. d \in DOMAIN sorted /\ sorted[d] \in Projected /\ Place(sorted[d]) = d
    BY <1>5, SortedItems DEF sorted
  <2>2. /\ sorted[d].at \in 1..n /\ d = n - sorted[d].at + 1
        /\ sorted[d] = [priority |-> 0, at |-> sorted[d].at]
    BY <1>1, <1>4, <2>1, FirstPlaces
  <2>3. sorted[d].at = p
    BY <1>1, <2>2 DEF d
  <2> QED
    BY <2>1, <2>2, <2>3
<1>7. filled[d - 1] \cup {first} \in SUBSET B
  <2>1. ASSUME NEW item \in filled[d - 1] PROVE item \in B
    <3>1. item \in Projected /\ Place(item) \in 1..(d - 1)
      BY <1>3, <1>4, FilledItems DEF last, sorted
    <3>2. Place(item) < Width
      BY <1>1, <1>2, <1>4, <3>1 DEF d
    <3>3. item.priority = 0 /\ item.at \in 1..n /\ Place(item) = n - item.at + 1
      BY <1>1, <3>1, <3>2, FirstPlaces
    <3>4. item.at >= p
      BY <1>1, <3>1, <3>3 DEF d
    <3> QED
      BY <3>1, <3>3, <3>4
  <2>2. first.priority = 0 /\ first.at = p /\ p >= p
    BY <1>1
  <2> QED
    BY <2>1, <2>2
<1>8. Taken(filled[d - 1] \cup {first}) <= ViewRoom
  <2>1. IsFiniteSet(B)
    <3>1. B \in SUBSET Projected
      OBVIOUS
    <3> QED
      BY <3>1, ProjectedFinite, FS_Subset
  <2>2. ASSUME NEW item \in B PROVE SizeOf(item) \in Nat
    <3>1. item \in Projected /\ item.priority = 0
      BY <2>2
    <3>2. item \in [priority : OfFacts, at : DOMAIN evidence]
      BY <3>1, ItemOf DEF OfSteps
    <3>3. evidence[item.at] \in FactSet
      BY <3>2
    <3> QED
      BY <3>1, <3>3 DEF SizeOf, OfSteps, FactSet
  <2> DEFINE A == filled[d - 1] \cup {first}
  <2>3. A \in SUBSET B
    BY <1>7
  <2> HIDE DEF A
  <2>4. Taken(A) \in Nat /\ Taken(B) \in Nat /\ Taken(A) <= Taken(B)
    BY <2>1, <2>2, <2>3, TakenLess
  <2> QED
    BY <1>1, <2>4 DEF A
<1>9. filled[d] = FillAt(filled[d - 1], sorted, d)
  BY <1>3, <1>4 DEF FilledTo, last
<1>10. first \in filled[d]
  BY <1>6, <1>8, <1>9 DEF FillAt, Fill
<1>11. filled[d] \subseteq filled[last]
  BY <1>3, <1>4, FilledGrows DEF last
<1> QED
  BY <1>3, <1>10, <1>11 DEF last

LEMMA ViewInside ==
    ASSUME evidence \in Seq(FactSet), Len(plan) \in Nat
    PROVE  View \subseteq Projected
<1>1. Width \in Nat
  BY ViewIsFilled
<1>2. PICK filled : FilledTo(filled, Sorted(Projected), 9 * Width) /\ View = filled[9 * Width]
  BY ViewIsFilled
<1>3. 9 * Width \in Nat /\ 9 * Width \in 0..(9 * Width)
  BY <1>1
<1> QED
  BY <1>2, <1>3, FilledItems

(* The newest fact of the command, when its last run failed, is an unresolved  *)
(* failure.                                                                    *)
LEMMA LastFailure ==
    ASSUME Remembered(evidence, lastRun), lastRun.status = "failed",
           lastRun.newer # MaxEvidence
    PROVE  LET p == Len(evidence) - lastRun.newer
               item == [priority |-> 0, at |-> p] IN
           /\ p \in DOMAIN evidence /\ item \in Projected
           /\ Key(evidence[p]) = Command /\ IsFailure(evidence[p])
<1> DEFINE n == Len(evidence)
           k == lastRun.newer
           p == n - k
           item == [priority |-> 0, at |-> p]
<1>1. /\ evidence \in Seq(FactSet) /\ n \in Nat /\ DOMAIN evidence = 1..n
      /\ k \in Nat /\ k < n /\ RunKept(evidence, lastRun)
  BY EvidenceNumbers DEF Remembered, RunKept
<1>2. p \in 1..n /\ evidence[p] \in FactSet
  BY <1>1
<1>3. evidence[p].key = Command /\ evidence[p].status = "failed"
  BY <1>1 DEF RunKept
<1>4. Key(evidence[p]) = Command /\ IsFailure(evidence[p])
  BY <1>2, <1>3 DEF Key, IsFailure, FactSet, None, Command
<1>5. ASSUME NEW i \in 1..n, i > p
      PROVE  evidence[i] \in FactSet /\ evidence[i].key # Command /\ Key(evidence[i]) # Command
             /\ n - i \in 0..(k - 1) /\ n - (n - i) = i
  <2>1. n - i \in 0..(k - 1) /\ n - (n - i) = i
    BY <1>1, <1>5
  <2>2. evidence[i].key # Command
    BY <1>1, <2>1 DEF RunKept
  <2>3. evidence[i] \in FactSet
    BY <1>1
  <2> QED
    BY <2>1, <2>2, <2>3 DEF Key, None, Command
<1>6. Command \notin Resolved
  <2> SUFFICES ASSUME NEW i \in DOMAIN evidence, IsNewest(i), IsSuccess(evidence[i]),
                      Key(evidence[i]) = Command
               PROVE  FALSE
    BY DEF Resolved
  <2>1. CASE i < p
    BY <1>1, <1>2, <1>4, <2>1 DEF IsNewest
  <2>2. CASE i > p
    BY <1>1, <1>5, <2>2
  <2>3. CASE i = p
    BY <1>3, <2>3 DEF IsSuccess
  <2> QED
    BY <1>1, <1>2, <2>1, <2>2, <2>3
<1> HIDE DEF n, k, p
<1>7. item \in Projected
  <2>1. FactProjected(0, p)
    BY <1>4, <1>6 DEF FactProjected
  <2>2. item \in [priority : OfFacts, at : DOMAIN evidence] /\ item.priority = 0 /\ item.at = p
    BY <1>1, <1>2 DEF OfFacts
  <2> HIDE DEF item
  <2> QED
    BY <2>1, <2>2 DEF Projected
<1> QED
  BY <1>1, <1>2, <1>4, <1>7 DEF p, n, k
-----------------------------------------------------------------------------
(* No operation is awaited but at these places. *)
Awaited == pc \notin {"assembling", "streaming", "executing", "ended"} => OpDone

(* The plan is the one the model was told of, or its result is on the way.     *)
PlanInv ==
    /\ {plan, told} \subseteq Payloads \cup {NoPlan} /\ planned \in BOOLEAN
    /\ ~planned => plan = told
    /\ planned => pc \in {"executing", "record", "ended"}

EvidenceInv == TurnInv /\ Awaited /\ PlanInv /\ Remembered(evidence, lastRun)

(* An item of the view that is of the command is of a fact of it. *)
LEMMA ShownFact ==
    ASSUME Remembered(evidence, lastRun), NEW item \in Projected, item.priority \in OfFacts,
           Key(evidence[item.at]) = Command
    PROVE  /\ item.at \in DOMAIN evidence /\ evidence[item.at] \in FactSet
           /\ evidence[item.at].key = Command /\ FactProjected(item.priority, item.at)
<1>1. item.at \in DOMAIN evidence /\ FactProjected(item.priority, item.at)
  <2>1. \A x \in [priority : OfSteps, at : DOMAIN plan] : x.priority \in OfSteps
    OBVIOUS
  <2>2. OfFacts \cap OfSteps = {}
    BY DEF OfFacts, OfSteps
  <2> QED
    BY <2>1, <2>2, ItemOf
<1>2. evidence[item.at] \in FactSet
  BY <1>1 DEF Remembered
<1>3. evidence[item.at].key = Command
  BY DEF Key, None, Command
<1> QED
  BY <1>1, <1>2, <1>3

(* A run that succeeded resolves the failures before it. *)
LEMMA SuccessIsNewest ==
    ASSUME Remembered(evidence, lastRun), lastRun.status = "success",
           NEW i \in DOMAIN evidence, evidence[i].key = Command, IsFailure(evidence[i])
    PROVE  Command \in Resolved /\ ~FactProjected(1, i)
<1> DEFINE n == Len(evidence)
           p == n - lastRun.newer
<1>1. /\ evidence \in Seq(FactSet) /\ n \in Nat /\ DOMAIN evidence = 1..n
      /\ lastRun.newer \in Nat /\ lastRun.newer < n /\ RunKept(evidence, lastRun)
  BY EvidenceNumbers DEF Remembered, RunKept
<1>2. p \in 1..n /\ evidence[p] \in FactSet /\ evidence[p].key = Command
      /\ evidence[p].status = "success"
  BY <1>1 DEF RunKept
<1>3. evidence[p].kind = "validation" /\ Key(evidence[p]) = Command /\ IsSuccess(evidence[p])
  BY <1>2 DEF FactSet, Key, IsSuccess, None, Command
<1>4. ASSUME NEW j \in 1..n, j > p PROVE evidence[j].key # Command /\ Key(evidence[j]) # Command
  <2>1. n - j \in 0..(lastRun.newer - 1) /\ n - (n - j) = j
    BY <1>1, <1>4
  <2>2. evidence[j].key # Command
    BY <1>1, <2>1 DEF RunKept
  <2> QED
    BY <2>2 DEF Key, None, Command
<1>5. IsNewest(p)
  BY <1>1, <1>3, <1>4 DEF IsNewest
<1>6. Command \in Resolved
  BY <1>1, <1>2, <1>3, <1>5 DEF Resolved, None, Command
<1>7. i # p
  <2>1. evidence[p].kind # "failure" /\ evidence[p].status # "failed"
    BY <1>2, <1>3
  <2> QED
    BY <2>1 DEF IsFailure
<1>8. i < p
  BY <1>1, <1>2, <1>4, <1>7
<1>9. ~FactProjected(1, i)
  <2> SUFFICES ASSUME evidence[i].kind = "validation", LatestValidation(i) PROVE FALSE
    BY DEF FactProjected
  <2>1. Key(evidence[i]) = Command
    BY DEF Key
  <2> QED
    BY <1>1, <1>2, <1>3, <1>8, <2>1 DEF LatestValidation
<1> QED
  BY <1>6, <1>9

(* What the next request shows of the last run of the command and of the plan. *)
LEMMA ToldByEvidence == EvidenceInv => TaskStateTold
<1> SUFFICES ASSUME EvidenceInv PROVE TaskStateTold
  OBVIOUS
<1>1. /\ Remembered(evidence, lastRun) /\ PlanInv /\ evidence \in Seq(FactSet)
      /\ plan \in Payloads \cup {NoPlan}
      /\ lastRun.newer \in 0..MaxEvidence /\ MaxEvidence \in Nat
  BY EvidenceNumbers DEF EvidenceInv, Remembered, PlanInv
<1> DEFINE p == Len(evidence) - lastRun.newer
           first == [priority |-> 0, at |-> p]
<1>2. ASSUME lastRun.status = "failed", lastRun.newer # MaxEvidence
      PROVE  /\ p \in DOMAIN evidence /\ first \in Projected
             /\ Key(evidence[p]) = Command /\ IsFailure(evidence[p])
  BY <1>1, <1>2, LastFailure
<1>3. first.priority = 0 /\ first.at = p /\ 0 \in OfFacts
  BY DEF OfFacts
<1>4. ASSUME lastRun.status = "failed", lastRun.newer < MaxEvidence,
             Taken(LastFailures) <= ViewRoom
      PROVE  Shows(View, IsFailure)
  <2>1. lastRun.newer # MaxEvidence
    BY <1>1, <1>4
  <2>2. /\ p \in DOMAIN evidence /\ first \in Projected
        /\ Key(evidence[p]) = Command /\ IsFailure(evidence[p])
    BY <1>2, <1>4, <2>1
  <2>3. LastFailures = {x \in Projected : x.priority = 0 /\ x.at >= p}
    BY DEF LastFailures
  <2>4. p \in 1..Len(evidence) /\ first = [priority |-> 0, at |-> p]
    BY <1>1, <2>2
  <2> HIDE DEF p, first
  <2>5. first \in View
    BY <1>1, <1>4, <2>2, <2>3, <2>4, FailureFits
  <2> QED
    BY <1>3, <2>2, <2>5 DEF Shows
<1> HIDE DEF p, first
<1>5. View \subseteq Projected
  <2>1. plan \in Seq([status : StepStatus, size : Nat \ {0}]) \/ plan = NoPlan
    BY <1>1, PayloadAssumption
  <2>2. Len(plan) \in Nat
    BY <2>1 DEF NoPlan
  <2> QED
    BY <1>1, <2>2, ViewInside
<1>6. ASSUME lastRun.status = "success", Shows(View, IsFailure) PROVE FALSE
  <2>1. PICK item \in View : /\ item.priority \in OfFacts
                             /\ Key(evidence[item.at]) = Command /\ IsFailure(evidence[item.at])
    BY <1>6 DEF Shows
  <2>2. item \in Projected
    BY <1>5, <2>1
  <2>3. /\ item.at \in DOMAIN evidence /\ evidence[item.at] \in FactSet
        /\ evidence[item.at].key = Command /\ FactProjected(item.priority, item.at)
    BY <1>1, <2>1, <2>2, ShownFact
  <2>4. Command \in Resolved /\ ~FactProjected(1, item.at)
    BY <1>1, <1>6, <2>1, <2>3, SuccessIsNewest
  <2>5. evidence[item.at].kind # "mutation"
        /\ (IsSuccess(evidence[item.at]) => evidence[item.at].kind # "validation")
    BY <2>1, <2>3 DEF FactSet, IsSuccess, IsFailure, None, Command
  <2> QED
    BY <2>1, <2>3, <2>4, <2>5 DEF FactProjected
<1>7. ASSUME lastRun.newer = MaxEvidence, Shows(View, IsSuccess) PROVE FALSE
  <2>1. PICK item \in View : item.priority \in OfFacts /\ Key(evidence[item.at]) = Command
    BY <1>7 DEF Shows
  <2>2. item.at \in DOMAIN evidence /\ evidence[item.at].key = Command
    BY <1>1, <1>5, <2>1, ShownFact
  <2> QED
    BY <1>1, <1>7, <2>2 DEF Remembered
<1>8. pc \in {"loop", "assembling", "streaming"} => plan = told
  BY <1>1 DEF PlanInv
<1> QED
  BY <1>1, <1>4, <1>6, <1>7, <1>8 DEF TaskStateTold
-----------------------------------------------------------------------------
(* Every step of the Turn with its task state is a step of the Turn.           *)
LEMMA StepRefines == [ENext]_evars => [Next]_vars
<1>1. CASE ToolEnds
  BY <1>1 DEF ToolEnds, Next
<1>2. CASE RecordResult
  BY <1>2 DEF RecordResult, Next, BatchStep, Lost
<1>3. CASE AbortResult
  BY <1>3 DEF AbortResult, AbortStep, Next, BatchStep
<1>4. CASE OtherStep
  BY <1>4 DEF OtherStep, Next, BatchStep, Lost
<1>5. CASE UNCHANGED evars
  BY <1>5 DEF evars
<1> QED
  BY <1>1, <1>2, <1>3, <1>4, <1>5 DEF ENext

(* A wait that answers has ended its operation. *)
LEMMA AnsweredIsDone == TurnInv /\ WaitAnswers => OpDone
BY DEF TurnInv, OpInv, WaitAnswers, Kept, OpDone

LEMMA AwaitedStep == TurnInv /\ Awaited /\ [Next]_vars => Awaited'
<1> SUFFICES ASSUME TurnInv, Awaited, [Next]_vars PROVE Awaited'
  OBVIOUS
<1>1. ASSUME UNCHANGED op, OpDone \/ (pc' = pc) \/ pc' \in {"assembling", "streaming", "executing", "ended"}
      PROVE  Awaited'
  BY <1>1 DEF Awaited, OpDone
<1>2. CASE OpBegins \/ OpEnds \/ OpUnwinds
  BY <1>2 DEF OpBegins, OpEnds, OpUnwinds, Awaited, OpDone
<1>3. CASE WaitStep
  <2>1. pc' = pc /\ pc \in {"assembling", "streaming", "executing"}
    BY <1>3 DEF WaitStep, WaitInterrupted, WaitReturns, WaitExpires, LaterInterrupted, LateEnds,
       UnwindSwept, Parked, TurnInv, OpInv
  <2> QED
    BY <2>1 DEF Awaited
<1>4. CASE BeginIteration \/ Assembled \/ ModelStepRaises
  BY <1>4 DEF BeginIteration, Assembled, ModelStepRaises, Launch, Finish, Awaited
<1>5. CASE Responded
  BY <1>1, <1>5, AnsweredIsDone DEF Responded, LeaveWait
<1>6. CASE BatchDone \/ BeginTool \/ Decide \/ AskApproval \/ Answered \/ GiveUp
  BY <1>1, <1>6 DEF BatchDone, BeginTool, Decide, AskApproval, Answered, GiveUp, Abort, Finish,
     control, Awaited
<1>7. CASE ApprovalRaises \/ Conflict \/ ToolRaises
  BY <1>1, <1>7 DEF ApprovalRaises, Conflict, ToolRaises, Abort, Finish, control, Awaited, LeaveWait
<1>8. CASE StartTool
  BY <1>8 DEF StartTool, Launch, Abort, Finish, Awaited
<1>9. CASE Executed
  BY <1>1, <1>9, AnsweredIsDone DEF Executed, LeaveWait
<1>10. CASE Record \/ Lost
  BY <1>1, <1>10 DEF Record, Lost, RequestLost, RecordLost, StartLost, AskLost, AnswerLost,
     AbortAll, Finish, control, Awaited
<1>11. CASE Stop \/ Interrupt
  <2>1. pc' = pc /\ (wait \in {"late", "unwinding"} => pc \in {"assembling", "streaming", "executing"})
    BY <1>11 DEF Stop, Interrupt, Reach, TurnInv, OpInv
  <2> QED
    BY <1>1, <1>11, <2>1 DEF Stop, Interrupt, Reach, Awaited
<1>12. CASE \/ \E answer \in {"approved", "denied"} : ResolveApproval(answer)
            \/ PatienceEnds \/ Expire \/ UNCHANGED vars
  BY <1>1, <1>12 DEF ResolveApproval, PatienceEnds, Expire, control, vars
<1> QED
  BY <1>2, <1>3, <1>4, <1>5, <1>6, <1>7, <1>8, <1>9, <1>10, <1>11, <1>12
  DEF Next, LoopStep, BatchStep
-----------------------------------------------------------------------------
(* Only a call whose tool has been run, and whose result is not yet recorded,  *)
(* may have replaced the plan.                                                 *)
LEMMA PlanStep == EvidenceInv /\ [ENext]_evars => PlanInv'
<1> SUFFICES ASSUME EvidenceInv, [ENext]_evars PROVE PlanInv'
  OBVIOUS
<1>1. PlanInv /\ TurnInv /\ Awaited
  BY DEF EvidenceInv
<1>2. ASSUME UNCHANGED <<plan, planned, told>>,
             pc \in {"executing", "record", "ended"} => pc' \in {"executing", "record", "ended"}
      PROVE  PlanInv'
  BY <1>1, <1>2 DEF PlanInv
<1>3. CASE ToolEnds
  <2>1. pc' = pc /\ told' = told /\ op.state = "running"
    BY <1>3 DEF ToolEnds, OpEnds
  <2>2. CASE UNCHANGED <<plan, planned>>
    BY <1>2, <2>1, <2>2
  <2>3. CASE op.kind = "async" /\ UpdatePlan(op'.result)
    <3>1. plan' \in Payloads /\ planned' = TRUE
      BY <2>3 DEF UpdatePlan
    <3>2. pc \in {"executing", "ended"}
      BY <1>1, <2>1, <2>3 DEF Awaited, OpDone, TurnInv, OpInv
    <3> QED
      BY <1>1, <2>1, <3>1, <3>2 DEF PlanInv
  <2> QED
    BY <1>3, <2>2, <2>3 DEF ToolEnds
<1>4. CASE RecordResult
  <2>1. planned' = FALSE /\ plan' = plan /\ (planned => told' = plan) /\ (~planned => told' = told)
    BY <1>4 DEF RecordResult
  <2> QED
    BY <1>1, <2>1 DEF PlanInv
<1>5. CASE AbortResult
  <2>1. pc \in {"executing", "record", "ended"} => pc' = "ended"
    BY <1>5 DEF AbortResult, AbortStep, AskApproval, ApprovalRaises, StartTool, ToolRaises, Abort,
       Finish
  <2> QED
    BY <1>2, <1>5, <2>1 DEF AbortResult
<1>6. CASE OtherStep /\ UNCHANGED taskState
  <2>1. pc \in {"executing", "record", "ended"} => pc' \in {"executing", "record", "ended"}
    <3>1. CASE OpBegins \/ OpUnwinds \/ WaitStep \/ Stop \/ Interrupt \/ Expire
      BY <3>1 DEF OpBegins, OpUnwinds, WaitStep, WaitInterrupted, WaitReturns, WaitExpires,
         LaterInterrupted, LateEnds, UnwindSwept, Parked, Stop, Interrupt, Reach, Expire
    <3>2. CASE LoopStep
      BY <3>2 DEF LoopStep, BeginIteration, Assembled, Responded, ModelStepRaises
    <3>3. CASE BatchDone \/ BeginTool \/ Decide \/ Answered \/ GiveUp \/ Conflict \/ Executed
      BY <3>3 DEF BatchDone, BeginTool, Decide, Answered, GiveUp, Conflict, Executed
    <3>4. CASE RequestLost \/ StartLost \/ AskLost \/ AnswerLost \/ PatienceEnds
               \/ \E answer \in {"approved", "denied"} : ResolveApproval(answer)
      BY <3>4 DEF RequestLost, StartLost, AskLost, AnswerLost, PatienceEnds, ResolveApproval
    <3> QED
      BY <1>6, <3>1, <3>2, <3>3, <3>4 DEF OtherStep
  <2> QED
    BY <1>2, <1>6, <2>1 DEF taskState
<1>7. CASE UNCHANGED evars
  BY <1>2, <1>7 DEF evars, taskState, vars
<1> QED
  BY <1>3, <1>4, <1>5, <1>6, <1>7 DEF ENext

LEMMA RememberedStep ==
    EvidenceInv /\ [ENext]_evars => Remembered(evidence', lastRun')
<1> SUFFICES ASSUME EvidenceInv, [ENext]_evars PROVE Remembered(evidence', lastRun')
  OBVIOUS
<1>1. Remembered(evidence, lastRun)
  BY DEF EvidenceInv
<1>2. CASE UNCHANGED <<evidence, lastRun>>
  BY <1>1, <1>2
<1>3. ASSUME NEW code, RecordAnswer(code) PROVE Remembered(evidence', lastRun')
  BY <1>1, <1>3, FactsStep
<1> QED
  BY <1>2, <1>3 DEF ENext, ToolEnds, RecordResult, AbortResult, evars, taskState

LEMMA EvidenceInit == EInit => EvidenceInv
<1> SUFFICES ASSUME EInit PROVE EvidenceInv
  OBVIOUS
<1>1. TurnInv /\ Awaited
  BY TurnInit DEF EInit, Init, Awaited, OpDone, NoOp
<1>2. PlanInv
  BY DEF EInit, PlanInv
<1>3. Remembered(evidence, lastRun)
  <2>1. NeverRun.newer = MaxEvidence
    BY DEF NeverRun
  <2>2. evidence = <<>> /\ lastRun = NeverRun
    BY DEF EInit
  <2>3. evidence \in Seq(FactSet) /\ Len(evidence) = 0 /\ DOMAIN evidence = {}
    BY <2>2
  <2> QED
    BY <2>1, <2>2, <2>3, EvidenceNumbers DEF Remembered
<1> QED
  BY <1>1, <1>2, <1>3 DEF EvidenceInv

LEMMA EvidenceStep == EvidenceInv /\ [ENext]_evars => EvidenceInv'
<1> SUFFICES ASSUME EvidenceInv, [ENext]_evars PROVE EvidenceInv'
  OBVIOUS
<1>1. TurnInv /\ Awaited /\ [Next]_vars
  BY StepRefines DEF EvidenceInv
<1> QED
  BY <1>1, TurnStep, AwaitedStep, PlanStep, RememberedStep DEF EvidenceInv

(* A Turn that keeps its task state is a Turn of TurnExecution, so whatever is *)
(* proved of those holds of it.                                               *)
THEOREM EvidenceRefinesTurn == ESpec => Spec
<1>1. EInit => Init
  BY DEF EInit
<1> QED
  BY <1>1, StepRefines, PTL DEF ESpec, Spec

(* The inductive invariant of the task state. *)
THEOREM EvidenceInvariant == ESpec => []EvidenceInv
BY EvidenceInit, EvidenceStep, PTL DEF ESpec

(* What a request shows of the last run of the command and of the plan is what *)
(* happened, however many facts are kept and shown.                            *)
THEOREM TaskStateIsTold == ESpec => []TaskStateTold
BY EvidenceInvariant, ToldByEvidence, PTL
=============================================================================
