---------------------------- MODULE TurnEvidence ----------------------------
(* The task state of a Turn: the objective facts the ToolCoordinator extracts  *)
(* from every executed call, the newest of which are kept, the plan the model  *)
(* sets with update_plan, and the lines of both that the next request shows.   *)
EXTENDS TurnExecution, FiniteSets

CONSTANTS MaxEvidence,      \* MAX_TASK_EVIDENCE
          MaxMilestones,    \* MAX_RECENT_COMPLETED_MILESTONES
          ViewRoom,         \* what MAX_TASK_STATE_VIEW_TOKENS leaves for the lines
          Extracts,         \* what an executed call may be found to have done
          Payloads          \* the plans the model may send

ASSUME EvidenceBounds == {MaxEvidence, MaxMilestones, ViewRoom} \subseteq Nat \ {0}

Statuses == {"success", "running", "failed"}
StepStatus == {"pending", "in_progress", "completed", "blocked"}

(* The tools that leave facts, the status of a call, whether the ChangeTracker *)
(* found that it changed files, and the room a line about it takes.            *)
Tools == {"edit_file", "run_command"}
Extraction == [tool : Tools, status : Statuses, changed : BOOLEAN, size : Nat \ {0}]

ASSUME ExtractAssumption == Extracts \subseteq Extraction

ASSUME PayloadAssumption == Payloads \subseteq Seq([status : StepStatus, size : Nat \ {0}])

VARIABLES evidence,         \* TaskState.evidence
          plan,             \* TaskState.plan
          planned,          \* the call the batch is at has replaced the plan
          told,             \* the plan of the last update_plan the model saw succeed
          lastRun           \* the last recorded run of the command, and what came after

taskState == <<evidence, plan, planned, told, lastRun>>
evars == <<vars, taskState>>

NoPlan == <<[status |-> "none", size |-> 0]>>
Command == "command"        \* the one command whose runs supersede each other
None == "none"
NeverRun == [status |-> "none", newer |-> MaxEvidence]

EInit == /\ Init
         /\ evidence = <<>> /\ plan = NoPlan /\ planned = FALSE /\ told = NoPlan
         /\ lastRun = NeverRun
-----------------------------------------------------------------------------
(* evidence_from_tool_execution: a call that reads, or was never executed,     *)
(* leaves no fact; an edit that succeeds, or any call that changed files, is a *)
(* mutation; a run of a command is a validation; what failed is a failure too. *)
(* Their lines name the same call and take the same room.                      *)
Mutates(extract) ==
    extract.changed \/ (extract.tool = "edit_file" /\ extract.status # "failed")

Kinds(extract) ==
    (IF Mutates(extract)             THEN <<"mutation">>   ELSE <<>>) \o
    (IF extract.tool = "run_command" THEN <<"validation">> ELSE <<>>) \o
    (IF extract.status = "failed"    THEN <<"failure">>    ELSE <<>>)

Fact(kind, extract) ==
    [kind |-> kind, status |-> extract.status, size |-> extract.size,
     key |-> IF kind = "mutation" \/ extract.tool = "edit_file" THEN None ELSE Command]

EvidenceOf(extract) ==
    LET kinds == Kinds(extract) IN [i \in DOMAIN kinds |-> Fact(kinds[i], extract)]

(* _status: a command may still run in its session when its call ends, or have *)
(* failed by its exit code alone.                                              *)
StatusesOf(tool, code) ==
    CASE code = "ok" /\ tool = "run_command"              -> Statuses
      [] code = "ok"                                      -> {"success"}
      [] code \in {"failed", "CANCELLED", "LIMIT_REACHED"} -> {"failed"}
      [] OTHER                                            -> {}

(* The facts one call with this result code may leave.                         *)
Facts(code) ==
    {<<>>} \cup {EvidenceOf(extract) :
                    extract \in {e \in Extracts : e.status \in StatusesOf(e.tool, code)}}

(* Fault: the oldest facts are kept. *)
RecordOldest(kept, fact) ==
    IF Len(kept) < MaxEvidence THEN Append(kept, fact) ELSE kept

RecordEvidence(kept, fact) ==
    LET all == Append(kept, fact) IN
    IF Len(all) > MaxEvidence THEN Tail(all) ELSE all

(* Of the last run: what followed it, until its fact is forgotten.             *)
RunAfter(run, fact) ==
    IF fact.key = Command THEN [status |-> fact.status, newer |-> 0]
    ELSE IF run.newer = MaxEvidence THEN run
    ELSE [status |-> run.status, newer |-> run.newer + 1]

(* The first n of the facts, of which a call leaves at most three, one by one. *)
OneByOne(Op(_, _), start, facts, n) ==
    CASE n = 0 -> start
      [] n = 1 -> Op(start, facts[1])
      [] n = 2 -> Op(Op(start, facts[1]), facts[2])
      [] OTHER -> Op(Op(Op(start, facts[1]), facts[2]), facts[3])

RecordFacts(facts, n) ==
    /\ evidence' = OneByOne(RecordEvidence, evidence, facts, n)
    /\ lastRun' = OneByOne(RunAfter, lastRun, facts, n)

(* A fact is kept before its event is committed; a failed commit, that of      *)
(* tool_finished included, loses the facts that were to follow.                *)
RecordAnswer(code) ==
    \E facts \in Facts(code) :
        \E n \in 0..Len(facts) :
            /\ emitFailures' = emitFailures => n = Len(facts)
            /\ RecordFacts(facts, n)
-----------------------------------------------------------------------------
(* TaskState.projected_items: an item of the next request is the position of a *)
(* fact or of a step of the plan, under a priority of it; a fact may be two    *)
(* items. The most important come first, the newest of the facts among equals. *)
OfFacts == {0, 1, 5, 8}
OfSteps == 2..4

Key(fact) == IF fact.kind \in {"validation", "failure"} THEN fact.key ELSE None
IsSuccess(fact) == fact.status = "success"
IsFailure(fact) == fact.kind = "failure" \/ fact.status = "failed"

IsNewest(i) == \A j \in DOMAIN evidence : j > i => Key(evidence[j]) # Key(evidence[i])

Resolved == {Key(evidence[i]) : i \in {j \in DOMAIN evidence :
                                          IsNewest(j) /\ IsSuccess(evidence[j])}} \ {None}

(* No later validation of the same command replaces it.                        *)
LatestValidation(i) ==
    \A j \in DOMAIN evidence : j > i /\ evidence[j].kind = "validation"
                                  => Key(evidence[j]) # Key(evidence[i])

FactProjected(priority, i) ==
    LET fact == evidence[i] IN
    \/ priority = 0 /\ IsFailure(fact) /\ Key(fact) \notin Resolved
    \/ priority = 1 /\ fact.kind = "validation" /\ LatestValidation(i)
    \/ priority = 5 /\ fact.kind = "mutation"
    \/ priority = 8 /\ fact.kind = "validation" /\ IsSuccess(fact)

(* The last completed steps.                                                   *)
Milestone(i) == Cardinality({j \in DOMAIN plan : j > i /\ plan[j].status = "completed"}) < MaxMilestones

StepProjected(priority, i) ==
    \/ priority = 2 /\ plan[i].status = "in_progress"
    \/ priority = 3 /\ plan[i].status \in {"pending", "blocked"}
    \/ priority = 4 /\ plan[i].status = "completed" /\ Milestone(i)

Projected ==
    {item \in [priority : OfFacts, at : DOMAIN evidence] : FactProjected(item.priority, item.at)}
    \cup {item \in [priority : OfSteps, at : DOMAIN plan] : StepProjected(item.priority, item.at)}

(* The key it is sorted by.                                                    *)
Width == Len(evidence) + Len(plan) + 1
Place(item) ==
    item.priority * Width + IF item.priority \in OfSteps THEN item.at
                            ELSE Len(evidence) - item.at + 1

(* The room that the lines of some items take.                                 *)
SizeOf(item) == IF item.priority \in OfSteps THEN plan[item.at].size ELSE evidence[item.at].size
Taken(items) == Cardinality(UNION {{item} \X (1..SizeOf(item)) : item \in items})

(* TaskState.view: in this order every line is taken that still fits; one that *)
(* is too long is left out, and a later and shorter one may yet be taken.      *)
Fill(lines, item) ==
    IF Taken(lines \cup {item}) <= ViewRoom THEN lines \cup {item} ELSE lines

Sorted(items) == [place \in {Place(item) : item \in items} |->
                     CHOOSE item \in items : Place(item) = place]

FillAt(lines, sorted, place) ==
    IF place \in DOMAIN sorted THEN Fill(lines, sorted[place]) ELSE lines

View ==
    LET sorted == Sorted(Projected)
        Filled[place \in 0..(9 * Width)] ==
            IF place = 0 THEN {} ELSE FillAt(Filled[place - 1], sorted, place)
    IN Filled[9 * Width]

Shows(view, Test(_)) ==
    \E item \in view : /\ item.priority \in OfFacts
                        /\ Key(evidence[item.at]) = Command /\ Test(evidence[item.at])
-----------------------------------------------------------------------------
(* TaskPlan: a plan with two steps in progress is refused.                     *)
TaskPlan(payload) == Cardinality({i \in DOMAIN payload : payload[i].status = "in_progress"}) <= 1

(* The update_plan tool.                                                       *)
UpdatePlan(result) ==
    \E payload \in Payloads :
        TaskPlan(payload) /\ result = "ok" /\ plan' = payload /\ planned' = TRUE

ToolEnds ==
    /\ OpEnds
    /\ \/ op.kind = "async" /\ UpdatePlan(op'.result)
       \/ UNCHANGED <<plan, planned>>
    /\ UNCHANGED <<evidence, told, lastRun>>

(* ToolCoordinator._record of an ordinary result.                              *)
RecordResult ==
    /\ Record \/ RecordLost
    /\ planned' = FALSE /\ UNCHANGED plan
    /\ IF planned THEN told' = plan /\ UNCHANGED <<evidence, lastRun>>
       ELSE RecordAnswer(current) /\ UNCHANGED told

(* _record of the result of a call that was cancelled or came too late.        *)
AbortStep == AskApproval \/ ApprovalRaises \/ StartTool \/ ToolRaises

AbortResult ==
    /\ AbortStep
    /\ IF pc' = "ended" THEN RecordAnswer(results'[Len(results) + 1].code)
       ELSE UNCHANGED <<evidence, lastRun>>
    /\ UNCHANGED <<plan, planned, told>>

OtherStep ==
    \/ OpBegins \/ OpUnwinds \/ WaitStep \/ LoopStep
    \/ BatchDone \/ BeginTool \/ Decide \/ Answered \/ GiveUp \/ Conflict \/ Executed
    \/ RequestLost \/ StartLost \/ AskLost \/ AnswerLost
    \/ \E answer \in {"approved", "denied"} : ResolveApproval(answer)
    \/ PatienceEnds \/ Stop \/ Interrupt \/ Expire

ENext == ToolEnds \/ RecordResult \/ AbortResult \/ (OtherStep /\ UNCHANGED taskState)

(* The fairness of TurnExecution: each of its steps is one of this module's.    *)
ESpec == EInit /\ [][ENext]_evars

EFairSpec == /\ ESpec
             /\ WF_vars(WaitStep) /\ WF_vars(LoopStep) /\ WF_vars(BatchStep)
             /\ WF_vars(OpBegins) /\ WF_vars(OpUnwinds)
             /\ WF_vars(op.kind = "sync" /\ OpEnds)
             /\ WF_vars(PatienceEnds) /\ WF_vars(Expire)
-----------------------------------------------------------------------------
ETypeOK ==
    /\ TypeOK
    /\ evidence \in Seq([kind : {"mutation", "validation", "failure"}, status : Statuses,
                         size : Nat \ {0}, key : {None, Command}])
    /\ Len(evidence) <= MaxEvidence
    /\ {plan, told} \subseteq Payloads \cup {NoPlan} /\ planned \in BOOLEAN
    /\ lastRun.newer \in 0..MaxEvidence

(* The failure the last run left, and the failures recorded after it.          *)
LastFailures ==
    {item \in Projected : item.priority = 0 /\ item.at >= Len(evidence) - lastRun.newer}

(* Comment (_resolved_validation_keys): "The newest fact for a validation key  *)
(* is authoritative". When the last run of the command failed the model is     *)
(* told so as long as the facts of it are kept and their lines fit with those  *)
(* of newer failures; when it succeeded no older failure of it is shown, and   *)
(* when a failed run is forgotten no older success is. The plan a request      *)
(* shows is the one the model was last told is in force: an invalid, cancelled *)
(* or unanswered update leaves no trace in it.                                 *)
TaskStateTold ==
    LET view == View IN
    /\ /\ lastRun.status = "failed" /\ lastRun.newer < MaxEvidence
       /\ Taken(LastFailures) <= ViewRoom
       => Shows(view, IsFailure)
    /\ lastRun.status = "success" => ~Shows(view, IsFailure)
    /\ lastRun.status = "failed" /\ lastRun.newer = MaxEvidence => ~Shows(view, IsSuccess)
    /\ pc \in {"loop", "assembling", "streaming"} => plan = told
=============================================================================
