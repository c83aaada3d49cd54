-------------------------- MODULE ThreadRuntimeProofs --------------------------
(***************************************************************************)
(* The Thread Runtime (ThreadRuntime), for any number of Threads, calls,     *)
(* keys, crashes and failed commits, and the Host that runs it (HostTurns).  *)
(* First the types and the agreement of record, preflight slot, suspended    *)
(* calls and leases.  Then the durable history: what was returned stays      *)
(* committed, no started Turn is forgotten, no key starts two Turns and, as  *)
(* long as every commit succeeds, no lease outlives its Turn.  Two           *)
(* invariants carry that part: HistoryInv holds whatever commits fail;       *)
(* FaultlessInv says what is true besides while none has failed.  Last, the  *)
(* same of the Host, with its tasks, endpoints and shutdown.                 *)
(***************************************************************************)
EXTENDS HostTurns, FiniteSetTheorems, TLAPS

(* What the helpers of the model return. *)
LEMMA SubmissionType ==
    ASSUME NEW c \in Call
    PROVE  /\ Submission(c) \in SubmissionRec
           /\ NoSubmission \in SubmissionRec
           /\ NoResult \in Result
BY CallAssumption DEF Submission, NoSubmission, SubmissionRec, NoResult, Raise, Result, ErrorCode

(* A Turn summary is well formed. *)
LEMMA SummaryType ==
    ASSUME NEW c \in Call, NEW o \in Outcome
    PROVE  Summary(c, o) \in Result /\ Summary(c, o) \in [turn : Call, code : Outcome]
BY DEF Summary, Result

(* An exception and a summary are results of a call. *)
LEMMA RaiseType ==
    ASSUME NEW e \in ErrorCode
    PROVE  Raise(e) \in Result
BY DEF Raise, Result

(* create_thread makes a well-formed record. *)
LEMMA NewRecordType == NewRecord \in ThreadRecord
<1>1. NoSubmission \in SubmissionRec
  BY DEF NoSubmission, SubmissionRec, NoResult, Raise, Result, ErrorCode
<1>2. <<>> \in TurnList /\ <<>> \in Seq(EventRec)
  BY DEF TurnList
<1>3. QED
  BY <1>1, <1>2 DEF NewRecord, ThreadRecord, Status

(* Setting or clearing the submission of a key keeps the map of keys. *)
LEMMA PutKeyType ==
    ASSUME NEW idem \in [Key -> SubmissionRec], NEW c \in Call, NEW s \in SubmissionRec
    PROVE  PutKey(idem, c, s) \in [Key -> SubmissionRec]
BY DEF PutKey

(* What a commit writes for a record is a stored Thread. *)
LEMMA StoredType ==
    ASSUME NEW old \in StoredThread, NEW r \in ThreadRecord, NEW ev \in Seq(EventRec)
    PROVE  Stored(old, r, ev) \in StoredThread
<1>1. old.events \o ev \in Seq(EventRec)
  BY DEF StoredThread
<1>2. QED
  BY <1>1 DEF Stored, StoredThread, ThreadRecord

(* Appending an event keeps a record well formed. *)
LEMMA EmitType ==
    ASSUME NEW r \in ThreadRecord, NEW e \in EventRec
    PROVE  Emit(r, e) \in ThreadRecord
<1>1. Append(r.events, e) \in Seq(EventRec)
  BY DEF ThreadRecord
<1>2. QED
  BY <1>1 DEF Emit, ThreadRecord

(* The events the Runtime emits are event records. *)
LEMMA EventTypes ==
    ASSUME NEW c \in Call, NEW k \in EventType
    PROVE  Event(k, c) \in EventRec /\ <<Event(k, c)>> \in Seq(EventRec)
BY DEF Event, EventRec

(* _finish_turn leaves a well-formed record. *)
LEMMA EndedType ==
    ASSUME NEW r \in ThreadRecord, NEW c \in Call, NEW o \in Outcome
    PROVE  Ended(r, c, o) \in ThreadRecord
<1> DEFINE idem == IF Keyed(c) /\ r.idem[KeyOf[c]].turn # None
                     THEN [r.idem EXCEPT ![KeyOf[c]].summary = Summary(c, o)]
                     ELSE r.idem
<1>1. Append(r.turns, Summary(c, o)) \in TurnList
  BY SummaryType DEF ThreadRecord, TurnList
<1>2. idem \in [Key -> SubmissionRec]
  <2>1. r.idem \in [Key -> SubmissionRec]
    BY DEF ThreadRecord
  <2>2. \A s \in SubmissionRec : [s EXCEPT !.summary = Summary(c, o)] \in SubmissionRec
    BY SummaryType DEF SubmissionRec
  <2>3. QED
    BY <2>1, <2>2, CallAssumption DEF Keyed
<1>3. QED
  BY <1>1, <1>2 DEF Ended, ThreadRecord, Status

(* So does forgetting the submission of a failed call. *)
LEMMA ForgetType ==
    ASSUME NEW r \in ThreadRecord, NEW c \in Call
    PROVE  Forget(r, c) \in ThreadRecord
BY PutKeyType, SubmissionType DEF Forget, ThreadRecord

(* A stretch of code that leaves a well-formed record and store. *)
LEMMA ApplyType ==
    ASSUME TypeOK, NEW t \in Thread, NEW r \in ThreadRecord, NEW d \in StoredThread,
           NEW n \in Nat, Apply(t, r, d, n)
    PROVE  /\ rec' \in [Thread -> ThreadRecord]
           /\ durable' \in [Thread -> StoredThread]
           /\ storeFailures' \in 0..MaxStoreFailures
BY BoundsAssumption DEF TypeOK, Apply

(* A commit, successful or not, keeps records, store and counters well formed. *)
LEMMA CommitType ==
    ASSUME TypeOK, NEW t \in Thread, NEW r \in ThreadRecord,
           NEW c \in Call, NEW k \in EventType,
           NEW ok \in BOOLEAN, Commit(t, r, Event(k, c), ok)
    PROVE  /\ rec' \in [Thread -> ThreadRecord]
           /\ durable' \in [Thread -> StoredThread]
           /\ storeFailures' \in 0..MaxStoreFailures
<1> DEFINE e == Event(k, c)
<1>1. Emit(r, e) \in ThreadRecord
  BY EventTypes, EmitType
<1>2. durable[t] \in StoredThread
  BY DEF TypeOK
<1>3. Stored(durable[t], r, <<e>>) \in StoredThread
  BY <1>2, EventTypes, StoredType
<1>4. QED
  BY <1>1, <1>2, <1>3, ApplyType DEF Commit
-----------------------------------------------------------------------------
(* How the stored state of a Thread comes back. *)
LEMMA LoadedType ==
    ASSUME NEW d \in StoredThread
    PROVE  Loaded(d) \in ThreadRecord /\ Repaired(d) \in ThreadRecord
<1>1. Loaded(d) \in ThreadRecord
  BY NewRecordType DEF Loaded, ThreadRecord, StoredThread, NewRecord
<1>2. QED
  BY <1>1 DEF Repaired, ThreadRecord, Status

(* The recovery of a Turn that was active leaves a well-formed record. *)
LEMMA RecoveredType ==
    ASSUME NEW d \in StoredThread, d.active # None
    PROVE  Recovered(d) \in ThreadRecord
<1> DEFINE c == d.active
           s == [Submission(c) EXCEPT !.summary = Summary(c, "runtime_restarted"),
                                      !.interrupted = TRUE]
           r == Loaded(d)
           idem == IF Keyed(c) /\ r.idem[KeyOf[c]].turn # None
                     THEN PutKey(r.idem, c, s) ELSE r.idem
<1>1. c \in Call /\ r \in ThreadRecord
  BY LoadedType DEF StoredThread
<1>2. Summary(c, "runtime_restarted") \in Result
      /\ Summary(c, "runtime_restarted") \in [turn : Call, code : Outcome]
  BY <1>1, SummaryType DEF Outcome
<1>3. s \in SubmissionRec
  BY <1>1, <1>2, SubmissionType DEF SubmissionRec
<1>4. idem \in [Key -> SubmissionRec]
  BY <1>1, <1>3, PutKeyType DEF ThreadRecord
<1>5. Append(r.turns, Summary(c, "runtime_restarted")) \in TurnList
  BY <1>1, <1>2 DEF ThreadRecord, TurnList
<1>6. QED
  BY <1>1, <1>4, <1>5 DEF Recovered, ThreadRecord, Status

(* What an earlier process can have left in the store is a stored Thread. *)
LEMMA LeftoverType ==
    ASSUME NEW c \in Call
    PROVE  Leftover(c) \in StoredThread
<1> DEFINE done == [Submission(c) EXCEPT !.summary = Summary(c, "completed")]
<1>1. Summary(c, "completed") \in Result
      /\ Summary(c, "completed") \in [turn : Call, code : Outcome]
  BY SummaryType DEF Outcome, TurnOutcome
<1>2. done \in SubmissionRec
  BY <1>1, SubmissionType DEF SubmissionRec
<1>3. PutKey(NewRecord.idem, c, done) \in [Key -> SubmissionRec]
  BY <1>2, NewRecordType, PutKeyType DEF ThreadRecord
<1>4. Event("turn_started", c) \in EventRec /\ Event("terminal", c) \in EventRec
  BY EventTypes DEF EventType
<1>5. <<Summary(c, "completed")>> \in TurnList
      /\ <<Event("turn_started", c), Event("terminal", c)>> \in Seq(EventRec)
  BY <1>1, <1>4 DEF TurnList
<1>6. QED
  BY <1>3, <1>5 DEF Leftover, StoredThread, Status

(* The initial store is well formed. *)
LEMMA InitialStoreType == InitialStore \in [Thread -> StoredThread]
<1>1. \A c \in Legacy : Leftover(c) \in StoredThread
  BY LeftoverType, CallAssumption
<1>2. Stored([events |-> <<>>], NewRecord, <<>>) \in StoredThread
  <2>1. <<>> \o <<>> \in Seq(EventRec)
    OBVIOUS
  <2>2. QED
    BY <2>1, NewRecordType DEF Stored, StoredThread, ThreadRecord
<1>3. \A t \in Thread : (\E c \in Legacy : ThreadOf[c] = t) =>
          (CHOOSE c \in Legacy : ThreadOf[c] = t) \in Legacy
  OBVIOUS
<1>4. QED
  BY <1>1, <1>2, <1>3 DEF InitialStore
-----------------------------------------------------------------------------
(* The initial states have their types. *)
LEMMA InitType == Init => TypeOK
<1> SUFFICES ASSUME Init PROVE TypeOK
  OBVIOUS
<1>1. rec \in [Thread -> ThreadRecord] /\ durable \in [Thread -> StoredThread]
  BY NewRecordType, InitialStoreType DEF Init
<1>2. leases \in [Call -> Workspace \cup {None}]
  BY DEF Init, Leases!Free
<1>3. result \in [Call -> Result] /\ future \in [Call -> Result]
  <2>1. \A c \in Call : Summary(c, "completed") \in Result /\ NoResult \in Result
    BY SummaryType, SubmissionType DEF Outcome, TurnOutcome
  <2>2. QED
    BY <2>1 DEF Init
<1>4. pc \in [Call -> PC] /\ waits \in [Call -> Call \cup {None}]
      /\ cancel \in [Call -> {"no", "task", "turn"}]
  BY DEF Init, PC
<1>5. /\ mode \in {"up", "stopping", "down", "starting"}
      /\ restored \subseteq Thread
      /\ crashes \in 0..MaxCrashes /\ storeFailures \in 0..MaxStoreFailures
  BY BoundsAssumption DEF Init
<1>6. QED
  BY <1>1, <1>2, <1>3, <1>4, <1>5 DEF TypeOK, Leases!TypeOK

(* A finished call keeps the types of pc and result. *)
LEMMA FinishType ==
    ASSUME TypeOK, NEW c \in Call, NEW res \in Result, Finish(c, res)
    PROVE  pc' \in [Call -> PC] /\ result' \in [Call -> Result]
BY DEF TypeOK, Finish, PC

(* A call that leaves the running section gives its lease back and stays well formed. *)
LEMMA LeaveType ==
    ASSUME TypeOK, NEW c \in Call, NEW res \in Result, Leave(c, res)
    PROVE  /\ Leases!TypeOK'
           /\ pc' \in [Call -> PC] /\ result' \in [Call -> Result]
           /\ waits' = waits /\ mode' = mode /\ restored' = restored /\ crashes' = crashes
           /\ cancel' \in [Call -> {"no", "task", "turn"}]
BY DEF TypeOK, Leave, Process, PC, Leases!TypeOK, Leases!Release

(* Settling the future of a submission keeps the futures well formed. *)
LEMMA ResolveType ==
    ASSUME TypeOK, NEW c \in Call, NEW res \in Result, Resolve(c, res)
    PROVE  future' \in [Call -> Result]
BY DEF TypeOK, Resolve

(* The invocations of run_turn. *)
LEMMA InvokeType ==
    ASSUME TypeOK, NEW c \in Call, Invoke(c)
    PROVE  TypeOK'
<1> DEFINE t == ThreadOf[c]
<1>0. t \in Thread /\ rec[t] \in ThreadRecord
  BY CallAssumption DEF TypeOK
<1>1. Entry(c) \in SubmissionRec
  BY <1>0, CallAssumption, SubmissionType DEF Entry, ThreadRecord
<1>2. KeyAnswer(c) \in Result
  BY <1>1, RaiseType DEF KeyAnswer, ErrorCode, SubmissionRec
<1>3. ASSUME AnswerFromKey(c) PROVE TypeOK'
  <2>1. Finish(c, KeyAnswer(c))
    BY <1>3 DEF AnswerFromKey
  <2>2. pc' \in [Call -> PC] /\ result' \in [Call -> Result]
    BY <1>2, <2>1, FinishType
  <2>3. QED
    BY <1>3, <2>2 DEF AnswerFromKey, TypeOK, Process, Leases!TypeOK
<1>4. ASSUME Join(c) PROVE TypeOK'
  <2>1. Entry(c).turn \in Call \cup {None}
    BY <1>1 DEF SubmissionRec
  <2>2. pc' \in [Call -> PC] /\ waits' \in [Call -> Call \cup {None}]
    BY <1>4, <2>1 DEF Join, TypeOK, PC
  <2>3. QED
    BY <1>4, <2>2 DEF Join, TypeOK, Process, Leases!TypeOK
<1>5. ASSUME Refuse(c) PROVE TypeOK'
  <2>1. \E e \in ErrorCode : Finish(c, Raise(e))
    BY <1>5 DEF Refuse, ErrorCode
  <2>2. pc' \in [Call -> PC] /\ result' \in [Call -> Result]
    BY <2>1, FinishType, RaiseType
  <2>3. QED
    BY <1>5, <2>2 DEF Refuse, TypeOK, Process, Leases!TypeOK
<1>6. ASSUME BeginPreflight(c) PROVE TypeOK'
  <2>1. rec' \in [Thread -> ThreadRecord]
    <3>1. [rec[t] EXCEPT !.preflight = c] \in ThreadRecord
      BY <1>0 DEF ThreadRecord
    <3>2. rec' = [rec EXCEPT ![t] = [rec[t] EXCEPT !.preflight = c]]
      BY <1>6 DEF BeginPreflight
    <3>3. QED
      BY <3>1, <3>2 DEF TypeOK
  <2>2. pc' \in [Call -> PC]
    BY <1>6 DEF BeginPreflight, TypeOK, PC
  <2>3. QED
    BY <1>6, <2>1, <2>2 DEF BeginPreflight, TypeOK, Process, Leases!TypeOK
<1>7. QED
  BY <1>3, <1>4, <1>5, <1>6 DEF Invoke
-----------------------------------------------------------------------------
(* From the root validation to the Turn's first await. *)
LEMMA RejectType ==
    ASSUME TypeOK, NEW c \in Call, NEW e \in ErrorCode,
           NEW holds \in BOOLEAN, NEW ok \in BOOLEAN, Reject(c, e, holds, ok)
    PROVE  TypeOK'
<1> DEFINE t == ThreadOf[c]
           r == [rec[t] EXCEPT !.preflight = None]
<1>0. t \in Thread /\ WorkspaceOf[t] \in Workspace /\ rec[t] \in ThreadRecord
  BY CallAssumption DEF TypeOK
<1>1. r \in ThreadRecord
  BY <1>0 DEF ThreadRecord
<1>2. /\ rec' \in [Thread -> ThreadRecord]
      /\ durable' \in [Thread -> StoredThread]
      /\ storeFailures' \in 0..MaxStoreFailures
  <2>1. Commit(t, r, Event("turn_rejected", c), ok)
    BY DEF Reject
  <2>2. QED
    BY <1>0, <1>1, <2>1, CommitType DEF EventType
<1>3. \E res \in Result : Finish(c, res)
  BY RaiseType DEF Reject, ErrorCode
<1>4. pc' \in [Call -> PC] /\ result' \in [Call -> Result]
  BY <1>3, FinishType
<1>5. leases' \in [Call -> Workspace \cup {None}]
  BY <1>0 DEF Reject, TypeOK, Leases!TypeOK
<1>6. QED
  BY <1>2, <1>4, <1>5 DEF Reject, Process, TypeOK, Leases!TypeOK

(* The steps of a preflight preserve the types. *)
LEMMA PreflightType ==
    ASSUME TypeOK, NEW c \in Call, Preflight(c)
    PROVE  TypeOK'
<1> DEFINE t == ThreadOf[c]
<1>0. /\ t \in Thread /\ WorkspaceOf[t] \in Workspace
      /\ rec[t] \in ThreadRecord /\ durable[t] \in StoredThread
  BY CallAssumption DEF TypeOK
<1>1. CASE RejectCancelled(c)
  BY <1>1, RejectType DEF RejectCancelled, ErrorCode
<1>2. CASE RejectInvalidRoot(c)
  BY <1>2, RejectType DEF RejectInvalidRoot, ErrorCode
<1>3. CASE RejectBusy(c)
  BY <1>3, RejectType DEF RejectBusy, ErrorCode
<1>4. CASE RejectClosed(c)
  BY <1>4, RejectType DEF RejectClosed, ErrorCode
<1>5. CASE RejectContext(c)
  BY <1>5, RejectType DEF RejectContext, ErrorCode
<1>6. CASE StartTurn(c)
  <2> DEFINE idem == PutKey(rec[t].idem, c, Submission(c))
             r == [rec[t] EXCEPT !.preflight = None, !.status = "running",
                                 !.active = c, !.idem = idem]
  <2>1. idem \in [Key -> SubmissionRec]
    BY <1>0, SubmissionType, PutKeyType DEF ThreadRecord
  <2>2. r \in ThreadRecord
    BY <1>0, <2>1 DEF ThreadRecord, Status
  <2>3. Commit(t, r, Event("turn_started", c), TRUE)
    BY <1>6 DEF StartTurn
  <2>4. /\ rec' \in [Thread -> ThreadRecord]
        /\ durable' \in [Thread -> StoredThread]
        /\ storeFailures' \in 0..MaxStoreFailures
    BY <1>0, <2>2, <2>3, CommitType DEF EventType
  <2>5. leases' \in [Call -> Workspace \cup {None}] /\ pc' \in [Call -> PC]
    BY <1>0, <1>6 DEF StartTurn, Leases!Acquire, TypeOK, Leases!TypeOK, PC
  <2>6. QED
    BY <1>6, <2>4, <2>5 DEF StartTurn, Process, TypeOK, Leases!TypeOK
<1>7. CASE StartLost(c)
  <2> DEFINE e == Event("turn_started", c)
             p == [rec[t] EXCEPT !.preflight = None]
             r == Emit(p, e)
  <2>1. p \in ThreadRecord
    BY <1>0 DEF ThreadRecord
  <2>2. r \in ThreadRecord
    BY <2>1, EventTypes, EmitType DEF EventType
  <2>3. Stored(durable[t], r, <<>>) \in StoredThread
    <3>1. <<>> \in Seq(EventRec)
      OBVIOUS
    <3>2. QED
      BY <1>0, <2>2, <3>1, StoredType
  <2>4. Apply(t, r, Stored(durable[t], r, <<>>), 1) \/ Apply(t, r, durable[t], 2)
    BY <1>7 DEF StartLost
  <2>5. /\ rec' \in [Thread -> ThreadRecord]
        /\ durable' \in [Thread -> StoredThread]
        /\ storeFailures' \in 0..MaxStoreFailures
    BY <1>0, <2>2, <2>3, <2>4, ApplyType
  <2>6. pc' \in [Call -> PC] /\ result' \in [Call -> Result]
    <3>1. Finish(c, Raise("ThreadStoreError"))
      BY <1>7 DEF StartLost
    <3>2. Raise("ThreadStoreError") \in Result
      BY RaiseType DEF ErrorCode
    <3>3. QED
      BY <3>1, <3>2, FinishType
  <2>7. QED
    BY <1>7, <2>5, <2>6 DEF StartLost, Process, TypeOK, Leases!TypeOK
<1>8. QED
  BY <1>1, <1>2, <1>3, <1>4, <1>5, <1>6, <1>7 DEF Preflight
-----------------------------------------------------------------------------
(* The active Turn. *)
LEMMA SetWaitingType ==
    ASSUME TypeOK, NEW c \in Call, NEW k \in EventType,
           NEW before \in Status, NEW after \in Status, SetWaiting(c, k, before, after)
    PROVE  TypeOK'
<1> DEFINE t == ThreadOf[c]
           r == [rec[t] EXCEPT !.status = after]
<1>0. t \in Thread /\ rec[t] \in ThreadRecord
  BY CallAssumption DEF TypeOK
<1>1. r \in ThreadRecord
  BY <1>0 DEF ThreadRecord
<1>2. Commit(t, r, Event(k, c), TRUE)
  BY DEF SetWaiting
<1>3. /\ rec' \in [Thread -> ThreadRecord]
      /\ durable' \in [Thread -> StoredThread]
      /\ storeFailures' \in 0..MaxStoreFailures
  BY <1>0, <1>1, <1>2, CommitType
<1>4. QED
  BY <1>3 DEF SetWaiting, Process, TypeOK, Leases!TypeOK

(* Every way a Turn ends leaves a well-formed record and store, resolves its  *)
(* future and leaves with a result.                                         *)
LEMMA EndType ==
    ASSUME TypeOK, NEW c \in Call, NEW r \in ThreadRecord, NEW d \in StoredThread,
           NEW n \in Nat, Apply(ThreadOf[c], r, d, n),
           NEW f \in Result, Resolve(c, f), NEW res \in Result, Leave(c, res)
    PROVE  TypeOK'
<1>1. /\ rec' \in [Thread -> ThreadRecord]
      /\ durable' \in [Thread -> StoredThread]
      /\ storeFailures' \in 0..MaxStoreFailures
  BY CallAssumption, ApplyType
<1>2. future' \in [Call -> Result]
  BY ResolveType
<1>3. /\ Leases!TypeOK'
      /\ pc' \in [Call -> PC] /\ result' \in [Call -> Result]
      /\ waits' = waits /\ mode' = mode /\ restored' = restored /\ crashes' = crashes
      /\ cancel' \in [Call -> {"no", "task", "turn"}]
  BY LeaveType
<1>4. QED
  BY <1>1, <1>2, <1>3 DEF TypeOK

(* The end of a Turn, with its failing commits, preserves the types. *)
LEMMA TurnTerminatesType ==
    ASSUME TypeOK, NEW c \in Call, TurnTerminates(c)
    PROVE  TypeOK'
<1> DEFINE t == ThreadOf[c]
           E == Terminal(c)
           store(r) == Stored(durable[t], r, <<E>>)
<1>0. /\ t \in Thread /\ rec[t] \in ThreadRecord /\ durable[t] \in StoredThread
      /\ E \in EventRec /\ <<E>> \in Seq(EventRec) /\ <<>> \in Seq(EventRec)
  BY CallAssumption, EventTypes DEF TypeOK, Terminal, EventType
<1>1. \A o \in TurnOutcome : o \in Outcome /\ Summary(c, o) \in Result
  BY SummaryType DEF Outcome
<1>2. Raise("ThreadStoreError") \in Result /\ Raise("CancelledError") \in Result
  BY RaiseType DEF ErrorCode
<1>3. ASSUME FinishedTwice(c) PROVE TypeOK'
  <2> DEFINE once  == Emit(Ended(rec[t], c, "completed"), E)
             twice == Ended(once, c, "failed")
  <2>1. twice \in ThreadRecord
    BY <1>0, <1>1, EndedType, EmitType DEF TurnOutcome
  <2>2. Emit(twice, E) \in ThreadRecord /\ store(twice) \in StoredThread
    BY <1>0, <2>1, EmitType, StoredType
  <2>3. /\ Apply(t, Emit(twice, E), store(twice), 1)
        /\ Resolve(c, Summary(c, "failed")) /\ Leave(c, Summary(c, "failed"))
    BY <1>3 DEF FinishedTwice
  <2>4. QED
    BY <1>1, <2>2, <2>3, EndType DEF TurnOutcome
<1>4. ASSUME NEW o \in TurnOutcome, TurnEnds(c, o) PROVE TypeOK'
  <2> DEFINE r == Ended(rec[t], c, o)
  <2>1. r \in ThreadRecord
    BY <1>0, <1>1, EndedType
  <2>2. Emit(r, E) \in ThreadRecord /\ store(r) \in StoredThread
    BY <1>0, <2>1, EmitType, StoredType
  <2>3. Apply(t, Emit(r, E), store(r), 0)
    BY <1>4 DEF TurnEnds, Commit
  <2>4. QED
    BY <1>1, <1>4, <2>2, <2>3, EndType DEF TurnEnds
<1>5. ASSUME NEW o \in TurnOutcome, TerminalLost(c, o) PROVE TypeOK'
  <2> DEFINE once == Emit(Ended(rec[t], c, o), E)
             last == IF o = "completed" THEN Emit(Ended(once, c, "failed"), E) ELSE once
             r == Forget(last, c)
             lost == IF o = "completed" THEN 2 ELSE 1
  <2>1. once \in ThreadRecord
    BY <1>0, <1>1, EndedType, EmitType
  <2>2. last \in ThreadRecord
    BY <1>0, <1>1, <2>1, EndedType, EmitType DEF TurnOutcome
  <2>3. r \in ThreadRecord /\ Stored(durable[t], r, <<>>) \in StoredThread
    BY <1>0, <2>2, ForgetType, StoredType
  <2>4. Apply(t, r, Stored(durable[t], r, <<>>), lost) \/ Apply(t, r, durable[t], lost + 1)
    BY <1>5 DEF TerminalLost
  <2>5. lost \in Nat /\ lost + 1 \in Nat
    OBVIOUS
  <2>6. Resolve(c, Raise("CancelledError")) /\ Leave(c, Raise("ThreadStoreError"))
    BY <1>5 DEF TerminalLost
  <2> HIDE DEF r, lost
  <2>7. QED
    BY <1>0, <1>2, <2>3, <2>4, <2>5, <2>6, EndType
<1>6. ASSUME NEW o \in TurnOutcome, ReplayLost(c, o) PROVE TypeOK'
  <2> DEFINE r == Ended(rec[t], c, o)
             f == Forget(r, c)
  <2>1. r \in ThreadRecord /\ f \in ThreadRecord
    BY <1>0, <1>1, EndedType, ForgetType
  <2>2. Emit(f, E) \in ThreadRecord /\ store(r) \in StoredThread
    BY <1>0, <2>1, EmitType, StoredType
  <2>3. Stored(store(r), f, <<>>) \in StoredThread
    BY <1>0, <2>1, <2>2, StoredType
  <2>4. Apply(t, Emit(f, E), Stored(store(r), f, <<>>), 1) \/ Apply(t, Emit(f, E), store(r), 2)
    BY <1>6 DEF ReplayLost
  <2>5. Resolve(c, Summary(c, o)) /\ Leave(c, Raise("ThreadStoreError"))
    BY <1>6 DEF ReplayLost
  <2> HIDE DEF r, f
  <2>6. QED
    BY <1>1, <1>2, <2>2, <2>3, <2>4, <2>5, EndType
<1>7. ASSUME NEW o \in TurnOutcome, ReturnLost(c, o) PROVE TypeOK'
  <2> DEFINE r == Ended(rec[t], c, o)
  <2>1. r \in ThreadRecord
    BY <1>0, <1>1, EndedType
  <2>2. Emit(r, E) \in ThreadRecord /\ store(r) \in StoredThread
    BY <1>0, <2>1, EmitType, StoredType
  <2>3. Apply(t, Emit(r, E), store(r), 1)
    BY <1>7 DEF ReturnLost
  <2>4. QED
    BY <1>1, <1>2, <1>7, <2>2, <2>3, EndType DEF ReturnLost
<1>8. QED
  BY <1>3, <1>4, <1>5, <1>6, <1>7 DEF TurnTerminates
-----------------------------------------------------------------------------
(* The ends of the suspended calls that touch no Turn. *)
LEMMA WaiterType ==
    ASSUME TypeOK, NEW c \in Call, CleanupEnds(c) \/ JoinEnds(c)
    PROVE  TypeOK'
<1> DEFINE t == ThreadOf[c]
<1>0. /\ t \in Thread /\ rec[t] \in ThreadRecord /\ result[c] \in Result
      /\ Raise("CancelledError") \in Result
  BY CallAssumption, RaiseType DEF TypeOK, ErrorCode
<1>1. CASE CleanupEnds(c)
  <2>1. [rec[t] EXCEPT !.tools = "closed"] \in ThreadRecord
    BY <1>0 DEF ThreadRecord
  <2>2. rec' = [rec EXCEPT ![t] = [rec[t] EXCEPT !.tools = "closed"]]
    BY <1>1 DEF CleanupEnds
  <2>3. rec' \in [Thread -> ThreadRecord]
    BY <2>1, <2>2 DEF TypeOK
  <2>4. \E res \in Result : Finish(c, res)
    BY <1>0, <1>1 DEF CleanupEnds
  <2>5. pc' \in [Call -> PC] /\ result' \in [Call -> Result]
    BY <2>4, FinishType
  <2>6. QED
    BY <1>1, <2>3, <2>5 DEF CleanupEnds, Process, TypeOK, Leases!TypeOK
<1>2. CASE JoinEnds(c)
  <2>1. \A d \in Call : future[d] \in Result
    BY DEF TypeOK
  <2>2. \E res \in Result : Finish(c, res)
    BY <1>0, <1>2, <2>1 DEF JoinEnds
  <2>3. pc' \in [Call -> PC] /\ result' \in [Call -> Result]
    BY <2>2, FinishType
  <2>4. waits' \in [Call -> Call \cup {None}]
    BY <1>2 DEF JoinEnds, TypeOK
  <2>5. QED
    BY <1>2, <2>3, <2>4 DEF JoinEnds, Process, TypeOK, Leases!TypeOK
<1>3. QED
  BY <1>1, <1>2

(* The commands of other callers. *)
LEMMA CommandType ==
    ASSUME TypeOK, NEW t \in Thread, Stop(t) \/ CloseIdle(t) \/ CloseActive(t)
    PROVE  TypeOK'
<1> DEFINE c == rec[t].active
<1>0. /\ rec[t] \in ThreadRecord /\ durable[t] \in StoredThread
      /\ c \in Call \cup {None} /\ <<>> \in Seq(EventRec)
  BY DEF TypeOK, ThreadRecord
<1>1. CASE Stop(t)
  <2>1. c \in Call
    BY <1>0, <1>1 DEF Stop
  <2>2. PICK ok \in BOOLEAN : Commit(t, rec[t], Event("turn_cancel_requested", c), ok)
    BY <1>1 DEF Stop
  <2>3. /\ rec' \in [Thread -> ThreadRecord]
        /\ durable' \in [Thread -> StoredThread]
        /\ storeFailures' \in 0..MaxStoreFailures
    BY <1>0, <2>1, <2>2, CommitType DEF EventType
  <2>4. cancel' \in [Call -> {"no", "task", "turn"}]
    BY <1>1 DEF Stop, TypeOK
  <2>5. QED
    BY <1>1, <2>3, <2>4 DEF Stop, Process, TypeOK, Leases!TypeOK
<1>2. CASE CloseIdle(t)
  <2> DEFINE r == [rec[t] EXCEPT !.closing = TRUE, !.status = "closed",
                                 !.tools = "closed"]
  <2>1. r \in ThreadRecord
    BY <1>0 DEF ThreadRecord, Status
  <2>2. Stored(durable[t], r, <<>>) \in StoredThread
    BY <1>0, <2>1, StoredType
  <2>3. Apply(t, r, Stored(durable[t], r, <<>>), 0) \/ Apply(t, r, durable[t], 1)
    BY <1>2 DEF CloseIdle
  <2>4. /\ rec' \in [Thread -> ThreadRecord]
        /\ durable' \in [Thread -> StoredThread]
        /\ storeFailures' \in 0..MaxStoreFailures
    BY <1>0, <2>1, <2>2, <2>3, ApplyType
  <2>5. QED
    BY <1>2, <2>4 DEF CloseIdle, callVars, Process, TypeOK, Leases!TypeOK
<1>3. CASE CloseActive(t)
  <2> DEFINE r == [rec[t] EXCEPT !.closing = TRUE]
  <2>1. c \in Call /\ r \in ThreadRecord
    BY <1>0, <1>3 DEF CloseActive, ThreadRecord
  <2>2. PICK ok \in BOOLEAN :
            /\ Commit(t, r, Event("thread_close_requested", c), ok)
            /\ cancel' = IF ok THEN [cancel EXCEPT ![c] = "turn"] ELSE cancel
    BY <1>3 DEF CloseActive
  <2>3. /\ rec' \in [Thread -> ThreadRecord]
        /\ durable' \in [Thread -> StoredThread]
        /\ storeFailures' \in 0..MaxStoreFailures
    BY <1>0, <2>1, <2>2, CommitType DEF EventType
  <2>4. cancel' \in [Call -> {"no", "task", "turn"}]
    BY <2>2 DEF TypeOK
  <2>5. QED
    BY <1>3, <2>3, <2>4 DEF CloseActive, Process, TypeOK, Leases!TypeOK
<1>4. QED
  BY <1>1, <1>2, <1>3

(* The cancellation of a call preserves the types. *)
LEMMA CancelTaskType ==
    ASSUME TypeOK, NEW c \in Call, CancelTask(c)
    PROVE  TypeOK'
<1>1. cancel' \in [Call -> {"no", "task", "turn"}]
  BY DEF CancelTask, TypeOK
<1>2. QED
  BY <1>1 DEF CancelTask, Process, TypeOK, Leases!TypeOK

(* aclose, whole or cut short by a failed save, touches the tools and saves    *)
(* records as they are.                                                      *)
LEMMA AcloseFields ==
    ASSUME TypeOK, Aclose \/ AcloseFails
    PROVE  /\ mode = "up" /\ mode' = "stopping" /\ cancel' \in [Call -> {"no", "task", "turn"}]
           /\ UNCHANGED <<leases, pc, result, waits, future, restored, crashes>>
           /\ \/ storeFailures' = storeFailures
              \/ storeFailures' = storeFailures + 1 /\ storeFailures < MaxStoreFailures
           /\ Aclose \/ storeFailures' = storeFailures + 1
           /\ DOMAIN rec' = Thread /\ DOMAIN durable' = Thread
           /\ \A t \in Thread : /\ rec'[t] \in {rec[t], [rec[t] EXCEPT !.tools = "closed"]}
                                /\ durable'[t] \in {durable[t], Stored(durable[t], rec[t], <<>>)}
<1>1. PICK T \in SUBSET Thread : Passed(T)
  BY DEF Aclose, AcloseFails
<1>2. /\ cancel' \in [Call -> {"no", "task", "turn"}] /\ DOMAIN durable' = Thread
      /\ \A t \in Thread : durable'[t] \in {durable[t], Stored(durable[t], rec[t], <<>>)}
  BY <1>1 DEF Passed, TypeOK
<1>3. /\ DOMAIN rec' = Thread
      /\ \A t \in Thread : rec'[t] \in {rec[t], [rec[t] EXCEPT !.tools = "closed"]}
  BY DEF Aclose, AcloseFails, TypeOK
<1>4. QED
  BY <1>1, <1>2, <1>3 DEF Passed, Aclose, AcloseFails

LEMMA AcloseType ==
    ASSUME TypeOK, Aclose \/ AcloseFails
    PROVE  TypeOK'
<1>1. \A t \in Thread : /\ rec[t] \in ThreadRecord /\ durable[t] \in StoredThread
                        /\ <<>> \in Seq(EventRec)
  BY DEF TypeOK
<1>2. \A t \in Thread : [rec[t] EXCEPT !.tools = "closed"] \in ThreadRecord
  BY <1>1 DEF ThreadRecord
<1>3. \A t \in Thread : Stored(durable[t], rec[t], <<>>) \in StoredThread
  BY <1>1, StoredType
<1>4. rec' \in [Thread -> ThreadRecord] /\ durable' \in [Thread -> StoredThread]
  <2>1. \A t \in Thread : rec'[t] \in ThreadRecord /\ durable'[t] \in StoredThread
    BY <1>1, <1>2, <1>3, AcloseFields
  <2>2. /\ rec' = [t \in Thread |-> rec'[t]]
        /\ durable' = [t \in Thread |-> durable'[t]]
    BY DEF Aclose, AcloseFails, Passed, TypeOK
  <2>3. QED
    BY <2>1, <2>2
<1>5. storeFailures' \in 0..MaxStoreFailures
  BY AcloseFields, BoundsAssumption DEF TypeOK
<1>6. QED
  BY <1>4, <1>5, AcloseFields DEF TypeOK, Leases!TypeOK

(* Crash, restart and recovery. *)
LEMMA RecoveryType ==
    ASSUME TypeOK,
           Crash \/ Restart \/ (\E t \in Thread : RestoreThread(t) \/ RestoreFails(t))
    PROVE  TypeOK'
<1>1. CASE Crash
  <2>1. rec' \in [Thread -> ThreadRecord]
    BY <1>1, NewRecordType DEF Crash
  <2>2. pc' \in [Call -> PC]
    BY <1>1 DEF Crash, TypeOK, PC
  <2>3. NoResult \in Result
    BY DEF NoResult, Raise, Result, ErrorCode
  <2>4. result' \in [Call -> Result] /\ future' \in [Call -> Result]
    BY <1>1, <2>3 DEF Crash, TypeOK
  <2>5. leases' \in [Call -> Workspace \cup {None}]
    BY <1>1 DEF Crash, Leases!ProcessEnds, Leases!Free
  <2>6. crashes' \in 0..MaxCrashes
    BY <1>1, BoundsAssumption DEF Crash, TypeOK
  <2>7. /\ mode' = "down" /\ waits' \in [Call -> Call \cup {None}]
        /\ cancel' \in [Call -> {"no", "task", "turn"}] /\ restored' = {}
        /\ durable' = durable /\ storeFailures' = storeFailures
    BY <1>1 DEF Crash
  <2>8. QED
    BY <2>1, <2>2, <2>4, <2>5, <2>6, <2>7 DEF TypeOK, Leases!TypeOK
<1>2. CASE Restart
  BY <1>2 DEF Restart, callVars, TypeOK, Leases!TypeOK
<1>3. ASSUME NEW t \in Thread, RestoreThread(t) PROVE TypeOK'
  <2> DEFINE d == durable[t]
  <2>1. d \in StoredThread /\ <<>> \in Seq(EventRec)
    BY DEF TypeOK
  <2>2. Loaded(d) \in ThreadRecord /\ Repaired(d) \in ThreadRecord
    BY <2>1, LoadedType
  <2>3. Stored(d, Repaired(d), <<>>) \in StoredThread
    BY <2>1, <2>2, StoredType
  <2>4. /\ rec' \in [Thread -> ThreadRecord]
        /\ durable' \in [Thread -> StoredThread]
        /\ storeFailures' \in 0..MaxStoreFailures
    <3>1. CASE Apply(t, Repaired(d), Stored(d, Repaired(d), <<>>), 0)
      BY <3>1, <2>2, <2>3, ApplyType
    <3>2. CASE d.active # None /\ Commit(t, Recovered(d), Terminal(d.active), TRUE)
      <4>1. d.active \in Call /\ Recovered(d) \in ThreadRecord
        BY <2>1, <3>2, RecoveredType DEF StoredThread
      <4>2. QED
        BY <3>2, <4>1, CommitType DEF Terminal, EventType
    <3>3. CASE Apply(t, Loaded(d), d, 0)
      BY <2>1, <2>2, <3>3, ApplyType
    <3>4. QED
      BY <1>3, <3>1, <3>2, <3>3 DEF RestoreThread
  <2>5. restored' \subseteq Thread /\ mode' \in {"up", "stopping", "down", "starting"}
    BY <1>3 DEF RestoreThread, TypeOK
  <2>6. QED
    BY <1>3, <2>4, <2>5 DEF RestoreThread, callVars, TypeOK, Leases!TypeOK
<1>4. ASSUME NEW t \in Thread, RestoreFails(t) PROVE TypeOK'
  <2> DEFINE d == durable[t]
             e == Stored(d, Recovered(d), <<Terminal(d.active)>>)
  <2>1. d \in StoredThread /\ d.active \in Call /\ d.active # None
    BY <1>4 DEF TypeOK, RestoreFails, StoredThread
  <2>2. e \in StoredThread
    <3>1. Terminal(d.active) \in EventRec
      BY <2>1 DEF Terminal, Event, EventRec, EventType
    <3>2. <<Terminal(d.active)>> \in Seq(EventRec)
      BY <3>1
    <3>3. Recovered(d) \in ThreadRecord
      BY <2>1, RecoveredType
    <3>4. QED
      BY <2>1, <3>2, <3>3, StoredType
  <2>3. durable' = durable \/ durable' = [durable EXCEPT ![t] = e]
    BY <1>4 DEF RestoreFails
  <2> HIDE DEF e
  <2>4. durable' \in [Thread -> StoredThread]
    BY <2>2, <2>3 DEF TypeOK
  <2>5. rec' \in [Thread -> ThreadRecord]
    BY <1>4, NewRecordType DEF RestoreFails
  <2>6. storeFailures' \in 0..MaxStoreFailures /\ mode' = "down" /\ restored' = {}
    BY <1>4, BoundsAssumption DEF RestoreFails, TypeOK
  <2>7. QED
    BY <1>4, <2>4, <2>5, <2>6 DEF RestoreFails, callVars, TypeOK, Leases!TypeOK
<1>5. QED
  BY <1>1, <1>2, <1>3, <1>4
-----------------------------------------------------------------------------
(* Every step preserves the types. *)
LEMMA NextType == TypeOK /\ [Next]_vars => TypeOK'
<1> SUFFICES ASSUME TypeOK, [Next]_vars PROVE TypeOK'
  OBVIOUS
<1>1. ASSUME NEW c \in Call, Invoke(c) PROVE TypeOK'
  BY <1>1, InvokeType
<1>2. ASSUME NEW c \in Call, Settles(c) PROVE TypeOK'
  <2>1. CASE Preflight(c)
    BY <2>1, PreflightType
  <2>2. CASE SettleApproval(c)
    BY <2>2, SetWaitingType DEF SettleApproval, EventType, Status
  <2>3. CASE TurnTerminates(c)
    BY <2>3, TurnTerminatesType
  <2>4. CASE CleanupEnds(c) \/ JoinEnds(c)
    BY <2>4, WaiterType
  <2>5. QED
    BY <1>2, <2>1, <2>2, <2>3, <2>4 DEF Settles
<1>3. ASSUME NEW c \in Call, RequestApproval(c) PROVE TypeOK'
  BY <1>3, SetWaitingType DEF RequestApproval, EventType, Status
<1>4. ASSUME NEW c \in Call, CancelTask(c) PROVE TypeOK'
  BY <1>4, CancelTaskType
<1>5. ASSUME NEW t \in Thread, Stop(t) \/ CloseIdle(t) \/ CloseActive(t)
      PROVE  TypeOK'
  BY <1>5, CommandType
<1>6. ASSUME Aclose \/ AcloseFails PROVE TypeOK'
  BY <1>6, AcloseType
<1>7. ASSUME Crash \/ Restart \/ (\E t \in Thread : RestoreThread(t) \/ RestoreFails(t))
      PROVE  TypeOK'
  BY <1>7, RecoveryType
<1>8. ASSUME UNCHANGED vars PROVE TypeOK'
  BY <1>8 DEF vars, callVars, TypeOK, Leases!TypeOK
<1>9. QED
  BY <1>1, <1>2, <1>3, <1>4, <1>5, <1>6, <1>7, <1>8 DEF Next

(* Every reachable state of the Runtime is well formed: every call's result   *)
(* is a summary or a known error, every record and stored Thread is complete. *)
THEOREM TypeCorrect == Spec => []TypeOK
<1>1. Init => TypeOK
  BY InitType
<1>2. TypeOK /\ [Next]_vars => TypeOK'
  BY NextType
<1>3. QED
  BY <1>1, <1>2, PTL DEF Spec
-----------------------------------------------------------------------------
(* The inductive strengthening of RecordsAgree: what the store says of a      *)
(* Thread agrees with itself too, or recovery would load a disagreement, and  *)
(* a process that is down or starting has no Turn.                           *)
Consistent(r) == (r.status \in {"running", "waiting_approval"}) <=> (r.active # None)
StoredAgrees == \A t \in Thread : Consistent(durable[t])
QuietUntilUp == mode \in {"down", "starting"} =>
    \A t \in Thread : rec[t].active = None /\ rec[t].preflight = None

AgreeInv == RecordsAgree /\ StoredAgrees /\ QuietUntilUp

(* What the place p of call c must be when its Thread's record is r. *)
PlaceAgrees(p, c, r) == /\ (p = "running") <=> (r.active = c)
                        /\ (p = "validating") <=> (r.preflight = c)

(* A step that changes one Thread, and only the calls of that Thread.        *)
LEMMA OneThreadAgrees ==
    ASSUME TypeOK, AgreeInv, NEW t \in Thread,
           NEW r \in ThreadRecord, NEW d \in StoredThread, NEW n \in Nat, Apply(t, r, d, n),
           Consistent(r), Consistent(d), r.active # None => r.preflight = None,
           \A c \in Call : ThreadOf[c] = t => PlaceAgrees(pc'[c], c, r),
           \A c \in Call : ThreadOf[c] # t => pc'[c] = pc[c],
           mode' \in {"down", "starting"} =>
              mode = mode' /\ r.active = None /\ r.preflight = None
    PROVE  AgreeInv'
<1>1. rec' = [rec EXCEPT ![t] = r] /\ durable' = [durable EXCEPT ![t] = d]
  BY DEF Apply
<1>2. /\ rec'[t] = r /\ durable'[t] = d
      /\ \A u \in Thread : u # t => rec'[u] = rec[u] /\ durable'[u] = durable[u]
  BY <1>1 DEF TypeOK
<1>3. \A u \in Thread : Consistent(rec'[u]) /\ Consistent(durable'[u])
  BY <1>2 DEF AgreeInv, RecordsAgree, StoredAgrees, Consistent
<1>4. \A u \in Thread : rec'[u].active # None => rec'[u].preflight = None
  BY <1>2 DEF AgreeInv, RecordsAgree
<1>5. \A c \in Call : PlaceAgrees(pc'[c], c, rec'[ThreadOf[c]])
  <2> TAKE c \in Call
  <2>1. ThreadOf[c] \in Thread
    BY CallAssumption
  <2>2. CASE ThreadOf[c] = t
    BY <1>2, <2>2 DEF PlaceAgrees
  <2>3. CASE ThreadOf[c] # t
    BY <1>2, <2>1, <2>3 DEF PlaceAgrees, AgreeInv, RecordsAgree
  <2>4. QED
    BY <2>2, <2>3
<1>6. QuietUntilUp'
  BY <1>2 DEF AgreeInv, QuietUntilUp
<1>7. RecordsAgree'
  BY <1>3, <1>4, <1>5 DEF RecordsAgree, PlaceAgrees, Consistent
<1>8. StoredAgrees'
  BY <1>3 DEF StoredAgrees
<1>9. QED
  BY <1>6, <1>7, <1>8 DEF AgreeInv
(* The common case: the process is up, and one call of the Thread moves. *)
LEMMA OneCallAgrees ==
    ASSUME TypeOK, AgreeInv, NEW t \in Thread,
           NEW r \in ThreadRecord, NEW d \in StoredThread, NEW n \in Nat, Apply(t, r, d, n),
           Consistent(r), Consistent(d), r.active # None => r.preflight = None,
           mode \in Running, mode' = mode,
           NEW c \in Call, ThreadOf[c] = t, PlaceAgrees(pc'[c], c, r),
           \A b \in Call : b # c => pc'[b] = pc[b],
           \A b \in Call : b # c /\ ThreadOf[b] = t => PlaceAgrees(pc[b], b, r)
    PROVE  AgreeInv'
<1>1. \A b \in Call : ThreadOf[b] = t => PlaceAgrees(pc'[b], b, r)
  OBVIOUS
<1>2. \A b \in Call : ThreadOf[b] # t => pc'[b] = pc[b]
  OBVIOUS
<1>3. mode' \notin {"down", "starting"}
  BY DEF Running
<1>4. QED
  BY <1>1, <1>2, <1>3, OneThreadAgrees

(* ... or none does. *)
LEMMA NoCallAgrees ==
    ASSUME TypeOK, AgreeInv, NEW t \in Thread,
           NEW r \in ThreadRecord, NEW d \in StoredThread, NEW n \in Nat, Apply(t, r, d, n),
           Consistent(r), Consistent(d), mode \in Running, mode' = mode, pc' = pc,
           r.active = rec[t].active, r.preflight = rec[t].preflight
    PROVE  AgreeInv'
<1>1. \A b \in Call : ThreadOf[b] = t => PlaceAgrees(pc'[b], b, r)
  BY DEF AgreeInv, RecordsAgree, PlaceAgrees
<1>2. r.active # None => r.preflight = None
  BY DEF AgreeInv, RecordsAgree
<1>3. mode' \notin {"down", "starting"}
  BY DEF Running
<1>4. QED
  BY <1>1, <1>2, <1>3, OneThreadAgrees

(* A step that changes no record and moves calls between places of no Turn.  *)
LEMMA NoRecordAgrees ==
    ASSUME TypeOK, AgreeInv, rec' = rec, durable' = durable,
           mode' = mode, NEW c \in Call,
           pc[c] \notin {"running", "validating"}, pc'[c] \notin {"running", "validating"},
           \A b \in Call : b # c => pc'[b] = pc[b]
    PROVE  AgreeInv'
<1>1. \A b \in Call : /\ (pc'[b] = "running") <=> (pc[b] = "running")
                      /\ (pc'[b] = "validating") <=> (pc[b] = "validating")
  OBVIOUS
<1>2. RecordsAgree'
  BY <1>1 DEF AgreeInv, RecordsAgree
<1>3. StoredAgrees' /\ QuietUntilUp'
  BY DEF AgreeInv, StoredAgrees, QuietUntilUp
<1>4. QED
  BY <1>2, <1>3 DEF AgreeInv

(* What the helpers do to the fields of the slot. *)
SameSlot(r, q) == r.status = q.status /\ r.active = q.active /\ r.preflight = q.preflight

(* The helpers on records do not touch the fields AgreeInv speaks of, or set them as named. *)
LEMMA HelperSlots ==
    ASSUME NEW r \in ThreadRecord, NEW c \in Call
    PROVE  /\ \A e : SameSlot(Emit(r, e), r)
           /\ SameSlot(Forget(r, c), r)
           /\ \A old, ev : /\ Stored(old, r, ev).status = r.status
                           /\ Stored(old, r, ev).active = r.active
           /\ \A o : /\ Ended(r, c, o).active = None
                     /\ Ended(r, c, o).preflight = r.preflight
                     /\ Ended(r, c, o).status \in {"idle", "closed"}
<1>1. \A e : SameSlot(Emit(r, e), r)
  BY DEF Emit, SameSlot, ThreadRecord
<1>2. SameSlot(Forget(r, c), r)
  BY DEF Forget, SameSlot, ThreadRecord
<1>3. \A old, ev : Stored(old, r, ev).status = r.status /\ Stored(old, r, ev).active = r.active
  BY DEF Stored
<1>4. \A o : /\ Ended(r, c, o).active = None
            /\ Ended(r, c, o).preflight = r.preflight
            /\ Ended(r, c, o).status \in {"idle", "closed"}
  BY DEF Ended, ThreadRecord
<1>5. QED
  BY <1>1, <1>2, <1>3, <1>4
(* A commit stores the status and the active Turn of its record. *)
LEMMA StoredSlot ==
    ASSUME NEW old \in StoredThread, NEW r \in ThreadRecord, NEW ev \in Seq(EventRec),
           Consistent(r)
    PROVE  Stored(old, r, ev) \in StoredThread /\ Consistent(Stored(old, r, ev))
<1>1. Stored(old, r, ev).status = r.status /\ Stored(old, r, ev).active = r.active
  BY DEF Stored
<1>2. QED
  BY <1>1, StoredType DEF Consistent

(* A commit of a consistent record, whether it succeeds or fails. *)
LEMMA CommitSlot ==
    ASSUME TypeOK, AgreeInv, NEW t \in Thread, NEW r \in ThreadRecord, Consistent(r),
           NEW c \in Call, NEW k \in EventType, NEW ok \in BOOLEAN,
           Commit(t, r, Event(k, c), ok)
    PROVE  \E q \in ThreadRecord, d \in StoredThread, n \in Nat :
              Apply(t, q, d, n) /\ SameSlot(q, r) /\ Consistent(q) /\ Consistent(d)
<1> DEFINE e == Event(k, c)
           q == Emit(r, e)
           d == IF ok THEN Stored(durable[t], r, <<e>>) ELSE durable[t]
           n == IF ok THEN 0 ELSE 1
<1>1. e \in EventRec /\ <<e>> \in Seq(EventRec)
  BY EventTypes
<1>2. q \in ThreadRecord /\ SameSlot(q, r) /\ Consistent(q)
  BY <1>1, EmitType, HelperSlots DEF SameSlot, Consistent
<1>3. durable[t] \in StoredThread
  BY DEF TypeOK
<1>4. Stored(durable[t], r, <<e>>) \in StoredThread /\ Consistent(Stored(durable[t], r, <<e>>))
  BY <1>1, <1>3, StoredSlot
<1>5. d \in StoredThread /\ Consistent(d) /\ n \in Nat
  BY <1>3, <1>4 DEF AgreeInv, StoredAgrees
<1>6. Apply(t, q, d, n)
  BY DEF Commit
<1> HIDE DEF q, d, n
<1>7. QED
  BY <1>2, <1>5, <1>6
-----------------------------------------------------------------------------
(* The initial states satisfy AgreeInv. *)
LEMMA InitAgrees == Init => AgreeInv
<1> SUFFICES ASSUME Init PROVE AgreeInv
  OBVIOUS
<1>1. \A t \in Thread : rec[t] = NewRecord /\ durable[t] = InitialStore[t]
  BY DEF Init, InitialStore
<1>2. /\ NewRecord.active = None /\ NewRecord.preflight = None
      /\ NewRecord.status = "idle"
  BY DEF NewRecord
<1>3. \A c \in Call : pc[c] \notin {"running", "validating"} /\ c # None
                      /\ ThreadOf[c] \in Thread
  BY CallAssumption DEF Init
<1>4. RecordsAgree
  BY <1>1, <1>2, <1>3 DEF RecordsAgree
<1>5. QuietUntilUp
  BY <1>1, <1>2 DEF QuietUntilUp
<1>6. StoredAgrees
  <2> SUFFICES ASSUME NEW t \in Thread PROVE Consistent(durable[t])
    BY DEF StoredAgrees
  <2>1. CASE \E c \in Legacy : ThreadOf[c] = t
    <3>1. PICK c \in Legacy : durable[t] = Leftover(c)
      BY <1>1, <2>1 DEF InitialStore
    <3>2. c # None
      BY CallAssumption
    <3>3. Leftover(c).status = "running" /\ Leftover(c).active = c
      BY DEF Leftover
    <3>4. QED
      BY <3>1, <3>2, <3>3 DEF Consistent
  <2>2. CASE ~ \E c \in Legacy : ThreadOf[c] = t
    <3>1. durable[t] = Stored([events |-> <<>>], NewRecord, <<>>)
      BY <1>1, <2>2 DEF InitialStore
    <3>2. QED
      BY <1>2, <3>1, NewRecordType, HelperSlots DEF Consistent, Stored
  <2>3. QED
    BY <2>1, <2>2
<1>7. QED
  BY <1>4, <1>5, <1>6 DEF AgreeInv

(* A new call keeps records and calls in agreement. *)
LEMMA InvokeAgrees ==
    ASSUME TypeOK, AgreeInv, NEW c \in Call, Invoke(c)
    PROVE  AgreeInv'
<1> DEFINE t == ThreadOf[c]
<1>0. t \in Thread /\ rec[t] \in ThreadRecord /\ c # None
  BY CallAssumption DEF TypeOK
<1>1. CASE AnswerFromKey(c) \/ Join(c) \/ Refuse(c)
  <2>1. /\ pc[c] = "idle" /\ pc'[c] \in {"done", "joined"} /\ mode' = mode
        /\ rec' = rec /\ durable' = durable /\ \A b \in Call : b # c => pc'[b] = pc[b]
    BY <1>1 DEF AnswerFromKey, Join, Refuse, Finish, Process, TypeOK
  <2>2. QED
    BY <2>1, NoRecordAgrees
<1>2. CASE BeginPreflight(c)
  <2> DEFINE r == [rec[t] EXCEPT !.preflight = c]
  <2>1. /\ mode' = mode /\ mode \in Running /\ durable' = durable
        /\ rec' = [rec EXCEPT ![t] = r] /\ ~Occupied(rec[t])
        /\ storeFailures' = storeFailures
        /\ pc[c] = "idle" /\ pc' = [pc EXCEPT ![c] = "validating"]
    BY <1>2 DEF BeginPreflight, Process, Running
  <2>2. r \in ThreadRecord /\ r.active = rec[t].active /\ r.preflight = c
        /\ r.status = rec[t].status
    BY <1>0 DEF ThreadRecord
  <2>3. rec[t].status = "idle" /\ rec[t].preflight = None /\ rec[t].active = None
    BY <1>0, <2>1 DEF Occupied, AgreeInv, RecordsAgree
  <2>4. Apply(t, r, durable[t], 0) /\ durable[t] \in StoredThread /\ Consistent(durable[t])
    BY <1>0, <2>1, BoundsAssumption DEF Apply, TypeOK, AgreeInv, StoredAgrees
  <2>5. PlaceAgrees(pc'[c], c, r) /\ Consistent(r)
    BY <1>0, <2>1, <2>2, <2>3 DEF PlaceAgrees, Consistent, TypeOK
  <2>6. \A b \in Call : b # c => pc'[b] = pc[b]
    BY <2>1 DEF TypeOK
  <2>7. \A b \in Call : b # c /\ ThreadOf[b] = t => PlaceAgrees(pc[b], b, r)
    BY <2>2, <2>3, CallAssumption DEF PlaceAgrees, AgreeInv, RecordsAgree
  <2> HIDE DEF r
  <2>8. QED
    BY <1>0, <2>1, <2>2, <2>3, <2>4, <2>5, <2>6, <2>7, OneCallAgrees
<1>3. QED
  BY <1>1, <1>2 DEF Invoke

(* A preflight that ends without a Turn. *)
LEMMA RejectionAgrees ==
    ASSUME TypeOK, AgreeInv, NEW c \in Call, mode \in Running, mode' = mode,
           pc[c] = "validating", pc' = [pc EXCEPT ![c] = "done"],
           NEW r \in ThreadRecord, r.preflight = None, r.active = rec[ThreadOf[c]].active,
           r.status = rec[ThreadOf[c]].status,
           NEW d \in StoredThread, Consistent(d), NEW n \in Nat, Apply(ThreadOf[c], r, d, n)
    PROVE  AgreeInv'
<1> DEFINE t == ThreadOf[c]
<1>1. t \in Thread /\ c # None
  BY CallAssumption
<1>2. rec[t].preflight = c /\ rec[t].active = None
  BY <1>1 DEF AgreeInv, RecordsAgree
<1>3. Consistent(r)
  BY <1>1 DEF AgreeInv, RecordsAgree, Consistent
<1>4. PlaceAgrees(pc'[c], c, r) /\ \A b \in Call : b # c => pc'[b] = pc[b]
  BY <1>1, <1>2 DEF PlaceAgrees, TypeOK
<1>5. \A b \in Call : b # c /\ ThreadOf[b] = t => PlaceAgrees(pc[b], b, r)
  BY <1>2, CallAssumption DEF PlaceAgrees, AgreeInv, RecordsAgree
<1>6. QED
  BY <1>1, <1>3, <1>4, <1>5, OneCallAgrees

(* So do the steps of a preflight. *)
LEMMA PreflightAgrees ==
    ASSUME TypeOK, AgreeInv, NEW c \in Call, Preflight(c)
    PROVE  AgreeInv'
<1> DEFINE t == ThreadOf[c]
<1>0. /\ t \in Thread /\ rec[t] \in ThreadRecord /\ durable[t] \in StoredThread
      /\ Consistent(durable[t]) /\ c # None
  BY CallAssumption DEF TypeOK, AgreeInv, StoredAgrees
<1>1. /\ mode \in Running /\ mode' = mode /\ pc[c] = "validating"
      /\ c # None /\ rec[t].preflight = c /\ rec[t].active = None
  <2>1. mode \in Running /\ pc[c] = "validating"
    BY DEF Preflight, RejectCancelled, RejectInvalidRoot, RejectBusy, RejectClosed,
       RejectContext, StartTurn, StartLost, CanStart
  <2>2. mode' = mode
    BY DEF Preflight, RejectCancelled, RejectInvalidRoot, RejectBusy, RejectClosed,
       RejectContext, StartTurn, StartLost, Reject, Process
  <2>3. QED
    BY <1>0, <2>1, <2>2 DEF AgreeInv, RecordsAgree
<1>2. ASSUME NEW code, NEW holds, NEW ok \in BOOLEAN, Reject(c, code, holds, ok)
      PROVE AgreeInv'
  <2> DEFINE r == [rec[t] EXCEPT !.preflight = None]
  <2>1. /\ r \in ThreadRecord /\ r.preflight = None /\ r.active = rec[t].active
        /\ r.status = rec[t].status
    BY <1>0 DEF ThreadRecord
  <2>2. Commit(t, r, Event("turn_rejected", c), ok) /\ pc' = [pc EXCEPT ![c] = "done"]
    BY <1>2 DEF Reject, Finish
  <2>3. Consistent(r)
    BY <1>0, <2>1 DEF Consistent, AgreeInv, RecordsAgree
  <2>4. PICK q \in ThreadRecord, d \in StoredThread, n \in Nat :
              Apply(t, q, d, n) /\ SameSlot(q, r) /\ Consistent(q) /\ Consistent(d)
    BY <1>0, <2>1, <2>2, <2>3, CommitSlot DEF EventType
  <2>5. QED
    BY <1>1, <2>1, <2>2, <2>4, RejectionAgrees DEF SameSlot
<1>3. CASE StartTurn(c)
  <2> DEFINE r == [rec[t] EXCEPT !.preflight = None, !.status = "running",
                                 !.active = c, !.idem = PutKey(@, c, Submission(c))]
  <2>1. /\ r.preflight = None /\ r.active = c /\ r.status = "running"
    BY <1>0 DEF ThreadRecord
  <2>2. r \in ThreadRecord
    <3>1. PutKey(rec[t].idem, c, Submission(c)) \in [Key -> SubmissionRec]
      BY <1>0, SubmissionType, PutKeyType DEF ThreadRecord
    <3>2. QED
      BY <1>0, <3>1 DEF ThreadRecord, Status
  <2>3. Commit(t, r, Event("turn_started", c), TRUE) /\ pc' = [pc EXCEPT ![c] = "running"]
    BY <1>3 DEF StartTurn
  <2>4. Consistent(r)
    BY <1>1, <2>1 DEF Consistent
  <2>5. PICK q \in ThreadRecord, d \in StoredThread, n \in Nat :
              Apply(t, q, d, n) /\ SameSlot(q, r) /\ Consistent(q) /\ Consistent(d)
    BY <1>0, <2>2, <2>3, <2>4, CommitSlot DEF EventType
  <2>6. PlaceAgrees(pc'[c], c, q) /\ \A b \in Call : b # c => pc'[b] = pc[b]
    BY <1>1, <2>1, <2>3, <2>5 DEF PlaceAgrees, TypeOK, SameSlot
  <2>7. \A b \in Call : b # c /\ ThreadOf[b] = t => PlaceAgrees(pc[b], b, q)
    BY <1>1, <2>1, <2>5, CallAssumption DEF PlaceAgrees, AgreeInv, RecordsAgree, SameSlot
  <2>8. q.active # None => q.preflight = None
    BY <2>1, <2>5 DEF SameSlot
  <2>9. QED
    BY <1>0, <1>1, <2>5, <2>6, <2>7, <2>8, OneCallAgrees
<1>4. CASE StartLost(c)
  <2> DEFINE p == [rec[t] EXCEPT !.preflight = None]
             r == Emit(p, Event("turn_started", c))
  <2>1. p \in ThreadRecord /\ p.preflight = None /\ p.active = rec[t].active
        /\ p.status = rec[t].status
    BY <1>0 DEF ThreadRecord
  <2>2. r \in ThreadRecord /\ SameSlot(r, p)
    BY <2>1, EventTypes, EmitType, HelperSlots DEF EventType
  <2>3. Consistent(r)
    BY <1>0, <2>1, <2>2 DEF Consistent, AgreeInv, RecordsAgree, SameSlot
  <2>4. Stored(durable[t], r, <<>>) \in StoredThread /\ Consistent(Stored(durable[t], r, <<>>))
    <3>1. <<>> \in Seq(EventRec)
      OBVIOUS
    <3>2. QED
      BY <1>0, <2>2, <2>3, <3>1, StoredSlot
  <2>5. /\ Apply(t, r, Stored(durable[t], r, <<>>), 1) \/ Apply(t, r, durable[t], 2)
        /\ pc' = [pc EXCEPT ![c] = "done"]
    BY <1>4 DEF StartLost, Finish
  <2>6. /\ r.preflight = None /\ r.active = rec[t].active /\ r.status = rec[t].status
    BY <2>1, <2>2 DEF SameSlot
  <2> HIDE DEF r
  <2>7. QED
    BY <1>0, <1>1, <2>2, <2>4, <2>5, <2>6, RejectionAgrees
<1>5. QED
  BY <1>2, <1>3, <1>4 DEF Preflight, RejectCancelled, RejectInvalidRoot, RejectBusy,
     RejectClosed, RejectContext
-----------------------------------------------------------------------------
(* The active Turn. *)
LEMMA ApprovalAgrees ==
    ASSUME TypeOK, AgreeInv, NEW c \in Call, RequestApproval(c) \/ SettleApproval(c)
    PROVE  AgreeInv'
<1> DEFINE t == ThreadOf[c]
<1>0. t \in Thread /\ rec[t] \in ThreadRecord
  BY CallAssumption DEF TypeOK
<1>1. PICK k \in EventType, before \in {"running", "waiting_approval"},
           after \in {"running", "waiting_approval"} : SetWaiting(c, k, before, after)
  BY DEF RequestApproval, SettleApproval, EventType
<1> DEFINE r == [rec[t] EXCEPT !.status = after]
<1>2. /\ r \in ThreadRecord /\ r.status = after
      /\ r.active = rec[t].active /\ r.preflight = rec[t].preflight
  BY <1>0 DEF ThreadRecord, Status
<1>3. /\ mode \in Running /\ rec[t].status = before /\ Commit(t, r, Event(k, c), TRUE)
      /\ pc' = pc /\ mode' = mode
  BY <1>1 DEF SetWaiting, Active, Process
<1>4. Consistent(r)
  BY <1>0, <1>2, <1>3 DEF Consistent, AgreeInv, RecordsAgree
<1>5. PICK q \in ThreadRecord, d \in StoredThread, n \in Nat :
            Apply(t, q, d, n) /\ SameSlot(q, r) /\ Consistent(q) /\ Consistent(d)
  BY <1>0, <1>2, <1>3, <1>4, CommitSlot
<1>6. QED
  BY <1>0, <1>2, <1>3, <1>5, NoCallAgrees DEF SameSlot

(* However a Turn ends, the record names no Turn and its call has left. *)
LEMMA EndAgrees ==
    ASSUME TypeOK, AgreeInv, NEW c \in Call, Active(c),
           NEW r \in ThreadRecord, r.active = None, r.preflight = rec[ThreadOf[c]].preflight,
           r.status \in {"idle", "closed"},
           NEW d \in StoredThread, Consistent(d), NEW n \in Nat, Apply(ThreadOf[c], r, d, n),
           NEW res, Leave(c, res)
    PROVE  AgreeInv'
<1> DEFINE t == ThreadOf[c]
<1>0. t \in Thread /\ c # None /\ mode \in Running /\ pc[c] = "running"
  BY CallAssumption DEF Active
<1>1. rec[t].active = c /\ rec[t].preflight = None
  BY <1>0 DEF AgreeInv, RecordsAgree
<1>2. /\ pc'[c] \in {"cleanup", "done"} /\ mode' = mode
      /\ \A b \in Call : b # c => pc'[b] = pc[b]
  BY DEF Leave, Process, TypeOK
<1>3. Consistent(r)
  BY DEF Consistent
<1>4. PlaceAgrees(pc'[c], c, r)
  BY <1>0, <1>1, <1>2 DEF PlaceAgrees
<1>5. \A b \in Call : b # c /\ ThreadOf[b] = t => PlaceAgrees(pc[b], b, r)
  BY <1>1, CallAssumption DEF PlaceAgrees, AgreeInv, RecordsAgree
<1>6. QED
  BY <1>0, <1>2, <1>3, <1>4, <1>5, OneCallAgrees

(* The record after a Turn ended, an event was emitted or a key forgotten. *)
Over(r) == r.active = None /\ r.preflight = None /\ r.status \in {"idle", "closed"}

(* The record of a Turn that ended has no active Turn and no preflight. *)
LEMMA OverSlots ==
    ASSUME NEW r \in ThreadRecord, NEW c \in Call
    PROVE  /\ \A o \in Outcome : r.preflight = None =>
                 Ended(r, c, o) \in ThreadRecord /\ Over(Ended(r, c, o))
           /\ Over(r) => Over(Emit(r, Terminal(c))) /\ Over(Forget(r, c)) /\ Consistent(r)
           /\ Emit(r, Terminal(c)) \in ThreadRecord /\ Forget(r, c) \in ThreadRecord
           /\ Emit(r, Terminal(c)).preflight = r.preflight
<1>1. Emit(r, Terminal(c)) \in ThreadRecord /\ Forget(r, c) \in ThreadRecord
  BY EventTypes, EmitType, ForgetType DEF Terminal, EventType
<1>2. Over(r) => Over(Emit(r, Terminal(c))) /\ Over(Forget(r, c))
  BY HelperSlots DEF SameSlot, Over
<1>3. Over(r) => Consistent(r)
  BY DEF Over, Consistent
<1>4. \A o \in Outcome : r.preflight = None =>
                 Ended(r, c, o) \in ThreadRecord /\ Over(Ended(r, c, o))
  BY HelperSlots, EndedType DEF Over
<1>5. Emit(r, Terminal(c)).preflight = r.preflight
  BY HelperSlots DEF SameSlot
<1>6. QED
  BY <1>1, <1>2, <1>3, <1>4, <1>5

(* The end of a Turn keeps records and calls in agreement. *)
LEMMA TurnAgrees ==
    ASSUME TypeOK, AgreeInv, NEW c \in Call, TurnTerminates(c)
    PROVE  AgreeInv'
<1> DEFINE t == ThreadOf[c]
           E == Terminal(c)
<1>0. /\ t \in Thread /\ rec[t] \in ThreadRecord
      /\ durable[t] \in StoredThread /\ Consistent(durable[t])
      /\ <<E>> \in Seq(EventRec) /\ <<>> \in Seq(EventRec)
  BY CallAssumption, EventTypes DEF TypeOK, Terminal, EventType, AgreeInv, StoredAgrees
<1>1. Active(c) /\ rec[t].preflight = None
  <2>1. Active(c)
    BY DEF TurnTerminates, FinishedTwice, TurnEnds, TerminalLost, ReplayLost, ReturnLost
  <2>2. QED
    BY <1>0, <2>1, CallAssumption DEF Active, AgreeInv, RecordsAgree
<1>2. ASSUME NEW r \in ThreadRecord, Over(r), NEW d \in StoredThread, Consistent(d),
             NEW n \in Nat, Apply(t, r, d, n), NEW res, Leave(c, res)
      PROVE  AgreeInv'
  BY <1>0, <1>1, <1>2, EndAgrees DEF Over
<1>3. \A r \in ThreadRecord : Over(r) =>
        /\ Stored(durable[t], r, <<E>>) \in StoredThread
        /\ Consistent(Stored(durable[t], r, <<E>>))
        /\ Stored(durable[t], r, <<>>) \in StoredThread
        /\ Consistent(Stored(durable[t], r, <<>>))
        /\ Over(Emit(r, E)) /\ Emit(r, E) \in ThreadRecord
  BY <1>0, OverSlots, StoredSlot
<1>4. ASSUME FinishedTwice(c) PROVE AgreeInv'
  <2> DEFINE once  == Emit(Ended(rec[t], c, "completed"), E)
             twice == Ended(once, c, "failed")
  <2>1. once \in ThreadRecord /\ Over(once)
    BY <1>0, <1>1, OverSlots DEF Outcome, TurnOutcome
  <2>2. twice \in ThreadRecord /\ Over(twice)
    BY <2>1, OverSlots DEF Outcome, TurnOutcome, Over
  <2>3. Apply(t, Emit(twice, E), Stored(durable[t], twice, <<E>>), 1)
        /\ Leave(c, Summary(c, "failed"))
    BY <1>4 DEF FinishedTwice
  <2> HIDE DEF twice
  <2>4. QED
    BY <1>2, <1>3, <2>2, <2>3
<1>5. ASSUME NEW o \in TurnOutcome, TurnEnds(c, o) \/ ReturnLost(c, o) PROVE AgreeInv'
  <2> DEFINE r == Ended(rec[t], c, o)
  <2>1. r \in ThreadRecord /\ Over(r)
    BY <1>0, <1>1, OverSlots DEF Outcome
  <2>2. \E n \in Nat : \E res : Apply(t, Emit(r, E), Stored(durable[t], r, <<E>>), n)
                            /\ Leave(c, res)
    BY <1>5 DEF TurnEnds, ReturnLost, Commit
  <2> HIDE DEF r
  <2>3. QED
    BY <1>2, <1>3, <2>1, <2>2
<1>6. ASSUME NEW o \in TurnOutcome, TerminalLost(c, o) PROVE AgreeInv'
  <2> DEFINE once == Emit(Ended(rec[t], c, o), E)
             last == IF o = "completed" THEN Emit(Ended(once, c, "failed"), E) ELSE once
             r == Forget(last, c)
             lost == IF o = "completed" THEN 2 ELSE 1
  <2>1. once \in ThreadRecord /\ Over(once)
    BY <1>0, <1>1, OverSlots DEF Outcome
  <2>2. Emit(Ended(once, c, "failed"), E) \in ThreadRecord
        /\ Over(Emit(Ended(once, c, "failed"), E))
    <3>1. Ended(once, c, "failed") \in ThreadRecord /\ Over(Ended(once, c, "failed"))
      BY <2>1, OverSlots DEF Outcome, TurnOutcome, Over
    <3>2. QED
      BY <1>3, <3>1
  <2>3. r \in ThreadRecord /\ Over(r)
    BY <2>1, <2>2, OverSlots
  <2>4. /\ Apply(t, r, Stored(durable[t], r, <<>>), lost) \/ Apply(t, r, durable[t], lost + 1)
        /\ Leave(c, Raise("ThreadStoreError"))
    BY <1>6 DEF TerminalLost
  <2>5. lost \in Nat /\ lost + 1 \in Nat
    OBVIOUS
  <2> HIDE DEF r, lost
  <2>6. QED
    BY <1>0, <1>2, <1>3, <2>3, <2>4, <2>5
<1>7. ASSUME NEW o \in TurnOutcome, ReplayLost(c, o) PROVE AgreeInv'
  <2> DEFINE r == Ended(rec[t], c, o)
             f == Forget(r, c)
             done == Stored(durable[t], r, <<E>>)
  <2>1. r \in ThreadRecord /\ Over(r)
    BY <1>0, <1>1, OverSlots DEF Outcome
  <2>2. f \in ThreadRecord /\ Over(f) /\ Consistent(f)
    BY <2>1, OverSlots
  <2>3. done \in StoredThread /\ Consistent(done)
    BY <1>3, <2>1
  <2>4. Stored(done, f, <<>>) \in StoredThread /\ Consistent(Stored(done, f, <<>>))
    BY <1>0, <2>2, <2>3, StoredSlot
  <2>5. /\ Apply(t, Emit(f, E), Stored(done, f, <<>>), 1) \/ Apply(t, Emit(f, E), done, 2)
        /\ Leave(c, Raise("ThreadStoreError"))
    BY <1>7 DEF ReplayLost
  <2> HIDE DEF r, f, done
  <2>6. QED
    BY <1>2, <1>3, <2>2, <2>3, <2>4, <2>5
<1>8. QED
  BY <1>4, <1>5, <1>6, <1>7 DEF TurnTerminates

(* So do the callers that joined a Turn. *)
LEMMA WaiterAgrees ==
    ASSUME TypeOK, AgreeInv, NEW c \in Call, CleanupEnds(c) \/ JoinEnds(c)
    PROVE  AgreeInv'
<1> DEFINE t == ThreadOf[c]
<1>0. t \in Thread /\ rec[t] \in ThreadRecord
  BY CallAssumption DEF TypeOK
<1>1. /\ pc[c] \in {"cleanup", "joined"} /\ pc' = [pc EXCEPT ![c] = "done"]
      /\ mode \in Running /\ mode' = mode /\ durable' = durable
  BY DEF CleanupEnds, JoinEnds, Finish, Process
<1>2. CASE JoinEnds(c)
  BY <1>1, <1>2, NoRecordAgrees DEF JoinEnds, TypeOK
<1>3. CASE CleanupEnds(c)
  <2> DEFINE r == [rec[t] EXCEPT !.tools = "closed"]
  <2>1. r \in ThreadRecord /\ SameSlot(r, rec[t])
    BY <1>0 DEF ThreadRecord, SameSlot
  <2>2. Apply(t, r, durable[t], 0) /\ durable[t] \in StoredThread /\ Consistent(durable[t])
    BY <1>0, <1>3, BoundsAssumption
       DEF CleanupEnds, Apply, TypeOK, AgreeInv, StoredAgrees
  <2>3. Consistent(r) /\ (r.active # None => r.preflight = None)
    BY <1>0, <2>1 DEF Consistent, SameSlot, AgreeInv, RecordsAgree
  <2>4. \A b \in Call : ThreadOf[b] = t => PlaceAgrees(pc[b], b, r)
    BY <2>1 DEF PlaceAgrees, SameSlot, AgreeInv, RecordsAgree
  <2>5. PlaceAgrees(pc'[c], c, r) /\ \A b \in Call : b # c => pc'[b] = pc[b]
    BY <1>1, <2>4 DEF PlaceAgrees, TypeOK
  <2> HIDE DEF r
  <2>6. QED
    BY <1>0, <1>1, <2>1, <2>2, <2>3, <2>4, <2>5, OneCallAgrees
<1>4. QED
  BY <1>2, <1>3

(* So do Stop and close_thread. *)
LEMMA CommandAgrees ==
    ASSUME TypeOK, AgreeInv, NEW t \in Thread, Stop(t) \/ CloseIdle(t) \/ CloseActive(t)
    PROVE  AgreeInv'
<1> DEFINE c == rec[t].active
<1>0. /\ rec[t] \in ThreadRecord /\ durable[t] \in StoredThread
      /\ c \in Call \cup {None} /\ <<>> \in Seq(EventRec)
      /\ Consistent(durable[t]) /\ Consistent(rec[t])
  BY DEF TypeOK, ThreadRecord, AgreeInv, StoredAgrees, RecordsAgree, Consistent
<1>1. mode \in Running /\ mode' = mode /\ pc' = pc
  BY DEF Stop, CloseIdle, CloseActive, callVars, Process
<1>2. CASE Stop(t)
  <2>1. c \in Call
    BY <1>0, <1>2 DEF Stop
  <2>2. PICK ok \in BOOLEAN : Commit(t, rec[t], Event("turn_cancel_requested", c), ok)
    BY <1>2 DEF Stop
  <2>3. PICK q \in ThreadRecord, d \in StoredThread, n \in Nat :
            Apply(t, q, d, n) /\ SameSlot(q, rec[t]) /\ Consistent(q) /\ Consistent(d)
    BY <1>0, <2>1, <2>2, CommitSlot DEF EventType
  <2>4. QED
    BY <1>1, <2>3, NoCallAgrees DEF SameSlot
<1>3. CASE CloseActive(t)
  <2> DEFINE r == [rec[t] EXCEPT !.closing = TRUE]
  <2>1. c \in Call /\ r \in ThreadRecord /\ SameSlot(r, rec[t])
    BY <1>0, <1>3 DEF CloseActive, ThreadRecord, SameSlot
  <2>2. PICK ok \in BOOLEAN : Commit(t, r, Event("thread_close_requested", c), ok)
    BY <1>3 DEF CloseActive
  <2>3. Consistent(r)
    BY <1>0, <2>1 DEF Consistent, SameSlot
  <2>4. PICK q \in ThreadRecord, d \in StoredThread, n \in Nat :
            Apply(t, q, d, n) /\ SameSlot(q, r) /\ Consistent(q) /\ Consistent(d)
    BY <2>1, <2>2, <2>3, CommitSlot DEF EventType
  <2>5. QED
    BY <1>1, <2>1, <2>4, NoCallAgrees DEF SameSlot
<1>4. CASE CloseIdle(t)
  <2> DEFINE r == [rec[t] EXCEPT !.closing = TRUE, !.status = "closed",
                                 !.tools = "closed"]
  <2>1. /\ r \in ThreadRecord /\ r.active = rec[t].active /\ r.status = "closed"
        /\ r.preflight = rec[t].preflight /\ r.active = None
    BY <1>0, <1>4 DEF CloseIdle, ThreadRecord, Status
  <2>2. Consistent(r)
    BY <2>1 DEF Consistent
  <2>3. Stored(durable[t], r, <<>>) \in StoredThread /\ Consistent(Stored(durable[t], r, <<>>))
    BY <1>0, <2>1, <2>2, StoredSlot
  <2>4. Apply(t, r, Stored(durable[t], r, <<>>), 0) \/ Apply(t, r, durable[t], 1)
    BY <1>4 DEF CloseIdle
  <2> HIDE DEF r
  <2>5. QED
    BY <1>0, <1>1, <2>1, <2>2, <2>3, <2>4, NoCallAgrees
<1>5. QED
  BY <1>2, <1>3, <1>4

(* So does aclose. *)
LEMMA AcloseAgrees ==
    ASSUME TypeOK, AgreeInv, Aclose \/ AcloseFails
    PROVE  AgreeInv'
<1>1. \A t \in Thread : rec[t] \in ThreadRecord /\ durable[t] \in StoredThread
                        /\ <<>> \in Seq(EventRec)
                        /\ Consistent(rec[t]) /\ Consistent(durable[t])
  BY DEF TypeOK, AgreeInv, RecordsAgree, StoredAgrees, Consistent
<1>2. \A t \in Thread : /\ SameSlot([rec[t] EXCEPT !.tools = "closed"], rec[t])
                        /\ SameSlot(rec[t], rec[t])
  BY <1>1 DEF SameSlot, ThreadRecord
<1>3. \A t \in Thread : SameSlot(rec'[t], rec[t])
  BY <1>2, AcloseFields
<1>4. \A t \in Thread : Consistent(Stored(durable[t], rec[t], <<>>))
  BY <1>1, StoredSlot
<1>5. StoredAgrees'
  BY <1>1, <1>4, AcloseFields DEF StoredAgrees
<1>6. pc' = pc /\ mode' = "stopping"
  BY AcloseFields
<1>7. RecordsAgree'
  BY <1>3, <1>6, CallAssumption DEF AgreeInv, RecordsAgree, SameSlot
<1>8. QED
  BY <1>5, <1>6, <1>7 DEF AgreeInv, QuietUntilUp

(* A crash leaves no call suspended and no record active. *)
LEMMA CrashAgrees ==
    ASSUME TypeOK, AgreeInv, Crash
    PROVE  AgreeInv'
<1>1. \A t \in Thread : /\ rec'[t].active = None /\ rec'[t].preflight = None
                        /\ rec'[t].status = "idle"
  BY DEF Crash, NewRecord
<1>2. \A c \in Call : pc'[c] \notin {"running", "validating"} /\ c # None
                      /\ ThreadOf[c] \in Thread
  BY CallAssumption DEF Crash
<1>3. RecordsAgree'
  BY <1>1, <1>2 DEF RecordsAgree
<1>4. StoredAgrees'
  BY DEF Crash, AgreeInv, StoredAgrees
<1>5. QED
  BY <1>1, <1>3, <1>4 DEF AgreeInv, QuietUntilUp

(* The recovery of a Thread keeps records, store and calls in agreement. *)
LEMMA RestoreAgrees ==
    ASSUME TypeOK, AgreeInv, NEW t \in Thread, RestoreThread(t)
    PROVE  AgreeInv'
<1> DEFINE d == durable[t]
<1>0. /\ d \in StoredThread /\ Consistent(d) /\ <<>> \in Seq(EventRec)
      /\ rec[t].active = None /\ rec[t].preflight = None
      /\ mode = "starting" /\ mode' \in {"starting", "up"} /\ pc' = pc
  BY DEF TypeOK, RestoreThread, AgreeInv, StoredAgrees, QuietUntilUp, callVars
<1>1. \A c \in Call : ThreadOf[c] = t => pc'[c] \notin {"running", "validating"}
  BY <1>0, CallAssumption DEF AgreeInv, RecordsAgree
<1>2. ASSUME NEW r \in ThreadRecord, r.active = None, r.preflight = None,
             r.status \in {"idle", "closed"},
             NEW e \in StoredThread, Consistent(e), NEW n \in Nat, Apply(t, r, e, n)
      PROVE  AgreeInv'
  <2>1. Consistent(r) /\ \A c \in Call : ThreadOf[c] = t => PlaceAgrees(pc'[c], c, r)
    BY <1>1, <1>2, CallAssumption DEF Consistent, PlaceAgrees
  <2>2. \A c \in Call : ThreadOf[c] # t => pc'[c] = pc[c]
    BY <1>0
  <2>3. QED
    BY <1>0, <1>2, <2>1, <2>2, OneThreadAgrees
<1>3. /\ Loaded(d) \in ThreadRecord /\ Loaded(d).active = d.active
      /\ Loaded(d).preflight = None /\ Loaded(d).status = d.status
  BY <1>0, LoadedType DEF Loaded, NewRecord
<1>4. /\ Repaired(d) \in ThreadRecord /\ Repaired(d).active = None
      /\ Repaired(d).preflight = None /\ Repaired(d).status \in {"idle", "closed"}
  BY <1>0, <1>3, LoadedType DEF Repaired, ThreadRecord
<1>5. CASE IsCoherentlyTerminal(d)
  <2>1. Consistent(Repaired(d))
    BY <1>4 DEF Consistent
  <2>2. Stored(d, Repaired(d), <<>>) \in StoredThread
        /\ Consistent(Stored(d, Repaired(d), <<>>))
    BY <1>0, <1>4, <2>1, StoredSlot
  <2>3. Apply(t, Repaired(d), Stored(d, Repaired(d), <<>>), 0)
    BY <1>5 DEF RestoreThread
  <2>4. QED
    BY <1>2, <1>4, <2>2, <2>3
<1>6. CASE ~IsCoherentlyTerminal(d) /\ d.active # None
  <2>1. d.active \in Call /\ Recovered(d) \in ThreadRecord
    BY <1>0, <1>6, RecoveredType DEF StoredThread
  <2>2. /\ Recovered(d).active = None /\ Recovered(d).preflight = None
        /\ Recovered(d).status = "idle"
    BY <1>3 DEF Recovered, ThreadRecord
  <2>3. Consistent(Recovered(d))
    BY <2>2 DEF Consistent
  <2>4. Commit(t, Recovered(d), Event("terminal", d.active), TRUE)
    BY <1>6 DEF RestoreThread, Terminal
  <2>5. PICK q \in ThreadRecord, e \in StoredThread, n \in Nat :
            Apply(t, q, e, n) /\ SameSlot(q, Recovered(d)) /\ Consistent(q) /\ Consistent(e)
    BY <2>1, <2>3, <2>4, CommitSlot DEF EventType
  <2>6. QED
    BY <1>2, <2>2, <2>5 DEF SameSlot
<1>7. CASE ~IsCoherentlyTerminal(d) /\ d.active = None
  <2>1. d.status \in {"idle", "closed"}
    BY <1>0, <1>7 DEF Consistent, StoredThread, Status
  <2>2. Apply(t, Loaded(d), d, 0)
    BY <1>7 DEF RestoreThread
  <2>3. QED
    BY <1>0, <1>2, <1>3, <1>7, <2>1, <2>2
<1>8. QED
  BY <1>5, <1>6, <1>7

(* A recovery that fails leaves no record active, and a consistent store. *)
LEMMA RestoreFailsAgrees ==
    ASSUME TypeOK, AgreeInv, NEW t \in Thread, RestoreFails(t)
    PROVE  AgreeInv'
<1> DEFINE d == durable[t]
           e == Stored(d, Recovered(d), <<Terminal(d.active)>>)
<1>1. \A u \in Thread : /\ rec'[u].active = None /\ rec'[u].preflight = None
                        /\ rec'[u].status = "idle"
  BY DEF RestoreFails, NewRecord
<1>2. \A c \in Call : pc'[c] \notin {"running", "validating"} /\ c # None
                      /\ ThreadOf[c] \in Thread
  BY CallAssumption DEF RestoreFails, callVars, AgreeInv, RecordsAgree, QuietUntilUp
<1>3. RecordsAgree'
  BY <1>1, <1>2 DEF RecordsAgree
<1>4. Consistent(e)
  <2>1. d \in StoredThread /\ d.active \in Call /\ d.active # None
    BY DEF TypeOK, RestoreFails, StoredThread
  <2>2. Recovered(d) \in ThreadRecord
    BY <2>1, RecoveredType
  <2>3. Recovered(d).active = None /\ Recovered(d).status = "idle"
    <3>1. Loaded(d) \in ThreadRecord
      BY <2>1, LoadedType
    <3>2. QED
      BY <3>1 DEF Recovered, ThreadRecord
  <2>4. Consistent(Recovered(d))
    BY <2>3 DEF Consistent
  <2>5. <<Terminal(d.active)>> \in Seq(EventRec)
    <3>1. Terminal(d.active) \in EventRec
      BY <2>1 DEF Terminal, Event, EventRec, EventType
    <3>2. QED
      BY <3>1
  <2>6. QED
    BY <2>1, <2>2, <2>4, <2>5, StoredSlot
<1>5. durable' = durable \/ durable' = [durable EXCEPT ![t] = e]
  BY DEF RestoreFails
<1> HIDE DEF e
<1>6. StoredAgrees'
  BY <1>4, <1>5 DEF StoredAgrees, AgreeInv, TypeOK
<1>7. QED
  BY <1>1, <1>3, <1>6 DEF AgreeInv, QuietUntilUp
-----------------------------------------------------------------------------
(* Every step preserves AgreeInv. *)
LEMMA NextAgrees == TypeOK /\ AgreeInv /\ [Next]_vars => AgreeInv'
<1> SUFFICES ASSUME TypeOK, AgreeInv, [Next]_vars PROVE AgreeInv'
  OBVIOUS
<1>1. ASSUME NEW c \in Call, Invoke(c) PROVE AgreeInv'
  BY <1>1, InvokeAgrees
<1>2. ASSUME NEW c \in Call, Settles(c) PROVE AgreeInv'
  BY <1>2, PreflightAgrees, ApprovalAgrees, TurnAgrees, WaiterAgrees DEF Settles
<1>3. ASSUME NEW c \in Call, RequestApproval(c) PROVE AgreeInv'
  BY <1>3, ApprovalAgrees
<1>4. ASSUME NEW c \in Call, CancelTask(c) PROVE AgreeInv'
  BY <1>4 DEF CancelTask, Process, AgreeInv, RecordsAgree, StoredAgrees, QuietUntilUp
<1>5. ASSUME NEW t \in Thread, Stop(t) \/ CloseIdle(t) \/ CloseActive(t) PROVE AgreeInv'
  BY <1>5, CommandAgrees
<1>6. ASSUME Aclose \/ AcloseFails PROVE AgreeInv'
  BY <1>6, AcloseAgrees
<1>7. ASSUME Crash PROVE AgreeInv'
  BY <1>7, CrashAgrees
<1>8. ASSUME Restart PROVE AgreeInv'
  BY <1>8 DEF Restart, callVars, AgreeInv, RecordsAgree, StoredAgrees, QuietUntilUp
<1>9. ASSUME NEW t \in Thread, RestoreThread(t) PROVE AgreeInv'
  BY <1>9, RestoreAgrees
<1>10. ASSUME NEW t \in Thread, RestoreFails(t) PROVE AgreeInv'
  BY <1>10, RestoreFailsAgrees
<1>11. ASSUME UNCHANGED vars PROVE AgreeInv'
  BY <1>11 DEF vars, callVars, AgreeInv, RecordsAgree, StoredAgrees, QuietUntilUp
<1>12. QED
  BY <1>1, <1>2, <1>3, <1>4, <1>5, <1>6, <1>7, <1>8, <1>9, <1>10, <1>11 DEF Next

(* A Thread's status, its active Turn, its preflight slot and the suspended   *)
(* run_turn calls never disagree: at most one call of a Thread validates or   *)
(* runs, whatever fails, closes, cancels, crashes or recovers.               *)
THEOREM OneTurnPerThread == Spec => []RecordsAgree
<1>1. Init => TypeOK /\ AgreeInv
  BY InitType, InitAgrees
<1>2. TypeOK /\ AgreeInv /\ [Next]_vars => (TypeOK /\ AgreeInv)'
  BY NextType, NextAgrees
<1>3. AgreeInv => RecordsAgree
  BY DEF AgreeInv
<1>4. QED
  BY <1>1, <1>2, <1>3, PTL DEF Spec
-----------------------------------------------------------------------------
(* The leases.  A call that has not started its Turn has none, so what the   *)
(* Runtime does to the table is always a step of the manager.               *)
LeaseInv == /\ \A c \in Call : pc[c] \in {"idle", "validating"} => leases[c] = None
            /\ RunningHoldsLease

(* One call takes or drops its lease, and no other lease changes. *)
OwnLease(c) ==
    LET w == WorkspaceOf[ThreadOf[c]] IN
    \/ leases' = leases
    \/ Leases!Release(c, w)
    \/ Leases!Acquire(c, w)

(* A step that moves at most call c, with its lease. *)
LEMMA OwnLeaseKept ==
    ASSUME TypeOK, LeaseInv, NEW c \in Call, OwnLease(c),
           pc'[c] \in {"idle", "validating"} => leases' = leases /\ pc[c] \in {"idle", "validating"},
           pc'[c] = "running" => \/ leases' = leases /\ pc[c] = "running"
                                 \/ Leases!Acquire(c, WorkspaceOf[ThreadOf[c]]),
           \A b \in Call : b # c => pc'[b] = pc[b]
    PROVE  LeaseInv' /\ [Leases!Next]_leases
<1> DEFINE w == WorkspaceOf[ThreadOf[c]]
<1>0. w \in Workspace /\ ThreadOf' = ThreadOf /\ WorkspaceOf' = WorkspaceOf
  BY CallAssumption
<1>1. \A b \in Call : b # c => leases'[b] = leases[b]
  BY <1>0 DEF OwnLease, Leases!Release, Leases!Acquire, TypeOK, Leases!TypeOK
<1>2. Leases!Acquire(c, w) => leases'[c] = w
  BY <1>0 DEF Leases!Acquire, TypeOK, Leases!TypeOK
<1>3. \A b \in Call : pc'[b] \in {"idle", "validating"} => leases'[b] = None
  BY <1>1 DEF LeaseInv
<1>4. \A b \in Call : pc'[b] = "running" => leases'[b] = WorkspaceOf[ThreadOf[b]]
  BY <1>1, <1>2 DEF LeaseInv, RunningHoldsLease
<1>5. LeaseInv'
  BY <1>3, <1>4 DEF LeaseInv, RunningHoldsLease
<1>6. [Leases!Next]_leases
  BY <1>0 DEF OwnLease, Leases!Next
<1>7. QED
  BY <1>5, <1>6

(* The steps of a call are steps of the lease manager and keep the lease of its Turn. *)
LEMMA CallLeases ==
    ASSUME TypeOK, LeaseInv, NEW c \in Call,
           Invoke(c) \/ Settles(c) \/ RequestApproval(c) \/ CancelTask(c)
    PROVE  LeaseInv' /\ [Leases!Next]_leases
<1> DEFINE w == WorkspaceOf[ThreadOf[c]]
<1>1. CASE Invoke(c)
  <2>1. leases' = leases /\ pc[c] = "idle" /\ pc'[c] \in {"done", "joined", "validating"}
        /\ \A b \in Call : b # c => pc'[b] = pc[b]
    BY <1>1 DEF Invoke, AnswerFromKey, Join, Refuse, BeginPreflight, Finish, TypeOK
  <2>2. QED
    BY <2>1, OwnLeaseKept DEF OwnLease
<1>2. CASE Preflight(c)
  <2>1. pc[c] = "validating" /\ leases[c] = None
    BY <1>2 DEF Preflight, RejectCancelled, RejectInvalidRoot, RejectBusy, RejectClosed,
       RejectContext, StartTurn, StartLost, CanStart, LeaseInv
  <2>2. ASSUME NEW code, NEW holds \in BOOLEAN, NEW ok \in BOOLEAN, Reject(c, code, holds, ok),
               holds => ~Leases!Busy(w)
        PROVE  LeaseInv' /\ [Leases!Next]_leases
    <3>1. leases' = leases \/ Leases!Acquire(c, w)
      BY <2>1, <2>2 DEF Reject, Leases!Acquire
    <3>2. pc'[c] = "done" /\ \A b \in Call : b # c => pc'[b] = pc[b]
      BY <2>2 DEF Reject, Finish, TypeOK
    <3>3. QED
      BY <3>1, <3>2, OwnLeaseKept DEF OwnLease
  <2>3. CASE StartTurn(c)
    <3>1. Leases!Acquire(c, w)
      BY <2>3 DEF StartTurn
    <3>2. pc'[c] = "running" /\ \A b \in Call : b # c => pc'[b] = pc[b]
      BY <2>3 DEF StartTurn, TypeOK
    <3>3. QED
      BY <3>1, <3>2, OwnLeaseKept DEF OwnLease
  <2>4. CASE StartLost(c)
    <3>1. leases' = leases /\ pc'[c] = "done" /\ \A b \in Call : b # c => pc'[b] = pc[b]
      BY <2>4 DEF StartLost, Finish, TypeOK
    <3>2. QED
      BY <3>1, OwnLeaseKept DEF OwnLease
  <2>5. QED
    BY <1>2, <2>2, <2>3, <2>4 DEF Preflight, RejectCancelled, RejectInvalidRoot, RejectBusy,
       RejectClosed, RejectContext
<1>3. CASE TurnTerminates(c)
  <2>1. PICK res : Leave(c, res)
    BY <1>3 DEF TurnTerminates, FinishedTwice, TurnEnds, TerminalLost, ReplayLost, ReturnLost
  <2>2. /\ Leases!Release(c, w) /\ pc'[c] \in {"cleanup", "done"}
        /\ \A b \in Call : b # c => pc'[b] = pc[b]
    BY <2>1 DEF Leave, TypeOK
  <2>3. QED
    BY <2>2, OwnLeaseKept DEF OwnLease
<1>4. CASE CleanupEnds(c) \/ JoinEnds(c)
  <2>1. leases' = leases /\ pc'[c] = "done" /\ \A b \in Call : b # c => pc'[b] = pc[b]
    BY <1>4 DEF CleanupEnds, JoinEnds, Finish, TypeOK
  <2>2. QED
    BY <2>1, OwnLeaseKept DEF OwnLease
<1>5. CASE SettleApproval(c) \/ RequestApproval(c) \/ CancelTask(c)
  <2>1. leases' = leases /\ pc' = pc
    BY <1>5 DEF SettleApproval, RequestApproval, SetWaiting, CancelTask
  <2>2. QED
    BY <2>1 DEF LeaseInv, RunningHoldsLease
<1>6. QED
  BY <1>1, <1>2, <1>3, <1>4, <1>5 DEF Settles

(* So are all steps. *)
LEMMA NextLeases ==
    TypeOK /\ LeaseInv /\ [Next]_vars => LeaseInv' /\ [Leases!Next]_leases
<1> SUFFICES ASSUME TypeOK, LeaseInv, [Next]_vars PROVE LeaseInv' /\ [Leases!Next]_leases
  OBVIOUS
<1>1. ASSUME NEW c \in Call, Invoke(c) \/ Settles(c) \/ RequestApproval(c) \/ CancelTask(c)
      PROVE  LeaseInv' /\ [Leases!Next]_leases
  BY <1>1, CallLeases
<1>2. ASSUME NEW t \in Thread, \/ Stop(t) \/ CloseIdle(t) \/ CloseActive(t)
                               \/ RestoreThread(t) \/ RestoreFails(t)
      PROVE  LeaseInv' /\ [Leases!Next]_leases
  <2>1. leases' = leases /\ pc' = pc
    BY <1>2 DEF Stop, CloseIdle, CloseActive, RestoreThread, RestoreFails, callVars
  <2>2. QED
    BY <2>1 DEF LeaseInv, RunningHoldsLease
<1>3. CASE Aclose \/ AcloseFails \/ Restart \/ UNCHANGED vars
  <2>1. leases' = leases /\ pc' = pc
    BY <1>3 DEF Aclose, AcloseFails, Passed, Restart, vars, callVars
  <2>2. QED
    BY <2>1 DEF LeaseInv, RunningHoldsLease
<1>4. CASE Crash
  <2>1. leases' = Leases!Free /\ \A c \in Call : pc'[c] # "running"
    BY <1>4 DEF Crash, Leases!ProcessEnds
  <2>2. LeaseInv'
    BY <2>1 DEF LeaseInv, RunningHoldsLease, Leases!Free
  <2>3. QED
    BY <2>1, <2>2 DEF Leases!Next, Leases!ProcessEnds
<1>5. QED
  BY <1>1, <1>2, <1>3, <1>4 DEF Next

(* Initially nothing runs and nothing is leased. *)
LEMMA InitLeases == Init => LeaseInv /\ Leases!Init
BY DEF Init, LeaseInv, RunningHoldsLease, Leases!Init, Leases!Free

(* Whatever the Runtime does with leases - preflights, rejections, failed      *)
(* commits, cleanups, crashes - is something the lease manager allows.        *)
THEOREM LeasesRefined == Spec => LeasesImplemented
<1>1. Init => TypeOK /\ LeaseInv /\ Leases!Init
  BY InitType, InitLeases
<1>2. TypeOK /\ LeaseInv /\ [Next]_vars => (TypeOK /\ LeaseInv)' /\ [Leases!Next]_leases
  BY NextType, NextLeases
<1>3. QED
  BY <1>1, <1>2, PTL DEF Spec, LeasesImplemented, Leases!Spec
-----------------------------------------------------------------------------
(* The instance counts as FiniteSets does. *)
LEMMA SameCount == ASSUME NEW S PROVE Leases!Cardinality(S) = Cardinality(S)
BY DEF Leases!Cardinality, Cardinality, Leases!IsFiniteSet, IsFiniteSet

(* The safety of the lease manager holds of the leases of the Runtime. *)
LEMMA LeaseSafety ==
    ASSUME TypeOK, Leases!NoOverlap, Leases!WithinCapacity, [Leases!Next]_leases
    PROVE  Leases!NoOverlap' /\ Leases!WithinCapacity'
<1> USE DEF Leases!Active
<1>0. /\ IsFiniteSet(Leases!Active) /\ Cardinality(Leases!Active) \in Nat
      /\ MaxActiveTurns \in Nat
  BY CallAssumption, LeaseConfiguration, FS_Subset, FS_CardinalityType
<1>1. ASSUME Leases!Active' \subseteq Leases!Active,
             \A m \in Leases!Active' : leases'[m] = leases[m]
      PROVE  Leases!NoOverlap' /\ Leases!WithinCapacity'
  <2>1. Cardinality(Leases!Active') <= Cardinality(Leases!Active)
        /\ Cardinality(Leases!Active') \in Nat
    BY <1>0, <1>1, FS_Subset, FS_CardinalityType
  <2>2. Leases!WithinCapacity'
    BY SameCount, <1>0, <2>1 DEF Leases!WithinCapacity
  <2>3. Leases!NoOverlap'
    BY <1>1 DEF Leases!NoOverlap, Leases!Overlaps
  <2>4. QED
    BY <2>2, <2>3
<1>2. ASSUME NEW l \in Call, NEW w \in Workspace, Leases!Acquire(l, w)
      PROVE  Leases!NoOverlap' /\ Leases!WithinCapacity'
  <2>1. Leases!Active' = Leases!Active \cup {l} /\ l \notin Leases!Active
    BY <1>2, CallAssumption DEF Leases!Acquire, TypeOK, Leases!TypeOK
  <2>2. leases'[l] = w /\ \A m \in Leases!Active : m # l /\ leases'[m] = leases[m]
    BY <1>2 DEF Leases!Acquire, TypeOK, Leases!TypeOK
  <2>3. \A m \in Leases!Active :
            ~Leases!Overlaps(w, leases[m]) /\ ~Leases!Overlaps(leases[m], w)
    BY <1>2 DEF Leases!Acquire, Leases!Busy, Leases!Conflicts, Leases!Overlaps
  <2>4. Leases!NoOverlap'
    BY <2>1, <2>2, <2>3 DEF Leases!NoOverlap, Leases!Overlaps
  <2>5. Cardinality(Leases!Active') = Cardinality(Leases!Active) + 1
    BY <1>0, <2>1, FS_AddElement
  <2>6. Cardinality(Leases!Active) < MaxActiveTurns
    BY SameCount, <1>0, <1>2 DEF Leases!Acquire, Leases!Busy, Leases!AtCapacity
  <2>7. Leases!WithinCapacity'
    BY SameCount, <1>0, <2>5, <2>6 DEF Leases!WithinCapacity
  <2>8. QED
    BY <2>4, <2>7
<1>3. ASSUME NEW l \in Call, NEW w \in Workspace, Leases!Release(l, w)
      PROVE  Leases!NoOverlap' /\ Leases!WithinCapacity'
  <2>1. Leases!Active' \subseteq Leases!Active
        /\ \A m \in Leases!Active' : leases'[m] = leases[m]
    BY <1>3, CallAssumption DEF Leases!Release, TypeOK, Leases!TypeOK
  <2>2. QED
    BY <1>1, <2>1
<1>4. CASE Leases!ProcessEnds \/ UNCHANGED leases
  <2>1. Leases!Active' \subseteq Leases!Active
        /\ \A m \in Leases!Active' : leases'[m] = leases[m]
    BY <1>4 DEF Leases!ProcessEnds, Leases!Free
  <2>2. QED
    BY <1>1, <2>1
<1>5. QED
  BY <1>2, <1>3, <1>4 DEF Leases!Next

(* Without leases there is nothing to overlap. *)
LEMMA InitLeaseSafety == Init => Leases!NoOverlap /\ Leases!WithinCapacity
<1> SUFFICES ASSUME Init PROVE Leases!NoOverlap /\ Leases!WithinCapacity
  OBVIOUS
<1>1. Leases!Active = {}
  BY DEF Init, Leases!Free, Leases!Active
<1>2. Leases!NoOverlap
  BY <1>1 DEF Leases!NoOverlap
<1>3. Leases!WithinCapacity
  BY SameCount, <1>1, FS_EmptySet, LeaseConfiguration DEF Leases!WithinCapacity
<1>4. QED
  BY <1>2, <1>3

(* Running Turns are as disjoint as the leases they hold. *)
LEMMA LeasesDisjoint ==
    ASSUME TypeOK, LeaseInv, Leases!NoOverlap, Leases!WithinCapacity
    PROVE  RunningDisjoint
<1> DEFINE R == {c \in Call : pc[c] = "running"}
<1>1. \A c \in R : c \in Leases!Active /\ leases[c] = WorkspaceOf[ThreadOf[c]]
  BY CallAssumption DEF LeaseInv, RunningHoldsLease, Leases!Active
<1>2. \A c, d \in R : c # d =>
          ~Leases!Overlaps(WorkspaceOf[ThreadOf[c]], WorkspaceOf[ThreadOf[d]])
  BY <1>1 DEF Leases!NoOverlap
<1>3. IsFiniteSet(Leases!Active)
  BY CallAssumption, FS_Subset DEF Leases!Active
<1>4. Cardinality(R) <= Cardinality(Leases!Active) /\ Cardinality(R) \in Nat
      /\ Cardinality(Leases!Active) \in Nat
  BY <1>1, <1>3, FS_Subset, FS_CardinalityType
<1>5. Cardinality(R) <= MaxActiveTurns
  BY SameCount, <1>4, LeaseConfiguration DEF Leases!WithinCapacity
<1>6. QED
  BY <1>2, <1>5 DEF RunningDisjoint

(* Running Turns of any Threads never work under overlapping roots, and there *)
(* are never more than the capacity.                                        *)
THEOREM TurnsDisjoint == Spec => []RunningDisjoint
<1> DEFINE Inv == TypeOK /\ LeaseInv /\ Leases!NoOverlap /\ Leases!WithinCapacity
<1>1. Init => Inv
  BY InitType, InitLeases, InitLeaseSafety
<1>2. Inv /\ [Next]_vars => Inv'
  BY NextType, NextLeases, LeaseSafety
<1>3. Inv => RunningDisjoint
  BY LeasesDisjoint
<1>4. QED
  BY <1>1, <1>2, <1>3, PTL DEF Spec

(* A running Turn holds its lease until its call leaves, approvals included.  *)
THEOREM LeaseHeld == Spec => []RunningHoldsLease
<1>1. Init => TypeOK /\ LeaseInv
  BY InitType, InitLeases
<1>2. TypeOK /\ LeaseInv /\ [Next]_vars => (TypeOK /\ LeaseInv)'
  BY NextType, NextLeases
<1>3. LeaseInv => RunningHoldsLease
  BY DEF LeaseInv
<1>4. QED
  BY <1>1, <1>2, <1>3, PTL DEF Spec
-----------------------------------------------------------------------------
(* The history of a Thread: what its record and its store must agree on so   *)
(* that no Turn is forgotten and nothing a caller was told is taken back.     *)
Keeps(s, u) == \A i \in DOMAIN s : Contains(u, s[i])
EndedIn(turns, c) == \E i \in DOMAIN turns : turns[i].turn = c
StartedIn(events) == {c \in Call : Contains(events, Event("turn_started", c))}

(* Every started Turn is the active one or has an outcome. *)
Accounted(x, events) == \A c \in StartedIn(events) : x.active = c \/ EndedIn(x.turns, c)

(* The active marker and the submissions name Turns of the Thread. *)
Owned(t, x) ==
    /\ x.active # None => ThreadOf[x.active] = t
    /\ \A k \in Key : x.idem[k].turn # None => ThreadOf[x.idem[k].turn] = t

(* A summary, if it is one, is in the list; so are those of the submissions. *)
Committed(turns, res) == res.turn # None => Contains(turns, res)
Backed(x, turns) == \A k \in Key : Committed(turns, x.idem[k].summary)

StoredHistory(t, d) == Accounted(d, d.events) /\ Owned(t, d) /\ Backed(d, d.turns)
RecordHistory(t, r, d) ==
    /\ Accounted(r, d.events) /\ Owned(t, r) /\ Backed(r, d.turns)
    /\ Keeps(d.turns, r.turns)
CallHistory(c) ==
    LET turns == durable[ThreadOf[c]].turns IN
    /\ Committed(turns, result[c]) /\ Committed(turns, future[c])
    /\ waits[c] # None => ThreadOf[waits[c]] = ThreadOf[c]

(* The store is ahead of no record: after a failed commit a record may have   *)
(* Turns, and have forgotten keys, that the store knows nothing of.          *)
HistoryInv ==
    /\ mode \in Running => restored = Thread
    /\ \A t \in Thread : /\ StoredHistory(t, durable[t])
                         /\ t \in restored => RecordHistory(t, rec[t], durable[t])
    /\ \A c \in Call : CallHistory(c)

(* Record q comes from r by ending its active Turn or by nothing; turns has    *)
(* the summaries that its submissions gained.                               *)
Continues(r, q, turns) ==
    /\ Keeps(r.turns, q.turns)
    /\ q.active # r.active => q.active = None /\ EndedIn(q.turns, r.active)
    /\ \A k \in Key : /\ q.idem[k].turn \in {None, r.idem[k].turn}
                      /\ \/ q.idem[k].summary = r.idem[k].summary
                         \/ Committed(turns, q.idem[k].summary)

(* The store has the history of record p. *)
Stores(e, p) == e.active = p.active /\ e.turns = p.turns /\ e.idem = p.idem

(* Keeping is reflexive and transitive, and what is kept stays in the list. *)
LEMMA KeepsOrder ==
    /\ \A s : Keeps(s, s)
    /\ \A s, u, v : Keeps(s, u) /\ Keeps(u, v) => Keeps(s, v)
    /\ \A s, u, x : Keeps(s, u) /\ Contains(s, x) => Contains(u, x)
    /\ \A s, u, c : Keeps(s, u) /\ EndedIn(s, c) => EndedIn(u, c)
    /\ \A s, u, res : Keeps(s, u) /\ Committed(s, res) => Committed(u, res)
BY DEF Keeps, Contains, EndedIn, Committed

(* A list that grows by one element keeps the others and has the new one. *)
LEMMA AppendKeeps ==
    ASSUME NEW S, NEW s \in Seq(S), NEW x \in S
    PROVE  /\ Keeps(s, Append(s, x)) /\ Contains(Append(s, x), x)
           /\ \A y : Contains(Append(s, x), y) => Contains(s, y) \/ y = x
<1>1. /\ DOMAIN s = 1..Len(s) /\ Len(s) \in Nat
      /\ DOMAIN Append(s, x) = 1..(Len(s) + 1)
      /\ \A i \in 1..Len(s) : Append(s, x)[i] = s[i]
      /\ Append(s, x)[Len(s) + 1] = x
  OBVIOUS
<1>2. Keeps(s, Append(s, x))
  BY <1>1 DEF Keeps, Contains
<1>3. Contains(Append(s, x), x)
  BY <1>1 DEF Contains
<1>4. ASSUME NEW y, Contains(Append(s, x), y) PROVE Contains(s, y) \/ y = x
  <2>1. PICK i \in 1..(Len(s) + 1) : Append(s, x)[i] = y
    BY <1>1, <1>4 DEF Contains
  <2>2. CASE i = Len(s) + 1
    BY <1>1, <2>1, <2>2
  <2>3. CASE i # Len(s) + 1
    BY <1>1, <2>1, <2>3 DEF Contains
  <2>4. QED
    BY <2>2, <2>3
<1>5. QED
  BY <1>2, <1>3, <1>4

(* The Turns the store has started grow by those a commit says it started. *)
LEMMA CommittedStarts ==
    ASSUME NEW d \in StoredThread, NEW r, NEW e \in EventRec
    PROVE  /\ StartedIn(Stored(d, r, <<>>).events) = StartedIn(d.events)
           /\ e.type # "turn_started" =>
                 StartedIn(Stored(d, r, <<e>>).events) = StartedIn(d.events)
           /\ e.type = "turn_started" =>
                 StartedIn(Stored(d, r, <<e>>).events) = StartedIn(d.events) \cup {e.turn}
<1>1. d.events \in Seq(EventRec)
  BY DEF StoredThread
<1>2. d.events \o <<>> = d.events /\ d.events \o <<e>> = Append(d.events, e)
  BY <1>1
<1>3. StartedIn(Stored(d, r, <<>>).events) = StartedIn(d.events)
  BY <1>2 DEF Stored
<1>4. /\ Keeps(d.events, Append(d.events, e)) /\ Contains(Append(d.events, e), e)
      /\ \A y : Contains(Append(d.events, e), y) => Contains(d.events, y) \/ y = e
  BY <1>1, AppendKeeps
<1>5. \A b \in Call : Event("turn_started", b) = e <=> (e.type = "turn_started" /\ b = e.turn)
  BY DEF Event, EventRec
<1>6. e.turn \in Call
  BY DEF EventRec
<1>7. /\ e.type # "turn_started" => StartedIn(Append(d.events, e)) = StartedIn(d.events)
      /\ e.type = "turn_started" => StartedIn(Append(d.events, e)) = StartedIn(d.events) \cup {e.turn}
  BY <1>4, <1>5, <1>6, KeepsOrder DEF StartedIn
<1>8. Stored(d, r, <<e>>).events = Append(d.events, e)
  BY <1>2 DEF Stored
<1>9. QED
  BY <1>3, <1>7, <1>8

(* A commit stores the history of its record. *)
LEMMA CommitStores == \A old, p, ev : Stores(Stored(old, p, ev), p)
BY DEF Stores, Stored
-----------------------------------------------------------------------------
(* What a continuation of a record means for the histories: the store either *)
(* keeps what it had or has the history of a continuation of the record.     *)
LEMMA ContinuedHistory ==
    ASSUME NEW t \in Thread, NEW r, NEW d, NEW q, NEW e,
           StoredHistory(t, d), RecordHistory(t, r, d),
           StartedIn(e.events) = StartedIn(d.events),
           Stores(e, d) \/ (\E p : Continues(r, p, p.turns) /\ Stores(e, p)),
           Continues(r, q, e.turns), Keeps(e.turns, q.turns)
    PROVE  StoredHistory(t, e) /\ RecordHistory(t, q, e) /\ Keeps(d.turns, e.turns)
<1>1. ASSUME NEW p, NEW turns, Continues(r, p, turns), Keeps(d.turns, turns)
      PROVE  Accounted(p, d.events) /\ Owned(t, p) /\ Backed(p, turns)
  <2>1. ASSUME NEW c \in StartedIn(d.events), p.active # c PROVE EndedIn(p.turns, c)
    <3>1. r.active = c \/ EndedIn(r.turns, c)
      BY <2>1 DEF RecordHistory, Accounted
    <3>2. QED
      BY <1>1, <2>1, <3>1, KeepsOrder DEF Continues
  <2>2. Owned(t, p)
    BY <1>1 DEF Continues, RecordHistory, Owned
  <2>3. Backed(p, turns)
    BY <1>1, KeepsOrder DEF Continues, RecordHistory, Backed
  <2>4. QED
    BY <2>1, <2>2, <2>3 DEF Accounted
<1>2. Keeps(d.turns, e.turns) /\ StoredHistory(t, e)
  <2>1. CASE Stores(e, d)
    BY <2>1, KeepsOrder DEF Stores, StoredHistory, Accounted, Owned, Backed
  <2>2. ASSUME NEW p, Continues(r, p, p.turns), Stores(e, p)
        PROVE  Keeps(d.turns, e.turns) /\ StoredHistory(t, e)
    <3>1. Keeps(d.turns, p.turns)
      BY <2>2, KeepsOrder DEF Continues, RecordHistory
    <3>2. Accounted(p, d.events) /\ Owned(t, p) /\ Backed(p, p.turns)
      BY <1>1, <2>2, <3>1
    <3>3. QED
      BY <2>2, <3>1, <3>2 DEF Stores, StoredHistory, Accounted, Owned, Backed
  <2>3. QED
    BY <2>1, <2>2
<1>3. Accounted(q, d.events) /\ Owned(t, q) /\ Backed(q, e.turns)
  BY <1>1, <1>2
<1>4. QED
  BY <1>2, <1>3 DEF RecordHistory, Accounted

(* Continuations compose, and more Turns back no fewer summaries. *)
LEMMA ContinuesComposes ==
    ASSUME NEW r, NEW p, NEW q, NEW turns, NEW more,
           Continues(r, p, turns), Continues(p, q, more), Keeps(turns, more)
    PROVE  Continues(r, q, more)
<1>1. Keeps(r.turns, q.turns)
  BY KeepsOrder DEF Continues
<1>2. q.active # r.active => q.active = None /\ EndedIn(q.turns, r.active)
  BY KeepsOrder DEF Continues
<1>3. \A k \in Key : q.idem[k].turn \in {None, r.idem[k].turn}
  BY DEF Continues
<1>4. \A k \in Key : \/ q.idem[k].summary = r.idem[k].summary
                     \/ Committed(more, q.idem[k].summary)
  BY KeepsOrder DEF Continues
<1>5. QED
  BY <1>1, <1>2, <1>3, <1>4 DEF Continues

(* Steps that leave the history of a record alone. *)
SameHistory(q, r) == q.active = r.active /\ q.turns = r.turns /\ q.idem = r.idem

(* Such a record continues the old one. *)
LEMMA SameContinues ==
    ASSUME NEW r, NEW q, NEW turns, SameHistory(q, r)
    PROVE  Continues(r, q, turns)
BY KeepsOrder DEF SameHistory, Continues

(* An event leaves the history alone. *)
LEMMA EmitContinues ==
    ASSUME NEW r \in ThreadRecord, NEW e
    PROVE  SameHistory(Emit(r, e), r)
BY DEF SameHistory, Emit, ThreadRecord

(* Only the submission of c's key differs. *)
Others(r, q, c) == \A k \in Key : k # KeyOf[c] => q.idem[k] = r.idem[k]

(* A failed Turn's submission may be forgotten: its summary goes with it. *)
LEMMA ForgetContinues ==
    ASSUME NEW r, NEW q \in ThreadRecord, NEW c \in Call, NEW turns,
           Continues(r, q, q.turns), Others(r, q, c)
    PROVE  Continues(r, Forget(q, c), turns) /\ Forget(q, c).turns = q.turns
           /\ Forget(q, c).active = q.active
<1> DEFINE f == Forget(q, c)
<1>1. f.active = q.active /\ f.turns = q.turns /\ f.idem = PutKey(q.idem, c, NoSubmission)
  BY DEF Forget, ThreadRecord
<1>2. NoSubmission.turn = None /\ NoSubmission.summary.turn = None
  BY DEF NoSubmission, NoResult, Raise
<1>3. \A k \in Key : f.idem[k] = r.idem[k] \/ f.idem[k] = NoSubmission
  BY <1>1, CallAssumption DEF PutKey, Keyed, Others, ThreadRecord
<1> HIDE DEF f
<1>4. Continues(r, f, turns)
  BY <1>1, <1>2, <1>3 DEF Continues, Committed
<1>5. QED
  BY <1>1, <1>4 DEF f

(* The terminal transition ends the active Turn and adds its summary. *)
LEMMA EndedContinues ==
    ASSUME NEW r \in ThreadRecord, NEW c \in Call, NEW o \in Outcome,
           r.active \in {c, None}
    PROVE  /\ Continues(r, Ended(r, c, o), Ended(r, c, o).turns)
           /\ Contains(Ended(r, c, o).turns, Summary(c, o))
           /\ Ended(r, c, o).active = None /\ Others(r, Ended(r, c, o), c)
<1> DEFINE q == Ended(r, c, o)
           s == Summary(c, o)
<1>1. q.active = None /\ q.turns = Append(r.turns, s)
  BY DEF Ended, ThreadRecord
<1>2. Keeps(r.turns, q.turns) /\ Contains(q.turns, s)
  <2> DEFINE T == [turn : Call, code : Outcome]
  <2>1. r.turns \in Seq(T) /\ s \in T
    BY SummaryType DEF ThreadRecord, TurnList
  <2> HIDE DEF s, q, T
  <2>2. Keeps(r.turns, Append(r.turns, s)) /\ Contains(Append(r.turns, s), s)
    BY <2>1, AppendKeeps
  <2>3. QED
    BY <1>1, <2>2
<1>3. EndedIn(q.turns, c)
  BY <1>2 DEF Contains, EndedIn, Summary
<1>4. \A k \in Key : /\ q.idem[k].turn = r.idem[k].turn
                     /\ q.idem[k].summary \in {r.idem[k].summary, s}
                     /\ k # KeyOf[c] => q.idem[k] = r.idem[k]
  <2>1. r.idem \in [Key -> SubmissionRec]
    BY DEF ThreadRecord
  <2>2. q.idem = IF Keyed(c) /\ r.idem[KeyOf[c]].turn # None
                   THEN [r.idem EXCEPT ![KeyOf[c]].summary = s] ELSE r.idem
    BY DEF Ended, ThreadRecord
  <2>3. QED
    BY <2>1, <2>2 DEF SubmissionRec
<1>5. QED
  BY <1>1, <1>2, <1>3, <1>4 DEF Continues, Committed, Others

(* Records and stores with the same history continue the same record. *)
LEMMA AlikeContinues ==
    ASSUME NEW r, NEW p, NEW q, NEW e,
           Continues(r, p, p.turns), SameHistory(q, p), Stores(e, p)
    PROVE  Continues(r, q, e.turns) /\ Keeps(e.turns, q.turns)
BY KeepsOrder DEF Continues, SameHistory, Stores
-----------------------------------------------------------------------------
(* What a call was told stays committed as long as the store only grows.     *)
Told(c) == /\ Committed(durable[ThreadOf[c]].turns, result[c])'
           /\ Committed(durable[ThreadOf[c]].turns, future[c])'
           /\ waits'[c] # None => ThreadOf[waits'[c]] = ThreadOf[c]

(* What every call of the Thread was told stays committed. *)
LEMMA ToldKept ==
    ASSUME HistoryInv, NEW c \in Call,
           Keeps(durable[ThreadOf[c]].turns, durable'[ThreadOf[c]].turns),
           \/ result'[c] = result[c]
           \/ Committed(durable'[ThreadOf[c]].turns, result'[c]),
           \/ future'[c] = future[c]
           \/ Committed(durable'[ThreadOf[c]].turns, future'[c]),
           waits'[c] \in {None, waits[c]}
    PROVE  Told(c)
<1>1. CallHistory(c)
  BY DEF HistoryInv
<1>2. Committed(durable'[ThreadOf[c]].turns, result'[c])
  BY <1>1, KeepsOrder DEF CallHistory
<1>3. Committed(durable'[ThreadOf[c]].turns, future'[c])
  BY <1>1, KeepsOrder DEF CallHistory
<1>4. waits'[c] # None => ThreadOf[waits'[c]] = ThreadOf[c]
  BY <1>1 DEF CallHistory
<1>5. QED
  BY <1>2, <1>3, <1>4 DEF Told, Committed

(* A stretch of code that changes the history of one Thread. *)
LEMMA OneThreadHistory ==
    ASSUME TypeOK, HistoryInv, NEW t \in Thread, NEW q, NEW e, NEW n, Apply(t, q, e, n),
           mode' \in Running => restored' = Thread,
           restored' \in {restored, restored \cup {t}},
           StoredHistory(t, e), RecordHistory(t, q, e), Keeps(durable[t].turns, e.turns),
           \A c \in Call :
              /\ \/ result'[c] = result[c]
                 \/ ThreadOf[c] = t /\ Committed(e.turns, result'[c])
              /\ \/ future'[c] = future[c]
                 \/ ThreadOf[c] = t /\ Committed(e.turns, future'[c])
              /\ waits'[c] \in {None, waits[c]}
    PROVE  HistoryInv'
<1>1. /\ rec'[t] = q /\ durable'[t] = e
      /\ \A u \in Thread : u # t => rec'[u] = rec[u] /\ durable'[u] = durable[u]
  BY DEF Apply, TypeOK
<1>2. \A u \in Thread : Keeps(durable[u].turns, durable'[u].turns)
  BY <1>1, KeepsOrder
<1>3. ASSUME NEW u \in Thread
      PROVE  /\ StoredHistory(u, durable'[u])
             /\ u \in restored' => RecordHistory(u, rec'[u], durable'[u])
  BY <1>1 DEF HistoryInv
<1>4. ASSUME NEW c \in Call PROVE Told(c)
  <2>1. ThreadOf[c] \in Thread
    BY CallAssumption
  <2>2. \/ result'[c] = result[c]
        \/ Committed(durable'[ThreadOf[c]].turns, result'[c])
    BY <1>1
  <2>3. \/ future'[c] = future[c]
        \/ Committed(durable'[ThreadOf[c]].turns, future'[c])
    BY <1>1
  <2>4. QED
    BY <1>2, <2>1, <2>2, <2>3, ToldKept
<1>5. \A c \in Call : CallHistory(c)'
  BY <1>4 DEF Told, CallHistory, Committed
<1>6. \A u \in Thread : /\ StoredHistory(u, durable[u])'
                        /\ (u \in restored => RecordHistory(u, rec[u], durable[u]))'
  BY <1>3 DEF StoredHistory, RecordHistory, Accounted, Owned, Backed, Committed, Keeps, EndedIn,
              StartedIn, Contains, Event
<1>7. QED
  BY <1>5, <1>6 DEF HistoryInv

(* What the callers of a Thread learn in a step that leaves it e.            *)
Informed(t, e) == \A c \in Call :
    /\ result'[c] = result[c] \/ (ThreadOf[c] = t /\ Committed(e.turns, result'[c]))
    /\ future'[c] = future[c] \/ (ThreadOf[c] = t /\ Committed(e.turns, future'[c]))
    /\ waits'[c] \in {None, waits[c]}

(* ... while the process runs, and no Turn starts. *)
LEMMA ContinuedStep ==
    ASSUME TypeOK, HistoryInv, NEW t \in Thread, NEW q, NEW e, NEW n, Apply(t, q, e, n),
           mode \in Running, mode' = mode, restored' = restored,
           StartedIn(e.events) = StartedIn(durable[t].events),
           \/ Stores(e, durable[t])
           \/ \E p : Continues(rec[t], p, p.turns) /\ Stores(e, p),
           Continues(rec[t], q, e.turns), Keeps(e.turns, q.turns), Informed(t, e)
    PROVE  HistoryInv'
<1>1. StoredHistory(t, durable[t]) /\ RecordHistory(t, rec[t], durable[t])
      /\ restored = Thread
  BY DEF HistoryInv
<1>2. StoredHistory(t, e) /\ RecordHistory(t, q, e) /\ Keeps(durable[t].turns, e.turns)
  BY <1>1, ContinuedHistory
<1>3. QED
  BY <1>1, <1>2, OneThreadHistory DEF Informed

(* A step that leaves the history of its record alone and may store it. *)
LEMMA QuietStep ==
    ASSUME TypeOK, HistoryInv, NEW t \in Thread, NEW q, NEW e, NEW n, Apply(t, q, e, n),
           mode \in Running, mode' = mode, restored' = restored,
           StartedIn(e.events) = StartedIn(durable[t].events),
           Stores(e, durable[t]) \/ Stores(e, rec[t]),
           SameHistory(q, rec[t]), Informed(t, e)
    PROVE  HistoryInv'
<1>1. Keeps(durable[t].turns, rec[t].turns)
  BY DEF HistoryInv, RecordHistory
<1>2. Continues(rec[t], q, e.turns) /\ Continues(rec[t], rec[t], rec[t].turns)
  BY SameContinues DEF SameHistory
<1>3. Keeps(e.turns, q.turns)
  BY <1>1, KeepsOrder DEF Stores, SameHistory
<1>4. QED
  BY <1>2, <1>3, ContinuedStep

(* Such a step that emits one event. *)
LEMMA QuietCommit ==
    ASSUME TypeOK, HistoryInv, NEW t \in Thread, NEW r \in ThreadRecord,
           SameHistory(r, rec[t]),
           NEW c \in Call, NEW k \in EventType \ {"turn_started"}, NEW ok \in BOOLEAN,
           Commit(t, r, Event(k, c), ok),
           mode \in Running, mode' = mode, restored' = restored,
           \A b \in Call : /\ result'[b] = result[b] \/ (ThreadOf[b] = t /\ result'[b].turn = None)
                           /\ future'[b] = future[b] /\ waits'[b] = waits[b]
    PROVE  HistoryInv'
<1> DEFINE ev == Event(k, c)
           q == Emit(r, ev)
           e == IF ok THEN Stored(durable[t], r, <<ev>>) ELSE durable[t]
           n == IF ok THEN 0 ELSE 1
<1>1. Apply(t, q, e, n)
  BY DEF Commit
<1>2. SameHistory(q, rec[t])
  BY EmitContinues DEF SameHistory
<1>3. durable[t] \in StoredThread
  BY DEF TypeOK
<1>4. StartedIn(e.events) = StartedIn(durable[t].events)
  <2>1. ev \in EventRec /\ ev.type # "turn_started"
    BY EventTypes DEF Event
  <2> HIDE DEF ev
  <2>2. StartedIn(Stored(durable[t], r, <<ev>>).events) = StartedIn(durable[t].events)
    BY <1>3, <2>1, CommittedStarts
  <2>3. QED
    BY <2>2
<1>5. Stores(e, durable[t]) \/ Stores(e, rec[t])
  BY CommitStores DEF Stores, SameHistory
<1>6. Informed(t, e)
  BY DEF Informed, Committed
<1> HIDE DEF q, e, n
<1>7. QED
  BY <1>1, <1>2, <1>4, <1>5, <1>6, QuietStep
-----------------------------------------------------------------------------
(* The initial states: nothing, or what an older Runtime left. *)
LEMMA InitHistory == Init => HistoryInv
<1> SUFFICES ASSUME Init PROVE HistoryInv
  OBVIOUS
<1>1. NoResult.turn = None /\ NoSubmission.turn = None /\ NoSubmission.summary.turn = None
  BY DEF NoSubmission, NoResult, Raise
<1>2. ASSUME NEW t \in Thread, ~(\E c \in Legacy : ThreadOf[c] = t)
      PROVE  /\ durable[t].turns = <<>> /\ durable[t].active = None
             /\ \A k \in Key : durable[t].idem[k] = NoSubmission
             /\ StartedIn(durable[t].events) = {}
  <2>1. durable[t] = Stored([events |-> <<>>], NewRecord, <<>>)
    BY <1>2 DEF Init, InitialStore
  <2>2. durable[t].events = <<>>
    BY <2>1 DEF Stored
  <2>3. QED
    BY <2>1, <2>2 DEF Stored, NewRecord, StartedIn, Contains
<1>3. ASSUME NEW t \in Thread, NEW c \in Legacy, ThreadOf[c] = t
      PROVE  StoredHistory(t, durable[t]) /\ Committed(durable[t].turns, Summary(c, "completed"))
  <2>1. c \in Call /\ c # None
    BY CallAssumption
  <2>2. durable[t] = Leftover(c)
    BY <1>3, CallAssumption DEF Init, InitialStore
  <2> DEFINE d == Leftover(c)
             s == Summary(c, "completed")
  <2>3. d.active = c /\ d.turns = <<s>> /\ s.turn = c
        /\ d.events = <<Event("turn_started", c), Event("terminal", c)>>
    BY DEF Leftover, Summary
  <2>4. Contains(d.turns, s)
    BY <2>3 DEF Contains
  <2>5. StartedIn(d.events) \subseteq {c}
    BY <2>3 DEF StartedIn, Contains, Event
  <2>6. \A k \in Key : \/ d.idem[k].turn = None /\ d.idem[k].summary = NoResult
                       \/ d.idem[k].turn = c /\ d.idem[k].summary = s
    BY <2>1, CallAssumption
       DEF Leftover, PutKey, Keyed, NewRecord, NoSubmission, Submission
  <2> HIDE DEF d, s
  <2>7. StoredHistory(t, d)
    BY <1>1, <1>3, <2>3, <2>4, <2>5, <2>6
       DEF StoredHistory, Accounted, Owned, Backed, Committed
  <2>8. QED
    BY <2>2, <2>3, <2>4, <2>7 DEF Committed, d, s
<1>4. ASSUME NEW t \in Thread PROVE StoredHistory(t, durable[t])
  <2>1. CASE \E c \in Legacy : ThreadOf[c] = t
    BY <1>3, <2>1
  <2>2. CASE ~(\E c \in Legacy : ThreadOf[c] = t)
    BY <1>1, <1>2, <2>2 DEF StoredHistory, Accounted, Owned, Backed, Committed
  <2>3. QED
    BY <2>1, <2>2
<1>5. ASSUME NEW t \in Thread, t \in restored PROVE RecordHistory(t, rec[t], durable[t])
  <2>1. ~(\E c \in Legacy : ThreadOf[c] = t)
    BY <1>5 DEF Init
  <2>2. rec[t] = NewRecord
    BY DEF Init
  <2>3. /\ rec[t].active = None /\ rec[t].turns = <<>>
        /\ \A k \in Key : rec[t].idem[k] = NoSubmission
    BY <2>2 DEF NewRecord
  <2>4. QED
    BY <1>1, <1>2, <2>1, <2>3, KeepsOrder
       DEF RecordHistory, Accounted, Owned, Backed, Committed
<1>6. ASSUME NEW c \in Call PROVE CallHistory(c)
  <2>1. /\ future[c] = NoResult /\ waits[c] = None /\ ThreadOf[c] \in Thread
        /\ result[c] = IF c \in Legacy THEN Summary(c, "completed") ELSE NoResult
    BY CallAssumption DEF Init
  <2>2. QED
    BY <1>1, <1>3, <2>1 DEF CallHistory, Committed
<1>7. mode \in Running => restored = Thread
  BY DEF Init, Running
<1>8. QED
  BY <1>4, <1>5, <1>6, <1>7 DEF HistoryInv
-----------------------------------------------------------------------------
(* The calls that enter run_turn: a replayed summary is committed, and a      *)
(* joined Turn is of the same Thread.                                        *)
LEMMA InvokeHistory ==
    ASSUME TypeOK, HistoryInv, NEW c \in Call, Invoke(c)
    PROVE  HistoryInv'
<1> DEFINE t == ThreadOf[c]
<1>0. /\ t \in Thread /\ rec[t] \in ThreadRecord /\ mode = "up"
      /\ mode' = mode /\ restored' = restored /\ restored = Thread
      /\ storeFailures' = storeFailures
  BY CallAssumption DEF TypeOK, Invoke, AnswerFromKey, Join, Refuse, BeginPreflight,
     Process, HistoryInv, Running
<1>1. RecordHistory(t, rec[t], durable[t])
  BY <1>0 DEF HistoryInv
<1>2. Known(c) => /\ Committed(durable[t].turns, Entry(c).summary)
                  /\ ThreadOf[Entry(c).turn] = t
  BY <1>1, CallAssumption DEF Known, Entry, RecordHistory, Backed, Owned, NoSubmission
<1>3. ASSUME rec' = rec, durable' = durable, future' = future,
             \A b \in Call : /\ \/ result'[b] = result[b]
                                \/ b = c /\ Committed(durable[t].turns, result'[b])
                             /\ \/ waits'[b] = waits[b]
                                \/ b = c /\ ThreadOf[waits'[b]] = t
      PROVE  HistoryInv'
  <2>1. ASSUME NEW b \in Call PROVE CallHistory(b)'
    <3>1. CallHistory(b)
      BY DEF HistoryInv
    <3>2. QED
      BY <1>3, <3>1 DEF CallHistory, Committed
  <2>2. QED
    BY <1>0, <1>3, <2>1 DEF HistoryInv, StoredHistory, RecordHistory, Accounted, Owned,
       Backed, Committed, Keeps, EndedIn, StartedIn, Contains, Event
<1>4. CASE AnswerFromKey(c)
  <2>1. Known(c) /\ result' = [result EXCEPT ![c] = KeyAnswer(c)]
        /\ rec' = rec /\ durable' = durable /\ future' = future /\ waits' = waits
    BY <1>4 DEF AnswerFromKey, Finish
  <2>2. Committed(durable[t].turns, KeyAnswer(c))
    BY <1>2, <2>1 DEF KeyAnswer, Raise, Committed
  <2>3. QED
    BY <1>3, <2>1, <2>2 DEF TypeOK
<1>5. CASE Join(c)
  <2>1. Known(c) /\ waits' = [waits EXCEPT ![c] = Entry(c).turn]
        /\ rec' = rec /\ durable' = durable /\ future' = future /\ result' = result
    BY <1>5 DEF Join
  <2>2. QED
    BY <1>2, <1>3, <2>1 DEF TypeOK
<1>6. CASE Refuse(c)
  <2>1. \E code : result' = [result EXCEPT ![c] = Raise(code)]
    BY <1>6 DEF Refuse, Finish
  <2>2. rec' = rec /\ durable' = durable /\ future' = future /\ waits' = waits
    BY <1>6 DEF Refuse
  <2>3. \A code : Committed(durable[t].turns, Raise(code))
    BY DEF Raise, Committed
  <2>4. QED
    BY <1>3, <2>1, <2>2, <2>3 DEF TypeOK
<1>7. CASE BeginPreflight(c)
  <2> DEFINE q == [rec[t] EXCEPT !.preflight = c]
  <2>1. Apply(t, q, durable[t], 0)
    BY <1>0, <1>7, BoundsAssumption DEF BeginPreflight, Apply, TypeOK
  <2>2. SameHistory(q, rec[t])
    BY <1>0 DEF SameHistory, ThreadRecord
  <2>3. Stores(durable[t], durable[t]) /\ Informed(t, durable[t])
    BY <1>7 DEF Stores, Informed, BeginPreflight
  <2> HIDE DEF q
  <2>4. QED
    BY <1>0, <2>1, <2>2, <2>3, QuietStep DEF Running
<1>8. QED
  BY <1>4, <1>5, <1>6, <1>7 DEF Invoke

(* A preflight that ends without a Turn changes no history. *)
LEMMA RejectionHistory ==
    ASSUME TypeOK, HistoryInv, NEW c \in Call, mode \in Running,
           \/ \E code, holds : \E ok \in BOOLEAN : Reject(c, code, holds, ok)
           \/ StartLost(c)
    PROVE  HistoryInv'
<1> DEFINE t == ThreadOf[c]
           p == [rec[t] EXCEPT !.preflight = None]
<1>0. t \in Thread /\ rec[t] \in ThreadRecord /\ durable[t] \in StoredThread
  BY CallAssumption DEF TypeOK
<1>1. p \in ThreadRecord /\ SameHistory(p, rec[t])
  BY <1>0 DEF ThreadRecord, SameHistory
<1>2. \A code : Raise(code).turn = None
  BY DEF Raise
<1>3. ASSUME NEW code, NEW holds, NEW ok \in BOOLEAN, Reject(c, code, holds, ok)
      PROVE  HistoryInv'
  <2>1. Commit(t, p, Event("turn_rejected", c), ok)
    BY <1>3 DEF Reject
  <2>2. \E e : result' = [result EXCEPT ![c] = Raise(e)]
    BY <1>3 DEF Reject, Finish
  <2>3. /\ \A b \in Call : result'[b] = result[b] \/ (ThreadOf[b] = t /\ result'[b].turn = None)
        /\ future' = future /\ waits' = waits /\ mode' = mode /\ restored' = restored
    BY <1>2, <1>3, <2>2 DEF Reject, Process, TypeOK
  <2> HIDE DEF p
  <2>4. QED
    BY <1>0, <1>1, <2>1, <2>3, QuietCommit DEF EventType
<1>4. CASE StartLost(c)
  <2> DEFINE r == Emit(p, Event("turn_started", c))
  <2>1. SameHistory(r, rec[t])
    BY <1>1, EmitContinues DEF SameHistory
  <2>2. Apply(t, r, Stored(durable[t], r, <<>>), 1) \/ Apply(t, r, durable[t], 2)
    BY <1>4 DEF StartLost
  <2>3. result' = [result EXCEPT ![c] = Raise("ThreadStoreError")]
        /\ future' = future /\ waits' = waits /\ mode' = mode /\ restored' = restored
    BY <1>4 DEF StartLost, Finish, Process
  <2>4. \A e : Informed(t, e)
    BY <1>2, <2>3 DEF Informed, Committed, TypeOK
  <2>5. /\ Stores(Stored(durable[t], r, <<>>), rec[t])
        /\ Stores(durable[t], durable[t])
        /\ StartedIn(Stored(durable[t], r, <<>>).events) = StartedIn(durable[t].events)
    <3>1. StartedIn(Stored(durable[t], r, <<>>).events) = StartedIn(durable[t].events)
      BY <1>0, CommittedStarts, EventTypes DEF EventType
    <3>2. QED
      BY <2>1, <3>1, CommitStores DEF Stores, SameHistory
  <2> HIDE DEF r
  <2>6. QED
    BY <1>0, <2>1, <2>2, <2>3, <2>4, <2>5, QuietStep
<1>5. QED
  BY <1>3, <1>4

(* A Turn that starts is the active one, in the record and in the store. *)
LEMMA StartHistory ==
    ASSUME TypeOK, AgreeInv, HistoryInv, NEW c \in Call, StartTurn(c)
    PROVE  HistoryInv'
<1> DEFINE t == ThreadOf[c]
           d == durable[t]
           idem == PutKey(rec[t].idem, c, Submission(c))
           r == [rec[t] EXCEPT !.preflight = None, !.status = "running",
                               !.active = c, !.idem = idem]
           ev == Event("turn_started", c)
           q == Emit(r, ev)
           e == Stored(d, r, <<ev>>)
<1>0. /\ t \in Thread /\ rec[t] \in ThreadRecord /\ d \in StoredThread
      /\ mode \in Running /\ pc[c] = "validating" /\ c # None
      /\ mode' = mode /\ restored' = restored /\ restored = Thread
      /\ result' = result /\ future' = future /\ waits' = waits
  BY CallAssumption DEF TypeOK, StartTurn, CanStart, Process, HistoryInv
<1>1. rec[t].active = None
  BY <1>0 DEF AgreeInv, RecordsAgree
<1>2. /\ r.active = c /\ r.turns = rec[t].turns /\ r.idem = idem
      /\ r \in ThreadRecord
  <2>1. idem \in [Key -> SubmissionRec]
    BY <1>0, SubmissionType, PutKeyType DEF ThreadRecord
  <2>2. QED
    BY <1>0, <2>1 DEF ThreadRecord, Status
<1>3. SameHistory(q, r) /\ Stores(e, r)
  BY <1>2, EmitContinues, CommitStores
<1>4. StartedIn(e.events) = StartedIn(d.events) \cup {c}
  <2>1. ev \in EventRec /\ ev.type = "turn_started" /\ ev.turn = c
    BY EventTypes DEF Event, EventType
  <2> HIDE DEF ev, d, r
  <2>2. QED
    BY <1>0, <2>1, CommittedStarts
<1>5. RecordHistory(t, rec[t], d)
  BY <1>0 DEF HistoryInv
<1>6. \A k \in Key : \/ idem[k] = rec[t].idem[k]
                     \/ idem[k].turn = c /\ idem[k].summary.turn = None
  BY <1>0 DEF PutKey, ThreadRecord, Submission, NoResult, Raise
<1> HIDE DEF idem
<1>7. Accounted(r, e.events)
  BY <1>1, <1>2, <1>4, <1>5, <1>0, CallAssumption DEF RecordHistory, Accounted, StartedIn
<1>8. Owned(t, r)
  BY <1>2, <1>5, <1>6 DEF RecordHistory, Owned
<1>9. Keeps(d.turns, e.turns) /\ Backed(r, e.turns)
  <2>1. Keeps(d.turns, rec[t].turns) /\ e.turns = rec[t].turns
    BY <1>2, <1>3, <1>5 DEF RecordHistory, Stores
  <2>2. ASSUME NEW k \in Key PROVE Committed(rec[t].turns, r.idem[k].summary)
    <3>1. CASE r.idem[k] = rec[t].idem[k]
      <4>1. Committed(d.turns, rec[t].idem[k].summary)
        BY <1>5 DEF RecordHistory, Backed
      <4>2. QED
        BY <2>1, <3>1, <4>1, KeepsOrder DEF Committed
    <3>2. CASE r.idem[k].summary.turn = None
      BY <3>2 DEF Committed
    <3>3. QED
      BY <1>2, <1>6, <3>1, <3>2
  <2>3. QED
    BY <2>1, <2>2 DEF Backed
<1> HIDE DEF q, e, d, r
<1>10. StoredHistory(t, e) /\ RecordHistory(t, q, e)
  BY <1>3, <1>7, <1>8, <1>9, KeepsOrder
     DEF StoredHistory, RecordHistory, Accounted, Owned, Backed, SameHistory, Stores
<1>11. Apply(t, q, e, 0)
  BY DEF StartTurn, Commit, idem, q, e, d, r
<1>12. QED
  BY <1>0, <1>9, <1>10, <1>11, OneThreadHistory DEF d

(* However a Turn ends, its outcome is in the record and, as soon as a commit  *)
(* succeeds, in the store; what its callers are told is there by then.       *)
LEMMA TurnHistory ==
    ASSUME TypeOK, AgreeInv, HistoryInv, NEW c \in Call, TurnTerminates(c)
    PROVE  HistoryInv'
<1> DEFINE t == ThreadOf[c]
           d == durable[t]
           E == Terminal(c)
<1>0. /\ t \in Thread /\ rec[t] \in ThreadRecord /\ d \in StoredThread
      /\ mode \in Running /\ rec[t].active = c /\ d.turns = durable[t].turns
  BY CallAssumption, ZenonT(30) DEF TypeOK, TurnTerminates, FinishedTwice, TurnEnds, TerminalLost,
     ReplayLost, ReturnLost, Active, AgreeInv, RecordsAgree
<1>1. E \in EventRec /\ E.type # "turn_started" /\ Keeps(d.turns, rec[t].turns)
      /\ (\A x : StartedIn(Stored(d, x, <<E>>).events) = StartedIn(d.events))
      /\ (\A x : StartedIn(Stored(d, x, <<>>).events) = StartedIn(d.events))
  <2>1. E \in EventRec /\ E.type # "turn_started"
    BY EventTypes DEF Terminal, Event, EventType
  <2>2. Keeps(d.turns, rec[t].turns)
    BY <1>0 DEF HistoryInv, RecordHistory
  <2> HIDE DEF E, d
  <2>3. QED
    BY <1>0, <2>1, <2>2, CommittedStarts
<1>2. ASSUME NEW q, NEW e, NEW n, Apply(t, q, e, n),
             StartedIn(e.events) = StartedIn(d.events),
             Stores(e, d) \/ (\E p : Continues(rec[t], p, p.turns) /\ Stores(e, p)),
             Continues(rec[t], q, e.turns), Keeps(e.turns, q.turns),
             NEW res, Resolve(c, res), Committed(e.turns, res),
             NEW told, Leave(c, told), Committed(e.turns, told)
      PROVE  HistoryInv'
  <2>1. mode' = mode /\ restored' = restored
    BY <1>2 DEF Leave, Process
  <2>2. Informed(t, e)
    BY <1>2 DEF Informed, Leave, Resolve, TypeOK
  <2>3. QED
    BY <1>0, <1>2, <2>1, <2>2, ContinuedStep
<1>3. \A code, turns : Committed(turns, Raise(code))
  BY DEF Raise, Committed
<1>4. ASSUME NEW r \in ThreadRecord, NEW o \in Outcome, r.active \in {c, None},
             Continues(rec[t], r, r.turns), Others(rec[t], r, c)
      PROVE  \E p \in ThreadRecord :
                /\ p = Ended(r, c, o) /\ p.active = None
                /\ Continues(rec[t], p, p.turns) /\ Others(rec[t], p, c)
                /\ Committed(p.turns, Summary(c, o))
  <2> DEFINE p == Ended(r, c, o)
  <2>1. /\ p \in ThreadRecord /\ Continues(r, p, p.turns) /\ p.active = None
        /\ Contains(p.turns, Summary(c, o)) /\ Others(r, p, c)
    BY <1>4, EndedContinues, EndedType
  <2> HIDE DEF p
  <2>2. Keeps(r.turns, p.turns)
    BY <2>1 DEF Continues
  <2>3. Continues(rec[t], p, p.turns)
    BY <1>4, <2>1, <2>2, ContinuesComposes
  <2>4. Others(rec[t], p, c)
    BY <1>4, <2>1 DEF Others
  <2>5. QED
    BY <2>1, <2>3, <2>4 DEF Committed, p
<1>5. ASSUME NEW r \in ThreadRecord, Continues(rec[t], r, r.turns), Others(rec[t], r, c)
      PROVE  LET p == Emit(r, E) IN
             /\ p \in ThreadRecord /\ SameHistory(p, r) /\ p.active = r.active
             /\ Continues(rec[t], p, p.turns) /\ Others(rec[t], p, c)
  <2> DEFINE p == Emit(r, E)
  <2>1. p \in ThreadRecord /\ SameHistory(p, r)
    BY <1>1, <1>5, EmitType, EmitContinues
  <2> HIDE DEF p
  <2>2. Continues(rec[t], p, p.turns) /\ Others(rec[t], p, c) /\ p.active = r.active
    BY <1>5, <2>1 DEF Continues, SameHistory, Others
  <2>3. QED
    BY <2>1, <2>2 DEF p
<1>6. ASSUME NEW r \in ThreadRecord, Continues(rec[t], r, r.turns), Others(rec[t], r, c),
             NEW n, Apply(t, Emit(r, E), Stored(d, r, <<E>>), n),
             NEW res, Resolve(c, res), Committed(r.turns, res),
             NEW told, Leave(c, told), Committed(r.turns, told)
      PROVE  HistoryInv'
  <2> DEFINE q == Emit(r, E)
             e == Stored(d, r, <<E>>)
  <2>1. /\ SameHistory(q, r) /\ Stores(e, r)
        /\ StartedIn(e.events) = StartedIn(d.events)
    BY <1>1, <1>5, <1>6, CommitStores
  <2>2. Apply(t, q, e, n)
    BY <1>6
  <2> HIDE DEF q, e
  <2>3. Continues(rec[t], q, e.turns) /\ Keeps(e.turns, q.turns)
    BY <1>6, <2>1, AlikeContinues
  <2>4. e.turns = r.turns
    BY <2>1 DEF Stores
  <2>5. QED
    BY <1>2, <1>6, <2>1, <2>2, <2>3, <2>4
<1>7. ASSUME NEW o \in TurnOutcome
      PROVE  \E p \in ThreadRecord :
                /\ p = Ended(rec[t], c, o) /\ p.active = None
                /\ Continues(rec[t], p, p.turns) /\ Others(rec[t], p, c)
                /\ Committed(p.turns, Summary(c, o))
  <2>1. o \in Outcome
    BY DEF Outcome
  <2> DEFINE r == rec[t]
             p == Ended(r, c, o)
  <2>2. r \in ThreadRecord /\ r.active \in {c, None}
    BY <1>0
  <2> HIDE DEF r
  <2>3. /\ p \in ThreadRecord /\ Continues(r, p, p.turns) /\ p.active = None
        /\ Contains(p.turns, Summary(c, o)) /\ Others(r, p, c)
    BY <2>1, <2>2, EndedContinues, EndedType
  <2> HIDE DEF p
  <2>4. QED
    BY <2>3 DEF Committed, p, r
<1>8. ASSUME NEW o \in TurnOutcome, TurnEnds(c, o) \/ ReturnLost(c, o) PROVE HistoryInv'
  <2>1. PICK r \in ThreadRecord :
            /\ r = Ended(rec[t], c, o)
            /\ Continues(rec[t], r, r.turns) /\ Others(rec[t], r, c)
            /\ Committed(r.turns, Summary(c, o))
    BY <1>7
  <2>2. \E n : \E told : /\ Apply(t, Emit(r, E), Stored(d, r, <<E>>), n)
                         /\ Resolve(c, Summary(c, o)) /\ Leave(c, told)
                         /\ told = Summary(c, o) \/ told = Raise("ThreadStoreError")
    BY <1>8, <2>1 DEF TurnEnds, ReturnLost, Commit
  <2>3. QED
    BY <1>3, <1>6, <2>1, <2>2
<1>9. ASSUME NEW o \in TurnOutcome
      PROVE  \E once \in ThreadRecord :
                /\ once = Emit(Ended(rec[t], c, o), E) /\ once.active = None
                /\ Continues(rec[t], once, once.turns) /\ Others(rec[t], once, c)
  <2>1. PICK p \in ThreadRecord :
            /\ p = Ended(rec[t], c, o) /\ p.active = None
            /\ Continues(rec[t], p, p.turns) /\ Others(rec[t], p, c)
    BY <1>7
  <2>2. QED
    BY <1>5, <2>1
<1>10. ASSUME FinishedTwice(c) PROVE HistoryInv'
  <2>1. "failed" \in Outcome /\ "completed" \in TurnOutcome
    BY DEF Outcome, TurnOutcome
  <2>2. PICK once \in ThreadRecord :
            /\ once = Emit(Ended(rec[t], c, "completed"), E) /\ once.active = None
            /\ Continues(rec[t], once, once.turns) /\ Others(rec[t], once, c)
    BY <1>9, <2>1
  <2>3. PICK r \in ThreadRecord :
            /\ r = Ended(once, c, "failed")
            /\ Continues(rec[t], r, r.turns) /\ Others(rec[t], r, c)
            /\ Committed(r.turns, Summary(c, "failed"))
    BY <1>4, <2>1, <2>2
  <2>4. /\ Apply(t, Emit(r, E), Stored(d, r, <<E>>), 1) /\ Resolve(c, Summary(c, "failed"))
        /\ Leave(c, Summary(c, "failed"))
    BY <1>10, <2>2, <2>3 DEF FinishedTwice
  <2>5. QED
    BY <1>6, <2>3, <2>4
<1>11. ASSUME NEW o \in TurnOutcome, TerminalLost(c, o) PROVE HistoryInv'
  <2> DEFINE lost == IF o = "completed" THEN 2 ELSE 1
  <2>1. PICK once \in ThreadRecord :
            /\ once = Emit(Ended(rec[t], c, o), E) /\ once.active = None
            /\ Continues(rec[t], once, once.turns) /\ Others(rec[t], once, c)
    BY <1>9
  <2>2. PICK twice \in ThreadRecord :
            /\ twice = Ended(once, c, "failed")
            /\ Continues(rec[t], twice, twice.turns) /\ Others(rec[t], twice, c)
    BY <1>4, <2>1 DEF Outcome, TurnOutcome
  <2>3. PICK last \in ThreadRecord :
            /\ last = IF o = "completed" THEN Emit(twice, E) ELSE once
            /\ Continues(rec[t], last, last.turns) /\ Others(rec[t], last, c)
    BY <1>5, <2>1, <2>2
  <2> DEFINE r == Forget(last, c)
  <2>4. \A turns : Continues(rec[t], r, turns)
    BY <2>3, ForgetContinues
  <2>5. r.turns = last.turns
    BY <2>3, ForgetContinues
  <2>6. /\ Apply(t, r, Stored(d, r, <<>>), lost) \/ Apply(t, r, d, lost + 1)
        /\ Resolve(c, Raise("CancelledError")) /\ Leave(c, Raise("ThreadStoreError"))
    BY <1>11, <2>1, <2>2, <2>3 DEF TerminalLost
  <2> HIDE DEF r, lost
  <2>7. CASE Apply(t, r, Stored(d, r, <<>>), lost)
    <3> DEFINE e == Stored(d, r, <<>>)
    <3>1. /\ Stores(e, r) /\ StartedIn(e.events) = StartedIn(d.events)
      BY <1>1, CommitStores
    <3>2. Apply(t, r, e, lost)
      BY <2>7
    <3> HIDE DEF e
    <3>3. e.turns = r.turns
      BY <3>1 DEF Stores
    <3>4. QED
      BY <1>2, <1>3, <2>4, <2>6, <3>1, <3>2, <3>3, KeepsOrder
  <2>8. CASE Apply(t, r, d, lost + 1)
    <3>1. Stores(d, d)
      BY DEF Stores
    <3>2. Keeps(d.turns, r.turns)
      BY <1>1, <2>4, KeepsOrder DEF Continues
    <3>3. QED
      BY <1>2, <1>3, <2>4, <2>6, <2>8, <3>1, <3>2
  <2>9. QED
    BY <2>6, <2>7, <2>8
<1>12. ASSUME NEW o \in TurnOutcome, ReplayLost(c, o) PROVE HistoryInv'
  <2>1. PICK r \in ThreadRecord :
            /\ r = Ended(rec[t], c, o)
            /\ Continues(rec[t], r, r.turns) /\ Others(rec[t], r, c)
            /\ Committed(r.turns, Summary(c, o))
    BY <1>7
  <2> DEFINE f == Forget(r, c)
             q == Emit(f, E)
             once == Stored(d, r, <<E>>)
             twice == Stored(once, f, <<>>)
  <2>2. /\ \A turns : Continues(rec[t], f, turns)
        /\ f.turns = r.turns
    BY <2>1, ForgetContinues
  <2>3. f \in ThreadRecord /\ SameHistory(q, f)
    BY <2>1, ForgetType, EmitContinues
  <2>4. /\ Stores(once, r) /\ Stores(twice, f) /\ once \in StoredThread
        /\ StartedIn(once.events) = StartedIn(d.events)
    <3>1. <<E>> \in Seq(EventRec)
      BY <1>1
    <3>2. QED
      BY <1>0, <1>1, <2>1, <3>1, CommitStores, StoredType
  <2>5. StartedIn(twice.events) = StartedIn(d.events)
    <3> HIDE DEF once
    <3>1. StartedIn(twice.events) = StartedIn(once.events)
      BY <1>1, <2>4, CommittedStarts
    <3>2. QED
      BY <2>4, <3>1
  <2>6. /\ Apply(t, q, twice, 1) \/ Apply(t, q, once, 2)
        /\ Resolve(c, Summary(c, o)) /\ Leave(c, Raise("ThreadStoreError"))
    BY <1>12, <2>1 DEF ReplayLost
  <2> HIDE DEF f, q, once, twice
  <2>7. /\ once.turns = r.turns /\ twice.turns = r.turns /\ q.turns = r.turns
        /\ \A turns : Continues(rec[t], q, turns)
    BY <2>2, <2>3, <2>4 DEF Stores, SameHistory, Continues
  <2>8. \E e, n : /\ Apply(t, q, e, n) /\ e.turns = r.turns
                 /\ StartedIn(e.events) = StartedIn(d.events)
                 /\ \E p : Continues(rec[t], p, p.turns) /\ Stores(e, p)
    BY <2>1, <2>2, <2>4, <2>5, <2>6, <2>7
  <2>9. QED
    BY <1>2, <1>3, <2>1, <2>6, <2>7, <2>8, KeepsOrder
<1>13. QED
  BY <1>8, <1>10, <1>11, <1>12 DEF TurnTerminates
-----------------------------------------------------------------------------
(* The approvals, the commands and the ends of the other suspended calls. *)
LEMMA QuietHistory ==
    ASSUME TypeOK, HistoryInv,
           \/ \E c \in Call : RequestApproval(c) \/ SettleApproval(c)
           \/ \E t \in Thread : Stop(t) \/ CloseIdle(t) \/ CloseActive(t)
    PROVE  HistoryInv'
<1>1. ASSUME NEW c \in Call, NEW k \in EventType \ {"turn_started"}, NEW before, NEW after \in Status,
             SetWaiting(c, k, before, after)
      PROVE  HistoryInv'
  <2> DEFINE t == ThreadOf[c]
             r == [rec[t] EXCEPT !.status = after]
  <2>1. t \in Thread /\ rec[t] \in ThreadRecord
    BY CallAssumption DEF TypeOK
  <2>2. r \in ThreadRecord /\ SameHistory(r, rec[t])
    BY <2>1 DEF ThreadRecord, SameHistory
  <2>3. /\ Commit(t, r, Event(k, c), TRUE) /\ mode \in Running
        /\ mode' = mode /\ restored' = restored
        /\ result' = result /\ future' = future /\ waits' = waits
    BY <1>1 DEF SetWaiting, Active, Process
  <2> HIDE DEF r, t
  <2>4. QED
    BY <2>1, <2>2, <2>3, QuietCommit
<1>2. ASSUME NEW t \in Thread, Stop(t) \/ CloseActive(t) PROVE HistoryInv'
  <2> DEFINE c == rec[t].active
             p == [rec[t] EXCEPT !.closing = TRUE]
  <2>1. rec[t] \in ThreadRecord /\ c \in Call
    BY <1>2 DEF TypeOK, ThreadRecord, Stop, CloseActive
  <2>2. p \in ThreadRecord /\ SameHistory(p, rec[t]) /\ SameHistory(rec[t], rec[t])
    BY <2>1 DEF ThreadRecord, SameHistory
  <2>3. /\ mode \in Running /\ mode' = mode /\ restored' = restored
        /\ result' = result /\ future' = future /\ waits' = waits
    BY <1>2 DEF Stop, CloseActive, Process
  <2>4. \E ok \in BOOLEAN :
           \/ Commit(t, rec[t], Event("turn_cancel_requested", c), ok)
           \/ Commit(t, p, Event("thread_close_requested", c), ok)
    BY <1>2 DEF Stop, CloseActive
  <2> HIDE DEF p, c
  <2>5. QED
    BY <2>1, <2>2, <2>3, <2>4, QuietCommit DEF EventType
<1>3. ASSUME NEW t \in Thread, CloseIdle(t) PROVE HistoryInv'
  <2> DEFINE r == [rec[t] EXCEPT !.closing = TRUE, !.status = "closed", !.tools = "closed"]
             e == Stored(durable[t], r, <<>>)
  <2>1. rec[t] \in ThreadRecord /\ durable[t] \in StoredThread
    BY DEF TypeOK
  <2>2. SameHistory(r, rec[t])
    BY <2>1 DEF ThreadRecord, SameHistory
  <2>3. /\ mode \in Running /\ mode' = mode /\ restored' = restored
        /\ result' = result /\ future' = future /\ waits' = waits
    BY <1>3 DEF CloseIdle, Process, callVars
  <2>4. Apply(t, r, e, 0) \/ Apply(t, r, durable[t], 1)
    BY <1>3 DEF CloseIdle
  <2>5. \A x : Informed(t, x)
    BY <2>3 DEF Informed
  <2>6. StartedIn(e.events) = StartedIn(durable[t].events)
    <3>1. e.events = durable[t].events
      BY <2>1 DEF Stored, StoredThread
    <3>2. QED
      BY <3>1
  <2>7. Stores(e, r) /\ Stores(durable[t], durable[t])
    <3>1. Stores(e, r)
      BY CommitStores
    <3>2. QED
      BY <3>1 DEF Stores
  <2> HIDE DEF r, e
  <2>8. Stores(e, rec[t])
    BY <2>2, <2>7 DEF Stores, SameHistory
  <2>9. QED
    BY <2>2, <2>3, <2>4, <2>5, <2>6, <2>7, <2>8, QuietStep
<1>4. QED
  BY <1>1, <1>2, <1>3 DEF RequestApproval, SettleApproval, EventType, Status

(* A joined caller is told what the future of its Turn holds. *)
LEMMA WaiterHistory ==
    ASSUME TypeOK, HistoryInv, NEW c \in Call, CleanupEnds(c) \/ JoinEnds(c) \/ CancelTask(c)
    PROVE  HistoryInv'
<1> DEFINE t == ThreadOf[c]
<1>0. t \in Thread /\ rec[t] \in ThreadRecord /\ CallHistory(c)
  BY CallAssumption DEF TypeOK, HistoryInv
<1>1. \A turns, code : Committed(turns, Raise(code))
  BY DEF Raise, Committed
<1>2. CASE CleanupEnds(c)
  <2> DEFINE q == [rec[t] EXCEPT !.tools = "closed"]
  <2>1. /\ mode \in Running /\ mode' = mode /\ restored' = restored
        /\ \/ result' = result
           \/ result' = [result EXCEPT ![c] = Raise("CancelledError")]
        /\ future' = future /\ waits' = waits
    BY <1>2 DEF CleanupEnds, Finish, Process, TypeOK
  <2>2. Apply(t, q, durable[t], 0)
    BY <1>0, <1>2, BoundsAssumption DEF CleanupEnds, Apply, TypeOK
  <2>3. SameHistory(q, rec[t]) /\ Stores(durable[t], durable[t])
    BY <1>0 DEF ThreadRecord, SameHistory, Stores
  <2>4. Informed(t, durable[t])
    BY <1>1, <2>1 DEF Informed, TypeOK
  <2> HIDE DEF q
  <2>5. QED
    BY <1>0, <2>1, <2>2, <2>3, <2>4, QuietStep
<1>3. ASSUME rec' = rec, durable' = durable, future' = future, mode' = mode,
             restored' = restored,
             \A b \in Call : /\ \/ result'[b] = result[b]
                                \/ b = c /\ Committed(durable[t].turns, result'[b])
                             /\ waits'[b] \in {None, waits[b]}
      PROVE  HistoryInv'
  <2>1. ASSUME NEW b \in Call PROVE CallHistory(b)'
    <3>1. CallHistory(b)
      BY DEF HistoryInv
    <3>2. QED
      BY <1>3, <3>1 DEF CallHistory, Committed
  <2>2. QED
    BY <1>3, <2>1 DEF HistoryInv, StoredHistory, RecordHistory, Accounted, Owned,
       Backed, Committed, Keeps, EndedIn, StartedIn, Contains, Event, Running
<1>4. CASE JoinEnds(c)
  <2>1. ASSUME NEW d \in Call, waits[c] = d PROVE Committed(durable[t].turns, future[d])
    <3>1. CallHistory(d) /\ ThreadOf[d] = t
      BY <1>0, <2>1, CallAssumption DEF HistoryInv, CallHistory
    <3>2. QED
      BY <3>1 DEF CallHistory
  <2>2. \E res : Committed(durable[t].turns, res) /\ result' = [result EXCEPT ![c] = res]
    BY <1>1, <1>4, <2>1 DEF JoinEnds, Finish
  <2>3. /\ rec' = rec /\ durable' = durable /\ future' = future /\ mode' = mode
        /\ restored' = restored /\ waits' = [waits EXCEPT ![c] = None]
    BY <1>4 DEF JoinEnds, Process
  <2>4. QED
    BY <1>3, <2>2, <2>3 DEF TypeOK
<1>5. CASE CancelTask(c)
  BY <1>3, <1>5 DEF CancelTask, Process
<1>6. QED
  BY <1>2, <1>4, <1>5

(* aclose saves records as they are. *)
LEMMA AcloseHistory ==
    ASSUME TypeOK, HistoryInv, Aclose \/ AcloseFails
    PROVE  HistoryInv'
<1>0. /\ restored = Thread /\ restored' = restored /\ mode' = "stopping"
      /\ result' = result /\ future' = future /\ waits' = waits
  BY AcloseFields DEF HistoryInv, Running
<1>1. ASSUME NEW t \in Thread
      PROVE  /\ StoredHistory(t, durable'[t]) /\ RecordHistory(t, rec'[t], durable'[t])
             /\ Keeps(durable[t].turns, durable'[t].turns)
  <2> DEFINE r == rec[t]
             d == durable[t]
             q == rec'[t]
             e == durable'[t]
  <2>1. r \in ThreadRecord /\ d \in StoredThread
    BY DEF TypeOK
  <2>2. SameHistory(q, r)
    <3>1. q \in {r, [r EXCEPT !.tools = "closed"]}
      BY AcloseFields
    <3>2. QED
      BY <2>1, <3>1 DEF ThreadRecord, SameHistory
  <2>3. /\ Stores(e, d) \/ Stores(e, r)
        /\ e.events = d.events
    <3>1. e \in {d, Stored(d, r, <<>>)}
      BY AcloseFields
    <3>2. QED
      BY <2>1, <3>1 DEF Stored, Stores, StoredThread
  <2>4. StoredHistory(t, d) /\ RecordHistory(t, r, d)
    BY <1>0 DEF HistoryInv
  <2> HIDE DEF r, d, q, e
  <2>5. Continues(r, q, e.turns) /\ Continues(r, r, r.turns)
    BY <2>2, SameContinues DEF SameHistory
  <2>6. Keeps(e.turns, q.turns)
    BY <2>2, <2>3, <2>4, KeepsOrder DEF Stores, SameHistory, RecordHistory
  <2>7. StoredHistory(t, e) /\ RecordHistory(t, q, e) /\ Keeps(d.turns, e.turns)
    BY <2>3, <2>4, <2>5, <2>6, ContinuedHistory
  <2>8. QED
    BY <2>7 DEF d, q, e
<1>2. ASSUME NEW c \in Call PROVE Told(c)
  <2>1. ThreadOf[c] \in Thread
    BY CallAssumption
  <2>2. QED
    BY <1>0, <1>1, <2>1, ToldKept
<1>3. \A c \in Call : CallHistory(c)'
  BY <1>2 DEF Told, CallHistory, Committed
<1>4. \A u \in Thread : StoredHistory(u, durable[u])' /\ RecordHistory(u, rec[u], durable[u])'
  BY <1>1 DEF StoredHistory, RecordHistory, Accounted, Owned, Backed, Committed, Keeps, EndedIn,
              StartedIn, Contains, Event
<1>5. QED
  BY <1>0, <1>3, <1>4 DEF HistoryInv

(* A crash keeps the store and takes back no result. *)
LEMMA CrashHistory ==
    ASSUME TypeOK, HistoryInv, Crash
    PROVE  HistoryInv'
<1>1. /\ durable' = durable /\ restored' = {} /\ mode' = "down"
      /\ \A c \in Call : /\ result'[c] \in {result[c], NoResult} /\ future'[c] = NoResult
                         /\ waits'[c] = None
  BY DEF Crash
<1>2. \A turns : Committed(turns, NoResult)
  BY DEF Committed, NoResult, Raise
<1>3. ASSUME NEW c \in Call PROVE CallHistory(c)'
  <2>1. CallHistory(c)
    BY DEF HistoryInv
  <2>2. /\ Committed(durable[ThreadOf[c]].turns, result'[c])
        /\ Committed(durable[ThreadOf[c]].turns, future'[c])
    BY <1>1, <1>2, <2>1 DEF CallHistory
  <2>3. QED
    BY <1>1, <2>2 DEF CallHistory, Committed
<1>4. QED
  BY <1>1, <1>3 DEF HistoryInv, Running, StoredHistory, Accounted, Owned,
     Backed, Committed, EndedIn, StartedIn, Contains, Event

(* The record of a recovered Turn, and what the store then has of it. *)
LEMMA RecoveredHistory ==
    ASSUME TypeOK, NEW t \in Thread, StoredHistory(t, durable[t]), durable[t].active # None,
           NEW r, r = Recovered(durable[t]), NEW E, E = Terminal(durable[t].active),
           NEW e, e = Stored(durable[t], r, <<E>>)
    PROVE  /\ StoredHistory(t, e) /\ RecordHistory(t, Emit(r, E), e)
           /\ Keeps(durable[t].turns, e.turns)
<1> DEFINE d == durable[t]
           c == d.active
           s == Summary(c, "runtime_restarted")
           q == Emit(r, E)
<1>1. /\ c \in Call /\ r \in ThreadRecord /\ d \in StoredThread
      /\ d.idem \in [Key -> SubmissionRec]
  BY RecoveredType DEF TypeOK, StoredThread
<1>2. r.active = None /\ r.turns = Append(d.turns, s)
      /\ r.idem = IF Keyed(c) /\ d.idem[KeyOf[c]].turn # None
                    THEN PutKey(d.idem, c, [Submission(c) EXCEPT !.summary = s,
                                                                 !.interrupted = TRUE])
                    ELSE d.idem
  <2>1. /\ Loaded(d).active = c /\ Loaded(d).turns = d.turns /\ Loaded(d).idem = d.idem
        /\ Loaded(d).events = d.events /\ Loaded(d) \in ThreadRecord
    BY <1>1, LoadedType DEF Loaded, NewRecord
  <2>2. QED
    BY <2>1 DEF Recovered, ThreadRecord
<1>3. Keeps(d.turns, r.turns) /\ Contains(r.turns, s) /\ s.turn = c
  <2> DEFINE T == [turn : Call, code : Outcome]
  <2>1. d.turns \in Seq(T) /\ s \in T /\ s.turn = c
    BY <1>1, SummaryType DEF StoredThread, TurnList, Outcome, Summary
  <2> HIDE DEF T, s
  <2>2. Keeps(d.turns, Append(d.turns, s)) /\ Contains(Append(d.turns, s), s)
    BY <2>1, AppendKeeps
  <2>3. QED
    BY <1>2, <2>1, <2>2
<1>4. /\ Accounted(r, d.events) /\ Backed(r, r.turns) /\ Owned(t, r)
  <2>1. EndedIn(r.turns, c)
    BY <1>3 DEF Contains, EndedIn
  <2>2. Accounted(r, d.events)
    BY <1>2, <1>3, <2>1, KeepsOrder DEF StoredHistory, Accounted
  <2>3. \A k \in Key : \/ r.idem[k] = d.idem[k]
                       \/ r.idem[k].turn = c /\ r.idem[k].summary = s
    BY <1>1, <1>2 DEF PutKey, Submission
  <2> HIDE DEF s
  <2>4. Backed(r, r.turns)
    BY <1>3, <2>3, KeepsOrder DEF StoredHistory, Backed, Committed
  <2>5. ThreadOf[c] = t
    BY ZenonT(30) DEF StoredHistory, Owned
  <2>6. Owned(t, r)
    BY <1>2, <2>3, <2>5, ZenonT(30) DEF StoredHistory, Owned
  <2>7. QED
    BY <2>2, <2>4, <2>6
<1>5. SameHistory(q, r) /\ Stores(e, r)
  BY <1>1, EmitContinues, CommitStores
<1>6. StartedIn(e.events) = StartedIn(d.events)
  <2>1. E \in EventRec /\ E.type # "turn_started"
    BY <1>1, EventTypes DEF Terminal, Event, EventType
  <2> HIDE DEF d
  <2>2. QED
    BY <1>1, <2>1, CommittedStarts DEF d
<1> HIDE DEF d, q, s
<1>7. Accounted(e, e.events) /\ Accounted(q, e.events)
  BY <1>4, <1>5, <1>6 DEF Accounted, SameHistory, Stores
<1>8. Owned(t, e) /\ Owned(t, q)
  BY <1>4, <1>5 DEF Owned, SameHistory, Stores
<1>9. Backed(e, e.turns) /\ Backed(q, e.turns)
  BY <1>4, <1>5 DEF Backed, SameHistory, Stores
<1>10. Keeps(e.turns, q.turns) /\ Keeps(d.turns, e.turns)
  BY <1>3, <1>5, KeepsOrder DEF SameHistory, Stores
<1>11. QED
  BY <1>7, <1>8, <1>9, <1>10 DEF StoredHistory, RecordHistory, q, d

(* Recovery accounts for the Turn that was active. *)
LEMMA RestoreHistory ==
    ASSUME TypeOK, HistoryInv, NEW t \in Thread, RestoreThread(t)
    PROVE  HistoryInv'
<1> DEFINE d == durable[t]
           c == d.active
<1>0. /\ d \in StoredThread /\ StoredHistory(t, d) /\ d.idem \in [Key -> SubmissionRec]
      /\ result' = result /\ future' = future /\ waits' = waits
      /\ restored' = restored \cup {t} /\ mode = "starting"
      /\ mode' \in Running => restored' = Thread
      /\ <<>> \in Seq(EventRec)
  BY DEF TypeOK, HistoryInv, RestoreThread, callVars, StoredThread, Running
<1>1. ASSUME NEW q, NEW e, NEW n, Apply(t, q, e, n),
             StoredHistory(t, e), RecordHistory(t, q, e), Keeps(d.turns, e.turns)
      PROVE  HistoryInv'
  BY <1>0, <1>1, OneThreadHistory
<1>2. /\ Loaded(d).active = c /\ Loaded(d).turns = d.turns /\ Loaded(d).idem = d.idem
      /\ Loaded(d).events = d.events /\ Loaded(d) \in ThreadRecord
  BY <1>0, LoadedType DEF Loaded, NewRecord
<1>3. RecordHistory(t, Loaded(d), d)
  BY <1>0, <1>2, KeepsOrder DEF StoredHistory, RecordHistory, Accounted, Owned, Backed
<1>4. CASE IsCoherentlyTerminal(d)
  <2> DEFINE r == Repaired(d)
             e == Stored(d, r, <<>>)
  <2>1. r.active = None /\ r.turns = d.turns /\ r.idem = d.idem
    BY <1>2 DEF Repaired, ThreadRecord
  <2>2. EndedIn(d.turns, c)
    <3>1. d.turns # <<>> /\ d.turns[Len(d.turns)].turn = c /\ d.turns \in TurnList
      BY <1>0, <1>4 DEF IsCoherentlyTerminal, StoredThread
    <3>2. Len(d.turns) \in DOMAIN d.turns
      BY <3>1 DEF TurnList
    <3>3. QED
      BY <3>1, <3>2 DEF EndedIn
  <2>3. Continues(Loaded(d), r, r.turns)
    BY <1>2, <2>1, <2>2, KeepsOrder DEF Continues
  <2>4. Stores(e, r) /\ e.events = d.events /\ e.turns = r.turns
    BY <1>0, <2>1 DEF Stores, Stored, StoredThread
  <2>5. Apply(t, r, e, 0)
    BY <1>4 DEF RestoreThread
  <2> HIDE DEF r, e
  <2>6. StoredHistory(t, e) /\ RecordHistory(t, r, e) /\ Keeps(d.turns, e.turns)
    BY <1>0, <1>3, <2>3, <2>4, KeepsOrder, ContinuedHistory
  <2>7. QED
    BY <1>1, <2>5, <2>6
<1>5. CASE ~IsCoherentlyTerminal(d) /\ c # None
  <2> DEFINE r == Recovered(d)
             E == Terminal(c)
             q == Emit(r, E)
             e == Stored(d, r, <<E>>)
  <2>1. Apply(t, q, e, 0)
    BY <1>5 DEF RestoreThread, Commit
  <2>2. StoredHistory(t, e) /\ RecordHistory(t, q, e) /\ Keeps(d.turns, e.turns)
    BY <1>0, <1>5, RecoveredHistory
  <2> HIDE DEF r, q, e, E
  <2>3. QED
    BY <1>1, <2>1, <2>2
<1>6. CASE ~IsCoherentlyTerminal(d) /\ c = None
  <2>1. Apply(t, Loaded(d), d, 0)
    BY <1>6 DEF RestoreThread
  <2>2. QED
    BY <1>0, <1>1, <1>3, <2>1, KeepsOrder
<1>7. QED
  BY <1>4, <1>5, <1>6

(* A recovery that fails keeps the store, or leaves the outcome it has saved. *)
LEMMA RestoreFailsHistory ==
    ASSUME TypeOK, HistoryInv, NEW t \in Thread, RestoreFails(t)
    PROVE  HistoryInv'
<1> DEFINE d == durable[t]
           e == Stored(d, Recovered(d), <<Terminal(d.active)>>)
<1>0. /\ restored' = {} /\ mode' = "down" /\ StoredHistory(t, d) /\ d.active # None
      /\ result' = result /\ future' = future /\ waits' = waits
  BY DEF RestoreFails, HistoryInv, callVars
<1>1. StoredHistory(t, e) /\ Keeps(d.turns, e.turns)
  BY <1>0, RecoveredHistory
<1>2. durable' = durable \/ durable' = [durable EXCEPT ![t] = e]
  BY DEF RestoreFails
<1> HIDE DEF e
<1>3. \A u \in Thread : StoredHistory(u, durable'[u]) /\ Keeps(durable[u].turns, durable'[u].turns)
  BY <1>1, <1>2, KeepsOrder DEF HistoryInv, TypeOK
<1>4. ASSUME NEW c \in Call PROVE Told(c)
  <2>1. ThreadOf[c] \in Thread
    BY CallAssumption
  <2>2. QED
    BY <1>0, <1>3, <2>1, ToldKept
<1>5. \A c \in Call : CallHistory(c)'
  BY <1>4 DEF Told, CallHistory, Committed
<1>6. \A u \in Thread : StoredHistory(u, durable[u])'
  BY <1>3 DEF StoredHistory, Accounted, Owned, Backed, Committed, EndedIn, StartedIn, Contains,
              Event
<1>7. QED
  BY <1>0, <1>5, <1>6 DEF HistoryInv, Running
-----------------------------------------------------------------------------
(* Every step preserves the histories. *)
LEMMA NextHistory == TypeOK /\ AgreeInv /\ HistoryInv /\ [Next]_vars => HistoryInv'
<1> SUFFICES ASSUME TypeOK, AgreeInv, HistoryInv, [Next]_vars PROVE HistoryInv'
  OBVIOUS
<1>1. ASSUME NEW c \in Call, Invoke(c) PROVE HistoryInv'
  BY <1>1, InvokeHistory
<1>2. ASSUME NEW c \in Call, Preflight(c) PROVE HistoryInv'
  <2>1. CASE StartTurn(c)
    BY <2>1, StartHistory
  <2>2. CASE ~StartTurn(c)
    <3>1. \/ \E code, holds : \E ok \in BOOLEAN : Reject(c, code, holds, ok)
          \/ StartLost(c)
      BY <1>2, <2>2 DEF Preflight, RejectCancelled, RejectInvalidRoot, RejectBusy,
         RejectClosed, RejectContext
    <3>2. mode \in Running
      BY <1>2, <2>2 DEF Preflight, RejectCancelled, RejectInvalidRoot, RejectBusy,
         RejectClosed, RejectContext, StartLost, CanStart
    <3>3. QED
      BY <3>1, <3>2, RejectionHistory
  <2>3. QED
    BY <2>1, <2>2
<1>3. ASSUME NEW c \in Call, TurnTerminates(c) PROVE HistoryInv'
  BY <1>3, TurnHistory
<1>4. ASSUME NEW c \in Call, SettleApproval(c) \/ RequestApproval(c) PROVE HistoryInv'
  BY <1>4, QuietHistory
<1>5. ASSUME NEW c \in Call, CleanupEnds(c) \/ JoinEnds(c) \/ CancelTask(c) PROVE HistoryInv'
  BY <1>5, WaiterHistory
<1>6. ASSUME NEW t \in Thread, Stop(t) \/ CloseIdle(t) \/ CloseActive(t) PROVE HistoryInv'
  BY <1>6, QuietHistory
<1>7. ASSUME NEW t \in Thread, RestoreThread(t) PROVE HistoryInv'
  BY <1>7, RestoreHistory
<1>8. CASE Aclose \/ AcloseFails
  BY <1>8, AcloseHistory
<1>9. CASE Crash
  BY <1>9, CrashHistory
<1>10. CASE Restart \/ UNCHANGED vars
  <2>1. /\ rec' = rec /\ durable' = durable /\ result' = result /\ future' = future
        /\ waits' = waits /\ restored' = restored /\ (mode' \in Running => mode \in Running)
    BY <1>10 DEF Restart, callVars, vars, Running
  <2>2. QED
    BY <2>1 DEF HistoryInv, CallHistory, StoredHistory, RecordHistory, Accounted, Owned,
       Backed, Committed, Keeps, EndedIn, StartedIn, Contains, Event
<1>11. ASSUME NEW t \in Thread, RestoreFails(t) PROVE HistoryInv'
  BY <1>11, RestoreFailsHistory
<1>12. QED
  BY <1>1, <1>2, <1>3, <1>4, <1>5, <1>6, <1>7, <1>8, <1>9, <1>10, <1>11 DEF Next, Settles

(* A summary that run_turn returned, however the store fails around it, is in  *)
(* the store: no crash takes back what a caller was told.                    *)
THEOREM ResultsDurable == Spec => []ReturnedIsDurable
<1>1. Init => TypeOK /\ AgreeInv /\ HistoryInv
  BY InitType, InitAgrees, InitHistory
<1>2. TypeOK /\ AgreeInv /\ HistoryInv /\ [Next]_vars => (TypeOK /\ AgreeInv /\ HistoryInv)'
  BY NextType, NextAgrees, NextHistory
<1>3. HistoryInv => ReturnedIsDurable
  BY DEF HistoryInv, CallHistory, Committed, ReturnedIsDurable
<1>4. QED
  BY <1>1, <1>2, <1>3, PTL DEF Spec
-----------------------------------------------------------------------------
(* As long as every commit succeeded, the record of a Thread is what the      *)
(* store has, each Turn has at most one outcome and each key its own Turn.    *)
EndsOnce(turns) == \A i, j \in DOMAIN turns : turns[i].turn = turns[j].turn => i = j
KeysHeld(d) == \A c \in StartedIn(d.events) : Keyed(c) => d.idem[KeyOf[c]].turn = c
Single(d) == /\ EndsOnce(d.turns) /\ KeysHeld(d)
             /\ d.active # None => d.active \in StartedIn(d.events)
Unfinished(d) == d.active # None => ~EndedIn(d.turns, d.active)

(* Only a Turn an older Runtime finished is both active and ended. *)
FaultlessThread(d, r, here) ==
    /\ Single(d)
    /\ IsCoherentlyTerminal(d) \/ Unfinished(d)
    /\ here => Stores(d, r) /\ Unfinished(d)

(* A call that has not started its Turn has left no trace, and once it         *)
(* validates its key stays free.                                             *)
FreshCall(p, c, d) ==
    /\ p \in {"idle", "validating"} => c \notin StartedIn(d.events) /\ ~EndedIn(d.turns, c)
    /\ p = "validating" /\ Keyed(c) => d.idem[KeyOf[c]].turn = None

FaultlessInv == storeFailures = 0 =>
    /\ \A t \in Thread : FaultlessThread(durable[t], rec[t], t \in restored)
    /\ \A c \in Call : FreshCall(pc[c], c, durable[ThreadOf[c]])

(* The invariant of the next state, Thread by Thread and call by call. *)
LEMMA FaultlessNext ==
    ASSUME \A u \in Thread : FaultlessThread(durable'[u], rec'[u], u \in restored'),
           \A c \in Call : FreshCall(pc'[c], c, durable'[ThreadOf[c]])
    PROVE  FaultlessInv'
<1>1. \A c \in Call : FreshCall(pc[c], c, durable[ThreadOf[c]])'
  BY DEF FreshCall, EndedIn, StartedIn, Contains, Event, Keyed
<1>2. \A u \in Thread : FaultlessThread(durable[u], rec[u], u \in restored)'
  BY DEF FaultlessThread, Single, Unfinished, Stores, EndsOnce, KeysHeld,
     EndedIn, StartedIn, Contains, Event, Keyed, IsCoherentlyTerminal, Terminal
<1>3. QED
  BY <1>1, <1>2 DEF FaultlessInv

(* A step of one Thread whose commits succeed. *)
LEMMA OneThreadFaultless ==
    ASSUME TypeOK, FaultlessInv, storeFailures = 0, NEW t \in Thread,
           NEW q, NEW e, NEW n, Apply(t, q, e, n), restored' \in {restored, restored \cup {t}},
           Single(e), Unfinished(e), Stores(e, q),
           \A c \in Call : ThreadOf[c] = t => FreshCall(pc'[c], c, e),
           \A c \in Call : ThreadOf[c] # t => pc'[c] = pc[c]
    PROVE  FaultlessInv'
<1>1. /\ rec'[t] = q /\ durable'[t] = e
      /\ \A u \in Thread : u # t => rec'[u] = rec[u] /\ durable'[u] = durable[u]
  BY DEF Apply, TypeOK
<1>2. ASSUME NEW u \in Thread PROVE FaultlessThread(durable'[u], rec'[u], u \in restored')
  <2>1. CASE u = t
    BY <1>1, <2>1 DEF FaultlessThread
  <2>2. CASE u # t
    BY <1>1, <2>2 DEF FaultlessInv, FaultlessThread
  <2>3. QED
    BY <2>1, <2>2
<1>3. ASSUME NEW c \in Call PROVE FreshCall(pc'[c], c, durable'[ThreadOf[c]])
  <2>1. ThreadOf[c] \in Thread
    BY CallAssumption
  <2>2. CASE ThreadOf[c] = t
    BY <1>1, <2>2
  <2>3. CASE ThreadOf[c] # t
    BY <1>1, <2>1, <2>3 DEF FaultlessInv
  <2>4. QED
    BY <2>2, <2>3
<1>4. QED
  BY <1>2, <1>3, FaultlessNext

(* A step that changes no history. *)
LEMMA QuietFaultless ==
    ASSUME TypeOK, HistoryInv, FaultlessInv, storeFailures = 0, mode \in Running,
           NEW t \in Thread, NEW q, NEW e, NEW n, Apply(t, q, e, n), restored' = restored,
           StartedIn(e.events) = StartedIn(durable[t].events),
           Stores(e, durable[t]) \/ Stores(e, rec[t]), SameHistory(q, rec[t]),
           \A c \in Call : ThreadOf[c] = t => FreshCall(pc'[c], c, durable[t]),
           \A c \in Call : ThreadOf[c] # t => pc'[c] = pc[c]
    PROVE  FaultlessInv'
<1> DEFINE d == durable[t]
<1>1. Single(d) /\ Unfinished(d) /\ Stores(d, rec[t])
  BY DEF HistoryInv, FaultlessInv, FaultlessThread
<1> HIDE DEF d
<1>2. e.active = d.active /\ e.turns = d.turns /\ e.idem = d.idem /\ Stores(e, q)
      /\ StartedIn(e.events) = StartedIn(d.events)
  BY <1>1 DEF Stores, SameHistory, d
<1>3. Single(e) /\ Unfinished(e)
  BY <1>1, <1>2 DEF Single, Unfinished, KeysHeld
<1>4. \A c \in Call : ThreadOf[c] = t => FreshCall(pc'[c], c, e)
  BY <1>2 DEF FreshCall, d
<1>5. QED
  BY <1>2, <1>3, <1>4, OneThreadFaultless

(* Such a step that emits one event. *)
LEMMA QuietCommitFaultless ==
    ASSUME TypeOK, HistoryInv, FaultlessInv, storeFailures = 0, mode \in Running,
           NEW t \in Thread, NEW r \in ThreadRecord, SameHistory(r, rec[t]),
           NEW c \in Call, NEW k \in EventType \ {"turn_started"}, NEW ok \in BOOLEAN,
           Commit(t, r, Event(k, c), ok), restored' = restored,
           \A b \in Call : \/ pc'[b] = pc[b]
                           \/ ThreadOf[b] = t /\ pc'[b] \notin {"idle", "validating"}
    PROVE  FaultlessInv'
<1> DEFINE ev == Event(k, c)
           q == Emit(r, ev)
           e == IF ok THEN Stored(durable[t], r, <<ev>>) ELSE durable[t]
           n == IF ok THEN 0 ELSE 1
<1>1. Apply(t, q, e, n)
  BY DEF Commit
<1>2. SameHistory(q, rec[t])
  BY EmitContinues DEF SameHistory
<1>3. StartedIn(e.events) = StartedIn(durable[t].events)
  <2>1. ev \in EventRec /\ ev.type # "turn_started" /\ durable[t] \in StoredThread
    BY EventTypes DEF Event, TypeOK
  <2> HIDE DEF ev
  <2>2. StartedIn(Stored(durable[t], r, <<ev>>).events) = StartedIn(durable[t].events)
    BY <2>1, CommittedStarts
  <2>3. QED
    BY <2>2
<1>4. Stores(e, durable[t]) \/ Stores(e, rec[t])
  BY CommitStores DEF Stores, SameHistory
<1>5. \A b \in Call : ThreadOf[b] = t => FreshCall(pc'[b], b, durable[t])
  BY DEF FaultlessInv, FreshCall
<1> HIDE DEF q, e, n
<1>6. QED
  BY <1>1, <1>2, <1>3, <1>4, <1>5, QuietFaultless
-----------------------------------------------------------------------------
(* A failed commit is counted, and the count never falls. *)
LEMMA FailuresGrow ==
    ASSUME TypeOK, [Next]_vars, storeFailures' = 0
    PROVE  storeFailures = 0
<1>0. storeFailures \in Nat
  BY BoundsAssumption DEF TypeOK
<1>1. \A n \in Nat : storeFailures' = storeFailures + n => storeFailures = 0
  BY <1>0
<1>2. ASSUME NEW t, NEW r, NEW e, NEW ok, Commit(t, r, e, ok) PROVE storeFailures = 0
  BY <1>1, <1>2 DEF Commit, Apply
<1>3. ASSUME NEW c \in Call, Invoke(c) \/ CleanupEnds(c) \/ JoinEnds(c) \/ CancelTask(c)
      PROVE  storeFailures = 0
  BY <1>3 DEF Invoke, AnswerFromKey, Join, Refuse, BeginPreflight, CleanupEnds, JoinEnds, CancelTask
<1>4. ASSUME NEW c \in Call, Preflight(c) PROVE storeFailures = 0
  <2>1. CASE StartLost(c)
    BY <1>1, <2>1 DEF StartLost, Apply
  <2>2. CASE ~StartLost(c)
    BY <1>2, <1>4, <2>2 DEF Preflight, RejectCancelled, RejectInvalidRoot, RejectBusy,
       RejectClosed, RejectContext, Reject, StartTurn
  <2>3. QED
    BY <2>1, <2>2
<1>5. ASSUME NEW c \in Call, SettleApproval(c) \/ RequestApproval(c) PROVE storeFailures = 0
  BY <1>2, <1>5 DEF SettleApproval, RequestApproval, SetWaiting
<1>6. ASSUME NEW c \in Call, TurnTerminates(c) PROVE storeFailures = 0
  <2>1. \E n \in Nat : storeFailures' = storeFailures + n
    BY <1>6 DEF TurnTerminates, FinishedTwice, TurnEnds, TerminalLost, ReplayLost,
       ReturnLost, Commit, Apply
  <2>2. QED
    BY <1>1, <2>1
<1>7. ASSUME NEW t \in Thread, Stop(t) \/ CloseActive(t) \/ CloseIdle(t) PROVE storeFailures = 0
  BY <1>1, <1>2, <1>7 DEF Stop, CloseActive, CloseIdle, Apply
<1>8. ASSUME NEW t \in Thread, RestoreThread(t) \/ RestoreFails(t) PROVE storeFailures = 0
  BY <1>1, <1>2, <1>8 DEF RestoreThread, RestoreFails, Apply
<1>9. CASE AcloseFails
  BY <1>1, <1>9 DEF AcloseFails
<1>10. CASE Aclose \/ Crash \/ Restart \/ UNCHANGED vars
  BY <1>10 DEF Aclose, Crash, Restart, vars
<1>11. QED
  BY <1>3, <1>4, <1>5, <1>6, <1>7, <1>8, <1>9, <1>10 DEF Next, Settles

(* A shutdown and a recovery that fail are counted. *)
LEMMA FailsCounted ==
    ASSUME TypeOK, storeFailures' = 0
    PROVE  ~AcloseFails /\ \A t \in Thread : ~RestoreFails(t)
<1>1. storeFailures \in Nat
  BY BoundsAssumption DEF TypeOK
<1>2. QED
  BY <1>1 DEF AcloseFails, RestoreFails

(* A list without the Turn c gains one outcome of c. *)
LEMMA AppendOnce ==
    ASSUME NEW turns \in TurnList, NEW s \in [turn : Call, code : Outcome],
           EndsOnce(turns), ~EndedIn(turns, s.turn)
    PROVE  /\ EndsOnce(Append(turns, s))
           /\ \A c : EndedIn(Append(turns, s), c) => EndedIn(turns, c) \/ c = s.turn
<1> DEFINE T == [turn : Call, code : Outcome]
           u == Append(turns, s)
<1>1. turns \in Seq(T) /\ s \in T
  BY DEF TurnList
<1> HIDE DEF T
<1>2. /\ DOMAIN turns = 1..Len(turns) /\ Len(turns) \in Nat
      /\ DOMAIN u = 1..(Len(turns) + 1)
      /\ \A i \in 1..Len(turns) : u[i] = turns[i]
      /\ u[Len(turns) + 1] = s
  BY <1>1
<1> HIDE DEF u
<1>3. \A i \in DOMAIN turns : turns[i].turn # s.turn
  BY DEF EndedIn
<1>4. EndsOnce(u)
  <2> SUFFICES ASSUME NEW i \in DOMAIN u, NEW j \in DOMAIN u, u[i].turn = u[j].turn
               PROVE  i = j
    BY DEF EndsOnce
  <2>1. i \in 1..Len(turns) \/ i = Len(turns) + 1
    BY <1>2
  <2>2. j \in 1..Len(turns) \/ j = Len(turns) + 1
    BY <1>2
  <2>3. QED
    BY <1>2, <1>3, <2>1, <2>2 DEF EndsOnce
<1>5. ASSUME NEW c, EndedIn(u, c) PROVE EndedIn(turns, c) \/ c = s.turn
  BY <1>2, <1>5 DEF EndedIn
<1>6. QED
  BY <1>4, <1>5 DEF u

(* A Turn starts with a key that no other started Turn has. *)
LEMMA StartFaultless ==
    ASSUME TypeOK, AgreeInv, HistoryInv, FaultlessInv, storeFailures = 0,
           NEW c \in Call, StartTurn(c)
    PROVE  FaultlessInv'
<1> DEFINE t == ThreadOf[c]
           d == durable[t]
           idem == PutKey(rec[t].idem, c, Submission(c))
           r == [rec[t] EXCEPT !.preflight = None, !.status = "running",
                               !.active = c, !.idem = idem]
           ev == Event("turn_started", c)
           q == Emit(r, ev)
           e == Stored(d, r, <<ev>>)
<1>0. /\ t \in Thread /\ rec[t] \in ThreadRecord /\ d \in StoredThread
      /\ mode \in Running /\ pc[c] = "validating" /\ c # None
      /\ pc' = [pc EXCEPT ![c] = "running"]
      /\ restored' = restored /\ restored = Thread
  BY CallAssumption DEF TypeOK, StartTurn, CanStart, Process, HistoryInv
<1>1. rec[t].preflight = c
  BY <1>0 DEF AgreeInv, RecordsAgree
<1>2. /\ r.active = c /\ r.turns = rec[t].turns /\ r.idem = idem /\ r \in ThreadRecord
  <2>1. idem \in [Key -> SubmissionRec]
    BY <1>0, SubmissionType, PutKeyType DEF ThreadRecord
  <2>2. QED
    BY <1>0, <2>1 DEF ThreadRecord, Status
<1>3. SameHistory(q, r) /\ Stores(e, r)
  BY <1>2, EmitContinues, CommitStores
<1>4. StartedIn(e.events) = StartedIn(d.events) \cup {c}
  <2>1. ev \in EventRec /\ ev.type = "turn_started" /\ ev.turn = c
    BY EventTypes DEF Event, EventType
  <2> HIDE DEF ev, d, r
  <2>2. QED
    BY <1>0, <2>1, CommittedStarts
<1>5. Single(d) /\ Stores(d, rec[t]) /\ FreshCall(pc[c], c, d)
  BY <1>0 DEF FaultlessInv, FaultlessThread
<1>6. /\ c \notin StartedIn(d.events) /\ ~EndedIn(d.turns, c)
      /\ Keyed(c) => d.idem[KeyOf[c]].turn = None
  BY <1>0, <1>5 DEF FreshCall
<1>7. \A k \in Key : idem[k] = IF k = KeyOf[c] THEN Submission(c) ELSE d.idem[k]
  <2>1. rec[t].idem = d.idem /\ d.idem \in [Key -> SubmissionRec]
    BY <1>0, <1>5 DEF Stores, StoredThread
  <2>2. QED
    BY <2>1, CallAssumption DEF PutKey, Keyed
<1> HIDE DEF idem
<1>8. e.active = c /\ e.turns = d.turns /\ e.idem = idem /\ Stores(e, q)
  BY <1>2, <1>3, <1>5 DEF Stores, SameHistory
<1> HIDE DEF r, q, e, d
<1>9. KeysHeld(e)
  <2> SUFFICES ASSUME NEW b \in StartedIn(e.events), Keyed(b)
               PROVE  idem[KeyOf[b]].turn = b
    BY <1>8 DEF KeysHeld
  <2>1. b \in Call /\ KeyOf[b] \in Key
    BY CallAssumption DEF StartedIn, Keyed
  <2>2. CASE b = c
    BY <1>7, <2>1, <2>2 DEF Submission
  <2>3. CASE b # c
    <3>1. d.idem[KeyOf[b]].turn = b /\ b # None
      BY <1>4, <1>5, <2>1, <2>3, CallAssumption DEF Single, KeysHeld
    <3>2. KeyOf[b] # KeyOf[c]
      BY <1>6, <3>1 DEF Keyed
    <3>3. QED
      BY <1>7, <2>1, <3>1, <3>2
  <2>4. QED
    BY <2>2, <2>3
<1>10. Single(e) /\ Unfinished(e)
  BY <1>4, <1>5, <1>6, <1>8, <1>9 DEF Single, Unfinished
<1>11. ASSUME NEW b \in Call, ThreadOf[b] = t PROVE FreshCall(pc'[b], b, e)
  <2>1. CASE b = c
    BY <1>0, <2>1 DEF FreshCall, TypeOK
  <2>2. CASE b # c
    <3>1. pc'[b] = pc[b] /\ FreshCall(pc[b], b, d)
      BY <1>0, <1>11, <2>2 DEF TypeOK, FaultlessInv, d
    <3>2. pc[b] # "validating"
      BY <1>1, <1>11, <2>2 DEF AgreeInv, RecordsAgree
    <3>3. QED
      BY <1>4, <1>8, <2>2, <3>1, <3>2 DEF FreshCall
  <2>3. QED
    BY <2>1, <2>2
<1>12. \A b \in Call : ThreadOf[b] # t => pc'[b] = pc[b]
  BY <1>0 DEF TypeOK
<1>13. Apply(t, q, e, 0)
  BY DEF StartTurn, Commit, idem, q, e, d, r
<1>14. QED
  BY <1>0, <1>8, <1>10, <1>11, <1>12, <1>13, OneThreadFaultless

(* A Turn that ends had no outcome yet. *)
LEMMA EndFaultless ==
    ASSUME TypeOK, AgreeInv, HistoryInv, FaultlessInv, storeFailures = 0,
           NEW c \in Call, NEW o \in TurnOutcome, TurnEnds(c, o)
    PROVE  FaultlessInv'
<1> DEFINE t == ThreadOf[c]
           d == durable[t]
           s == Summary(c, o)
           r == Ended(rec[t], c, o)
           ev == Terminal(c)
           q == Emit(r, ev)
           e == Stored(d, r, <<ev>>)
<1>0. /\ t \in Thread /\ rec[t] \in ThreadRecord /\ d \in StoredThread
      /\ mode \in Running /\ pc[c] = "running" /\ c # None /\ o \in Outcome
      /\ \A b \in Call : b # c => pc'[b] = pc[b]
      /\ pc'[c] \in {"cleanup", "done"}
      /\ restored' = restored /\ restored = Thread
  BY CallAssumption, ZenonT(30) DEF TypeOK, TurnEnds, Active, Leave, Process, HistoryInv, Outcome
<1>1. rec[t].active = c /\ rec[t].preflight = None
  BY <1>0 DEF AgreeInv, RecordsAgree
<1>2. /\ r.active = None /\ r.turns = Append(rec[t].turns, s) /\ r \in ThreadRecord
      /\ \A k \in Key : r.idem[k].turn = rec[t].idem[k].turn
  <2>1. r \in ThreadRecord
    BY <1>0, EndedType
  <2>2. r.active = None /\ r.turns = Append(rec[t].turns, s)
        /\ r.idem = IF Keyed(c) /\ rec[t].idem[KeyOf[c]].turn # None
                      THEN [rec[t].idem EXCEPT ![KeyOf[c]].summary = s] ELSE rec[t].idem
    BY <1>0 DEF Ended, ThreadRecord
  <2>3. \A k \in Key : r.idem[k].turn = rec[t].idem[k].turn
    BY <1>0, <2>2, SMTT(30) DEF ThreadRecord, SubmissionRec
  <2>4. QED
    BY <2>1, <2>2, <2>3, ZenonT(30)
<1>3. SameHistory(q, r) /\ Stores(e, r)
  BY <1>2, EmitContinues, CommitStores
<1>4. StartedIn(e.events) = StartedIn(d.events)
  <2>1. ev \in EventRec /\ ev.type # "turn_started"
    BY EventTypes, ZenonT(30) DEF Terminal, Event, EventType
  <2> HIDE DEF ev, d, r
  <2>2. QED
    BY <1>0, <2>1, CommittedStarts
<1>5. Single(d) /\ Stores(d, rec[t]) /\ ~EndedIn(d.turns, c)
  BY <1>0, <1>1 DEF FaultlessInv, FaultlessThread, Stores, Unfinished
<1>6. s \in [turn : Call, code : Outcome] /\ s.turn = c
  BY <1>0, SummaryType DEF Summary
<1>7. /\ e.active = None /\ e.turns = Append(d.turns, s) /\ Stores(e, q)
      /\ \A k \in Key : e.idem[k].turn = d.idem[k].turn
  BY <1>2, <1>3, <1>5, ZenonT(30) DEF Stores, SameHistory
<1>8. Apply(t, q, e, 0)
  BY DEF TurnEnds, Commit
<1>9. d.turns \in TurnList
  BY <1>0 DEF StoredThread
<1>10. FreshCall(pc[c], c, d) /\ \A b \in Call : ThreadOf[b] = t => FreshCall(pc[b], b, d)
  BY DEF FaultlessInv
<1> HIDE DEF r, q, e, d, s
<1>11. /\ EndsOnce(e.turns)
       /\ \A b : EndedIn(e.turns, b) => EndedIn(d.turns, b) \/ b = c
  BY <1>5, <1>6, <1>7, <1>9, AppendOnce DEF Single
<1>12. KeysHeld(e)
  BY <1>4, <1>5, <1>7, CallAssumption DEF Single, KeysHeld, Keyed, StartedIn
<1>13. Single(e) /\ Unfinished(e)
  BY <1>7, <1>11, <1>12 DEF Single, Unfinished
<1>14. ASSUME NEW b \in Call, ThreadOf[b] = t PROVE FreshCall(pc'[b], b, e)
  <2>1. CASE b = c
    BY <1>0, <2>1 DEF FreshCall
  <2>2. CASE b # c
    <3>1. FreshCall(pc[b], b, d) /\ pc'[b] = pc[b]
      BY <1>0, <1>10, <1>14, <2>2
    <3>2. Keyed(b) => KeyOf[b] \in Key
      BY CallAssumption DEF Keyed
    <3>3. QED
      BY <1>4, <1>7, <1>11, <2>2, <3>1, <3>2 DEF FreshCall
  <2>3. QED
    BY <2>1, <2>2
<1>15. QED
  BY <1>0, <1>7, <1>8, <1>13, <1>14, OneThreadFaultless
-----------------------------------------------------------------------------
(* The calls that enter run_turn find their key free or answer from it. *)
LEMMA InvokeFaultless ==
    ASSUME TypeOK, HistoryInv, FaultlessInv, storeFailures = 0, NEW c \in Call, Invoke(c)
    PROVE  FaultlessInv'
<1> DEFINE t == ThreadOf[c]
           d == durable[t]
<1>0. /\ t \in Thread /\ rec[t] \in ThreadRecord /\ mode \in Running /\ pc[c] = "idle"
      /\ restored' = restored /\ restored = Thread /\ durable' = durable
      /\ storeFailures' = storeFailures
      /\ \A b \in Call : b # c => pc'[b] = pc[b]
  BY CallAssumption DEF TypeOK, Invoke, AnswerFromKey, Join, Refuse, BeginPreflight,
     Process, HistoryInv, Running, Finish
<1>1. Stores(d, rec[t]) /\ \A b \in Call : ThreadOf[b] = t => FreshCall(pc[b], b, d)
  BY <1>0 DEF FaultlessInv, FaultlessThread
<1>2. SameHistory(rec'[t], rec[t]) /\ \E q : Apply(t, q, d, 0) /\ q = rec'[t]
  BY <1>0, BoundsAssumption DEF Invoke, AnswerFromKey, Join, Refuse, BeginPreflight, TypeOK,
     SameHistory, ThreadRecord, Apply
<1>3. FreshCall(pc'[c], c, d)
  <2>1. CASE BeginPreflight(c)
    <3>1. Keyed(c) => d.idem[KeyOf[c]].turn = None
      BY <1>1, <2>1 DEF BeginPreflight, Known, Entry, Keyed, Stores
    <3>2. QED
      BY <1>0, <1>1, <3>1 DEF FreshCall
  <2>2. CASE ~BeginPreflight(c)
    <3>1. pc'[c] \in {"done", "joined"}
      BY <2>2 DEF Invoke, AnswerFromKey, Join, Refuse, Finish, TypeOK
    <3>2. QED
      BY <3>1 DEF FreshCall
  <2>3. QED
    BY <2>1, <2>2
<1>4. \A b \in Call : ThreadOf[b] = t => FreshCall(pc'[b], b, d)
  BY <1>0, <1>1, <1>3
<1>5. Stores(d, d)
  BY DEF Stores
<1>6. QED
  BY <1>0, <1>2, <1>4, <1>5, QuietFaultless

(* The rejections, approvals, commands and ends of suspended calls. *)
LEMMA QuietStepsFaultless ==
    ASSUME TypeOK, HistoryInv, FaultlessInv, storeFailures = 0,
           \/ \E c \in Call : \/ RequestApproval(c) \/ SettleApproval(c) \/ CleanupEnds(c)
                              \/ mode \in Running /\ \E code, holds : \E ok \in BOOLEAN :
                                    Reject(c, code, holds, ok)
           \/ \E t \in Thread : Stop(t) \/ CloseActive(t) \/ CloseIdle(t)
    PROVE  FaultlessInv'
<1>1. ASSUME NEW c \in Call, NEW k \in EventType \ {"turn_started"}, NEW before, NEW after \in Status,
             SetWaiting(c, k, before, after)
      PROVE  FaultlessInv'
  <2> DEFINE t == ThreadOf[c]
             r == [rec[t] EXCEPT !.status = after]
  <2>1. t \in Thread /\ rec[t] \in ThreadRecord
    BY CallAssumption DEF TypeOK
  <2>2. r \in ThreadRecord /\ SameHistory(r, rec[t])
    BY <2>1 DEF ThreadRecord, SameHistory
  <2>3. /\ Commit(t, r, Event(k, c), TRUE) /\ mode \in Running
        /\ restored' = restored /\ pc' = pc
    BY <1>1 DEF SetWaiting, Active, Process
  <2> HIDE DEF r, t
  <2>4. QED
    BY <2>1, <2>2, <2>3, QuietCommitFaultless
<1>2. ASSUME NEW t \in Thread, Stop(t) \/ CloseActive(t) PROVE FaultlessInv'
  <2> DEFINE c == rec[t].active
             p == [rec[t] EXCEPT !.closing = TRUE]
  <2>1. rec[t] \in ThreadRecord /\ c \in Call
    BY <1>2 DEF TypeOK, ThreadRecord, Stop, CloseActive
  <2>2. p \in ThreadRecord /\ SameHistory(p, rec[t]) /\ SameHistory(rec[t], rec[t])
    BY <2>1 DEF ThreadRecord, SameHistory
  <2>3. mode \in Running /\ restored' = restored /\ pc' = pc
    BY <1>2 DEF Stop, CloseActive, Process
  <2>4. \E ok \in BOOLEAN :
           \/ Commit(t, rec[t], Event("turn_cancel_requested", c), ok)
           \/ Commit(t, p, Event("thread_close_requested", c), ok)
    BY <1>2 DEF Stop, CloseActive
  <2> HIDE DEF p, c
  <2>5. QED
    BY <2>1, <2>2, <2>3, <2>4, QuietCommitFaultless DEF EventType
<1>3. ASSUME NEW t \in Thread, CloseIdle(t) PROVE FaultlessInv'
  <2> DEFINE r == [rec[t] EXCEPT !.closing = TRUE, !.status = "closed", !.tools = "closed"]
             e == Stored(durable[t], r, <<>>)
  <2>1. rec[t] \in ThreadRecord /\ durable[t] \in StoredThread
    BY DEF TypeOK
  <2>2. SameHistory(r, rec[t])
    BY <2>1 DEF ThreadRecord, SameHistory
  <2>3. mode \in Running /\ restored' = restored /\ pc' = pc
    BY <1>3 DEF CloseIdle, Process, callVars
  <2>4. Apply(t, r, e, 0) \/ Apply(t, r, durable[t], 1)
    BY <1>3 DEF CloseIdle
  <2>5. StartedIn(e.events) = StartedIn(durable[t].events)
    <3>1. e.events = durable[t].events
      BY <2>1 DEF Stored, StoredThread
    <3>2. QED
      BY <3>1
  <2>6. Stores(e, r)
    BY CommitStores
  <2>7. Stores(durable[t], durable[t])
    BY DEF Stores
  <2> HIDE DEF r, e
  <2>8. Stores(e, rec[t])
    BY <2>2, <2>6 DEF Stores, SameHistory
  <2>9. \A c \in Call : ThreadOf[c] = t => FreshCall(pc'[c], c, durable[t])
    BY <2>3 DEF FaultlessInv
  <2>10. QED
    BY <2>2, <2>3, <2>4, <2>5, <2>7, <2>8, <2>9, QuietFaultless
<1>4. ASSUME NEW c \in Call, mode \in Running, NEW code, NEW holds, NEW ok \in BOOLEAN,
             Reject(c, code, holds, ok)
      PROVE  FaultlessInv'
  <2> DEFINE t == ThreadOf[c]
             p == [rec[t] EXCEPT !.preflight = None]
  <2>1. t \in Thread /\ rec[t] \in ThreadRecord
    BY CallAssumption DEF TypeOK
  <2>2. p \in ThreadRecord /\ SameHistory(p, rec[t])
    BY <2>1 DEF ThreadRecord, SameHistory
  <2>3. /\ Commit(t, p, Event("turn_rejected", c), ok) /\ restored' = restored
        /\ \A b \in Call : pc'[b] = pc[b] \/ (ThreadOf[b] = t /\ pc'[b] = "done")
    BY <1>4 DEF Reject, Finish, Process, TypeOK
  <2> HIDE DEF p, t
  <2>4. QED
    BY <1>4, <2>1, <2>2, <2>3, QuietCommitFaultless DEF EventType
<1>5. ASSUME NEW c \in Call, CleanupEnds(c) PROVE FaultlessInv'
  <2> DEFINE t == ThreadOf[c]
             q == [rec[t] EXCEPT !.tools = "closed"]
  <2>1. t \in Thread /\ rec[t] \in ThreadRecord
    BY CallAssumption DEF TypeOK
  <2>2. Apply(t, q, durable[t], 0)
    BY <1>5, <2>1, BoundsAssumption DEF CleanupEnds, Apply, TypeOK
  <2>3. SameHistory(q, rec[t]) /\ Stores(durable[t], durable[t])
    BY <2>1 DEF ThreadRecord, SameHistory, Stores
  <2>4. /\ mode \in Running /\ restored' = restored
        /\ \A b \in Call : pc'[b] = pc[b] \/ (ThreadOf[b] = t /\ pc'[b] = "done")
    BY <1>5 DEF CleanupEnds, Finish, Process, TypeOK
  <2>5. /\ \A b \in Call : ThreadOf[b] = t => FreshCall(pc'[b], b, durable[t])
        /\ \A b \in Call : ThreadOf[b] # t => pc'[b] = pc[b]
    BY <2>4 DEF FaultlessInv, FreshCall
  <2> HIDE DEF q, t
  <2>6. QED
    BY <2>1, <2>2, <2>3, <2>4, <2>5, QuietFaultless
<1>6. QED
  BY <1>1, <1>2, <1>3, <1>4, <1>5 DEF RequestApproval, SettleApproval, EventType, Status

(* The whole-process steps: aclose saves what is stored, a crash keeps it. *)
LEMMA ProcessFaultless ==
    ASSUME TypeOK, HistoryInv, FaultlessInv, storeFailures = 0, Aclose \/ Crash
    PROVE  FaultlessInv'
<1>1. CASE Aclose
  <2>1. restored' = restored /\ restored = Thread /\ pc' = pc
    BY <1>1, AcloseFields DEF HistoryInv, Running
  <2>2. ASSUME NEW t \in Thread
        PROVE  /\ Stores(durable'[t], durable[t]) /\ durable'[t].events = durable[t].events
               /\ SameHistory(rec'[t], rec[t])
    <3>1. rec[t] \in ThreadRecord /\ durable[t] \in StoredThread /\ Stores(durable[t], rec[t])
      BY <2>1 DEF TypeOK, FaultlessInv, FaultlessThread
    <3>2. SameHistory(rec'[t], rec[t])
      <4>1. rec'[t] \in {rec[t], [rec[t] EXCEPT !.tools = "closed"]}
        BY <1>1, AcloseFields
      <4>2. QED
        BY <3>1, <4>1 DEF ThreadRecord, SameHistory
    <3>3. Stores(durable'[t], durable[t]) /\ durable'[t].events = durable[t].events
      <4>1. durable'[t] \in {durable[t], Stored(durable[t], rec[t], <<>>)}
        BY <1>1, AcloseFields
      <4>2. QED
        BY <3>1, <4>1 DEF Stored, StoredThread, Stores
    <3>4. QED
      BY <3>2, <3>3
  <2>3. ASSUME NEW t \in Thread PROVE FaultlessThread(durable'[t], rec'[t], t \in restored')
    <3>1. Single(durable[t]) /\ Unfinished(durable[t]) /\ Stores(durable[t], rec[t])
      BY <2>1 DEF FaultlessInv, FaultlessThread
    <3>2. Stores(durable'[t], rec'[t])
      BY <2>2, <3>1 DEF Stores, SameHistory
    <3>3. Single(durable'[t]) /\ Unfinished(durable'[t])
      BY <2>2, <3>1 DEF Single, Unfinished, KeysHeld, Stores
    <3>4. QED
      BY <3>2, <3>3 DEF FaultlessThread
  <2>4. ASSUME NEW c \in Call PROVE FreshCall(pc'[c], c, durable'[ThreadOf[c]])
    <3>1. ThreadOf[c] \in Thread /\ FreshCall(pc[c], c, durable[ThreadOf[c]])
      BY CallAssumption DEF FaultlessInv
    <3>2. QED
      BY <2>1, <2>2, <3>1 DEF FreshCall, Stores
  <2>5. QED
    BY <2>3, <2>4, FaultlessNext
<1>2. CASE Crash
  <2>1. durable' = durable /\ restored' = {}
        /\ (\A c \in Call : pc'[c] \in {"idle", "validating"} => pc'[c] = pc[c])
        /\ (\A c \in Call : pc'[c] # "validating")
    BY <1>2 DEF Crash, TypeOK
  <2>2. ASSUME NEW t \in Thread PROVE FaultlessThread(durable'[t], rec'[t], t \in restored')
    BY <2>1 DEF FaultlessInv, FaultlessThread
  <2>3. ASSUME NEW c \in Call PROVE FreshCall(pc'[c], c, durable'[ThreadOf[c]])
    BY <2>1 DEF FaultlessInv, FreshCall
  <2>4. QED
    BY <2>2, <2>3, FaultlessNext
<1>3. QED
  BY <1>1, <1>2

(* The initial states: a leftover Turn is active and has its one outcome. *)
LEMMA InitFaultless == Init => FaultlessInv
<1> SUFFICES ASSUME Init PROVE FaultlessInv
  OBVIOUS
<1>1. ASSUME NEW t \in Thread, ~(\E c \in Legacy : ThreadOf[c] = t)
      PROVE  /\ durable[t].turns = <<>> /\ durable[t].active = None
             /\ durable[t].idem = NewRecord.idem
             /\ StartedIn(durable[t].events) = {}
  <2>1. durable[t] = Stored([events |-> <<>>], NewRecord, <<>>)
    BY <1>1 DEF Init, InitialStore
  <2>2. durable[t].events = <<>>
    BY <2>1 DEF Stored
  <2>3. QED
    BY <2>1, <2>2 DEF Stored, NewRecord, StartedIn, Contains
<1>2. ASSUME NEW t \in Thread, NEW c \in Legacy, ThreadOf[c] = t
      PROVE  /\ durable[t].active = c /\ c \in Call /\ c # None
             /\ durable[t].turns = <<Summary(c, "completed")>>
             /\ StartedIn(durable[t].events) = {c}
             /\ IsCoherentlyTerminal(durable[t])
             /\ Keyed(c) => durable[t].idem[KeyOf[c]].turn = c
  <2>1. c \in Call /\ c # None
    BY CallAssumption
  <2>2. durable[t] = Leftover(c)
    BY <1>2, CallAssumption DEF Init, InitialStore
  <2> DEFINE d == Leftover(c)
             s == Summary(c, "completed")
  <2>3. d.active = c /\ d.turns = <<s>> /\ s.turn = c
        /\ d.events = <<Event("turn_started", c), Event("terminal", c)>>
    BY DEF Leftover, Summary
  <2>4. StartedIn(d.events) = {c} /\ Contains(d.events, Terminal(c))
    BY <2>1, <2>3 DEF StartedIn, Contains, Event, Terminal
  <2>5. Keyed(c) => d.idem[KeyOf[c]].turn = c /\ d.idem[KeyOf[c]].summary = s
    BY <2>1, CallAssumption DEF Leftover, PutKey, Keyed, NewRecord, Submission
  <2>6. IsCoherentlyTerminal(d)
    <3>1. Len(d.turns) = 1 /\ d.turns[1] = s /\ d.turns # <<>>
      BY <2>3
    <3> HIDE DEF d, s
    <3>2. QED
      BY <2>1, <2>3, <2>4, <2>5, <3>1 DEF IsCoherentlyTerminal
  <2> HIDE DEF d
  <2>7. QED
    BY <2>1, <2>2, <2>3, <2>4, <2>5, <2>6 DEF d
<1>3. ASSUME NEW t \in Thread PROVE FaultlessThread(durable[t], rec[t], t \in restored)
  <2>1. CASE \E c \in Legacy : ThreadOf[c] = t
    <3>1. PICK c \in Legacy : ThreadOf[c] = t
      BY <2>1
    <3>2. t \notin restored
      BY <3>1 DEF Init
    <3>3. EndsOnce(durable[t].turns)
      BY <1>2, <3>1 DEF EndsOnce
    <3>4. QED
      BY <1>2, <3>1, <3>2, <3>3 DEF FaultlessThread, Single, KeysHeld
  <2>2. CASE ~(\E c \in Legacy : ThreadOf[c] = t)
    <3>1. EndsOnce(durable[t].turns)
      BY <1>1, <2>2 DEF EndsOnce
    <3>2. rec[t] = NewRecord /\ NewRecord.active = None /\ NewRecord.turns = <<>>
      BY DEF Init, NewRecord
    <3>3. QED
      BY <1>1, <2>2, <3>1, <3>2
         DEF FaultlessThread, Single, KeysHeld, Unfinished, Stores
  <2>3. QED
    BY <2>1, <2>2
<1>4. ASSUME NEW c \in Call PROVE FreshCall(pc[c], c, durable[ThreadOf[c]])
  <2> DEFINE t == ThreadOf[c]
  <2>1. t \in Thread /\ pc[c] # "validating" /\ (pc[c] = "idle" => c \notin Legacy)
    BY CallAssumption DEF Init
  <2>2. CASE \E b \in Legacy : ThreadOf[b] = t
    <3>1. PICK b \in Legacy : ThreadOf[b] = t
      BY <2>2
    <3>2. StartedIn(durable[t].events) = {b} /\ durable[t].turns = <<Summary(b, "completed")>>
      BY <1>2, <2>1, <3>1
    <3>3. \A x : EndedIn(durable[t].turns, x) => x = b
      BY <3>2 DEF EndedIn, Summary
    <3>4. QED
      BY <2>1, <3>1, <3>2, <3>3 DEF FreshCall
  <2>3. CASE ~(\E b \in Legacy : ThreadOf[b] = t)
    BY <1>1, <2>1, <2>3 DEF FreshCall, EndedIn
  <2>4. QED
    BY <2>2, <2>3
<1>5. QED
  BY <1>3, <1>4 DEF FaultlessInv

(* Recovery: the interrupted Turn gets its one outcome, a stale marker goes. *)
LEMMA RestoreFaultless ==
    ASSUME TypeOK, AgreeInv, HistoryInv, FaultlessInv, storeFailures = 0,
           NEW t \in Thread, RestoreThread(t)
    PROVE  FaultlessInv'
<1> DEFINE d == durable[t]
           c == d.active
<1>0. /\ d \in StoredThread /\ d.idem \in [Key -> SubmissionRec] /\ d.turns \in TurnList
      /\ pc' = pc /\ restored' = restored \cup {t} /\ mode = "starting"
      /\ c \in Call \cup {None}
  BY DEF TypeOK, RestoreThread, callVars, StoredThread
<1>1. /\ Single(d) /\ (IsCoherentlyTerminal(d) \/ Unfinished(d))
      /\ \A b \in Call : ThreadOf[b] = t => FreshCall(pc[b], b, d)
  BY DEF FaultlessInv, FaultlessThread
<1>2. /\ Loaded(d).active = c /\ Loaded(d).turns = d.turns /\ Loaded(d).idem = d.idem
      /\ Loaded(d) \in ThreadRecord
  BY <1>0, LoadedType DEF Loaded, NewRecord
<1>3. CASE IsCoherentlyTerminal(d)
  <2> DEFINE r == Repaired(d)
             e == Stored(d, r, <<>>)
  <2>1. r.active = None /\ r.turns = d.turns /\ r.idem = d.idem
    BY <1>2 DEF Repaired, ThreadRecord
  <2>2. Stores(e, r) /\ e.events = d.events
    <3>1. Stores(e, r)
      BY CommitStores
    <3>2. e.events = d.events
      BY <1>0 DEF Stored, StoredThread
    <3>3. QED
      BY <3>1, <3>2
  <2>3. Apply(t, r, e, 0)
    BY <1>3 DEF RestoreThread
  <2> HIDE DEF r, e
  <2>4. Single(e) /\ Unfinished(e)
    BY <1>1, <2>1, <2>2 DEF Single, Unfinished, KeysHeld, Stores
  <2>5. \A b \in Call : ThreadOf[b] = t => FreshCall(pc'[b], b, e)
    BY <1>0, <1>1, <2>1, <2>2 DEF FreshCall, Stores
  <2> HIDE DEF d, c
  <2>6. QED
    BY <1>0, <2>2, <2>3, <2>4, <2>5, OneThreadFaultless
<1>4. CASE ~IsCoherentlyTerminal(d) /\ c # None
  <2> DEFINE r == Recovered(d)
             s == Summary(c, "runtime_restarted")
             E == Terminal(c)
             q == Emit(r, E)
             e == Stored(d, r, <<E>>)
  <2>1. c \in Call /\ r \in ThreadRecord
    BY <1>0, <1>4, RecoveredType
  <2>2. r.active = None /\ r.turns = Append(d.turns, s)
        /\ r.idem = IF Keyed(c) /\ d.idem[KeyOf[c]].turn # None
                      THEN PutKey(d.idem, c, [Submission(c) EXCEPT !.summary = s,
                                                                   !.interrupted = TRUE])
                      ELSE d.idem
    BY <1>2 DEF Recovered, ThreadRecord
  <2>3. s \in [turn : Call, code : Outcome] /\ s.turn = c
    BY <2>1 DEF Summary, Outcome
  <2>4. EndsOnce(d.turns) /\ ~EndedIn(d.turns, c) /\ c \in StartedIn(d.events)
    BY <1>1, <1>4 DEF Single, Unfinished
  <2>5. EndsOnce(r.turns) /\ \A b : EndedIn(r.turns, b) => EndedIn(d.turns, b) \/ b = c
    <3> HIDE DEF s, r, c, d
    <3>1. QED
      BY <1>0, <2>2, <2>3, <2>4, AppendOnce
  <2>6. \A b \in StartedIn(d.events) : Keyed(b) => r.idem[KeyOf[b]].turn = b
    <3>1. \A k \in Key : r.idem[k] = d.idem[k] \/ (Keyed(c) /\ k = KeyOf[c] /\ r.idem[k].turn = c)
      BY <1>0, <2>2 DEF PutKey, Submission
    <3> HIDE DEF r
    <3>2. ASSUME NEW b \in StartedIn(d.events), Keyed(b) PROVE r.idem[KeyOf[b]].turn = b
      <4>1. KeyOf[b] \in Key /\ d.idem[KeyOf[b]].turn = b
        BY <1>1, <3>2, CallAssumption DEF Single, KeysHeld, Keyed, StartedIn
      <4>2. Keyed(c) => d.idem[KeyOf[c]].turn = c
        BY <1>1, <2>4 DEF Single, KeysHeld
      <4>3. QED
        BY <3>1, <4>1, <4>2
    <3>3. QED
      BY <3>2
  <2>7. SameHistory(q, r) /\ Stores(e, r)
    BY <2>1, EmitContinues, CommitStores
  <2>8. StartedIn(e.events) = StartedIn(d.events)
    <3>1. E \in EventRec /\ E.type # "turn_started"
      BY <2>1, EventTypes DEF Terminal, Event, EventType
    <3> HIDE DEF E, d, r
    <3>2. QED
      BY <1>0, <3>1, CommittedStarts
  <2>9. Apply(t, q, e, 0)
    BY <1>4 DEF RestoreThread, Commit
  <2>10. \A b \in Call : pc[b] # "validating"
    BY <1>0, CallAssumption, SMTT(30) DEF AgreeInv, RecordsAgree, QuietUntilUp, TypeOK
  <2>11. e.active = None /\ e.turns = r.turns /\ e.idem = r.idem /\ Stores(e, q)
    BY <2>2, <2>7, ZenonT(30) DEF Stores, SameHistory
  <2> HIDE DEF r, q, e, s, E
  <2>12. Single(e) /\ Unfinished(e)
    BY <2>5, <2>6, <2>8, <2>11 DEF Single, Unfinished, KeysHeld
  <2>13. \A b \in Call : ThreadOf[b] = t => FreshCall(pc'[b], b, e)
    BY <1>0, <1>1, <2>4, <2>5, <2>8, <2>10, <2>11 DEF FreshCall
  <2> HIDE DEF d, c
  <2>14. QED
    BY <1>0, <2>9, <2>11, <2>12, <2>13, OneThreadFaultless
<1>5. CASE ~IsCoherentlyTerminal(d) /\ c = None
  <2>1. Apply(t, Loaded(d), d, 0)
    BY <1>5 DEF RestoreThread
  <2>2. Stores(d, Loaded(d)) /\ Unfinished(d)
    BY <1>1, <1>2, <1>5 DEF Stores, Unfinished
  <2>3. \A b \in Call : ThreadOf[b] = t => FreshCall(pc'[b], b, d)
    BY <1>0, <1>1
  <2> HIDE DEF d, c
  <2>4. QED
    BY <1>0, <1>1, <2>1, <2>2, <2>3, OneThreadFaultless
<1>6. QED
  BY <1>3, <1>4, <1>5

(* Every step preserves the invariant: a step whose commit fails ends it. *)
LEMMA NextFaultless ==
    TypeOK /\ AgreeInv /\ HistoryInv /\ FaultlessInv /\ [Next]_vars => FaultlessInv'
<1> SUFFICES ASSUME TypeOK, AgreeInv, HistoryInv, FaultlessInv, [Next]_vars, storeFailures' = 0
             PROVE  FaultlessInv'
  BY DEF FaultlessInv
<1>0. storeFailures = 0
  BY FailuresGrow
<1>1. ASSUME NEW c \in Call, Invoke(c) PROVE FaultlessInv'
  BY <1>0, <1>1, InvokeFaultless
<1>2. ASSUME NEW c \in Call, Preflight(c) PROVE FaultlessInv'
  <2>1. CASE StartTurn(c)
    BY <1>0, <2>1, StartFaultless
  <2>2. CASE ~StartTurn(c)
    <3>1. ~StartLost(c)
      BY <1>0 DEF StartLost, Apply
    <3>2. \E code, holds : \E ok \in BOOLEAN : Reject(c, code, holds, ok)
      BY <1>2, <2>2, <3>1 DEF Preflight, RejectCancelled, RejectInvalidRoot, RejectBusy,
         RejectClosed, RejectContext
    <3>3. mode \in Running
      BY <1>2, <2>2, <3>1 DEF Preflight, RejectCancelled, RejectInvalidRoot, RejectBusy,
         RejectClosed, RejectContext, CanStart
    <3>4. QED
      BY <1>0, <3>2, <3>3, QuietStepsFaultless
  <2>3. QED
    BY <2>1, <2>2
<1>3. ASSUME NEW c \in Call, TurnTerminates(c) PROVE FaultlessInv'
  <2>1. ~FinishedTwice(c) /\ \A o : ~TerminalLost(c, o) /\ ~ReplayLost(c, o) /\ ~ReturnLost(c, o)
    BY <1>0 DEF FinishedTwice, TerminalLost, ReplayLost, ReturnLost, Apply
  <2>2. PICK o \in TurnOutcome : TurnEnds(c, o)
    BY <1>3, <2>1 DEF TurnTerminates
  <2>3. QED
    BY <1>0, <2>2, EndFaultless
<1>4. ASSUME NEW c \in Call, SettleApproval(c) \/ RequestApproval(c) \/ CleanupEnds(c)
      PROVE  FaultlessInv'
  BY <1>0, <1>4, QuietStepsFaultless
<1>5. ASSUME NEW t \in Thread, Stop(t) \/ CloseIdle(t) \/ CloseActive(t) PROVE FaultlessInv'
  BY <1>0, <1>5, QuietStepsFaultless
<1>6. ASSUME NEW t \in Thread, RestoreThread(t) PROVE FaultlessInv'
  BY <1>0, <1>6, RestoreFaultless
<1>7. CASE Aclose \/ Crash
  BY <1>0, <1>7, ProcessFaultless
<1>8. CASE \/ \E c \in Call : JoinEnds(c) \/ CancelTask(c)
           \/ Restart \/ UNCHANGED vars
  <2>1. /\ rec' = rec /\ durable' = durable /\ restored' = restored
        /\ \A b \in Call : pc'[b] = pc[b] \/ pc'[b] = "done"
    BY <1>8 DEF JoinEnds, CancelTask, Restart, Finish, vars, callVars, Process, TypeOK
  <2>2. ASSUME NEW t \in Thread PROVE FaultlessThread(durable'[t], rec'[t], t \in restored')
    BY <1>0, <2>1 DEF FaultlessInv
  <2>3. ASSUME NEW b \in Call PROVE FreshCall(pc'[b], b, durable'[ThreadOf[b]])
    BY <1>0, <2>1 DEF FaultlessInv, FreshCall
  <2>4. QED
    BY <2>2, <2>3, FaultlessNext
<1>9. ~AcloseFails /\ \A t \in Thread : ~RestoreFails(t)
  BY FailsCounted
<1>10. QED
  BY <1>1, <1>2, <1>3, <1>4, <1>5, <1>6, <1>7, <1>8, <1>9 DEF Next, Settles

(* The initial state and every step, together. *)
LEMMA HistoryKept ==
    /\ Init => TypeOK /\ AgreeInv /\ HistoryInv /\ FaultlessInv
    /\ TypeOK /\ AgreeInv /\ HistoryInv /\ FaultlessInv /\ [Next]_vars
          => (TypeOK /\ AgreeInv /\ HistoryInv /\ FaultlessInv)'
BY InitType, InitAgrees, InitHistory, InitFaultless, NextType, NextAgrees, NextHistory,
   NextFaultless

(* Every Turn the store has started is active there or has its outcome; as     *)
(* long as every commit succeeded it never has two, however the process died. *)
THEOREM TurnsAccounted == Spec => []NoTurnForgotten
<1>1. ASSUME TypeOK, HistoryInv, FaultlessInv PROVE NoTurnForgotten
  <2> SUFFICES ASSUME NEW t \in Thread, NEW c \in Started(t), durable[t].active # c
               PROVE  /\ Outcomes(durable[t], c) # {}
                      /\ storeFailures = 0 => Cardinality(Outcomes(durable[t], c)) = 1
    BY DEF NoTurnForgotten
  <2>1. EndedIn(durable[t].turns, c)
    BY <1>1 DEF HistoryInv, StoredHistory, Accounted, Started, StartedIn
  <2>2. PICK i \in DOMAIN durable[t].turns : durable[t].turns[i].turn = c
    BY <2>1 DEF EndedIn
  <2>3. i \in Outcomes(durable[t], c)
    BY <2>2 DEF Outcomes
  <2>4. ASSUME storeFailures = 0 PROVE Cardinality(Outcomes(durable[t], c)) = 1
    <3>1. EndsOnce(durable[t].turns)
      BY <1>1, <2>4 DEF FaultlessInv, FaultlessThread, Single
    <3>2. Outcomes(durable[t], c) = {i}
      BY <2>2, <3>1 DEF Outcomes, EndsOnce
    <3>3. QED
      BY <3>2, FS_Singleton
  <2>5. QED
    BY <2>3, <2>4
<1>2. QED
  BY <1>1, HistoryKept, PTL DEF Spec

(* As long as every commit succeeded, a key starts at most one Turn of a       *)
(* Thread: a second start finds the submission of the first.                 *)
THEOREM KeysOnce == Spec => []OneTurnPerKey
<1>1. ASSUME TypeOK, FaultlessInv PROVE OneTurnPerKey
  <2> SUFFICES ASSUME storeFailures = 0, NEW t \in Thread, NEW c \in Started(t),
                      NEW d \in Started(t), Keyed(c), KeyOf[c] = KeyOf[d]
               PROVE  c = d
    BY DEF OneTurnPerKey
  <2>1. KeysHeld(durable[t])
    BY <1>1 DEF FaultlessInv, FaultlessThread, Single
  <2>2. QED
    BY <2>1 DEF KeysHeld, Started, StartedIn, Keyed
<1>2. QED
  BY <1>1, HistoryKept, PTL DEF Spec
-----------------------------------------------------------------------------
(* The only step that leaves a lease behind is a rejection whose commit fails. *)
LEMMA NextReleases ==
    ASSUME TypeOK, LeaseInv, LeaseReleased, storeFailures = 0, storeFailures' = 0, [Next]_vars
    PROVE  LeaseReleased'
<1>1. ASSUME leases' = leases, \A b \in Call : pc[b] = "running" => pc'[b] = "running"
      PROVE  LeaseReleased'
  BY <1>1 DEF LeaseReleased
<1>2. ASSUME NEW c \in Call, Invoke(c) \/ CleanupEnds(c) \/ JoinEnds(c) \/ CancelTask(c)
      PROVE  LeaseReleased'
  <2>1. leases' = leases /\ \A b \in Call : pc[b] = "running" => pc'[b] = "running"
    BY <1>2 DEF Invoke, AnswerFromKey, Join, Refuse, BeginPreflight, CleanupEnds, JoinEnds,
       CancelTask, Finish, TypeOK
  <2>2. QED
    BY <1>1, <2>1
<1>3. ASSUME NEW c \in Call, Preflight(c) PROVE LeaseReleased'
  <2>1. CASE StartTurn(c)
    <3>1. \A b \in Call : b # c => leases'[b] = leases[b] /\ pc'[b] = pc[b]
      BY <2>1 DEF StartTurn, Leases!Acquire, Leases!TypeOK, TypeOK
    <3>2. pc'[c] = "running"
      BY <2>1 DEF StartTurn, TypeOK
    <3>3. QED
      BY <3>1, <3>2 DEF LeaseReleased
  <2>2. CASE ~StartTurn(c)
    <3>1. ~StartLost(c)
      BY DEF StartLost, Apply
    <3>2. PICK code, holds : \E ok \in BOOLEAN : Reject(c, code, holds, ok)
      BY <1>3, <2>2, <3>1 DEF Preflight, RejectCancelled, RejectInvalidRoot, RejectBusy,
         RejectClosed, RejectContext
    <3>3. pc[c] = "validating"
      BY <1>3, <2>2, <3>1 DEF Preflight, RejectCancelled, RejectInvalidRoot, RejectBusy,
         RejectClosed, RejectContext, CanStart
    <3>4. Reject(c, code, holds, TRUE)
      <4>1. PICK ok \in BOOLEAN : Reject(c, code, holds, ok)
        BY <3>2
      <4>2. ok = TRUE
        BY <4>1 DEF Reject, Commit, Apply
      <4>3. QED
        BY <4>1, <4>2
    <3>5. leases' = leases /\ \A b \in Call : pc[b] = "running" => pc'[b] = "running"
      BY <3>3, <3>4 DEF Reject, Finish, TypeOK
    <3>6. QED
      BY <1>1, <3>5
  <2>3. QED
    BY <2>1, <2>2
<1>4. ASSUME NEW c \in Call, TurnTerminates(c) PROVE LeaseReleased'
  <2>1. \E res : Leave(c, res)
    BY <1>4 DEF TurnTerminates, FinishedTwice, TurnEnds, TerminalLost, ReplayLost, ReturnLost
  <2>2. leases'[c] = None
    <3>1. pc[c] = "running"
      BY <1>4 DEF TurnTerminates, FinishedTwice, TurnEnds, TerminalLost, ReplayLost,
         ReturnLost, Active
    <3>2. leases[c] = WorkspaceOf[ThreadOf[c]]
      BY <3>1 DEF LeaseInv, RunningHoldsLease
    <3>3. QED
      BY <2>1, <3>2 DEF Leave, Leases!Release, Leases!TypeOK, TypeOK
  <2>3. \A b \in Call : b # c => leases'[b] = leases[b] /\ pc'[b] = pc[b]
    BY <2>1 DEF Leave, Leases!Release, Leases!TypeOK, TypeOK
  <2>4. QED
    BY <2>2, <2>3 DEF LeaseReleased
<1>5. ASSUME NEW c \in Call, SettleApproval(c) \/ RequestApproval(c) PROVE LeaseReleased'
  BY <1>1, <1>5 DEF SettleApproval, RequestApproval, SetWaiting
<1>6. ASSUME NEW t \in Thread, Stop(t) \/ CloseIdle(t) \/ CloseActive(t) \/ RestoreThread(t)
      PROVE  LeaseReleased'
  BY <1>1, <1>6 DEF Stop, CloseIdle, CloseActive, RestoreThread, callVars
<1>7. CASE Aclose \/ Restart \/ UNCHANGED vars
  BY <1>1, <1>7 DEF Aclose, Passed, Restart, vars, callVars
<1>8. CASE Crash
  <2>1. \A c \in Call : leases'[c] = None
    BY <1>8 DEF Crash, Leases!ProcessEnds, Leases!Free
  <2>2. QED
    BY <2>1 DEF LeaseReleased
<1>9. ~AcloseFails /\ \A t \in Thread : ~RestoreFails(t)
  BY FailsCounted
<1>10. QED
  BY <1>2, <1>3, <1>4, <1>5, <1>6, <1>7, <1>8, <1>9 DEF Next, Settles

(* As long as every commit succeeds a lease is held by running Turns only:     *)
(* a failed commit of turn_rejected is the one way a lease outlives its call. *)
THEOREM LeasesReleased == Spec => [](storeFailures = 0 => LeaseReleased)
<1> DEFINE Inv == TypeOK /\ LeaseInv /\ (storeFailures = 0 => LeaseReleased)
<1>1. Init => Inv
  <2>1. Init => LeaseReleased
    BY DEF Init, LeaseReleased, Leases!Free
  <2>2. QED
    BY <2>1, InitType, InitLeases
<1>2. Inv /\ [Next]_vars => Inv'
  <2> SUFFICES ASSUME Inv, [Next]_vars PROVE Inv'
    OBVIOUS
  <2>1. TypeOK' /\ LeaseInv'
    BY NextType, NextLeases
  <2>2. ASSUME storeFailures' = 0 PROVE LeaseReleased'
    BY <2>2, FailuresGrow, NextReleases
  <2>3. QED
    BY <2>1, <2>2
<1>3. QED
  BY <1>1, <1>2, PTL DEF Spec

-----------------------------------------------------------------------------
(***************************************************************************)
(* The Host over the Runtime (HostTurns): the mapping of tasks covers every  *)
(* suspended call, and what the Runtime promises of its leases still holds   *)
(* when the endpoints and the shutdown drive it.                            *)
(***************************************************************************)
(* The steps of a task are steps of the Runtime. *)
TaskStep(c) == TaskBegins(c) \/ TaskSettles(c) \/ TaskAsks(c)

(* What the requests and the shutdown write besides: they call no Turn. *)
RequestStep ==
    \/ \E c \in Call : StartRequest(c)
    \/ \E t \in Thread : CancelPending(t) \/ ClosePending(t) \/ CloseRunning(t)
    \/ ShutdownBegins

(* The steps of the Runtime that the Host takes as they are. *)
LEMMA HostSteps ==
    ASSUME [HostNext]_allVars, ~RequestStep
    PROVE  [Next]_vars
<1>1. ASSUME NEW c \in Call, TaskStep(c) PROVE Next
  BY <1>1 DEF TaskStep, TaskBegins, TaskSettles, TaskAsks, Next
<1>2. ASSUME NEW t \in Thread, CancelActive(t) \/ CloseQuiet(t) PROVE Next
  BY <1>2 DEF CancelActive, CloseQuiet, Next
<1>3. ASSUME ShutdownEnds PROVE Next
  BY <1>3 DEF ShutdownEnds, Next
<1>4. ASSUME UNCHANGED allVars PROVE UNCHANGED vars
  BY <1>4 DEF allVars
<1>5. QED
  BY <1>1, <1>2, <1>3, <1>4 DEF HostNext, RequestStep, TaskStep

(* Closing from the endpoint keeps the Runtime well formed. *)
LEMMA CloseType ==
    ASSUME TypeOK, NEW t \in Thread, NEW r \in ThreadRecord, NEW ev \in Seq(EventRec),
           Close(t, r, ev)
    PROVE  /\ rec' \in [Thread -> ThreadRecord] /\ durable' \in [Thread -> StoredThread]
           /\ storeFailures' \in 0..MaxStoreFailures /\ storeFailures' = storeFailures
<1> DEFINE q == [r EXCEPT !.events = @ \o ev]
           d == Stored(durable[t], r, ev)
<1>1. r.events \o ev \in Seq(EventRec)
  BY DEF ThreadRecord
<1>2. q \in ThreadRecord
  BY <1>1 DEF ThreadRecord
<1>3. d \in StoredThread
  BY StoredType DEF TypeOK
<1>4. Apply(t, q, d, 0)
  BY DEF Close
<1> HIDE DEF q, d
<1>5. storeFailures' = storeFailures
  BY <1>4 DEF Apply, TypeOK
<1>6. QED
  BY <1>2, <1>3, <1>4, <1>5, ApplyType

(* So do the other requests and the begin of the shutdown. *)
LEMMA RequestType ==
    ASSUME TypeOK, RequestStep
    PROVE  TypeOK' /\ storeFailures' = storeFailures /\ pc' = pc /\ leases' = leases
<1>1. \A cs : Interrupted(cs) \in [Call -> {"no", "task", "turn"}]
  BY DEF Interrupted, TypeOK
<1>2. ASSUME NEW c \in Call, StartRequest(c)
      PROVE  TypeOK' /\ storeFailures' = storeFailures /\ pc' = pc /\ leases' = leases
  BY <1>2 DEF StartRequest, vars, callVars, TypeOK, Leases!TypeOK
<1>3. ASSUME \/ ShutdownBegins
             \/ \E t \in Thread : CancelPending(t)
      PROVE  TypeOK' /\ storeFailures' = storeFailures /\ pc' = pc /\ leases' = leases
  <2>1. cancel' \in [Call -> {"no", "task", "turn"}]
    BY <1>1, <1>3 DEF ShutdownBegins, CancelPending
  <2>2. /\ leases' = leases /\ pc' = pc /\ result' = result /\ waits' = waits
        /\ future' = future /\ mode' = mode /\ restored' = restored /\ crashes' = crashes
        /\ rec' = rec /\ durable' = durable /\ storeFailures' = storeFailures
    BY <1>3 DEF ShutdownBegins, CancelPending
  <2>3. QED
    BY <2>1, <2>2 DEF TypeOK, Leases!TypeOK
<1>4. ASSUME NEW t \in Thread, ClosePending(t) \/ CloseRunning(t)
      PROVE  TypeOK' /\ storeFailures' = storeFailures /\ pc' = pc /\ leases' = leases
  <2>1. rec[t] \in ThreadRecord
    BY DEF TypeOK
  <2>2. \E r \in ThreadRecord, ev \in Seq(EventRec) : Close(t, r, ev)
    <3>1. CASE ClosePending(t)
      <4> DEFINE r == [rec[t] EXCEPT !.closing = TRUE, !.status = "closed", !.tools = "closed"]
      <4>1. r \in ThreadRecord
        BY <2>1 DEF ThreadRecord, Status
      <4>2. Close(t, r, <<>>)
        BY <3>1 DEF ClosePending
      <4>3. <<>> \in Seq(EventRec)
        OBVIOUS
      <4>4. QED
        BY <4>1, <4>2, <4>3
    <3>2. CASE CloseRunning(t)
      <4> DEFINE r == [rec[t] EXCEPT !.closing = TRUE]
                 c == rec[t].active
                 a == Event("turn_cancel_requested", c)
                 b == Event("thread_close_requested", c)
      <4>1. r \in ThreadRecord
        BY <2>1 DEF ThreadRecord
      <4>2. c \in Call
        BY <2>1, <3>2 DEF CloseRunning, ThreadRecord
      <4>3. a \in EventRec /\ b \in EventRec
        BY <4>2 DEF Event, EventRec, EventType
      <4>4. Close(t, r, <<a, b>>)
        BY <3>2 DEF CloseRunning
      <4> HIDE DEF r, a, b
      <4>5. <<a, b>> \in Seq(EventRec)
        BY <4>3
      <4>6. QED
        BY <4>1, <4>4, <4>5
    <3>3. QED
      BY <1>4, <3>1, <3>2
  <2>3. /\ rec' \in [Thread -> ThreadRecord] /\ durable' \in [Thread -> StoredThread]
        /\ storeFailures' \in 0..MaxStoreFailures /\ storeFailures' = storeFailures
    BY <2>2, CloseType
  <2>4. cancel' \in [Call -> {"no", "task", "turn"}]
    BY <1>1, <1>4 DEF ClosePending, CloseRunning, TypeOK
  <2>5. /\ leases' = leases /\ pc' = pc /\ result' = result /\ waits' = waits
        /\ future' = future /\ mode' = mode /\ restored' = restored /\ crashes' = crashes
    BY <1>4 DEF ClosePending, CloseRunning, Process
  <2>6. QED
    BY <2>3, <2>4, <2>5 DEF TypeOK, Leases!TypeOK
<1>5. QED
  BY <1>2, <1>3, <1>4 DEF RequestStep

(* The mapping, the failures and the tasks the Host keeps. *)
Failure == [code : {"none", "REJECTED", "TURN_TASK_FAILED", "TURN_CANCELLED_BEFORE_START"},
            turn : Call \cup {None}]
Mapping == [turn : Call \cup {None}, cancelling : BOOLEAN]

(* A failure is recorded from the newest event of the Thread. *)
LEMMA RecordedType ==
    ASSUME NEW events \in Seq(EventRec), NEW code
    PROVE  RecordedFailure(events, code) \in Failure
<1>1. LatestRejection(events) \in Failure
  <2>1. CASE events # <<>> /\ events[Len(events)].type = "turn_rejected"
    <3> DEFINE E == EventRec
    <3>1. events \in Seq(E)
      OBVIOUS
    <3> HIDE DEF E
    <3>2. events[Len(events)] \in E
      BY <2>1, <3>1
    <3>3. events[Len(events)].turn \in Call
      BY <3>2 DEF E, EventRec
    <3>4. QED
      BY <2>1, <3>3 DEF LatestRejection, Failure
  <2>2. CASE ~(events # <<>> /\ events[Len(events)].type = "turn_rejected")
    BY <2>2 DEF LatestRejection, NoFailure, Failure
  <2>3. QED
    BY <2>1, <2>2
<1>2. QED
  BY <1>1 DEF RecordedFailure, Failure

(* What the end of a task removes and records. *)
LEMMA BookkeepingType ==
    ASSUME HostTypeOK, TypeOK', NEW c \in Call, Bookkeeping(c)
    PROVE  submission' \in [Thread -> Mapping] /\ failure' \in [Thread -> Failure]
<1> DEFINE t == ThreadOf[c]
           f == RecordedFailure(rec'[t].events, result'[c].code)
<1>1. t \in Thread /\ rec'[t].events \in Seq(EventRec)
  BY CallAssumption DEF TypeOK, ThreadRecord
<1>2. f \in Failure
  BY <1>1, RecordedType
<1>3. failure \in [Thread -> Failure] /\ submission \in [Thread -> Mapping] /\ NoTask \in Mapping
  BY DEF HostTypeOK, Failure, Mapping, NoTask
<1>4. submission' = submission \/ submission' = [submission EXCEPT ![t] = NoTask]
  BY DEF Bookkeeping
<1>5. failure' = failure \/ failure' = [failure EXCEPT ![t] = f]
  BY DEF Bookkeeping
<1> HIDE DEF f, t
<1>6. QED
  BY <1>1, <1>2, <1>3, <1>4, <1>5

(* The state of the Host stays well formed. *)
LEMMA NextHostType ==
    ASSUME HostTypeOK, [HostNext]_allVars
    PROVE  HostTypeOK'
<1>1. TypeOK'
  <2>1. CASE RequestStep
    BY <2>1, RequestType DEF HostTypeOK
  <2>2. CASE ~RequestStep
    BY <2>2, HostSteps, NextType DEF HostTypeOK
  <2>3. QED
    BY <2>1, <2>2
<1>2. ASSUME NEW c \in Call, TaskStep(c) PROVE HostTypeOK'
  <2>1. CASE TaskAsks(c)
    BY <1>1, <2>1 DEF TaskAsks, hostVars, HostTypeOK
  <2>2. CASE TaskBegins(c) \/ TaskSettles(c)
    <3>1. submission' \in [Thread -> Mapping] /\ failure' \in [Thread -> Failure]
      BY <1>1, <2>2, BookkeepingType DEF TaskBegins, TaskSettles
    <3>2. task' \in [Call -> {"none", "created", "started", "never"}] /\ accepting' \in BOOLEAN
      BY <2>2 DEF TaskBegins, TaskSettles, HostTypeOK
    <3>3. QED
      BY <1>1, <3>1, <3>2 DEF HostTypeOK, Mapping, Failure
  <2>3. QED
    BY <1>2, <2>1, <2>2 DEF TaskStep
<1>3. \A cs : NeverRun(cs) => task' \in [Call -> {"none", "created", "started", "never"}]
  BY DEF NeverRun, HostTypeOK
<1>4. \A t \in Thread : Cancelling(t) => submission' \in [Thread -> Mapping]
  <2>1. submission \in [Thread -> Mapping]
    BY DEF HostTypeOK, Mapping
  <2>2. QED
    BY <2>1 DEF Cancelling, Mapping
<1>5. ASSUME NEW c \in Call, StartRequest(c) PROVE HostTypeOK'
  <2>1. ThreadOf[c] \in Thread
    BY CallAssumption
  <2>2. QED
    BY <1>1, <1>5, <2>1 DEF StartRequest, HostTypeOK, NoFailure
<1>6. ASSUME NEW t \in Thread, CancelPending(t) \/ CancelActive(t) \/ CloseQuiet(t)
                               \/ ClosePending(t) \/ CloseRunning(t)
      PROVE  HostTypeOK'
  <2>1. submission' \in [Thread -> Mapping]
    BY <1>4, <1>6 DEF CancelPending, CancelActive, CloseQuiet, ClosePending, CloseRunning,
       HostTypeOK, Mapping
  <2>2. /\ task' \in [Call -> {"none", "created", "started", "never"}]
        /\ failure' = failure /\ accepting' = accepting
    BY <1>3, <1>6 DEF CancelPending, CancelActive, CloseQuiet, ClosePending, CloseRunning,
       HostTypeOK
  <2>3. QED
    BY <1>1, <2>1, <2>2 DEF HostTypeOK, Mapping
<1>7. ASSUME ShutdownBegins \/ ShutdownEnds \/ UNCHANGED allVars PROVE HostTypeOK'
  <2>1. task' \in [Call -> {"none", "created", "started", "never"}]
    BY <1>3, <1>7 DEF ShutdownBegins, ShutdownEnds, allVars, hostVars, HostTypeOK
  <2>2. submission' \in [Thread -> Mapping]
    <3>1. submission \in [Thread -> Mapping] /\ NoTask \in Mapping
      BY DEF HostTypeOK, Mapping, NoTask
    <3>2. submission' = submission \/ submission' = [t \in Thread |-> NoTask]
      BY <1>7 DEF ShutdownBegins, ShutdownEnds, allVars, hostVars
    <3>3. QED
      BY <3>1, <3>2
  <2>3. failure' = failure /\ accepting' \in BOOLEAN
    BY <1>7 DEF ShutdownBegins, ShutdownEnds, allVars, hostVars, HostTypeOK
  <2>4. QED
    BY <1>1, <2>1, <2>2, <2>3 DEF HostTypeOK, Mapping
<1>8. QED
  BY <1>2, <1>5, <1>6, <1>7 DEF HostNext, TaskStep

(* The Host starts well formed. *)
LEMMA InitHostType == HostInit => HostTypeOK
BY InitType DEF HostInit, HostTypeOK, NoTask, NoFailure
-----------------------------------------------------------------------------
(* The mapping names the call that waits or still has to run: a task that has  *)
(* not begun is suspended nowhere.                                           *)
HostInv == \A c \in Call :
    LET covered == submission[ThreadOf[c]].turn = c IN
    /\ pc[c] \in Suspended => task[c] = "started" /\ covered
    /\ task[c] = "created" /\ pc[c] = "idle" => covered

(* A step that takes a call out of its await, or a task into its first one. *)
LEMMA TaskCovers ==
    ASSUME HostTypeOK, HostInv, NEW c \in Call, TaskBegins(c) \/ TaskSettles(c)
    PROVE  HostInv'
<1> DEFINE t == ThreadOf[c]
<1>1. t \in Thread /\ c # None
  BY CallAssumption
<1>2. submission[t].turn = c /\ (task[c] = "started" \/ TaskBegins(c))
  <2>1. CASE TaskBegins(c)
    BY <2>1 DEF TaskBegins, Invoke, AnswerFromKey, Join, Refuse, BeginPreflight, HostInv
  <2>2. CASE TaskSettles(c)
    <3>1. pc[c] \in Suspended
      BY <2>2, ZenonT(30) DEF TaskSettles, Settles, Preflight, RejectCancelled, RejectInvalidRoot,
         RejectBusy, RejectClosed, RejectContext, StartTurn, StartLost, CanStart,
         SettleApproval, SetWaiting, Active, TurnTerminates, FinishedTwice, TurnEnds,
         TerminalLost, ReplayLost, ReturnLost, CleanupEnds, JoinEnds, Suspended
    <3>2. QED
      BY <3>1, ZenonT(30) DEF HostInv
  <2>3. QED
    BY <2>1, <2>2
<1>3. \A b \in Call : b # c => pc'[b] = pc[b] /\ task'[b] = task[b]
  <2>1. \A b \in Call : b # c => pc'[b] = pc[b]
    BY ZenonT(30) DEF HostTypeOK, TypeOK, TaskBegins, TaskSettles, Invoke, AnswerFromKey, Join, Refuse,
       BeginPreflight, Settles, Preflight, RejectCancelled, RejectInvalidRoot, RejectBusy,
       RejectClosed, RejectContext, Reject, StartTurn, StartLost, SettleApproval, SetWaiting,
       TurnTerminates, FinishedTwice, TurnEnds, TerminalLost, ReplayLost, ReturnLost, Leave,
       CleanupEnds, JoinEnds, Finish
  <2>2. QED
    BY <2>1, ZenonT(30) DEF TaskBegins, TaskSettles, HostTypeOK
<1>4. task'[c] = "started"
  BY <1>2 DEF TaskBegins, TaskSettles, HostTypeOK
<1>5. /\ \A u \in Thread : u # t => submission'[u] = submission[u]
      /\ pc'[c] # "done" => submission'[t] = submission[t]
  BY <1>1 DEF TaskBegins, TaskSettles, Bookkeeping, HostTypeOK
<1>6. pc'[c] \in Suspended => pc'[c] # "done"
  BY DEF Suspended
<1>7. ASSUME NEW b \in Call, b # c
      PROVE  submission[ThreadOf[b]].turn = b => submission'[ThreadOf[b]] = submission[ThreadOf[b]]
  BY <1>2, <1>5, <1>7, CallAssumption
<1>8. QED
  BY <1>2, <1>3, <1>4, <1>5, <1>6, <1>7 DEF HostInv

(* Every step keeps the mapping over the suspended calls. *)
LEMMA NextCovers ==
    ASSUME HostTypeOK, HostInv, [HostNext]_allVars
    PROVE  HostInv'
<1>1. ASSUME NEW c \in Call, TaskStep(c) PROVE HostInv'
  <2>1. CASE TaskAsks(c)
    BY <2>1 DEF TaskAsks, RequestApproval, SetWaiting, hostVars, HostInv
  <2>2. QED
    BY <1>1, <2>1, TaskCovers DEF TaskStep
<1>2. ASSUME NEW c \in Call, StartRequest(c) PROVE HostInv'
  <2> DEFINE t == ThreadOf[c]
  <2>1. /\ t \in Thread /\ submission[t].turn = None /\ pc' = pc
        /\ submission'[t].turn = c /\ task[c] = "none"
        /\ \A u \in Thread : u # t => submission'[u] = submission[u]
        /\ \A b \in Call : b # c => task'[b] = task[b]
    <3>1. t \in Thread /\ submission[t] = NoTask /\ task[c] = "none" /\ pc' = pc
          /\ task' = [task EXCEPT ![c] = "created"]
          /\ submission' = [submission EXCEPT ![t] = [turn |-> c, cancelling |-> FALSE]]
      BY <1>2, CallAssumption DEF StartRequest, vars, callVars
    <3>2. submission \in [Thread -> Mapping] /\ DOMAIN task = Call
      BY DEF HostTypeOK, Mapping
    <3>3. QED
      BY <3>1, <3>2 DEF NoTask
  <2>2. ASSUME NEW b \in Call, b # c, submission[ThreadOf[b]].turn = b
        PROVE  submission'[ThreadOf[b]].turn = b
    BY <2>1, <2>2, CallAssumption
  <2>3. pc[c] \notin Suspended
    BY <2>1 DEF HostInv
  <2>4. QED
    BY <2>1, <2>2, <2>3 DEF HostInv
<1>3. ASSUME pc' = pc, \A t \in Thread : submission'[t].turn = submission[t].turn,
             \A b \in Call : task'[b] = task[b] \/ (task[b] = "created" /\ task'[b] = "never")
      PROVE  HostInv'
  BY <1>3, CallAssumption DEF HostInv
<1>4. \A cs : NeverRun(cs) => \A b \in Call :
          task'[b] = task[b] \/ (task[b] = "created" /\ task'[b] = "never")
  BY DEF NeverRun
<1>5. \A t \in Thread : Cancelling(t) => \A u \in Thread : submission'[u].turn = submission[u].turn
  BY DEF Cancelling, HostTypeOK
<1>6. ASSUME NEW t \in Thread, CancelPending(t) \/ CancelActive(t) \/ CloseQuiet(t)
                               \/ ClosePending(t) \/ CloseRunning(t)
      PROVE  HostInv'
  <2>1. pc' = pc
    BY <1>6 DEF CancelPending, CancelActive, CloseQuiet, ClosePending, CloseRunning, Stop,
       CloseIdle, callVars
  <2>2. \A u \in Thread : submission'[u].turn = submission[u].turn
    BY <1>5, <1>6 DEF CancelPending, CancelActive, CloseQuiet, ClosePending, CloseRunning
  <2>3. \A b \in Call : task'[b] = task[b] \/ (task[b] = "created" /\ task'[b] = "never")
    BY <1>4, <1>6 DEF CancelPending, CancelActive, CloseQuiet, ClosePending, CloseRunning
  <2>4. QED
    BY <1>3, <2>1, <2>2, <2>3
<1>7. CASE ShutdownBegins
  BY <1>3, <1>4, <1>7 DEF ShutdownBegins
<1>8. CASE UNCHANGED allVars
  BY <1>3, <1>8 DEF allVars, hostVars, vars, callVars
<1>9. CASE ShutdownEnds
  <2>1. /\ pc' = pc /\ task' = task
        /\ \A c \in Submitted : pc[c] = "done" \/ task[c] = "never"
    BY <1>9 DEF ShutdownEnds, Aclose, AcloseFails, Passed
  <2>2. ASSUME NEW c \in Call, submission[ThreadOf[c]].turn = c PROVE c \in Submitted
    BY <2>2, CallAssumption DEF Submitted
  <2>3. \A c \in Call : pc[c] \notin Suspended /\ ~(task[c] = "created" /\ pc[c] = "idle")
    BY <2>1, <2>2 DEF HostInv, Suspended
  <2>4. QED
    BY <2>1, <2>3 DEF HostInv
<1>10. QED
  BY <1>1, <1>2, <1>6, <1>7, <1>8, <1>9 DEF HostNext, TaskStep

(* Every suspended run_turn call is the one its Thread's mapping names, so a    *)
(* Stop, a close and the shutdown reach it whatever they overtake.            *)
THEOREM CallsCovered == HostSpec => []SubmissionCovers
<1>1. HostInit => HostTypeOK /\ HostInv
  <2>1. HostInit => HostInv
    BY DEF HostInit, Init, HostInv, Suspended
  <2>2. QED
    BY <2>1, InitHostType
<1>2. HostTypeOK /\ HostInv /\ [HostNext]_allVars => (HostTypeOK /\ HostInv)'
  BY NextHostType, NextCovers
<1>3. HostInv => SubmissionCovers
  BY DEF HostInv, SubmissionCovers
<1>4. QED
  BY <1>1, <1>2, <1>3, PTL DEF HostSpec
-----------------------------------------------------------------------------
(* What the Host does to the leases. *)
LEMMA HostLeases ==
    ASSUME HostTypeOK, LeaseInv, [HostNext]_allVars
    PROVE  LeaseInv' /\ [Leases!Next]_leases
<1>1. CASE RequestStep
  BY <1>1, RequestType DEF HostTypeOK, LeaseInv, RunningHoldsLease
<1>2. CASE ~RequestStep
  BY <1>2, HostSteps, NextLeases DEF HostTypeOK
<1>3. QED
  BY <1>1, <1>2

(* Starts, cancels, closes and the shutdown of the Host are, for the leases,    *)
(* steps of the lease manager.                                               *)
THEOREM HostLeasesRefined == HostSpec => LeasesImplemented
<1>1. HostInit => HostTypeOK /\ LeaseInv /\ Leases!Init
  BY InitHostType, InitLeases DEF HostInit
<1>2. HostTypeOK /\ LeaseInv /\ [HostNext]_allVars
        => (HostTypeOK /\ LeaseInv)' /\ [Leases!Next]_leases
  BY NextHostType, HostLeases
<1>3. QED
  BY <1>1, <1>2, PTL DEF HostSpec, LeasesImplemented, Leases!Spec

(* Under the Host too, running Turns never work under overlapping roots and     *)
(* are never more than the capacity.                                         *)
THEOREM HostTurnsDisjoint == HostSpec => []RunningDisjoint
<1> DEFINE Inv == HostTypeOK /\ LeaseInv /\ Leases!NoOverlap /\ Leases!WithinCapacity
<1>1. HostInit => Inv
  BY InitHostType, InitLeases, InitLeaseSafety DEF HostInit
<1>2. Inv /\ [HostNext]_allVars => Inv'
  <2> SUFFICES ASSUME Inv, [HostNext]_allVars PROVE Inv'
    OBVIOUS
  <2>1. HostTypeOK' /\ LeaseInv' /\ [Leases!Next]_leases
    BY NextHostType, HostLeases
  <2>2. QED
    BY <2>1, LeaseSafety DEF HostTypeOK
<1>3. Inv => RunningDisjoint
  BY LeasesDisjoint DEF HostTypeOK
<1>4. QED
  BY <1>1, <1>2, <1>3, PTL DEF HostSpec

(* As long as every commit succeeds, no endpoint and no shutdown leaves a lease *)
(* behind: not one of a Turn it cancelled, of a task it kept from running, nor *)
(* of a Thread it closed.                                                    *)
THEOREM HostLeasesReleased == HostSpec => [](storeFailures = 0 => LeaseReleased)
<1> DEFINE Inv == HostTypeOK /\ LeaseInv /\ (storeFailures = 0 => LeaseReleased)
<1>1. HostInit => Inv
  BY InitHostType, InitLeases DEF HostInit, Init, LeaseReleased, Leases!Free
<1>2. Inv /\ [HostNext]_allVars => Inv'
  <2> SUFFICES ASSUME Inv, [HostNext]_allVars PROVE Inv'
    OBVIOUS
  <2>1. HostTypeOK' /\ LeaseInv'
    BY NextHostType, HostLeases
  <2>2. ASSUME storeFailures' = 0 PROVE LeaseReleased'
    <3>1. CASE RequestStep
      BY <2>2, <3>1, RequestType DEF HostTypeOK, LeaseReleased
    <3>2. CASE ~RequestStep
      <4>1. TypeOK /\ [Next]_vars
        BY <3>2, HostSteps DEF HostTypeOK
      <4>2. QED
        BY <2>2, <4>1, FailuresGrow, NextReleases
    <3>3. QED
      BY <3>1, <3>2
  <2>3. QED
    BY <2>1, <2>2
<1>3. QED
  BY <1>1, <1>2, PTL DEF HostSpec
=============================================================================
