--------------------------- MODULE ModelAccessProofs ---------------------------
(***************************************************************************)
(* How a Turn comes to its model.  The model catalog and the client pool      *)
(* (ModelCatalog, ModelClients): what is shown as verified was verified with  *)
(* the current key, a leased client stays open, and a finished shutdown has   *)
(* left neither a client nor a refresh that nobody cancelled.  And the        *)
(* settings of a Thread (TurnSettings), for every number of pages, every      *)
(* table of capabilities, every sequence of updates, failed commits and       *)
(* restarts.                                                               *)
(***************************************************************************)
EXTENDS ModelClients, TurnSettings, FiniteSetTheorems, SequenceTheorems, TLAPS

(* A refresh under way has a provider and a key; until it is cancelled it is   *)
(* the one in flight for them, and once the catalog closes it is cancelled.   *)
RefreshOk(i) ==
    /\ task[i].pc \in {"created", "fetching", "fetched", "done"} =>
           task[i].provider \in Provider /\ task[i].key \in Key
    /\ Running(i) /\ ~task[i].cancel => inflight[<<task[i].provider, task[i].key>>] = i
    /\ phase \in {"gathering", "closed"} /\ Running(i) => task[i].cancel

(* The status of a provider whose last change was saved belongs to its key. *)
Current(p) ==
    credential[p] # None => /\ owner[p] = credential[p]
                            /\ status[p].state = "ready" => status[p].from = credential[p]

CatalogInv ==
    /\ CatalogTypeOK
    /\ \A i \in Task : RefreshOk(i)
    /\ \A p \in Provider \ unsaved : Current(p)

State == {"idle", "loading", "ready", "error"}
TaskRec == [pc : {"none", "created", "fetching", "fetched", "done", "gone"},
            provider : Provider \cup {None}, key : Key \cup {None},
            cancel : BOOLEAN, result : {"none", "models", "error"}]

(* No number of a task is NoTask. *)
LEMMA Tasks == NoTask \notin Task /\ Task \subseteq Nat
BY CatalogBounds DEF Task, NoTask

(* The status and its owner change together. *)
LEMMA PublishType ==
    ASSUME CatalogTypeOK, NEW p \in Provider, NEW k \in Key, NEW s \in State, PublishAny(p, k, s)
    PROVE  /\ owner' \in [Provider -> Key \cup {None}] /\ owner'[p] = k
           /\ status' \in [Provider -> [state : State, from : Key \cup {None}]]
           /\ status'[p] = [state |-> s, from |-> k] /\ status'[p].from = k
           /\ \A q \in Provider : q # p => owner'[q] = owner[q] /\ status'[q] = status[q]
BY DEF PublishAny, CatalogTypeOK, State

(* A new task is the only one in flight for its provider and key. *)
LEMMA StartRefresh ==
    ASSUME CatalogInv, phase = "open", phase' = phase, NEW p \in Provider, NEW k \in Key,
           inflight[<<p, k>>] = NoTask, StartTask(p, k)
    PROVE  /\ task' \in [Task -> TaskRec] /\ inflight' \in [Provider \X Key -> Task \cup {NoTask}]
           /\ \A i \in Task : RefreshOk(i)'
           /\ inflight'[<<p, k>>] \in Task
<1>1. PICK i \in Task :
         /\ task[i].pc = "none"
         /\ task' = [task EXCEPT ![i] = [Unstarted EXCEPT !.pc = "created", !.provider = p, !.key = k]]
         /\ inflight' = [inflight EXCEPT ![<<p, k>>] = i]
  BY DEF StartTask
<1> DEFINE new == [Unstarted EXCEPT !.pc = "created", !.provider = p, !.key = k]
<1>2. new \in TaskRec /\ new.pc = "created" /\ new.provider = p /\ new.key = k
  BY DEF Unstarted, TaskRec
<1> HIDE DEF new
<1>3. task \in [Task -> TaskRec] /\ inflight \in [Provider \X Key -> Task \cup {NoTask}]
  BY DEF CatalogInv, CatalogTypeOK, TaskRec
<1>4. task'[i] = new /\ \A j \in Task : j # i => task'[j] = task[j]
  BY <1>1, <1>3 DEF new
<1>5. inflight'[<<p, k>>] = i
      /\ \A q \in Provider, l \in Key : <<q, l>> # <<p, k>> => inflight'[<<q, l>>] = inflight[<<q, l>>]
  BY <1>1, <1>3
<1>6. ASSUME NEW j \in Task PROVE RefreshOk(j)'
  <2>1. CASE j = i
    BY <1>2, <1>4, <1>5, <2>1 DEF RefreshOk, Running
  <2>2. CASE j # i
    <3>1. RefreshOk(j) /\ j # NoTask
      BY Tasks DEF CatalogInv
    <3>2. Running(j) /\ ~task[j].cancel => <<task[j].provider, task[j].key>> # <<p, k>>
      BY <3>1 DEF RefreshOk
    <3>3. QED
      BY <1>4, <1>5, <2>2, <3>1, <3>2 DEF RefreshOk, Running
  <2>3. QED
    BY <2>1, <2>2
<1>7. task' \in [Task -> TaskRec] /\ inflight' \in [Provider \X Key -> Task \cup {NoTask}]
  BY <1>1, <1>2, <1>3 DEF new
<1>8. QED
  BY <1>5, <1>6, <1>7

(* A step that leaves the tasks alone leaves the refreshes alone. *)
LEMMA SameRefreshes ==
    ASSUME CatalogInv, phase' = phase \/ phase \notin {"gathering", "closed"},
           phase' \notin {"gathering", "closed"} \/ phase' = phase,
           task' = task, inflight' = inflight
    PROVE  \A i \in Task : RefreshOk(i)'
BY DEF CatalogInv, RefreshOk, Running

(* Saving a key. *)
LEMMA SaveInv ==
    ASSUME CatalogInv, phase' = phase, NEW p \in Provider, NEW k \in Key, SaveProvider(p, k)
    PROVE  CatalogInv'
<1>1. credential' \in [Provider -> Key \cup {None}] /\ credential'[p] = k
      /\ \A q \in Provider : q # p => credential'[q] = credential[q]
  BY DEF SaveProvider, CatalogInv, CatalogTypeOK
<1>2. changes' \in 0..MaxChanges /\ request' = request /\ phase = "open"
  BY CatalogBounds DEF SaveProvider, CanChange, CatalogInv, CatalogTypeOK
<1>3. CASE Written(p) /\ ScheduleRefresh(p, k)
  <2>1. unsaved' \subseteq Provider /\ \A q \in Provider \ unsaved' : q = p \/ q \notin unsaved
    BY <1>3 DEF Written, CatalogInv, CatalogTypeOK
  <2>2. PublishAny(p, k, "loading") /\ cache' = cache /\ faults' = faults
    BY <1>3 DEF ScheduleRefresh, Written
  <2>3. /\ owner' \in [Provider -> Key \cup {None}] /\ owner'[p] = k
        /\ status' \in [Provider -> [state : State, from : Key \cup {None}]]
        /\ status'[p] = [state |-> "loading", from |-> k]
        /\ \A q \in Provider : q # p => owner'[q] = owner[q] /\ status'[q] = status[q]
    BY <2>2, PublishType DEF CatalogInv, State
  <2>4. /\ task' \in [Task -> TaskRec] /\ inflight' \in [Provider \X Key -> Task \cup {NoTask}]
        /\ \A i \in Task : RefreshOk(i)'
    <3>1. CASE inflight[<<p, k>>] = NoTask
      BY <1>2, <1>3, <3>1, StartRefresh DEF ScheduleRefresh
    <3>2. CASE inflight[<<p, k>>] # NoTask
      BY <1>3, <3>2, SameRefreshes DEF ScheduleRefresh, CatalogInv, CatalogTypeOK, TaskRec
    <3>3. QED
      BY <3>1, <3>2
  <2>5. ASSUME NEW q \in Provider \ unsaved' PROVE Current(q)'
    BY <1>1, <2>1, <2>3 DEF Current, CatalogInv
  <2>6. CatalogTypeOK'
    BY <1>1, <1>2, <2>1, <2>2, <2>3, <2>4 DEF CatalogInv, CatalogTypeOK, TaskRec, State
  <2>7. QED
    BY <2>4, <2>5, <2>6 DEF CatalogInv
<1>4. CASE WriteFails(p)
  <2>1. /\ unsaved' = unsaved \cup {p} /\ faults' \in 0..MaxFaults
        /\ status' = status /\ owner' = owner /\ cache' = cache /\ inflight' = inflight
        /\ task' = task
    BY <1>4, CatalogBounds DEF WriteFails, catalog, CatalogInv, CatalogTypeOK
  <2>2. \A q \in Provider \ unsaved' : Current(q)'
    BY <1>1, <2>1 DEF Current, CatalogInv
  <2>3. \A i \in Task : RefreshOk(i)'
    BY <2>1, SameRefreshes
  <2>4. CatalogTypeOK'
    BY <1>1, <1>2, <2>1 DEF CatalogInv, CatalogTypeOK
  <2>5. QED
    BY <2>2, <2>3, <2>4 DEF CatalogInv
<1>5. QED
  BY <1>3, <1>4 DEF SaveProvider

(* invalidate() cancels what is in flight before it forgets it. *)
LEMMA InvalidatedRefreshes ==
    ASSUME CatalogInv, phase' = phase, NEW p \in Provider, Invalidate(p)
    PROVE  /\ task' \in [Task -> TaskRec] /\ inflight' \in [Provider \X Key -> Task \cup {NoTask}]
           /\ \A i \in Task : RefreshOk(i)'
<1>1. task \in [Task -> TaskRec] /\ inflight \in [Provider \X Key -> Task \cup {NoTask}]
  BY DEF CatalogInv, CatalogTypeOK, TaskRec
<1>2. ASSUME NEW i \in Task
      PROVE  /\ task'[i] \in TaskRec /\ task'[i].pc = task[i].pc
             /\ task'[i].provider = task[i].provider /\ task'[i].key = task[i].key
             /\ task[i].cancel => task'[i].cancel
             /\ Running(i) /\ (\E k \in Key : inflight[<<p, k>>] = i) => task'[i].cancel
  BY <1>1, ZenonT(30) DEF Invalidate, TaskRec
<1>3. \A q \in Provider, l \in Key : q # p => inflight'[<<q, l>>] = inflight[<<q, l>>]
  BY DEF Invalidate
<1>4. task' \in [Task -> TaskRec] /\ inflight' \in [Provider \X Key -> Task \cup {NoTask}]
  <2>1. task' \in [Task -> TaskRec]
    BY <1>2 DEF Invalidate
  <2>2. inflight' \in [Provider \X Key -> Task \cup {NoTask}]
    BY <1>1 DEF Invalidate
  <2>3. QED
    BY <2>1, <2>2
<1>5. ASSUME NEW i \in Task PROVE RefreshOk(i)'
  BY <1>2, <1>3 DEF CatalogInv, RefreshOk, Running
<1>6. QED
  BY <1>4, <1>5

(* Clearing a key. *)
LEMMA ClearInv ==
    ASSUME CatalogInv, phase' = phase, NEW p \in Provider, ClearProvider(p)
    PROVE  CatalogInv'
<1>1. credential' \in [Provider -> Key \cup {None}] /\ credential'[p] = None
      /\ \A q \in Provider : q # p => credential'[q] = credential[q]
  BY DEF ClearProvider, CatalogInv, CatalogTypeOK
<1>2. changes' \in 0..MaxChanges /\ request' = request
  BY CatalogBounds DEF ClearProvider, CanChange, CatalogInv, CatalogTypeOK
<1>3. CASE Written(p) /\ Invalidate(p)
  <2>1. unsaved' \subseteq Provider /\ \A q \in Provider \ unsaved' : q = p \/ q \notin unsaved
    BY <1>3 DEF Written, CatalogInv, CatalogTypeOK
  <2>2. /\ owner' \in [Provider -> Key \cup {None}] /\ cache' \subseteq Provider \X Key
        /\ status' \in [Provider -> [state : State, from : Key \cup {None}]]
        /\ \A q \in Provider : q # p => owner'[q] = owner[q] /\ status'[q] = status[q]
        /\ faults' = faults
    BY <1>3 DEF Invalidate, Written, CatalogInv, CatalogTypeOK, Idle, State
  <2>3. /\ task' \in [Task -> TaskRec] /\ inflight' \in [Provider \X Key -> Task \cup {NoTask}]
        /\ \A i \in Task : RefreshOk(i)'
    BY <1>3, InvalidatedRefreshes
  <2>4. \A q \in Provider \ unsaved' : Current(q)'
    BY <1>1, <2>1, <2>2 DEF Current, CatalogInv
  <2>5. CatalogTypeOK'
    BY <1>1, <1>2, <2>1, <2>2, <2>3 DEF CatalogInv, CatalogTypeOK, TaskRec, State
  <2>6. QED
    BY <2>3, <2>4, <2>5 DEF CatalogInv
<1>4. CASE WriteFails(p)
  <2>1. /\ unsaved' = unsaved \cup {p} /\ faults' \in 0..MaxFaults
        /\ status' = status /\ owner' = owner /\ cache' = cache /\ inflight' = inflight
        /\ task' = task
    BY <1>4, CatalogBounds DEF WriteFails, catalog, CatalogInv, CatalogTypeOK
  <2>2. \A q \in Provider \ unsaved' : Current(q)'
    BY <1>1, <2>1 DEF Current, CatalogInv
  <2>3. \A i \in Task : RefreshOk(i)'
    BY <2>1, SameRefreshes
  <2>4. CatalogTypeOK'
    BY <1>1, <1>2, <2>1 DEF CatalogInv, CatalogTypeOK
  <2>5. QED
    BY <2>2, <2>3, <2>4 DEF CatalogInv
<1>5. QED
  BY <1>3, <1>4 DEF ClearProvider

(* discover(): the current key becomes the owner of the status. *)
LEMMA DiscoverInv ==
    ASSUME CatalogInv, phase' = phase, NEW p \in Provider, NEW r \in Request, DiscoverModels(r, p)
    PROVE  CatalogInv'
<1> DEFINE k == credential[p]
           i == inflight[<<p, k>>]
<1>1. /\ k \in Key /\ phase = "open" /\ i \in Task \cup {NoTask}
      /\ credential' = credential /\ unsaved' = unsaved /\ cache' = cache
      /\ changes' = changes /\ faults' = faults
  BY DEF DiscoverModels, CatalogInv, CatalogTypeOK, store
<1>2. ASSUME /\ task' \in [Task -> TaskRec]
             /\ inflight' \in [Provider \X Key -> Task \cup {NoTask}]
             /\ \A j \in Task : RefreshOk(j)',
             request' \in [Request -> [pc : {"new", "waiting", "answered"}, on : Task \cup {NoTask}]],
             /\ owner' \in [Provider -> Key \cup {None}] /\ owner'[p] = k
             /\ status' \in [Provider -> [state : State, from : Key \cup {None}]]
             /\ status'[p] = status[p] \/ status'[p].from = k
             /\ \A q \in Provider : q # p => owner'[q] = owner[q] /\ status'[q] = status[q]
      PROVE  CatalogInv'
  <2>1. \A q \in Provider \ unsaved' : Current(q)'
    BY <1>1, <1>2 DEF Current, CatalogInv
  <2>2. CatalogTypeOK'
    BY <1>1, <1>2 DEF CatalogInv, CatalogTypeOK, TaskRec, State
  <2>3. QED
    BY <1>2, <2>1, <2>2 DEF CatalogInv
<1>3. ASSUME NEW a \in [pc : {"new", "waiting", "answered"}, on : Task \cup {NoTask}],
             request' = [request EXCEPT ![r] = a]
      PROVE  request' \in [Request -> [pc : {"new", "waiting", "answered"}, on : Task \cup {NoTask}]]
  BY <1>3 DEF CatalogInv, CatalogTypeOK
<1>4. task' = task /\ inflight' = inflight =>
         /\ task' \in [Task -> TaskRec] /\ inflight' \in [Provider \X Key -> Task \cup {NoTask}]
         /\ \A j \in Task : RefreshOk(j)'
  BY SameRefreshes DEF CatalogInv, CatalogTypeOK, TaskRec
<1>5. ASSUME NEW s \in State, PublishAny(p, k, s)
      PROVE  /\ owner' \in [Provider -> Key \cup {None}] /\ owner'[p] = k
             /\ status' \in [Provider -> [state : State, from : Key \cup {None}]]
             /\ status'[p].from = k
             /\ \A q \in Provider : q # p => owner'[q] = owner[q] /\ status'[q] = status[q]
  <2>1. CatalogTypeOK
    BY DEF CatalogInv
  <2> HIDE DEF k
  <2>2. QED
    BY <1>1, <1>5, <2>1, PublishType
<1>6. CASE /\ PublishAny(p, k, "ready") /\ request' = [request EXCEPT ![r] = Answered]
           /\ UNCHANGED <<inflight, task>>
  <2>1. Answered \in [pc : {"new", "waiting", "answered"}, on : Task \cup {NoTask}]
    BY DEF Answered
  <2>2. QED
    BY <1>2, <1>3, <1>4, <1>5, <1>6, <2>1 DEF State
<1>7. CASE /\ owner' = [owner EXCEPT ![p] = k] /\ i # NoTask
           /\ request' = [request EXCEPT ![r] =
                IF Running(i) THEN [pc |-> "waiting", on |-> i] ELSE Answered]
           /\ UNCHANGED <<status, inflight, task>>
  <2>1. (IF Running(i) THEN [pc |-> "waiting", on |-> i] ELSE Answered)
            \in [pc : {"new", "waiting", "answered"}, on : Task \cup {NoTask}]
    BY <1>1 DEF Answered
  <2>2. /\ owner' \in [Provider -> Key \cup {None}] /\ owner'[p] = k
        /\ \A q \in Provider : q # p => owner'[q] = owner[q]
        /\ status \in [Provider -> [state : State, from : Key \cup {None}]]
    BY <1>1, <1>7 DEF CatalogInv, CatalogTypeOK, State
  <2> HIDE DEF k, i
  <2>3. QED
    BY <1>2, <1>3, <1>4, <1>7, <2>1, <2>2
<1>8. CASE /\ i = NoTask /\ PublishAny(p, k, "loading") /\ StartTask(p, k)
           /\ request' = [request EXCEPT ![r] = [pc |-> "waiting", on |-> inflight'[<<p, k>>]]]
  <2>1. /\ task' \in [Task -> TaskRec] /\ inflight' \in [Provider \X Key -> Task \cup {NoTask}]
        /\ \A j \in Task : RefreshOk(j)'
        /\ inflight'[<<p, k>>] \in Task
    BY <1>1, <1>8, StartRefresh
  <2>2. [pc |-> "waiting", on |-> inflight'[<<p, k>>]]
            \in [pc : {"new", "waiting", "answered"}, on : Task \cup {NoTask}]
    BY <2>1
  <2>3. QED
    BY <1>2, <1>3, <1>5, <1>8, <2>1, <2>2 DEF State
<1>9. QED
  BY <1>6, <1>7, <1>8 DEF DiscoverModels

(* One refresh moves on by itself. *)
LEMMA OnlyRefresh ==
    ASSUME CatalogInv, phase' = phase, NEW i \in Task, NEW t \in TaskRec, Only(i, t),
           t.provider = task[i].provider, t.key = task[i].key, t.cancel = task[i].cancel,
           Running(i), t.pc \in {"fetching", "fetched", "done"}
    PROVE  /\ task' \in [Task -> TaskRec] /\ \A j \in Task : RefreshOk(j)'
           /\ inflight' = inflight /\ credential' = credential /\ unsaved' = unsaved
           /\ request' = request /\ changes' = changes /\ faults' = faults
<1>1. task \in [Task -> TaskRec] /\ task' = [task EXCEPT ![i] = t]
  BY DEF Only, CatalogInv, CatalogTypeOK, TaskRec
<1>2. task'[i] = t /\ \A j \in Task : j # i => task'[j] = task[j]
  BY <1>1
<1>3. inflight' = inflight /\ credential' = credential /\ unsaved' = unsaved
      /\ request' = request /\ changes' = changes /\ faults' = faults
  BY DEF Only, store
<1>4. ASSUME NEW j \in Task PROVE RefreshOk(j)'
  BY <1>2, <1>3 DEF CatalogInv, RefreshOk, Running
<1>5. QED
  BY <1>1, <1>3, <1>4

(* The steps of a refresh. *)
LEMMA TaskInv ==
    ASSUME CatalogInv, phase' = phase, NEW i \in Task, TaskStep(i)
    PROVE  CatalogInv'
<1>1. task[i] \in TaskRec /\ task \in [Task -> TaskRec]
      /\ inflight \in [Provider \X Key -> Task \cup {NoTask}]
  BY DEF CatalogInv, CatalogTypeOK, TaskRec
<1>2. ASSUME NEW t \in TaskRec, Only(i, t),
             t.provider = task[i].provider, t.key = task[i].key, t.cancel = task[i].cancel,
             Running(i), t.pc \in {"fetching", "fetched", "done"},
             UNCHANGED <<status, owner, cache>>
      PROVE  CatalogInv'
  <2>1. /\ task' \in [Task -> TaskRec] /\ \A j \in Task : RefreshOk(j)'
        /\ inflight' = inflight /\ credential' = credential /\ unsaved' = unsaved
        /\ request' = request /\ changes' = changes /\ faults' = faults
    BY <1>2, OnlyRefresh
  <2>2. \A p \in Provider \ unsaved' : Current(p)'
    BY <1>2, <2>1 DEF Current, CatalogInv
  <2>3. CatalogTypeOK'
    BY <1>2, <2>1 DEF CatalogInv, CatalogTypeOK, TaskRec
  <2>4. QED
    BY <2>1, <2>2, <2>3 DEF CatalogInv
<1>3. CASE TaskBegins(i)
  <2> DEFINE t == [task[i] EXCEPT !.pc = IF task[i].cancel THEN "done" ELSE "fetching"]
  <2>1. t \in TaskRec /\ t.pc \in {"fetching", "done"} /\ t.cancel = task[i].cancel
        /\ t.provider = task[i].provider /\ t.key = task[i].key
    BY <1>1 DEF TaskRec
  <2>2. Only(i, t) /\ Running(i) /\ UNCHANGED <<status, owner, cache>>
    BY <1>3 DEF TaskBegins, Running
  <2> HIDE DEF t
  <2>3. QED
    BY <1>2, <2>1, <2>2
<1>4. CASE FetchEnds(i)
  <2>1. PICK result \in {"models", "error"} :
           Only(i, [task[i] EXCEPT !.pc = "fetched", !.result = result])
    BY <1>4 DEF FetchEnds
  <2> DEFINE t == [task[i] EXCEPT !.pc = "fetched", !.result = result]
  <2>2. t \in TaskRec /\ t.pc = "fetched" /\ t.cancel = task[i].cancel
        /\ t.provider = task[i].provider /\ t.key = task[i].key
    BY <1>1, <2>1 DEF TaskRec
  <2>3. Only(i, t) /\ Running(i) /\ UNCHANGED <<status, owner, cache>>
    BY <1>4, <2>1 DEF FetchEnds, Running
  <2> HIDE DEF t
  <2>4. QED
    BY <1>2, <2>2, <2>3
<1>5. CASE TaskCancelled(i)
  <2> DEFINE t == [task[i] EXCEPT !.pc = "done"]
  <2>1. t \in TaskRec /\ t.pc = "done" /\ t.cancel = task[i].cancel
        /\ t.provider = task[i].provider /\ t.key = task[i].key
    BY <1>1 DEF TaskRec
  <2>2. Only(i, t) /\ Running(i) /\ UNCHANGED <<status, owner, cache>>
    BY <1>5 DEF TaskCancelled, Running
  <2> HIDE DEF t
  <2>3. QED
    BY <1>2, <2>1, <2>2
<1>6. CASE Publishes(i)
  <2> DEFINE t == [task[i] EXCEPT !.pc = "done"]
             p == task[i].provider
             k == task[i].key
             s == IF task[i].result = "models" THEN "ready" ELSE "error"
  <2>1. t \in TaskRec /\ t.pc = "done" /\ t.cancel = task[i].cancel
        /\ t.provider = task[i].provider /\ t.key = task[i].key
    BY <1>1 DEF TaskRec
  <2>2. Only(i, t) /\ Running(i) /\ SetStatus(p, k, s)
        /\ cache' = IF task[i].result = "models" THEN cache \cup {<<p, k>>} ELSE cache
    BY <1>6 DEF Publishes, Running
  <2> HIDE DEF t
  <2>3. /\ task' \in [Task -> TaskRec] /\ \A j \in Task : RefreshOk(j)'
        /\ inflight' = inflight /\ credential' = credential /\ unsaved' = unsaved
        /\ request' = request /\ changes' = changes /\ faults' = faults
    BY <2>1, <2>2, OnlyRefresh
  <2>4. p \in Provider /\ k \in Key /\ s \in State
    BY <2>2 DEF CatalogInv, RefreshOk, Running, State
  <2>5. cache' \subseteq Provider \X Key
    BY <2>2, <2>4 DEF CatalogInv, CatalogTypeOK
  <2>6. /\ owner' \in [Provider -> Key \cup {None}]
        /\ status' \in [Provider -> [state : State, from : Key \cup {None}]]
        /\ \A q \in Provider : \/ owner'[q] = owner[q] /\ status'[q] = status[q]
                               \/ /\ owner[q] \in {None, k}
                                  /\ owner'[q] = k /\ status'[q].from = k
    <3>1. CASE owner[p] \in {None, k}
      <4>1. PublishAny(p, k, s)
        BY <2>2, <3>1 DEF SetStatus
      <4>2. CatalogTypeOK
        BY DEF CatalogInv
      <4> HIDE DEF p, k, s
      <4>3. /\ owner' \in [Provider -> Key \cup {None}] /\ owner'[p] = k
            /\ status' \in [Provider -> [state : State, from : Key \cup {None}]]
            /\ status'[p].from = k
            /\ \A q \in Provider : q # p => owner'[q] = owner[q] /\ status'[q] = status[q]
        BY <2>4, <4>1, <4>2, PublishType
      <4>4. QED
        BY <3>1, <4>3
    <3>2. CASE owner[p] \notin {None, k}
      BY <2>2, <3>2 DEF SetStatus, CatalogInv, CatalogTypeOK, State
    <3>3. QED
      BY <3>1, <3>2
  <2> HIDE DEF p, k, s
  <2>7. \A q \in Provider \ unsaved' : Current(q)'
    BY <2>3, <2>6 DEF Current, CatalogInv
  <2>8. CatalogTypeOK'
    BY <2>3, <2>5, <2>6 DEF CatalogInv, CatalogTypeOK, TaskRec, State
  <2>9. QED
    BY <2>3, <2>7, <2>8 DEF CatalogInv
<1>7. CASE TaskDone(i)
  <2> DEFINE gone == [Unstarted EXCEPT !.pc = "gone"]
  <2>1. gone \in TaskRec /\ gone.pc = "gone"
    BY DEF Unstarted, TaskRec
  <2>2. task' = [task EXCEPT ![i] = gone]
    BY <1>7 DEF TaskDone
  <2> HIDE DEF gone
  <2>3. task'[i] = gone /\ \A j \in Task : j # i => task'[j] = task[j]
    BY <1>1, <2>2
  <2>4. task' \in [Task -> TaskRec] /\ inflight' \in [Provider \X Key -> Task \cup {NoTask}]
        /\ \A q \in Provider, l \in Key : inflight[<<q, l>>] # i
                                             => inflight'[<<q, l>>] = inflight[<<q, l>>]
    BY <1>1, <1>7, <2>1, <2>2 DEF TaskDone
  <2>5. /\ credential' = credential /\ unsaved' = unsaved /\ status' = status /\ owner' = owner
        /\ cache' = cache /\ request' = request /\ changes' = changes /\ faults' = faults
    BY <1>7 DEF TaskDone, store
  <2>6. ASSUME NEW j \in Task PROVE RefreshOk(j)'
    BY <2>1, <2>3, <2>4 DEF CatalogInv, RefreshOk, Running
  <2>7. \A q \in Provider \ unsaved' : Current(q)'
    BY <2>5 DEF Current, CatalogInv
  <2>8. CatalogTypeOK'
    BY <2>4, <2>5 DEF CatalogInv, CatalogTypeOK, TaskRec
  <2>9. QED
    BY <2>6, <2>7, <2>8 DEF CatalogInv
<1>8. QED
  BY <1>3, <1>4, <1>5, <1>6, <1>7 DEF TaskStep

(* Whatever happens in the catalog, the shutdown of the clients included. *)
LEMMA CatalogKept ==
    ASSUME CatalogInv, (CatalogStep /\ phase' = phase) \/ CatalogCloses \/ CatalogClosed
    PROVE  CatalogInv'
<1>1. CASE CatalogStep /\ phase' = phase
  <2>1. ASSUME NEW r \in Request, RequestResumes(r) PROVE CatalogInv'
    <3>1. task' = task /\ inflight' = inflight /\ phase' = phase
      BY <1>1, <2>1 DEF RequestResumes, catalog
    <3>2. \A i \in Task : RefreshOk(i)'
      BY <3>1, SameRefreshes
    <3>3. \A q \in Provider \ unsaved' : Current(q)'
      BY <2>1 DEF RequestResumes, catalog, store, Current, CatalogInv
    <3>4. CatalogTypeOK'
      BY <2>1, <3>1 DEF RequestResumes, catalog, store, CatalogInv, CatalogTypeOK, Answered
    <3>5. QED
      BY <3>2, <3>3, <3>4 DEF CatalogInv
  <2>2. ASSUME NEW pk \in Provider \X Key, Expire(pk) PROVE CatalogInv'
    <3>1. task' = task /\ inflight' = inflight /\ phase' = phase
      BY <1>1, <2>2 DEF Expire
    <3>2. \A i \in Task : RefreshOk(i)'
      BY <3>1, SameRefreshes
    <3>3. \A q \in Provider \ unsaved' : Current(q)'
      BY <2>2 DEF Expire, store, Current, CatalogInv
    <3>4. CatalogTypeOK'
      BY <2>2, <3>1 DEF Expire, store, CatalogInv, CatalogTypeOK
    <3>5. QED
      BY <3>2, <3>3, <3>4 DEF CatalogInv
  <2>3. QED
    BY <1>1, <2>1, <2>2, SaveInv, ClearInv, DiscoverInv, TaskInv DEF CatalogStep
<1>2. CASE CatalogCloses
  <2>1. task \in [Task -> TaskRec] /\ inflight \in [Provider \X Key -> Task \cup {NoTask}]
    BY DEF CatalogInv, CatalogTypeOK, TaskRec
  <2>2. ASSUME NEW i \in Task
        PROVE  /\ task'[i] \in TaskRec /\ task'[i].pc = task[i].pc
               /\ task'[i].provider = task[i].provider /\ task'[i].key = task[i].key
               /\ Running(i) => task'[i].cancel
    <3>1. task[i] \in TaskRec /\ RefreshOk(i)
      BY <2>1 DEF CatalogInv
    <3>2. Running(i) /\ ~task[i].cancel => i \in AwaitedTasks
      BY <3>1 DEF RefreshOk, Running, AwaitedTasks
    <3>3. QED
      BY <1>2, <3>1, <3>2 DEF CatalogCloses, TaskRec
  <2>3. /\ credential' = credential /\ unsaved' = unsaved /\ status' = status /\ owner' = owner
        /\ cache' = cache /\ request' = request /\ changes' = changes /\ faults' = faults
        /\ inflight' = inflight /\ phase' = "gathering"
    BY <1>2 DEF CatalogCloses, store
  <2>4. task' \in [Task -> TaskRec]
    BY <1>2, <2>2 DEF CatalogCloses
  <2>5. ASSUME NEW i \in Task PROVE RefreshOk(i)'
    BY <2>2, <2>3 DEF CatalogInv, RefreshOk, Running
  <2>6. \A q \in Provider \ unsaved' : Current(q)'
    BY <2>3 DEF Current, CatalogInv
  <2>7. CatalogTypeOK'
    BY <2>3, <2>4 DEF CatalogInv, CatalogTypeOK, TaskRec
  <2>8. QED
    BY <2>5, <2>6, <2>7 DEF CatalogInv
<1>3. CASE CatalogClosed
  <2>1. /\ credential' = credential /\ unsaved' = unsaved /\ status' = status /\ owner' = owner
        /\ cache' = cache /\ request' = request /\ changes' = changes /\ faults' = faults
        /\ inflight' = inflight /\ task' = task /\ phase = "gathering" /\ phase' = "closed"
    BY <1>3 DEF CatalogClosed, catalogVars, store, catalog
  <2>2. \A i \in Task : RefreshOk(i)'
    BY <2>1 DEF CatalogInv, RefreshOk, Running
  <2>3. \A q \in Provider \ unsaved' : Current(q)'
    BY <2>1 DEF Current, CatalogInv
  <2>4. CatalogTypeOK'
    BY <2>1 DEF CatalogInv, CatalogTypeOK
  <2>5. QED
    BY <2>2, <2>3, <2>4 DEF CatalogInv
<1>4. QED
  BY <1>1, <1>2, <1>3

(* Nothing is configured, shown or in flight at first. *)
LEMMA InitCatalog == CatalogInit => CatalogInv
<1> SUFFICES ASSUME CatalogInit PROVE CatalogInv
  OBVIOUS
<1>1. CatalogTypeOK
  BY CatalogBounds DEF CatalogInit, CatalogTypeOK, Idle, Unstarted, New, NoTask
<1>2. QED
  BY <1>1 DEF CatalogInit, CatalogInv, RefreshOk, Running, Current, Unstarted
-----------------------------------------------------------------------------
(* A pool without its i-th client and with c at its end. *)
LEMMA RenewedPool ==
    ASSUME pool \in Seq(Turn), IsInjective(pool), NEW i \in DOMAIN pool, NEW c \in Turn,
           c = pool[i] \/ c \notin ToSet(pool)
    PROVE  /\ Renewed(i, c) \in Seq(Turn) /\ IsInjective(Renewed(i, c))
           /\ Len(Renewed(i, c)) = Len(pool)
           /\ ToSet(Renewed(i, c)) = (ToSet(pool) \ {pool[i]}) \cup {c}
<1> DEFINE n == Len(pool)
           q == Renewed(i, c)
<1>1. n \in Nat /\ DOMAIN pool = 1..n /\ i \in 1..n /\ \A j \in 1..n : pool[j] \in Turn
  OBVIOUS
<1>2. DOMAIN q = 1..n
      /\ \A j \in 1..n : q[j] = IF j < i THEN pool[j] ELSE IF j < n THEN pool[j + 1] ELSE c
  BY <1>1 DEF Renewed
<1>3. q \in [1..n -> Turn]
  <2>1. \A j \in 1..n : q[j] \in Turn
    BY <1>1, <1>2
  <2>2. q = [j \in 1..n |-> q[j]]
    BY <1>1 DEF Renewed
  <2> HIDE DEF q
  <2>3. QED
    BY <2>1, <2>2
<1> HIDE DEF q
<1>4. q \in Seq(Turn) /\ Len(q) = n
  <2>1. q \in Seq(Turn)
    BY <1>1, <1>3, SeqDef
  <2>2. DOMAIN q = 1..Len(q) /\ Len(q) \in Nat
    BY <2>1, LenProperties
  <2>3. QED
    BY <1>1, <1>2, <2>1, <2>2
<1>5. IsInjective(q)
  <2> SUFFICES ASSUME NEW a \in 1..n, NEW b \in 1..n, q[a] = q[b] PROVE a = b
    BY <1>2 DEF IsInjective
  <2>1. \A u, v \in 1..n : pool[u] = pool[v] => u = v
    BY <1>1 DEF IsInjective
  <2>2. \A u \in 1..n : pool[u] = c => u = i
    BY <1>1, <2>1 DEF ToSet
  <2>3. QED
    BY <1>1, <1>2, <2>1, <2>2
<1>6. ToSet(q) = (ToSet(pool) \ {pool[i]}) \cup {c}
  <2>1. \A u, v \in 1..n : pool[u] = pool[v] => u = v
    BY <1>1 DEF IsInjective
  <2>2. ASSUME NEW j \in 1..n PROVE q[j] \in (ToSet(pool) \ {pool[i]}) \cup {c}
    BY <1>1, <1>2, <2>1 DEF ToSet
  <2>3. ASSUME NEW j \in 1..n, j # i PROVE \E a \in 1..n : q[a] = pool[j]
    <3>1. CASE j < i
      BY <1>1, <1>2, <3>1
    <3>2. CASE j > i
      <4>1. j - 1 \in 1..n /\ ~(j - 1 < i) /\ j - 1 < n /\ (j - 1) + 1 = j
        BY <1>1, <3>2
      <4>2. q[j - 1] = pool[j]
        BY <1>2, <4>1
      <4>3. QED
        BY <4>1, <4>2
    <3>3. QED
      BY <1>1, <2>3, <3>1, <3>2
  <2>4. q[n] = c /\ n \in 1..n
    BY <1>1, <1>2
  <2>5. ToSet(q) = {q[a] : a \in 1..n} /\ ToSet(pool) = {pool[a] : a \in 1..n}
    BY <1>1, <1>2 DEF ToSet
  <2>6. QED
    BY <1>1, <2>2, <2>3, <2>4, <2>5
<1>7. QED
  BY <1>4, <1>5, <1>6 DEF q

(* A pool with one more client. *)
LEMMA GrownPool ==
    ASSUME pool \in Seq(Turn), IsInjective(pool), NEW c \in Turn, c \notin ToSet(pool)
    PROVE  /\ Append(pool, c) \in Seq(Turn) /\ IsInjective(Append(pool, c))
           /\ Len(Append(pool, c)) = Len(pool) + 1
           /\ ToSet(Append(pool, c)) = ToSet(pool) \cup {c}
<1> DEFINE n == Len(pool)
           q == Append(pool, c)
<1>1. n \in Nat /\ DOMAIN pool = 1..n
  OBVIOUS
<1>2. q \in Seq(Turn) /\ Len(q) = n + 1 /\ DOMAIN q = 1..(n + 1)
      /\ (\A j \in 1..n : q[j] = pool[j]) /\ q[n + 1] = c
  BY <1>1
<1> HIDE DEF q
<1>3. IsInjective(q)
  BY <1>1, <1>2 DEF IsInjective, ToSet
<1>4. ToSet(q) = ToSet(pool) \cup {c}
  <2>1. ToSet(q) = {q[a] : a \in 1..(n + 1)} /\ ToSet(pool) = {pool[a] : a \in 1..n}
    BY <1>1, <1>2 DEF ToSet
  <2>2. \A a \in 1..(n + 1) : a \in 1..n \/ a = n + 1
    BY <1>1
  <2>3. \A a \in 1..n : a \in 1..(n + 1)
    BY <1>1
  <2>4. QED
    BY <1>1, <1>2, <2>1, <2>2, <2>3
<1>5. QED
  BY <1>2, <1>3, <1>4 DEF q
-----------------------------------------------------------------------------
(* The pool has exactly the open clients; a client counts at least the Turns    *)
(* that lease it, so that one without leases may be closed.                   *)
Holders(a, c) == {t \in Turn : a[t].pc = "leased" /\ a[t].client = c}
Used(a) == {t \in Turn : a[t].pc # "new"}

ClientRec == [state : {"none", "open", "closing", "closed"},
              provider : Provider \cup {None}, key : Key \cup {None},
              leases : 0..Cardinality(Turn)]
AdapterRec == [pc : {"new", "leased", "refused", "closed", "leaked"},
               client : Turn \cup {None}]

ClientInv ==
    /\ pool \in Seq(Turn) /\ IsInjective(pool) /\ Len(pool) <= MaxClients
    /\ client \in [Turn -> ClientRec] /\ adapter \in [Turn -> AdapterRec]
    /\ \A c \in Turn : /\ client[c].state = "open" <=> c \in ToSet(pool)
                       /\ client[c].leases <= Cardinality(Used(adapter))
                       /\ c \in ToSet(pool) => Cardinality(Holders(adapter, c)) <= client[c].leases
    /\ \A t \in Turn : /\ adapter[t].pc = "new" => client[t] = NoClient
                       /\ adapter[t].pc = "leased" => adapter[t].client \in ToSet(pool)
    /\ phase # "open" => pool = <<>>
    /\ phase \in {"catalog", "gathering", "closed"} => \A c \in Turn : client[c].state # "closing"

(* Sets of Turns are finite, so that they can be counted. *)
LEMMA Counted ==
    ASSUME NEW S \in SUBSET Turn
    PROVE  /\ IsFiniteSet(S) /\ Cardinality(S) \in 0..Cardinality(Turn)
           /\ Cardinality(Turn) \in Nat
           /\ \A T \in SUBSET S : Cardinality(T) <= Cardinality(S)
           /\ \A t : t \notin S => Cardinality(S \cup {t}) = Cardinality(S) + 1
           /\ \A t : t \in S => Cardinality(S \ {t}) = Cardinality(S) - 1
           /\ Cardinality(S) = 0 => S = {}
<1>1. IsFiniteSet(S) /\ IsFiniteSet(Turn)
  BY ClientAssumption, FS_Subset
<1>2. Cardinality(S) \in Nat /\ Cardinality(Turn) \in Nat /\ Cardinality(S) <= Cardinality(Turn)
  BY <1>1, FS_CardinalityType, FS_Subset
<1>3. \A T \in SUBSET S : Cardinality(T) <= Cardinality(S)
  BY <1>1, FS_Subset
<1>4. \A t : t \notin S => Cardinality(S \cup {t}) = Cardinality(S) + 1
  BY <1>1, FS_AddElement
<1>5. \A t : t \in S => Cardinality(S \ {t}) = Cardinality(S) - 1
  BY <1>1, FS_RemoveElement
<1>6. Cardinality(S) = 0 => S = {}
  BY <1>1, FS_EmptySet
<1>7. QED
  BY <1>1, <1>2, <1>3, <1>4, <1>5, <1>6

(* The invariant is about these variables and the phase only. *)
LEMMA ClientsStay ==
    ASSUME ClientInv, UNCHANGED clientVars,
           \/ phase' = phase
           \/ phase \in {"catalog", "gathering"} /\ phase' \in {"gathering", "closed"}
    PROVE  ClientInv'
BY DEF ClientInv, clientVars

(* Turn t, whose adapter is new, leases client c of a pool that keeps every    *)
(* client somebody leases.                                                   *)
LEMMA LeaseInv ==
    ASSUME ClientInv, phase = "open", phase' = phase, NEW t \in Turn, adapter[t].pc = "new",
           NEW c \in Turn, Take(t, c),
           pool' \in Seq(Turn), IsInjective(pool'), Len(pool') <= MaxClients,
           c \in ToSet(pool'), \A b \in Turn : Holders(adapter, b) # {} => b \in ToSet(pool'),
           client' \in [Turn -> [state : {"none", "open", "closing", "closed"},
                                 provider : Provider \cup {None}, key : Key \cup {None},
                                 leases : Nat]],
           \A b \in Turn : client'[b].state = "open" <=> b \in ToSet(pool'),
           \A b \in Turn : b # c => client'[b].leases = client[b].leases,
           \A b \in Turn : client[b] = NoClient /\ b # t => client'[b] = NoClient,
           client'[c].leases = client[c].leases + 1
    PROVE  ClientInv'
<1>1. adapter'[t].pc = "leased" /\ adapter'[t].client = c
      /\ (\A b \in Turn : b # t => adapter'[b] = adapter[b])
      /\ adapter' \in [Turn -> AdapterRec]
  BY DEF Take, ClientInv, AdapterRec
<1>2. Used(adapter') = Used(adapter) \cup {t} /\ t \notin Used(adapter)
  BY <1>1 DEF Used
<1>3. Cardinality(Used(adapter')) = Cardinality(Used(adapter)) + 1
      /\ Cardinality(Used(adapter)) \in Nat
      /\ Cardinality(Used(adapter')) \in 0..Cardinality(Turn) /\ Cardinality(Turn) \in Nat
  <2>1. Used(adapter) \in SUBSET Turn /\ Used(adapter') \in SUBSET Turn
    BY DEF Used
  <2>2. Cardinality(Used(adapter) \cup {t}) = Cardinality(Used(adapter)) + 1
    BY <1>2, <2>1, Counted
  <2>3. Cardinality(Used(adapter)) \in 0..Cardinality(Turn)
        /\ Cardinality(Used(adapter')) \in 0..Cardinality(Turn) /\ Cardinality(Turn) \in Nat
    BY <2>1, Counted
  <2>4. QED
    BY <1>2, <2>2, <2>3
<1>4. Holders(adapter', c) = Holders(adapter, c) \cup {t} /\ t \notin Holders(adapter, c)
      /\ (\A b \in Turn : b # c => Holders(adapter', b) = Holders(adapter, b))
  <2>1. t \notin Holders(adapter, c)
    BY DEF Holders
  <2>2. ASSUME NEW b \in Turn, NEW u \in Turn
        PROVE  u \in Holders(adapter', b) <=> u \in Holders(adapter, b) \/ (u = t /\ b = c)
    BY <1>1 DEF Holders
  <2>3. \A b \in Turn : Holders(adapter, b) \subseteq Turn /\ Holders(adapter', b) \subseteq Turn
    BY DEF Holders
  <2>4. Holders(adapter', c) = Holders(adapter, c) \cup {t}
    BY <2>2, <2>3
  <2>5. ASSUME NEW b \in Turn, b # c PROVE Holders(adapter', b) = Holders(adapter, b)
    BY <2>2, <2>3, <2>5
  <2>6. QED
    BY <2>1, <2>4, <2>5
<1>5. \A b \in Turn : Cardinality(Holders(adapter, b)) \in Nat
  <2>1. \A b \in Turn : Holders(adapter, b) \in SUBSET Turn
    BY DEF Holders
  <2>2. \A b \in Turn : Cardinality(Holders(adapter, b)) \in 0..Cardinality(Turn)
    BY <2>1, Counted
  <2>3. QED
    BY <1>3, <2>2
<1>6. Cardinality(Holders(adapter', c)) = Cardinality(Holders(adapter, c)) + 1
  <2>1. Holders(adapter, c) \in SUBSET Turn
    BY DEF Holders
  <2>2. Cardinality(Holders(adapter, c) \cup {t}) = Cardinality(Holders(adapter, c)) + 1
    BY <1>4, <2>1, Counted
  <2>3. QED
    BY <1>4, <2>2
<1>7. \A b \in Turn : client[b].leases \in Nat /\ client[b].leases <= Cardinality(Used(adapter))
  BY <1>3 DEF ClientInv, ClientRec
<1>8. \A b \in Turn : client'[b].leases \in Nat
                      /\ client'[b].leases <= Cardinality(Used(adapter'))
  <2>1. ASSUME NEW b \in Turn
        PROVE  client'[b].leases \in Nat /\ client'[b].leases <= client[b].leases + 1
    <3>1. client'[b].leases = client[b].leases \/ client'[b].leases = client[b].leases + 1
      BY b = c \/ b # c
    <3>2. client[b].leases \in Nat
      BY <1>7
    <3>3. QED
      BY <3>1, <3>2
  <2>2. ASSUME NEW b \in Turn PROVE client'[b].leases <= Cardinality(Used(adapter'))
    BY <1>3, <1>7, <2>1, SMTT(30)
  <2>3. QED
    BY <2>1, <2>2
<1>9. client' \in [Turn -> ClientRec]
  <2>1. \A b \in Turn : client'[b].leases \in 0..Cardinality(Turn)
    BY <1>3, <1>8
  <2>2. \A b \in Turn : client'[b] \in ClientRec
    BY <2>1 DEF ClientRec
  <2>3. QED
    BY <2>2
<1>10. ASSUME NEW b \in Turn, b \in ToSet(pool')
       PROVE  Cardinality(Holders(adapter', b)) <= client'[b].leases
  <2>1. Cardinality(Holders(adapter, b)) <= client[b].leases
        \/ Cardinality(Holders(adapter, b)) = 0
    <3>1. Holders(adapter, b) # {} => b \in ToSet(pool)
      BY DEF ClientInv, Holders
    <3>2. Cardinality({}) = 0
      BY FS_EmptySet
    <3>3. b \in ToSet(pool) => Cardinality(Holders(adapter, b)) <= client[b].leases
      BY DEF ClientInv
    <3>4. QED
      BY <3>1, <3>2, <3>3
  <2>2. CASE b = c
    BY <1>5, <1>6, <1>7, <2>1, <2>2
  <2>3. CASE b # c
    <3>1. Holders(adapter', b) = Holders(adapter, b) /\ client'[b].leases = client[b].leases
      BY <1>4, <2>3
    <3>2. QED
      BY <1>7, <2>1, <3>1
  <2>4. QED
    BY <2>2, <2>3
<1>11. ASSUME NEW b \in Turn
       PROVE  /\ adapter'[b].pc = "new" => client'[b] = NoClient
              /\ adapter'[b].pc = "leased" => adapter'[b].client \in ToSet(pool')
  <2>1. CASE b = t
    BY <1>1, <2>1
  <2>2. CASE b # t
    <3>1. adapter[b].pc = "leased"
            => adapter[b].client \in Turn /\ b \in Holders(adapter, adapter[b].client)
      <4>1. adapter[b].pc = "leased" => adapter[b].client \in ToSet(pool)
        BY DEF ClientInv
      <4>2. ToSet(pool) \subseteq Turn
        BY DEF ClientInv, ToSet
      <4>3. QED
        BY <4>1, <4>2 DEF Holders
    <3>2. adapter[b].pc = "leased" => adapter[b].client \in ToSet(pool')
      BY <3>1
    <3>3. adapter[b].pc = "new" => client[b] = NoClient
      BY DEF ClientInv
    <3>4. QED
      BY <1>1, <2>2, <3>2, <3>3
  <2>3. QED
    BY <2>1, <2>2
<1>12. QED
  BY <1>1, <1>8, <1>9, <1>10, <1>11 DEF ClientInv, Holders, Used

(* Turn t, whose adapter is not to lease any more, gives back at most the       *)
(* lease it held.                                                             *)
LEMMA DropInv ==
    ASSUME ClientInv, phase' = phase, pool' = pool, NEW t \in Turn, NEW a \in AdapterRec,
           a.pc \notin {"new", "leased"}, adapter' = [adapter EXCEPT ![t] = a],
           client' \in [Turn -> ClientRec],
           \A b \in Turn : /\ client'[b].state = client[b].state
                           /\ client[b] = NoClient => client'[b] = NoClient
                           /\ \/ client'[b].leases = client[b].leases
                              \/ /\ t \in Holders(adapter, b)
                                 /\ client'[b].leases = client[b].leases - 1
    PROVE  ClientInv'
<1>1. adapter'[t] = a /\ (\A b \in Turn : b # t => adapter'[b] = adapter[b])
      /\ adapter' \in [Turn -> AdapterRec]
  BY DEF ClientInv
<1>2. Used(adapter) \subseteq Used(adapter') /\ Used(adapter') \in SUBSET Turn
  BY <1>1 DEF Used
<1>3. Cardinality(Used(adapter)) <= Cardinality(Used(adapter'))
      /\ Cardinality(Used(adapter)) \in Nat /\ Cardinality(Used(adapter')) \in Nat
  <2>1. Used(adapter) \in SUBSET Turn /\ Used(adapter) \in SUBSET Used(adapter')
    BY <1>2
  <2>2. Cardinality(Turn) \in Nat /\ Cardinality(Used(adapter)) \in 0..Cardinality(Turn)
        /\ Cardinality(Used(adapter')) \in 0..Cardinality(Turn)
    BY <1>2, <2>1, Counted
  <2>3. Cardinality(Used(adapter)) <= Cardinality(Used(adapter'))
    BY <1>2, <2>1, Counted
  <2>4. QED
    BY <2>2, <2>3
<1>4. ASSUME NEW b \in Turn
      PROVE  /\ client'[b].leases <= Cardinality(Used(adapter'))
             /\ b \in ToSet(pool) => Cardinality(Holders(adapter', b)) <= client'[b].leases
  <2>1. client[b].leases \in Nat /\ client[b].leases <= Cardinality(Used(adapter))
        /\ (b \in ToSet(pool) => Cardinality(Holders(adapter, b)) <= client[b].leases)
    <3>1. Cardinality(Turn) \in Nat
      BY ClientAssumption, FS_CardinalityType
    <3>2. QED
      BY <3>1 DEF ClientInv, ClientRec
  <2>2. Holders(adapter', b) = Holders(adapter, b) \ {t}
    BY <1>1 DEF Holders
  <2>3. Holders(adapter, b) \in SUBSET Turn /\ Holders(adapter, b) \ {t} \in SUBSET Holders(adapter, b)
    BY DEF Holders
  <2>4. Cardinality(Holders(adapter, b)) \in 0..Cardinality(Turn)
        /\ Cardinality(Holders(adapter', b)) \in 0..Cardinality(Turn)
        /\ Cardinality(Holders(adapter', b)) <= Cardinality(Holders(adapter, b))
    BY <2>2, <2>3, Counted
  <2>5. t \in Holders(adapter, b)
          => Cardinality(Holders(adapter', b)) = Cardinality(Holders(adapter, b)) - 1
    BY <2>2, <2>3, Counted
  <2>6. CASE client'[b].leases = client[b].leases
    BY <1>3, <2>1, <2>4, <2>6
  <2>7. CASE t \in Holders(adapter, b) /\ client'[b].leases = client[b].leases - 1
    BY <1>3, <2>1, <2>4, <2>5, <2>7
  <2>8. QED
    BY <2>6, <2>7
<1>5. ASSUME NEW b \in Turn
      PROVE  /\ adapter'[b].pc = "new" => client'[b] = NoClient
             /\ adapter'[b].pc = "leased" => adapter'[b].client \in ToSet(pool)
  BY <1>1 DEF ClientInv
<1>6. QED
  BY <1>1, <1>4, <1>5 DEF ClientInv, Holders, Used

(* Turn t, whose adapter is new, leases a client of its own; of the others only *)
(* client d, which nobody leases, leaves the pool.                            *)
LEMMA NewLeaseInv ==
    ASSUME ClientInv, phase = "open", phase' = phase, NEW t \in Turn, adapter[t].pc = "new",
           Take(t, t), NEW p \in Provider, NEW k \in Key \cup {None}, NEW D \in SUBSET ToSet(pool),
           \A d \in D : Holders(adapter, d) = {},
           pool' \in Seq(Turn), IsInjective(pool'), Len(pool') <= MaxClients,
           ToSet(pool') = (ToSet(pool) \ D) \cup {t},
           client' \in [Turn -> ClientRec], client'[t] = Create(p, k),
           \A b \in D : client'[b].state = "closing" /\ client'[b].leases = client[b].leases,
           \A b \in Turn : b # t /\ b \notin D => client'[b] = client[b]
    PROVE  ClientInv'
<1>1. client[t] = NoClient /\ client[t].state = "none" /\ client[t].leases = 0
  BY DEF ClientInv, NoClient
<1>2. \A b \in Turn : client[b].state = "open" <=> b \in ToSet(pool)
  BY DEF ClientInv
<1>3. t \notin ToSet(pool) /\ t \in ToSet(pool')
  BY <1>1, <1>2
<1>4. \A b \in Turn : Holders(adapter, b) # {} => b \in ToSet(pool')
  <2>1. \A b \in Turn : Holders(adapter, b) # {} => b \in ToSet(pool)
    BY DEF ClientInv, Holders
  <2>2. QED
    BY <2>1
<1>5. client'[t].state = "open" /\ client'[t].leases = client[t].leases + 1
  BY <1>1 DEF Create
<1>6. ASSUME NEW b \in Turn
      PROVE  /\ client'[b].state = "open" <=> b \in ToSet(pool')
             /\ b # t => client'[b].leases = client[b].leases
             /\ client[b] = NoClient /\ b # t => client'[b] = NoClient
  <2>1. CASE b = t
    BY <1>3, <1>5, <2>1
  <2>2. CASE b # t /\ b \in D
    BY <1>2, <2>2 DEF NoClient
  <2>3. CASE b # t /\ b \notin D
    BY <1>2, <2>3
  <2>4. QED
    BY <2>1, <2>2, <2>3
<1>7. client' \in [Turn -> [state : {"none", "open", "closing", "closed"},
                            provider : Provider \cup {None}, key : Key \cup {None},
                            leases : Nat]]
  <2>1. Cardinality(Turn) \in Nat
    BY ClientAssumption, FS_CardinalityType
  <2>2. QED
    BY <2>1 DEF ClientRec
<1>8. \A b \in Turn : client'[b].state = "open" <=> b \in ToSet(pool')
  BY <1>6
<1>9. \A b \in Turn : b # t => client'[b].leases = client[b].leases
  BY <1>6
<1>10. \A b \in Turn : client[b] = NoClient /\ b # t => client'[b] = NoClient
  BY <1>6
<1>11. QED
  BY <1>3, <1>4, <1>5, <1>7, <1>8, <1>9, <1>10, LeaseInv, SMTT(30)

(* Resolving an adapter. *)
LEMMA ResolveInv ==
    ASSUME ClientInv, NEW t \in Turn, NEW p \in Provider, credential[p] \in Key \cup {None},
           Resolve(t, p)
    PROVE  ClientInv'
<1> DEFINE k == credential[p]
<1>1. phase = "open" /\ phase' = phase /\ adapter[t].pc = "new" /\ client[t] = NoClient
      /\ k \in Key \cup {None}
  BY DEF Resolve, ClientInv
<1>2. pool \in Seq(Turn) /\ IsInjective(pool) /\ Len(pool) <= MaxClients
      /\ client \in [Turn -> ClientRec] /\ Cardinality(Turn) \in Nat /\ Len(pool) \in Nat
      /\ MaxClients \in Nat
  BY ClientAssumption, FS_CardinalityType DEF ClientInv
<1>3. t \notin ToSet(pool) /\ client[t].leases = 0
  BY <1>1 DEF ClientInv, NoClient
<1>4. \A b \in Turn : Holders(adapter, b) # {} => b \in ToSet(pool)
  BY DEF ClientInv, Holders
<1>5. \A i \in DOMAIN pool : pool[i] \in ToSet(pool) /\ pool[i] \in Turn
  BY <1>2 DEF ToSet
<1>6. \A b \in Turn : b \in ToSet(pool) <=> client[b].state = "open"
  BY DEF ClientInv
<1> HIDE DEF k
<1>7. CASE Reuse(t, p, k)
  <2>1. PICK i \in DOMAIN pool : /\ pool' = Renewed(i, pool[i])
                                /\ client' = [client EXCEPT ![pool[i]].leases = @ + 1]
                                /\ Take(t, pool[i])
    BY <1>7 DEF Reuse, Matching
  <2> DEFINE c == pool[i]
  <2>2. c \in Turn /\ c \in ToSet(pool) /\ c # t
    BY <1>3, <1>5
  <2>3. pool' \in Seq(Turn) /\ IsInjective(pool') /\ Len(pool') = Len(pool)
        /\ ToSet(pool') = (ToSet(pool) \ {c}) \cup {c}
    BY <1>2, <2>1, <2>2, RenewedPool
  <2>4. ToSet(pool') = ToSet(pool)
    BY <2>2, <2>3
  <2> HIDE DEF c
  <2>5. client' = [client EXCEPT ![c] = [client[c] EXCEPT !.leases = client[c].leases + 1]]
    BY <2>1 DEF c
  <2>6. /\ client'[c].state = client[c].state /\ client'[c].leases = client[c].leases + 1
        /\ client'[c].provider = client[c].provider /\ client'[c].key = client[c].key
        /\ \A b \in Turn : b # c => client'[b] = client[b]
    BY <1>2, <2>2, <2>5 DEF ClientRec
  <2>7. client[c].leases \in Nat
    BY <1>2, <2>2 DEF ClientRec
  <2>8. client' \in [Turn -> [state : {"none", "open", "closing", "closed"},
                              provider : Provider \cup {None}, key : Key \cup {None},
                              leases : Nat]]
    <3> DEFINE R == [state : {"none", "open", "closing", "closed"},
                     provider : Provider \cup {None}, key : Key \cup {None}, leases : Nat]
    <3>1. [client[c] EXCEPT !.leases = client[c].leases + 1] \in R
      <4>1. client[c] \in R /\ client[c].leases + 1 \in Nat
        BY <1>2, <2>2, <2>7 DEF ClientRec
      <4>2. \A r \in R, n \in Nat : [r EXCEPT !.leases = n] \in R
        OBVIOUS
      <4> HIDE DEF R
      <4>3. QED
        BY <4>1, <4>2
    <3>2. client \in [Turn -> R]
      BY <1>2 DEF ClientRec
    <3> HIDE DEF R
    <3>3. client' \in [Turn -> R]
      BY <2>2, <2>5, <3>1, <3>2
    <3>4. QED
      BY <3>3 DEF R
  <2>9. client[c] # NoClient
    BY <1>6, <2>2 DEF NoClient
  <2>10. Take(t, c)
    BY <2>1 DEF c
  <2>11. \A b \in Turn : client'[b].state = "open" <=> b \in ToSet(pool')
    BY <1>6, <2>4, <2>6
  <2>12. \A b \in Turn : b # c => client'[b].leases = client[b].leases
    BY <2>6
  <2>13. \A b \in Turn : client[b] = NoClient /\ b # t => client'[b] = NoClient
    BY <2>6, <2>9
  <2>14. client'[c].leases = client[c].leases + 1 /\ Len(pool') <= MaxClients
    BY <1>2, <2>3, <2>6
  <2>15. QED
    BY <1>1, <1>4, <2>2, <2>3, <2>4, <2>8, <2>10, <2>11, <2>12, <2>13, <2>14, LeaseInv, ZenonT(30)
<1>8. Create(p, k) \in ClientRec
  <2>1. {t} \in SUBSET Turn /\ {t} \in SUBSET {t}
    OBVIOUS
  <2>2. Cardinality({t}) = 1
    BY FS_Singleton
  <2>3. 1 \in 0..Cardinality(Turn)
    BY <2>1, <2>2, Counted
  <2>4. QED
    BY <1>1, <2>3 DEF Create, ClientRec
<1>9. CASE Connect(t, p, k)
  <2>1. Len(pool) < MaxClients /\ pool' = Append(pool, t) /\ Take(t, t)
        /\ client' = [client EXCEPT ![t] = Create(p, k)]
    BY <1>9 DEF Connect
  <2>2. pool' \in Seq(Turn) /\ IsInjective(pool') /\ Len(pool') = Len(pool) + 1
        /\ ToSet(pool') = ToSet(pool) \cup {t}
    BY <1>2, <1>3, <2>1, GrownPool
  <2>3. Len(pool') <= MaxClients
    BY <1>2, <2>1, <2>2
  <2>4. client'[t] = Create(p, k) /\ client' \in [Turn -> ClientRec]
        /\ \A b \in Turn : b # t => client'[b] = client[b]
    BY <1>2, <1>8, <2>1
  <2> DEFINE D == {}
  <2>5. /\ D \in SUBSET ToSet(pool) /\ \A b \in D : Holders(adapter, b) = {}
        /\ ToSet(pool') = (ToSet(pool) \ D) \cup {t}
        /\ \A b \in D : client'[b].state = "closing" /\ client'[b].leases = client[b].leases
        /\ \A b \in Turn : b # t /\ b \notin D => client'[b] = client[b]
    BY <2>2, <2>4
  <2> HIDE DEF D
  <2>6. QED
    BY <1>1, <2>1, <2>2, <2>3, <2>4, <2>5, NewLeaseInv
<1>10. CASE Replace(t, p, k)
  <2>1. PICK i \in DOMAIN pool :
          /\ client[pool[i]].leases = 0
          /\ pool' = Renewed(i, t)
          /\ client' = [client EXCEPT ![pool[i]].state = "closing", ![t] = Create(p, k)]
    BY <1>10 DEF Replace, Unleased
  <2>2. Take(t, t)
    BY <1>10 DEF Replace
  <2> DEFINE d == pool[i]
  <2>3. d \in Turn /\ d \in ToSet(pool) /\ d # t /\ client[d].leases = 0
    BY <1>3, <1>5, <2>1
  <2>4. pool' \in Seq(Turn) /\ IsInjective(pool') /\ Len(pool') = Len(pool)
        /\ ToSet(pool') = (ToSet(pool) \ {d}) \cup {t}
    BY <1>2, <1>3, <2>1, RenewedPool
  <2>5. client' = [client EXCEPT ![d] = [client[d] EXCEPT !.state = "closing"],
                                 ![t] = Create(p, k)]
    BY <2>1
  <2> HIDE DEF d
  <2>6. Holders(adapter, d) = {}
    <3>1. Holders(adapter, d) \in SUBSET Turn
      BY DEF Holders
    <3>2. Cardinality(Holders(adapter, d)) <= 0
      BY <2>3 DEF ClientInv
    <3>3. Cardinality(Holders(adapter, d)) \in 0..Cardinality(Turn)
          /\ (Cardinality(Holders(adapter, d)) = 0 => Holders(adapter, d) = {})
      BY <3>1, Counted
    <3>4. QED
      BY <1>2, <3>2, <3>3
  <2>7. [client[d] EXCEPT !.state = "closing"] \in ClientRec
    BY <1>2, <2>3, SMTT(30) DEF ClientRec
  <2>8. client'[t] = Create(p, k) /\ client' \in [Turn -> ClientRec]
        /\ client'[d] = [client[d] EXCEPT !.state = "closing"]
        /\ \A b \in Turn : b \notin {d, t} => client'[b] = client[b]
    BY <1>2, <1>8, <2>3, <2>5, <2>7
  <2>9. client'[d].state = "closing" /\ client'[d].leases = client[d].leases
    BY <1>2, <2>3, <2>8 DEF ClientRec
  <2> DEFINE D == {d}
  <2>10. /\ D \in SUBSET ToSet(pool) /\ \A b \in D : Holders(adapter, b) = {}
         /\ ToSet(pool') = (ToSet(pool) \ D) \cup {t} /\ Len(pool') <= MaxClients
         /\ \A b \in D : client'[b].state = "closing" /\ client'[b].leases = client[b].leases
         /\ \A b \in Turn : b # t /\ b \notin D => client'[b] = client[b]
    BY <1>2, <2>3, <2>4, <2>6, <2>8, <2>9
  <2>11. /\ pool' \in Seq(Turn) /\ IsInjective(pool')
         /\ client'[t] = Create(p, k) /\ client' \in [Turn -> ClientRec]
    BY <2>4, <2>8
  <2> HIDE DEF D
  <2>12. QED
    BY <1>1, <2>2, <2>10, <2>11, NewLeaseInv, ZenonT(30)
<1>11. CASE RefuseFull(t, p, k)
  <2>1. pool' = pool /\ client' = client
        /\ adapter' = [adapter EXCEPT ![t] = [adapter[t] EXCEPT !.pc = "refused"]]
    BY <1>11 DEF RefuseFull
  <2> DEFINE a == [adapter[t] EXCEPT !.pc = "refused"]
  <2>2. a \in AdapterRec /\ a.pc = "refused"
    BY DEF ClientInv, AdapterRec
  <2> HIDE DEF a
  <2>3. adapter' = [adapter EXCEPT ![t] = a]
    BY <2>1 DEF a
  <2>4. QED
    BY <1>1, <1>2, <2>1, <2>2, <2>3, DropInv
<1>12. QED
  BY <1>7, <1>9, <1>10, <1>11 DEF Resolve, k

(* An adapter gives its lease back at the end of its Turn, or never will. *)
LEMMA ReleaseInv ==
    ASSUME ClientInv, NEW t \in Turn, Release(t) \/ Leak(t)
    PROVE  ClientInv'
<1> DEFINE c == adapter[t].client
<1>1. phase' = phase /\ pool' = pool /\ c \in Turn /\ c \in ToSet(pool)
      /\ t \in Holders(adapter, c) /\ client \in [Turn -> ClientRec]
  <2>1. adapter[t].pc = "leased"
    BY DEF Release, Leak
  <2>2. c \in ToSet(pool) /\ ToSet(pool) \subseteq Turn
    BY <2>1 DEF ClientInv, ToSet
  <2>3. QED
    BY <2>1, <2>2 DEF Release, Leak, Holders, ClientInv
<1> HIDE DEF c
<1>2. CASE Release(t)
  <2> DEFINE a == [pc |-> "closed", client |-> None]
  <2>1. a \in AdapterRec /\ a.pc = "closed" /\ adapter' = [adapter EXCEPT ![t] = a]
    BY <1>2 DEF Release, AdapterRec
  <2> HIDE DEF a
  <2>2. CASE client[c].leases > 0
    <3>1. client' = [client EXCEPT ![c] = [client[c] EXCEPT !.leases = client[c].leases - 1]]
      BY <1>1, <1>2, <2>2 DEF Release, c
    <3>2. client[c].leases \in 0..Cardinality(Turn) /\ Cardinality(Turn) \in Nat /\ client[c] \in ClientRec
      BY <1>1, ClientAssumption, FS_CardinalityType DEF ClientRec
    <3>3. client[c].leases - 1 \in 0..Cardinality(Turn)
      BY <2>2, <3>2
    <3>4. \A r \in ClientRec, n \in 0..Cardinality(Turn) : [r EXCEPT !.leases = n] \in ClientRec
      BY DEF ClientRec
    <3>5. client' \in [Turn -> ClientRec]
      BY <1>1, <3>1, <3>2, <3>3, <3>4
    <3>6. /\ client'[c].state = client[c].state /\ client'[c].leases = client[c].leases - 1
          /\ \A b \in Turn : b # c => client'[b] = client[b]
      BY <1>1, <3>1, <3>2 DEF ClientRec
    <3>7. client[c] # NoClient
      BY <1>1 DEF ClientInv, NoClient
    <3>8. ASSUME NEW b \in Turn
          PROVE  /\ client'[b].state = client[b].state
                 /\ client[b] = NoClient => client'[b] = NoClient
                 /\ \/ client'[b].leases = client[b].leases
                    \/ /\ t \in Holders(adapter, b)
                       /\ client'[b].leases = client[b].leases - 1
      BY <1>1, <3>6, <3>7
    <3>9. QED
      BY <1>1, <2>1, <3>5, <3>8, DropInv
  <2>3. CASE ~(client[c].leases > 0)
    <3>1. client' = client
      BY <1>2, <2>3 DEF Release, c
    <3>2. QED
      BY <1>1, <2>1, <3>1, DropInv
  <2>4. QED
    BY <2>2, <2>3
<1>3. CASE Leak(t)
  <2> DEFINE a == [pc |-> "leaked", client |-> None]
  <2>1. a \in AdapterRec /\ a.pc = "leaked" /\ adapter' = [adapter EXCEPT ![t] = a]
        /\ client' = client
    BY <1>3 DEF Leak, AdapterRec
  <2> HIDE DEF a
  <2>2. QED
    BY <1>1, <2>1, DropInv
<1>4. QED
  BY <1>2, <1>3

(* The background close of a client ends. *)
LEMMA CloseInv ==
    ASSUME ClientInv, NEW c \in Turn, CloseEnds(c)
    PROVE  ClientInv'
<1> DEFINE new == [NoClient EXCEPT !.state = "closed"]
<1>1. client[c].state = "closing" /\ client' = [client EXCEPT ![c] = new]
      /\ phase' = phase /\ pool' = pool /\ adapter' = adapter
  BY DEF CloseEnds
<1>2. new.state = "closed" /\ new.leases = 0 /\ new \in ClientRec
  <2>1. {} \in SUBSET Turn
    OBVIOUS
  <2>2. 0 \in 0..Cardinality(Turn)
    BY ClientAssumption, FS_CardinalityType
  <2>3. QED
    BY <2>2 DEF NoClient, ClientRec
<1> HIDE DEF new
<1>3. client'[c] = new /\ (\A b \in Turn : b # c => client'[b] = client[b])
      /\ client' \in [Turn -> ClientRec]
  BY <1>1, <1>2 DEF ClientInv
<1>4. c \notin ToSet(pool) /\ client[c] # NoClient
  BY <1>1 DEF ClientInv, NoClient
<1>5. Cardinality(Used(adapter)) \in Nat
  <2>1. Used(adapter) \in SUBSET Turn
    BY DEF Used
  <2>2. Cardinality(Used(adapter)) \in 0..Cardinality(Turn) /\ Cardinality(Turn) \in Nat
    BY <2>1, Counted
  <2>3. QED
    BY <2>2
<1>6. ASSUME NEW b \in Turn
      PROVE  /\ client'[b].state = "open" <=> b \in ToSet(pool)
             /\ client'[b].leases <= Cardinality(Used(adapter))
             /\ b \in ToSet(pool) => Cardinality(Holders(adapter, b)) <= client'[b].leases
             /\ adapter[b].pc = "new" => client'[b] = NoClient
             /\ client'[b].state = "closing" => client[b].state = "closing"
  <2>1. CASE b = c
    BY <1>2, <1>3, <1>4, <1>5, <2>1 DEF ClientInv
  <2>2. CASE b # c
    BY <1>3, <2>2 DEF ClientInv
  <2>3. QED
    BY <2>1, <2>2
<1>7. QED
  BY <1>1, <1>3, <1>6, ZenonT(30) DEF ClientInv, Holders, Used

(* The pool closes its clients, all of them idle. *)
LEMMA ShutdownInv ==
    ASSUME ClientInv, Shutdown
    PROVE  ClientInv'
<1>1. phase = "open" /\ phase' = "clients" /\ pool' = <<>> /\ adapter' = adapter
      /\ (\A t \in Turn : adapter[t].pc # "leased")
      /\ client' = [c \in Turn |-> IF c \in ToSet(pool)
                                     THEN [client[c] EXCEPT !.state = "closing"] ELSE client[c]]
  BY DEF Shutdown
<1>2. pool' \in Seq(Turn) /\ IsInjective(pool') /\ Len(pool') <= MaxClients /\ ToSet(pool') = {}
  <2>1. <<>> \in Seq(Turn)
    OBVIOUS
  <2>2. DOMAIN pool' = {} /\ Len(pool') = 0
    BY <1>1
  <2>3. QED
    BY <1>1, <2>1, <2>2, ClientAssumption DEF IsInjective, ToSet
<1>3. ASSUME NEW c \in Turn
      PROVE  /\ client'[c] \in ClientRec /\ client'[c].leases = client[c].leases
             /\ client'[c].state # "open"
             /\ client[c] = NoClient => client'[c] = NoClient
  <2>1. client[c] \in ClientRec /\ (client[c].state = "open" <=> c \in ToSet(pool))
    BY DEF ClientInv
  <2>2. CASE c \in ToSet(pool)
    <3>1. client'[c] = [client[c] EXCEPT !.state = "closing"]
      BY <1>1, <2>2
    <3>2. QED
      BY <2>1, <2>2, <3>1 DEF ClientRec, NoClient
  <2>3. CASE c \notin ToSet(pool)
    BY <1>1, <2>1, <2>3
  <2>4. QED
    BY <2>2, <2>3
<1>4. client' \in [Turn -> ClientRec]
  BY <1>1, <1>3
<1>5. QED
  BY <1>1, <1>2, <1>3, <1>4 DEF ClientInv, Holders, Used
-----------------------------------------------------------------------------
(* What the clients' steps leave to the catalog: a lost lease counts as a       *)
(* fault, and the shutdown closes the catalog only after the clients.         *)
LEMMA CatalogStays ==
    ASSUME CatalogInv, UNCHANGED <<store, catalog, request, changes>>, faults' \in 0..MaxFaults,
           \/ phase' = phase
           \/ phase' \in {"clients", "catalog"} /\ phase \in {"open", "clients"}
    PROVE  CatalogInv'
<1>1. /\ credential' = credential /\ unsaved' = unsaved /\ status' = status /\ owner' = owner
      /\ cache' = cache /\ request' = request /\ changes' = changes
      /\ inflight' = inflight /\ task' = task
  BY DEF store, catalog
<1>2. \A i \in Task : RefreshOk(i)'
  BY <1>1, SameRefreshes
<1>3. \A q \in Provider \ unsaved' : Current(q)'
  BY <1>1 DEF Current, CatalogInv
<1>4. CatalogTypeOK'
  BY <1>1 DEF CatalogInv, CatalogTypeOK
<1>5. QED
  BY <1>2, <1>3, <1>4 DEF CatalogInv

Inv == CatalogInv /\ ClientInv

(* At first there is neither a client nor a lease. *)
LEMMA InitClients == Init => Inv
<1> SUFFICES ASSUME Init PROVE Inv
  OBVIOUS
<1>1. CatalogInv /\ phase = "open"
  BY InitCatalog DEF Init, CatalogInit
<1>2. pool = <<>> /\ client = [c \in Turn |-> NoClient] /\ adapter = [t \in Turn |-> NoAdapter]
  BY DEF Init
<1>3. pool \in Seq(Turn) /\ IsInjective(pool) /\ Len(pool) <= MaxClients /\ ToSet(pool) = {}
  <2>1. <<>> \in Seq(Turn)
    OBVIOUS
  <2>2. DOMAIN pool = {} /\ Len(pool) = 0
    BY <1>2
  <2>3. QED
    BY <1>2, <2>1, <2>2, ClientAssumption DEF IsInjective, ToSet
<1>4. NoClient \in ClientRec /\ NoClient.state = "none" /\ NoClient.leases = 0
      /\ NoAdapter \in AdapterRec /\ NoAdapter.pc = "new"
  <2>1. 0 \in 0..Cardinality(Turn)
    BY ClientAssumption, FS_CardinalityType
  <2>2. QED
    BY <2>1 DEF NoClient, ClientRec, NoAdapter, AdapterRec
<1>5. Cardinality(Used(adapter)) \in Nat
  <2>1. Used(adapter) \in SUBSET Turn
    BY DEF Used
  <2>2. Cardinality(Used(adapter)) \in 0..Cardinality(Turn) /\ Cardinality(Turn) \in Nat
    BY <2>1, Counted
  <2>3. QED
    BY <2>2
<1>6. ClientInv
  BY <1>1, <1>2, <1>3, <1>4, <1>5 DEF ClientInv
<1>7. QED
  BY <1>1, <1>6 DEF Inv

(* Every step keeps both invariants. *)
LEMMA NextClients ==
    ASSUME Inv, [Next]_vars
    PROVE  Inv'
<1> USE DEF Inv
<1>1. CASE CatalogStep /\ UNCHANGED <<phase, clientVars>>
  <2>1. phase' = phase /\ UNCHANGED clientVars
    BY <1>1
  <2>2. ClientInv'
    BY <2>1, ClientsStay
  <2>3. QED
    BY <1>1, <2>1, <2>2, CatalogKept
<1>2. CASE (CatalogCloses \/ CatalogClosed) /\ UNCHANGED clientVars
  <2>1. phase \in {"catalog", "gathering"} /\ phase' \in {"gathering", "closed"}
    BY <1>2 DEF CatalogCloses, CatalogClosed
  <2>2. ClientInv'
    BY <1>2, <2>1, ClientsStay
  <2>3. QED
    BY <1>2, <2>2, CatalogKept
<1>3. ASSUME NEW t \in Turn, NEW p \in Provider, Resolve(t, p) PROVE Inv'
  <2>1. credential[p] \in Key \cup {None} /\ faults \in 0..MaxFaults
    BY DEF CatalogInv, CatalogTypeOK
  <2>2. UNCHANGED <<store, catalog, request, changes>> /\ faults' = faults /\ phase' = phase
    BY <1>3 DEF Resolve, catalogVars
  <2>3. QED
    BY <1>3, <2>1, <2>2, CatalogStays, ResolveInv
<1>4. ASSUME NEW t \in Turn, Release(t) \/ Leak(t) PROVE Inv'
  <2>1. faults \in 0..MaxFaults /\ MaxFaults \in Nat
    BY CatalogBounds DEF CatalogInv, CatalogTypeOK
  <2>2. UNCHANGED <<store, catalog, request, changes>> /\ faults' \in 0..MaxFaults /\ phase' = phase
    BY <1>4, <2>1 DEF Release, Leak, catalogVars
  <2>3. QED
    BY <1>4, <2>2, CatalogStays, ReleaseInv
<1>5. ASSUME NEW c \in Turn, CloseEnds(c) PROVE Inv'
  <2>1. UNCHANGED <<store, catalog, request, changes>> /\ faults' \in 0..MaxFaults /\ phase' = phase
    BY <1>5 DEF CloseEnds, catalogVars, CatalogInv, CatalogTypeOK
  <2>2. QED
    BY <1>5, <2>1, CatalogStays, CloseInv
<1>6. CASE Shutdown
  <2>1. UNCHANGED <<store, catalog, request, changes>> /\ faults' \in 0..MaxFaults
        /\ phase = "open" /\ phase' = "clients"
    BY <1>6 DEF Shutdown, catalogVars, CatalogInv, CatalogTypeOK
  <2>2. CatalogInv'
    BY <2>1, CatalogStays
  <2>3. QED
    BY <1>6, <2>2, ShutdownInv
<1>7. CASE PoolClosed
  <2>1. UNCHANGED <<store, catalog, request, changes>> /\ faults' \in 0..MaxFaults
        /\ phase = "clients" /\ phase' = "catalog" /\ UNCHANGED clientVars
        /\ \A c \in Turn : client[c].state # "closing"
    BY <1>7 DEF PoolClosed, catalogVars, CatalogInv, CatalogTypeOK
  <2>2. CatalogInv'
    BY <2>1, CatalogStays
  <2>3. ClientInv'
    BY <2>1 DEF ClientInv, clientVars, Holders, Used
  <2>4. QED
    BY <2>2, <2>3
<1>8. CASE UNCHANGED vars
  <2>1. UNCHANGED clientVars /\ phase' = phase
        /\ UNCHANGED <<store, catalog, request, changes>> /\ faults' \in 0..MaxFaults
    BY <1>8 DEF vars, catalogVars, CatalogInv, CatalogTypeOK
  <2>2. CatalogInv'
    BY <2>1, CatalogStays
  <2>3. ClientInv'
    BY <2>1, ClientsStay
  <2>4. QED
    BY <2>2, <2>3
<1>9. QED
  BY <1>1, <1>2, <1>3, <1>4, <1>5, <1>6, <1>7, <1>8 DEF Next

(* Both invariants hold in every reachable state. *)
LEMMA Reachable == Spec => []Inv
<1>1. Init => Inv
  BY InitClients
<1>2. Inv /\ [Next]_vars => Inv'
  BY NextClients
<1>3. QED
  BY <1>1, <1>2, PTL DEF Spec

(* However credentials change and refreshes race, a provider shown as verified *)
(* was verified with the key it has now, unless its last save has failed.     *)
THEOREM VerifiedCurrent == Spec => []VerifiedIsCurrent
<1>1. Inv => VerifiedIsCurrent
  BY DEF Inv, CatalogInv, Current, VerifiedIsCurrent
<1>2. QED
  BY <1>1, Reachable, PTL

(* No client is closed under the Turn that leases it, and a finished shutdown  *)
(* leaves no client open or closing and no refresh that was not cancelled.    *)
THEOREM ClientsClosed == Spec => []ClientsAccounted
<1>1. Inv => ClientsAccounted
  <2> SUFFICES ASSUME Inv PROVE ClientsAccounted
    OBVIOUS
  <2>1. ASSUME NEW t \in Turn, adapter[t].pc = "leased"
        PROVE  client[adapter[t].client].state = "open"
    <3>1. adapter[t].client \in ToSet(pool) /\ ToSet(pool) \subseteq Turn
      BY <2>1 DEF Inv, ClientInv, ToSet
    <3>2. QED
      BY <3>1 DEF Inv, ClientInv
  <2>2. ASSUME phase = "closed", NEW c \in Turn PROVE client[c].state \in {"none", "closed"}
    <3>1. pool = <<>> /\ client[c].state # "closing"
          /\ client[c].state \in {"none", "open", "closing", "closed"}
      BY <2>2 DEF Inv, ClientInv, ClientRec
    <3>2. ToSet(pool) = {}
      BY <3>1 DEF ToSet
    <3>3. QED
      BY <3>1, <3>2 DEF Inv, ClientInv
  <2>3. ASSUME phase = "closed", NEW i \in Task, Running(i) PROVE task[i].cancel
    BY <2>3 DEF Inv, CatalogInv, RefreshOk
  <2>4. QED
    BY <2>1, <2>2, <2>3 DEF ClientsAccounted
<1>2. QED
  BY <1>1, Reachable, PTL

-----------------------------------------------------------------------------
(* The settings of a Thread. *)
(* What is in memory is in the store or newer. *)
StoreBehind ==
    /\ settings \in Version /\ durable \in Version
    /\ settings = durable \/ settings.version > durable.version

(* A version and a value of which somebody may be sure is in the store, or     *)
(* older than what is there.                                                  *)
Behind(s) ==
    /\ s.version \in Nat /\ s.version <= durable.version
    /\ s.version = durable.version => s.value = durable.value

SureBehind ==
    /\ view = [p \in Page |-> view[p]] /\ patch = [p \in Page |-> patch[p]]
    /\ \A p \in Page : view[p].sure => Behind(view[p])
    /\ \A p \in Page : patch[p].pending => /\ patch[p].value \in Body
                                           /\ patch[p].shown.sure => Behind(patch[p].shown)

StartedBehind ==
    /\ \A s \in started : s \in Version /\ Behind(s)
    /\ \A s, s2 \in started : s.version = s2.version => s.value = s2.value

SettingsInv == StoreBehind /\ SureBehind /\ StartedBehind /\ SavedAreAccepted
-----------------------------------------------------------------------------
(* What the Host saves can be written down, and the model accepts it.          *)
LEMMA NormalizedAccepted ==
    ASSUME NEW value \in Settings, Expressible(value.thinking)
    PROVE  /\ Normalized(value) \in Settings
           /\ Accepts(Capabilities[Normalized(value).model], Normalized(value).thinking)
           /\ Expressible(Normalized(value).thinking)
<1> DEFINE c == Capabilities[value.model]
           pc == Projected(c)
<1>1. /\ value.model \in Model /\ WellFormed(c)
      /\ value.thinking \in Thinking \cup {Null} /\ value.limit \in Limit \cup {Null}
      /\ Null \notin Thinking /\ Null \notin Effort
  BY SettingsAssumption DEF Settings
<1>2. /\ pc.supported = c.supported
      /\ c.supported => pc.toggle = c.toggle \/ (c.toggle /\ pc.toggle)
      /\ c.supported => pc.efforts \subseteq c.efforts
      /\ pc.toggle \in BOOLEAN
  BY <1>1 DEF Projected, WellFormed
<1>3. CASE value.thinking = Null
  BY <1>1, <1>3 DEF Normalized, Accepts, Expressible
<1>4. CASE value.thinking # Null /\ ~pc.supported
  <2>1. Normalized(value) = [value EXCEPT !.thinking = Null]
    BY <1>4 DEF Normalized
  <2>2. Normalized(value) = [model |-> value.model, thinking |-> Null, limit |-> value.limit]
    BY <2>1 DEF Settings
  <2> QED
    BY <2>2, <1>1 DEF Accepts, Expressible, Settings
<1>5. CASE value.thinking # Null /\ pc.supported
  <2> DEFINE t == [enabled |-> value.thinking.enabled \/ ~pc.toggle,
                   effort |-> IF value.thinking.effort \in pc.efforts
                                THEN value.thinking.effort ELSE Null]
  <2>1. Normalized(value) = [value EXCEPT !.thinking = t]
    BY <1>5 DEF Normalized, Settings
  <2>2. Normalized(value) = [model |-> value.model, thinking |-> t, limit |-> value.limit]
    BY <2>1 DEF Settings
  <2>3. t \in Thinking
    BY <1>1, <1>2, <1>5 DEF Thinking, WellFormed
  <2>4. Accepts(c, t)
    BY <1>1, <1>2, <1>5 DEF Accepts, WellFormed, Thinking
  <2>5. Expressible(t)
    BY <1>1, <1>2, <1>5 DEF Expressible, WellFormed, Thinking
  <2> QED
    BY <2>2, <2>3, <2>4, <2>5, <1>1 DEF Settings
<1> QED
  BY <1>3, <1>4, <1>5

LEMMA InitInv == SettingsInit => SettingsInv
<1> SUFFICES ASSUME SettingsInit PROVE SettingsInv
  OBVIOUS
<1>1. Created \in Version
  BY SettingsAssumption DEF Created, Version, Settings
<1>2. StoreBehind
  BY <1>1 DEF SettingsInit, StoreBehind
<1>3. SureBehind
  BY <1>1 DEF SettingsInit, SureBehind, Behind, Displayed, NoPatch, Created, Version
<1>4. StartedBehind
  BY DEF SettingsInit, StartedBehind
<1>5. SavedAreAccepted
  BY DEF SettingsInit, SavedAreAccepted, Accepts, Created
<1> QED
  BY <1>2, <1>3, <1>4, <1>5 DEF SettingsInv

(* A step that leaves the settings in memory and either leaves the store too   *)
(* or brings it up to date, and makes nobody surer than the store allows.      *)
LEMMA StoreMoves ==
    ASSUME SettingsInv, settings' = settings, durable' \in {durable, settings}
    PROVE  /\ StoreBehind' /\ SavedAreAccepted'
           /\ \A s : Behind(s) => Behind(s)'
<1>1. /\ settings \in Version /\ durable \in Version
      /\ settings.version \in Nat /\ durable.version \in Nat
      /\ settings = durable \/ settings.version > durable.version
  BY DEF SettingsInv, StoreBehind, Version
<1>2. StoreBehind'
  BY <1>1 DEF StoreBehind
<1>3. SavedAreAccepted'
  BY DEF SettingsInv, SavedAreAccepted
<1>4. ASSUME NEW s, Behind(s) PROVE Behind(s)'
  <2>1. CASE durable' = durable
    BY <1>4, <2>1 DEF Behind
  <2>2. CASE durable' = settings /\ settings.version > durable.version
    BY <1>1, <1>4, <2>2 DEF Behind
  <2> QED
    BY <1>1, <2>1, <2>2
<1> QED
  BY <1>2, <1>3, <1>4

(* Nobody becomes surer. *)
LEMMA SureKept ==
    ASSUME SettingsInv, \A s : Behind(s) => Behind(s)', UNCHANGED <<view, started>>,
           patch' = [p \in Page |-> patch'[p]], \A p \in Page : patch'[p] \in {patch[p], NoPatch}
    PROVE  SureBehind' /\ (started \subseteq Version => StartedBehind')
<1>1. SureBehind'
  BY DEF SettingsInv, SureBehind, NoPatch
<1>2. StartedBehind'
  BY DEF SettingsInv, StartedBehind
<1> QED
  BY <1>1, <1>2

(* Steps that change nothing of what anybody is sure of. *)
LEMMA QuietSteps ==
    ASSUME SettingsInv, UNCHANGED settingsVars \/ OtherEvent \/ Crash \/ Submit \/ Reject \/ Finish
                  \/ \E p \in Page : Refuse(p)
    PROVE  SettingsInv'
<1>1. settings' = settings /\ durable' \in {durable, settings} /\ UNCHANGED <<view, started>>
  BY DEF settingsVars, OtherEvent, Crash, Submit, Reject, Finish, Refuse, Committed, NotCommitted
<1>2. /\ patch' = [p \in Page |-> patch'[p]]
      /\ \A p \in Page : patch'[p] \in {patch[p], NoPatch}
  <2>1. patch = [p \in Page |-> patch[p]]
    BY DEF SettingsInv, SureBehind
  <2>2. CASE patch' = patch
    BY <2>1, <2>2
  <2>3. CASE patch' = [p \in Page |-> NoPatch]
    BY <2>3
  <2>4. CASE \E p \in Page : patch' = [patch EXCEPT ![p] = NoPatch]
    BY <2>1, <2>4
  <2> QED
    BY <2>2, <2>3, <2>4 DEF settingsVars, OtherEvent, Crash, Submit, Reject, Finish, Refuse
<1>3. started \subseteq Version
  BY DEF SettingsInv, StartedBehind
<1> QED
  BY <1>1, <1>2, <1>3, StoreMoves, SureKept DEF SettingsInv

LEMMA RefreshInv ==
    ASSUME SettingsInv, NEW p \in Page, Refresh(p)
    PROVE  SettingsInv'
<1>1. settings' = settings /\ durable' = durable /\ UNCHANGED <<patch, started>>
  BY DEF Refresh
<1>2. StoreBehind' /\ SavedAreAccepted' /\ \A s : Behind(s) => Behind(s)'
  BY <1>1, StoreMoves
<1>3. view' = [view EXCEPT ![p] = Displayed(settings, settings = durable)]
  BY DEF Refresh
<1>4. ASSUME NEW q \in Page, view'[q].sure PROVE Behind(view[q])'
  <2>1. CASE q = p
    <3>1. view'[q] = Displayed(settings, settings = durable)
      BY <1>3, <2>1 DEF SettingsInv, SureBehind
    <3>2. settings = durable /\ settings.version \in Nat
      <4>1. view'[q].sure = (settings = durable)
        BY <3>1 DEF Displayed
      <4>2. settings.version \in Nat
        BY DEF SettingsInv, StoreBehind, Version
      <4> QED
        BY <1>4, <4>1, <4>2
    <3>3. view'[q].version = durable.version /\ view'[q].value = durable.value
      BY <3>1, <3>2 DEF Displayed
    <3> QED
      BY <1>1, <3>2, <3>3 DEF Behind
  <2>2. CASE q # p
    <3>1. view'[q] = view[q]
      BY <1>3, <2>2 DEF SettingsInv, SureBehind
    <3> QED
      BY <1>2, <1>4, <3>1 DEF SettingsInv, SureBehind
  <2> QED
    BY <2>1, <2>2
<1>5. SureBehind'
  BY <1>1, <1>2, <1>3, <1>4 DEF SettingsInv, SureBehind
<1>6. StartedBehind'
  BY <1>1, <1>2 DEF SettingsInv, StartedBehind
<1> QED
  BY <1>2, <1>5, <1>6 DEF SettingsInv

LEMMA SendInv ==
    ASSUME SettingsInv, NEW p \in Page, Send(p)
    PROVE  SettingsInv'
<1>1. settings' = settings /\ durable' = durable /\ UNCHANGED <<view, started>>
  BY DEF Send
<1>2. StoreBehind' /\ SavedAreAccepted' /\ \A s : Behind(s) => Behind(s)'
  BY <1>1, StoreMoves
<1>3. PICK value \in Body :
        patch' = [patch EXCEPT ![p] = [pending |-> TRUE, shown |-> view[p], value |-> value]]
  BY DEF Send
<1>4. SureBehind'
  BY <1>1, <1>2, <1>3 DEF SettingsInv, SureBehind
<1>5. StartedBehind'
  BY <1>1, <1>2 DEF SettingsInv, StartedBehind
<1> QED
  BY <1>2, <1>4, <1>5 DEF SettingsInv

(* The new settings are newer than the store, or become the store's.           *)
LEMMA AcceptInv ==
    ASSUME SettingsInv, NEW p \in Page, Accept(p)
    PROVE  SettingsInv'
<1> DEFINE new == Updated(p)
<1>1. /\ settings \in Version /\ durable \in Version
      /\ settings.version \in Nat /\ durable.version \in Nat
      /\ settings.version >= durable.version
  BY DEF SettingsInv, StoreBehind, Version
<1>2. patch[p].pending /\ Fresh(p) /\ settings' = new /\ started' = started
  BY DEF Accept
<1>3. patch[p].value \in Settings /\ Expressible(patch[p].value.thinking)
  BY <1>2, SettingsAssumption DEF SettingsInv, SureBehind, Fresh
<1>4. /\ new \in Version /\ new.version = settings.version + 1
      /\ Accepts(Capabilities[new.value.model], new.value.thinking)
  BY <1>1, <1>3, NormalizedAccepted DEF Updated, Version
<1>5. new.version \in Nat /\ new.version > durable.version
  BY <1>1, <1>4
<1>6. durable' \in {durable, new}
  BY <1>2 DEF Accept, Committed, NotCommitted
<1>7. StoreBehind'
  BY <1>1, <1>2, <1>4, <1>5, <1>6 DEF StoreBehind
<1>8. SavedAreAccepted'
  BY <1>2, <1>4, <1>6 DEF SettingsInv, SavedAreAccepted
<1>9. ASSUME NEW s, Behind(s) PROVE Behind(s)'
  BY <1>1, <1>5, <1>6, <1>9 DEF Behind
<1>10. /\ patch' = [patch EXCEPT ![p] = NoPatch]
       /\ \/ view' = view
          \/ durable' = new /\ view' = [view EXCEPT ![p] = Displayed(new, TRUE)]
  BY <1>2 DEF Accept, Committed
<1>11. SureBehind'
  <2>1. ASSUME NEW q \in Page, view'[q].sure PROVE Behind(view[q])'
    <3>1. CASE view'[q] = view[q]
      BY <1>9, <2>1, <3>1 DEF SettingsInv, SureBehind
    <3>2. CASE durable' = new /\ view'[q] = Displayed(new, TRUE)
      <4>1. view'[q].version = new.version /\ view'[q].value = new.value
        BY <3>2 DEF Displayed
      <4>2. new.version \in Nat
        BY <1>5
      <4>3. durable'.version = new.version /\ durable'.value = new.value
        BY <3>2
      <4> HIDE DEF new
      <4>4. /\ view'[q].version \in Nat
            /\ view'[q].version <= durable'.version
            /\ view'[q].value = durable'.value
        BY <4>1, <4>2, <4>3
      <4> QED
        BY <4>4 DEF Behind
    <3>3. \/ view'[q] = view[q]
          \/ durable' = new /\ view'[q] = Displayed(new, TRUE)
      <4>1. view = [r \in Page |-> view[r]]
        BY DEF SettingsInv, SureBehind
      <4> HIDE DEF new
      <4> QED
        BY <1>10, <4>1
    <3> QED
      BY <3>1, <3>2, <3>3
  <2>2. ASSUME NEW q \in Page, patch'[q].pending
        PROVE  /\ patch'[q].value \in Body
               /\ patch'[q].shown.sure => Behind(patch[q].shown)'
    <3>1. patch'[q] = patch[q]
      BY <1>10, <2>2 DEF SettingsInv, SureBehind, NoPatch
    <3> QED
      BY <1>9, <2>2, <3>1 DEF SettingsInv, SureBehind
  <2>3. view' = [q \in Page |-> view'[q]] /\ patch' = [q \in Page |-> patch'[q]]
    BY <1>10 DEF SettingsInv, SureBehind
  <2> QED
    BY <2>1, <2>2, <2>3 DEF SureBehind
<1>12. StartedBehind'
  BY <1>2, <1>9 DEF SettingsInv, StartedBehind
<1> QED
  BY <1>7, <1>8, <1>11, <1>12 DEF SettingsInv

LEMMA RestartInv ==
    ASSUME SettingsInv, Restart
    PROVE  SettingsInv'
<1>1. settings' = durable /\ durable' = durable /\ UNCHANGED <<view, patch, started>>
  BY DEF Restart
<1>2. StoreBehind' /\ SavedAreAccepted'
  BY <1>1 DEF SettingsInv, StoreBehind, SavedAreAccepted
<1>3. SureBehind' /\ StartedBehind'
  BY <1>1 DEF SettingsInv, SureBehind, StartedBehind, Behind
<1> QED
  BY <1>2, <1>3 DEF SettingsInv

LEMMA StartInv ==
    ASSUME SettingsInv, Start
    PROVE  SettingsInv'
<1>1. settings' = settings /\ durable' \in {durable, settings} /\ UNCHANGED <<view, patch>>
  BY DEF Start, Committed, NotCommitted
<1>2. StoreBehind' /\ SavedAreAccepted' /\ \A s : Behind(s) => Behind(s)'
  BY <1>1, StoreMoves
<1>3. SureBehind'
  BY <1>1, <1>2 DEF SettingsInv, SureBehind
<1>4. started' = started \/ (durable' = settings /\ started' = started \cup {settings})
  BY DEF Start, Committed
<1>5. settings \in Version /\ settings.version \in Nat
  BY DEF SettingsInv, StoreBehind, Version
<1>6. StartedBehind'
  <2>1. CASE started' = started
    BY <1>2, <2>1 DEF SettingsInv, StartedBehind
  <2>2. CASE durable' = settings /\ started' = started \cup {settings}
    <3>1. Behind(settings)'
      BY <1>1, <1>5, <2>2 DEF Behind
    <3>2. \A s \in started : s \in Version /\ Behind(s)'
      BY <1>2 DEF SettingsInv, StartedBehind
    <3>3. \A s \in started : s.version = settings.version => s.value = settings.value
      BY <3>2, <2>2 DEF Behind
    <3> QED
      BY <1>1, <1>5, <2>2, <3>1, <3>2, <3>3 DEF SettingsInv, StartedBehind
  <2> QED
    BY <1>4, <2>1, <2>2
<1> QED
  BY <1>2, <1>3, <1>6 DEF SettingsInv

LEMMA NextInv == SettingsInv /\ [SettingsNext]_settingsVars => SettingsInv'
<1> SUFFICES ASSUME SettingsInv, [SettingsNext]_settingsVars PROVE SettingsInv'
  OBVIOUS
<1>1. CASE \E p \in Page : Refresh(p)
  BY <1>1, RefreshInv
<1>2. CASE \E p \in Page : Send(p)
  BY <1>2, SendInv
<1>3. CASE \E p \in Page : Accept(p)
  BY <1>3, AcceptInv
<1>4. CASE Restart
  BY <1>4, RestartInv
<1>5. CASE Start
  BY <1>5, StartInv
<1>6. CASE UNCHANGED settingsVars \/ OtherEvent \/ Crash \/ Submit \/ Reject \/ Finish
             \/ \E p \in Page : Refuse(p)
  BY <1>6, QuietSteps
<1> QED
  BY <1>1, <1>2, <1>3, <1>4, <1>5, <1>6 DEF SettingsNext

LEMMA Invariance == SettingsSpec => []SettingsInv
<1>1. SettingsInit => SettingsInv
  BY InitInv
<1>2. SettingsInv /\ [SettingsNext]_settingsVars => SettingsInv'
  BY NextInv
<1> QED
  BY <1>1, <1>2, PTL DEF SettingsSpec
-----------------------------------------------------------------------------
(* What the Host saved is what the invoker of an inheriting Turn accepts, for  *)
(* every table of capabilities that the code lets a profile declare.           *)
THEOREM SettingsAccepted == SettingsSpec => []SavedAreAccepted
<1>1. SettingsInv => SavedAreAccepted
  BY DEF SettingsInv
<1> QED
  BY <1>1, Invariance, PTL

(* A version in a committed turn_started names one state of the settings.      *)
THEOREM VersionsName == SettingsSpec => []VersionNamesSettings
<1>1. ASSUME SettingsInv PROVE VersionNamesSettings
  <2>1. /\ settings \in Version /\ durable \in Version
        /\ settings.version \in Nat /\ durable.version \in Nat
        /\ settings = durable \/ settings.version > durable.version
    BY <1>1 DEF SettingsInv, StoreBehind, Version
  <2>2. SUFFICES ASSUME NEW s \in started, NEW s2 \in started \cup {settings, durable},
                        s.version = s2.version
                 PROVE  s.value = s2.value
    BY DEF VersionNamesSettings
  <2>3. Behind(s)
    BY <1>1 DEF SettingsInv, StartedBehind
  <2>4. CASE s2 \in started
    BY <1>1, <2>2, <2>4 DEF SettingsInv, StartedBehind
  <2>5. CASE s2 = durable
    BY <2>2, <2>3, <2>5 DEF Behind
  <2>6. CASE s2 = settings
    BY <2>1, <2>2, <2>3, <2>6 DEF Behind
  <2> QED
    BY <2>4, <2>5, <2>6
<1> QED
  BY <1>1, Invariance, PTL

(* An update replaces the settings that its page displayed, unless the page    *)
(* displayed settings that were never committed.                              *)
THEOREM StaleUpdatesRefused == SettingsSpec => StaleRefused
<1> DEFINE Replaces == \A p \in Page :
             Accept(p) /\ patch[p].shown.sure => settings.value = patch[p].shown.value
<1>1. ASSUME SettingsInv, NEW p \in Page, Accept(p), patch[p].shown.sure
      PROVE  settings.value = patch[p].shown.value
  <2>1. /\ settings.version \in Nat /\ durable.version \in Nat
        /\ settings = durable \/ settings.version > durable.version
    BY <1>1 DEF SettingsInv, StoreBehind, Version
  <2>2. patch[p].pending /\ patch[p].shown.version = settings.version
    BY <1>1 DEF Accept, Fresh
  <2>3. Behind(patch[p].shown)
    BY <1>1, <2>2 DEF SettingsInv, SureBehind
  <2> QED
    BY <2>1, <2>2, <2>3 DEF Behind
<1>2. SettingsInv => Replaces
  BY <1>1
<1>3. SettingsInv /\ [SettingsNext]_settingsVars => [Replaces]_settingsVars
  BY <1>2
<1> QED
  BY <1>3, Invariance, PTL DEF SettingsSpec, StaleRefused

-----------------------------------------------------------------------------
(* What a request for a configuration may ask of the model c. *)
Fits(c, wanted, sent, limit) ==
    /\ ~c.supported => sent = Nothing
    /\ sent.type = "disabled" => c.style \in MaySwitchOff /\ sent.effort = Null
    /\ sent.effort # Null => sent.effort \in Documented(c.style)
    /\ wanted # Null /\ ~wanted.enabled => sent.type = "disabled"
    /\ limit # Null /\ c.maximum # Null => limit <= c.maximum

(* The settings can be written down, and the Turn runs on a configuration that *)
(* is an override of such settings and that its model accepts.                 *)
RunsAccepted ==
    turn.pc = "running" =>
        \E o \in Override, value \in Settings :
            /\ Expressible(value.thinking)
            /\ turn.config = Applied(o, value) /\ turn.request = ModelRequest(o, Applied(o, value))
            /\ Accepts(Capabilities[turn.config.model], turn.config.thinking)

RequestInv ==
    /\ Expressible(settings.value.thinking) /\ Expressible(durable.value.thinking)
    /\ turn.pc = "validating" => turn.override \in Override
    /\ RunsAccepted

(* An effort is sent in the vendor's words for it. *)
LEMMA EffortsNamed ==
    ASSUME NEW e
    PROVE  /\ DeepSeekEffort(e) \in {"low", "high", "max", Null}
           /\ GLMEffort(e) \in {"high", "max", Null}
BY DEF DeepSeekEffort, GLMEffort

(* The adapter of each style sends what that style documents. *)
LEMMA BodyFits ==
    ASSUME NEW c, WellFormed(c), NEW t \in Thinking \cup {Null}, Expressible(t), Accepts(c, t),
           c.style \in {"always_on", "reasoning_effort"} => ~c.toggle
    PROVE  LET sent == ThinkingBody(c, t) IN
           /\ ~c.supported => sent = Nothing
           /\ sent.type = "disabled" => c.style \in MaySwitchOff /\ sent.effort = Null
           /\ sent.effort # Null => sent.effort \in Documented(c.style)
           /\ t # Null /\ ~t.enabled => sent.type = "disabled"
<1> DEFINE sent == ThinkingBody(c, t)
<1>1. /\ Nothing.type = Null /\ Nothing.effort = Null /\ Null \notin {"enabled", "disabled"}
      /\ Null \notin Effort /\ Null \notin Thinking
  BY SettingsAssumption DEF Nothing
<1>2. CASE t = Null \/ ~c.supported
  <2>1. sent = Nothing
    BY <1>2 DEF ThinkingBody
  <2>2. t # Null => c.supported
    BY DEF Accepts
  <2>3. QED
    BY <1>1, <1>2, <2>1, <2>2
<1>3. CASE t # Null /\ c.supported
  <2>1. /\ t \in Thinking /\ t.enabled \in BOOLEAN /\ t.effort \in Effort \cup {Null}
        /\ ~t.enabled => t.effort = Null /\ c.toggle
        /\ c.style \in Style
    BY <1>3 DEF Thinking, Expressible, Accepts, WellFormed
  <2>2. /\ Switch(t).type = (IF t.enabled THEN "enabled" ELSE "disabled") /\ Switch(t).effort = Null
        /\ \A e : /\ [Switch(t) EXCEPT !.effort = e].type = Switch(t).type
                  /\ [Switch(t) EXCEPT !.effort = e].effort = e
                  /\ [Nothing EXCEPT !.effort = e].type = Null
                  /\ [Nothing EXCEPT !.effort = e].effort = e
    BY DEF Switch, Nothing
  <2>3. /\ Switch([t EXCEPT !.enabled = FALSE]).type = "disabled"
        /\ Switch([t EXCEPT !.enabled = FALSE]).effort = Null
    BY <2>1 DEF Switch, Thinking
  <2>4. CASE c.style = "always_on"
    <3>1. sent = Nothing
      BY <1>3, <2>4 DEF ThinkingBody
    <3>2. QED
      BY <1>1, <1>3, <2>1, <2>4, <3>1
  <2>5. CASE c.style = "reasoning_effort"
    <3>1. sent = IF t.enabled /\ t.effort \in {"low", "high", "max"}
                   THEN [Nothing EXCEPT !.effort = t.effort] ELSE Nothing
      BY <1>3, <2>5 DEF ThinkingBody
    <3>2. sent.type = Null /\ sent.effort \in {"low", "high", "max", Null}
      BY <1>1, <2>2, <3>1
    <3>3. Documented(c.style) = {"low", "high", "max"}
      BY <2>5 DEF Documented
    <3> HIDE DEF sent
    <3>4. QED
      BY <1>1, <1>3, <2>1, <2>5, <3>2, <3>3 DEF sent
  <2>6. CASE c.style = "toggle"
    <3>1. sent = Switch(t)
      BY <1>3, <2>6 DEF ThinkingBody
    <3>2. QED
      BY <1>3, <2>1, <2>2, <2>6, <3>1 DEF MaySwitchOff
  <2>7. CASE c.style = "deepseek"
    <3>1. sent = IF t.enabled THEN [Switch(t) EXCEPT !.effort = DeepSeekEffort(t.effort)]
                 ELSE Switch(t)
      BY <1>3, <2>7 DEF ThinkingBody
    <3>2. /\ sent.type = (IF t.enabled THEN "enabled" ELSE "disabled")
          /\ sent.effort \in {"low", "high", "max", Null}
          /\ ~t.enabled => sent.effort = Null
      BY <2>1, <2>2, <3>1, EffortsNamed
    <3>3. Documented(c.style) = {"low", "high", "max"} /\ c.style \in MaySwitchOff
      BY <2>7 DEF Documented, MaySwitchOff
    <3> HIDE DEF sent
    <3>4. QED
      BY <1>3, <2>1, <3>2, <3>3 DEF sent
  <2>8. CASE c.style = "glm"
    <3>1. sent = IF t.enabled /\ t.effort \notin {"none", "minimal"}
                   THEN [Switch(t) EXCEPT !.effort = GLMEffort(t.effort)]
                   ELSE Switch([t EXCEPT !.enabled = FALSE])
      BY <1>3, <2>8 DEF ThinkingBody
    <3>2. /\ sent.type \in {"enabled", "disabled"} /\ (~t.enabled => sent.type = "disabled")
          /\ sent.effort \in {"high", "max", Null}
          /\ sent.type = "disabled" => sent.effort = Null
      BY <2>1, <2>2, <2>3, <3>1, EffortsNamed
    <3>3. Documented(c.style) = {"high", "max"} /\ c.style \in MaySwitchOff
      BY <2>8 DEF Documented, MaySwitchOff
    <3> HIDE DEF sent
    <3>4. QED
      BY <1>3, <2>1, <3>2, <3>3 DEF sent
  <2>9. CASE c.style = "generic"
    <3>1. sent = [Switch(t) EXCEPT !.effort = t.effort]
      BY <1>3, <2>9 DEF ThinkingBody
    <3>2. /\ sent.type = (IF t.enabled THEN "enabled" ELSE "disabled") /\ sent.effort = t.effort
      BY <2>2, <3>1
    <3>3. Documented(c.style) = Effort /\ c.style \in MaySwitchOff
      BY <2>9 DEF Documented, MaySwitchOff
    <3> HIDE DEF sent
    <3>4. QED
      BY <1>3, <2>1, <3>2, <3>3 DEF sent
  <2>10. QED
    BY <2>1, <2>4, <2>5, <2>6, <2>7, <2>8, <2>9 DEF Style
<1>4. QED
  BY <1>2, <1>3

(* The limit of a request is within the model's maximum, overridden or not.    *)
LEMMA LimitFits ==
    ASSUME NEW c, WellFormed(c), NEW x \in Limit \cup {Null, Unset}
    PROVE  LET limit == ResolvedLimit(x, c) IN
           limit # Null /\ c.maximum # Null => limit <= c.maximum
<1> DEFINE base == IF x = Unset THEN c.default ELSE x
<1>1. /\ c.maximum \in Nat \cup {Null} /\ base \in Nat \cup {Null} /\ Null \notin Nat
  BY SettingsAssumption DEF WellFormed, Limit
<1>2. ResolvedLimit(x, c) = IF base = Null THEN Null ELSE AtMost(base, c.maximum)
  BY DEF ResolvedLimit
<1> HIDE DEF base
<1>3. QED
  BY <1>1, <1>2 DEF AtMost

(* An override of settings that can be written down can be written down. *)
LEMMA AppliedType ==
    ASSUME NEW o \in Override, NEW value \in Settings, Expressible(value.thinking)
    PROVE  LET config == Applied(o, value) IN
           /\ config.model \in Model /\ config.thinking \in Thinking \cup {Null}
           /\ Expressible(config.thinking) /\ config.limit \in Limit \cup {Null}
           /\ Explicit(o, config) \in Limit \cup {Null, Unset}
<1> DEFINE config == Applied(o, value)
<1>1. /\ value.model \in Model /\ value.thinking \in Thinking \cup {Null}
      /\ value.limit \in Limit \cup {Null} /\ DOMAIN value = {"model", "thinking", "limit"}
  BY DEF Settings
<1>2. /\ o.model \in Model \cup {Unset} /\ o.thinking \in Thinking \cup {Null, Unset}
      /\ o.limit \in Limit \cup {Null, Unset}
  BY SettingsAssumption
<1>3. /\ config.model = (IF o.model = Unset THEN value.model ELSE o.model)
      /\ config.thinking = (IF o.thinking = Unset THEN value.thinking ELSE o.thinking)
      /\ config.limit = (IF o.limit = Unset THEN value.limit ELSE o.limit)
  BY <1>1 DEF Applied
<1>4. o.thinking # Unset => Expressible(o.thinking)
  BY ProfileAssumption
<1> HIDE DEF config
<1>5. config.model \in Model /\ config.thinking \in Thinking \cup {Null} /\ Expressible(config.thinking)
  BY <1>1, <1>2, <1>3, <1>4
<1>6. config.limit \in Limit \cup {Null} /\ Explicit(o, config) \in Limit \cup {Null, Unset}
  BY <1>1, <1>2, <1>3 DEF Explicit
<1>7. QED
  BY <1>5, <1>6 DEF config

(* So what a Turn sends fits its model. *)
LEMMA RunsFit ==
    ASSUME NEW o \in Override, NEW value \in Settings, Expressible(value.thinking),
           Accepts(Capabilities[Applied(o, value).model], Applied(o, value).thinking)
    PROVE  LET config == Applied(o, value)
               asked == ModelRequest(o, config) IN
           Fits(Capabilities[config.model], config.thinking, asked.thinking, asked.limit)
<1> DEFINE config == Applied(o, value)
           c == Capabilities[config.model]
<1>1. /\ config.model \in Model /\ config.thinking \in Thinking \cup {Null}
      /\ Expressible(config.thinking) /\ Explicit(o, config) \in Limit \cup {Null, Unset}
  BY AppliedType
<1>2. Accepts(c, config.thinking)
  OBVIOUS
<1>3. /\ ModelRequest(o, config).thinking = ThinkingBody(c, config.thinking)
      /\ ModelRequest(o, config).limit = ResolvedLimit(Explicit(o, config), c)
  BY DEF ModelRequest
<1>4. WellFormed(c) /\ (c.style \in {"always_on", "reasoning_effort"} => ~c.toggle)
  BY <1>1, SettingsAssumption, ProfileAssumption
<1> HIDE DEF c, config
<1>5. QED
  BY <1>1, <1>2, <1>3, <1>4, BodyFits, LimitFits DEF Fits, c, config

-----------------------------------------------------------------------------
(* Only a Start puts a Turn on a configuration, which it has validated; what    *)
(* the pages save can be written down.                                        *)
LEMMA RequestStep ==
    ASSUME SettingsInv, RequestInv, [SettingsNext]_settingsVars
    PROVE  RequestInv'
<1>1. /\ settings \in Version /\ durable \in Version
      /\ settings.value \in Settings
  BY DEF SettingsInv, StoreBehind, Version
<1>2. (turn' = turn \/ turn' = NoTurn) => RunsAccepted' /\ (turn'.pc = "validating" => turn'.override \in Override)
  <2>1. NoTurn.pc = "none"
    BY DEF NoTurn
  <2>2. turn' = turn => RunsAccepted' /\ (turn'.pc = "validating" => turn'.override \in Override)
    BY DEF RequestInv, RunsAccepted
  <2>3. turn' = NoTurn => RunsAccepted' /\ (turn'.pc = "validating" => turn'.override \in Override)
    BY <2>1 DEF RunsAccepted
  <2>4. QED
    BY <2>2, <2>3
<1>3. {settings', durable'} \subseteq {settings, durable} =>
          Expressible(settings'.value.thinking) /\ Expressible(durable'.value.thinking)
  BY DEF RequestInv
<1>4. CASE \E p \in Page : Accept(p)
  <2>1. PICK p \in Page : Accept(p)
    BY <1>4
  <2>2. patch[p].value \in Settings /\ Expressible(patch[p].value.thinking)
    BY <2>1, SettingsAssumption DEF SettingsInv, SureBehind, Accept, Fresh
  <2>3. Expressible(Updated(p).value.thinking)
    BY <2>2, NormalizedAccepted DEF Updated
  <2>4. settings' = Updated(p) /\ durable' \in {settings', durable} /\ turn' = turn
    BY <2>1 DEF Accept, Committed, NotCommitted
  <2>5. Expressible(settings'.value.thinking) /\ Expressible(durable'.value.thinking)
    BY <2>3, <2>4 DEF RequestInv
  <2>6. QED
    BY <1>2, <2>4, <2>5 DEF RequestInv
<1>5. CASE Submit
  <2>1. PICK o \in Override : turn' = [pc |-> "validating", override |-> o]
    BY <1>5 DEF Submit
  <2>2. turn'.pc = "validating" /\ turn'.override = o
    BY <2>1
  <2>3. UNCHANGED <<settings, durable>>
    BY <1>5 DEF Submit
  <2>4. QED
    BY <1>3, <2>2, <2>3 DEF RequestInv, RunsAccepted
<1>6. CASE Start
  <2> DEFINE config == Applied(turn.override, settings.value)
  <2>1. settings' = settings /\ durable' \in {settings, durable} /\ turn.override \in Override
    BY <1>6 DEF Start, Committed, NotCommitted, RequestInv
  <2>2. Expressible(settings.value.thinking) /\ Accepts(Capabilities[config.model], config.thinking)
    BY <1>6 DEF Start, RequestInv
  <2>3. CASE turn' = [pc |-> "running", override |-> turn.override, config |-> config,
                      request |-> ModelRequest(turn.override, config)]
    <3>1. /\ turn'.pc = "running" /\ turn'.config = Applied(turn.override, settings.value)
          /\ turn'.request = ModelRequest(turn.override, Applied(turn.override, settings.value))
      BY <2>3
    <3>2. Accepts(Capabilities[turn'.config.model], turn'.config.thinking)
      BY <2>2, <3>1
    <3> HIDE DEF config
    <3>3. RunsAccepted'
      BY <1>1, <2>1, <2>2, <3>1, <3>2 DEF RunsAccepted
    <3>4. QED
      BY <1>3, <2>1, <3>1, <3>3 DEF RequestInv
  <2>4. CASE turn' = NoTurn
    BY <1>2, <1>3, <2>1, <2>4 DEF RequestInv
  <2>5. QED
    BY <1>6, <2>3, <2>4 DEF Start
<1>7. CASE OtherEvent \/ Crash \/ Restart \/ Reject \/ Finish \/ UNCHANGED settingsVars
           \/ \E p \in Page : Refresh(p) \/ Send(p) \/ Refuse(p)
  <2>1. {settings', durable'} \subseteq {settings, durable} /\ (turn' = turn \/ turn' = NoTurn)
    BY <1>7 DEF OtherEvent, Crash, Restart, Reject, Finish, Committed, NotCommitted, settingsVars,
               Refresh, Send, Refuse
  <2>2. QED
    BY <1>2, <1>3, <2>1 DEF RequestInv
<1>8. QED
  BY <1>4, <1>5, <1>6, <1>7 DEF SettingsNext

(* What a running Turn asks for fits its model, for every table of             *)
(* capabilities and every override.                                           *)
THEOREM RequestsFit == SettingsSpec => []RequestFitsModel
<1>1. SettingsInit => RequestInv
  BY DEF SettingsInit, RequestInv, RunsAccepted, Expressible, Created, NoTurn
<1>2. SettingsInv /\ RequestInv /\ [SettingsNext]_settingsVars => RequestInv'
  BY RequestStep
<1>3. RequestInv => RequestFitsModel
  <2> SUFFICES ASSUME RequestInv, turn.pc = "running"
               PROVE  Fits(Capabilities[turn.config.model], turn.config.thinking,
                           turn.request.thinking, turn.request.limit)
    BY DEF RequestFitsModel, Fits
  <2>1. PICK o \in Override, value \in Settings :
            /\ Expressible(value.thinking)
            /\ turn.config = Applied(o, value) /\ turn.request = ModelRequest(o, Applied(o, value))
            /\ Accepts(Capabilities[turn.config.model], turn.config.thinking)
    BY DEF RequestInv, RunsAccepted
  <2>2. QED
    BY <2>1, RunsFit
<1>4. QED
  BY <1>1, <1>2, <1>3, Invariance, PTL DEF SettingsSpec
=============================================================================
