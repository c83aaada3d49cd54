---------------------------- MODULE ModelCatalog ----------------------------
(* Provider credentials and the model catalog of the Host: the ProviderStore    *)
(* whose endpoints save and clear a key, and the ProviderModelCatalog that      *)
(* discovers, once per key at a time, the models the key may use.               *)
(*                                                                              *)
(* A change of the store and what it does to the catalog is one step, for the   *)
(* endpoints have no await between them.  A refresh is a task: it begins, waits *)
(* for the fetch under a timeout, publishes, and is removed by its done         *)
(* callback one round of the event loop later.  Selected models and the default *)
(* provider are left out; they change nothing here.                             *)
EXTENDS Naturals, FiniteSets

CONSTANTS Provider,
          Key,              \* API keys, by their fingerprint
          None,             \* no key
          MaxTasks,         \* bound: refreshes ever started
          MaxChanges,       \* bound: keys saved or cleared
          MaxRequests,      \* bound: discover requests
          MaxFaults         \* bound: failed writes and failed commits

ASSUME CatalogBounds ==
    /\ None \notin Key
    /\ {MaxTasks, MaxChanges, MaxRequests, MaxFaults} \subseteq Nat

Task == 1 .. MaxTasks
Request == 1 .. MaxRequests
NoTask == 0

VARIABLES credential,       \* api_key of each record of ProviderStore._document
          unsaved,          \* ghost: providers whose last change was reported as failed
          status,           \* ProviderModelCatalog._status, with the key it speaks of
          owner,            \* _status_keys
          cache,            \* the provider and key pairs with a fresh _cache entry
          inflight,         \* _inflight
          task,             \* the refresh tasks
          request,          \* the task each discover request awaits
          changes, faults,
          phase             \* the Host's shutdown

store == <<credential, unsaved>>
catalog == <<status, owner, cache, inflight, task>>
catalogVars == <<store, catalog, request, changes, faults>>

Idle == [state |-> "idle", from |-> None]
Unstarted == [pc |-> "none", provider |-> None, key |-> None, cancel |-> FALSE, result |-> "none"]
New == [pc |-> "new", on |-> NoTask]
Answered == [pc |-> "answered", on |-> NoTask]

CatalogInit ==
    /\ credential = [p \in Provider |-> None] /\ unsaved = {}
    /\ status = [p \in Provider |-> Idle] /\ owner = [p \in Provider |-> None]
    /\ cache = {} /\ inflight = [pk \in Provider \X Key |-> NoTask]
    /\ task = [i \in Task |-> Unstarted]
    /\ request = [r \in Request |-> New]
    /\ changes = 0 /\ faults = 0
    /\ phase = "open"
-----------------------------------------------------------------------------
Running(i) == task[i].pc \in {"created", "fetching", "fetched"}

(* Fault: any refresh may publish. *)
PublishAny(p, k, state) ==
    /\ owner' = [owner EXCEPT ![p] = k]
    /\ status' = [status EXCEPT ![p] = [state |-> state, from |-> k]]

(* _set_status: only the key that owns the provider's status publishes. *)
SetStatus(p, k, state) ==
    IF owner[p] \in {None, k} THEN PublishAny(p, k, state) ELSE UNCHANGED <<owner, status>>

StartTask(p, k) ==
    \E i \in Task :
        /\ task[i].pc = "none" /\ \A j \in 1 .. i - 1 : task[j].pc # "none"
        /\ task' = [task EXCEPT ![i] = [Unstarted EXCEPT !.pc = "created", !.provider = p,
                                                         !.key = k]]
        /\ inflight' = [inflight EXCEPT ![<<p, k>>] = i]

(* schedule_refresh: the status is "loading" from now on, also when the task   *)
(* in flight has published already and only its callback is missing.           *)
ScheduleRefresh(p, k) ==
    /\ PublishAny(p, k, "loading")
    /\ IF inflight[<<p, k>>] = NoTask THEN StartTask(p, k) ELSE UNCHANGED <<inflight, task>>
    /\ UNCHANGED cache

(* invalidate(): tasks that have not ended are cancelled and forgotten. *)
Invalidate(p) ==
    /\ task' = [i \in Task |->
          IF Running(i) /\ \E k \in Key : inflight[<<p, k>>] = i
            THEN [task[i] EXCEPT !.cancel = TRUE] ELSE task[i]]
    /\ inflight' = [pk \in Provider \X Key |-> IF pk[1] = p THEN NoTask ELSE inflight[pk]]
    /\ cache' = {pk \in cache : pk[1] # p}
    /\ status' = [status EXCEPT ![p] = Idle] /\ owner' = [owner EXCEPT ![p] = None]
-----------------------------------------------------------------------------
(* The endpoints. *)
CanChange == phase = "open" /\ changes < MaxChanges /\ changes' = changes + 1

(* _write raises after the document in memory has changed: the endpoint fails  *)
(* before it reaches the catalog.                                              *)
WriteFails(p) ==
    /\ faults < MaxFaults /\ faults' = faults + 1
    /\ unsaved' = unsaved \cup {p} /\ UNCHANGED catalog

Written(p) == unsaved' = unsaved \ {p} /\ UNCHANGED faults

SaveProvider(p, k) ==
    /\ CanChange
    /\ credential' = [credential EXCEPT ![p] = k]
    /\ \/ Written(p) /\ ScheduleRefresh(p, k)
       \/ WriteFails(p)
    /\ UNCHANGED request

ClearProvider(p) ==
    /\ CanChange
    /\ credential' = [credential EXCEPT ![p] = None]
    /\ \/ Written(p) /\ Invalidate(p)
       \/ WriteFails(p)
    /\ UNCHANGED request

(* discover(): the cache answers, a refresh in flight is awaited, or one starts. *)
DiscoverModels(r, p) ==
    LET k == credential[p]
        i == inflight[<<p, k>>] IN
    /\ phase = "open" /\ request[r] = New
    /\ k # None
    /\ \/ /\ <<p, k>> \in cache
          /\ PublishAny(p, k, "ready")
          /\ request' = [request EXCEPT ![r] = Answered]
          /\ UNCHANGED <<inflight, task>>
       \/ /\ <<p, k>> \notin cache /\ i # NoTask
          /\ owner' = [owner EXCEPT ![p] = k]
          /\ request' = [request EXCEPT ![r] =
                IF Running(i) THEN [pc |-> "waiting", on |-> i] ELSE Answered]
          /\ UNCHANGED <<status, inflight, task>>
       \/ /\ <<p, k>> \notin cache /\ i = NoTask
          /\ PublishAny(p, k, "loading")
          /\ StartTask(p, k)
          /\ request' = [request EXCEPT ![r] = [pc |-> "waiting", on |-> inflight'[<<p, k>>]]]
    /\ UNCHANGED <<store, cache, changes, faults>>

(* A shielded caller gets the result, the error or the cancellation of the task. *)
RequestResumes(r) ==
    /\ request[r].pc = "waiting" /\ task[request[r].on].pc = "gone"
    /\ request' = [request EXCEPT ![r] = Answered]
    /\ UNCHANGED <<store, catalog, changes, faults>>
-----------------------------------------------------------------------------
(* The refresh task, _discover_uncached. *)
Only(i, t) == task' = [task EXCEPT ![i] = t] /\ UNCHANGED <<store, inflight, request, changes, faults>>

TaskBegins(i) ==
    /\ task[i].pc = "created"
    /\ Only(i, [task[i] EXCEPT !.pc = IF task[i].cancel THEN "done" ELSE "fetching"])
    /\ UNCHANGED <<status, owner, cache>>

(* The fetch answers, fails or times out, also between a cancellation and the  *)
(* step that would deliver it.                                                 *)
FetchEnds(i) ==
    /\ task[i].pc = "fetching"
    /\ \E result \in {"models", "error"} :
          Only(i, [task[i] EXCEPT !.pc = "fetched", !.result = result])
    /\ UNCHANGED <<status, owner, cache>>

(* asyncio.wait_for in Python 3.11 returns the result of a fetch that has ended *)
(* although the task was cancelled, so that a cancelled refresh still publishes. *)
Publishes(i) ==
    LET t == task[i] IN
    /\ t.pc = "fetched"
    /\ cache' = IF t.result = "models" THEN cache \cup {<<t.provider, t.key>>} ELSE cache
    /\ SetStatus(t.provider, t.key, IF t.result = "models" THEN "ready" ELSE "error")
    /\ Only(i, [t EXCEPT !.pc = "done"])

(* Later versions of Python, and a fetch that has not ended: the task stops. *)
TaskCancelled(i) ==
    /\ task[i].pc \in {"fetching", "fetched"} /\ task[i].cancel
    /\ Only(i, [task[i] EXCEPT !.pc = "done"])
    /\ UNCHANGED <<status, owner, cache>>

(* _task_done pops the entry if it still names this task. *)
TaskDone(i) ==
    /\ task[i].pc = "done"
    /\ task' = [task EXCEPT ![i] = [Unstarted EXCEPT !.pc = "gone"]]
    /\ inflight' = [pk \in Provider \X Key |-> IF inflight[pk] = i THEN NoTask ELSE inflight[pk]]
    /\ UNCHANGED <<store, status, owner, cache, request, changes, faults>>

(* cache_seconds pass. *)
Expire(pk) ==
    /\ pk \in cache /\ cache' = cache \ {pk}
    /\ UNCHANGED <<store, status, owner, inflight, task, request, changes, faults>>

TaskStep(i) == TaskBegins(i) \/ FetchEnds(i) \/ Publishes(i) \/ TaskCancelled(i) \/ TaskDone(i)

CatalogStep ==
    \/ \E p \in Provider : \/ \E k \in Key : SaveProvider(p, k)
                           \/ ClearProvider(p)
                           \/ \E r \in Request : DiscoverModels(r, p)
    \/ \E r \in Request : RequestResumes(r)
    \/ \E i \in Task : TaskStep(i)
    \/ \E pk \in Provider \X Key : Expire(pk)
-----------------------------------------------------------------------------
(* The shutdown closes the catalog last. *)
AwaitedTasks == {i \in Task : \E pk \in Provider \X Key : inflight[pk] = i}

CatalogCloses ==
    /\ phase = "catalog"
    /\ phase' = "gathering"
    /\ task' = [i \in Task |-> IF i \in AwaitedTasks /\ Running(i)
                                 THEN [task[i] EXCEPT !.cancel = TRUE] ELSE task[i]]
    /\ UNCHANGED <<store, status, owner, cache, inflight, request, changes, faults>>

CatalogClosed ==
    /\ phase = "gathering" /\ AwaitedTasks = {}
    /\ phase' = "closed"
    /\ UNCHANGED catalogVars
-----------------------------------------------------------------------------
CatalogTypeOK ==
    /\ credential \in [Provider -> Key \cup {None}] /\ unsaved \subseteq Provider
    /\ status \in [Provider -> [state : {"idle", "loading", "ready", "error"},
                                from : Key \cup {None}]]
    /\ owner \in [Provider -> Key \cup {None}] /\ cache \subseteq Provider \X Key
    /\ inflight \in [Provider \X Key -> Task \cup {NoTask}]
    /\ task \in [Task -> [pc : {"none", "created", "fetching", "fetched", "done", "gone"},
                          provider : Provider \cup {None}, key : Key \cup {None},
                          cancel : BOOLEAN, result : {"none", "models", "error"}]]
    /\ request \in [Request -> [pc : {"new", "waiting", "answered"}, on : Task \cup {NoTask}]]
    /\ changes \in 0..MaxChanges /\ faults \in 0..MaxFaults
    /\ phase \in {"open", "clients", "catalog", "gathering", "closed"}

(* A configured provider that is shown as "verified" was verified with the key *)
(* that is configured now, whichever refresh answered late; only a save that    *)
(* was reported as failed leaves the old verification beside a new key.         *)
VerifiedIsCurrent ==
    \A p \in Provider \ unsaved :
        credential[p] # None /\ status[p].state = "ready" => status[p].from = credential[p]

=============================================================================
