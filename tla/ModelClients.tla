---------------------------- MODULE ModelClients ----------------------------
(* The HTTP clients of the model providers: the OpenAICompatibleClientPool, the *)
(* adapter that leases a client to a Turn, credentials that rotate under        *)
(* running Turns (ModelCatalog), and the shutdown of both.                      *)
(*                                                                              *)
(* A client is named after the Turn whose adapter created it.  Its transport    *)
(* key is its provider and credential; endpoint and timeout follow from the     *)
(* provider.                                                                    *)
EXTENDS ModelCatalog, Sequences, SequencesExt

CONSTANTS Turn,
          MaxClients        \* max_clients of the pool

ASSUME ClientAssumption == MaxClients \in Nat \ {0} /\ None \notin Turn /\ IsFiniteSet(Turn)

VARIABLES pool,             \* _clients, least recently used first
          client,           \* every client ever created
          adapter           \* the adapter of each Turn

clientVars == <<pool, client, adapter>>
vars == <<catalogVars, phase, clientVars>>

NoClient == [state |-> "none", provider |-> None, key |-> None, leases |-> 0]
NoAdapter == [pc |-> "new", client |-> None]

Init ==
    /\ CatalogInit
    /\ pool = <<>>
    /\ client = [c \in Turn |-> NoClient]
    /\ adapter = [t \in Turn |-> NoAdapter]
-----------------------------------------------------------------------------
Matching(p, k) == {i \in DOMAIN pool : client[pool[i]].provider = p /\ client[pool[i]].key = k}
Unleased == {i \in DOMAIN pool : client[pool[i]].leases = 0}

(* The pool without its i-th client and with c as the one used last. *)
Renewed(i, c) == [j \in DOMAIN pool |-> IF j < i THEN pool[j]
                                        ELSE IF j < Len(pool) THEN pool[j + 1] ELSE c]

Take(t, c) == adapter' = [adapter EXCEPT ![t] = [pc |-> "leased", client |-> c]]

(* _PooledClient with its first lease. *)
Create(p, k) == [state |-> "open", provider |-> p, key |-> k, leases |-> 1]

(* resolve(): the client of the key, or a new one, if need be in the place of   *)
(* the first idle one, which is closed in the background.                       *)
Reuse(t, p, k) ==
    \E i \in Matching(p, k) :
        /\ pool' = Renewed(i, pool[i])
        /\ client' = [client EXCEPT ![pool[i]].leases = @ + 1]
        /\ Take(t, pool[i])

Connect(t, p, k) ==
    /\ Matching(p, k) = {} /\ Len(pool) < MaxClients
    /\ pool' = Append(pool, t)
    /\ client' = [client EXCEPT ![t] = Create(p, k)]
    /\ Take(t, t)

Replace(t, p, k) ==
    /\ Matching(p, k) = {} /\ Len(pool) >= MaxClients
    /\ \E i \in Unleased :
          /\ \A j \in Unleased : i <= j
          /\ pool' = Renewed(i, t)
          /\ client' = [client EXCEPT ![pool[i]].state = "closing", ![t] = Create(p, k)]
    /\ Take(t, t)

RefuseFull(t, p, k) ==
    /\ Matching(p, k) = {} /\ Len(pool) >= MaxClients /\ Unleased = {}
    /\ adapter' = [adapter EXCEPT ![t].pc = "refused"]
    /\ UNCHANGED <<pool, client>>

(* ProductionRuntimeFactory's resolver: the key the store has now. *)
Resolve(t, p) ==
    LET k == credential[p] IN
    /\ phase = "open" /\ adapter[t].pc = "new" /\ k # None
    /\ Reuse(t, p, k) \/ Connect(t, p, k) \/ Replace(t, p, k) \/ RefuseFull(t, p, k)
    /\ UNCHANGED <<catalogVars, phase>>

(* Fault: the first of several Turns gives all leases of the client back. *)
ReleaseAll(t) ==
    LET c == adapter[t].client IN
    /\ adapter[t].pc = "leased"
    /\ adapter' = [adapter EXCEPT ![t] = [pc |-> "closed", client |-> None]]
    /\ client' = [client EXCEPT ![c].leases = 0]
    /\ UNCHANGED <<catalogVars, phase, pool>>

(* close() of the adapter at the end of its Turn, once. *)
Release(t) ==
    LET c == adapter[t].client IN
    /\ adapter[t].pc = "leased"
    /\ adapter' = [adapter EXCEPT ![t] = [pc |-> "closed", client |-> None]]
    /\ client' = IF c \in ToSet(pool) /\ client[c].leases > 0
                   THEN [client EXCEPT ![c].leases = @ - 1] ELSE client
    /\ UNCHANGED <<catalogVars, phase, pool>>

(* A rejected preflight whose turn_rejected is not committed never gets to the  *)
(* release of its adapter: the client stays leased.                             *)
Leak(t) ==
    /\ adapter[t].pc = "leased"
    /\ faults < MaxFaults /\ faults' = faults + 1
    /\ adapter' = [adapter EXCEPT ![t] = [pc |-> "leaked", client |-> None]]
    /\ UNCHANGED <<store, catalog, request, changes, phase, pool, client>>

(* The background close of a client returns, or fails. *)
CloseEnds(c) ==
    /\ client[c].state = "closing"
    /\ client' = [client EXCEPT ![c] = [NoClient EXCEPT !.state = "closed"]]
    /\ UNCHANGED <<catalogVars, phase, pool, adapter>>
-----------------------------------------------------------------------------
(* The shutdown: requests and Turns have ended; the pool closes its clients and *)
(* waits for them and for those it retired, then the catalog closes.            *)
Shutdown ==
    /\ phase = "open"
    /\ \A t \in Turn : adapter[t].pc # "leased"
    /\ \A r \in Request : request[r].pc # "waiting"
    /\ phase' = "clients"
    /\ client' = [c \in Turn |-> IF c \in ToSet(pool)
                                   THEN [client[c] EXCEPT !.state = "closing"] ELSE client[c]]
    /\ pool' = <<>>
    /\ UNCHANGED <<catalogVars, adapter>>

PoolClosed ==
    /\ phase = "clients"
    /\ \A c \in Turn : client[c].state # "closing"
    /\ phase' = "catalog"
    /\ UNCHANGED <<catalogVars, clientVars>>

Next ==
    \/ CatalogStep /\ UNCHANGED <<phase, clientVars>>
    \/ \E t \in Turn : \/ \E p \in Provider : Resolve(t, p)
                       \/ Release(t) \/ Leak(t) \/ CloseEnds(t)
    \/ Shutdown \/ PoolClosed
    \/ (CatalogCloses \/ CatalogClosed) /\ UNCHANGED clientVars

Spec == Init /\ [][Next]_vars
-----------------------------------------------------------------------------
TypeOK ==
    /\ CatalogTypeOK
    /\ pool \in Seq(Turn) /\ IsInjective(pool) /\ Len(pool) <= MaxClients
    /\ client \in [Turn -> [state : {"none", "open", "closing", "closed"},
                            provider : Provider \cup {None}, key : Key \cup {None},
                            leases : 0..Cardinality(Turn)]]
    /\ adapter \in [Turn -> [pc : {"new", "leased", "refused", "closed", "leaked"},
                             client : Turn \cup {None}]]

(* Docs: "Capacity eviction may close only an idle transport", and "Host       *)
(* shutdown closes every pooled client exactly once".  The client of a running *)
(* Turn stays open when its key is rotated or cleared and when other Turns     *)
(* need its place; when the shutdown is complete no client is open or still    *)
(* closing, those that were retired before or whose lease leaked included, and *)
(* no refresh goes on that was not cancelled.                                  *)
ClientsAccounted ==
    /\ \A t \in Turn : adapter[t].pc = "leased" => client[adapter[t].client].state = "open"
    /\ phase = "closed" =>
          /\ \A c \in Turn : client[c].state \in {"none", "closed"}
          /\ \A i \in Task : Running(i) => task[i].cancel
=============================================================================
