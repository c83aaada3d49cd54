--------------------------- MODULE WorkspaceLease ---------------------------
(***************************************************************************)
(* The WorkspaceLeaseManager of the Runtime: an immediate, bounded lock on  *)
(* normalized workspace roots.  There is no queue: a root that overlaps an  *)
(* active one, or a lease beyond the capacity, is refused at once.          *)
(*                                                                         *)
(* A path is a member of Workspace; Parents[w] is the set of its proper     *)
(* ancestors (pathlib's `parents`).  A lease id is fresh for every Turn, so *)
(* Lease is the set of Turns that may ever ask.                             *)
(***************************************************************************)
EXTENDS Naturals, FiniteSets

CONSTANTS Lease,            \* lease ids, one per Turn
          Workspace,        \* normalized roots
          Parents,          \* proper ancestors of each root
          MaxActiveTurns,   \* capacity of the manager
          None              \* no root

ASSUME ParentsAssumption  == Parents \in [Workspace -> SUBSET Workspace]
ASSUME CapacityAssumption == MaxActiveTurns \in 1..32
ASSUME LeaseAssumption    == IsFiniteSet(Lease) /\ None \notin Workspace

VARIABLE leases             \* the root each lease id holds, or None

(* The three clauses of _overlaps: equal roots, or one inside the other. *)
Overlaps(first, second) ==
    \/ first = second
    \/ first \in Parents[second]
    \/ second \in Parents[first]

Active == {l \in Lease : leases[l] # None}

(* Fault: roots compared without their ancestors. *)
SameRoot(w) == \E l \in Active : w = leases[l]

(* Both refusals of acquire(), in the order of the code. *)
AtCapacity == Cardinality(Active) >= MaxActiveTurns
Conflicts(w) == \E l \in Active : Overlaps(w, leases[l])
Busy(w) == AtCapacity \/ Conflicts(w)

Free == [l \in Lease |-> None]

Init == leases = Free

Acquire(l, w) ==
    /\ leases[l] = None
    /\ ~Busy(w)
    /\ leases' = [leases EXCEPT ![l] = w]

(* release() drops the lease only when the token still names its root, so a *)
(* second release of the same token changes nothing.                        *)
Release(l, w) ==
    leases' = IF leases[l] = w THEN [leases EXCEPT ![l] = None] ELSE leases

(* The manager is process memory: a process that ends leaves no lease. *)
ProcessEnds == leases' = Free

Next == \/ \E l \in Lease, w \in Workspace : Acquire(l, w) \/ Release(l, w)
        \/ ProcessEnds

Spec == Init /\ [][Next]_leases
-----------------------------------------------------------------------------
TypeOK == leases \in [Lease -> Workspace \cup {None}]

(* Two Turns never hold roots of which one contains the other: what the     *)
(* three clauses of _overlaps and the scan of every active lease are for.   *)
NoOverlap == \A l, m \in Active : l # m => ~Overlaps(leases[l], leases[m])

(* The manager never has more leases than its capacity (acquire's first     *)
(* refusal).                                                                *)
WithinCapacity == Cardinality(Active) <= MaxActiveTurns
=============================================================================
