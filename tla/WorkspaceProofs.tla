---------------------------- MODULE WorkspaceProofs ----------------------------
(***************************************************************************)
(* The lease manager (WorkspaceLease) and the file tools of the Turns that   *)
(* hold its leases (WorkspaceEdits), for every set of roots, paths, patches, *)
(* saves and I/O failures: leases exclude each other, a patch is applied     *)
(* whole or not at all, the changes a Turn reports are those on disk, and a  *)
(* save it has not seen is not overwritten.                                  *)
(***************************************************************************)
EXTENDS WorkspaceEdits, FiniteSetTheorems, SequenceTheorems, TLAPS

(* The leases table always maps lease ids to roots (the dict of              *)
(* WorkspaceLeaseManager).                                                  *)
THEOREM TypeCorrect == Spec => []TypeOK
<1>1. Init => TypeOK
  BY DEF Init, TypeOK, Free
<1>2. TypeOK /\ [Next]_leases => TypeOK'
  BY DEF TypeOK, Next, Acquire, Release, ProcessEnds, Free
<1>3. QED
  BY <1>1, <1>2, PTL DEF Spec

(* Releasing a lease, or losing them all, only shrinks the active set.       *)
LEMMA ActiveShrinks ==
    ASSUME TypeOK, NEW l \in Lease, NEW w \in Workspace, Release(l, w)
    PROVE  /\ Active' \subseteq Active
           /\ \A m \in Active' : leases'[m] = leases[m]
BY LeaseAssumption DEF TypeOK, Release, Active

(* acquire() refuses every root that overlaps an active one and release()     *)
(* never changes a root.                                                     *)
LEMMA NextExclusive ==
    ASSUME TypeOK, NoOverlap, [Next]_leases
    PROVE  TypeOK' /\ NoOverlap'
<1>1. ASSUME NEW l \in Lease, NEW w \in Workspace, Acquire(l, w)
      PROVE  NoOverlap'
  <2>1. Active' = Active \cup {l}
    BY <1>1, LeaseAssumption DEF Acquire, Active, TypeOK
  <2>2. leases'[l] = w /\ \A m \in Active : m # l /\ leases'[m] = leases[m]
    BY <1>1 DEF Acquire, Active, TypeOK
  <2>3. \A m \in Active : ~Overlaps(w, leases[m]) /\ ~Overlaps(leases[m], w)
    BY <1>1 DEF Acquire, Busy, Conflicts, Overlaps
  <2>4. QED
    BY <2>1, <2>2, <2>3 DEF NoOverlap, Overlaps
<1>2. ASSUME NEW l \in Lease, NEW w \in Workspace, Release(l, w)
      PROVE  NoOverlap'
  BY <1>2, ActiveShrinks DEF NoOverlap, Overlaps
<1>3. CASE ProcessEnds
  BY <1>3 DEF ProcessEnds, Free, NoOverlap, Active, TypeOK
<1>4. CASE UNCHANGED leases
  BY <1>4 DEF NoOverlap, Active, Overlaps, TypeOK
<1>5. TypeOK'
  BY DEF TypeOK, Next, Acquire, Release, ProcessEnds, Free
<1>6. QED
  BY <1>1, <1>2, <1>3, <1>4, <1>5 DEF Next

(* Two leases never overlap, however they are acquired and released.         *)
THEOREM MutualExclusion == Spec => []NoOverlap
<1>1. Init => TypeOK /\ NoOverlap
  BY DEF Init, TypeOK, NoOverlap, Active, Free
<1>2. QED
  BY <1>1, NextExclusive, PTL DEF Spec

(* There are never more leases than max_active_turns.                        *)
THEOREM Bounded == Spec => []WithinCapacity
<1>0. IsFiniteSet(Active) /\ Cardinality(Active) \in Nat
  BY LeaseAssumption, FS_Subset, FS_CardinalityType DEF Active
<1>1. Init => WithinCapacity
  <2>1. Init => Active = {}
    BY DEF Init, Free, Active
  <2>2. QED
    BY <2>1, FS_EmptySet, CapacityAssumption DEF WithinCapacity
<1>2. TypeOK /\ WithinCapacity /\ [Next]_leases => WithinCapacity'
  <2> SUFFICES ASSUME TypeOK, WithinCapacity, [Next]_leases
               PROVE  WithinCapacity'
    OBVIOUS
  <2>0. MaxActiveTurns \in Nat
    BY CapacityAssumption
  <2>1. ASSUME NEW l \in Lease, NEW w \in Workspace, Acquire(l, w)
        PROVE  WithinCapacity'
    <3>1. Active' = Active \cup {l} /\ l \notin Active
      BY <2>1, LeaseAssumption DEF Acquire, Active, TypeOK
    <3>2. Cardinality(Active') = Cardinality(Active) + 1
      BY <1>0, <3>1, FS_AddElement
    <3>3. Cardinality(Active) < MaxActiveTurns
      BY <1>0, <2>0, <2>1 DEF Acquire, Busy, AtCapacity
    <3>4. QED
      BY <1>0, <2>0, <3>2, <3>3 DEF WithinCapacity
  <2>2. ASSUME Active' \subseteq Active
        PROVE  WithinCapacity'
    <3>1. Cardinality(Active') <= Cardinality(Active) /\ Cardinality(Active') \in Nat
      BY <1>0, <2>2, FS_Subset, FS_CardinalityType
    <3>2. QED
      BY <1>0, <2>0, <3>1 DEF WithinCapacity
  <2>3. ASSUME NEW l \in Lease, NEW w \in Workspace, Release(l, w)
        PROVE  WithinCapacity'
    BY <2>2, <2>3, ActiveShrinks
  <2>4. CASE ProcessEnds
    BY <2>2, <2>4 DEF ProcessEnds, Free, Active
  <2>5. CASE UNCHANGED leases
    BY <2>2, <2>5 DEF Active
  <2>6. QED
    BY <2>1, <2>3, <2>4, <2>5 DEF Next
<1>3. QED
  BY <1>1, <1>2, TypeCorrect, PTL DEF Spec
-----------------------------------------------------------------------------
Area(t) == {Target[n] : n \in Inside[RootOf[t]]}
Working(t) == pc[t] \notin {"new", "ended"}
Writing(t, f) == Running(t) /\ ~IsRead(tool[t].ops) /\ f \in Files(tool[t].ops)
Steady(t, f) == ~tool[t].disturbed \/ f \notin Saved
FileOf(t, i) == Target[tool[t].ops[i].name]

Entry == {<<>>} \cup [File -> Contents]
Tool == [ops : Seq(Op), at : Nat, before : Seq(Contents), after : Seq(Contents),
         result : {"none", "refused", "ok", "failed", "incomplete"},
         entry : Entry, disturbed : BOOLEAN]
Recordable == {Unknown} \cup Contents

EditTypeOK ==
    /\ disk \in [File -> Contents]
    /\ pc \in [Lease -> {"new", "idle", "preparing", "committing", "rolling", "settled", "ended"}]
    /\ tool \in [Lease -> Tool]
    /\ known \in [Lease -> [File -> Recordable]]
    /\ original \in [Lease -> [File -> Recordable]] /\ final \in [Lease -> [File -> Recordable]]
    /\ calls \in [Lease -> 0 .. MaxCalls]
    /\ started \in [Lease -> [File -> Contents]] /\ viewed \in [Lease -> SUBSET Change]
    /\ saves \in Seq([file : File, quiet : SUBSET Lease]) /\ Len(saves) <= MaxSaves
    /\ torn \subseteq Lease /\ gone \subseteq Lease \X (1 .. Len(saves))

LeaseInv ==
    /\ \A t \in Lease : leases[t] = IF Working(t) THEN RootOf[t] ELSE None
    /\ TypeOK /\ NoOverlap

ToolOk(t) ==
    LET r == tool[t] IN
    Running(t) =>
    /\ r.ops \in Call /\ r.entry \in [File -> Contents] /\ calls[t] > 0
    /\ \A op \in ToSet(r.ops) : op.name \in Inside[RootOf[t]]
    /\ Len(r.before) = Len(r.after) /\ Len(r.before) <= Len(r.ops)
    /\ pc[t] = "preparing" => r.at = 0 /\ r.result = "none" /\ Len(r.before) < Len(r.ops)
    /\ pc[t] \in {"committing", "rolling"} =>
           ~IsRead(r.ops) /\ Len(r.before) = Len(r.ops) /\ r.at < Len(r.ops)
    /\ pc[t] = "committing" => r.result = "none"
    /\ pc[t] = "rolling" => r.result \in {"failed", "incomplete"}
    /\ pc[t] = "settled" =>
           \/ r.result = "ok" /\ IsRead(r.ops) /\ r.at = 0 /\ Len(r.before) = 1 /\ Head(r.before) # Missing
           \/ r.result = "ok" /\ ~IsRead(r.ops) /\ r.at = Len(r.ops)
           \/ r.result \in {"failed", "incomplete"} /\ r.at = 0
    /\ r.result = "incomplete" => t \in torn

Untouched(t, f) == tool[t].result # "incomplete" /\ \A i \in 1 .. tool[t].at : FileOf(t, i) # f

DiskOk(t) ==
    Running(t) => \A f \in Area(t) : Steady(t, f) =>
        /\ \A i \in 1 .. Len(tool[t].before) : FileOf(t, i) = f => tool[t].before[i] = tool[t].entry[f]
        /\ Untouched(t, f) => disk[f] = tool[t].entry[f]

Base(t, f) == IF Running(t) THEN tool[t].entry[f] ELSE disk[f]

TrackOk(t) ==
    /\ \A f \in File \ Area(t) : final[t][f] = Unknown
    /\ pc[t] = "new" => \A f \in File : original[t][f] = Unknown /\ final[t][f] = Unknown
    /\ Working(t) /\ t \notin torn => \A f \in Area(t) \ Saved :
        /\ original[t][f] \in {Unknown, started[t][f]}
        /\ original[t][f] = Unknown => final[t][f] = Unknown /\ ~Writing(t, f)
        /\ final[t][f] \in {Unknown, Base(t, f)}
        /\ final[t][f] = Unknown => Base(t, f) = started[t][f]

SaveOf(k) == <<"editor", k>>

SeenOk(t) ==
    pc[t] # "ended" => \A k \in DOMAIN saves : t \in saves[k].quiet /\ SaveOf(k) \notin viewed[t] =>
        LET f == saves[k].file IN
        /\ known[t][f] # Unknown /\ SaveOf(k) \notin Content(known[t][f])
        /\ Writing(t, f) =>
            /\ SaveOf(k) \notin Content(disk[f])
            /\ \A i \in 1 .. Len(tool[t].before) : FileOf(t, i) = f =>
                   SaveOf(k) \notin Content(tool[t].before[i]) \cup Content(tool[t].after[i])

Genuine(f, c) == \A k \in 1 .. MaxSaves :
    SaveOf(k) \in Content(c) => k \in DOMAIN saves /\ saves[k].file = f

GenuineOk(t) ==
    /\ \A f \in File : known[t][f] # Unknown => Genuine(f, known[t][f])
    /\ Running(t) => \A i \in 1 .. Len(tool[t].before) :
           Genuine(FileOf(t, i), tool[t].before[i]) /\ Genuine(FileOf(t, i), tool[t].after[i])

TurnOk(t) == ToolOk(t) /\ DiskOk(t) /\ TrackOk(t) /\ SeenOk(t) /\ GenuineOk(t)
EditInv ==
    /\ EditTypeOK /\ LeaseInv
    /\ \A f \in File : Genuine(f, disk[f])
    /\ \A t \in Lease : TurnOk(t)
    /\ SavesKept
-----------------------------------------------------------------------------
(* A content is a set of changes, or no file; nothing else is either.          *)
LEMMA ContentFacts ==
    /\ Unknown \notin Contents /\ Missing \notin SUBSET Change
    /\ \A c \in SUBSET Change : c \in Contents /\ Content(c) = c
    /\ \A c \in Contents : Content(c) \in SUBSET Change
    /\ Missing \in Contents /\ Content(Missing) = {}
BY ContentAssumption DEF Contents, Content

(* A call has operations, a read one only; its files are those of its names.   *)
LEMMA CallFacts ==
    ASSUME NEW ops \in Call
    PROVE  /\ ops \in Seq(Op) /\ Len(ops) \in Nat \ {0}
           /\ \A i \in 1 .. Len(ops) : /\ ops[i] \in Op /\ ops[i] \in ToSet(ops)
                                       /\ Target[ops[i].name] \in File
                                       /\ Target[ops[i].name] \in Files(ops)
                                       /\ ops[i].kind = "read" => Len(ops) = 1
           /\ \A f \in Files(ops) : f \in File /\ \E i \in 1 .. Len(ops) : f = Target[ops[i].name]
           /\ IsRead(ops) <=> ops[1].kind = "read"
           /\ IsRead(ops) => Len(ops) = 1
<1>1. ops \in Seq(Op) /\ ops # <<>> /\ \A op \in ToSet(ops) : op.kind = "read" => Len(ops) = 1
  BY EditAssumption
<1>2. Len(ops) \in Nat \ {0} /\ \A i \in 1 .. Len(ops) : ops[i] \in Op
  BY <1>1, LenProperties, EmptySeq
<1>3. ToSet(ops) = {ops[i] : i \in 1 .. Len(ops)}
  BY <1>1, LenProperties DEF ToSet
<1>4. Head(ops) = ops[1]
  BY <1>1, <1>2
<1>5. \A op \in Op : Target[op.name] \in File
  BY EditAssumption DEF Op
<1>6. QED
  BY <1>1, <1>2, <1>3, <1>4, <1>5 DEF Files, IsRead

(* The numbers and the constants that bound a run. *)
LEMMA Bounds == MaxCalls \in Nat /\ MaxSaves \in Nat /\ RootOf \in [Lease -> Workspace]
BY EditAssumption

(* The editor's saves, numbered. *)
LEMMA SavesFacts ==
    ASSUME EditTypeOK
    PROVE  /\ DOMAIN saves = 1 .. Len(saves) /\ Len(saves) \in Nat /\ Len(saves) <= MaxSaves
           /\ \A k \in DOMAIN saves : saves[k] \in [file : File, quiet : SUBSET Lease]
<1> DEFINE Record == [file : File, quiet : SUBSET Lease]
<1>1. saves \in Seq(Record) /\ Len(saves) <= MaxSaves
  BY DEF EditTypeOK
<1> HIDE DEF Record
<1>2. /\ DOMAIN saves = 1 .. Len(saves) /\ Len(saves) \in Nat
      /\ \A k \in DOMAIN saves : saves[k] \in Record
  BY <1>1, LenProperties
<1>3. QED
  BY <1>1, <1>2 DEF Record

(* Turns at work hold leases of their roots, so they share no file.            *)
LEMMA AreasDisjoint ==
    ASSUME LeaseInv, NEW t \in Lease, NEW v \in Lease, t # v, Working(t), Working(v)
    PROVE  Area(t) \cap Area(v) = {}
<1>1. leases[t] = RootOf[t] /\ leases[v] = RootOf[v]
  BY DEF LeaseInv
<1>2. RootOf[t] \in Workspace /\ RootOf[v] \in Workspace /\ None \notin Workspace
  BY Bounds, LeaseAssumption
<1>3. ~Overlaps(RootOf[t], RootOf[v])
  BY <1>1, <1>2 DEF LeaseInv, NoOverlap, Active
<1>4. QED
  BY <1>2, <1>3, ResolveAssumption DEF Area
-----------------------------------------------------------------------------
(* A step of one Turn: the others keep their place, and their files.           *)
Only(t) ==
    /\ \A v \in Lease \ {t} :
        /\ pc'[v] = pc[v] /\ tool'[v] = tool[v] /\ calls'[v] = calls[v]
        /\ known'[v] = known[v] /\ original'[v] = original[v] /\ final'[v] = final[v]
        /\ started'[v] = started[v] /\ viewed'[v] = viewed[v]
    /\ \A f \in File : disk'[f] # disk[f] => Working(t) /\ f \in Area(t)
    /\ saves' = saves /\ torn \subseteq torn' /\ torn' \subseteq torn \cup {t}

(* What holds of the other Turns still does. *)
LEMMA OthersOk ==
    ASSUME EditTypeOK, LeaseInv, NEW t \in Lease, Only(t), NEW v \in Lease, v # t, TurnOk(v)
    PROVE  TurnOk(v)'
<1>1. Area(v) \subseteq File
  BY EditAssumption DEF Area
<1>2. Working(v) => \A f \in Area(v) : disk'[f] = disk[f]
  BY <1>1, AreasDisjoint DEF Only
<1>3. /\ pc'[v] = pc[v] /\ tool'[v] = tool[v] /\ calls'[v] = calls[v]
      /\ known'[v] = known[v] /\ original'[v] = original[v] /\ final'[v] = final[v]
      /\ started'[v] = started[v] /\ viewed'[v] = viewed[v]
      /\ saves' = saves /\ (v \in torn' <=> v \in torn)
  BY DEF Only
<1>4. /\ Area(v)' = Area(v) /\ Working(v)' = Working(v) /\ Running(v)' = Running(v)
      /\ Saved' = Saved
      /\ Running(v) => Working(v)
  BY <1>3 DEF Area, Working, Running, Saved
<1>5. ToolOk(v)'
  BY <1>3, <1>4 DEF TurnOk, ToolOk
<1>6. \A f : Steady(v, f)' = Steady(v, f) /\ Writing(v, f)' = Writing(v, f)
             /\ Untouched(v, f)' = Untouched(v, f)
  BY <1>3, <1>4 DEF Steady, Writing, Untouched, FileOf
<1>7. \A i : FileOf(v, i)' = FileOf(v, i)
  BY <1>3 DEF FileOf
<1>8. DiskOk(v)'
  BY <1>2, <1>3, <1>4, <1>6, <1>7 DEF TurnOk, DiskOk
<1>9. TrackOk(v)'
  BY <1>1, <1>2, <1>3, <1>4, <1>6 DEF TurnOk, TrackOk, Base
<1>10. \A k \in DOMAIN saves : Writing(v, saves[k].file) => disk'[saves[k].file] = disk[saves[k].file]
  <2>1. ToolOk(v)
    BY DEF TurnOk
  <2>2. \A f : Writing(v, f) => Working(v) /\ f \in Area(v)
    BY <2>1, CallFacts DEF Writing, ToolOk, Area, Running, Working, Files
  <2>3. QED
    BY <1>2, <2>2
<1>11. SeenOk(v)'
  BY <1>3, <1>4, <1>6, <1>7, <1>10 DEF TurnOk, SeenOk, SaveOf
<1>12. GenuineOk(v)'
  BY <1>3, <1>4, <1>7 DEF TurnOk, GenuineOk, Genuine, SaveOf
<1>13. QED
  BY <1>5, <1>8, <1>9, <1>11, <1>12 DEF TurnOk
-----------------------------------------------------------------------------
(* What the worker of t may read from, or leave in, file f: it holds no save   *)
(* of another file and, if t writes f, none that t has yet to see.            *)
Clean(t, f, c) ==
    /\ Genuine(f, c)
    /\ Writing(t, f) => \A k \in DOMAIN saves :
           t \in saves[k].quiet /\ SaveOf(k) \notin viewed[t] /\ saves[k].file = f
           => SaveOf(k) \notin Content(c)

(* That is so of all it has read, prepared or will replace. *)
LEMMA CleanNow ==
    ASSUME EditInv, NEW t \in Lease, Running(t)
    PROVE  /\ \A f \in File : Clean(t, f, disk[f])
           /\ \A i \in 1 .. Len(tool[t].before) : /\ Clean(t, FileOf(t, i), tool[t].before[i])
                                                  /\ Clean(t, FileOf(t, i), tool[t].after[i])
<1>1. pc[t] # "ended" /\ SeenOk(t) /\ GenuineOk(t)
  BY DEF EditInv, TurnOk, Running
<1>2. \A f \in File : Clean(t, f, disk[f])
  BY <1>1 DEF EditInv, SeenOk, Clean
<1>3. QED
  BY <1>1, <1>2 DEF SeenOk, GenuineOk, Clean

(* A step of the worker of t: to p, with the call as r and the disk as d.      *)
WorkerStep(t, p, r, d) ==
    /\ pc' = [pc EXCEPT ![t] = p] /\ tool' = [tool EXCEPT ![t] = r] /\ disk' = d
    /\ UNCHANGED <<leases, tracker, calls, started, viewed, saves>>
    /\ torn' \in {torn, torn \cup {t}}

(* It keeps the invariant if the call and the disk it leaves are consistent.   *)
LEMMA WorkerOk ==
    ASSUME EditInv, NEW t \in Lease, Running(t),
           NEW p \in {"preparing", "committing", "rolling", "settled"},
           NEW r \in Tool, NEW d \in [File -> Contents], WorkerStep(t, p, r, d),
           r.ops = tool[t].ops, r.entry = tool[t].entry, r.disturbed = tool[t].disturbed,
           \A f \in File : Clean(t, f, d[f]) /\ (f \notin Area(t) => d[f] = disk[f]),
           \A i \in 1 .. Len(r.before) : /\ Clean(t, FileOf(t, i), r.before[i])
                                         /\ Clean(t, FileOf(t, i), r.after[i]),
           ToolOk(t)', DiskOk(t)', gone' \subseteq Lease \X (1 .. Len(saves)), SavesKept'
    PROVE  EditInv'
<1>1. /\ EditTypeOK /\ LeaseInv /\ TurnOk(t)
      /\ pc'[t] = p /\ tool'[t] = r
      /\ leases' = leases /\ saves' = saves /\ known' = known /\ original' = original
      /\ final' = final /\ started' = started /\ viewed' = viewed /\ calls' = calls /\ disk' = d
      /\ Running(t)' /\ Working(t)' /\ Working(t) /\ Area(t)' = Area(t) /\ Saved' = Saved
      /\ \A v \in Lease : Working(v)' = Working(v)
  BY DEF EditInv, EditTypeOK, WorkerStep, tracker, Running, Working, Area, Saved
<1>2. EditTypeOK'
  BY <1>1 DEF EditTypeOK, WorkerStep
<1>3. LeaseInv'
  BY <1>1 DEF LeaseInv, TypeOK, NoOverlap, Active
<1>4. \A f, c : Genuine(f, c)' = Genuine(f, c)
  BY <1>1 DEF Genuine, SaveOf
<1>5. (\A f \in File : Genuine(f, disk[f]))'
  BY <1>1, <1>4 DEF Clean
<1>6. Only(t)
  BY <1>1 DEF Only, WorkerStep, EditTypeOK
<1>7. \A v \in Lease \ {t} : TurnOk(v)'
  BY <1>1, <1>6, OthersOk DEF EditInv
<1>8. \A f : Writing(t, f)' = Writing(t, f)
  BY <1>1 DEF Writing
<1>9. \A i : FileOf(t, i)' = FileOf(t, i)
  BY <1>1 DEF FileOf
<1>10. TrackOk(t)'
  <2>1. torn \subseteq torn' /\ pc[t] # "new" /\ p # "new"
    BY DEF WorkerStep, Running
  <2>2. \A f \in File : Base(t, f)' = Base(t, f)
    BY <1>1 DEF Base
  <2>3. Area(t) \subseteq File
    BY EditAssumption DEF Area
  <2>4. QED
    BY <1>1, <1>8, <2>1, <2>2, <2>3 DEF TurnOk, TrackOk
<1>11. SeenOk(t)'
  <2> SUFFICES ASSUME NEW k \in DOMAIN saves, t \in saves[k].quiet, SaveOf(k) \notin viewed[t]
               PROVE  LET f == saves[k].file IN
                      /\ known[t][f] # Unknown /\ SaveOf(k) \notin Content(known[t][f])
                      /\ Writing(t, f) =>
                          /\ SaveOf(k) \notin Content(d[f])
                          /\ \A i \in 1 .. Len(r.before) : FileOf(t, i) = f =>
                                 SaveOf(k) \notin Content(r.before[i]) \cup Content(r.after[i])
    BY <1>1, <1>8, <1>9 DEF SeenOk, SaveOf
  <2>1. saves[k].file \in File
    BY <1>1, SavesFacts
  <2>2. QED
    BY <1>1, <2>1 DEF TurnOk, SeenOk, Clean, Working
<1>12. GenuineOk(t)'
  BY <1>1, <1>4, <1>9 DEF TurnOk, GenuineOk, Clean
<1>13. TurnOk(t)'
  BY <1>10, <1>11, <1>12 DEF TurnOk
<1>14. QED
  BY <1>2, <1>3, <1>5, <1>7, <1>13 DEF EditInv
-----------------------------------------------------------------------------
(* The call on the worker of t. *)
LEMMA OnWorker ==
    ASSUME EditInv, NEW t \in Lease, Running(t)
    PROVE  /\ tool[t] \in Tool /\ tool[t].ops \in Call /\ tool[t].entry \in [File -> Contents]
           /\ Len(tool[t].ops) \in Nat \ {0}
           /\ tool[t].before \in Seq(Contents) /\ tool[t].after \in Seq(Contents)
           /\ Len(tool[t].before) \in Nat /\ Len(tool[t].after) = Len(tool[t].before)
           /\ Len(tool[t].before) <= Len(tool[t].ops)
           /\ \A i \in 1 .. Len(tool[t].ops) : FileOf(t, i) \in Area(t) /\ FileOf(t, i) \in File
           /\ calls[t] \in 1 .. MaxCalls /\ Area(t) \subseteq File
<1>1. EditTypeOK /\ ToolOk(t)
  BY DEF EditInv, TurnOk
<1>2. tool[t] \in Tool
  BY <1>1 DEF EditTypeOK
<1>3. /\ tool[t].ops \in Call /\ tool[t].entry \in [File -> Contents]
      /\ Len(tool[t].before) = Len(tool[t].after) /\ Len(tool[t].before) <= Len(tool[t].ops)
      /\ \A op \in ToSet(tool[t].ops) : op.name \in Inside[RootOf[t]]
      /\ calls[t] > 0
  BY <1>1 DEF ToolOk
<1>4. calls[t] \in 0 .. MaxCalls /\ MaxCalls \in Nat
  BY <1>1, Bounds DEF EditTypeOK
<1>5. tool[t].before \in Seq(Contents) /\ tool[t].after \in Seq(Contents)
  BY <1>2 DEF Tool
<1>6. \A i \in 1 .. Len(tool[t].ops) : FileOf(t, i) \in Area(t) /\ FileOf(t, i) \in File
  BY <1>3, CallFacts DEF FileOf, Area
<1>7. Area(t) \subseteq File
  BY EditAssumption DEF Area
<1>8. QED
  BY <1>2, <1>3, <1>4, <1>5, <1>6, <1>7, CallFacts, LenProperties

(* A sequence with one element more. *)
LEMMA Appended ==
    ASSUME NEW S, NEW s \in Seq(S), NEW x \in S
    PROVE  /\ Append(s, x) \in Seq(S) /\ Len(Append(s, x)) = Len(s) + 1 /\ Len(s) \in Nat
           /\ \A i \in 1 .. Len(s) + 1 : Append(s, x)[i] = IF i = Len(s) + 1 THEN x ELSE s[i]
OBVIOUS

(* What is prepared for a file is as clean as what was read of it.             *)
LEMMA PreparedClean ==
    ASSUME EditInv, NEW t \in Lease, Running(t), NEW op \in Op, NEW f \in File, NEW c \in Contents,
           Clean(t, f, c)
    PROVE  Prepared(t, op, c) \in Contents /\ Clean(t, f, Prepared(t, op, c))
<1>1. Mark(t) \in SUBSET Change /\ \A k : SaveOf(k) \notin Mark(t)
  BY OnWorker, ContentAssumption DEF Mark, SaveOf, Change
<1>2. Content(c) \cup Mark(t) \in SUBSET Change
  BY <1>1, ContentFacts
<1>3. /\ Prepared(t, op, c) \in Contents
      /\ Content(Prepared(t, op, c)) \subseteq Content(c) \cup Mark(t)
  BY <1>1, <1>2, ContentFacts, ZenonT(30) DEF Prepared
<1>4. QED
  BY <1>1, <1>3 DEF Clean, Genuine

(* A read that succeeded, a failed hunk, or one path more prepared.            *)
LEMMA PrepareKeeps ==
    ASSUME EditInv, NEW t \in Lease, PrepareOp(t)
    PROVE  EditInv'
<1> DEFINE r == tool[t]
           n == Len(r.before) + 1
           op == r.ops[n]
           f == FileOf(t, n)
           c == disk[f]
           a == Prepared(t, op, c)
           next == [r EXCEPT !.before = Append(r.before, c), !.after = Append(r.after, a)]
<1>1. Running(t) /\ pc[t] = "preparing" /\ EditTypeOK /\ ToolOk(t) /\ DiskOk(t)
  BY DEF PrepareOp, Running, EditInv, TurnOk
<1>2. r.at = 0 /\ r.result = "none" /\ Len(r.before) < Len(r.ops)
  BY <1>1 DEF ToolOk
<1>3. n \in 1 .. Len(r.ops) /\ op \in Op /\ f \in File /\ f \in Area(t) /\ c \in Contents
  BY <1>1, <1>2, OnWorker, CallFacts DEF EditTypeOK
<1>4. a \in Contents /\ Clean(t, f, c) /\ Clean(t, f, a)
  BY <1>1, <1>3, CleanNow, PreparedClean
<1>5. \A g \in Area(t) : Steady(t, g) =>
          /\ disk[g] = r.entry[g]
          /\ \A i \in 1 .. Len(r.before) : FileOf(t, i) = g => r.before[i] = r.entry[g]
  BY <1>1, <1>2 DEF DiskOk, Untouched
<1>6. /\ Append(r.before, c) \in Seq(Contents) /\ Append(r.after, a) \in Seq(Contents)
      /\ Len(Append(r.before, c)) = n /\ Len(Append(r.after, a)) = n
      /\ \A i \in 1 .. n : /\ Append(r.before, c)[i] = IF i = n THEN c ELSE r.before[i]
                           /\ Append(r.after, a)[i] = IF i = n THEN a ELSE r.after[i]
  <2>1. r.before \in Seq(Contents) /\ r.after \in Seq(Contents) /\ Len(r.after) = Len(r.before)
    BY <1>1, OnWorker
  <2>2. c \in Contents /\ a \in Contents
    BY <1>3, <1>4
  <2> HIDE DEF c, a
  <2>3. QED
    BY <2>1, <2>2, Appended
<1>7. \A i \in 1 .. n : /\ Clean(t, FileOf(t, i), Append(r.before, c)[i])
                        /\ Clean(t, FileOf(t, i), Append(r.after, a)[i])
  <2>1. \A i \in 1 .. n : i # n => i \in 1 .. Len(r.before)
    BY <1>1, OnWorker
  <2>2. \A i \in 1 .. Len(r.before) : /\ Clean(t, FileOf(t, i), r.before[i])
                                      /\ Clean(t, FileOf(t, i), r.after[i])
    BY <1>1, CleanNow
  <2>3. Clean(t, FileOf(t, n), c) /\ Clean(t, FileOf(t, n), a)
    BY <1>4
  <2> HIDE DEF c, a, n
  <2>4. QED
    BY <1>6, <2>1, <2>2, <2>3
<1>8. \A g \in File : Clean(t, g, disk[g])
  BY <1>1, CleanNow, ZenonT(30)
<1>9. /\ gone' \subseteq Lease \X (1 .. Len(saves)) /\ SavesKept'
  BY ZenonT(30) DEF PrepareOp, ghosts, EditInv, EditTypeOK, SavesKept
<1>10. ASSUME NEW p \in {"preparing", "committing", "settled"}, NEW q \in Tool, 
              pc' = [pc EXCEPT ![t] = p], tool' = [tool EXCEPT ![t] = q],
              q.ops = r.ops, q.entry = r.entry, q.disturbed = r.disturbed, q.at = 0,
              q.result # "incomplete",
              \/ q.before = r.before /\ q.after = r.after
              \/ q.before = Append(r.before, c) /\ q.after = Append(r.after, a),
              p = "preparing" => q.result = "none" /\ Len(q.before) < Len(q.ops),
              p = "committing" => q.result = "none" /\ ~IsRead(q.ops) /\ Len(q.before) = Len(q.ops),
              p = "settled" => \/ q.result = "failed"
                               \/ /\ q.result = "ok" /\ IsRead(q.ops)
                                  /\ Len(q.before) = 1 /\ q.before[1] # Missing
       PROVE  EditInv'
  <2>1. WorkerStep(t, p, q, disk)
    BY <1>10, ZenonT(30) DEF PrepareOp, WorkerStep, ghosts, tracker
  <2>2. tool'[t] = q /\ pc'[t] = p /\ calls' = calls /\ disk' = disk /\ saves' = saves
    BY <1>1, <1>10, ZenonT(30) DEF PrepareOp, ghosts, EditTypeOK
  <2>3. \A i : FileOf(t, i)' = FileOf(t, i)
    BY <1>10, <2>2 DEF FileOf
  <2>9. \A i \in 1 .. Len(q.before) :
           \/ i = n /\ q.before[i] = c /\ q.after[i] = a
           \/ i \in 1 .. Len(r.before) /\ q.before[i] = r.before[i] /\ q.after[i] = r.after[i]
    <3>1. Len(r.before) \in Nat
      BY <1>1, OnWorker
    <3> HIDE DEF c, a, r
    <3>2. CASE q.before = r.before /\ q.after = r.after
      BY <3>2
    <3>3. CASE q.before = Append(r.before, c) /\ q.after = Append(r.after, a)
      <4>1. Len(q.before) = n
        BY <1>6, <3>3
      <4>2. \A i \in 1 .. n : i = n \/ i \in 1 .. Len(r.before)
        BY <3>1
      <4>3. \A i \in 1 .. n : /\ q.before[i] = IF i = n THEN c ELSE r.before[i]
                              /\ q.after[i] = IF i = n THEN a ELSE r.after[i]
        BY <1>6, <3>3
      <4> HIDE DEF n
      <4>4. QED
        BY <4>1, <4>2, <4>3
    <3>4. QED
      BY <1>10, <3>2, <3>3
  <2>4. ToolOk(t)'
    <3>1. Len(q.before) = Len(q.after) /\ Len(q.before) <= Len(q.ops)
      BY <1>1, <1>3, <1>6, <1>10, OnWorker
    <3>2. Len(q.before) = 1 => Head(q.before) = q.before[1]
      BY <1>1, <1>6, <1>10, OnWorker
    <3>3. /\ r.ops \in Call /\ r.entry \in [File -> Contents] /\ calls[t] > 0
          /\ \A x \in ToSet(r.ops) : x.name \in Inside[RootOf[t]]
      BY <1>1 DEF ToolOk
    <3>4. Len(q.ops) \in Nat \ {0}
      BY <1>1, <1>10, OnWorker
    <3>5. QED
      BY <1>10, <2>2, <3>1, <3>2, <3>3, <3>4 DEF ToolOk
  <2>5. DiskOk(t)'
    <3>1. \A g : Steady(t, g)' = Steady(t, g)
      BY <1>10, <2>2 DEF Steady, Saved
    <3>2. Area(t)' = Area(t)
      BY DEF Area
    <3>3. \A g \in Area(t) : Steady(t, g) =>
             \A i \in 1 .. Len(q.before) : FileOf(t, i) = g => q.before[i] = q.entry[g]
      <4>1. \A g \in Area(t) : Steady(t, g) /\ f = g => c = r.entry[g]
        BY <1>5
      <4> HIDE DEF c, r
      <4>2. QED
        <5> SUFFICES ASSUME NEW g \in Area(t), Steady(t, g), NEW i \in 1 .. Len(q.before), FileOf(t, i) = g
                     PROVE  q.before[i] = r.entry[g]
          BY <1>10
        <5>1. CASE i = n /\ q.before[i] = c
          BY <4>1, <5>1
        <5>2. CASE i \in 1 .. Len(r.before) /\ q.before[i] = r.before[i]
          BY <1>5, <5>2
        <5>3. QED
          BY <2>9, <5>1, <5>2
    <3>4. QED
      BY <1>5, <1>10, <2>2, <2>3, <3>1, <3>2, <3>3 DEF DiskOk, Untouched
  <2>6. \A i \in 1 .. Len(q.before) : /\ Clean(t, FileOf(t, i), q.before[i])
                                      /\ Clean(t, FileOf(t, i), q.after[i])
    <3>1. \A i \in 1 .. Len(r.before) : /\ Clean(t, FileOf(t, i), r.before[i])
                                        /\ Clean(t, FileOf(t, i), r.after[i])
      BY <1>1, CleanNow
    <3>2. Clean(t, FileOf(t, n), c) /\ Clean(t, FileOf(t, n), a)
      BY <1>4
    <3> HIDE DEF c, a, r, n
    <3>3. QED
      BY <2>9, <3>1, <3>2
  <2>7. disk \in [File -> Contents]
    BY <1>1 DEF EditTypeOK
  <2>8. QED
    BY <1>1, <1>8, <1>9, <1>10, <2>1, <2>4, <2>5, <2>6, <2>7, WorkerOk, ZenonT(30)
<1>11. CASE tool' = [tool EXCEPT ![t].result = "failed"] /\ pc' = [pc EXCEPT ![t] = "settled"]
  <2> DEFINE q == [r EXCEPT !.result = "failed"]
  <2>1. /\ q \in Tool /\ q.ops = r.ops /\ q.entry = r.entry /\ q.disturbed = r.disturbed
        /\ q.at = r.at /\ q.result = "failed" /\ q.before = r.before /\ q.after = r.after
    BY <1>1, OnWorker DEF Tool
  <2>2. tool' = [tool EXCEPT ![t] = q]
    BY <1>11
  <2> HIDE DEF q
  <2>3. QED
    BY <1>2, <1>10, <1>11, <2>1, <2>2
<1>12. /\ \A res \in {"none", "ok"} :
             LET q == [next EXCEPT !.result = res] IN
             /\ q \in Tool /\ q.ops = r.ops /\ q.entry = r.entry /\ q.disturbed = r.disturbed
             /\ q.at = r.at /\ q.result = res
             /\ q.before = Append(r.before, c) /\ q.after = Append(r.after, a)
       /\ next = [next EXCEPT !.result = "none"]
  <2>1. r \in Tool /\ Append(r.before, c) \in Seq(Contents) /\ Append(r.after, a) \in Seq(Contents)
    BY <1>1, <1>6, OnWorker
  <2> HIDE DEF c, a, r
  <2>2. QED
    BY <1>2, <2>1 DEF Tool
<1>13. CASE /\ Possible(op, c) /\ op.kind = "read"
            /\ tool' = [tool EXCEPT ![t] = [next EXCEPT !.result = "ok"]]
            /\ pc' = [pc EXCEPT ![t] = "settled"]
  <2> DEFINE q == [next EXCEPT !.result = "ok"]
  <2>1. Len(r.ops) = 1 /\ n = 1 /\ IsRead(r.ops) /\ c # Missing
    BY <1>1, <1>2, <1>3, <1>13, OnWorker, CallFacts, SMTT(30) DEF Possible
  <2>2. /\ q \in Tool /\ q.ops = r.ops /\ q.entry = r.entry /\ q.disturbed = r.disturbed
        /\ q.at = r.at /\ q.result = "ok"
        /\ q.before = Append(r.before, c) /\ q.after = Append(r.after, a)
    BY <1>12, ZenonT(30)
  <2>3. tool' = [tool EXCEPT ![t] = q]
    BY <1>13
  <2>4. Len(q.before) = 1 /\ q.before[1] # Missing
    BY <1>3, <1>6, <2>1, <2>2
  <2> HIDE DEF q, c, a, next
  <2>5. QED
    BY <1>2, <1>10, <1>13, <2>1, <2>2, <2>3, <2>4
<1>14. CASE /\ op.kind # "read" /\ tool' = [tool EXCEPT ![t] = next]
            /\ pc' = [pc EXCEPT ![t] = IF n = Len(r.ops) THEN "committing" ELSE @]
  <2> DEFINE q == [next EXCEPT !.result = "none"]
             p == IF n = Len(r.ops) THEN "committing" ELSE "preparing"
  <2>1. ~IsRead(r.ops)
    BY <1>1, <1>3, <1>14, OnWorker, CallFacts, SMTT(30)
  <2>2. /\ q \in Tool /\ q.ops = r.ops /\ q.entry = r.entry /\ q.disturbed = r.disturbed
        /\ q.at = r.at /\ q.result = "none"
        /\ q.before = Append(r.before, c) /\ q.after = Append(r.after, a)
    BY <1>12, ZenonT(30)
  <2>3. tool' = [tool EXCEPT ![t] = q] /\ pc' = [pc EXCEPT ![t] = p]
    BY <1>1, <1>12, <1>14
  <2>4. /\ p \in {"preparing", "committing"}
        /\ p = "preparing" => Len(q.before) < Len(q.ops)
        /\ p = "committing" => Len(q.before) = Len(q.ops)
    <3>1. n \in 1 .. Len(r.ops) /\ Len(r.ops) \in Nat /\ Len(q.before) = n /\ q.ops = r.ops
      BY <1>1, <1>3, <1>6, <2>2, OnWorker
    <3> HIDE DEF q, n
    <3>2. QED
      BY <3>1
  <2> HIDE DEF q, p, c, a, next
  <2>5. QED
    BY <1>2, <1>10, <2>1, <2>2, <2>3, <2>4
<1>15. QED
  BY <1>11, <1>13, <1>14, ZenonT(30) DEF PrepareOp, FileOf
-----------------------------------------------------------------------------
(* A step of the commit or of the rollback leaves the files as they were found *)
(* but for those of the paths that are committed.                            *)
LEMMA WriteKeeps ==
    ASSUME EditInv, NEW t \in Lease, pc[t] \in {"committing", "rolling"},
           NEW p \in {"committing", "rolling", "settled"}, NEW q \in Tool,
           NEW d \in [File -> Contents], WorkerStep(t, p, q, d),
           q.ops = tool[t].ops, q.entry = tool[t].entry, q.disturbed = tool[t].disturbed,
           q.before = tool[t].before, q.after = tool[t].after,
           \A f \in File : Clean(t, f, d[f]) /\ (f \notin Area(t) => d[f] = disk[f]),
           p # "settled" => q.at < Len(q.ops),
           p = "committing" => q.result = "none",
           p = "rolling" => q.result \in {"failed", "incomplete"},
           p = "settled" => \/ q.result = "ok" /\ q.at = Len(q.ops)
                            \/ q.result \in {"failed", "incomplete"} /\ q.at = 0,
           q.result = "incomplete" => t \in torn',
           \A g \in Area(t) :
               Steady(t, g) /\ q.result # "incomplete" /\ (\A i \in 1 .. q.at : FileOf(t, i) # g)
               => d[g] = q.entry[g],
           gone' \subseteq Lease \X (1 .. Len(saves)), SavesKept'
    PROVE  EditInv'
<1>1. Running(t) /\ ToolOk(t) /\ DiskOk(t) /\ EditTypeOK
  BY DEF Running, EditInv, TurnOk
<1>2. pc'[t] = p /\ tool'[t] = q /\ calls' = calls /\ disk' = d /\ saves' = saves
  BY <1>1 DEF WorkerStep, EditTypeOK
<1>3. ToolOk(t)'
  <2>1. /\ ~IsRead(q.ops) /\ Len(q.before) = Len(q.ops) /\ Len(q.before) = Len(q.after)
        /\ q.ops \in Call /\ q.entry \in [File -> Contents] /\ calls[t] > 0
        /\ \A x \in ToSet(q.ops) : x.name \in Inside[RootOf[t]]
    BY <1>1 DEF ToolOk
  <2>2. Len(q.ops) \in Nat \ {0}
    BY <1>1, OnWorker
  <2>3. /\ p = "preparing" => q.at = 0 /\ q.result = "none" /\ Len(q.before) < Len(q.ops)
        /\ p \in {"committing", "rolling"} =>
               ~IsRead(q.ops) /\ Len(q.before) = Len(q.ops) /\ q.at < Len(q.ops)
        /\ p = "settled" => \/ q.result = "ok" /\ ~IsRead(q.ops) /\ q.at = Len(q.ops)
                            \/ q.result \in {"failed", "incomplete"} /\ q.at = 0
        /\ Len(q.before) <= Len(q.ops)
    BY <2>1, <2>2
  <2>4. QED
    BY <1>2, <2>1, <2>3 DEF ToolOk
<1>4. \A i : FileOf(t, i)' = FileOf(t, i)
  BY <1>2 DEF FileOf
<1>5. DiskOk(t)'
  <2>1. \A g : Steady(t, g)' = Steady(t, g)
    BY <1>2 DEF Steady, Saved
  <2>2. Area(t)' = Area(t)
    BY DEF Area
  <2>3. \A g \in Area(t) : Steady(t, g) =>
           \A i \in 1 .. Len(q.before) : FileOf(t, i) = g => q.before[i] = q.entry[g]
    BY <1>1 DEF DiskOk
  <2>4. QED
    BY <1>2, <1>4, <2>1, <2>2, <2>3 DEF DiskOk, Untouched
<1>6. \A i \in 1 .. Len(q.before) : /\ Clean(t, FileOf(t, i), q.before[i])
                                    /\ Clean(t, FileOf(t, i), q.after[i])
  BY <1>1, CleanNow
<1>7. QED
  BY <1>1, <1>3, <1>5, <1>6, WorkerOk

(* What a commit replaces unseen was not saved while this Turn knew the file   *)
(* and ran no call: the version check has found such a save.                 *)
LEMMA UnseenIsLoud ==
    ASSUME EditInv, NEW t \in Lease, NEW f \in File, Writing(t, f), NEW c, NEW k \in Unseen(t, f, c)
    PROVE  k \in 1 .. Len(saves) /\ t \notin saves[k].quiet
<1>1. EditTypeOK /\ Genuine(f, disk[f]) /\ SeenOk(t) /\ pc[t] # "ended" /\ disk[f] \in Contents
  BY DEF EditInv, EditTypeOK, TurnOk, Writing, Running
<1>2. PICK m \in Content(disk[f]) \ viewed[t] : m[1] = "editor" /\ m[2] = k
  BY DEF Unseen
<1>3. m \in Change
  BY <1>1, <1>2, ContentFacts
<1>4. k \in 1 .. MaxSaves /\ m = SaveOf(k)
  BY <1>2, <1>3, ContentAssumption DEF Change, SaveOf
<1>5. k \in DOMAIN saves /\ saves[k].file = f
  BY <1>1, <1>2, <1>4 DEF Genuine
<1>6. QED
  BY <1>1, <1>2, <1>4, <1>5, SavesFacts DEF SeenOk

(* The call q is r with n paths committed and a result. *)
Moves(r, q, n, res) ==
    \/ q = [r EXCEPT !.at = n, !.result = res]
    \/ q = [r EXCEPT !.at = n] /\ res = r.result
    \/ q = [r EXCEPT !.result = res] /\ n = r.at

(* Its other fields are those of r. *)
LEMMA MovesType ==
    ASSUME NEW r \in Tool, NEW q, NEW n \in Nat,
           NEW res \in {"none", "refused", "ok", "failed", "incomplete"}, Moves(r, q, n, res)
    PROVE  /\ q \in Tool /\ q.ops = r.ops /\ q.at = n /\ q.result = res
           /\ q.before = r.before /\ q.after = r.after
           /\ q.entry = r.entry /\ q.disturbed = r.disturbed
BY DEF Tool, Moves

(* One path is committed. *)
LEMMA CommitKeeps ==
    ASSUME EditInv, NEW t \in Lease, CommitOp(t)
    PROVE  EditInv'
<1> DEFINE r == tool[t]
           i == r.at + 1
           f == FileOf(t, i)
           d == [disk EXCEPT ![f] = r.after[i]]
           last == i = Len(r.ops)
           res == IF last THEN "ok" ELSE "none"
           q == tool'[t]
           p == IF last THEN "settled" ELSE "committing"
<1>1. /\ pc[t] = "committing" /\ Running(t) /\ EditTypeOK /\ ToolOk(t) /\ DiskOk(t) /\ SavesKept
      /\ gone \subseteq Lease \X (1 .. Len(saves))
  BY DEF CommitOp, Running, EditInv, TurnOk, EditTypeOK
<1>2. r.result = "none" /\ ~IsRead(r.ops) /\ Len(r.before) = Len(r.ops) /\ r.at < Len(r.ops) /\ r \in Tool
  BY <1>1, OnWorker DEF ToolOk
<1>3. r.at \in Nat /\ i \in 1 .. Len(r.ops) /\ Len(r.ops) \in Nat
  BY <1>1, <1>2, OnWorker DEF Tool
<1>4. f \in File /\ f \in Area(t) /\ r.after[i] \in Contents /\ Clean(t, f, r.after[i])
  <2>1. i \in 1 .. Len(r.after) /\ r.after \in Seq(Contents)
    BY <1>1, <1>2, <1>3, OnWorker
  <2>2. r.after[i] \in Contents
    BY <2>1, ElementOfSeq
  <2>3. QED
    BY <1>1, <1>2, <1>3, <2>2, OnWorker, CleanNow
<1>5. Writing(t, f)
  BY <1>1, <1>2, <1>3, OnWorker, CallFacts DEF Writing, FileOf
<1>6. d \in [File -> Contents] /\ \A g \in File : d[g] = IF g = f THEN r.after[i] ELSE disk[g]
  BY <1>1, <1>4 DEF EditTypeOK
<1>7. /\ q \in Tool /\ q.ops = r.ops /\ q.entry = r.entry /\ q.disturbed = r.disturbed
      /\ q.before = r.before /\ q.after = r.after /\ q.at = i /\ q.result = res
  <2>1. Moves(r, q, i, res)
    BY <1>1, <1>2 DEF CommitOp, EditTypeOK, Moves
  <2>2. r \in Tool /\ i \in Nat /\ res \in {"none", "refused", "ok", "failed", "incomplete"}
    BY <1>2, <1>3
  <2> HIDE DEF q, i, last, res, r
  <2>3. QED
    BY <2>1, <2>2, MovesType
<1>8. pc' = [pc EXCEPT ![t] = p] /\ tool' = [tool EXCEPT ![t] = q]
  BY <1>1 DEF CommitOp, EditTypeOK
<1>9. WorkerStep(t, p, q, d)
  BY <1>8 DEF CommitOp, WorkerStep, FileOf, tracker
<1>10. \A g \in File : Clean(t, g, d[g]) /\ (g \notin Area(t) => d[g] = disk[g])
  BY <1>1, <1>4, <1>6, CleanNow
<1>11. \A g \in Area(t) : Steady(t, g) /\ (\A j \in 1 .. i : FileOf(t, j) # g) => d[g] = r.entry[g]
  <2> SUFFICES ASSUME NEW g \in Area(t), Steady(t, g), \A j \in 1 .. i : FileOf(t, j) # g
               PROVE  d[g] = r.entry[g]
    OBVIOUS
  <2>1. g # f /\ \A j \in 1 .. r.at : FileOf(t, j) # g
    BY <1>3
  <2>2. disk[g] = r.entry[g]
    BY <1>1, <1>2, <2>1 DEF DiskOk, Untouched
  <2>3. QED
    BY <1>1, <1>6, <2>1, <2>2, OnWorker
<1>12. gone' \subseteq Lease \X (1 .. Len(saves)) /\ SavesKept'
  <2>1. gone' = gone \cup ({t} \X Unseen(t, f, r.after[i])) /\ saves' = saves
    BY DEF CommitOp, FileOf
  <2>2. \A k \in Unseen(t, f, r.after[i]) : k \in 1 .. Len(saves) /\ t \notin saves[k].quiet
    BY <1>4, <1>5, UnseenIsLoud
  <2> HIDE DEF f, i, r
  <2>3. QED
    BY <1>1, <2>1, <2>2 DEF SavesKept
<1>13. /\ p \in {"committing", "settled"}
       /\ p # "settled" => q.at < Len(q.ops)
       /\ p = "committing" => q.result = "none"
       /\ p = "settled" => q.result = "ok" /\ q.at = Len(q.ops)
       /\ q.result # "incomplete"
  BY <1>3, <1>7
<1> HIDE DEF q, p, d, last, f
<1>14. QED
  BY <1>1, <1>6, <1>7, <1>9, <1>10, <1>11, <1>12, <1>13, WriteKeeps

(* The commit fails, and the rollback restores one path after the other, last   *)
(* first; it goes on past a path that it cannot restore.                      *)
LEMMA RollbackKeeps ==
    ASSUME EditInv, NEW t \in Lease,
           CommitFails(t) \/ RestoreOp(t) \/ RestoreFails(t) \/ RollbackEnds(t)
    PROVE  EditInv'
<1> DEFINE r == tool[t]
           q == tool'[t]
<1>1. /\ pc[t] \in {"committing", "rolling"} /\ Running(t) /\ EditTypeOK /\ ToolOk(t) /\ DiskOk(t)
      /\ SavesKept /\ gone \subseteq Lease \X (1 .. Len(saves))
  BY ZenonT(30) DEF CommitFails, RestoreOp, RestoreFails, RollbackEnds, Running, EditInv, TurnOk, EditTypeOK
<1>2. /\ ~IsRead(r.ops) /\ Len(r.before) = Len(r.ops) /\ r.at < Len(r.ops) /\ r \in Tool
      /\ pc[t] = "committing" => r.result = "none"
      /\ pc[t] = "rolling" => r.result \in {"failed", "incomplete"}
      /\ r.result = "incomplete" => t \in torn
  BY <1>1, OnWorker DEF ToolOk
<1>3. r.at \in Nat /\ Len(r.ops) \in Nat
  BY <1>1, <1>2, OnWorker, ZenonT(30) DEF Tool
<1>4. gone' \subseteq Lease \X (1 .. Len(saves)) /\ SavesKept'
  BY <1>1, ZenonT(30) DEF CommitFails, RestoreOp, RestoreFails, RollbackEnds, SavesKept, ghosts
<1>5. tool' = [tool EXCEPT ![t] = q]
  BY <1>1, ZenonT(30) DEF CommitFails, RestoreOp, RestoreFails, RollbackEnds, EditTypeOK
<1>6. disk \in [File -> Contents] /\ \A g \in File : Clean(t, g, disk[g])
  BY <1>1, CleanNow DEF EditTypeOK
<1>7. \A g \in Area(t) :
          Steady(t, g) /\ r.result # "incomplete" /\ (\A j \in 1 .. r.at : FileOf(t, j) # g)
          => disk[g] = r.entry[g]
  BY <1>1 DEF DiskOk, Untouched
<1>8. CASE CommitFails(t)
  <2>1. WorkerStep(t, "rolling", q, disk)
    BY <1>5, <1>8 DEF CommitFails, WorkerStep, ghosts, tracker
  <2>2. Moves(r, q, r.at, "failed") /\ pc[t] = "committing"
    BY <1>1, <1>8 DEF CommitFails, EditTypeOK, Moves
  <2>3. /\ q \in Tool /\ q.ops = r.ops /\ q.at = r.at /\ q.result = "failed"
        /\ q.before = r.before /\ q.after = r.after
        /\ q.entry = r.entry /\ q.disturbed = r.disturbed
    BY <1>2, <1>3, <2>2, MovesType
  <2>4. \A g \in Area(t) :
            Steady(t, g) /\ q.result # "incomplete" /\ (\A j \in 1 .. q.at : FileOf(t, j) # g)
            => disk[g] = q.entry[g]
    BY <1>2, <1>7, <2>2, <2>3
  <2> HIDE DEF q
  <2>5. QED
    BY <1>1, <1>2, <1>4, <1>6, <2>1, <2>3, <2>4, WriteKeeps
<1>9. CASE RollbackEnds(t)
  <2>1. WorkerStep(t, "settled", r, disk) /\ r.at = 0 /\ pc[t] = "rolling"
    BY <1>1, <1>9 DEF RollbackEnds, WorkerStep, ghosts, tracker, EditTypeOK
  <2>2. torn' = torn
    BY <1>9 DEF RollbackEnds, ghosts
  <2>3. QED
    BY <1>1, <1>2, <1>4, <1>6, <1>7, <2>1, <2>2, WriteKeeps
<1>10. CASE RestoreFails(t)
  <2>1. WorkerStep(t, "rolling", q, disk) /\ pc[t] = "rolling" /\ r.at > 0 /\ torn' = torn \cup {t}
    BY <1>1, <1>5, <1>10 DEF RestoreFails, WorkerStep, tracker, EditTypeOK
  <2>2. Moves(r, q, r.at - 1, "incomplete")
    BY <1>1, <1>10 DEF RestoreFails, EditTypeOK, Moves
  <2>3. r.at - 1 \in Nat
    BY <1>3, <2>1
  <2>4. /\ q \in Tool /\ q.ops = r.ops /\ q.at = r.at - 1 /\ q.result = "incomplete"
        /\ q.before = r.before /\ q.after = r.after
        /\ q.entry = r.entry /\ q.disturbed = r.disturbed
    BY <1>2, <2>2, <2>3, MovesType
  <2>5. q.at < Len(q.ops)
    BY <1>2, <1>3, <2>4
  <2> HIDE DEF q
  <2>6. QED
    BY <1>1, <1>2, <1>4, <1>6, <2>1, <2>4, <2>5, WriteKeeps
<1>11. CASE RestoreOp(t)
  <2> DEFINE f == FileOf(t, r.at)
             d == [disk EXCEPT ![f] = r.before[r.at]]
  <2>1. WorkerStep(t, "rolling", q, d) /\ pc[t] = "rolling" /\ r.at > 0 /\ torn' = torn
    BY <1>1, <1>5, <1>11 DEF RestoreOp, WorkerStep, tracker, ghosts, EditTypeOK, FileOf
  <2>2. Moves(r, q, r.at - 1, r.result)
    BY <1>1, <1>11 DEF RestoreOp, EditTypeOK, Moves
  <2>3. r.at - 1 \in Nat /\ r.result \in {"none", "refused", "ok", "failed", "incomplete"}
    BY <1>2, <1>3, <2>1
  <2>4. /\ q \in Tool /\ q.ops = r.ops /\ q.at = r.at - 1 /\ q.result = r.result
        /\ q.before = r.before /\ q.after = r.after
        /\ q.entry = r.entry /\ q.disturbed = r.disturbed
    BY <1>2, <2>2, <2>3, MovesType
  <2>5. q.at < Len(q.ops) /\ r.at \in 1 .. Len(r.before) /\ r.at \in 1 .. Len(r.ops)
    BY <1>2, <1>3, <2>1, <2>4
  <2>6. r.before[r.at] \in Contents
    BY <1>1, <2>5, OnWorker, ElementOfSeq
  <2>7. f \in File /\ f \in Area(t) /\ Clean(t, f, r.before[r.at])
    BY <1>1, <2>5, OnWorker, CleanNow
  <2>8. d \in [File -> Contents] /\ \A g \in File : d[g] = IF g = f THEN r.before[r.at] ELSE disk[g]
    BY <1>6, <2>6, <2>7
  <2>9. \A g \in File : Clean(t, g, d[g]) /\ (g \notin Area(t) => d[g] = disk[g])
    BY <1>6, <2>7, <2>8
  <2>10. \A g \in Area(t) :
            Steady(t, g) /\ q.result # "incomplete" /\ (\A j \in 1 .. q.at : FileOf(t, j) # g)
            => d[g] = q.entry[g]
    <3> SUFFICES ASSUME NEW g \in Area(t), Steady(t, g), q.result # "incomplete",
                        \A j \in 1 .. q.at : FileOf(t, j) # g
                 PROVE  d[g] = r.entry[g]
      BY <2>4
    <3>1. CASE g = f
      BY <1>1, <2>5, <2>7, <2>8, <3>1 DEF DiskOk
    <3>2. CASE g # f
      <4>1. \A j \in 1 .. r.at : FileOf(t, j) # g
        BY <1>3, <2>4, <3>2
      <4>2. QED
        BY <1>1, <1>7, <2>4, <2>8, <3>2, <4>1, OnWorker
    <3>3. QED
      BY <3>1, <3>2
  <2> HIDE DEF q, d, f
  <2>11. QED
    BY <1>1, <1>2, <1>4, <2>1, <2>4, <2>5, <2>8, <2>9, <2>10, WriteKeeps
<1>12. QED
  BY <1>8, <1>9, <1>10, <1>11, ZenonT(30)
-----------------------------------------------------------------------------
(* A step of one Turn on the event loop writes no file.                        *)
LEMMA LoopOk ==
    ASSUME EditInv, NEW t \in Lease, Only(t), disk' = disk, gone' = gone,
           EditTypeOK', LeaseInv', TurnOk(t)'
    PROVE  EditInv'
<1>1. saves' = saves /\ EditTypeOK /\ LeaseInv
  BY DEF Only, EditInv
<1>2. \A v \in Lease : TurnOk(v)'
  BY <1>1, OthersOk DEF EditInv
<1>3. (\A f \in File : Genuine(f, disk[f]))' /\ SavesKept'
  BY <1>1 DEF EditInv, Genuine, SaveOf, SavesKept
<1>4. QED
  BY <1>2, <1>3 DEF EditInv

(* A lease is held from the begin of a Turn to its end. *)
LEMMA LeaseTaken ==
    ASSUME EditInv, NEW t \in Lease, NEW p,
           pc' = [pc EXCEPT ![t] = p],
           \/ pc[t] = "new" /\ p = "idle" /\ Acquire(t, RootOf[t])
           \/ Working(t) /\ p = "ended" /\ Release(t, RootOf[t])
           \/ Working(t) /\ p \notin {"new", "ended"} /\ leases' = leases
    PROVE  LeaseInv'
<1>1. EditTypeOK /\ LeaseInv /\ TypeOK /\ NoOverlap /\ RootOf[t] \in Workspace
  BY Bounds DEF EditInv, LeaseInv
<1>2. [Next]_leases
  BY <1>1 DEF Next
<1>3. TypeOK' /\ NoOverlap'
  BY <1>1, <1>2, NextExclusive
<1>4. leases' = [leases EXCEPT ![t] = IF p \in {"new", "ended"} THEN None ELSE RootOf[t]]
  BY <1>1 DEF Acquire, Release, LeaseInv, TypeOK
<1>5. \A v \in Lease : leases'[v] = IF pc'[v] \notin {"new", "ended"} THEN RootOf[v] ELSE None
  BY <1>1, <1>4 DEF LeaseInv, TypeOK, Working, EditTypeOK
<1>6. QED
  BY <1>3, <1>5 DEF LeaseInv, Working

(* A Turn begins with the disk as it is and an empty tracker.                  *)
LEMMA BeginTurnKeeps ==
    ASSUME EditInv, NEW t \in Lease, BeginTurn(t)
    PROVE  EditInv'
<1>1. EditTypeOK /\ TurnOk(t) /\ pc[t] = "new"
  BY DEF EditInv, BeginTurn
<1>2. EditTypeOK'
  BY <1>1 DEF EditTypeOK, BeginTurn, tracker
<1>3. LeaseInv'
  BY <1>1, LeaseTaken DEF BeginTurn
<1>4. Only(t) /\ disk' = disk /\ gone' = gone
  BY <1>1 DEF BeginTurn, Only, tracker, EditTypeOK
<1>5. pc'[t] = "idle" /\ started'[t] = disk /\ tool' = tool /\ known' = known /\ original' = original
      /\ final' = final /\ viewed' = viewed /\ saves' = saves
  BY <1>1 DEF BeginTurn, EditTypeOK, tracker
<1>6. ToolOk(t)' /\ DiskOk(t)' /\ GenuineOk(t)'
  BY <1>1, <1>5 DEF ToolOk, DiskOk, GenuineOk, Running, TurnOk, Genuine, SaveOf
<1>7. TrackOk(t)'
  BY <1>1, <1>4, <1>5, EditAssumption DEF TrackOk, TurnOk, Base, Running, Writing, Area
<1>8. SeenOk(t)'
  BY <1>1, <1>4, <1>5 DEF SeenOk, TurnOk, Running, Writing, SaveOf
<1>9. QED
  BY <1>2, <1>3, <1>4, <1>6, <1>7, <1>8, LoopOk DEF TurnOk

(* A Turn that ends lets its files go. *)
LEMMA EndTurnKeeps ==
    ASSUME EditInv, NEW t \in Lease, EndTurn(t)
    PROVE  EditInv'
<1>1. EditTypeOK /\ TurnOk(t) /\ pc[t] = "idle"
  BY DEF EditInv, EndTurn
<1>2. EditTypeOK'
  BY <1>1 DEF EditTypeOK, EndTurn, tracker, ghosts
<1>3. LeaseInv'
  BY <1>1, LeaseTaken DEF EndTurn, Working
<1>4. Only(t) /\ disk' = disk /\ gone' = gone
  BY <1>1 DEF EndTurn, Only, tracker, ghosts, EditTypeOK
<1>5. pc'[t] = "ended" /\ known' = known /\ final' = final /\ saves' = saves
  BY <1>1 DEF EndTurn, EditTypeOK, tracker, ghosts
<1>6. TurnOk(t)'
  BY <1>1, <1>5 DEF ToolOk, DiskOk, GenuineOk, TrackOk, SeenOk, Running, Working, TurnOk, Genuine,
                    SaveOf, Area
<1>7. QED
  BY <1>2, <1>3, <1>4, <1>6, LoopOk

(* A call of which nothing is done yet. *)
Fresh(q, ops, entry, res) ==
    q = [ops |-> ops, at |-> 0, before |-> <<>>, after |-> <<>>, result |-> res,
         entry |-> entry, disturbed |-> FALSE]

(* It is a call, and has these fields. *)
LEMMA FreshType ==
    ASSUME NEW ops \in Seq(Op), NEW entry \in Entry, NEW q,
           NEW res \in {"none", "refused", "ok", "failed", "incomplete"}, Fresh(q, ops, entry, res)
    PROVE  /\ q \in Tool /\ q.ops = ops /\ q.entry = entry /\ q.result = res
           /\ q.at = 0 /\ q.before = <<>> /\ q.after = <<>> /\ q.disturbed = FALSE
<1>1. <<>> \in Seq(Contents)
  OBVIOUS
<1>2. QED
  BY <1>1 DEF Fresh, Tool

(* A call begins with the files as they are and their originals kept, or it is *)
(* refused because a known file has changed.                                  *)
LEMMA BeginCallKeeps ==
    ASSUME EditInv, NEW t \in Lease, NEW ops \in Call, BeginCall(t, ops)
    PROVE  EditInv'
<1> DEFINE q == tool'[t]
           fresh == [NoCall EXCEPT !.ops = ops, !.entry = disk]
           res == IF ~IsRead(ops) /\ VersionConflicts(t, ops) THEN "refused" ELSE "none"
           p == IF ~IsRead(ops) /\ VersionConflicts(t, ops) THEN "idle" ELSE "preparing"
<1>1. /\ EditTypeOK /\ pc[t] = "idle" /\ disk \in [File -> Contents]
      /\ TrackOk(t) /\ SeenOk(t) /\ GenuineOk(t)
  BY DEF EditInv, EditTypeOK, BeginCall, TurnOk
<1>2. /\ \/ IsRead(ops) /\ original' = original
         \/ ~IsRead(ops) /\ ~VersionConflicts(t, ops) /\ KeepOriginals(t, ops)
         \/ ~IsRead(ops) /\ VersionConflicts(t, ops) /\ original' = original
      /\ pc' = [pc EXCEPT ![t] = p] /\ tool' = [tool EXCEPT ![t] = q]
      /\ res = "none" => q = fresh
      /\ res = "refused" => q = [fresh EXCEPT !.result = "refused"]
  BY <1>1 DEF BeginCall, EditTypeOK
<1>3. Fresh(q, ops, disk, res)
  <2>1. fresh = [ops |-> ops, at |-> 0, before |-> <<>>, after |-> <<>>, result |-> "none",
                 entry |-> disk, disturbed |-> FALSE]
    <3>1. fresh = [NoCall EXCEPT !.ops = ops, !.entry = disk]
      OBVIOUS
    <3> HIDE DEF fresh
    <3>2. QED
      BY <3>1 DEF NoCall
  <2>2. CASE res = "none"
    BY <1>2, <2>1, <2>2 DEF Fresh
  <2>3. CASE res = "refused"
    <3> HIDE DEF fresh
    <3>1. q = [fresh EXCEPT !.result = "refused"]
      BY <1>2, <2>3
    <3>2. QED
      BY <2>1, <2>3, <3>1 DEF Fresh
  <2>4. QED
    BY <2>2, <2>3
<1> HIDE DEF q
<1>4. /\ q \in Tool /\ q.ops = ops /\ q.entry = disk /\ q.result = res
      /\ q.at = 0 /\ q.before = <<>> /\ q.after = <<>> /\ q.disturbed = FALSE
  <2>1. ops \in Seq(Op) /\ disk \in Entry
    BY <1>1, CallFacts DEF Entry
  <2>2. res \in {"none", "refused", "ok", "failed", "incomplete"}
    OBVIOUS
  <2> HIDE DEF res, p, fresh
  <2>3. /\ q.ops = ops /\ q.entry = disk /\ q.result = res
        /\ q.at = 0 /\ q.before = <<>> /\ q.after = <<>> /\ q.disturbed = FALSE
    BY <1>3 DEF Fresh
  <2>4. <<>> \in Seq(Contents)
    OBVIOUS
  <2>5. q \in Tool
    BY <1>3, <2>1, <2>2, <2>4 DEF Fresh, Tool
  <2>6. QED
    BY <2>3, <2>5
<1>5. /\ original' \in [Lease -> [File -> Recordable]]
      /\ \A v \in Lease \ {t} : original'[v] = original[v]
      /\ \A f \in File : \/ original'[t][f] = original[t][f]
                         \/ original[t][f] = Unknown /\ original'[t][f] = disk[f]
      /\ p = "preparing" /\ ~IsRead(ops) => \A f \in Files(ops) : original'[t][f] # Unknown
  <2>1. Files(ops) \subseteq File
    BY CallFacts
  <2>2. \A f \in File : disk[f] # Unknown /\ disk[f] \in Recordable
    BY <1>1, ContentFacts DEF Recordable
  <2>3. original \in [Lease -> [File -> Recordable]]
    BY <1>1 DEF EditTypeOK
  <2>4. CASE original' = original /\ (IsRead(ops) \/ VersionConflicts(t, ops))
    BY <1>2, <2>3, <2>4
  <2>5. CASE ~IsRead(ops) /\ KeepOriginals(t, ops)
    <3>1. original' = [original EXCEPT ![t] = [f \in File |-> IF f \in Files(ops) /\ original[t][f] = Unknown
                                                              THEN disk[f] ELSE original[t][f]]]
      BY <2>3, <2>5 DEF KeepOriginals
    <3> HIDE DEF p, res, fresh
    <3>2. QED
      BY <2>1, <2>2, <2>3, <3>1
  <2>6. QED
    BY <1>2, <2>4, <2>5
<1>6. /\ disk' = disk /\ saves' = saves /\ known' = known /\ final' = final /\ started' = started
      /\ viewed' = viewed /\ torn' = torn /\ gone' = gone /\ leases' = leases
      /\ calls' = [calls EXCEPT ![t] = calls[t] + 1] /\ calls[t] < MaxCalls
      /\ pc'[t] = p /\ tool'[t] = q
      /\ \A op \in ToSet(ops) : op.name \in Inside[RootOf[t]]
  BY <1>1, <1>2 DEF BeginCall, ghosts, EditTypeOK, q
<1>7. calls[t] \in Nat /\ calls' \in [Lease -> 0 .. MaxCalls] /\ calls'[t] > 0
  BY <1>1, <1>6, Bounds DEF EditTypeOK
<1>8. EditTypeOK'
  BY <1>1, <1>2, <1>4, <1>5, <1>6, <1>7 DEF EditTypeOK
<1>9. LeaseInv'
  BY <1>1, <1>2, <1>6, LeaseTaken DEF Working
<1>10. Only(t)
  BY <1>1, <1>2, <1>5, <1>6, <1>7 DEF Only, EditTypeOK
<1>11. Running(t)' <=> p = "preparing"
  BY <1>6 DEF Running
<1>12. Len(q.before) = 0 /\ Len(q.after) = 0 /\ Len(ops) \in Nat \ {0}
  BY <1>4, CallFacts
<1>13. ToolOk(t)'
  BY <1>1, <1>4, <1>6, <1>7, <1>11, <1>12 DEF ToolOk
<1>14. DiskOk(t)'
  BY <1>4, <1>6, <1>12 DEF DiskOk, Untouched
<1>15. \A f \in File : Base(t, f)' = disk[f] /\ Base(t, f) = disk[f]
  BY <1>1, <1>4, <1>6 DEF Base, Running
<1>16. \A f : Writing(t, f)' <=> p = "preparing" /\ ~IsRead(ops) /\ f \in Files(ops)
  BY <1>4, <1>6, <1>11 DEF Writing
<1>17. TrackOk(t)'
  <2>1. Area(t)' = Area(t) /\ Area(t) \subseteq File /\ Saved' = Saved /\ Working(t)
    BY <1>1, <1>6, EditAssumption DEF Area, Saved, Working
  <2>2. p # "new"
    OBVIOUS
  <2> HIDE DEF p
  <2>3. QED
    BY <1>1, <1>5, <1>6, <1>15, <1>16, <2>1, <2>2 DEF TrackOk
<1>18. SeenOk(t)'
  <2> SUFFICES ASSUME NEW k \in DOMAIN saves, t \in saves[k].quiet, SaveOf(k) \notin viewed[t],
                      NEW f, f = saves[k].file
               PROVE  /\ known[t][f] # Unknown /\ SaveOf(k) \notin Content(known[t][f])
                      /\ Writing(t, f)' => SaveOf(k) \notin Content(disk[f])
    BY <1>4, <1>6, <1>12 DEF SeenOk, SaveOf
  <2>1. known[t][f] # Unknown /\ SaveOf(k) \notin Content(known[t][f])
    BY <1>1 DEF SeenOk
  <2>2. Writing(t, f)' => known[t][f] = disk[f]
    BY <1>2, <1>16, <2>1 DEF VersionConflicts
  <2>3. QED
    BY <2>1, <2>2
<1>19. GenuineOk(t)'
  BY <1>1, <1>4, <1>6, <1>12 DEF GenuineOk, Genuine, SaveOf
<1>20. QED
  BY <1>6, <1>8, <1>9, <1>10, <1>13, <1>14, <1>17, <1>18, <1>19, LoopOk DEF TurnOk
-----------------------------------------------------------------------------
(* What the tracker takes from a settled call: of a write the files as they    *)
(* are, of a read what it returned, of a failure nothing.                     *)
LEMMA RecordedOk ==
    ASSUME EditInv, NEW t \in Lease, pc[t] = "settled"
    PROVE  /\ Files(tool[t].ops) \subseteq Area(t) /\ Area(t) \subseteq File
           /\ DOMAIN Recorded(t) = IF tool[t].result = "ok" THEN Files(tool[t].ops) ELSE {}
           /\ \A f \in DOMAIN Recorded(t) :
                 /\ Recorded(t)[f] \in Contents /\ Genuine(f, Recorded(t)[f])
                 /\ ~IsRead(tool[t].ops) => Recorded(t)[f] = disk[f]
                 /\ IsRead(tool[t].ops) => Recorded(t)[f] = Head(tool[t].before)
           /\ tool[t].result = "ok" /\ IsRead(tool[t].ops) => Head(tool[t].before) \in SUBSET Change
<1> DEFINE r == tool[t]
<1>1. Running(t) /\ EditTypeOK /\ ToolOk(t) /\ GenuineOk(t) /\ \A f \in File : Genuine(f, disk[f])
  BY DEF Running, EditInv, TurnOk
<1>2. Files(r.ops) \subseteq Area(t) /\ Area(t) \subseteq File
  BY <1>1, OnWorker DEF ToolOk, Files, Area
<1>3. DOMAIN Recorded(t) = IF r.result = "ok" THEN Files(r.ops) ELSE {}
  BY DEF Recorded
<1>4. ASSUME r.result = "ok", IsRead(r.ops)
      PROVE  /\ Head(r.before) \in Contents \ {Missing} /\ Head(r.before) = r.before[1]
             /\ \A f \in Files(r.ops) : Genuine(f, Head(r.before))
  <2>1. Len(r.before) = 1 /\ Head(r.before) # Missing /\ r.before \in Seq(Contents)
    BY <1>1, <1>4, OnWorker DEF ToolOk
  <2>2. Head(r.before) = r.before[1] /\ r.before[1] \in Contents
    BY <2>1, ElementOfSeq
  <2>3. r.ops \in Call /\ Len(r.ops) = 1
    BY <1>1, <1>4, OnWorker, CallFacts
  <2>4. \A f \in Files(r.ops) : f = FileOf(t, 1)
    BY <2>3, CallFacts DEF FileOf
  <2>5. Genuine(FileOf(t, 1), r.before[1])
    BY <1>1, <2>1 DEF GenuineOk
  <2>6. QED
    BY <2>1, <2>2, <2>4, <2>5
<1>5. \A f \in DOMAIN Recorded(t) :
          /\ ~IsRead(r.ops) => Recorded(t)[f] = disk[f]
          /\ IsRead(r.ops) => Recorded(t)[f] = Head(r.before)
  BY <1>3 DEF Recorded
<1>6. \A f \in File : disk[f] \in Contents
  BY <1>1 DEF EditTypeOK
<1>7. \A f \in DOMAIN Recorded(t) : Recorded(t)[f] \in Contents /\ Genuine(f, Recorded(t)[f])
  BY <1>1, <1>2, <1>3, <1>4, <1>5, <1>6
<1>8. r.result = "ok" /\ IsRead(r.ops) => Head(r.before) \in SUBSET Change
  BY <1>4 DEF Contents
<1>9. QED
  BY <1>2, <1>3, <1>5, <1>7, <1>8

(* The tracker's table with the records of some files in it.                   *)
LEMMA UpdateOk ==
    ASSUME NEW old \in [File -> Recordable], NEW new, \A f \in DOMAIN new : new[f] \in Contents
    PROVE  /\ Update(old, new) \in [File -> Recordable]
           /\ \A f \in File : Update(old, new)[f] = IF f \in DOMAIN new THEN new[f] ELSE old[f]
BY DEF Update, Recordable

(* The records of a call are the files it wrote or showed, as they are.        *)
LEMMA RecordCallKeeps ==
    ASSUME EditInv, NEW t \in Lease, RecordCall(t)
    PROVE  EditInv'
<1> DEFINE r == tool[t]
           q == tool'[t]
           new == Recorded(t)
           shown == r.result = "ok" /\ IsRead(r.ops)
<1>1. /\ EditTypeOK /\ pc[t] = "settled" /\ Running(t) /\ Working(t)
      /\ ToolOk(t) /\ DiskOk(t) /\ TrackOk(t) /\ SeenOk(t) /\ GenuineOk(t)
  BY DEF EditInv, EditTypeOK, RecordCall, TurnOk, Running, Working
<1>2. /\ disk' = disk /\ saves' = saves /\ original' = original /\ started' = started /\ calls' = calls
      /\ torn' = torn /\ gone' = gone /\ leases' = leases
      /\ pc' = [pc EXCEPT ![t] = "idle"] /\ pc'[t] = "idle"
      /\ tool' = [tool EXCEPT ![t] = q] /\ q = [NoCall EXCEPT !.result = r.result]
  BY <1>1 DEF RecordCall, EditTypeOK
<1>3. q \in Tool
  <2>1. Fresh(q, <<>>, <<>>, r.result)
    <3> HIDE DEF q
    <3>1. QED
      BY <1>2 DEF Fresh, NoCall
  <2>2. r.result \in {"none", "refused", "ok", "failed", "incomplete"}
    BY <1>1, OnWorker DEF Tool
  <2>3. <<>> \in Seq(Op) /\ <<>> \in Entry /\ <<>> \in Seq(Contents)
    BY DEF Entry
  <2> HIDE DEF q, r
  <2>4. QED
    BY <2>1, <2>2, <2>3 DEF Fresh, Tool
<1>4. /\ \A f \in DOMAIN new : new[f] \in Contents /\ Genuine(f, new[f])
      /\ known[t] \in [File -> Recordable] /\ final[t] \in [File -> Recordable]
  BY <1>1, RecordedOk DEF EditTypeOK
<1>5. /\ known' \in [Lease -> [File -> Recordable]]
      /\ \A f \in File : known'[t][f] = IF f \in DOMAIN new THEN new[f] ELSE known[t][f]
      /\ \A v \in Lease \ {t} : known'[v] = known[v]
  <2>1. known' = [known EXCEPT ![t] = Update(known[t], new)] /\ known \in [Lease -> [File -> Recordable]]
    BY <1>1 DEF RecordCall, EditTypeOK
  <2> HIDE DEF new
  <2>2. QED
    BY <1>4, <2>1, UpdateOk
<1>6. /\ final' \in [Lease -> [File -> Recordable]]
      /\ \A f \in File : final'[t][f] = IF f \in DOMAIN new /\ ~IsRead(r.ops) THEN new[f] ELSE final[t][f]
      /\ \A v \in Lease \ {t} : final'[v] = final[v]
  <2>1. /\ final' = IF shown THEN final ELSE [final EXCEPT ![t] = Update(final[t], new)]
        /\ final \in [Lease -> [File -> Recordable]]
        /\ r.result # "ok" => DOMAIN new = {}
    BY <1>1, RecordedOk DEF RecordCall, EditTypeOK
  <2> HIDE DEF new
  <2>2. QED
    BY <1>4, <2>1, UpdateOk
<1>7. /\ viewed' \in [Lease -> SUBSET Change]
      /\ viewed[t] \subseteq viewed'[t] /\ (shown => Head(r.before) \subseteq viewed'[t])
      /\ \A v \in Lease \ {t} : viewed'[v] = viewed[v]
  <2>1. /\ viewed' = IF shown THEN [viewed EXCEPT ![t] = viewed[t] \cup Head(r.before)] ELSE viewed
        /\ viewed \in [Lease -> SUBSET Change]
        /\ shown => Head(r.before) \in SUBSET Change
    BY <1>1, RecordedOk DEF RecordCall, EditTypeOK
  <2> HIDE DEF r, shown
  <2>2. QED
    BY <2>1
<1>8. EditTypeOK'
  <2> HIDE DEF q
  <2>1. QED
    BY <1>1, <1>2, <1>3, <1>5, <1>6, <1>7 DEF EditTypeOK
<1>9. LeaseInv'
  BY <1>1, <1>2, LeaseTaken
<1>10. Only(t)
  BY <1>1, <1>2, <1>5, <1>6, <1>7 DEF Only, EditTypeOK
<1>11. ~Running(t)' /\ Working(t)' /\ Area(t)' = Area(t) /\ Saved' = Saved
  BY <1>2 DEF Running, Working, Area, Saved
<1>12. ToolOk(t)' /\ DiskOk(t)'
  BY <1>11 DEF ToolOk, DiskOk
<1>13. TrackOk(t)'
  <2>1. /\ Files(r.ops) \subseteq Area(t) /\ Area(t) \subseteq File
        /\ DOMAIN new = IF r.result = "ok" THEN Files(r.ops) ELSE {}
        /\ \A f \in DOMAIN new : ~IsRead(r.ops) => new[f] = disk[f] /\ new[f] # Unknown
    BY <1>1, <1>4, RecordedOk, ContentFacts
  <2>2. \A f \in File \ Area(t) : final'[t][f] = Unknown
    BY <1>1, <1>6, <2>1 DEF TrackOk
  <2>3. ASSUME NEW f \in Area(t) \ Saved, t \notin torn
        PROVE  /\ original[t][f] \in {Unknown, started[t][f]}
               /\ original[t][f] = Unknown => final'[t][f] = Unknown
               /\ final'[t][f] \in {Unknown, disk[f]}
               /\ final'[t][f] = Unknown => disk[f] = started[t][f]
    <3>1. /\ original[t][f] \in {Unknown, started[t][f]}
          /\ original[t][f] = Unknown => final[t][f] = Unknown /\ ~Writing(t, f)
          /\ final[t][f] \in {Unknown, r.entry[f]}
          /\ final[t][f] = Unknown => r.entry[f] = started[t][f]
      BY <1>1, <2>3 DEF TrackOk, Base
    <3>2. CASE f \in DOMAIN new /\ ~IsRead(r.ops)
      BY <1>1, <1>6, <2>1, <3>1, <3>2 DEF Writing
    <3>3. CASE ~(f \in DOMAIN new /\ ~IsRead(r.ops))
      <4>1. Untouched(t, f)
        <5>1. r.result # "incomplete"
          BY <1>1, <2>3 DEF ToolOk
        <5>2. \A i \in 1 .. Len(r.ops) : FileOf(t, i) \in Files(r.ops)
          BY <1>1, OnWorker, CallFacts DEF FileOf
        <5>3. r.at = 0 \/ (r.at = Len(r.ops) /\ r.result = "ok" /\ ~IsRead(r.ops))
          BY <1>1 DEF ToolOk
        <5>4. QED
          BY <2>1, <3>3, <5>1, <5>2, <5>3 DEF Untouched
      <4>2. disk[f] = r.entry[f]
        BY <1>1, <2>3, <4>1 DEF DiskOk, Steady
      <4>3. QED
        BY <1>6, <2>1, <3>1, <3>3, <4>2
    <3>4. QED
      BY <3>2, <3>3
  <2>4. \A f : Base(t, f)' = disk[f] /\ ~Writing(t, f)'
    BY <1>2, <1>11 DEF Base, Writing
  <2>5. QED
    BY <1>2, <1>11, <2>2, <2>3, <2>4 DEF TrackOk
<1>14. SeenOk(t)'
  <2> SUFFICES ASSUME NEW k \in DOMAIN saves, t \in saves[k].quiet, SaveOf(k) \notin viewed'[t],
                      NEW f, f = saves[k].file
               PROVE  known'[t][f] # Unknown /\ SaveOf(k) \notin Content(known'[t][f])
    BY <1>2, <1>11 DEF SeenOk, SaveOf, Writing
  <2>1. /\ known[t][f] # Unknown /\ SaveOf(k) \notin Content(known[t][f])
        /\ Writing(t, f) => SaveOf(k) \notin Content(disk[f])
    BY <1>1, <1>7 DEF SeenOk
  <2>2. f \in File
    BY <1>1, SavesFacts
  <2>3. CASE f \in DOMAIN new
    <3>1. new[f] \in Contents /\ new[f] # Unknown /\ r.result = "ok" /\ f \in Files(r.ops)
      BY <1>1, <1>4, <2>3, RecordedOk, ContentFacts
    <3>2. CASE IsRead(r.ops)
      <4>1. new[f] = Head(r.before) /\ Head(r.before) \in SUBSET Change /\ Head(r.before) \subseteq viewed'[t]
        BY <1>1, <1>7, <2>3, <3>1, <3>2, RecordedOk
      <4>2. QED
        BY <1>5, <2>2, <2>3, <3>1, <4>1, ContentFacts
    <3>3. CASE ~IsRead(r.ops)
      <4>1. new[f] = disk[f] /\ Writing(t, f)
        BY <1>1, <2>3, <3>1, <3>3, RecordedOk DEF Writing
      <4>2. QED
        BY <1>5, <2>1, <2>2, <2>3, <3>1, <4>1
    <3>4. QED
      BY <3>2, <3>3
  <2>4. QED
    BY <1>5, <2>1, <2>2, <2>3
<1>15. GenuineOk(t)'
  BY <1>1, <1>2, <1>4, <1>5, <1>11 DEF GenuineOk, Genuine, SaveOf
<1>16. QED
  BY <1>2, <1>8, <1>9, <1>10, <1>12, <1>13, <1>14, <1>15, LoopOk DEF TurnOk

(* A settled call that is lost may leave some of its records, and ends the Turn. *)
LEMMA LoseCallKeeps ==
    ASSUME EditInv, NEW t \in Lease, LoseCall(t)
    PROVE  EditInv'
<1>1. /\ EditTypeOK /\ pc[t] = "settled" /\ Running(t) /\ Working(t) /\ TrackOk(t) /\ GenuineOk(t)
  BY DEF EditInv, LoseCall, TurnOk, Running, Working
<1>2. /\ disk' = disk /\ saves' = saves /\ original' = original /\ started' = started /\ calls' = calls
      /\ torn' = torn /\ gone' = gone /\ viewed' = viewed /\ tool' = tool
      /\ pc' = [pc EXCEPT ![t] = "ended"] /\ pc'[t] = "ended" /\ Release(t, RootOf[t])
  BY <1>1 DEF LoseCall, EditTypeOK, ghosts
<1>3. PICK recorded \in SUBSET DOMAIN Recorded(t) :
         /\ known' = [known EXCEPT ![t] = Update(known[t], [f \in recorded |-> Recorded(t)[f]])]
         /\ final' = IF recorded = {} \/ IsRead(tool[t].ops) THEN final
                     ELSE [final EXCEPT ![t] = Update(final[t], [f \in recorded |-> Recorded(t)[f]])]
  BY <1>1 DEF LoseCall, EditTypeOK
<1> DEFINE new == [f \in recorded |-> Recorded(t)[f]]
<1>4. /\ DOMAIN new = recorded /\ recorded \subseteq Area(t) /\ Area(t) \subseteq File
      /\ \A f \in DOMAIN new : new[f] \in Contents /\ Genuine(f, new[f])
      /\ known[t] \in [File -> Recordable] /\ final[t] \in [File -> Recordable]
  BY <1>1, RecordedOk DEF EditTypeOK
<1>5. known' = [known EXCEPT ![t] = Update(known[t], new)]
  BY <1>3
<1>6. final' = final \/ final' = [final EXCEPT ![t] = Update(final[t], new)]
  BY <1>3
<1>7. known \in [Lease -> [File -> Recordable]] /\ final \in [Lease -> [File -> Recordable]]
  BY <1>1 DEF EditTypeOK
<1> HIDE DEF new
<1>8. /\ known' \in [Lease -> [File -> Recordable]]
      /\ \A f \in File : known'[t][f] = IF f \in DOMAIN new THEN new[f] ELSE known[t][f]
      /\ \A v \in Lease \ {t} : known'[v] = known[v]
  BY <1>4, <1>5, <1>7, UpdateOk
<1>9. /\ final' \in [Lease -> [File -> Recordable]]
      /\ \A f \in File \ Area(t) : final'[t][f] = final[t][f]
      /\ \A v \in Lease \ {t} : final'[v] = final[v]
  BY <1>4, <1>6, <1>7, UpdateOk
<1>10. EditTypeOK'
  BY <1>1, <1>2, <1>8, <1>9 DEF EditTypeOK
<1>11. LeaseInv'
  BY <1>1, <1>2, LeaseTaken
<1>12. Only(t)
  BY <1>1, <1>2, <1>8, <1>9 DEF Only, EditTypeOK
<1>13. ~Running(t)' /\ ~Working(t)' /\ Area(t)' = Area(t)
  BY <1>2 DEF Running, Working, Area
<1>14. ToolOk(t)' /\ DiskOk(t)' /\ SeenOk(t)'
  BY <1>2, <1>13 DEF ToolOk, DiskOk, SeenOk
<1>15. TrackOk(t)'
  BY <1>1, <1>2, <1>9, <1>13 DEF TrackOk
<1>16. GenuineOk(t)'
  BY <1>1, <1>2, <1>4, <1>8, <1>13 DEF GenuineOk, Genuine, SaveOf
<1>17. QED
  BY <1>2, <1>10, <1>11, <1>12, <1>14, <1>15, <1>16, LoopOk DEF TurnOk
-----------------------------------------------------------------------------
(* A call during which the editor may have saved. *)
Disturbed(r, q, b) == q = [r EXCEPT !.disturbed = r.disturbed \/ b]

(* It is the same call otherwise. *)
LEMMA DisturbedType ==
    ASSUME NEW r \in Tool, NEW q, NEW b \in BOOLEAN, Disturbed(r, q, b)
    PROVE  /\ q \in Tool /\ q.ops = r.ops /\ q.at = r.at /\ q.result = r.result
           /\ q.before = r.before /\ q.after = r.after /\ q.entry = r.entry
           /\ q.disturbed <=> r.disturbed \/ b
BY DEF Tool, Disturbed

(* A save changes one file and is known to nobody: it is of that file, and the *)
(* calls that run are marked as disturbed.                                   *)
LEMMA SaveKeeps ==
    ASSUME EditInv, NEW f \in File, Save(f)
    PROVE  EditInv'
<1> DEFINE n == Len(saves) + 1
           Q == {t \in Lease : known[t][f] # Unknown /\ ~Running(t)}
           Record == [file : File, quiet : SUBSET Lease]
           new == [file |-> f, quiet |-> Q]
<1>1. /\ EditTypeOK /\ LeaseInv /\ Len(saves) \in Nat /\ MaxSaves \in Nat
      /\ n \in 1 .. MaxSaves /\ DOMAIN saves = 1 .. Len(saves)
  BY SavesFacts, Bounds DEF EditInv, Save
<1>2. /\ leases' = leases /\ pc' = pc /\ known' = known /\ original' = original /\ final' = final
      /\ calls' = calls /\ started' = started /\ viewed' = viewed /\ torn' = torn /\ gone' = gone
      /\ disk' = [disk EXCEPT ![f] = Content(disk[f]) \cup {SaveOf(n)}]
      /\ saves' = Append(saves, new)
  BY <1>1 DEF Save, EditTypeOK, tracker, SaveOf
<1>3. /\ Len(saves') = n /\ saves' \in Seq(Record) /\ DOMAIN saves' = 1 .. n
      /\ \A k \in 1 .. Len(saves) : saves'[k] = saves[k]
      /\ saves'[n] = new
  <2>1. new \in Record /\ saves \in Seq(Record)
    BY <1>1 DEF EditTypeOK
  <2> HIDE DEF Record, new
  <2>2. saves' \in Seq(Record) /\ Len(saves') = n
        /\ \A i \in 1 .. n : saves'[i] = IF i = n THEN new ELSE saves[i]
    BY <1>1, <1>2, <2>1, Appended
  <2>3. QED
    BY <1>1, <2>2, LenProperties
<1>4. /\ disk' \in [File -> Contents]
      /\ \A g \in File \ {f} : disk'[g] = disk[g]
      /\ disk'[f] \in SUBSET Change /\ disk'[f] = Content(disk[f]) \cup {SaveOf(n)}
  <2>1. SaveOf(n) \in Change
    BY <1>1 DEF SaveOf, Change
  <2>2. disk \in [File -> Contents] /\ Content(disk[f]) \in SUBSET Change
    BY <1>1, ContentFacts DEF EditTypeOK
  <2>3. Content(disk[f]) \cup {SaveOf(n)} \in SUBSET Change
    BY <2>1, <2>2
  <2>4. QED
    BY <1>2, <2>2, <2>3, ContentFacts
<1>5. \A t \in Lease : /\ tool'[t] \in Tool /\ tool'[t].ops = tool[t].ops /\ tool'[t].at = tool[t].at
                       /\ tool'[t].result = tool[t].result /\ tool'[t].before = tool[t].before
                       /\ tool'[t].after = tool[t].after /\ tool'[t].entry = tool[t].entry
                       /\ tool'[t].disturbed <=> tool[t].disturbed \/ Running(t)
  <2> SUFFICES ASSUME NEW t \in Lease
               PROVE  /\ tool'[t] \in Tool /\ tool'[t].ops = tool[t].ops /\ tool'[t].at = tool[t].at
                      /\ tool'[t].result = tool[t].result /\ tool'[t].before = tool[t].before
                      /\ tool'[t].after = tool[t].after /\ tool'[t].entry = tool[t].entry
                      /\ tool'[t].disturbed <=> tool[t].disturbed \/ Running(t)
    OBVIOUS
  <2>1. Disturbed(tool[t], tool'[t], Running(t))
    BY DEF Save, Disturbed
  <2>2. tool[t] \in Tool /\ Running(t) \in BOOLEAN
    BY <1>1 DEF EditTypeOK, Running
  <2>3. QED
    BY <2>1, <2>2, DisturbedType
<1>6. EditTypeOK'
  <2>1. tool' \in [Lease -> Tool]
    BY <1>5 DEF Save
  <2>2. gone' \subseteq Lease \X (1 .. n)
    BY <1>1, <1>2 DEF EditTypeOK
  <2>3. QED
    BY <1>1, <1>2, <1>3, <1>4, <2>1, <2>2 DEF EditTypeOK
<1>7. LeaseInv'
  BY <1>1, <1>2 DEF LeaseInv, Working, TypeOK, NoOverlap, Active
<1>8. Saved' = Saved \cup {f}
  BY <1>1, <1>3 DEF Saved
<1>9. \A g, c : Genuine(g, c) =>
         /\ SaveOf(n) \notin Content(c)
         /\ \A k \in 1 .. MaxSaves :
                SaveOf(k) \in Content(c) => k \in DOMAIN saves' /\ saves'[k].file = g
  BY <1>1, <1>3 DEF Genuine, SaveOf
<1>10. (\A g \in File : Genuine(g, disk[g]))'
  <2>1. \A g \in File : Genuine(g, disk[g])
    BY DEF EditInv
  <2>2. ASSUME NEW g \in File \ {f}
        PROVE  Genuine(g, disk[g])'
    BY <1>4, <1>9, <2>1 DEF Genuine, SaveOf
  <2>3. Genuine(f, disk[f])'
    <3>1. Content(disk'[f]) = Content(disk[f]) \cup {SaveOf(n)}
      BY <1>4, ContentFacts
    <3>2. \A k : SaveOf(k) = SaveOf(n) => k = n
      BY DEF SaveOf
    <3>3. Genuine(f, disk[f])
      BY <2>1
    <3>4. \A k \in 1 .. MaxSaves : SaveOf(k) \in Content(disk'[f]) =>
              k \in DOMAIN saves' /\ saves'[k].file = f
      BY <1>1, <1>3, <3>1, <3>2, <3>3 DEF Genuine
    <3>5. QED
      BY <3>4 DEF Genuine, SaveOf
  <2>4. QED
    BY <2>2, <2>3
<1>11. SavesKept'
  BY <1>1, <1>2, <1>3 DEF SavesKept, EditInv, EditTypeOK
<1>12. ASSUME NEW t \in Lease
       PROVE  TurnOk(t)'
  <2>1. ToolOk(t) /\ DiskOk(t) /\ TrackOk(t) /\ SeenOk(t) /\ GenuineOk(t)
    BY DEF EditInv, TurnOk
  <2>2. /\ Running(t)' = Running(t) /\ Working(t)' = Working(t) /\ Area(t)' = Area(t)
        /\ \A g : Writing(t, g)' = Writing(t, g) /\ Untouched(t, g)' = Untouched(t, g)
        /\ \A i : FileOf(t, i)' = FileOf(t, i)
        /\ Area(t) \subseteq File
    BY <1>2, <1>5, EditAssumption DEF Running, Working, Area, Writing, Untouched, FileOf
  <2>0. /\ tool'[t].ops = tool[t].ops /\ tool'[t].at = tool[t].at
        /\ tool'[t].result = tool[t].result /\ tool'[t].before = tool[t].before
        /\ tool'[t].after = tool[t].after /\ tool'[t].entry = tool[t].entry
    BY <1>5
  <2>3. ToolOk(t)'
    BY <1>2, <2>0, <2>1, <2>2 DEF ToolOk
  <2>4. \A g \in File : g \notin Saved' => g \notin Saved /\ disk'[g] = disk[g]
    BY <1>4, <1>8
  <2>5. DiskOk(t)'
    <3>1. \A g : Running(t) /\ Steady(t, g)' => g \notin Saved'
      BY <1>5 DEF Steady
    <3>2. \A g \in File : g \notin Saved => Steady(t, g)
      BY DEF Steady
    <3>3. QED
      BY <1>5, <2>1, <2>2, <2>4, <3>1, <3>2 DEF DiskOk
  <2>6. TrackOk(t)'
    <3>1. \A g \in File : g \notin Saved' => Base(t, g)' = Base(t, g)
      BY <2>0, <2>2, <2>4 DEF Base
    <3>2. /\ \A g \in File \ Area(t) : final'[t][g] = Unknown
          /\ pc'[t] = "new" => \A g \in File : original'[t][g] = Unknown /\ final'[t][g] = Unknown
      BY <1>2, <2>1 DEF TrackOk
    <3>3. ASSUME Working(t), t \notin torn, NEW g \in Area(t), g \notin Saved'
          PROVE  /\ original'[t][g] \in {Unknown, started'[t][g]}
                 /\ original'[t][g] = Unknown => final'[t][g] = Unknown /\ ~Writing(t, g)'
                 /\ final'[t][g] \in {Unknown, Base(t, g)'}
                 /\ final'[t][g] = Unknown => Base(t, g)' = started'[t][g]
      <4>1. g \in File /\ g \in Area(t) \ Saved /\ Base(t, g)' = Base(t, g) /\ Writing(t, g)' = Writing(t, g)
        BY <2>2, <2>4, <3>1, <3>3
      <4>2. QED
        BY <1>2, <2>1, <3>3, <4>1 DEF TrackOk
    <3>4. QED
      BY <1>2, <2>2, <3>2, <3>3 DEF TrackOk
  <2>7. SeenOk(t)'
    <3> SUFFICES ASSUME pc[t] # "ended", NEW k \in 1 .. n, t \in saves'[k].quiet,
                        SaveOf(k) \notin viewed[t], NEW g, g = saves'[k].file
                 PROVE  /\ known[t][g] # Unknown /\ SaveOf(k) \notin Content(known[t][g])
                        /\ Writing(t, g) =>
                            /\ SaveOf(k) \notin Content(disk'[g])
                            /\ \A i \in 1 .. Len(tool[t].before) : FileOf(t, i) = g =>
                                SaveOf(k) \notin Content(tool[t].before[i]) \cup Content(tool[t].after[i])
      <4> HIDE DEF new, n
      <4>1. pc' = pc /\ known' = known /\ viewed' = viewed /\ DOMAIN saves' = 1 .. n
        BY <1>2, <1>3
      <4>2. \A g : Writing(t, g)' = Writing(t, g)
        BY <2>2
      <4>3. QED
        BY <2>0, <2>2, <4>1, <4>2 DEF SeenOk, SaveOf, Writing
    <3>1. CASE k = n
      BY <1>3, <1>9, <2>1, <3>1 DEF GenuineOk, Writing
    <3>2. CASE k # n
      <4>1. k \in DOMAIN saves /\ t \in saves[k].quiet /\ g = saves[k].file
        BY <1>1, <1>3, <3>2
      <4>2. g \in File
        BY <1>1, <4>1, SavesFacts
      <4>3. SaveOf(k) # SaveOf(n)
        BY <3>2 DEF SaveOf
      <4>4. SaveOf(k) \notin Content(disk[g]) => SaveOf(k) \notin Content(disk'[g])
        BY <1>4, <4>2, <4>3, ContentFacts
      <4>5. QED
        BY <2>1, <4>1, <4>4 DEF SeenOk
    <3>3. QED
      BY <3>1, <3>2
  <2>8. GenuineOk(t)'
    <3>1. \A g \in File : known'[t][g] # Unknown => Genuine(g, known[t][g])
      BY <1>2, <2>1 DEF GenuineOk
    <3>2. Running(t)' => \A i \in 1 .. Len(tool'[t].before) :
             /\ Genuine(FileOf(t, i), tool[t].before[i])
             /\ Genuine(FileOf(t, i), tool[t].after[i])
      BY <1>5, <2>1, <2>2 DEF GenuineOk
    <3>3. \A g \in File : known'[t][g] # Unknown => Genuine(g, known[t][g])'
      BY <1>2, <1>9, <3>1 DEF Genuine, SaveOf
    <3>4. Running(t)' => \A i \in 1 .. Len(tool'[t].before) :
             /\ Genuine(FileOf(t, i), tool[t].before[i])'
             /\ Genuine(FileOf(t, i), tool[t].after[i])'
      <4> SUFFICES ASSUME Running(t)', NEW i \in 1 .. Len(tool'[t].before)
                   PROVE  /\ Genuine(FileOf(t, i), tool[t].before[i])'
                          /\ Genuine(FileOf(t, i), tool[t].after[i])'
        OBVIOUS
      <4>1. FileOf(t, i)' = FileOf(t, i)
        BY <2>2
      <4>2. Genuine(FileOf(t, i), tool[t].before[i]) /\ Genuine(FileOf(t, i), tool[t].after[i])
        BY <3>2
      <4>3. tool'[t].before[i] = tool[t].before[i] /\ tool'[t].after[i] = tool[t].after[i]
        BY <2>0
      <4> DEFINE g == FileOf(t, i)
                 b == tool[t].before[i]
                 d == tool[t].after[i]
      <4>4. \A k \in 1 .. MaxSaves :
                /\ SaveOf(k) \in Content(b) => k \in DOMAIN saves' /\ saves'[k].file = g
                /\ SaveOf(k) \in Content(d) => k \in DOMAIN saves' /\ saves'[k].file = g
        BY <1>9, <4>2
      <4>5. QED
        BY <4>1, <4>3, <4>4 DEF Genuine, SaveOf
    <3>5. QED
      BY <3>3, <3>4 DEF GenuineOk
  <2>9. QED
    BY <2>3, <2>5, <2>6, <2>7, <2>8 DEF TurnOk
<1>13. QED
  BY <1>6, <1>7, <1>10, <1>11, <1>12 DEF EditInv
-----------------------------------------------------------------------------
(* A step that changes nothing here. *)
LEMMA StutterKeeps ==
    ASSUME EditInv, UNCHANGED editVars
    PROVE  EditInv'
<1>1. /\ leases' = leases /\ disk' = disk /\ pc' = pc /\ tool' = tool /\ known' = known
      /\ original' = original /\ final' = final /\ calls' = calls /\ started' = started
      /\ viewed' = viewed /\ saves' = saves /\ torn' = torn /\ gone' = gone
  BY DEF editVars, tracker, ghosts
<1>2. EditTypeOK' /\ SavesKept'
  BY <1>1 DEF EditInv, EditTypeOK, SavesKept
<1>3. LeaseInv'
  BY <1>1 DEF EditInv, LeaseInv, TypeOK, NoOverlap, Active, Working
<1>4. (\A f \in File : Genuine(f, disk[f]))'
  BY <1>1 DEF EditInv, Genuine, SaveOf
<1>5. ASSUME NEW t \in Lease
      PROVE  TurnOk(t)'
  <2>1. TurnOk(t)
    BY DEF EditInv
  <2>2. /\ Running(t)' = Running(t) /\ Working(t)' = Working(t) /\ Area(t)' = Area(t)
        /\ Saved' = Saved
        /\ \A f : Writing(t, f)' = Writing(t, f) /\ Untouched(t, f)' = Untouched(t, f)
        /\ \A i : FileOf(t, i)' = FileOf(t, i)
    BY <1>1 DEF Running, Working, Area, Saved, Writing, Untouched, FileOf
  <2>3. ToolOk(t)'
    BY <1>1, <2>1, <2>2 DEF TurnOk, ToolOk
  <2>4. DiskOk(t)'
    BY <1>1, <2>1, <2>2 DEF TurnOk, DiskOk, Steady
  <2>5. TrackOk(t)'
    BY <1>1, <2>1, <2>2 DEF TurnOk, TrackOk, Base
  <2>6. SeenOk(t)'
    BY <1>1, <2>1, <2>2 DEF TurnOk, SeenOk, SaveOf, Writing
  <2>7. GenuineOk(t)'
    BY <1>1, <2>1, <2>2 DEF TurnOk, GenuineOk, Genuine, SaveOf
  <2>8. QED
    BY <2>3, <2>4, <2>5, <2>6, <2>7 DEF TurnOk
<1>6. QED
  BY <1>2, <1>3, <1>4, <1>5 DEF EditInv

(* Before any Turn nothing is recorded and nothing is saved. *)
LEMMA InitKeeps == EditInit => EditInv
<1> SUFFICES ASSUME EditInit
             PROVE  EditInv
  OBVIOUS
<1>1. /\ saves = <<>> /\ Len(saves) = 0 /\ DOMAIN saves = {} /\ torn = {} /\ gone = {}
      /\ \A t \in Lease : pc[t] = "new" /\ ~Running(t) /\ ~Working(t)
  BY DEF EditInit, Running, Working
<1>2. disk \in [File -> Contents] /\ \A f \in File : Content(disk[f]) = {}
  <2>1. {} \in SUBSET Change /\ Missing \in Contents
    BY ContentFacts
  <2>2. {} \in Contents
    BY <2>1 DEF Contents
  <2>3. QED
    BY <2>2, ContentFacts DEF EditInit, Content
<1>3. NoCall \in Tool
  <2>1. Fresh(NoCall, <<>>, <<>>, "none")
    BY DEF Fresh, NoCall
  <2>2. <<>> \in Seq(Op) /\ <<>> \in Entry
    BY DEF Entry
  <2>3. QED
    BY <2>1, <2>2, FreshType
<1>4. EditTypeOK
  <2>1. \A t \in Lease : /\ known[t] = [f \in File |-> Unknown] /\ original[t] = [f \in File |-> Unknown]
                         /\ final[t] = [f \in File |-> Unknown]
    BY DEF EditInit, NothingRecorded
  <2>2. /\ known \in [Lease -> [File -> Recordable]] /\ original \in [Lease -> [File -> Recordable]]
        /\ final \in [Lease -> [File -> Recordable]]
    BY DEF EditInit, NothingRecorded, Recordable
  <2>3. tool \in [Lease -> Tool] /\ calls \in [Lease -> 0 .. MaxCalls]
        /\ started \in [Lease -> [File -> Contents]] /\ viewed \in [Lease -> SUBSET Change]
    BY <1>2, <1>3, Bounds DEF EditInit
  <2>4. saves \in Seq([file : File, quiet : SUBSET Lease]) /\ Len(saves) <= MaxSaves
    BY <1>1, Bounds
  <2>5. QED
    BY <1>1, <1>2, <2>2, <2>3, <2>4 DEF EditTypeOK, EditInit
<1>5. LeaseInv
  BY <1>1 DEF LeaseInv, EditInit, Init, Free, TypeOK, NoOverlap, Active
<1>6. \A f \in File : Genuine(f, disk[f])
  BY <1>2 DEF Genuine
<1>7. ASSUME NEW t \in Lease
      PROVE  TurnOk(t)
  <2>1. ToolOk(t) /\ DiskOk(t) /\ SeenOk(t)
    BY <1>1 DEF ToolOk, DiskOk, SeenOk
  <2>2. \A f \in File : known[t][f] = Unknown /\ original[t][f] = Unknown /\ final[t][f] = Unknown
    BY DEF EditInit, NothingRecorded
  <2>3. TrackOk(t) /\ GenuineOk(t)
    BY <1>1, <2>2 DEF TrackOk, GenuineOk
  <2>4. QED
    BY <2>1, <2>3 DEF TurnOk
<1>8. QED
  BY <1>1, <1>4, <1>5, <1>6, <1>7 DEF EditInv, SavesKept

(* Turns, their worker threads and the editor keep the invariant, in any order. *)
LEMMA EditsKeep == EditInv /\ [EditNext]_editVars => EditInv'
<1> SUFFICES ASSUME EditInv, [EditNext]_editVars
             PROVE  EditInv'
  OBVIOUS
<1>1. ASSUME NEW t \in Lease,
             BeginTurn(t) \/ EndTurn(t) \/ RecordCall(t) \/ LoseCall(t) \/ PrepareOp(t) \/ CommitOp(t)
      PROVE  EditInv'
  BY <1>1, BeginTurnKeeps, EndTurnKeeps, RecordCallKeeps, LoseCallKeeps, PrepareKeeps, CommitKeeps
<1>2. ASSUME NEW t \in Lease,
             CommitFails(t) \/ RestoreOp(t) \/ RestoreFails(t) \/ RollbackEnds(t)
      PROVE  EditInv'
  BY <1>2, RollbackKeeps
<1>3. ASSUME NEW t \in Lease, NEW ops \in Call, BeginCall(t, ops)
      PROVE  EditInv'
  BY <1>3, BeginCallKeeps
<1>4. ASSUME NEW f \in File, Save(f)
      PROVE  EditInv'
  BY <1>4, SaveKeeps
<1>5. CASE UNCHANGED editVars
  BY <1>5, StutterKeeps
<1>6. QED
  BY <1>1, <1>2, <1>3, <1>4, <1>5 DEF EditNext, Worker

(* The invariant holds in every state: it is why the properties below do.      *)
THEOREM EditsConsistent == EditSpec => []EditInv
BY InitKeeps, EditsKeep, PTL DEF EditSpec

(* Turns take and give back their leases as the lease manager demands: the    *)
(* leases of the file tools behave like those of WorkspaceLease.             *)
THEOREM LeasesUsed == EditSpec => Spec
<1>1. EditInit => Init
  BY DEF EditInit
<1>2. EditInv /\ [EditNext]_editVars => [Next]_leases
  <2> SUFFICES ASSUME EditInv, [EditNext]_editVars
               PROVE  [Next]_leases
    OBVIOUS
  <2>1. ASSUME NEW t \in Lease, BeginTurn(t)
        PROVE  [Next]_leases
    BY <2>1, Bounds DEF BeginTurn, Next
  <2>2. ASSUME NEW t \in Lease, EndTurn(t) \/ LoseCall(t)
        PROVE  [Next]_leases
    BY <2>2, Bounds, ZenonT(30) DEF EndTurn, LoseCall, Next
  <2>3. ASSUME NEW t \in Lease, RecordCall(t) \/ Worker(t)
        PROVE  [Next]_leases
    BY <2>3, ZenonT(30) DEF RecordCall, Worker, PrepareOp, CommitOp, CommitFails, RestoreOp, RestoreFails, RollbackEnds
  <2>4. ASSUME NEW t \in Lease, NEW ops \in Call, BeginCall(t, ops)
        PROVE  [Next]_leases
    BY <2>4 DEF BeginCall
  <2>5. ASSUME NEW f \in File, Save(f)
        PROVE  [Next]_leases
    BY <2>5 DEF Save
  <2>6. CASE UNCHANGED editVars
    BY <2>6 DEF editVars
  <2>7. QED
    BY <2>1, <2>2, <2>3, <2>4, <2>5, <2>6 DEF EditNext
<1>3. QED
  BY <1>1, <1>2, EditsConsistent, PTL DEF EditSpec, Spec

(* A patch that fails, its rollback complete, has changed no file: whatever    *)
(* the other Turns do meanwhile, and unless the editor saves during it.       *)
THEOREM EditsAtomic == EditSpec => []AllOrNothing
<1>1. EditInv => AllOrNothing
  <2> SUFFICES ASSUME EditInv, NEW t \in Lease, pc[t] = "settled", tool[t].result = "failed",
                      ~tool[t].disturbed, NEW f \in Files(tool[t].ops)
               PROVE  disk[f] = tool[t].entry[f]
    BY DEF AllOrNothing
  <2>1. Running(t) /\ ToolOk(t) /\ DiskOk(t)
    BY DEF EditInv, TurnOk, Running
  <2>2. f \in Area(t)
    BY <2>1 DEF ToolOk, Files, Area
  <2>3. tool[t].at = 0
    BY <2>1 DEF ToolOk
  <2>4. QED
    BY <2>1, <2>2, <2>3 DEF DiskOk, Steady, Untouched
<1>2. QED
  BY <1>1, EditsConsistent, PTL

(* What a Turn reports as changed is what differs on disk from its begin.      *)
THEOREM ReportsExact == EditSpec => []ChangesExact
<1>1. EditInv => ChangesExact
  <2> SUFFICES ASSUME EditInv, NEW t \in Lease \ torn, pc[t] = "idle"
               PROVE  Changed(t) \ Saved = {f \in Area(t) \ Saved : disk[f] # started[t][f]}
    BY DEF ChangesExact, Area
  <2>1. /\ TrackOk(t) /\ Working(t) /\ Area(t) \subseteq File
        /\ \A f \in File : Base(t, f) = disk[f] /\ disk[f] # Unknown
    BY ContentFacts, EditAssumption DEF EditInv, EditTypeOK, TurnOk, Working, Running, Base, Area
  <2>2. \A f \in File \ Area(t) : f \notin Changed(t)
    BY <2>1 DEF TrackOk, Changed
  <2>3. \A f \in Area(t) \ Saved : f \in Changed(t) <=> disk[f] # started[t][f]
    BY <2>1 DEF TrackOk, Changed
  <2>4. Changed(t) \subseteq File
    BY DEF Changed
  <2>5. QED
    BY <2>1, <2>2, <2>3, <2>4
<1>2. QED
  BY <1>1, EditsConsistent, PTL

(* No Turn overwrites a save that was made while it ran no call, in a file it  *)
(* knows, before it has read it.                                            *)
THEOREM SavesNotLost == EditSpec => []SavesKept
<1>1. EditInv => SavesKept
  BY DEF EditInv
<1>2. QED
  BY <1>1, EditsConsistent, PTL
=============================================================================
