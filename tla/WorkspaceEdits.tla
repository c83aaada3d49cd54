--------------------------- MODULE WorkspaceEdits ---------------------------
(* File tools of concurrent Turns on one disk: write_file, edit_file and       *)
(* apply_patch with its rollback on a worker thread, the ChangeTracker's       *)
(* version check and records on the event loop, an editor that saves at any    *)
(* time, and the leases that keep Turns on overlapping roots apart.            *)
(*                                                                             *)
(* A file's content is the set of changes it holds: an update keeps what it    *)
(* read and adds its own mark, a write or an Add replaces all.  A Name is a    *)
(* path as the model writes it; Target resolves symlinks.  A call is the       *)
(* sequence of its operations: edit_file is one update, apply_patch up to two. *)
EXTENDS WorkspaceLease, Sequences, SequencesExt

CONSTANTS File, Name,
          Target,           \* WorkspaceFilesystem.resolve
          Inside,           \* names below each root
          RootOf,           \* the workspace of each Turn
          Call,             \* calls the model may make
          Missing,          \* no such file
          Unknown,          \* a version or state the tracker has not recorded
          MaxCalls,         \* bound: calls of a Turn
          MaxSaves,         \* bound: saves of the editor
          MaxFaults         \* bound: I/O operations that fail

Kind == {"read", "write", "add", "update", "delete"}
Op == [kind : Kind, name : Name]
Change == (Lease \X (1 .. MaxCalls)) \cup ({"editor"} \X (1 .. MaxSaves))
Contents == {Missing} \cup SUBSET Change

(* A call has an operation, and read_file is a tool of its own.                *)
ASSUME EditAssumption ==
    /\ Target \in [Name -> File] /\ Inside \in [Workspace -> SUBSET Name]
    /\ RootOf \in [Lease -> Workspace] /\ Call \subseteq Seq(Op) \ {<<>>}
    /\ \A ops \in Call : \A op \in ToSet(ops) : op.kind = "read" => Len(ops) = 1
    /\ {MaxCalls, MaxSaves, MaxFaults} \subseteq Nat
(* resolve() accepts a path below the root only, symlinks followed: two roots  *)
(* of which none is inside the other share no file.                           *)
ASSUME ResolveAssumption ==
    \A v, w \in Workspace :
        Overlaps(v, w) \/ {Target[n] : n \in Inside[v]} \cap {Target[n] : n \in Inside[w]} = {}
ASSUME ContentAssumption ==
    "editor" \notin Lease /\ Missing # Unknown /\ \A c \in SUBSET Change : c \notin {Missing, Unknown}

VARIABLES disk,             \* the files
          pc,               \* where the current call of each Turn is
          tool,             \* that call, on its worker thread
          known,            \* ChangeTracker._known
          original,         \* ChangeTracker._originals
          final,            \* ChangeTracker._finals
          calls,            \* calls made
          faults,           \* I/O operations that failed
          started,          \* the disk when the Turn began
          viewed,           \* changes that a read showed to the Turn
          saves,            \* for each save, the Turns that knew the file and ran no call
          torn,             \* Turns with an incomplete rollback
          gone              \* saves that a Turn overwrote without having seen them

tracker == <<known, original, final>>
ghosts == <<started, viewed, saves, torn, gone>>
editVars == <<leases, disk, pc, tool, tracker, calls, faults, ghosts>>

NoCall == [ops |-> <<>>, at |-> 0, before |-> <<>>, after |-> <<>>, result |-> "none",
           entry |-> <<>>, disturbed |-> FALSE]
Files(ops) == {Target[op.name] : op \in ToSet(ops)}
IsRead(ops) == Head(ops).kind = "read"
Running(t) == pc[t] \in {"preparing", "committing", "rolling", "settled"}
NothingRecorded == [t \in Lease |-> [f \in File |-> Unknown]]

EditInit ==
    /\ Init
    /\ disk \in [File -> {Missing, {}}]
    /\ pc = [t \in Lease |-> "new"] /\ tool = [t \in Lease |-> NoCall]
    /\ known = NothingRecorded /\ original = NothingRecorded /\ final = NothingRecorded
    /\ calls = [t \in Lease |-> 0] /\ faults = 0
    /\ started = [t \in Lease |-> disk] /\ viewed = [t \in Lease |-> {}]
    /\ saves = <<>> /\ torn = {} /\ gone = {}
-----------------------------------------------------------------------------
(* A Turn takes the lease of its root and gets a new tracker; it ends between  *)
(* two calls.                                                                  *)
BeginTurn(t) ==
    /\ pc[t] = "new" /\ Acquire(t, RootOf[t])
    /\ pc' = [pc EXCEPT ![t] = "idle"] /\ started' = [started EXCEPT ![t] = disk]
    /\ UNCHANGED <<disk, tool, tracker, calls, faults, viewed, saves, torn, gone>>

EndTurn(t) ==
    /\ pc[t] = "idle" /\ Release(t, RootOf[t])
    /\ pc' = [pc EXCEPT ![t] = "ended"]
    /\ UNCHANGED <<disk, tool, tracker, calls, faults, ghosts>>

(* Fault: only the first path of a patch is compared. *)
FirstConflicts(t, ops) ==
    LET f == Target[Head(ops).name] IN known[t][f] # Unknown /\ known[t][f] # disk[f]

(* before_execution: every path is compared before anything is recorded.  The  *)
(* snapshots are taken on the event loop; those of one call are one step.      *)
VersionConflicts(t, ops) ==
    \E f \in Files(ops) : known[t][f] # Unknown /\ known[t][f] # disk[f]

(* Fault: the state before the last call replaces the original. *)
KeepLast(t, ops) ==
    original' = [original EXCEPT ![t] = [f \in File |-> IF f \in Files(ops) THEN disk[f] ELSE @[f]]]

KeepOriginals(t, ops) ==
    original' = [original EXCEPT ![t] =
        [f \in File |-> IF f \in Files(ops) /\ @[f] = Unknown THEN disk[f] ELSE @[f]]]

BeginCall(t, ops) ==
    /\ pc[t] = "idle" /\ calls[t] < MaxCalls
    /\ \A op \in ToSet(ops) : op.name \in Inside[RootOf[t]]
    /\ calls' = [calls EXCEPT ![t] = @ + 1]
    /\ LET fresh == [NoCall EXCEPT !.ops = ops, !.entry = disk] IN
         \/ /\ IsRead(ops) /\ UNCHANGED original
            /\ tool' = [tool EXCEPT ![t] = fresh] /\ pc' = [pc EXCEPT ![t] = "preparing"]
         \/ /\ ~IsRead(ops) /\ ~VersionConflicts(t, ops) /\ KeepOriginals(t, ops)
            /\ tool' = [tool EXCEPT ![t] = fresh] /\ pc' = [pc EXCEPT ![t] = "preparing"]
         \/ /\ ~IsRead(ops) /\ VersionConflicts(t, ops)
            /\ tool' = [tool EXCEPT ![t] = [fresh EXCEPT !.result = "refused"]]
            /\ UNCHANGED <<pc, original>>
    /\ UNCHANGED <<leases, disk, known, final, faults, ghosts>>

(* after_execution of a success looks at the disk again; a read brings the     *)
(* fingerprint of what it returned; a failure records nothing.                 *)
Recorded(t) ==
    IF tool[t].result # "ok" THEN <<>>
    ELSE IF IsRead(tool[t].ops) THEN [f \in Files(tool[t].ops) |-> Head(tool[t].before)]
    ELSE [f \in Files(tool[t].ops) |-> disk[f]]

Update(old, new) == [f \in File |-> IF f \in DOMAIN new THEN new[f] ELSE old[f]]

RecordCall(t) ==
    /\ pc[t] = "settled" /\ pc' = [pc EXCEPT ![t] = "idle"]
    /\ known' = [known EXCEPT ![t] = Update(@, Recorded(t))]
    /\ IF tool[t].result = "ok" /\ IsRead(tool[t].ops)
         THEN viewed' = [viewed EXCEPT ![t] = @ \cup Head(tool[t].before)] /\ UNCHANGED final
         ELSE final' = [final EXCEPT ![t] = Update(@, Recorded(t))] /\ UNCHANGED viewed
    /\ tool' = [tool EXCEPT ![t] = [NoCall EXCEPT !.result = tool[t].result]]
    /\ UNCHANGED <<leases, disk, original, calls, faults, started, saves, torn, gone>>

(* A second cancellation drops the settled result (execution_interrupted), or  *)
(* the commit of a file_changed event fails: the Turn ends with it.            *)
LoseCall(t) ==
    /\ pc[t] = "settled" /\ pc' = [pc EXCEPT ![t] = "ended"] /\ Release(t, RootOf[t])
    /\ \E recorded \in SUBSET DOMAIN Recorded(t) :
         /\ known' = [known EXCEPT ![t] = Update(@, [f \in recorded |-> Recorded(t)[f]])]
         /\ final' = IF recorded = {} \/ IsRead(tool[t].ops) THEN final
                     ELSE [final EXCEPT ![t] = Update(@, [f \in recorded |-> Recorded(t)[f]])]
    /\ UNCHANGED <<disk, tool, original, calls, faults, ghosts>>
-----------------------------------------------------------------------------
(* The worker thread. *)
Mark(t) == {<<t, calls[t]>>}
Content(c) == IF c = Missing THEN {} ELSE c
Possible(op, c) == op.kind = "write" \/ (op.kind = "add") = (c = Missing)
Prepared(t, op, c) ==
    CASE op.kind = "delete" -> Missing
      [] op.kind = "update" -> Content(c) \cup Mark(t)
      [] OTHER -> Mark(t)

(* Preparation reads one path after the other and writes nothing; a hunk may   *)
(* fail to match.                                                              *)
PrepareOp(t) ==
    /\ pc[t] = "preparing"
    /\ LET i == Len(tool[t].before) + 1
           op == tool[t].ops[i]
           c == disk[Target[op.name]]
           next == [tool[t] EXCEPT !.before = Append(@, c), !.after = Append(@, Prepared(t, op, c))]
       IN \/ /\ ~Possible(op, c) \/ op.kind = "update"
             /\ tool' = [tool EXCEPT ![t].result = "failed"] /\ pc' = [pc EXCEPT ![t] = "settled"]
          \/ /\ Possible(op, c) /\ op.kind = "read"
             /\ tool' = [tool EXCEPT ![t] = [next EXCEPT !.result = "ok"]]
             /\ pc' = [pc EXCEPT ![t] = "settled"]
          \/ /\ Possible(op, c) /\ op.kind # "read"
             /\ tool' = [tool EXCEPT ![t] = next]
             /\ pc' = [pc EXCEPT ![t] = IF i = Len(tool[t].ops) THEN "committing" ELSE @]
    /\ UNCHANGED <<leases, disk, tracker, calls, faults, ghosts>>

Unseen(t, f, c) ==
    IF known[t][f] = Unknown THEN {}
    ELSE {m[2] : m \in {x \in Content(disk[f]) \ (Content(c) \cup viewed[t]) : x[1] = "editor"}}

(* One path is replaced (os.replace) or unlinked. *)
CommitOp(t) ==
    /\ pc[t] = "committing"
    /\ LET i == tool[t].at + 1
           op == tool[t].ops[i]
           f == Target[op.name]
       IN /\ op.kind = "delete" => disk[f] # Missing
          /\ disk' = [disk EXCEPT ![f] = tool[t].after[i]]
          /\ gone' = gone \cup ({t} \X Unseen(t, f, tool[t].after[i]))
          /\ IF i = Len(tool[t].ops)
               THEN /\ tool' = [tool EXCEPT ![t] = [@ EXCEPT !.at = i, !.result = "ok"]]
                    /\ pc' = [pc EXCEPT ![t] = "settled"]
               ELSE tool' = [tool EXCEPT ![t].at = i] /\ UNCHANGED pc
    /\ UNCHANGED <<leases, tracker, calls, faults, started, viewed, saves, torn>>

(* The commit of a path fails, or its file is not there any more. *)
CommitFails(t) ==
    /\ pc[t] = "committing"
    /\ LET op == tool[t].ops[tool[t].at + 1]
           vanished == op.kind = "delete" /\ disk[Target[op.name]] = Missing
       IN /\ vanished \/ faults < MaxFaults
          /\ faults' = IF vanished THEN faults ELSE faults + 1
    /\ tool' = [tool EXCEPT ![t].result = "failed"] /\ pc' = [pc EXCEPT ![t] = "rolling"]
    /\ UNCHANGED <<leases, disk, tracker, calls, ghosts>>

(* Fault: the path that failed is taken for the last one that was committed.   *)
RestoreNext(t) ==
    /\ pc[t] = "rolling" /\ tool[t].at > 0
    /\ disk' = [disk EXCEPT ![Target[tool[t].ops[tool[t].at + 1].name]] = tool[t].before[tool[t].at + 1]]
    /\ tool' = [tool EXCEPT ![t].at = @ - 1]
    /\ UNCHANGED <<leases, pc, tracker, calls, faults, ghosts>>

(* Rollback, last path first; a restore that fails does not stop it. *)
RestoreOp(t) ==
    /\ pc[t] = "rolling" /\ tool[t].at > 0
    /\ disk' = [disk EXCEPT ![Target[tool[t].ops[tool[t].at].name]] = tool[t].before[tool[t].at]]
    /\ tool' = [tool EXCEPT ![t].at = @ - 1]
    /\ UNCHANGED <<leases, pc, tracker, calls, faults, ghosts>>

RestoreFails(t) ==
    /\ pc[t] = "rolling" /\ tool[t].at > 0 /\ faults < MaxFaults
    /\ faults' = faults + 1 /\ torn' = torn \cup {t}
    /\ tool' = [tool EXCEPT ![t] = [@ EXCEPT !.at = tool[t].at - 1, !.result = "incomplete"]]
    /\ UNCHANGED <<leases, disk, pc, tracker, calls, started, viewed, saves, gone>>

RollbackEnds(t) ==
    /\ pc[t] = "rolling" /\ tool[t].at = 0
    /\ pc' = [pc EXCEPT ![t] = "settled"]
    /\ UNCHANGED <<leases, disk, tool, tracker, calls, faults, ghosts>>
-----------------------------------------------------------------------------
(* The user's editor. *)
Save(f) ==
    /\ Len(saves) < MaxSaves
    /\ disk' = [disk EXCEPT ![f] = Content(@) \cup {<<"editor", Len(saves) + 1>>}]
    /\ saves' = Append(saves, [file |-> f, quiet |-> {t \in Lease : known[t][f] # Unknown /\ ~Running(t)}])
    /\ tool' = [t \in Lease |-> [tool[t] EXCEPT !.disturbed = @ \/ Running(t)]]
    /\ UNCHANGED <<leases, pc, tracker, calls, faults, started, viewed, torn, gone>>

Worker(t) == PrepareOp(t) \/ CommitOp(t) \/ CommitFails(t) \/ RestoreOp(t) \/ RestoreFails(t)
             \/ RollbackEnds(t)

EditNext ==
    \/ \E t \in Lease : \/ BeginTurn(t) \/ EndTurn(t) \/ RecordCall(t) \/ LoseCall(t) \/ Worker(t)
                        \/ \E ops \in Call : BeginCall(t, ops)
    \/ \E f \in File : Save(f)

EditSpec == EditInit /\ [][EditNext]_editVars
-----------------------------------------------------------------------------
Saved == {saves[k].file : k \in DOMAIN saves}

(* apply_patch: "Apply all operations or leave the workspace unchanged".       *)
AllOrNothing ==
    \A t \in Lease : pc[t] = "settled" /\ tool[t].result = "failed" /\ ~tool[t].disturbed
                     => \A f \in Files(tool[t].ops) : disk[f] = tool[t].entry[f]

(* changes(): the files whose final state differs from the original.           *)
Changed(t) == {f \in File : final[t][f] # Unknown /\ final[t][f] # original[t][f]}

(* Between two calls the changes a Turn reports are the files below its root   *)
(* that differ from its begin, but for those the editor saved: reverts, failed *)
(* and rolled back calls, aliases and other Turns included.                    *)
ChangesExact ==
    \A t \in Lease \ torn : pc[t] = "idle" =>
        Changed(t) \ Saved =
          {f \in {Target[n] : n \in Inside[RootOf[t]]} \ Saved : disk[f] # started[t][f]}

(* A save made between two calls of a Turn is never overwritten by it without  *)
(* its having read it, in a file it has read or written before.  (One made     *)
(* after the write of a call and before its record is taken for that write:    *)
(* after_execution looks at the disk again.)                                   *)
SavesKept == \A lost \in gone : lost[1] \notin saves[lost[2]].quiet

=============================================================================
