--------------------------- MODULE MCThreadRuntime ---------------------------
(* A small instance of ThreadRuntime: one Thread, on which an older Runtime   *)
(* has left the Turn c0 marked active; c2 is the matching retry of c1's key.  *)
EXTENDS ThreadRuntime

MCWorkspace == {"outer"}
MCParents == [w \in MCWorkspace |-> {}]
MCWorkspaceOf == [t \in Thread |-> "outer"]
OneThread == [c \in Call |-> "t1"]
SameText == [c \in Call |-> "x"]
OneKey == [c \in Call |-> IF c = "c0" THEN None ELSE "k"]
LeftoverTurn == {"c0"}
=============================================================================
