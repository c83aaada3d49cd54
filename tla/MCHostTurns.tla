----------------------------- MODULE MCHostTurns -----------------------------
(* A small instance of HostTurns: two Threads on the root "outer" and on      *)
(* "inner" inside it.  c1 and c2 on the first reuse one key for two texts; c3 *)
(* on the second has no key.                                                  *)
EXTENDS HostTurns

MCWorkspace == {"outer", "inner"}
MCParents == [w \in MCWorkspace |-> IF w = "inner" THEN {"outer"} ELSE {}]
MCWorkspaceOf == [t \in Thread |-> IF t = "t1" THEN "outer" ELSE "inner"]
MCThreadOf == [c \in Call |-> IF c = "c3" THEN "t2" ELSE "t1"]
MCKeyOf == [c \in Call |-> IF c = "c3" THEN None ELSE "k"]
MCTextOf == [c \in Call |-> IF c = "c2" THEN "y" ELSE "x"]
NoLegacy == {}
=============================================================================
