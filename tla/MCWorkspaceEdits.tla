-------------------------- MODULE MCWorkspaceEdits --------------------------
(* A file in the nested root "web" with a symlink to it, and one outside, in   *)
(* a root "docs" that no Turn has.                                            *)
EXTENDS WorkspaceEdits

MCFile == {"page", "main"}
MCName == {"page", "link", "main"}
MCTarget == [n \in MCName |-> IF n = "link" THEN "page" ELSE n]
MCWorkspace == {"repo", "web", "docs"}
MCParents == [w \in MCWorkspace |-> IF w = "repo" THEN {} ELSE {"repo"}]
MCInside == [w \in MCWorkspace |-> IF w = "web" THEN {"page", "link"}
                                  ELSE IF w = "docs" THEN {"main"} ELSE MCName]
MCRootOf == [t \in Lease |-> IF t = "t1" THEN "repo" ELSE "web"]

Do(kind, name) == [kind |-> kind, name |-> name]
MCCall == {<<Do("read", "page")>>, <<Do("write", "page")>>, <<Do("update", "link")>>,
           <<Do("add", "main"), Do("update", "page")>>,
           <<Do("update", "main"), Do("delete", "page")>>,
           <<Do("delete", "page"), Do("delete", "link")>>}
=============================================================================
