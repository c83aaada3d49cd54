--------------------------- MODULE MCTurnEvidence ---------------------------
(* A command that succeeds, still runs, fails and changes files, or fails with *)
(* more to say than a request has room for; an edit that fails and yet changed *)
(* a file. A valid plan and one with two steps in progress.                    *)
EXTENDS TurnEvidence

Extract(tool, status, changed, size) ==
    [tool |-> tool, status |-> status, changed |-> changed, size |-> size]

MCExtracts == {Extract("run_command", "success", FALSE, 1),
               Extract("run_command", "running", FALSE, 1),
               Extract("run_command", "failed", TRUE, 1),
               Extract("run_command", "failed", FALSE, 3),
               Extract("edit_file", "failed", TRUE, 1)}

Steps(first, second) == <<[status |-> first, size |-> 1], [status |-> second, size |-> 1]>>

MCPayloads == {Steps("in_progress", "pending"), Steps("in_progress", "in_progress")}
=============================================================================
