--------------------------- MODULE MCTaskReconcile ---------------------------
(* Small instances of TaskReconcile.                                       *)
EXTENDS TaskReconcile, TLC

CONSTANTS m1, m2

\* No task, someone else's, or the manager's with another trigger.
Altered == {None, [Silent EXCEPT !.action = "other"],
            [Silent EXCEPT !.trigger = FALSE]}

\* One migrates and looks, the other sets up and uninstalls.
Roles == m1 :> {"apply", "plan", "doctor"} @@ m2 :> {"other"}
Alone == m1 :> {"apply"}
=============================================================================
