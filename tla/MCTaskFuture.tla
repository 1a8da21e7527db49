----------------------------- MODULE MCTaskFuture -----------------------------
(* One plain future, a task that awaits it, a task that yields and then    *)
(* awaits the first task, and one done callback.                           *)
EXTENDS TaskFuture, TLC

CONSTANTS f, a, b, d

MCFuture == {f}
MCTasks == {a, b}
MCCallbacks == {d}
MCProgram == (a :> <<f>>) @@ (b :> <<Yield, a>>) @@ (d :> <<>>)
=============================================================================
