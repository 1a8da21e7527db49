------------------------- MODULE MCExecutorShutdown -------------------------
(* Small instances of the shutdown handshake for TLC. *)
EXTENDS ExecutorShutdown
=============================================================================
