----------------------------- MODULE MCLifecycle -----------------------------
(***************************************************************************)
(* A small instance of Lifecycle: two processes, three connections, two    *)
(* descriptors.                                                            *)
(***************************************************************************)
EXTENDS Lifecycle
=============================================================================
