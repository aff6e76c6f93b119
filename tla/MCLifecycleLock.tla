--------------------------- MODULE MCLifecycleLock ---------------------------
(***************************************************************************)
(* LifecycleLock for three processes: one that holds the lock, one that    *)
(* cleans up and one that arrives.                                         *)
(***************************************************************************)
EXTENDS LifecycleLock

CONSTANTS p1, p2, p3

Three == {p1, p2, p3}
=============================================================================
