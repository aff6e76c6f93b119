----------------------------- MODULE MCSafePurge -----------------------------
(***************************************************************************)
(* SafePurge on small instances: the runs differ in the keys, the bounds   *)
(* and the faults they allow.                                              *)
(***************************************************************************)
EXTENDS SafePurge

CONSTANTS k1, k2

OneKey  == {k1}
TwoKeys == {k1, k2}

\* Every fault but the interrupt right after the Catalog's commit.
Handled    == FaultKinds \ {"commit_interrupt"}
PosixFaults == {"crash", "error", "unlink", "commit_interrupt"}
Ordinary   == {"error"}
Interrupts == {"commit_interrupt"}
=============================================================================
