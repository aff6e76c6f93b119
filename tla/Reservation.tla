----------------------------- MODULE Reservation -----------------------------
(***************************************************************************)
(* What the market-bar lifecycle lock promises to the operations that run  *)
(* under it: one process at a time, only while the reservation is its own, *)
(* and an abandoned reservation stays taken until the operator clears it.  *)
(***************************************************************************)
CONSTANTS Processes, Free, Stale

VARIABLES holder,  \* a process, Free or Stale
          inside   \* the processes whose operation runs

vars == <<holder, inside>>

Init == holder = Free /\ inside = {}

Take(p)    == holder = Free /\ holder' = p /\ UNCHANGED inside
Enter(p)   == holder = p /\ inside' = inside \union {p} /\ UNCHANGED holder
Exit(p)    == holder = p /\ inside' = inside \ {p} /\ UNCHANGED holder
Give(p)    == holder = p /\ p \notin inside /\ holder' = Free /\ UNCHANGED inside
Abandon(p) == holder = p /\ holder' = Stale /\ inside' = inside \ {p}
Clear      == holder = Stale /\ holder' = Free /\ UNCHANGED inside

Next ==
  Clear \/ \E p \in Processes : Take(p) \/ Enter(p) \/ Exit(p) \/ Give(p) \/ Abandon(p)

Spec == Init /\ [][Next]_vars
=============================================================================
