----------------------------- MODULE PurgeLedger -----------------------------
(***************************************************************************)
(* What Safe Purge promises, without files, faults or retries: a reviewed  *)
(* selection is fixed, it is purged as a whole and at most once, no pair   *)
(* is purged twice, nothing is ever un-purged, and a purge is reported     *)
(* only after it happened.  SafePurge implements this specification.       *)
(***************************************************************************)
CONSTANTS Units, PlanIds

VARIABLES stored,     \* pairs the collector has recorded
          reviewed,   \* plans that are sealed
          selection,  \* plan -> the pairs it selects
          purged,     \* plans that took effect
          reported    \* plans whose terminal result is published

vars == <<stored, reviewed, selection, purged, reported>>

Gone == UNION {selection[p] : p \in purged}

Init ==
  /\ stored = {} /\ reviewed = {} /\ purged = {} /\ reported = {}
  /\ selection = [p \in PlanIds |-> {}]

Store(u) ==
  /\ stored' = stored \union {u}
  /\ UNCHANGED <<reviewed, selection, purged, reported>>

Review(p, S) ==
  /\ p \notin reviewed
  /\ reviewed' = reviewed \union {p}
  /\ S \subseteq stored \ Gone
  /\ selection' = [selection EXCEPT ![p] = S]
  /\ UNCHANGED <<stored, purged, reported>>

Purge(p) ==
  /\ p \in reviewed \ purged
  /\ selection[p] \cap Gone = {}
  /\ purged' = purged \union {p}
  /\ UNCHANGED <<stored, reviewed, selection, reported>>

Report(p) ==
  /\ p \in purged
  /\ reported' = reported \union {p}
  /\ UNCHANGED <<stored, reviewed, selection, purged>>

Next ==
  \/ \E u \in Units : Store(u)
  \/ \E p \in PlanIds : \/ \E S \in SUBSET stored : Review(p, S)
                        \/ Purge(p) \/ Report(p)

Spec == Init /\ [][Next]_vars

\* No pair is purged by two plans.
PurgedOnce ==
  \A p, q \in purged : p # q => selection[p] \cap selection[q] = {}
=============================================================================
