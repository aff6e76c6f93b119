------------------------------ MODULE PaperRisk ------------------------------
(***************************************************************************)
(* The risk a paper journal stands for: a budget of one order, spent once  *)
(* and never returned, and a halt that no later budget survives.           *)
(***************************************************************************)
CONSTANT OrderIds

VARIABLES spent,   \* the budget is used
          halted,  \* no new risk
          live,    \* orders that may still fill
          ended    \* orders that no longer can

vars == <<spent, halted, live, ended>>

Init == spent = FALSE /\ halted = FALSE /\ live = {} /\ ended = {}

Spend    == ~spent /\ ~halted /\ spent' = TRUE /\ UNCHANGED <<halted, live, ended>>
Halt     == halted' = TRUE /\ UNCHANGED <<spent, live, ended>>
Expose(o) == /\ spent /\ live \union ended = {}
             /\ live' = {o}
             /\ UNCHANGED <<spent, halted, ended>>
Settle(o) == /\ o \in live
             /\ live' = live \ {o} /\ ended' = ended \union {o}
             /\ UNCHANGED <<spent, halted>>

Next == Spend \/ Halt \/ \E o \in OrderIds : Expose(o) \/ Settle(o)

Spec == Init /\ [][Next]_vars
=============================================================================
