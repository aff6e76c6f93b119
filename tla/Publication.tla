----------------------------- MODULE Publication -----------------------------
(***************************************************************************)
(* What publishing under a path nobody may replace promises, whether the   *)
(* thing is a file (market_vault/storage/atomic_file.py) or the directory  *)
(* of a build: the path is bound once and for good to something whole, and *)
(* a writer that is told something about it is told the truth.             *)
(***************************************************************************)
CONSTANTS Writers, None

VARIABLES
  bound,  \* whose work the path shows, or None
  told    \* writer -> what its caller learned

vars == <<bound, told>>

\* "unknown" claims nothing; so does "failed", the error of a build.
Answers == {"nothing", "created", "existing", "published", "refused", "unknown", "failed"}

True(answer, w, b) ==
  CASE answer \in {"created", "published"} -> b = w
    [] answer = "existing"                 -> b # None
    [] answer = "refused"                  -> b # w
    [] OTHER                               -> TRUE

Init == bound = None /\ told = [w \in Writers |-> "nothing"]

\* A writer publishes before its caller is told anything.
Bind(w) ==
  /\ bound = None /\ told[w] = "nothing"
  /\ bound' = w
  /\ UNCHANGED told

Tell(w, answer) ==
  /\ told[w] = "nothing" /\ True(answer, w, bound)
  /\ told' = [told EXCEPT ![w] = answer]
  /\ UNCHANGED bound

Next == \E w \in Writers : Bind(w) \/ \E a \in Answers : Tell(w, a)
Spec == Init /\ [][Next]_vars
=============================================================================
