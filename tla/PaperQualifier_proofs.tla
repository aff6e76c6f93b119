------------------------ MODULE PaperQualifier_proofs ------------------------
(***************************************************************************)
(* Proofs about PaperQualifier: its commands do what those of PaperOrders  *)
(* do, whose theorems carry over, and no order comes before a preparation. *)
(***************************************************************************)
EXTENDS PaperQualifier, PaperOrders_proofs

\* The operation of a command that goes on is one of PaperOrders.
Operates(p) == Submit(p) \/ Look(p) \/ Reconcile(p)

\* Every step of a qualifier's command is a step of PaperOrders or none.
LEMMA StepIsOne == [QNext]_qvars => [Next]_vars
<1> SUFFICES ASSUME [QNext]_qvars PROVE [Next]_vars
  OBVIOUS
<1>1. CASE UNCHANGED qvars
  BY <1>1 DEF qvars
<1>2. CASE Broker /\ UNCHANGED qualifier
  BY <1>2 DEF Next
<1>3. ASSUME NEW p \in Processes, Command(p) PROVE [Next]_vars
  BY <1>3 DEF Command, Prepare, BeginSubmit, BeginCheck, BeginStop, BeginRecover, Next, Step, Look
<1>4. ASSUME NEW p \in Processes, Perform(p) PROVE [Next]_vars
  <2>1. CASE Enter(p)
    BY <2>1 DEF Enter, Next, Step, Submit, Reconcile
  <2>2. CASE Continue(p)
    BY <2>2 DEF Continue, Next, Step
  <2>3. CASE Handle(p)
    BY <2>3 DEF Handle, Next, Step
  <2>4. CASE CheckReady(p) \/ Raises(p) \/ Finish(p)
    BY <2>4 DEF CheckReady, Raises, Finish
  <2> QED BY <1>4, <2>1, <2>2, <2>3, <2>4 DEF Perform
<1>5. ASSUME NEW p \in Processes, Interrupt(p) \/ Die(p) PROVE [Next]_vars
  BY <1>5 DEF Interrupt, Die, Next, Step
<1> QED BY <1>1, <1>2, <1>3, <1>4, <1>5 DEF QNext

\* The qualifier is a way to use the paper operations: whatever holds of those,
\* one order at most among it, holds of its commands.
THEOREM QualifierRefines == QSpec => Spec
<1>1. QInit => Init
  BY DEF QInit
<1> QED BY <1>1, StepIsOne, PTL DEF QSpec, Spec

\* At most one order is ever sent by the commands of a qualifier.
THEOREM QualifierSendsOne == QSpec => []OneOrder
BY QualifierRefines, OneOrderAlways, PTL

-----------------------------------------------------------------------------
\* A process without a command, or a command and where it is; a preparation comes
\* first, alone and once.
Working ==
  /\ made \in BOOLEAN /\ prepared \in {0, 1}
  /\ work \in [Processes -> [action : Actions, step : Steps, good : BOOLEAN]]
  /\ ~made => prepared = 0 /\ \A p \in Processes : work[p].action # "prepare"
Alone ==
  \A p \in Processes : work[p].action = "prepare" =>
    prepared = 0 /\ \A q \in Processes : work[q].action = "prepare" => q = p
\* Which steps belong to which command, and what their outcome says.
Course ==
  \A p \in Processes :
    /\ work[p].step = "baseline" => work[p].action = "prepare"
    /\ work[p].step = "submit"   => work[p].action = "submit" /\ work[p].good
    /\ work[p].step = "cancel"   => work[p].action = "stop"
    /\ work[p].step = "none"     => work[p].action = "none"
    /\ work[p].step = "handler"  => ~work[p].good
\* A preparation that comes past its baseline has one.
HasBaseline ==
  /\ prepared = 1 => baseline # -1
  /\ \A p \in Processes :
       work[p].action = "prepare" /\ (work[p].step = "reconcile" \/ (work[p].step = "finish" /\ work[p].good))
         => baseline # -1
\* A submission comes past its first question only with a preparation.
Asked ==
  /\ intents # {} => prepared = 1
  /\ \A p \in Processes :
       /\ pc[p] = "preflight" => work[p].step = "submit"
       /\ work[p].action = "submit" /\ work[p].step \in {"reconcile", "submit"} => prepared = 1

QInv == Working /\ Alone /\ Course /\ HasBaseline /\ Asked

LEMMA QInvInit == QInit => QInv
<1> SUFFICES ASSUME QInit PROVE QInv
  OBVIOUS
<1>1. \A p \in Processes : pc[p] = "idle" /\ work[p] = NoWork
  BY DEF QInit, Init
<1>2. NoWork \in [action : Actions, step : Steps, good : BOOLEAN]
  BY DEF NoWork, Actions, Steps
<1>3. Working
  BY <1>1, <1>2 DEF QInit, Working, NoWork
<1>4. Alone /\ Course /\ HasBaseline
  BY <1>1 DEF QInit, Alone, Course, HasBaseline, NoWork
<1>5. Asked
  BY <1>1 DEF QInit, Init, Asked, NoWork
<1> QED BY <1>3, <1>4, <1>5 DEF QInv

\* What a step within an operation may do to what the qualifier relies on.
Within(p) ==
  /\ \A q \in Processes \ {p} : pc'[q] = pc[q]
  /\ pc'[p] # "preflight"
  /\ intents' # intents => pc[p] = "preflight"
  /\ baseline # -1 => baseline' # -1

LEMMA SubmitWithin ==
  ASSUME TypeInv, NEW p \in Processes, pc[p] # "idle", Submit(p)
  PROVE  Within(p)
<1>1. \A i \in Intents : ~SubmitStart(p, i)
  BY DEF SubmitStart
<1>2. CASE Reserve(p)
  BY <1>2 DEF Reserve, Goto, Within, TypeInv, Control
<1>3. CASE NotAdmitted(p) \/ NoteCall(p) \/ Attempted(p) \/ NotSent(p) \/ LastCheck(p)
  BY <1>3 DEF NotAdmitted, NoteCall, Attempted, NotSent, LastCheck, Goto, Leave, Within,
       TypeInv, Control, journal
<1>4. CASE (\E o \in OrderIds : PlaceOrder(p, o)) \/ Receipt(p) \/ Ack(p) \/ Unknown(p)
  BY <1>4 DEF PlaceOrder, Receipt, Ack, Unknown, Goto, Leave, Within, TypeInv, Control, journal
<1> QED BY <1>1, <1>2, <1>3, <1>4 DEF Submit

LEMMA LookWithin ==
  ASSUME TypeInv, NEW p \in Processes, pc[p] # "idle", Look(p)
  PROVE  Within(p)
<1>1. \A i \in Intents : ~Observe(p, i) /\ ~Recover(p, i)
  BY DEF Observe, Recover
<1>2. CASE Query(p) \/ ObserveFails(p)
  BY <1>2 DEF Query, ObserveFails, Goto, Leave, Within, TypeInv, Control, journal
<1>3. CASE Observed(p)
  <2>1. Leave(p) \/ Goto(p, "cancel") \/ Goto(p, "account") \/ Goto(p, "open")
    <3>1. my[p].goal \in Goals
      BY Fields DEF TypeInv, Control
    <3> QED BY <1>3, <3>1 DEF Observed, Goals
  <2> QED BY <1>3, <2>1 DEF Observed, Goto, Leave, Within, TypeInv, Control
<1>4. CASE ReserveCancel(p) \/ AskCancel(p) \/ CancelFails(p)
  BY <1>4 DEF ReserveCancel, AskCancel, CancelFails, Goto, Leave, Within, TypeInv, Control, journal
<1> QED BY <1>1, <1>2, <1>3, <1>4 DEF Look

LEMMA ReconcileWithin ==
  ASSUME TypeInv, NEW p \in Processes, pc[p] # "idle", Reconcile(p)
  PROVE  Within(p)
<1>1. ~BaselineStart(p) /\ ~ReconcileStart(p)
  BY DEF BaselineStart, ReconcileStart
<1>2. CASE BaselineOrders(p, "base1", "base2") \/ BaselineOrders(p, "base3", "base4")
           \/ BaselineAccount(p) \/ BaselineFails(p)
  BY <1>2 DEF BaselineOrders, BaselineAccount, BaselineFails, Goto, Leave, Within, TypeInv, Control, journal
<1>3. CASE RecordBaseline(p)
  BY <1>3 DEF RecordBaseline, BaselineAllowed, Goto, Leave, Within, TypeInv, Control
<1>4. CASE ReadIntents(p) \/ Account(p)
  BY <1>4 DEF ReadIntents, Account, Goto, Within, TypeInv, Control, journal
<1>5. CASE OpenOrders(p) \/ ReconcileFails(p) \/ RecordVerdict(p)
  BY <1>5 DEF OpenOrders, ReconcileFails, RecordVerdict, Goto, Leave, Within, TypeInv, Control, journal
<1> QED BY <1>1, <1>2, <1>3, <1>4, <1>5 DEF Reconcile

LEMMA OperationWithin ==
  ASSUME TypeInv, NEW p \in Processes, pc[p] # "idle", Operates(p)
  PROVE  Within(p)
BY SubmitWithin, LookWithin, ReconcileWithin DEF Operates

-----------------------------------------------------------------------------
\* Only the process that moves changes its command.
Others(p) == \A q \in Processes \ {p} : work'[q] = work[q] /\ pc'[q] = pc[q]

\* Commands begin: the invariant speaks of none of them yet.
LEMMA CommandKeeps ==
  ASSUME QInv, TypeInv, NEW p \in Processes, Command(p)
  PROVE  QInv'
<1>0. work \in [Processes -> [action : Actions, step : Steps, good : BOOLEAN]]
  BY DEF QInv, Working
<1>1. CASE Prepare(p)
  <2>1. /\ made' = TRUE /\ ~made /\ UNCHANGED <<intents, baseline, pc, prepared>>
        /\ work' = [work EXCEPT ![p] = [action |-> "prepare", step |-> "baseline", good |-> FALSE]]
    BY <1>1 DEF Prepare, Works, vars, journal
  <2>2. [action |-> "prepare", step |-> "baseline", good |-> FALSE]
          \in [action : Actions, step : Steps, good : BOOLEAN]
    BY DEF Actions, Steps
  <2>3. Working'
    BY <2>1, <2>2, <1>0 DEF QInv, Working
  <2>4. /\ \A q \in Processes \ {p} : work'[q] = work[q]
        /\ work'[p].action = "prepare" /\ work'[p].step = "baseline"
    BY <2>1, <1>0
  <2>5. prepared = 0 /\ \A q \in Processes : work[q].action # "prepare"
    BY <2>1 DEF QInv, Working
  <2>6. Alone' /\ Course'
    BY <2>1, <2>4, <2>5 DEF QInv, Alone, Course
  <2>7. HasBaseline' /\ Asked'
    BY <1>1, <2>1, <2>4, <2>5 DEF QInv, HasBaseline, Asked, Prepare, At
  <2> QED BY <2>3, <2>6, <2>7 DEF QInv
<1>2. ASSUME NEW action \in {"submit", "check", "stop"}, NEW step \in {"ready", "reconcile", "finish", "cancel"},
             made, At(p, "none"), UNCHANGED <<intents, baseline, made, prepared>>,
             pc'[p] # "preflight", \A q \in Processes \ {p} : pc'[q] = pc[q],
             Works(p, action, step),
             action = "submit" => step = "ready", step = "cancel" => action = "stop"
      PROVE  QInv'
  <2>1. work' = [work EXCEPT ![p] = [action |-> action, step |-> step, good |-> FALSE]]
    BY <1>2 DEF Works
  <2>2. [action |-> action, step |-> step, good |-> FALSE]
          \in [action : Actions, step : Steps, good : BOOLEAN]
    BY <1>2 DEF Actions, Steps
  <2>3. Working'
    BY <1>2, <2>1, <2>2, <1>0 DEF QInv, Working
  <2>4. /\ \A q \in Processes \ {p} : work'[q] = work[q]
        /\ work'[p].action = action /\ work'[p].step = step
    BY <2>1, <1>0
  <2>5. Alone'
    BY <1>2, <2>4 DEF QInv, Alone
  <2>6. Course'
    BY <1>2, <2>4 DEF QInv, Course
  <2>7. HasBaseline'
    BY <1>2, <2>4 DEF QInv, HasBaseline
  <2>8. Asked'
    BY <1>2, <2>4 DEF QInv, Asked
  <2> QED BY <2>3, <2>5, <2>6, <2>7, <2>8 DEF QInv
<1>3. CASE BeginSubmit(p)
  BY <1>2, <1>3 DEF BeginSubmit, At, vars, journal
<1>4. CASE BeginCheck(p)
  BY <1>2, <1>4 DEF BeginCheck, At, vars, journal
<1>5. CASE BeginStop(p)
  <2>1. \/ pc' = pc
        \/ Goto(p, "query")
    BY <1>5 DEF BeginStop, Stop
  <2>2. pc'[p] \in {"idle", "query"} /\ \A q \in Processes \ {p} : pc'[q] = pc[q]
    BY <1>5, <2>1 DEF BeginStop, At, Goto, TypeInv, Control
  <2>3. Works(p, "stop", IF pc'[p] = "idle" THEN "finish" ELSE "cancel")
        /\ UNCHANGED <<intents, baseline, made, prepared>> /\ made /\ At(p, "none")
    BY <1>5 DEF BeginStop, Stop
  <2>4. CASE pc'[p] = "idle"
    BY <1>2, <2>2, <2>3, <2>4
  <2>5. CASE pc'[p] = "query"
    BY <1>2, <2>2, <2>3, <2>5
  <2> QED BY <2>2, <2>4, <2>5
<1>6. CASE BeginRecover(p)
  <2>1. UNCHANGED <<intents, baseline, made, prepared, work>> /\ Goto(p, "query")
    BY <1>6 DEF BeginRecover, Recover, qualifier, journal
  <2>2. pc'[p] # "preflight" /\ \A q \in Processes \ {p} : pc'[q] = pc[q]
    BY <2>1 DEF Goto, TypeInv, Control
  <2>3. Working' /\ Alone' /\ Course' /\ HasBaseline'
    BY <2>1 DEF QInv, Working, Alone, Course, HasBaseline
  <2>4. Asked'
    BY <2>1, <2>2 DEF QInv, Asked
  <2> QED BY <2>3, <2>4 DEF QInv
<1> QED BY <1>1, <1>3, <1>4, <1>5, <1>6 DEF Command

\* A command turns to a step that claims nothing, with a failure or at its end.
LEMMA GivesIn ==
  ASSUME QInv, NEW p \in Processes, NEW step \in {"handler", "finish"},
         work' = [work EXCEPT ![p].step = step, ![p].good = FALSE],
         UNCHANGED <<made, prepared, intents>>, baseline # -1 => baseline' # -1,
         pc'[p] # "preflight", \A q \in Processes \ {p} : pc'[q] = pc[q]
  PROVE  QInv'
<1>1. /\ \A q \in Processes \ {p} : work'[q] = work[q]
      /\ work'[p].action = work[p].action /\ work'[p].step = step /\ work'[p].good = FALSE
      /\ work' \in [Processes -> [action : Actions, step : Steps, good : BOOLEAN]]
  BY DEF QInv, Working, Steps
<1>2. Working' /\ Alone'
  BY <1>1 DEF QInv, Working, Alone
<1>3. Course' /\ HasBaseline'
  BY <1>1 DEF QInv, Course, HasBaseline
<1>4. Asked'
  BY <1>1 DEF QInv, Asked
<1> QED BY <1>2, <1>3, <1>4 DEF QInv

\* A process without a command.
LEMMA GivesUpWork ==
  ASSUME QInv, NEW p \in Processes, work' = [work EXCEPT ![p] = NoWork],
         UNCHANGED <<made, prepared, intents, baseline>>,
         pc'[p] # "preflight", \A q \in Processes \ {p} : pc'[q] = pc[q]
  PROVE  QInv'
<1>1. /\ \A q \in Processes \ {p} : work'[q] = work[q]
      /\ work'[p].action = "none" /\ work'[p].step = "none"
      /\ work' \in [Processes -> [action : Actions, step : Steps, good : BOOLEAN]]
  BY DEF QInv, Working, NoWork, Actions, Steps
<1>2. Working' /\ Alone'
  BY <1>1 DEF QInv, Working, Alone
<1>3. Course' /\ HasBaseline' /\ Asked'
  BY <1>1 DEF QInv, Course, HasBaseline, Asked
<1> QED BY <1>2, <1>3 DEF QInv

-----------------------------------------------------------------------------
\* An operation that goes on, or ends and hands over to its command.
LEMMA ContinueKeeps ==
  ASSUME QInv, TypeInv, TypeInv', NEW p \in Processes, Continue(p)
  PROVE  QInv'
<1>1. Within(p) /\ UNCHANGED <<made, prepared>>
  BY OperationWithin DEF Continue, Operates
<1>2. prepared = 0 => intents' = intents
  BY <1>1 DEF Within, QInv, Asked, Course
<1>3. CASE pc'[p] # "idle"
  <2>1. work' = work
    BY <1>3 DEF Continue
  <2>2. Working' /\ Alone' /\ Course'
    BY <1>1, <2>1 DEF QInv, Working, Alone, Course
  <2>3. HasBaseline'
    BY <1>1, <2>1 DEF QInv, HasBaseline, Within
  <2>4. Asked'
    BY <1>1, <1>2, <2>1 DEF QInv, Asked, Within, Working
  <2> QED BY <2>2, <2>3, <2>4 DEF QInv
<1>4. CASE pc'[p] = "idle"
  <2>0. work \in [Processes -> [action : Actions, step : Steps, good : BOOLEAN]]
    BY DEF QInv, Working
  <2>1. work' = [work EXCEPT ![p].step = NextStep(p), ![p].good = Good(p)]
    BY <1>4 DEF Continue
  <2>2. Good(p) \in BOOLEAN
    BY Fields DEF Good, TypeInv, Control
  <2>3. NextStep(p) \in {"none", "finish", "handler", "reconcile", "submit"}
    BY DEF NextStep
  <2>4. /\ \A q \in Processes \ {p} : work'[q] = work[q]
        /\ work'[p].action = work[p].action /\ work'[p].step = NextStep(p) /\ work'[p].good = Good(p)
        /\ work' \in [Processes -> [action : Actions, step : Steps, good : BOOLEAN]]
    BY <2>0, <2>1, <2>2, <2>3 DEF Steps
  <2>5. Working' /\ Alone'
    BY <1>1, <2>4 DEF QInv, Working, Alone
  <2>6. /\ NextStep(p) = "submit" => work[p].action = "submit" /\ Good(p) /\ work[p].step = "reconcile"
        /\ NextStep(p) = "none" => work[p].action = "none"
        /\ NextStep(p) = "handler" => ~Good(p)
        /\ NextStep(p) = "reconcile" => work[p].step = "baseline" /\ Good(p)
    <3> DEFINE step == work[p].step
               action == work[p].action
    <3>1. NextStep(p) = IF step = "none" THEN "none"
                        ELSE IF action \in {"check", "stop"} THEN "finish"
                        ELSE IF ~Good(p) THEN "handler"
                        ELSE IF step = "baseline" THEN "reconcile"
                        ELSE IF step = "reconcile" /\ action = "submit" THEN "submit" ELSE "finish"
      BY <2>2 DEF NextStep
    <3>2. step = "none" => action = "none"
      BY DEF QInv, Course
    <3> HIDE DEF step, action
    <3>3. /\ NextStep(p) = "submit" => action = "submit" /\ Good(p) /\ step = "reconcile"
          /\ NextStep(p) = "none" => action = "none"
          /\ NextStep(p) = "handler" => ~Good(p)
          /\ NextStep(p) = "reconcile" => step = "baseline" /\ Good(p)
      BY <2>2, <3>1, <3>2
    <3> QED BY <3>3 DEF step, action
  <2>7. Course'
    BY <2>3, <2>4, <2>6 DEF QInv, Course
  <2>8. work[p].action = "prepare" /\ (NextStep(p) = "reconcile" \/ (NextStep(p) = "finish" /\ Good(p)))
          => baseline' # -1
    <3>1. work[p].step = "baseline" /\ Good(p) => baseline' # baseline
      BY DEF Good
    <3>2. work[p].step = "baseline" /\ Good(p) => baseline' # -1
      BY <1>1, <3>1 DEF Within
    <3>3. work[p].action = "prepare" /\ Good(p) => work[p].step \in {"baseline", "reconcile"}
      BY DEF Good, QInv, Course
    <3>4. work[p].action = "prepare" /\ work[p].step = "reconcile" => baseline' # -1
      BY <1>1 DEF Within, QInv, HasBaseline
    <3> QED BY <2>6, <3>2, <3>3, <3>4
  <2>9. HasBaseline'
    BY <1>1, <2>4, <2>8 DEF QInv, HasBaseline, Within
  <2>10. work[p].action = "submit" /\ NextStep(p) \in {"reconcile", "submit"} => prepared = 1
    BY <2>6 DEF QInv, Course, Asked
  <2>11. Asked'
    BY <1>1, <1>2, <2>4, <2>10 DEF QInv, Asked, Within, Working
  <2> QED BY <2>5, <2>7, <2>9, <2>11 DEF QInv
<1> QED BY <1>3, <1>4

LEMMA PerformKeeps ==
  ASSUME QInv, TypeInv, TypeInv', NEW p \in Processes, Perform(p)
  PROVE  QInv'
<1>0. work \in [Processes -> [action : Actions, step : Steps, good : BOOLEAN]]
  BY DEF QInv, Working
<1>1. CASE CheckReady(p)
  <2>1. /\ UNCHANGED <<intents, baseline, pc, made, prepared>> /\ prepared = 1
        /\ work' = [work EXCEPT ![p].step = "reconcile"] /\ work[p].step = "ready"
    BY <1>1 DEF CheckReady, At, Ready, vars, journal
  <2>2. /\ \A q \in Processes \ {p} : work'[q] = work[q]
        /\ work'[p].action = work[p].action /\ work'[p].step = "reconcile"
        /\ work' \in [Processes -> [action : Actions, step : Steps, good : BOOLEAN]]
    BY <1>0, <2>1 DEF Steps
  <2>3. Working' /\ Alone' /\ Course'
    BY <2>1, <2>2 DEF QInv, Working, Alone, Course
  <2>4. HasBaseline' /\ Asked'
    BY <1>1, <2>1, <2>2 DEF QInv, HasBaseline, Asked, Alone, CheckReady, At
  <2> QED BY <2>3, <2>4 DEF QInv
<1>2. CASE Enter(p)
  <2>1. /\ UNCHANGED <<intents, baseline, made, prepared, work>>
        /\ \E place \in Places : Goto(p, place) /\ (place = "preflight" => work[p].step = "submit")
    BY <1>2 DEF Enter, At, BaselineStart, ReconcileStart, SubmitStart, qualifier, journal, Places
  <2>2. /\ pc'[p] = "preflight" => work[p].step = "submit"
        /\ \A q \in Processes \ {p} : pc'[q] = pc[q]
    BY <2>1 DEF Goto, TypeInv, Control
  <2>3. Working' /\ Alone' /\ Course' /\ HasBaseline'
    BY <2>1 DEF QInv, Working, Alone, Course, HasBaseline
  <2>4. Asked'
    BY <2>1, <2>2 DEF QInv, Asked
  <2> QED BY <2>3, <2>4 DEF QInv
<1>3. CASE Raises(p)
  BY <1>3, GivesIn DEF Raises, vars, journal
<1>4. CASE Handle(p)
  <2>1. /\ UNCHANGED <<intents, baseline, pc, made, prepared>>
        /\ work' = [work EXCEPT ![p].step = "finish"] /\ ~work[p].good /\ pc[p] = "idle"
    BY <1>4 DEF Handle, At, Stop, vars, journal, QInv, Course
  <2>2. work' = [work EXCEPT ![p].step = "finish", ![p].good = FALSE]
    BY <1>0, <2>1
  <2> QED BY <2>1, <2>2, GivesIn
<1>5. CASE Finish(p)
  <2>1. /\ UNCHANGED <<intents, baseline, pc, made>> /\ pc[p] = "idle" /\ work[p].step = "finish"
        /\ prepared' = IF work[p].action = "prepare" /\ work[p].good THEN prepared + 1 ELSE prepared
        /\ work' = [work EXCEPT ![p] = NoWork]
    BY <1>5 DEF Finish, At, vars, journal
  <2>2. CASE work[p].action = "prepare" /\ work[p].good
    <3>1. prepared = 0 /\ prepared' = 1 /\ made /\ baseline # -1
      BY <2>1, <2>2 DEF QInv, Alone, HasBaseline, Working
    <3>2. /\ \A q \in Processes : work'[q].action # "prepare"
          /\ \A q \in Processes \ {p} : work'[q] = work[q]
          /\ work'[p].action = "none" /\ work'[p].step = "none"
          /\ work' \in [Processes -> [action : Actions, step : Steps, good : BOOLEAN]]
      BY <1>0, <2>1, <2>2 DEF QInv, Alone, NoWork, Actions, Steps
    <3>3. Working' /\ Alone'
      BY <2>1, <3>1, <3>2 DEF QInv, Working, Alone
    <3>4. Course' /\ HasBaseline' /\ Asked'
      BY <2>1, <3>1, <3>2 DEF QInv, Course, HasBaseline, Asked
    <3> QED BY <3>3, <3>4 DEF QInv
  <2>3. CASE ~(work[p].action = "prepare" /\ work[p].good)
    BY <2>1, <2>3, GivesUpWork
  <2> QED BY <2>2, <2>3
<1> QED BY <1>1, <1>2, <1>3, <1>4, <1>5, ContinueKeeps DEF Perform

LEMMA QInvStep ==
  ASSUME QInv, TypeInv, TypeInv', [QNext]_qvars
  PROVE  QInv'
<1>1. CASE UNCHANGED qvars
  BY <1>1 DEF qvars, vars, journal, qualifier, QInv, Working, Alone, Course, HasBaseline, Asked
<1>2. CASE Broker /\ UNCHANGED qualifier
  <2>1. UNCHANGED <<intents, baseline, pc, made, prepared, work>>
    BY <1>2 DEF Broker, Book, TurnDown, Fill, Expire, Becomes, journal, qualifier
  <2> QED BY <2>1 DEF QInv, Working, Alone, Course, HasBaseline, Asked
<1>3. ASSUME NEW p \in Processes, Interrupt(p) PROVE QInv'
  <2>1. UNCHANGED <<intents, baseline, made, prepared>> /\ Goto(p, "idle")
        /\ work' = [work EXCEPT ![p].step = "handler", ![p].good = FALSE]
    BY <1>3 DEF Interrupt, Crash, Leave, journal
  <2>2. pc'[p] # "preflight" /\ \A q \in Processes \ {p} : pc'[q] = pc[q]
    BY <2>1 DEF Goto, TypeInv, Control
  <2> QED BY <2>1, <2>2, GivesIn
<1>4. ASSUME NEW p \in Processes, Die(p) PROVE QInv'
  <2>1. UNCHANGED <<intents, baseline, made, prepared>> /\ work' = [work EXCEPT ![p] = NoWork]
    BY <1>4 DEF Die, Crash, vars, journal
  <2>2. pc'[p] = "idle" /\ \A q \in Processes \ {p} : pc'[q] = pc[q]
    BY <1>4 DEF Die, Crash, Leave, Goto, vars, TypeInv, Control
  <2> QED BY <2>1, <2>2, GivesUpWork
<1> QED BY <1>1, <1>2, <1>3, <1>4, CommandKeeps, PerformKeeps DEF QNext

\* No intention before one finished preparation with its baseline, for any number
\* of commands at a time, and no submission without a match of its own.
THEOREM OrderAlwaysPrepared == QSpec => []OrderIsPrepared
<1>1. QSpec => []PaperInv
  BY QualifierRefines, PaperInvAlways, PTL
<1>2. QInit => QInv
  BY QInvInit
<1>3. QInv /\ PaperInv /\ PaperInv' /\ [QNext]_qvars => QInv'
  BY QInvStep DEF PaperInv
<1>4. QSpec => []QInv
  BY <1>1, <1>2, <1>3, PTL DEF QSpec
<1>5. QInv /\ PaperInv => OrderIsPrepared
  <2> SUFFICES ASSUME QInv, PaperInv PROVE OrderIsPrepared
    OBVIOUS
  <2>1. prepared = 1 => Prepared
    BY DEF QInv, Working, HasBaseline, PaperInv, Single, Before, Prepared
  <2>2. ASSUME NEW p \in Processes, pc[p] = "preflight" PROVE prepared = 1 /\ work[p].good
    BY <2>2 DEF QInv, Asked, Course
  <2> QED BY <2>1, <2>2 DEF OrderIsPrepared, QInv, Asked
<1> QED BY <1>1, <1>4, <1>5, PTL
=============================================================================
