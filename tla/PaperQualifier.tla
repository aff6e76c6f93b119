---------------------------- MODULE PaperQualifier ----------------------------
(***************************************************************************)
(* The qualifier (market_vault/moomoo_simulation_qualifier.py): the paper  *)
(* operations of PaperOrders chained into the commands prepare, submit,    *)
(* check and stop.                                                         *)
(*                                                                         *)
(* A preparation creates the journal, takes the baseline and reconciles;   *)
(* it is tried once.  A submission wants exactly one finished preparation  *)
(* and a reconciliation of its own that matches.  What fails on the way    *)
(* stops the journal if it was the preparation or has left an intention.   *)
(* The recovery command line may look at the journal too.                  *)
(***************************************************************************)
EXTENDS PaperOrders

VARIABLES
  made,      \* the journal file exists
  prepared,  \* QUALIFICATION_FINISH events of a preparation with result PREPARED
  work       \* process -> the qualifier's command and its next operation

qualifier == <<made, prepared, work>>
qvars     == <<vars, qualifier>>

Actions == {"none", "prepare", "submit", "check", "stop"}
Steps   == {"none", "baseline", "ready", "reconcile", "submit", "cancel", "handler", "finish"}
NoWork  == [action |-> "none", step |-> "none", good |-> FALSE]

QInit ==
  /\ Init
  /\ made = FALSE /\ prepared = 0
  /\ work = [p \in Processes |-> NoWork]

Works(p, action, step) ==
  work' = [work EXCEPT ![p] = [action |-> action, step |-> step, good |-> FALSE]]
At(p, step) == pc[p] = "idle" /\ work[p].step = step

-----------------------------------------------------------------------------
(***************************************************************************)
(* perform: the journal is created or opened, QUALIFICATION_START appended *)
(***************************************************************************)
\* Exclusive creation: an existing journal is never prepared again.
Prepare(p) ==
  /\ At(p, "none") /\ ~made
  /\ made' = TRUE /\ Works(p, "prepare", "baseline")
  /\ UNCHANGED <<vars, prepared>>

BeginSubmit(p) ==
  /\ At(p, "none") /\ made
  /\ Works(p, "submit", "ready")
  /\ UNCHANGED <<vars, made, prepared>>

BeginCheck(p) ==
  /\ At(p, "none") /\ made
  /\ Works(p, "check", "reconcile")
  /\ UNCHANGED <<vars, made, prepared>>

\* The stop is committed first; it may go on to cancel.
BeginStop(p) ==
  /\ At(p, "none") /\ made
  /\ Stop(p)
  /\ Works(p, "stop", IF pc'[p] = "idle" THEN "finish" ELSE "cancel")
  /\ UNCHANGED <<made, prepared>>

-----------------------------------------------------------------------------
(***************************************************************************)
(* _connected_action                                                       *)
(***************************************************************************)
\* Faulty variant: the preparation is not asked for.
ReadyUnasked == Running /\ intents = {}
\* No stop, no failed reconciliation, no intention, exactly one preparation.
Ready        == Running /\ intents = {} /\ prepared = 1

CheckReady(p) ==
  /\ At(p, "ready") /\ Ready
  /\ work' = [work EXCEPT ![p].step = "reconcile"]
  /\ UNCHANGED <<vars, made, prepared>>

\* The next operation is entered.
Enter(p) ==
  /\ \/ At(p, "baseline")  /\ BaselineStart(p)
     \/ At(p, "reconcile") /\ ReconcileStart(p)
     \/ At(p, "submit")    /\ \E i \in Intents : SubmitStart(p, i)
  /\ UNCHANGED qualifier

\* Whether the operation that this step ends returns what the command needs; it
\* raises or is BLOCKED otherwise.
Good(p) ==
  \/ work[p].step = "baseline"  /\ baseline' # baseline
  \/ work[p].step = "reconcile" /\ my[p].ok
  \/ work[p].step = "submit"    /\ pc[p] = "receipt" /\ UNCHANGED notes
  \/ work[p].step = "cancel"

\* Where the command goes from the end of an operation.
NextStep(p) ==
  LET now == work[p].step
      mine == work[p].action
  IN IF now = "none" THEN "none"
     ELSE IF mine \in {"check", "stop"} THEN "finish"
     ELSE IF ~Good(p) THEN "handler"
     ELSE IF now = "baseline" THEN "reconcile"
     ELSE IF now = "reconcile" /\ mine = "submit" THEN "submit" ELSE "finish"

\* The operation goes on; at its end, so does the command.
Continue(p) ==
  /\ pc[p] # "idle" /\ (Submit(p) \/ Look(p) \/ Reconcile(p))
  /\ work' = IF pc'[p] # "idle" THEN work
             ELSE [work EXCEPT ![p].step = NextStep(p), ![p].good = Good(p)]
  /\ UNCHANGED <<made, prepared>>

-----------------------------------------------------------------------------
(***************************************************************************)
(* perform: the exception handler and the finally clause                   *)
(***************************************************************************)
\* Anything raised between two operations, or by closing the connection after the
\* last: a refusal, no connection.
Raises(p) ==
  /\ pc[p] = "idle"
  /\ \/ work[p].step \in {"baseline", "ready", "reconcile", "submit"}
     \/ work[p].step = "finish" /\ work[p].good
  /\ work' = [work EXCEPT ![p].step = "handler", ![p].good = FALSE]
  /\ UNCHANGED <<vars, made, prepared>>

\* A KeyboardInterrupt that no operation handles itself.
Interrupt(p) ==
  /\ pc[p] # "idle" /\ work[p].step # "none"
  /\ Crash(p)
  /\ work' = [work EXCEPT ![p].step = "handler", ![p].good = FALSE]
  /\ UNCHANGED <<made, prepared>>

GivesUp(p) == work[p].action = "prepare" \/ (work[p].action = "submit" /\ intents # {})

\* "Never reset a failed preparation or ambiguous submission to try again."  The
\* handler may itself be interrupted.
Handle(p) ==
  /\ At(p, "handler")
  /\ \/ GivesUp(p) /\ UNCHANGED <<pc, my>> /\ Stop(p)
     \/ UNCHANGED vars
  /\ work' = [work EXCEPT ![p].step = "finish"]
  /\ UNCHANGED <<made, prepared>>

\* QUALIFICATION_FINISH is appended and the journal closed.
Finish(p) ==
  /\ At(p, "finish")
  /\ prepared' = IF work[p].action = "prepare" /\ work[p].good THEN prepared + 1 ELSE prepared
  /\ work' = [work EXCEPT ![p] = NoWork]
  /\ UNCHANGED <<vars, made>>

\* The process dies between or inside operations, or cannot append.
Die(p) ==
  /\ Crashes /\ ~At(p, "none")
  /\ IF pc[p] = "idle" THEN UNCHANGED vars ELSE Crash(p)
  /\ work' = [work EXCEPT ![p] = NoWork]
  /\ UNCHANGED <<made, prepared>>

-----------------------------------------------------------------------------
\* The recovery command line on the same journal.
BeginRecover(p) ==
  /\ At(p, "none") /\ made
  /\ \E i \in Intents : Recover(p, i)
  /\ UNCHANGED qualifier

Command(p) ==
  \/ Prepare(p) \/ BeginSubmit(p) \/ BeginCheck(p) \/ BeginStop(p) \/ BeginRecover(p)
Perform(p) ==
  \/ CheckReady(p) \/ Enter(p) \/ Continue(p) \/ Raises(p) \/ Handle(p) \/ Finish(p)

QNext ==
  \/ Broker /\ UNCHANGED qualifier
  \/ \E p \in Processes : Command(p) \/ Perform(p) \/ Interrupt(p) \/ Die(p)

QSpec == QInit /\ [][QNext]_qvars

\* A command goes on.  The operator repeats recover or check, whichever, and what
\* such a command asks of the broker is not always refused; the broker decides.
Asking(p) == my[p].goal \in {"report", "before"}
QFairSpec ==
  /\ QSpec
  /\ \A p \in Processes : /\ WF_qvars(Perform(p))
                          /\ SF_qvars(BeginRecover(p) \/ BeginCheck(p))
                          /\ SF_qvars(At(p, "reconcile") /\ Enter(p))
                          /\ SF_qvars(ReadIntents(p) /\ Continue(p))
                          /\ SF_qvars(Asking(p) /\ Query(p) /\ Continue(p))
                          /\ SF_qvars(Asking(p) /\ Observed(p) /\ Continue(p))
  /\ \A o \in OrderIds : /\ WF_qvars((Book(o) \/ TurnDown(o)) /\ UNCHANGED qualifier)
                         /\ WF_qvars((Fill(o) \/ Expire(o)) /\ UNCHANGED qualifier)

-----------------------------------------------------------------------------
(***************************************************************************)
(* Properties                                                              *)
(***************************************************************************)
\* Nothing is admitted, let alone sent, before one preparation has finished, and
\* with it the baseline of an account without the order: failed, dead and unfinished
\* preparations are the end of their journal.  Before its intention is admitted, a
\* submission has itself reconciled and matched; an earlier match is not enough.
Prepared        == made /\ prepared = 1 /\ baseline = 0
OrderIsPrepared ==
  /\ intents # {} => Prepared
  /\ \A p \in Processes : pc[p] = "preflight" => Prepared /\ work[p].good
=============================================================================
