----------------------------- MODULE PaperOrders -----------------------------
(***************************************************************************)
(* Simulated paper orders (market_vault/moomoo_simulation_orders.py and    *)
(* moomoo_simulation_recovery.py): one BUY of one share per journal.       *)
(*                                                                         *)
(* Several processes (one command line each) share an SQLite journal,      *)
(* whose transactions are atomic, and a broker, whose answers can be late, *)
(* lost or already out of date when they are used.  The journal admits an  *)
(* intention before the order is sent and never a second one; what became  *)
(* of the order is learned by querying the broker, never by sending again. *)
(*                                                                         *)
(* The broker is external: it books an order or refuses it, and fills,     *)
(* cancels or expires a booked one.  As the operating rules demand, nobody *)
(* else trades on the account.                                             *)
(***************************************************************************)
EXTENDS Integers, FiniteSets

CONSTANTS
  Processes,  \* commands that may run at the same time
  Intents,    \* intention ids
  None,       \* no intention
  MaxOrders,  \* bound: place_order calls
  Crashes     \* whether a process may die

ASSUME IntentAssumption == None \notin Intents
ASSUME OrderAssumption  == MaxOrders \in Nat \ {0} /\ Crashes \in BOOLEAN

OrderIds == 1 .. MaxOrders
\* FAILED, DISABLED and DELETED end an order unfilled like CANCELLED_ALL; the
\* partial statuses cannot occur with one whole share.
Terminal == {"FILLED_ALL", "CANCELLED_ALL"}
Booked   == {"SUBMITTED"} \union Terminal
Statuses == {"absent",          \* never sent
             "sent", "refused"} \* on its way; turned down without an order row
            \union Booked

VARIABLES
  \* the journal
  intents,    \* rows of `intentions'
  stopped,    \* an EMERGENCY_STOP event exists
  verdict,    \* the latest RECONCILIATION event
  baseline,   \* the position in the ACCOUNT_BASELINE event, or -1
  notes,      \* intention -> its SUBMISSION_NOT_SENT, _UNKNOWN, _RECEIPT events
  seen,       \* intention -> statuses in SUBMISSION_ACK and ORDER_OBSERVATION events
  cancelled,  \* intentions with a CANCEL_INTENT event
  \* the broker
  order,      \* order id -> its status
  of,         \* order id -> the intention in its remark
  asked,      \* order id -> cancel requests sent for it
  \* the processes
  pc,         \* process -> where it is
  my          \* process -> its local variables

journal == <<intents, stopped, verdict, baseline, notes, seen, cancelled>>
broker  == <<order, of, asked>>
vars    == <<journal, broker, pc, my>>

Places == {"idle",
           "preflight", "reserved", "noted", "attempt", "sending", "waiting", "receipt",
           "query", "check", "cancel", "modify",
           "base1", "base2", "base3", "base4",
           "intents", "account", "open", "record"}
Goals  == {"report", "cancel", "before", "after"}  \* what an observation is for

Locals == [intent : Intents \union {None}, order : {0} \union OrderIds,
           goal : Goals, fresh : BOOLEAN, old : SUBSET Booked,
           snap : {"absent"} \union Booked, first : {"absent"} \union Booked,
           count : 0 .. MaxOrders, ok : BOOLEAN]
Nothing == [intent |-> None, order |-> 0, goal |-> "report", fresh |-> FALSE,
            old |-> {}, snap |-> "absent", first |-> "absent", count |-> 0, ok |-> FALSE]

Init ==
  /\ intents = {} /\ stopped = FALSE /\ baseline = -1 /\ cancelled = {}
  /\ verdict = [match |-> TRUE, covers |-> {}]
  /\ notes = [i \in Intents |-> {}]
  /\ seen  = [i \in Intents |-> {}]
  /\ order = [o \in OrderIds |-> "absent"]
  /\ of    = [o \in OrderIds |-> None]
  /\ asked = [o \in OrderIds |-> 0]
  /\ pc = [p \in Processes |-> "idle"]
  /\ my = [p \in Processes |-> Nothing]

Goto(p, place) == pc' = [pc EXCEPT ![p] = place]
Leave(p)       == Goto(p, "idle") /\ my' = [my EXCEPT ![p] = Nothing]

\* require_running: no stop, and the latest reconciliation, if any, matched.
Running == ~stopped /\ verdict.match

-----------------------------------------------------------------------------
(***************************************************************************)
(* PaperExecution.submit                                                   *)
(***************************************************************************)
\* Faulty variants: the budget is per intention id; the stop is not looked at
\* again inside the transaction.
AdmissibleById(i)    == Running /\ i \notin intents
AdmissibleStopped(i) == intents = {}
\* PaperJournal.reserve, inside one BEGIN IMMEDIATE transaction.
Admissible(i)        == Running /\ intents = {}

SubmitStart(p, i) ==
  /\ pc[p] = "idle" /\ Admissible(i)
  /\ Goto(p, "preflight")
  /\ my' = [my EXCEPT ![p].intent = i]
  /\ UNCHANGED <<journal, broker>>

Reserve(p) ==
  /\ pc[p] = "preflight" /\ Admissible(my[p].intent)
  /\ intents' = intents \union {my[p].intent}
  /\ Goto(p, "reserved")
  /\ UNCHANGED <<stopped, verdict, baseline, notes, seen, cancelled, broker, my>>

\* The cash preflight or the reservation fails.
NotAdmitted(p) == pc[p] = "preflight" /\ Leave(p) /\ UNCHANGED <<journal, broker>>

Note(p, kind) == notes' = [notes EXCEPT ![my[p].intent] = @ \union {kind}]

\* SUBMISSION_CALL is appended; then `attempted = True'.
NoteCall(p)  == pc[p] = "reserved" /\ Goto(p, "noted") /\ UNCHANGED <<journal, broker, my>>
Attempted(p) == pc[p] = "noted" /\ Goto(p, "attempt") /\ UNCHANGED <<journal, broker, my>>

\* Faulty variant: `attempted' is set after the call.
UnattemptedLate == {"reserved", "noted", "attempt", "sending", "waiting"}
Unattempted     == {"reserved", "noted"}

\* An exception, an interrupt or the closing bell before the call is attempted.
NotSent(p) ==
  /\ pc[p] \in Unattempted
  /\ Note(p, "NOT_SENT")
  /\ Leave(p)
  /\ UNCHANGED <<intents, stopped, verdict, baseline, seen, cancelled, broker>>

\* Faulty variant: only reserve asks whether the journal runs.
MaySendAnyway == TRUE
MaySend       == Running
\* _call verifies the account and asks once more, then calls the broker.
LastCheck(p) ==
  /\ pc[p] = "attempt" /\ MaySend
  /\ Goto(p, "sending")
  /\ UNCHANGED <<journal, broker, my>>

PlaceOrder(p, o) ==
  /\ pc[p] = "sending"
  /\ order[o] = "absent" /\ \A q \in OrderIds : order[q] = "absent" => o <= q
  /\ order' = [order EXCEPT ![o] = "sent"]
  /\ of' = [of EXCEPT ![o] = my[p].intent]
  /\ my' = [my EXCEPT ![p].order = o]
  /\ Goto(p, "waiting")
  /\ UNCHANGED <<journal, asked>>

\* The answer names the order: a query hint, whatever the rest of the row holds.
Receipt(p) ==
  /\ pc[p] = "waiting" /\ order[my[p].order] \in Booked
  /\ Note(p, "RECEIPT")
  /\ my' = [my EXCEPT ![p].snap = order[my[p].order]]
  /\ Goto(p, "receipt")
  /\ UNCHANGED <<intents, stopped, verdict, baseline, seen, cancelled, broker>>

\* The row is complete and matches the intention.
Ack(p) ==
  /\ pc[p] = "receipt"
  /\ seen' = [seen EXCEPT ![my[p].intent] = @ \union {my[p].snap}]
  /\ Leave(p)
  /\ UNCHANGED <<intents, stopped, verdict, baseline, notes, cancelled, broker>>

\* Anything that fails from the attempt on: refused, timed out, interrupted, a
\* sparse row, a stop or a failed reconciliation in the meantime.
Unknown(p) ==
  /\ pc[p] \in {"attempt", "sending", "waiting", "receipt"}
  /\ Note(p, "UNKNOWN")
  /\ Leave(p)
  /\ UNCHANGED <<intents, stopped, verdict, baseline, seen, cancelled, broker>>

-----------------------------------------------------------------------------
(***************************************************************************)
(* Observation: PaperExecution.observe and PaperRecovery.recover.          *)
(***************************************************************************)
\* observe needs an order id from the journal and reads the earlier observations
\* after the query; recover needs none and reads them before it.
Hinted(i) == "RECEIPT" \in notes[i] \/ seen[i] # {}

Observing(i, goal, fresh) ==
  [Nothing EXCEPT !.intent = i, !.goal = goal, !.fresh = fresh,
                  !.old = IF fresh THEN {} ELSE seen[i]]

Observe(p, i) ==
  /\ pc[p] = "idle" /\ i \in intents /\ Hinted(i)
  /\ \E goal \in {"report", "cancel"} : my' = [my EXCEPT ![p] = Observing(i, goal, TRUE)]
  /\ Goto(p, "query")
  /\ UNCHANGED <<journal, broker>>

Recover(p, i) ==
  /\ pc[p] = "idle" /\ i \in intents
  /\ my' = [my EXCEPT ![p] = Observing(i, "report", FALSE)]
  /\ Goto(p, "query")
  /\ UNCHANGED <<journal, broker>>

\* The order rows that carry the intention's remark.
Rows(i) == {o \in OrderIds : of[o] = i /\ order[o] \in Booked}
\* Faulty variants: an order that is not found was rejected; it is only looked
\* for under the id of its receipt.
AnswersRejected(i) == IF Rows(i) = {} THEN {"CANCELLED_ALL"} ELSE {order[o] : o \in Rows(i)}
AnswersHinted(i)   == IF Hinted(i) THEN {order[o] : o \in Rows(i)} ELSE {}
\* "missing or ambiguous is NOT rejection"
Answers(i) == IF Cardinality(Rows(i)) = 1 THEN {order[o] : o \in Rows(i)} ELSE {}

Query(p) ==
  /\ pc[p] = "query"
  /\ \E s \in Answers(my[p].intent) : my' = [my EXCEPT ![p].snap = s]
  /\ Goto(p, "check")
  /\ UNCHANGED <<journal, broker>>

\* check_progress: a terminal status never changes.
Progress(p) ==
  \A s \in (IF my[p].fresh THEN seen[my[p].intent] ELSE my[p].old) \intersect Terminal :
    my[p].snap = s

\* ORDER_OBSERVATION is appended; what follows depends on who asked.
Observed(p) ==
  /\ pc[p] = "check" /\ Progress(p)
  /\ seen' = [seen EXCEPT ![my[p].intent] = @ \union {my[p].snap}]
  /\ CASE my[p].goal = "report" -> Leave(p)
       [] my[p].goal = "cancel" -> IF my[p].snap \in Terminal THEN Leave(p)
                                   ELSE Goto(p, "cancel") /\ UNCHANGED my
       [] my[p].goal = "before" -> Goto(p, "account") /\ UNCHANGED my
       [] my[p].goal = "after"  -> Goto(p, "open") /\ UNCHANGED my
  /\ UNCHANGED <<intents, stopped, verdict, baseline, notes, cancelled, broker>>

\* No row, several rows, a failed call or a regression; a reconciliation is then
\* recorded as BLOCKED.
ObserveFails(p) ==
  /\ pc[p] \in {"query", "check"}
  /\ IF my[p].goal \in {"before", "after"} THEN Goto(p, "record") /\ UNCHANGED my
                                          ELSE Leave(p)
  /\ UNCHANGED <<journal, broker>>

\* Faulty variant: reserve_cancel does not look for an earlier CANCEL_INTENT.
MayCancelAgain(i) == TRUE
MayCancel(i)      == i \notin cancelled

\* reserve_cancel, inside one transaction.
ReserveCancel(p) ==
  /\ pc[p] = "cancel" /\ MayCancel(my[p].intent)
  /\ cancelled' = cancelled \union {my[p].intent}
  /\ Goto(p, "modify")
  /\ UNCHANGED <<intents, stopped, verdict, baseline, notes, seen, broker, my>>

\* modify_order(CANCEL) for the observed order id; whether CANCEL_ACK or
\* CANCEL_UNKNOWN is appended changes nothing further.  Counted up to two.
AskCancel(p) ==
  /\ pc[p] = "modify"
  /\ asked' = [o \in OrderIds |-> IF o \in Rows(my[p].intent) /\ asked[o] < 2
                                  THEN asked[o] + 1 ELSE asked[o]]
  /\ Leave(p)
  /\ UNCHANGED <<journal, order, of>>

CancelFails(p) == pc[p] \in {"cancel", "modify"} /\ Leave(p) /\ UNCHANGED <<journal, broker>>

-----------------------------------------------------------------------------
(***************************************************************************)
(* PaperRecovery.stop, baseline and reconcile                              *)
(***************************************************************************)
\* The stop is committed before anything else; --cancel-owned goes on from there.
Stop(p) ==
  /\ pc[p] = "idle"
  /\ stopped' = TRUE
  /\ \/ UNCHANGED <<pc, my>>
     \/ \E i \in intents : /\ my' = [my EXCEPT ![p] = Observing(i, "cancel", FALSE)]
                           /\ Goto(p, "query")
  /\ UNCHANGED <<intents, verdict, baseline, notes, seen, cancelled, broker>>

\* Faulty variant: a cancelled order is taken for a sale.
PositionNet == Cardinality({o \in OrderIds : order[o] = "FILLED_ALL"})
               - Cardinality({o \in OrderIds : order[o] = "CANCELLED_ALL"})
NoneWorking == \A o \in OrderIds : order[o] # "SUBMITTED"
Position    == Cardinality({o \in OrderIds : order[o] = "FILLED_ALL"})

\* Faulty variant: the journal is not read again inside the transaction.
BaselineUnlessOne == baseline = -1
BaselineAllowed   == baseline = -1 /\ intents = {}

BaselineStart(p) ==
  /\ pc[p] = "idle" /\ BaselineAllowed
  /\ Goto(p, "base1")
  /\ UNCHANGED <<journal, broker, my>>

\* No working order, then positions and funds, then again no working order.
BaselineOrders(p, from, to) ==
  /\ pc[p] = from /\ NoneWorking
  /\ Goto(p, to)
  /\ UNCHANGED <<journal, broker, my>>

BaselineAccount(p) ==
  /\ pc[p] = "base2"
  /\ my' = [my EXCEPT ![p].count = Position]
  /\ Goto(p, "base3")
  /\ UNCHANGED <<journal, broker>>

RecordBaseline(p) ==
  /\ pc[p] = "base4" /\ BaselineAllowed
  /\ baseline' = my[p].count
  /\ Leave(p)
  /\ UNCHANGED <<intents, stopped, verdict, notes, seen, cancelled, broker>>

BaselineFails(p) ==
  /\ pc[p] \in {"base1", "base2", "base3", "base4"}
  /\ Leave(p)
  /\ UNCHANGED <<journal, broker>>

\* Without a baseline the result is BLOCKED at once.
ReconcileStart(p) ==
  /\ pc[p] = "idle"
  /\ Goto(p, IF baseline = -1 THEN "record" ELSE "intents")
  /\ UNCHANGED <<journal, broker, my>>

ReadIntents(p) ==
  /\ pc[p] = "intents"
  /\ IF intents = {}
     THEN Goto(p, "account") /\ UNCHANGED my
     ELSE /\ \E i \in intents : my' = [my EXCEPT ![p] = Observing(i, "before", FALSE)]
          /\ Goto(p, "query")
  /\ UNCHANGED <<journal, broker>>

Account(p) ==
  /\ pc[p] = "account"
  /\ my' = [my EXCEPT ![p].count = Position,
                      ![p].goal  = "after",
                      ![p].first = my[p].snap,
                      ![p].old   = IF my[p].intent = None THEN {} ELSE seen[my[p].intent]]
  /\ Goto(p, IF my[p].intent = None THEN "open" ELSE "query")
  /\ UNCHANGED <<journal, broker>>

\* Faulty variant: a working order does not block.
SettledAnyhow(p) == TRUE
Settled(p)       == my[p].intent # None => my[p].snap \in Terminal

\* The orders did not change around the account query, nothing else works, the
\* position is the baseline and what was filled, and the order has ended.
Tallies(p) ==
  /\ my[p].first = my[p].snap
  /\ \A o \in OrderIds : order[o] = "SUBMITTED" => of[o] = my[p].intent
  /\ my[p].count = baseline + (IF my[p].snap = "FILLED_ALL" THEN 1 ELSE 0)
  /\ Settled(p)

OpenOrders(p) ==
  /\ pc[p] = "open"
  /\ my' = [my EXCEPT ![p].ok = Tallies(p)]
  /\ Goto(p, "record")
  /\ UNCHANGED <<journal, broker>>

ReconcileFails(p) ==
  /\ pc[p] \in {"account", "open"}
  /\ Goto(p, "record")
  /\ UNCHANGED <<journal, broker, my>>

RecordVerdict(p) ==
  /\ pc[p] = "record"
  /\ verdict' = [match  |-> my[p].ok,
                 covers |-> IF my[p].ok THEN {my[p].intent} \ {None} ELSE {}]
  /\ Leave(p)
  /\ UNCHANGED <<intents, stopped, baseline, notes, seen, cancelled, broker>>

-----------------------------------------------------------------------------
\* The process dies, or cannot even append what went wrong.
Crash(p) ==
  /\ Crashes /\ pc[p] # "idle"
  /\ Leave(p)
  /\ UNCHANGED <<journal, broker>>

\* The broker moves an order on.
Becomes(o, old, new) ==
  /\ order[o] = old
  /\ order' = [order EXCEPT ![o] = new]
  /\ UNCHANGED <<journal, of, asked, pc, my>>

Book(o)     == Becomes(o, "sent", "SUBMITTED")
TurnDown(o) == Becomes(o, "sent", "refused")
Fill(o)     == Becomes(o, "SUBMITTED", "FILLED_ALL")
Expire(o)   == Becomes(o, "SUBMITTED", "CANCELLED_ALL")  \* or is cancelled

Submit(p) ==
  \/ \E i \in Intents : SubmitStart(p, i)
  \/ Reserve(p) \/ NotAdmitted(p) \/ NoteCall(p) \/ Attempted(p) \/ NotSent(p)
  \/ LastCheck(p) \/ (\E o \in OrderIds : PlaceOrder(p, o))
  \/ Receipt(p) \/ Ack(p) \/ Unknown(p)

Look(p) ==
  \/ \E i \in Intents : Observe(p, i) \/ Recover(p, i)
  \/ Query(p) \/ Observed(p) \/ ObserveFails(p)
  \/ ReserveCancel(p) \/ AskCancel(p) \/ CancelFails(p)

Reconcile(p) ==
  \/ BaselineStart(p) \/ BaselineOrders(p, "base1", "base2")
  \/ BaselineAccount(p) \/ BaselineOrders(p, "base3", "base4")
  \/ RecordBaseline(p) \/ BaselineFails(p)
  \/ ReconcileStart(p) \/ ReadIntents(p) \/ Account(p) \/ OpenOrders(p)
  \/ ReconcileFails(p) \/ RecordVerdict(p)

Step(p) == Submit(p) \/ Look(p) \/ Stop(p) \/ Reconcile(p) \/ Crash(p)

Broker == \E o \in OrderIds : Book(o) \/ TurnDown(o) \/ Fill(o) \/ Expire(o)

Next == Broker \/ \E p \in Processes : Step(p)

Spec == Init /\ [][Next]_vars

-----------------------------------------------------------------------------
(***************************************************************************)
(* Properties                                                              *)
(***************************************************************************)
TypeOK ==
  /\ intents \subseteq Intents /\ cancelled \subseteq Intents
  /\ stopped \in BOOLEAN
  /\ verdict \in [match : BOOLEAN, covers : SUBSET Intents]
  /\ baseline \in {-1} \union 0 .. MaxOrders
  /\ notes \in [Intents -> SUBSET {"NOT_SENT", "UNKNOWN", "RECEIPT"}]
  /\ seen \in [Intents -> SUBSET Booked]
  /\ order \in [OrderIds -> Statuses]
  /\ of \in [OrderIds -> Intents \union {None}]
  /\ asked \in [OrderIds -> 0 .. 2]
  /\ pc \in [Processes -> Places]
  /\ my \in [Processes -> Locals]

\* The journal sends at most one order in its life, through crashes, restarts and
\* concurrent callers ("A durable intention is never resubmitted, even after an
\* unacknowledged outcome").
OneOrder == \A o, q \in OrderIds : order[o] # "absent" /\ order[q] # "absent" => o = q

\* SUBMISSION_NOT_SENT is provable: no order of that intention exists or will.
NotSentIsTrue == \A o \in OrderIds : of[o] # None => "NOT_SENT" \notin notes[of[o]]

\* The journal never claims more than happened: a status it recorded as terminal
\* is the one the order ended with, and an observed order exists.
EvidenceIsTrue ==
  \A i \in Intents, s \in Booked :
    s \in seen[i] => \E o \in Rows(i) : s \in Terminal => order[o] = s

\* Once the stop is committed no intention is admitted and no process starts to
\* send; one that was past its last check may still finish its call.
Sending   == {p \in Processes : pc[p] = "sending"}
StopHolds == [][stopped => intents' = intents /\ Sending' \subseteq Sending]_vars

\* The baseline is the account before the order, however long its queries took.
BaselineIsBefore == baseline \in {-1, 0}

\* A reconciliation that matched and covered the intention was about an order that
\* has ended: nothing it reported can still change.
MatchIsSettled ==
  \A i \in verdict.covers :
    \E o \in Rows(i) : /\ order[o] \in Terminal
                       /\ baseline + (IF order[o] = "FILLED_ALL" THEN 1 ELSE 0) = Position

\* One cancel request per order, even if its outcome stayed unknown.
CancelOnce == \A o \in OrderIds : asked[o] <= 1

\* An order the broker booked is found in the end, though its receipt was lost.
OutcomeLearned ==
  \A o \in OrderIds : order[o] \in Booked ~> of[o] # None /\ seen[of[o]] \intersect Terminal # {}

-----------------------------------------------------------------------------
\* What the journal is for: it bounds the risk taken in its name.
Risk == INSTANCE PaperRisk WITH
  spent  <- intents # {},
  halted <- stopped,
  live   <- {o \in OrderIds : order[o] \in {"sent", "SUBMITTED"}},
  ended  <- {o \in OrderIds : order[o] \in Terminal \union {"refused"}}

\* Journal, broker and processes together never take more than one order's risk.
ImplementsRisk == Risk!Spec
=============================================================================
