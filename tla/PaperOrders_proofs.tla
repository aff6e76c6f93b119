-------------------------- MODULE PaperOrders_proofs --------------------------
(***************************************************************************)
(* Proofs about PaperOrders for any processes, intention ids and bound on  *)
(* orders.                                                                 *)
(***************************************************************************)
EXTENDS PaperOrders, FiniteSetTheorems, TLAPS

\* Whoever submits or observes has an intention in hand, and whoever records a
\* status has seen one.
Aiming == {"preflight", "reserved", "noted", "attempt", "sending", "waiting",
           "receipt", "query", "check", "cancel", "modify"}
Aimed  ==
  \A p \in Processes : /\ pc[p] \in Aiming => my[p].intent \in Intents
                       /\ pc[p] \in {"receipt", "check"} => my[p].snap \in Booked

Shape ==
  /\ intents \subseteq Intents /\ cancelled \subseteq Intents
  /\ stopped \in BOOLEAN
  /\ verdict \in [match : BOOLEAN, covers : SUBSET Intents]
  /\ baseline \in {-1} \union 0 .. MaxOrders
  /\ notes \in [Intents -> SUBSET {"NOT_SENT", "UNKNOWN", "RECEIPT"}]
  /\ seen \in [Intents -> SUBSET Booked]
  /\ order \in [OrderIds -> Statuses]
  /\ of \in [OrderIds -> Intents \union {None}]
  /\ asked \in [OrderIds -> 0 .. 2]
Control ==
  /\ pc \in [Processes -> Places]
  /\ my \in [Processes -> Locals]
  /\ Aimed

TypeInv == Shape /\ Control

LEMMA PositionType == Position \in 0 .. MaxOrders
<1> DEFINE F == {o \in OrderIds : order[o] = "FILLED_ALL"}
<1>1. IsFiniteSet(OrderIds) /\ Cardinality(OrderIds) = MaxOrders
  BY OrderAssumption, FS_Interval DEF OrderIds
<1>2. IsFiniteSet(F) /\ Cardinality(F) <= Cardinality(OrderIds)
  BY <1>1, FS_Subset
<1>3. Cardinality(F) \in Nat
  BY <1>2, FS_CardinalityType
<1> HIDE DEF F
<1>4. Position = Cardinality(F)
  BY DEF Position, F
<1> QED BY <1>1, <1>2, <1>3, <1>4, OrderAssumption

LEMMA NothingType == Nothing \in Locals /\ Nothing.intent = None
BY OrderAssumption DEF Nothing, Locals, Goals

\* Fields of the local variables, and what assigning one of them keeps.
LEMMA Fields ==
  ASSUME NEW r \in Locals
  PROVE  /\ r.intent \in Intents \union {None} /\ r.order \in {0} \union OrderIds
         /\ r.goal \in Goals /\ r.fresh \in BOOLEAN /\ r.old \subseteq Booked
         /\ r.snap \in {"absent"} \union Booked /\ r.count \in 0 .. MaxOrders
         /\ r.ok \in BOOLEAN
BY DEF Locals

LEMMA Assign ==
  ASSUME NEW r \in Locals
  PROVE  /\ \A i \in Intents : /\ [r EXCEPT !.intent = i] \in Locals
                               /\ [r EXCEPT !.intent = i].intent = i
         /\ \A o \in OrderIds : /\ [r EXCEPT !.order = o] \in Locals
                                /\ [r EXCEPT !.order = o].intent = r.intent
         /\ \A s \in Booked : /\ [r EXCEPT !.snap = s] \in Locals
                              /\ [r EXCEPT !.snap = s].intent = r.intent
                              /\ [r EXCEPT !.snap = s].snap = s
         /\ \A n \in 0 .. MaxOrders : /\ [r EXCEPT !.count = n] \in Locals
                                      /\ [r EXCEPT !.count = n].intent = r.intent
         /\ \A b \in BOOLEAN : /\ [r EXCEPT !.ok = b] \in Locals
                               /\ [r EXCEPT !.ok = b].intent = r.intent
BY DEF Locals

LEMMA Fresh ==
  ASSUME NEW i \in Intents, NEW g \in Goals, NEW f \in BOOLEAN, NEW s \in SUBSET Booked
  PROVE  LET new == [Nothing EXCEPT !.intent = i, !.goal = g, !.fresh = f, !.old = s]
         IN  new \in Locals /\ new.intent = i
<1>1. Nothing \in Locals
  BY NothingType
<1> HIDE DEF Nothing
<1> QED BY <1>1 DEF Locals

LEMMA ObservingType ==
  ASSUME NEW i \in Intents, NEW g \in Goals, NEW f \in BOOLEAN, seen \in [Intents -> SUBSET Booked]
  PROVE  Observing(i, g, f) \in Locals /\ Observing(i, g, f).intent = i
<1> DEFINE old == IF f THEN {} ELSE seen[i]
<1>1. old \in SUBSET Booked
  OBVIOUS
<1>2. Observing(i, g, f) = [Nothing EXCEPT !.intent = i, !.goal = g, !.fresh = f, !.old = old]
  BY DEF Observing
<1> DEFINE new == [Nothing EXCEPT !.intent = i, !.goal = g, !.fresh = f, !.old = old]
<1> HIDE DEF old
<1>3. new \in Locals /\ new.intent = i
  BY <1>1, Fresh
<1> QED BY <1>2, <1>3, Zenon

LEMMA AccountingType ==
  ASSUME NEW r \in Locals, NEW n \in 0 .. MaxOrders, NEW s \in SUBSET Booked
  PROVE  LET new == [r EXCEPT !.count = n, !.goal = "after", !.first = r.snap, !.old = s]
         IN  new \in Locals /\ new.intent = r.intent
BY DEF Locals, Goals

LEMMA TypeInit == Init => TypeInv
<1> SUFFICES ASSUME Init PROVE TypeInv
  OBVIOUS
<1>1. intents \subseteq Intents /\ cancelled \subseteq Intents /\ stopped \in BOOLEAN
  BY DEF Init
<1>2. verdict \in [match : BOOLEAN, covers : SUBSET Intents] /\ baseline \in {-1} \union 0 .. MaxOrders
  BY DEF Init
<1>3. notes \in [Intents -> SUBSET {"NOT_SENT", "UNKNOWN", "RECEIPT"}]
  BY DEF Init
<1>4. seen \in [Intents -> SUBSET Booked]
  BY DEF Init
<1>5. order \in [OrderIds -> Statuses] /\ of \in [OrderIds -> Intents \union {None}]
  BY DEF Init, Statuses
<1>6. asked \in [OrderIds -> 0 .. 2]
  BY DEF Init
<1>7. Shape
  BY <1>1, <1>2, <1>3, <1>4, <1>5, <1>6 DEF Shape
<1>8. Control
  BY NothingType DEF Init, Control, Aimed, Aiming, Places
<1> QED BY <1>7, <1>8 DEF TypeInv

\* A process moves with new local variables, or with those it had.
LEMMA Turns ==
  ASSUME Control, NEW p \in Processes, NEW place \in Places, NEW r \in Locals,
         Goto(p, place), my' = [my EXCEPT ![p] = r],
         place \in Aiming => r.intent \in Intents,
         place \in {"receipt", "check"} => r.snap \in Booked
  PROVE  Control'
BY DEF Control, Aimed, Goto

LEMMA Walks ==
  ASSUME Control, NEW p \in Processes, NEW place \in Places,
         Goto(p, place), UNCHANGED my,
         place \in Aiming => my[p].intent \in Intents,
         place \in {"receipt", "check"} => my[p].snap \in Booked
  PROVE  Control'
BY DEF Control, Aimed, Goto

LEMMA Leaves ==
  ASSUME Control, NEW p \in Processes, Leave(p)
  PROVE  Control'
<1>1. "idle" \in Places /\ "idle" \notin Aiming \union {"receipt", "check"}
  BY DEF Places, Aiming
<1> QED BY <1>1, NothingType, Turns DEF Leave

LEMMA ShapeFrame == Shape /\ UNCHANGED <<journal, broker>> => Shape'
BY DEF Shape, journal, broker

LEMMA NoteType ==
  ASSUME Shape, NEW p \in Processes, my[p].intent \in Intents,
         NEW kind \in {"NOT_SENT", "UNKNOWN", "RECEIPT"}, Note(p, kind),
         UNCHANGED <<intents, stopped, verdict, baseline, seen, cancelled, broker>>
  PROVE  Shape'
<1>1. notes' \in [Intents -> SUBSET {"NOT_SENT", "UNKNOWN", "RECEIPT"}]
  BY DEF Shape, Note
<1> QED BY <1>1 DEF Shape, broker

LEMMA SeenType ==
  ASSUME Shape, NEW p \in Processes, my[p].intent \in Intents, my[p].snap \in Booked,
         seen' = [seen EXCEPT ![my[p].intent] = @ \union {my[p].snap}],
         UNCHANGED <<intents, stopped, verdict, baseline, notes, cancelled, broker>>
  PROVE  Shape'
<1>1. seen' \in [Intents -> SUBSET Booked]
  BY DEF Shape
<1> QED BY <1>1 DEF Shape, broker

LEMMA SubmitType ==
  ASSUME TypeInv, NEW p \in Processes, Submit(p)
  PROVE  TypeInv'
<1> USE DEF TypeInv
<1>0. my[p] \in Locals /\ my \in [Processes -> Locals]
  BY DEF Control
<1>1. ASSUME NEW i \in Intents, SubmitStart(p, i) PROVE TypeInv'
  <2>1. [my[p] EXCEPT !.intent = i] \in Locals /\ [my[p] EXCEPT !.intent = i].intent = i
    BY <1>0, Assign
  <2>2. "preflight" \in Places \ {"receipt", "check"}
    BY DEF Places
  <2>3. my' = [my EXCEPT ![p] = [my[p] EXCEPT !.intent = i]]
    BY <1>1 DEF SubmitStart
  <2>4. Control'
    BY <1>1, <2>1, <2>2, <2>3, Turns DEF SubmitStart
  <2> QED BY <1>1, <2>4, ShapeFrame DEF SubmitStart
<1>2. CASE Reserve(p)
  <2>1. my[p].intent \in Intents
    BY <1>2 DEF Reserve, Control, Aimed, Aiming
  <2>2. "reserved" \in Places \ {"receipt", "check"}
    BY DEF Places
  <2>3. Control'
    BY <1>2, <2>1, <2>2, Walks DEF Reserve
  <2>4. Shape'
    BY <1>2, <2>1 DEF Reserve, Shape, broker
  <2> QED BY <2>3, <2>4
<1>3. CASE NotAdmitted(p)
  BY <1>3, Leaves, ShapeFrame DEF NotAdmitted
<1>4. CASE NoteCall(p) \/ Attempted(p) \/ LastCheck(p)
  <2>1. my[p].intent \in Intents
    BY <1>4 DEF NoteCall, Attempted, LastCheck, Control, Aimed, Aiming
  <2>2. {"noted", "attempt", "sending"} \subseteq Places \ {"receipt", "check"}
    BY DEF Places
  <2>3. Control'
    BY <1>4, <2>1, <2>2, Walks DEF NoteCall, Attempted, LastCheck
  <2> QED BY <1>4, <2>3, ShapeFrame DEF NoteCall, Attempted, LastCheck
<1>5. CASE NotSent(p) \/ Unknown(p)
  <2>1. my[p].intent \in Intents
    BY <1>5 DEF NotSent, Unknown, Unattempted, Control, Aimed, Aiming
  <2>2. Shape'
    BY <1>5, <2>1, NoteType DEF NotSent, Unknown
  <2> QED BY <1>5, <2>2, Leaves DEF NotSent, Unknown
<1>6. ASSUME NEW o \in OrderIds, PlaceOrder(p, o) PROVE TypeInv'
  <2>1. my[p].intent \in Intents
    BY <1>6 DEF PlaceOrder, Control, Aimed, Aiming
  <2>2. [my[p] EXCEPT !.order = o] \in Locals /\ [my[p] EXCEPT !.order = o].intent = my[p].intent
    BY <1>0, Assign
  <2>3. "waiting" \in Places \ {"receipt", "check"}
    BY DEF Places
  <2>4. my' = [my EXCEPT ![p] = [my[p] EXCEPT !.order = o]]
    BY <1>6 DEF PlaceOrder
  <2>5. Control'
    BY <1>6, <2>1, <2>2, <2>3, <2>4, Turns DEF PlaceOrder
  <2>6. Shape'
    BY <1>6, <2>1 DEF PlaceOrder, Shape, journal, Statuses
  <2> QED BY <2>5, <2>6
<1>7. CASE Receipt(p)
  <2> DEFINE s == order[my[p].order]
  <2>1. my[p].intent \in Intents
    BY <1>7 DEF Receipt, Control, Aimed, Aiming
  <2>2. s \in Booked
    BY <1>7 DEF Receipt
  <2>3. [my[p] EXCEPT !.snap = s] \in Locals /\ [my[p] EXCEPT !.snap = s].intent = my[p].intent
        /\ [my[p] EXCEPT !.snap = s].snap = s
    BY <1>0, <2>2, Assign
  <2>4. my' = [my EXCEPT ![p] = [my[p] EXCEPT !.snap = s]]
    BY <1>7 DEF Receipt
  <2>5. "receipt" \in Places
    BY DEF Places
  <2> HIDE DEF s
  <2>6. Control'
    BY <1>7, <2>1, <2>2, <2>3, <2>4, <2>5, Turns DEF Receipt
  <2> QED BY <1>7, <2>1, <2>6, NoteType DEF Receipt
<1>8. CASE Ack(p)
  <2>1. my[p].intent \in Intents /\ my[p].snap \in Booked
    BY <1>8 DEF Ack, Control, Aimed, Aiming
  <2> QED BY <1>8, <2>1, SeenType, Leaves DEF Ack
<1> QED BY <1>1, <1>2, <1>3, <1>4, <1>5, <1>6, <1>7, <1>8 DEF Submit

LEMMA LookType ==
  ASSUME TypeInv, NEW p \in Processes, Look(p)
  PROVE  TypeInv'
<1> USE DEF TypeInv
<1>0. my[p] \in Locals /\ my \in [Processes -> Locals] /\ seen \in [Intents -> SUBSET Booked]
  BY DEF Control, Shape
<1>q. "query" \in Places \ {"receipt", "check"} /\ {"report", "cancel"} \subseteq Goals
  BY DEF Places, Goals
<1>1. ASSUME NEW i \in Intents, Observe(p, i) PROVE TypeInv'
  <2>1. PICK goal \in {"report", "cancel"} : my' = [my EXCEPT ![p] = Observing(i, goal, TRUE)]
    BY <1>1 DEF Observe
  <2>2. Observing(i, goal, TRUE) \in Locals /\ Observing(i, goal, TRUE).intent = i
    BY <1>0, <1>q, ObservingType
  <2>3. Control'
    BY <1>1, <1>q, <2>1, <2>2, Turns DEF Observe
  <2> QED BY <1>1, <2>3, ShapeFrame DEF Observe
<1>2. ASSUME NEW i \in Intents, Recover(p, i) PROVE TypeInv'
  <2>1. Observing(i, "report", FALSE) \in Locals /\ Observing(i, "report", FALSE).intent = i
    BY <1>0, <1>q, ObservingType
  <2>2. Control'
    BY <1>2, <1>q, <2>1, Turns DEF Recover
  <2> QED BY <1>2, <2>2, ShapeFrame DEF Recover
<1>3. CASE Query(p)
  <2>1. my[p].intent \in Intents
    BY <1>3 DEF Query, Control, Aimed, Aiming
  <2>2. PICK s \in Answers(my[p].intent) : my' = [my EXCEPT ![p].snap = s]
    BY <1>3 DEF Query
  <2>3. s \in Booked
    BY <2>2 DEF Answers, Rows
  <2>4. [my[p] EXCEPT !.snap = s] \in Locals /\ [my[p] EXCEPT !.snap = s].intent = my[p].intent
        /\ [my[p] EXCEPT !.snap = s].snap = s
    BY <1>0, <2>3, Assign
  <2>5. my' = [my EXCEPT ![p] = [my[p] EXCEPT !.snap = s]]
    BY <2>2
  <2>6. "check" \in Places
    BY DEF Places
  <2>7. Control'
    BY <1>3, <2>1, <2>3, <2>4, <2>5, <2>6, Turns DEF Query
  <2> QED BY <1>3, <2>7, ShapeFrame DEF Query
<1>4. CASE Observed(p)
  <2>1. my[p].intent \in Intents /\ my[p].snap \in Booked
    BY <1>4 DEF Observed, Control, Aimed, Aiming
  <2>2. Shape'
    BY <1>4, <2>1, SeenType DEF Observed
  <2>3. {"cancel", "account", "open"} \subseteq Places \ {"receipt", "check"}
    BY DEF Places
  <2>4. my[p].goal \in Goals
    BY <1>0, Fields
  <2>5. Leave(p) \/ (UNCHANGED my /\ \E place \in {"cancel", "account", "open"} : Goto(p, place))
    BY <1>4, <2>4 DEF Observed, Goals
  <2>6. Control'
    BY <2>1, <2>3, <2>5, Walks, Leaves
  <2> QED BY <2>2, <2>6
<1>5. CASE ObserveFails(p)
  <2>1. "record" \in Places \ (Aiming \union {"receipt", "check"})
    BY DEF Places, Aiming
  <2>2. Leave(p) \/ (UNCHANGED my /\ Goto(p, "record"))
    BY <1>5 DEF ObserveFails
  <2>3. Control'
    BY <2>1, <2>2, Walks, Leaves
  <2> QED BY <1>5, <2>3, ShapeFrame DEF ObserveFails
<1>6. CASE ReserveCancel(p)
  <2>1. my[p].intent \in Intents
    BY <1>6 DEF ReserveCancel, Control, Aimed, Aiming
  <2>2. "modify" \in Places \ {"receipt", "check"}
    BY DEF Places
  <2>3. Control'
    BY <1>6, <2>1, <2>2, Walks DEF ReserveCancel
  <2>4. Shape'
    BY <1>6, <2>1 DEF ReserveCancel, Shape, broker
  <2> QED BY <2>3, <2>4
<1>7. CASE AskCancel(p)
  <2>1. asked' \in [OrderIds -> 0 .. 2]
    BY <1>7 DEF AskCancel, Shape
  <2>2. Shape'
    BY <1>7, <2>1 DEF AskCancel, Shape, journal
  <2> QED BY <1>7, <2>2, Leaves DEF AskCancel
<1>8. CASE CancelFails(p)
  BY <1>8, Leaves, ShapeFrame DEF CancelFails
<1> QED BY <1>1, <1>2, <1>3, <1>4, <1>5, <1>6, <1>7, <1>8 DEF Look

LEMMA StopType ==
  ASSUME TypeInv, NEW p \in Processes, Stop(p)
  PROVE  TypeInv'
<1> USE DEF TypeInv
<1>1. Shape'
  BY DEF Stop, Shape, broker
<1>2. CASE UNCHANGED <<pc, my>>
  BY <1>1, <1>2 DEF Control, Aimed
<1>3. CASE ~UNCHANGED <<pc, my>>
  <2>1. PICK i \in intents : /\ my' = [my EXCEPT ![p] = Observing(i, "cancel", FALSE)]
                             /\ Goto(p, "query")
    BY <1>3 DEF Stop
  <2>2. Observing(i, "cancel", FALSE) \in Locals /\ Observing(i, "cancel", FALSE).intent = i
    BY ObservingType DEF Shape, Goals
  <2>3. "query" \in Places \ {"receipt", "check"}
    BY DEF Places
  <2>4. i \in Intents
    BY DEF Shape
  <2>5. Control'
    BY <2>1, <2>2, <2>3, <2>4, Turns
  <2> QED BY <1>1, <2>5
<1> QED BY <1>2, <1>3

LEMMA ReconcileType ==
  ASSUME TypeInv, NEW p \in Processes, Reconcile(p)
  PROVE  TypeInv'
<1> USE DEF TypeInv
<1>0. my[p] \in Locals /\ my \in [Processes -> Locals] /\ seen \in [Intents -> SUBSET Booked]
  BY DEF Control, Shape
<1>w. /\ {"base1", "base2", "base3", "base4", "intents", "account", "open", "record"}
           \subseteq Places \ (Aiming \union {"receipt", "check"})
      /\ "query" \in Places \ {"receipt", "check"}
  BY DEF Places, Aiming
<1>1. CASE \/ BaselineStart(p) \/ BaselineOrders(p, "base1", "base2")
           \/ BaselineOrders(p, "base3", "base4") \/ ReconcileStart(p) \/ ReconcileFails(p)
  <2>1. UNCHANGED my /\ \E place \in {"base1", "base2", "base4", "record", "intents"} : Goto(p, place)
    BY <1>1 DEF BaselineStart, BaselineOrders, ReconcileStart, ReconcileFails
  <2>2. Control'
    BY <1>w, <2>1, Walks
  <2>3. Shape'
    BY <1>1, ShapeFrame DEF BaselineStart, BaselineOrders, ReconcileStart, ReconcileFails
  <2> QED BY <2>2, <2>3
<1>2. CASE BaselineAccount(p)
  <2>1. [my[p] EXCEPT !.count = Position] \in Locals
    BY <1>0, PositionType, Assign
  <2>2. my' = [my EXCEPT ![p] = [my[p] EXCEPT !.count = Position]]
    BY <1>2 DEF BaselineAccount
  <2>3. Control'
    BY <1>2, <1>w, <2>1, <2>2, Turns DEF BaselineAccount
  <2> QED BY <1>2, <2>3, ShapeFrame DEF BaselineAccount
<1>3. CASE RecordBaseline(p)
  <2>1. baseline' \in 0 .. MaxOrders
    BY <1>0, <1>3, Fields DEF RecordBaseline
  <2>2. Shape'
    BY <1>3, <2>1 DEF RecordBaseline, Shape, broker
  <2> QED BY <1>3, <2>2, Leaves DEF RecordBaseline
<1>4. CASE BaselineFails(p)
  BY <1>4, Leaves, ShapeFrame DEF BaselineFails
<1>5. CASE ReadIntents(p) /\ intents = {}
  <2>1. Control'
    BY <1>5, <1>w, Walks DEF ReadIntents
  <2> QED BY <1>5, <2>1, ShapeFrame DEF ReadIntents
<1>6. CASE ReadIntents(p) /\ intents # {}
  <2>1. PICK i \in intents : my' = [my EXCEPT ![p] = Observing(i, "before", FALSE)]
    BY <1>6 DEF ReadIntents
  <2>2. i \in Intents
    BY DEF Shape
  <2>3. Observing(i, "before", FALSE) \in Locals /\ Observing(i, "before", FALSE).intent = i
    BY <1>0, <2>2, ObservingType DEF Goals
  <2>4. Control'
    BY <1>6, <1>w, <2>1, <2>2, <2>3, Turns DEF ReadIntents
  <2> QED BY <1>6, <2>4, ShapeFrame DEF ReadIntents
<1>7. CASE Account(p)
  <2> DEFINE old == IF my[p].intent = None THEN {} ELSE seen[my[p].intent]
             new == [my[p] EXCEPT !.count = Position, !.goal = "after", !.first = my[p].snap, !.old = old]
  <2>1. my[p].intent \in Intents \union {None}
    BY <1>0, Fields
  <2>2. old \in SUBSET Booked
    BY <1>0, <2>1
  <2>3. my' = [my EXCEPT ![p] = new]
    BY <1>7 DEF Account
  <2> HIDE DEF old
  <2>4. new \in Locals /\ new.intent = my[p].intent
    BY <1>0, <2>2, PositionType, AccountingType
  <2> HIDE DEF new
  <2>5. Goto(p, IF my[p].intent = None THEN "open" ELSE "query")
    BY <1>7 DEF Account
  <2>6. CASE my[p].intent = None
    BY <1>w, <2>3, <2>4, <2>5, <2>6, <1>7, Turns, ShapeFrame DEF Account
  <2>7. CASE my[p].intent # None
    BY <1>w, <2>1, <2>3, <2>4, <2>5, <2>7, <1>7, Turns, ShapeFrame DEF Account
  <2> QED BY <2>6, <2>7
<1>8. CASE OpenOrders(p)
  <2> DEFINE new == [my[p] EXCEPT !.ok = Tallies(p)]
  <2>1. Tallies(p) \in BOOLEAN
    BY DEF Tallies
  <2>2. new \in Locals
    BY <1>0, <2>1, Assign
  <2>3. my' = [my EXCEPT ![p] = new]
    BY <1>8 DEF OpenOrders
  <2> HIDE DEF new
  <2>4. Control'
    BY <1>8, <1>w, <2>2, <2>3, Turns DEF OpenOrders
  <2> QED BY <1>8, <2>4, ShapeFrame DEF OpenOrders
<1>9. CASE RecordVerdict(p)
  <2>1. my[p].ok \in BOOLEAN /\ {my[p].intent} \ {None} \subseteq Intents
    BY <1>0, Fields
  <2>2. verdict' \in [match : BOOLEAN, covers : SUBSET Intents]
    BY <1>9, <2>1 DEF RecordVerdict
  <2>3. Shape'
    BY <1>9, <2>2 DEF RecordVerdict, Shape, broker
  <2> QED BY <1>9, <2>3, Leaves DEF RecordVerdict
<1> QED BY <1>1, <1>2, <1>3, <1>4, <1>5, <1>6, <1>7, <1>8, <1>9 DEF Reconcile

LEMMA TypeStep == TypeInv /\ [Next]_vars => TypeInv'
<1> SUFFICES ASSUME TypeInv, [Next]_vars PROVE TypeInv'
  OBVIOUS
<1>1. ASSUME NEW p \in Processes, Step(p) PROVE TypeInv'
  <2>1. CASE Crash(p)
    BY <2>1, Leaves, ShapeFrame DEF Crash, TypeInv
  <2> QED BY <1>1, <2>1, SubmitType, LookType, StopType, ReconcileType DEF Step
<1>2. CASE Broker
  <2>1. order' \in [OrderIds -> Statuses]
    BY <1>2 DEF Broker, Book, TurnDown, Fill, Expire, Becomes, TypeInv, Shape, Statuses, Booked, Terminal
  <2>2. UNCHANGED <<journal, of, asked, pc, my>>
    BY <1>2 DEF Broker, Book, TurnDown, Fill, Expire, Becomes
  <2> QED BY <2>1, <2>2 DEF TypeInv, Shape, Control, Aimed, journal
<1>3. CASE UNCHANGED vars
  BY <1>3 DEF vars, journal, broker, TypeInv, Shape, Control, Aimed
<1> QED BY <1>1, <1>2, <1>3 DEF Next

\* The types, with what a process holds where it is.
THEOREM TypeAlways == Spec => []TypeInv
BY TypeInit, TypeStep, PTL DEF Spec

\* Every variable keeps its shape.
THEOREM TypeCorrect == Spec => []TypeOK
<1>1. TypeInv => TypeOK
  BY DEF TypeInv, Shape, Control, TypeOK
<1> QED BY TypeAlways, <1>1, PTL

-----------------------------------------------------------------------------
\* Who has reserved the intention and not sent its order yet.
Committing == {"reserved", "noted", "attempt", "sending"}
AllAbsent  == \A o \in OrderIds : order[o] = "absent"

\* The one intention, the one process that may send for it, and the orders.
Budget ==
  /\ \A i, j \in intents : i = j
  /\ \A o \in OrderIds : IF order[o] = "absent" THEN of[o] = None ELSE of[o] \in intents
  /\ OneOrder
Custody ==
  \A p \in Processes : pc[p] \in Committing =>
    /\ my[p].intent \in intents /\ AllAbsent
    /\ \A i \in Intents : "NOT_SENT" \notin notes[i]
    /\ \A q \in Processes : pc[q] \in Committing => q = p
NeverSent ==
  \A i \in Intents : "NOT_SENT" \in notes[i] => i \in intents /\ AllAbsent
\* A count taken before the intention was admitted is of an untouched account.
Before ==
  /\ baseline \in {-1, 0}
  /\ \A p \in Processes : pc[p] \in {"base3", "base4"} /\ intents = {} => my[p].count = 0

Single == Budget /\ Custody /\ NeverSent /\ Before
PaperInv == TypeInv /\ Single

LEMMA PositionZero == AllAbsent => Position = 0
<1> SUFFICES ASSUME AllAbsent PROVE Position = 0
  OBVIOUS
<1>1. {o \in OrderIds : order[o] = "FILLED_ALL"} = {}
  BY DEF AllAbsent
<1> QED BY <1>1, FS_EmptySet DEF Position

LEMMA SingleInit == Init => Single
BY DEF Init, Single, Budget, Custody, NeverSent, Before, AllAbsent, OneOrder, Committing

\* What a step may do to keep Single for certain: move a process anywhere but
\* towards sending or counting.
LEMMA SingleFrame ==
  ASSUME PaperInv, NEW p \in Processes, UNCHANGED <<intents, order, of, baseline>>,
         \A i \in Intents : "NOT_SENT" \in notes'[i] => "NOT_SENT" \in notes[i],
         \A q \in Processes \ {p} : pc'[q] = pc[q] /\ my'[q] = my[q],
         pc'[p] \notin Committing \union {"base3", "base4"}
  PROVE  Single'
<1> USE DEF PaperInv, Single
<1>1. Budget'
  BY DEF Budget, OneOrder
<1>2. Custody'
  BY DEF Custody, AllAbsent
<1>3. NeverSent'
  BY DEF NeverSent, AllAbsent
<1>4. Before'
  BY DEF Before
<1> QED BY <1>1, <1>2, <1>3, <1>4

\* The same for a process that goes on with what it has.
LEMMA Onward ==
  ASSUME PaperInv, NEW p \in Processes, UNCHANGED <<journal, broker, my>>, NEW place \in Places,
         Goto(p, place), place \in Committing => pc[p] \in Committing,
         place \in {"base3", "base4"} => pc[p] \in {"base3", "base4"}
  PROVE  Single'
<1> USE DEF PaperInv, Single, journal, broker
<1>0. \A q \in Processes : pc'[q] = IF q = p THEN place ELSE pc[q]
  BY DEF Goto, TypeInv, Control
<1>1. Budget'
  BY DEF Budget, OneOrder
<1>2. Custody'
  BY <1>0 DEF Custody, AllAbsent
<1>3. NeverSent'
  BY DEF NeverSent, AllAbsent
<1>4. Before'
  BY <1>0 DEF Before
<1> QED BY <1>1, <1>2, <1>3, <1>4

\* A process that turns to another place, with other variables.
LEMMA Elsewhere ==
  ASSUME PaperInv, NEW p \in Processes, NEW place, NEW r, Goto(p, place),
         my' = [my EXCEPT ![p] = r] \/ UNCHANGED my
  PROVE  /\ \A q \in Processes \ {p} : pc'[q] = pc[q] /\ my'[q] = my[q]
         /\ pc'[p] = place
BY DEF PaperInv, TypeInv, Control, Goto

LEMMA Gone ==
  ASSUME PaperInv, NEW p \in Processes, Leave(p)
  PROVE  /\ \A q \in Processes \ {p} : pc'[q] = pc[q] /\ my'[q] = my[q]
         /\ pc'[p] = "idle"
BY DEF PaperInv, TypeInv, Control, Goto, Leave

\* Only NotSent claims that nothing was sent.
LEMMA NoteFrame ==
  ASSUME PaperInv, NEW p \in Processes, NEW kind \in {"UNKNOWN", "RECEIPT"}, Note(p, kind)
  PROVE  \A i \in Intents : "NOT_SENT" \in notes'[i] => "NOT_SENT" \in notes[i]
BY DEF PaperInv, TypeInv, Shape, Note

LEMMA SubmitSingle ==
  ASSUME PaperInv, NEW p \in Processes, Submit(p)
  PROVE  Single'
<1>1. ASSUME NEW i \in Intents, SubmitStart(p, i) PROVE Single'
  <2>1. my' = [my EXCEPT ![p] = [my[p] EXCEPT !.intent = i]] /\ Goto(p, "preflight")
        /\ UNCHANGED <<intents, notes, order, of, baseline>>
    BY <1>1 DEF SubmitStart, journal, broker
  <2>2. \E r : my' = [my EXCEPT ![p] = r]
    BY <2>1
  <2>3. pc'[p] = "preflight" /\ \A q \in Processes \ {p} : pc'[q] = pc[q] /\ my'[q] = my[q]
    BY <2>1, <2>2, Elsewhere
  <2> QED BY <2>1, <2>3, SingleFrame DEF Committing
<1>2. CASE Reserve(p)
  <2>1. /\ intents = {} /\ intents' = {my[p].intent} /\ Goto(p, "reserved")
        /\ UNCHANGED <<notes, order, of, baseline, my>>
    BY <1>2 DEF Reserve, Admissible, broker
  <2>2. \A q \in Processes : pc'[q] = IF q = p THEN "reserved" ELSE pc[q]
    BY <2>1 DEF Goto, PaperInv, TypeInv, Control
  <2>3. AllAbsent /\ \A i \in Intents : "NOT_SENT" \notin notes[i]
    BY <2>1 DEF PaperInv, Single, Budget, NeverSent, AllAbsent
  <2>4. Budget'
    BY <2>1, <2>3 DEF PaperInv, Single, Budget, OneOrder, AllAbsent
  <2>5. \A q \in Processes : pc[q] \notin Committing
    BY <2>1 DEF PaperInv, Single, Custody
  <2>6. Custody'
    BY <2>1, <2>2, <2>3, <2>5 DEF Custody, AllAbsent
  <2>7. NeverSent' /\ Before'
    BY <2>1, <2>2, <2>3 DEF PaperInv, Single, NeverSent, Before, AllAbsent
  <2> QED BY <2>4, <2>6, <2>7 DEF Single
<1>3. CASE NotAdmitted(p) \/ Ack(p)
  <2>1. Leave(p) /\ UNCHANGED <<intents, notes, order, of, baseline>>
    BY <1>3 DEF NotAdmitted, Ack, journal, broker
  <2> QED BY <2>1, Gone, SingleFrame DEF Committing
<1>4. CASE NoteCall(p) \/ Attempted(p) \/ LastCheck(p)
  <2>1. pc[p] \in Committing /\ UNCHANGED <<journal, broker, my>>
        /\ \E place \in {"noted", "attempt", "sending"} : Goto(p, place)
    BY <1>4 DEF NoteCall, Attempted, LastCheck, Committing
  <2>2. {"noted", "attempt", "sending"} \subseteq Places
    BY DEF Places
  <2> QED BY <2>1, <2>2, Onward
<1>5. CASE NotSent(p)
  <2>1. /\ pc[p] \in Committing /\ Note(p, "NOT_SENT") /\ Leave(p)
        /\ UNCHANGED <<intents, order, of, baseline>>
    BY <1>5 DEF NotSent, Unattempted, Committing, broker
  <2>2. \A q \in Processes : pc'[q] = IF q = p THEN "idle" ELSE pc[q]
    BY <2>1, Gone DEF PaperInv, TypeInv, Control
  <2>3. my[p].intent \in intents /\ AllAbsent /\ \A q \in Processes : pc[q] \in Committing => q = p
    BY <2>1 DEF PaperInv, Single, Custody
  <2>4. \A i \in Intents : "NOT_SENT" \in notes'[i] => i = my[p].intent \/ "NOT_SENT" \in notes[i]
    BY <2>1 DEF Note, PaperInv, TypeInv, Shape
  <2>5. Budget'
    BY <2>1 DEF PaperInv, Single, Budget, OneOrder
  <2>6. Custody'
    BY <2>2, <2>3 DEF Custody, Committing
  <2>7. NeverSent'
    BY <2>1, <2>3, <2>4 DEF PaperInv, Single, NeverSent, AllAbsent
  <2>8. \A q \in Processes \ {p} : my'[q] = my[q]
    BY <2>1, Gone
  <2>9. Before'
    BY <2>1, <2>2, <2>8 DEF PaperInv, Single, Before
  <2> QED BY <2>5, <2>6, <2>7, <2>9 DEF Single
<1>6. ASSUME NEW o \in OrderIds, PlaceOrder(p, o) PROVE Single'
  <2> DEFINE i == my[p].intent
  <2>1. /\ pc[p] \in Committing /\ Goto(p, "waiting")
        /\ order' = [order EXCEPT ![o] = "sent"] /\ of' = [of EXCEPT ![o] = i]
        /\ my' = [my EXCEPT ![p] = [my[p] EXCEPT !.order = o]]
        /\ UNCHANGED <<intents, notes, baseline>>
    BY <1>6 DEF PlaceOrder, Committing, journal
  <2>2. /\ i \in intents /\ AllAbsent /\ \A j \in Intents : "NOT_SENT" \notin notes[j]
        /\ \A q \in Processes : pc[q] \in Committing => q = p
    BY <2>1 DEF PaperInv, Single, Custody
  <2>3. \A q \in Processes : pc'[q] = IF q = p THEN "waiting" ELSE pc[q]
    BY <2>1 DEF Goto, PaperInv, TypeInv, Control
  <2>4. \A q \in OrderIds : /\ order'[q] = IF q = o THEN "sent" ELSE "absent"
                            /\ of'[q] = IF q = o THEN i ELSE None
    BY <2>1, <2>2 DEF AllAbsent, PaperInv, TypeInv, Shape, Single, Budget
  <2>5. Budget'
    BY <2>1, <2>2, <2>4 DEF PaperInv, Single, Budget, OneOrder
  <2>6. Custody' /\ NeverSent'
    BY <2>1, <2>2, <2>3 DEF Custody, NeverSent, Committing
  <2>7. \A q \in Processes \ {p} : my'[q] = my[q]
    BY <2>1, Elsewhere
  <2>8. Before'
    BY <2>1, <2>3, <2>7 DEF PaperInv, Single, Before
  <2> QED BY <2>5, <2>6, <2>8 DEF Single
<1>7. CASE Receipt(p)
  <2>1. /\ Note(p, "RECEIPT") /\ Goto(p, "receipt")
        /\ my' = [my EXCEPT ![p] = [my[p] EXCEPT !.snap = order[my[p].order]]]
        /\ UNCHANGED <<intents, order, of, baseline>>
    BY <1>7 DEF Receipt, broker
  <2>2. \E r : my' = [my EXCEPT ![p] = r]
    BY <2>1
  <2>3. pc'[p] = "receipt" /\ \A q \in Processes \ {p} : pc'[q] = pc[q] /\ my'[q] = my[q]
    BY <2>1, <2>2, Elsewhere
  <2>4. \A i \in Intents : "NOT_SENT" \in notes'[i] => "NOT_SENT" \in notes[i]
    BY <2>1, NoteFrame
  <2> QED BY <2>1, <2>3, <2>4, SingleFrame DEF Committing
<1>8. CASE Unknown(p)
  <2>1. Note(p, "UNKNOWN") /\ Leave(p) /\ UNCHANGED <<intents, order, of, baseline>>
    BY <1>8 DEF Unknown, broker
  <2> QED BY <2>1, NoteFrame, Gone, SingleFrame DEF Committing
<1> QED BY <1>1, <1>2, <1>3, <1>4, <1>5, <1>6, <1>7, <1>8 DEF Submit

LEMMA LookSingle ==
  ASSUME PaperInv, NEW p \in Processes, Look(p) \/ Stop(p) \/ Crash(p)
  PROVE  Single'
<1>1. UNCHANGED <<intents, notes, order, of, baseline>>
  BY DEF Look, Observe, Recover, Query, Observed, ObserveFails, ReserveCancel, AskCancel,
         CancelFails, Stop, Crash, journal, broker
<1>2. \/ Leave(p)
      \/ UNCHANGED <<pc, my>>
      \/ /\ \E place \in {"query", "check", "cancel", "account", "open", "record", "modify"} : Goto(p, place)
         /\ UNCHANGED my \/ \E r : my' = [my EXCEPT ![p] = r]
  <2>1. CASE \/ \E i \in Intents : Observe(p, i) \/ Recover(p, i)
             \/ ReserveCancel(p) \/ AskCancel(p) \/ CancelFails(p) \/ ObserveFails(p) \/ Crash(p)
    BY <2>1 DEF Observe, Recover, ReserveCancel, AskCancel, CancelFails, ObserveFails, Crash
  <2>2. CASE Query(p)
    <3>1. PICK s : my' = [my EXCEPT ![p] = [my[p] EXCEPT !.snap = s]]
      BY <2>2 DEF Query
    <3> QED BY <2>2, <3>1 DEF Query
  <2>3. CASE Observed(p)
    <3>1. my[p].goal \in Goals
      BY Fields DEF PaperInv, TypeInv, Control
    <3> QED BY <2>3, <3>1 DEF Observed, Goals
  <2>4. CASE Stop(p)
    BY <2>4 DEF Stop
  <2> QED BY <2>1, <2>2, <2>3, <2>4 DEF Look
<1>3. CASE Leave(p)
  BY <1>1, <1>3, Gone, SingleFrame DEF Committing
<1>4. CASE UNCHANGED <<pc, my>>
  BY <1>1, <1>4 DEF PaperInv, Single, Budget, OneOrder, Custody, NeverSent, Before, AllAbsent
<1>5. ASSUME NEW place \in {"query", "check", "cancel", "account", "open", "record", "modify"},
             Goto(p, place), UNCHANGED my \/ \E r : my' = [my EXCEPT ![p] = r]
      PROVE  Single'
  BY <1>1, <1>5, Elsewhere, SingleFrame DEF Committing
<1> QED BY <1>2, <1>3, <1>4, <1>5

LEMMA ReconcileSingle ==
  ASSUME PaperInv, NEW p \in Processes, Reconcile(p)
  PROVE  Single'
<1>1. CASE BaselineOrders(p, "base1", "base2") \/ BaselineStart(p) \/ ReconcileStart(p)
           \/ ReconcileFails(p) \/ BaselineFails(p) \/ RecordVerdict(p)
  <2>1. UNCHANGED <<intents, notes, order, of, baseline>>
    BY <1>1 DEF BaselineOrders, BaselineStart, ReconcileStart, ReconcileFails, BaselineFails,
                RecordVerdict, journal, broker
  <2>2. Leave(p) \/ (UNCHANGED my /\ \E place \in {"base1", "base2", "intents", "record"} : Goto(p, place))
    BY <1>1 DEF BaselineOrders, BaselineStart, ReconcileStart, ReconcileFails, BaselineFails, RecordVerdict
  <2> QED BY <2>1, <2>2, Gone, Elsewhere, SingleFrame DEF Committing
<1>2. CASE BaselineOrders(p, "base3", "base4")
  BY <1>2, Onward DEF BaselineOrders, Places, Committing
<1>3. CASE BaselineAccount(p)
  <2>1. /\ my' = [my EXCEPT ![p] = [my[p] EXCEPT !.count = Position]] /\ Goto(p, "base3")
        /\ UNCHANGED <<intents, notes, order, of, baseline>>
    BY <1>3 DEF BaselineAccount, journal, broker
  <2>2. \A q \in Processes : pc'[q] = IF q = p THEN "base3" ELSE pc[q]
    BY <2>1 DEF Goto, PaperInv, TypeInv, Control
  <2>3. my'[p].count = Position /\ \A q \in Processes \ {p} : my'[q] = my[q]
    <3>1. [my[p] EXCEPT !.count = Position].count = Position
      BY DEF PaperInv, TypeInv, Control, Locals
    <3> QED BY <2>1, <3>1 DEF PaperInv, TypeInv, Control
  <2>4. intents = {} => Position = 0
    BY PositionZero DEF PaperInv, Single, Budget, AllAbsent
  <2>5. Before'
    BY <2>1, <2>2, <2>3, <2>4 DEF PaperInv, Single, Before
  <2>6. Custody'
    BY <2>1, <2>2, <2>3 DEF PaperInv, Single, Custody, AllAbsent, Committing
  <2> QED BY <2>1, <2>5, <2>6 DEF PaperInv, Single, Budget, OneOrder, NeverSent, AllAbsent
<1>4. CASE RecordBaseline(p)
  <2>1. /\ pc[p] = "base4" /\ intents = {} /\ baseline' = my[p].count /\ Leave(p)
        /\ UNCHANGED <<intents, notes, order, of>>
    BY <1>4 DEF RecordBaseline, BaselineAllowed, broker
  <2>2. \A q \in Processes : pc'[q] = IF q = p THEN "idle" ELSE pc[q]
    BY <2>1, Gone DEF PaperInv, TypeInv, Control
  <2>3. \A q \in Processes \ {p} : my'[q] = my[q]
    BY <2>1, Gone
  <2>4. Before'
    BY <2>1, <2>2, <2>3 DEF PaperInv, Single, Before
  <2>5. Custody'
    BY <2>1, <2>2, <2>3 DEF PaperInv, Single, Custody, AllAbsent, Committing
  <2> QED BY <2>1, <2>4, <2>5 DEF PaperInv, Single, Budget, OneOrder, NeverSent, AllAbsent
<1>5. CASE ReadIntents(p) \/ Account(p) \/ OpenOrders(p)
  <2>1. UNCHANGED <<intents, notes, order, of, baseline>>
    BY <1>5 DEF ReadIntents, Account, OpenOrders, journal, broker
  <2>2. \E place \in {"account", "query", "open", "record"} : Goto(p, place)
    BY <1>5 DEF ReadIntents, Account, OpenOrders
  <2>3. UNCHANGED my \/ \E r : my' = [my EXCEPT ![p] = r]
    <3>1. ReadIntents(p) => UNCHANGED my \/ \E r : my' = [my EXCEPT ![p] = r]
      BY DEF ReadIntents
    <3>2. Account(p) => \E r : my' = [my EXCEPT ![p] = r]
      BY DEF Account
    <3>3. OpenOrders(p) => \E r : my' = [my EXCEPT ![p] = r]
      BY DEF OpenOrders
    <3> QED BY <1>5, <3>1, <3>2, <3>3
  <2> QED BY <2>1, <2>2, <2>3, Elsewhere, SingleFrame DEF Committing
<1> QED BY <1>1, <1>2, <1>3, <1>4, <1>5 DEF Reconcile

LEMMA SingleStep == PaperInv /\ [Next]_vars => Single'
<1> SUFFICES ASSUME PaperInv, [Next]_vars PROVE Single'
  OBVIOUS
<1>1. ASSUME NEW p \in Processes, Step(p) PROVE Single'
  BY <1>1, SubmitSingle, LookSingle, ReconcileSingle DEF Step
<1>2. CASE Broker
  <2>1. UNCHANGED <<intents, notes, baseline, of, pc, my>>
    BY <1>2 DEF Broker, Book, TurnDown, Fill, Expire, Becomes, journal
  <2>2. \A o \in OrderIds : order'[o] = "absent" <=> order[o] = "absent"
    BY <1>2 DEF Broker, Book, TurnDown, Fill, Expire, Becomes, PaperInv, TypeInv, Shape
  <2> QED BY <2>1, <2>2 DEF PaperInv, Single, Budget, OneOrder, Custody, NeverSent, Before, AllAbsent
<1>3. CASE UNCHANGED vars
  BY <1>3 DEF vars, journal, broker, PaperInv, Single, Budget, OneOrder, Custody, NeverSent, Before, AllAbsent
<1> QED BY <1>1, <1>2, <1>3 DEF Next

\* One intention, one process that may send for it, and a baseline from before it.
THEOREM PaperInvAlways == Spec => []PaperInv
<1>1. Init => PaperInv
  BY TypeInit, SingleInit DEF PaperInv
<1>2. PaperInv /\ [Next]_vars => PaperInv'
  BY TypeStep, SingleStep DEF PaperInv
<1> QED BY <1>1, <1>2, PTL DEF Spec

\* At most one order is ever sent, for any number of commands, intention ids and
\* crashes.
THEOREM OneOrderAlways == Spec => []OneOrder
<1>1. PaperInv => OneOrder
  BY DEF PaperInv, Single, Budget
<1> QED BY PaperInvAlways, <1>1, PTL

\* Whatever is recorded as not sent was not and will not be.
THEOREM NotSentAlwaysTrue == Spec => []NotSentIsTrue
<1>1. PaperInv => NotSentIsTrue
  BY IntentAssumption DEF PaperInv, TypeInv, Shape, Single, Budget, NeverSent, AllAbsent, NotSentIsTrue
<1> QED BY PaperInvAlways, <1>1, PTL

\* The baseline never contains the order it is the baseline for.
THEOREM BaselineAlwaysBefore == Spec => []BaselineIsBefore
<1>1. PaperInv => BaselineIsBefore
  BY DEF PaperInv, Single, Before, BaselineIsBefore
<1> QED BY PaperInvAlways, <1>1, PTL

\* After the stop nothing is admitted and nobody starts to send.
THEOREM StopAlwaysHolds == Spec => StopHolds
<1>1. TypeInv /\ [Next]_vars => [stopped => intents' = intents /\ Sending' \subseteq Sending]_vars
  <2> SUFFICES ASSUME TypeInv, Next, stopped
               PROVE  intents' = intents /\ Sending' \subseteq Sending
    OBVIOUS
  <2>1. CASE Broker
    BY <2>1 DEF Broker, Book, TurnDown, Fill, Expire, Becomes, journal, Sending
  <2>2. ASSUME NEW p \in Processes, Step(p)
        PROVE  intents' = intents /\ \A q \in Processes : pc'[q] = "sending" => pc[q] = "sending"
    <3>1. intents' = intents
      BY <2>2 DEF Step, Submit, SubmitStart, Reserve, Admissible, Running, NotAdmitted, NoteCall,
                  Attempted, NotSent, LastCheck, PlaceOrder, Receipt, Ack, Unknown, Look, Observe,
                  Recover, Query, Observed, ObserveFails, ReserveCancel, AskCancel, CancelFails,
                  Stop, Reconcile, BaselineStart, BaselineOrders, BaselineAccount,
                  RecordBaseline, BaselineFails, ReconcileStart, ReadIntents, Account, OpenOrders,
                  ReconcileFails, RecordVerdict, Crash, journal
    <3>2. UNCHANGED pc \/ \E place \in Places \ {"sending"} : Goto(p, place)
      <4>1. ~LastCheck(p)
        BY DEF LastCheck, MaySend, Running
      <4>2. Submit(p) => \E place \in Places \ {"sending"} : Goto(p, place)
        BY <4>1 DEF Submit, SubmitStart, Reserve, NotAdmitted, NoteCall, Attempted, NotSent,
                    PlaceOrder, Receipt, Ack, Unknown, Leave, Places
      <4>3. Look(p) => \E place \in Places \ {"sending"} : Goto(p, place)
        <5>1. my[p].goal \in Goals
          BY Fields DEF TypeInv, Control
        <5> QED BY <5>1 DEF Look, Observe, Recover, Query, Observed, ObserveFails, ReserveCancel,
                            AskCancel, CancelFails, Leave, Places, Goals
      <4>4. Stop(p) => UNCHANGED pc \/ \E place \in Places \ {"sending"} : Goto(p, place)
        BY DEF Stop, Places
      <4>5. Reconcile(p) \/ Crash(p) => \E place \in Places \ {"sending"} : Goto(p, place)
        BY DEF Reconcile, BaselineStart, BaselineOrders, BaselineAccount, RecordBaseline,
               BaselineFails, ReconcileStart, ReadIntents, Account, OpenOrders, ReconcileFails,
               RecordVerdict, Crash, Leave, Places
      <4> QED BY <2>2, <4>2, <4>3, <4>4, <4>5 DEF Step
    <3> QED BY <3>1, <3>2 DEF Goto, TypeInv, Control
  <2> QED BY <2>1, <2>2 DEF Next, Sending
<1> QED BY TypeAlways, <1>1, PTL DEF Spec, StopHolds

-----------------------------------------------------------------------------
Live  == {o \in OrderIds : order[o] \in {"sent", "SUBMITTED"}}
Ended == {o \in OrderIds : order[o] \in Terminal \union {"refused"}}

\* What the abstract risk depends on stays, but for four kinds of step.
LEMMA RiskFrame ==
  ASSUME NEW p \in Processes, Step(p), ~Reserve(p), ~Stop(p), \A o \in OrderIds : ~PlaceOrder(p, o)
  PROVE  UNCHANGED <<intents, stopped, order>>
<1>1. CASE Submit(p)
  BY <1>1 DEF Submit, SubmitStart, NotAdmitted, NoteCall, Attempted, NotSent, LastCheck, Receipt,
              Ack, Unknown, journal, broker
<1>2. CASE Look(p)
  BY <1>2 DEF Look, Observe, Recover, Query, Observed, ObserveFails, ReserveCancel, AskCancel,
              CancelFails, journal, broker
<1>3. CASE Reconcile(p) \/ Crash(p)
  BY <1>3 DEF Reconcile, BaselineStart, BaselineOrders, BaselineAccount, RecordBaseline,
              BaselineFails, ReconcileStart, ReadIntents, Account, OpenOrders, ReconcileFails,
              RecordVerdict, Crash, journal, broker
<1> QED BY <1>1, <1>2, <1>3 DEF Step

LEMMA RiskStep == PaperInv /\ [Next]_vars => [Risk!Next]_Risk!vars
<1> SUFFICES ASSUME PaperInv, [Next]_vars PROVE Risk!Next \/ UNCHANGED Risk!vars
  OBVIOUS
<1> USE DEF Risk!Next, Risk!Spend, Risk!Halt, Risk!Expose, Risk!Settle, Risk!vars
<1>1. ASSUME NEW p \in Processes, Reserve(p) PROVE Risk!Spend
  BY <1>1 DEF Reserve, Admissible, Running, broker
<1>2. ASSUME NEW p \in Processes, Stop(p) PROVE Risk!Halt
  BY <1>2 DEF Stop, broker
<1>3. ASSUME NEW p \in Processes, NEW o \in OrderIds, PlaceOrder(p, o) PROVE Risk!Expose(o)
  <2>1. intents # {} /\ AllAbsent
    BY <1>3 DEF PlaceOrder, PaperInv, Single, Custody, Committing
  <2>2. Live = {} /\ Ended = {}
    BY <2>1 DEF AllAbsent, Live, Ended, Terminal
  <2>3. \A q \in OrderIds : order'[q] = IF q = o THEN "sent" ELSE order[q]
    BY <1>3 DEF PlaceOrder, PaperInv, TypeInv, Shape
  <2>4. Live' = {o} /\ Ended' = {}
    BY <2>1, <2>3 DEF AllAbsent, Live, Ended, Terminal
  <2> QED BY <1>3, <2>1, <2>2, <2>4 DEF PlaceOrder, journal, Live, Ended
<1>4. ASSUME NEW o \in OrderIds, Book(o) \/ TurnDown(o) \/ Fill(o) \/ Expire(o)
      PROVE  Risk!Settle(o) \/ UNCHANGED Risk!vars
  <2> USE DEF Becomes, PaperInv, TypeInv, Shape
  <2>1. UNCHANGED <<intents, stopped>>
    BY <1>4 DEF Book, TurnDown, Fill, Expire, journal
  <2>2. CASE Book(o)
    <3>1. Live' = Live /\ Ended' = Ended
      BY <2>2 DEF Book, Live, Ended, Terminal
    <3> QED BY <2>1, <3>1 DEF Live, Ended
  <2>3. CASE ~Book(o)
    <3>1. o \in Live /\ Live' = Live \ {o} /\ Ended' = Ended \union {o}
      BY <1>4, <2>3 DEF TurnDown, Fill, Expire, Live, Ended, Terminal
    <3> QED BY <2>1, <3>1 DEF Live, Ended
  <2> QED BY <2>2, <2>3
<1>5. CASE UNCHANGED <<intents, stopped, order>>
  BY <1>5
<1>6. CASE UNCHANGED vars
  BY <1>5, <1>6 DEF vars, journal, broker
<1>7. ASSUME NEW p \in Processes, Step(p) PROVE Risk!Next \/ UNCHANGED Risk!vars
  BY <1>1, <1>2, <1>3, <1>5, <1>7, RiskFrame
<1> QED BY <1>4, <1>6, <1>7 DEF Next, Broker

\* Journal, broker and commands together implement a budget of one order that a
\* halt makes unusable.
THEOREM RiskRefinement == Spec => ImplementsRisk
<1>1. Init => Risk!Init
  BY DEF Init, Risk!Init, Terminal
<1> QED BY PaperInvAlways, <1>1, RiskStep, PTL DEF Spec, ImplementsRisk, Risk!Spec

-----------------------------------------------------------------------------
(***************************************************************************)
(* What is known stays true: orders only move on, one process at a time.   *)
(***************************************************************************)
LEMMA OthersStay ==
  ASSUME TypeInv, NEW p \in Processes, Step(p)
  PROVE  \A q \in Processes \ {p} : pc'[q] = pc[q] /\ my'[q] = my[q]
<1> USE DEF TypeInv, Control, Goto, Leave
<1>1. CASE Submit(p)
  BY <1>1 DEF Submit, SubmitStart, Reserve, NotAdmitted, NoteCall, Attempted, NotSent,
     LastCheck, PlaceOrder, Receipt, Ack, Unknown
<1>2. CASE Look(p)
  <2>1. my[p].goal \in Goals
    BY Fields
  <2> QED
    BY <1>2, <2>1 DEF Look, Observe, Recover, Query, Observed, ObserveFails, ReserveCancel,
       AskCancel, CancelFails, Goals
<1>3. CASE Stop(p) \/ Crash(p)
  BY <1>3 DEF Stop, Crash
<1>4. CASE Reconcile(p)
  BY <1>4 DEF Reconcile, BaselineStart, BaselineOrders, BaselineAccount, RecordBaseline,
     BaselineFails, ReconcileStart, ReadIntents, Account, OpenOrders, ReconcileFails,
     RecordVerdict
<1> QED BY <1>1, <1>2, <1>3, <1>4 DEF Step

\* An order that exists keeps its intention and, once ended, its status.
LEMMA OrdersMoveOn ==
  ASSUME PaperInv, [Next]_vars, NEW o \in OrderIds, order[o] # "absent"
  PROVE  /\ order'[o] # "absent" /\ of'[o] = of[o]
         /\ order[o] \in Booked => order'[o] \in Booked
         /\ order[o] \in Terminal => order'[o] = order[o]
<1> USE DEF PaperInv, TypeInv, Shape
<1>1. CASE Broker
  <2>1. PICK q \in OrderIds : Book(q) \/ TurnDown(q) \/ Fill(q) \/ Expire(q)
    BY <1>1 DEF Broker
  <2>2. /\ of' = of /\ \A x \in OrderIds : x # q => order'[x] = order[x]
        /\ \/ order[q] = "sent" /\ order'[q] \in {"SUBMITTED", "refused"}
           \/ order[q] = "SUBMITTED" /\ order'[q] \in Terminal
    BY <2>1 DEF Book, TurnDown, Fill, Expire, Becomes, Terminal
  <2>3. CASE o = q
    BY <2>2, <2>3 DEF Booked, Terminal
  <2> QED BY <2>2, <2>3
<1>2. ASSUME NEW p \in Processes, NEW q \in OrderIds, PlaceOrder(p, q)
      PROVE  order'[o] = order[o] /\ of'[o] = of[o]
  BY <1>2 DEF PlaceOrder
<1>3. ASSUME NEW p \in Processes, Step(p), \A q \in OrderIds : ~PlaceOrder(p, q)
      PROVE  UNCHANGED <<order, of>>
  <2>1. CASE Submit(p)
    BY <1>3, <2>1 DEF Submit, SubmitStart, Reserve, NotAdmitted, NoteCall, Attempted, NotSent,
       LastCheck, Receipt, Ack, Unknown, broker
  <2>2. CASE Look(p) \/ Stop(p) \/ Crash(p)
    BY <2>2 DEF Look, Observe, Recover, Query, Observed, ObserveFails, ReserveCancel,
       AskCancel, CancelFails, Stop, Crash, broker
  <2>3. CASE Reconcile(p)
    BY <2>3 DEF Reconcile, BaselineStart, BaselineOrders, BaselineAccount, RecordBaseline,
       BaselineFails, ReconcileStart, ReadIntents, Account, OpenOrders, ReconcileFails,
       RecordVerdict, broker
  <2> QED BY <1>3, <2>1, <2>2, <2>3 DEF Step
<1>4. CASE UNCHANGED vars
  BY <1>4 DEF vars, broker
<1> QED BY <1>1, <1>2, <1>3, <1>4 DEF Next

-----------------------------------------------------------------------------
(***************************************************************************)
(* CancelOnce: the right to cancel an intention's order is one process's,  *)
(* and is gone once it has asked.                                          *)
(***************************************************************************)
Cancelled ==
  /\ \A p \in Processes : pc[p] = "modify" =>
       /\ my[p].intent \in cancelled
       /\ \A q \in Processes : pc[q] = "modify" /\ my[q].intent = my[p].intent => q = p
  /\ \A o \in OrderIds : asked[o] > 0 =>
       /\ order[o] # "absent" /\ of[o] \in cancelled /\ asked[o] <= 1
       /\ \A p \in Processes : pc[p] = "modify" => my[p].intent # of[o]

\* A process that turns elsewhere takes nobody's right.
LEMMA CancelledFrame ==
  ASSUME PaperInv, Cancelled, [Next]_vars, NEW p \in Processes, UNCHANGED <<cancelled, asked>>,
         \A q \in Processes \ {p} : pc'[q] = pc[q] /\ my'[q] = my[q],
         pc'[p] # "modify"
  PROVE  Cancelled'
BY OrdersMoveOn DEF Cancelled

LEMMA CancelledStep == PaperInv /\ Cancelled /\ [Next]_vars => Cancelled'
<1> SUFFICES ASSUME PaperInv, Cancelled, [Next]_vars PROVE Cancelled'
  OBVIOUS
<1>1. ASSUME NEW p \in Processes, ReserveCancel(p) PROVE Cancelled'
  <2>1. /\ pc[p] = "cancel" /\ my[p].intent \notin cancelled /\ my' = my
        /\ cancelled' = cancelled \union {my[p].intent}
        /\ \A q \in Processes : pc'[q] = IF q = p THEN "modify" ELSE pc[q]
        /\ UNCHANGED <<order, of, asked>>
    BY <1>1 DEF ReserveCancel, MayCancel, Goto, broker, PaperInv, TypeInv, Control
  <2> QED BY <2>1 DEF Cancelled
<1>2. ASSUME NEW p \in Processes, AskCancel(p) PROVE Cancelled'
  <2>1. /\ pc[p] = "modify" /\ UNCHANGED <<order, of, cancelled>>
        /\ \A q \in Processes \ {p} : pc'[q] = pc[q] /\ my'[q] = my[q]
        /\ pc'[p] = "idle"
    BY <1>2, Gone DEF AskCancel, journal
  <2>2. \A o \in OrderIds : asked'[o] = asked[o]
                            \/ (o \in Rows(my[p].intent) /\ asked'[o] = asked[o] + 1)
    BY <1>2 DEF AskCancel
  <2>3. \A o \in OrderIds : asked[o] \in 0 .. 2
    BY DEF PaperInv, TypeInv, Shape
  <2>4. ASSUME NEW o \in OrderIds, asked'[o] > 0
        PROVE  /\ order[o] # "absent" /\ of[o] \in cancelled /\ asked'[o] <= 1
               /\ \A q \in Processes : pc'[q] = "modify" => my'[q].intent # of[o]
    <3>1. CASE asked'[o] = asked[o]
      BY <2>1, <2>4, <3>1 DEF Cancelled
    <3>2. CASE asked'[o] # asked[o]
      <4>1. of[o] = my[p].intent /\ order[o] \in Booked /\ asked'[o] = asked[o] + 1
        BY <2>2, <3>2 DEF Rows
      <4>2. asked[o] = 0
        BY <2>1, <2>3, <4>1 DEF Cancelled
      <4> QED BY <2>1, <4>1, <4>2 DEF Cancelled, Booked, Terminal
    <3> QED BY <3>1, <3>2
  <2> QED BY <2>1, <2>4 DEF Cancelled
<1>3. ASSUME NEW p \in Processes, Step(p), ~ReserveCancel(p), ~AskCancel(p)
      PROVE  Cancelled'
  <2>1. UNCHANGED <<cancelled, asked>>
    <3>1. CASE Submit(p)
      BY <3>1 DEF Submit, SubmitStart, Reserve, NotAdmitted, NoteCall, Attempted, NotSent,
         LastCheck, PlaceOrder, Receipt, Ack, Unknown, journal, broker
    <3>2. CASE Look(p) \/ Stop(p) \/ Crash(p)
      BY <1>3, <3>2 DEF Look, Observe, Recover, Query, Observed, ObserveFails, CancelFails,
         Stop, Crash, journal, broker
    <3>3. CASE Reconcile(p)
      BY <3>3 DEF Reconcile, BaselineStart, BaselineOrders, BaselineAccount, RecordBaseline,
         BaselineFails, ReconcileStart, ReadIntents, Account, OpenOrders, ReconcileFails,
         RecordVerdict, journal, broker
    <3> QED BY <1>3, <3>1, <3>2, <3>3 DEF Step
  <2>2. UNCHANGED <<pc, my>> \/ pc'[p] # "modify"
    <3> USE DEF PaperInv, TypeInv, Control, Goto, Leave
    <3>1. CASE Submit(p)
      BY <3>1 DEF Submit, SubmitStart, Reserve, NotAdmitted, NoteCall, Attempted, NotSent,
         LastCheck, PlaceOrder, Receipt, Ack, Unknown
    <3>2. CASE Look(p)
      <4>1. my[p].goal \in Goals
        BY Fields
      <4> QED
        BY <1>3, <3>2, <4>1 DEF Look, Observe, Recover, Query, Observed, ObserveFails,
           CancelFails, Goals
    <3>3. CASE Stop(p) \/ Crash(p)
      BY <3>3 DEF Stop, Crash
    <3>4. CASE Reconcile(p)
      BY <3>4 DEF Reconcile, BaselineStart, BaselineOrders, BaselineAccount, RecordBaseline,
         BaselineFails, ReconcileStart, ReadIntents, Account, OpenOrders, ReconcileFails,
         RecordVerdict
    <3> QED BY <1>3, <3>1, <3>2, <3>3, <3>4 DEF Step
  <2>3. CASE UNCHANGED <<pc, my>>
    BY <2>1, <2>3, OrdersMoveOn DEF Cancelled
  <2>4. CASE pc'[p] # "modify"
    BY <1>3, <2>1, <2>4, OthersStay, CancelledFrame DEF PaperInv
  <2> QED BY <2>2, <2>3, <2>4
<1>4. CASE Broker \/ UNCHANGED vars
  <2>1. UNCHANGED <<pc, my, cancelled, asked>>
    BY <1>4 DEF Broker, Book, TurnDown, Fill, Expire, Becomes, vars, journal, broker
  <2> QED BY <2>1, OrdersMoveOn DEF Cancelled
<1> QED BY <1>1, <1>2, <1>3, <1>4 DEF Next

\* No order is asked to be cancelled twice, for any number of commands and though
\* the outcome of the first request stayed unknown.
THEOREM CancelOnceAlways == Spec => []CancelOnce
<1>1. Init => PaperInv /\ Cancelled
  BY TypeInit, SingleInit DEF PaperInv, Init, Cancelled
<1>2. PaperInv /\ Cancelled /\ [Next]_vars => (PaperInv /\ Cancelled)'
  BY TypeStep, SingleStep, CancelledStep DEF PaperInv
<1>3. PaperInv /\ Cancelled => CancelOnce
  BY DEF PaperInv, TypeInv, Shape, Cancelled, CancelOnce
<1> QED BY <1>1, <1>2, <1>3, PTL DEF Spec

-----------------------------------------------------------------------------
(***************************************************************************)
(* EvidenceIsTrue: whoever has looked, or was answered, holds a status     *)
(* that some order of the intention bears out, and Known only grows.       *)
(***************************************************************************)
Known ==
  {x \in Intents \X Booked :
     \E o \in OrderIds : /\ of[o] = x[1]
                         /\ order[o] \in Booked
                         /\ x[2] \in Terminal => order[o] = x[2]}

Evidence ==
  /\ \A i \in Intents : \A s \in seen[i] : <<i, s>> \in Known
  /\ \A p \in Processes :
       /\ pc[p] = "waiting" => /\ my[p].order \in OrderIds /\ of[my[p].order] = my[p].intent
                               /\ order[my[p].order] # "absent"
       /\ pc[p] \in {"receipt", "check"} => <<my[p].intent, my[p].snap>> \in Known
       /\ pc[p] = "open" /\ my[p].intent # None => <<my[p].intent, my[p].snap>> \in Known

LEMMA KnownGrows == PaperInv /\ [Next]_vars => Known \subseteq Known'
<1> SUFFICES ASSUME PaperInv, [Next]_vars, NEW x \in Known PROVE x \in Known'
  OBVIOUS
<1>1. PICK o \in OrderIds : /\ of[o] = x[1] /\ order[o] \in Booked
                            /\ x[2] \in Terminal => order[o] = x[2]
  BY DEF Known
<1>2. /\ of'[o] = x[1] /\ order'[o] \in Booked
      /\ x[2] \in Terminal => order'[o] = x[2]
  BY <1>1, OrdersMoveOn DEF Booked, Terminal
<1> QED BY <1>2 DEF Known

\* What the step of p must do so that Evidence holds of p.
LEMMA EvidenceFrame ==
  ASSUME PaperInv, Evidence, [Next]_vars, NEW p \in Processes,
         \A q \in Processes \ {p} : pc'[q] = pc[q] /\ my'[q] = my[q],
         \A i \in Intents : \A s \in seen'[i] : <<i, s>> \in Known,
         pc'[p] = "waiting" =>
           /\ my'[p].order \in OrderIds /\ of'[my'[p].order] = my'[p].intent
           /\ order'[my'[p].order] # "absent",
         pc'[p] \in {"receipt", "check"} => <<my'[p].intent, my'[p].snap>> \in Known,
         pc'[p] = "open" /\ my'[p].intent # None => <<my'[p].intent, my'[p].snap>> \in Known
  PROVE  Evidence'
<1>1. Known \subseteq Known'
  BY KnownGrows
<1>2. ASSUME NEW q \in Processes \ {p}, pc[q] = "waiting"
      PROVE  of'[my[q].order] = my[q].intent /\ order'[my[q].order] # "absent"
  BY <1>2, OrdersMoveOn DEF Evidence
<1> QED BY <1>1, <1>2 DEF Evidence

\* A process that leaves the seen statuses alone and does not come to hold one.
LEMMA EvidenceAside ==
  ASSUME PaperInv, Evidence, [Next]_vars, NEW p \in Processes, Step(p), seen' = seen,
         pc'[p] \notin {"waiting", "receipt", "check", "open"}
  PROVE  Evidence'
<1>1. \A q \in Processes \ {p} : pc'[q] = pc[q] /\ my'[q] = my[q]
  BY OthersStay DEF PaperInv
<1>2. \A i \in Intents : \A s \in seen'[i] : <<i, s>> \in Known
  BY DEF Evidence
<1> QED BY <1>1, <1>2, EvidenceFrame

LEMMA SubmitEvidence ==
  ASSUME PaperInv, Evidence, [Next]_vars, NEW p \in Processes, Step(p), Submit(p)
  PROVE  Evidence'
<1>0. /\ \A q \in Processes \ {p} : pc'[q] = pc[q] /\ my'[q] = my[q]
      /\ \A i \in Intents : \A s \in seen[i] : <<i, s>> \in Known
      /\ my[p] \in Locals /\ my \in [Processes -> Locals] /\ pc \in [Processes -> Places]
  BY OthersStay DEF PaperInv, Evidence, TypeInv, Control
<1>1. CASE \/ \E i \in Intents : SubmitStart(p, i)
           \/ Reserve(p) \/ NotAdmitted(p) \/ NoteCall(p) \/ Attempted(p) \/ NotSent(p)
           \/ LastCheck(p) \/ Unknown(p)
  <2>1. seen' = seen /\ pc'[p] \notin {"waiting", "receipt", "check", "open"}
    BY <1>0, <1>1 DEF SubmitStart, Reserve, NotAdmitted, NoteCall, Attempted, NotSent,
       LastCheck, Unknown, Goto, Leave, journal
  <2> QED BY <2>1, EvidenceAside
<1>2. ASSUME NEW o \in OrderIds, PlaceOrder(p, o) PROVE Evidence'
  <2>1. /\ seen' = seen /\ pc'[p] = "waiting" /\ my'[p] = [my[p] EXCEPT !.order = o]
        /\ order'[o] = "sent" /\ of'[o] = my[p].intent
    BY <1>0, <1>2 DEF PlaceOrder, Goto, journal, PaperInv, TypeInv, Shape
  <2>2. my'[p].order = o /\ my'[p].intent = my[p].intent
    BY <1>0, <2>1 DEF Locals
  <2> QED BY <1>0, <2>1, <2>2, EvidenceFrame
<1>3. CASE Receipt(p)
  <2> DEFINE o == my[p].order
  <2>1. /\ seen' = seen /\ pc[p] = "waiting" /\ pc'[p] = "receipt"
        /\ order[o] \in Booked /\ my'[p] = [my[p] EXCEPT !.snap = order[o]]
    BY <1>0, <1>3 DEF Receipt, Goto
  <2>2. my[p].intent \in Intents /\ o \in OrderIds /\ of[o] = my[p].intent
    BY <2>1, <1>3 DEF Receipt, Evidence, PaperInv, TypeInv, Control, Aimed, Aiming
  <2>3. <<my[p].intent, order[o]>> \in Known
    BY <2>1, <2>2 DEF Known
  <2>4. my'[p].intent = my[p].intent /\ my'[p].snap = order[o]
    BY <1>0, <2>1 DEF Locals
  <2> QED BY <1>0, <2>1, <2>3, <2>4, EvidenceFrame
<1>4. CASE Ack(p)
  <2>1. /\ pc[p] = "receipt" /\ pc'[p] = "idle"
        /\ seen' = [seen EXCEPT ![my[p].intent] = @ \union {my[p].snap}]
    BY <1>0, <1>4 DEF Ack, Leave, Goto
  <2>2. \A i \in Intents : \A s \in seen'[i] :
          s \in seen[i] \/ (i = my[p].intent /\ s = my[p].snap)
    BY <2>1 DEF PaperInv, TypeInv, Shape
  <2>3. <<my[p].intent, my[p].snap>> \in Known
    BY <2>1 DEF Evidence
  <2>4. \A i \in Intents : \A s \in seen'[i] : <<i, s>> \in Known
    BY <1>0, <2>2, <2>3
  <2> QED BY <1>0, <2>1, <2>4, EvidenceFrame
<1> QED BY <1>1, <1>2, <1>3, <1>4 DEF Submit

LEMMA LookEvidence ==
  ASSUME PaperInv, Evidence, [Next]_vars, NEW p \in Processes, Step(p), Look(p)
  PROVE  Evidence'
<1>0. /\ \A q \in Processes \ {p} : pc'[q] = pc[q] /\ my'[q] = my[q]
      /\ \A i \in Intents : \A s \in seen[i] : <<i, s>> \in Known
      /\ my[p] \in Locals /\ my \in [Processes -> Locals] /\ pc \in [Processes -> Places]
  BY OthersStay DEF PaperInv, Evidence, TypeInv, Control
<1>1. CASE \/ \E i \in Intents : Observe(p, i) \/ Recover(p, i)
           \/ ObserveFails(p) \/ ReserveCancel(p) \/ AskCancel(p) \/ CancelFails(p)
  <2>1. seen' = seen /\ pc'[p] \notin {"waiting", "receipt", "check", "open"}
    BY <1>0, <1>1 DEF Observe, Recover, ObserveFails, ReserveCancel, AskCancel, CancelFails,
       Goto, Leave, journal
  <2> QED BY <2>1, EvidenceAside
<1>2. CASE Query(p)
  <2>1. my[p].intent \in Intents
    BY <1>2 DEF Query, PaperInv, TypeInv, Control, Aimed, Aiming
  <2>2. PICK s \in Answers(my[p].intent) : my' = [my EXCEPT ![p] = [my[p] EXCEPT !.snap = s]]
    BY <1>2 DEF Query
  <2>3. PICK o \in OrderIds : of[o] = my[p].intent /\ order[o] \in Booked /\ order[o] = s
    BY <2>2 DEF Answers, Rows
  <2>4. <<my[p].intent, s>> \in Known
    BY <2>1, <2>3 DEF Known
  <2>5. my'[p].intent = my[p].intent /\ my'[p].snap = s /\ pc'[p] = "check" /\ seen' = seen
    BY <1>0, <1>2, <2>2 DEF Query, Goto, journal, Locals
  <2> QED BY <1>0, <2>4, <2>5, EvidenceFrame
<1>3. CASE Observed(p)
  <2>1. /\ pc[p] = "check"
        /\ seen' = [seen EXCEPT ![my[p].intent] = @ \union {my[p].snap}]
    BY <1>3 DEF Observed
  <2>2. \A i \in Intents : \A s \in seen'[i] :
          s \in seen[i] \/ (i = my[p].intent /\ s = my[p].snap)
    BY <2>1 DEF PaperInv, TypeInv, Shape
  <2>3. <<my[p].intent, my[p].snap>> \in Known
    BY <2>1 DEF Evidence
  <2>4. \A i \in Intents : \A s \in seen'[i] : <<i, s>> \in Known
    BY <1>0, <2>2, <2>3
  <2>5. pc'[p] \in {"idle", "cancel", "account"} \/ (pc'[p] = "open" /\ my'[p] = my[p])
    <3>1. my[p].goal \in Goals
      BY <1>0, Fields
    <3> QED BY <1>0, <1>3, <3>1 DEF Observed, Goals, Goto, Leave
  <2> QED BY <1>0, <2>3, <2>4, <2>5, EvidenceFrame
<1> QED BY <1>1, <1>2, <1>3 DEF Look

LEMMA EvidenceStep == PaperInv /\ Evidence /\ [Next]_vars => Evidence'
<1> SUFFICES ASSUME PaperInv, Evidence, [Next]_vars PROVE Evidence'
  OBVIOUS
<1>0. Known \subseteq Known'
  BY KnownGrows
<1>1. ASSUME NEW p \in Processes, Step(p), Stop(p) \/ Crash(p) \/ Reconcile(p)
      PROVE  Evidence'
  <2>0. my[p] \in Locals /\ my \in [Processes -> Locals] /\ pc \in [Processes -> Places]
    BY DEF PaperInv, TypeInv, Control
  <2>1. seen' = seen
    BY <1>1 DEF Stop, Crash, Reconcile, BaselineStart, BaselineOrders, BaselineAccount,
       RecordBaseline, BaselineFails, ReconcileStart, ReadIntents, Account, OpenOrders,
       ReconcileFails, RecordVerdict, journal
  <2>2. CASE UNCHANGED <<pc, my>>
    <3>1. \A q \in Processes : pc[q] = "waiting" => of'[my[q].order] = my[q].intent
                                                     /\ order'[my[q].order] # "absent"
      BY OrdersMoveOn DEF Evidence
    <3> QED BY <1>0, <2>1, <2>2, <3>1 DEF Evidence
  <2>3. CASE Account(p)
    <3>1. Goto(p, IF my[p].intent = None THEN "open" ELSE "query")
      BY <2>3 DEF Account
    <3>2. my'[p].intent = my[p].intent
      <4> DEFINE n == Position
                 old == IF my[p].intent = None THEN {} ELSE seen[my[p].intent]
      <4>1. my'[p] = [my[p] EXCEPT !.count = n, !.goal = "after", !.first = my[p].snap, !.old = old]
        BY <2>0, <2>3 DEF Account
      <4> HIDE DEF n, old
      <4> QED BY <2>0, <4>1 DEF Locals
    <3>3. pc'[p] = "query" \/ (pc'[p] = "open" /\ my'[p].intent = None)
      BY <2>0, <3>1, <3>2 DEF Goto
    <3> QED BY <1>1, <2>1, <3>3, OthersStay, EvidenceFrame DEF PaperInv, Evidence
  <2>4. CASE ~UNCHANGED <<pc, my>> /\ ~Account(p)
    <3>1. pc'[p] \notin {"waiting", "receipt", "check", "open"}
      BY <1>1, <2>0, <2>4 DEF Stop, Crash, Reconcile, BaselineStart, BaselineOrders,
         BaselineAccount, RecordBaseline, BaselineFails, ReconcileStart, ReadIntents,
         OpenOrders, ReconcileFails, RecordVerdict, Goto, Leave
    <3> QED BY <1>1, <2>1, <3>1, EvidenceAside
  <2> QED BY <2>2, <2>3, <2>4
<1>2. CASE Broker \/ UNCHANGED vars
  <2>1. UNCHANGED <<pc, my, seen>>
    BY <1>2 DEF Broker, Book, TurnDown, Fill, Expire, Becomes, vars, journal
  <2>2. \A q \in Processes : pc[q] = "waiting" => of'[my[q].order] = my[q].intent
                                                   /\ order'[my[q].order] # "absent"
    BY OrdersMoveOn DEF Evidence
  <2>3. \A i \in Intents : \A s \in seen'[i] : <<i, s>> \in Known'
    BY <1>0, <2>1 DEF Evidence
  <2> QED BY <1>0, <2>1, <2>2, <2>3 DEF Evidence
<1>3. ASSUME NEW p \in Processes, Step(p) PROVE Evidence'
  BY <1>1, <1>3, SubmitEvidence, LookEvidence DEF Step
<1> QED BY <1>2, <1>3 DEF Next

\* What the journal recorded of an order is true of the order, and stays true.
THEOREM EvidenceAlwaysTrue == Spec => []EvidenceIsTrue
<1>1. Init => PaperInv /\ Evidence
  BY TypeInit, SingleInit DEF PaperInv, Init, Evidence
<1>2. PaperInv /\ Evidence /\ [Next]_vars => (PaperInv /\ Evidence)'
  BY TypeStep, SingleStep, EvidenceStep DEF PaperInv
<1>3. Evidence => EvidenceIsTrue
  <2> SUFFICES ASSUME Evidence, NEW i \in Intents, NEW s \in seen[i]
               PROVE  \E o \in Rows(i) : s \in Terminal => order[o] = s
    BY DEF EvidenceIsTrue
  <2>1. <<i, s>> \in Known
    BY DEF Evidence
  <2>2. PICK o \in OrderIds : of[o] = i /\ order[o] \in Booked /\ (s \in Terminal => order[o] = s)
    BY <2>1 DEF Known
  <2> QED BY <2>2 DEF Rows
<1> QED BY <1>1, <1>2, <1>3, PTL DEF Spec

-----------------------------------------------------------------------------
(***************************************************************************)
(* MatchIsSettled: the order of a covered intention has ended and is the   *)
(* only one there is, so neither it, the position nor the baseline moves.  *)
(***************************************************************************)
Closed ==
  {i \in Intents :
     \E o \in OrderIds : /\ of[o] = i
                         /\ order[o] \in Terminal
                         /\ baseline + (IF order[o] = "FILLED_ALL" THEN 1 ELSE 0) = Position}

\* Where a reconciliation is that goes on to compare the account.
Comparing(place, goal) ==
  \/ place \in {"intents", "account", "open"}
  \/ place \in {"query", "check"} /\ goal \in {"before", "after"}

Matching ==
  /\ verdict.covers \subseteq Closed
  /\ \A p \in Processes :
       /\ my[p].ok => pc[p] = "record" /\ my[p].intent \in Closed \union {None}
       /\ Comparing(pc[p], my[p].goal) => baseline # -1

\* Where only one order can exist, what is filled is that order.
LEMMA FilledOnly ==
  ASSUME NEW f, NEW o \in OrderIds, f[o] # "absent",
         \A a, b \in OrderIds : f[a] # "absent" /\ f[b] # "absent" => a = b
  PROVE  Cardinality({q \in OrderIds : f[q] = "FILLED_ALL"})
           = IF f[o] = "FILLED_ALL" THEN 1 ELSE 0
<1> DEFINE F == {q \in OrderIds : f[q] = "FILLED_ALL"}
<1>1. \A q \in OrderIds : f[q] = "FILLED_ALL" => q = o
  OBVIOUS
<1>2. CASE f[o] = "FILLED_ALL"
  <2>1. F = {o}
    BY <1>1, <1>2
  <2> QED BY <1>2, <2>1, FS_Singleton
<1>3. CASE f[o] # "FILLED_ALL"
  <2>1. F = {}
    BY <1>1, <1>3
  <2> QED BY <1>3, <2>1, FS_EmptySet
<1> QED BY <1>2, <1>3

\* A terminal status that is known of the intention, with a baseline, closes it.
LEMMA KnownCloses ==
  ASSUME PaperInv, NEW i \in Intents, NEW s \in Terminal, <<i, s>> \in Known, baseline # -1
  PROVE  i \in Closed
<1>1. PICK o \in OrderIds : of[o] = i /\ order[o] = s
  BY DEF Known
<1>2. order[o] # "absent" /\ OneOrder
  BY <1>1 DEF Terminal, PaperInv, Single, Budget
<1>3. Position = IF order[o] = "FILLED_ALL" THEN 1 ELSE 0
  BY <1>2, FilledOnly DEF OneOrder, Position
<1>4. baseline = 0
  BY DEF PaperInv, Single, Before
<1> HIDE DEF Position
<1> QED BY <1>1, <1>3, <1>4 DEF Closed

LEMMA BaselineStays == PaperInv /\ [Next]_vars /\ baseline # -1 => baseline' = baseline
<1> SUFFICES ASSUME PaperInv, [Next]_vars, baseline # -1 PROVE baseline' = baseline
  OBVIOUS
<1>1. CASE Broker \/ UNCHANGED vars
  BY <1>1 DEF Broker, Book, TurnDown, Fill, Expire, Becomes, vars, journal
<1>2. ASSUME NEW p \in Processes, Submit(p) \/ Look(p) \/ Stop(p) \/ Crash(p)
      PROVE  baseline' = baseline
  BY <1>2 DEF Submit, SubmitStart, Reserve, NotAdmitted, NoteCall, Attempted, NotSent,
     LastCheck, PlaceOrder, Receipt, Ack, Unknown, Look, Observe, Recover, Query, Observed,
     ObserveFails, ReserveCancel, AskCancel, CancelFails, Stop, Crash, journal
<1>3. ASSUME NEW p \in Processes, Reconcile(p)
      PROVE  baseline' = baseline
  BY <1>3 DEF Reconcile, BaselineStart, BaselineOrders, BaselineAccount, RecordBaseline,
     BaselineAllowed, BaselineFails, ReconcileStart, ReadIntents, Account, OpenOrders,
     ReconcileFails, RecordVerdict, journal
<1> QED BY <1>1, <1>2, <1>3 DEF Next, Step

LEMMA ClosedGrows == PaperInv /\ [Next]_vars => Closed \subseteq Closed'
<1> SUFFICES ASSUME PaperInv, [Next]_vars, NEW i \in Closed PROVE i \in Closed'
  OBVIOUS
<1>1. PICK o \in OrderIds : /\ of[o] = i
                            /\ order[o] \in Terminal
                            /\ baseline + (IF order[o] = "FILLED_ALL" THEN 1 ELSE 0) = Position
  BY DEF Closed
<1>2. order[o] # "absent" /\ OneOrder
  BY <1>1 DEF Terminal, PaperInv, Single, Budget
<1>3. Position = IF order[o] = "FILLED_ALL" THEN 1 ELSE 0
  BY <1>2, FilledOnly DEF OneOrder, Position
<1>4. of'[o] = i /\ order'[o] = order[o]
  BY <1>1, <1>2, OrdersMoveOn
<1>5. OneOrder'
  BY SingleStep DEF Single, Budget
<1>6. Position' = IF order'[o] = "FILLED_ALL" THEN 1 ELSE 0
  BY <1>2, <1>4, <1>5, FilledOnly DEF OneOrder, Position
<1>7. baseline # -1
  BY <1>1, <1>3
<1>8. baseline' = baseline
  BY <1>7, BaselineStays
<1> HIDE DEF Position
<1> QED BY <1>1, <1>3, <1>4, <1>6, <1>8 DEF Closed

LEMMA MatchingFrame ==
  ASSUME PaperInv, Matching, [Next]_vars, NEW p \in Processes,
         \A q \in Processes \ {p} : pc'[q] = pc[q] /\ my'[q] = my[q],
         verdict'.covers \subseteq Closed,
         my'[p].ok => pc'[p] = "record" /\ my'[p].intent \in Closed \union {None},
         Comparing(pc'[p], my'[p].goal) => baseline # -1
  PROVE  Matching'
<1>1. Closed \subseteq Closed'
  BY ClosedGrows
<1>2. baseline # -1 => baseline' = baseline
  BY BaselineStays
<1> QED BY <1>1, <1>2 DEF Matching, Comparing

\* A process that judges nothing and does not come to compare.
LEMMA MatchingAside ==
  ASSUME PaperInv, Matching, [Next]_vars, NEW p \in Processes, Step(p), verdict' = verdict,
         ~my'[p].ok,
         Comparing(pc'[p], my'[p].goal) => Comparing(pc[p], my[p].goal) \/ baseline # -1
  PROVE  Matching'
<1>1. \A q \in Processes \ {p} : pc'[q] = pc[q] /\ my'[q] = my[q]
  BY OthersStay DEF PaperInv
<1> QED BY <1>1, MatchingFrame DEF Matching

LEMMA MatchingStep == PaperInv /\ Evidence /\ Matching /\ [Next]_vars => Matching'
<1> SUFFICES ASSUME PaperInv, Evidence, Matching, [Next]_vars PROVE Matching'
  OBVIOUS
<1>1. ASSUME NEW p \in Processes, Step(p), RecordVerdict(p) PROVE Matching'
  <2>1. /\ \A q \in Processes \ {p} : pc'[q] = pc[q] /\ my'[q] = my[q]
        /\ my[p].ok => my[p].intent \in Closed \union {None}
        /\ pc \in [Processes -> Places] /\ my \in [Processes -> Locals]
    BY <1>1, OthersStay DEF PaperInv, TypeInv, Control, Matching
  <2>2. pc'[p] = "idle" /\ my'[p] = Nothing
    BY <1>1, <2>1 DEF RecordVerdict, Leave, Goto
  <2>3. verdict'.covers \subseteq Closed
    BY <1>1, <2>1 DEF RecordVerdict
  <2> QED BY <2>1, <2>2, <2>3, MatchingFrame DEF Nothing, Comparing
<1>2. ASSUME NEW p \in Processes, Step(p), OpenOrders(p) PROVE Matching'
  <2>1. /\ \A q \in Processes \ {p} : pc'[q] = pc[q] /\ my'[q] = my[q]
        /\ pc \in [Processes -> Places] /\ my \in [Processes -> Locals]
    BY <1>2, OthersStay DEF PaperInv, TypeInv, Control
  <2>2. /\ pc[p] = "open" /\ pc'[p] = "record" /\ verdict' = verdict
        /\ my'[p] = [my[p] EXCEPT !.ok = Tallies(p)]
    BY <1>2, <2>1 DEF OpenOrders, Goto, journal
  <2>3. my'[p].intent = my[p].intent /\ my'[p].ok = Tallies(p)
    BY <2>1, <2>2 DEF Locals
  <2>4. ASSUME Tallies(p), my[p].intent # None PROVE my[p].intent \in Closed
    <3>1. my[p].snap \in Terminal
      BY <2>4 DEF Tallies, Settled
    <3>2. <<my[p].intent, my[p].snap>> \in Known
      BY <2>2, <2>4 DEF Evidence
    <3>3. baseline # -1
      BY <2>2 DEF Matching, Comparing
    <3>4. my[p].intent \in Intents
      BY <3>2 DEF Known
    <3> QED BY <3>1, <3>2, <3>3, <3>4, KnownCloses
  <2>5. verdict'.covers \subseteq Closed
    BY <2>2 DEF Matching
  <2> HIDE DEF Tallies
  <2> QED BY <2>1, <2>2, <2>3, <2>4, <2>5, MatchingFrame DEF Comparing
<1>3. ASSUME NEW p \in Processes, Step(p), ~RecordVerdict(p), ~OpenOrders(p)
      PROVE  Matching'
  <2>0. /\ my[p] \in Locals /\ my \in [Processes -> Locals] /\ pc \in [Processes -> Places]
        /\ my[p].ok => pc[p] = "record"
        /\ my[p].goal \in Goals
    BY Fields DEF PaperInv, TypeInv, Control, Matching
  <2>a. ~Nothing.ok /\ Nothing.goal = "report"
    BY DEF Nothing
  <2>b. \A i \in Intents, g \in Goals, f \in BOOLEAN :
          ~Observing(i, g, f).ok /\ Observing(i, g, f).goal = g
    BY DEF Observing, Nothing
  <2> USE DEF Goto, Leave, Comparing
  <2>1. CASE Submit(p)
    <3>1. verdict' = verdict /\ pc[p] # "record"
      BY <2>1 DEF Submit, SubmitStart, Reserve, NotAdmitted, NoteCall, Attempted, NotSent,
         LastCheck, PlaceOrder, Receipt, Ack, Unknown, journal, Unattempted
    <3>2. my'[p].ok = my[p].ok \/ my'[p] = Nothing
      BY <2>0, <2>1 DEF Submit, SubmitStart, Reserve, NotAdmitted, NoteCall, Attempted, NotSent,
         LastCheck, PlaceOrder, Receipt, Ack, Unknown, Locals
    <3>3. ~Comparing(pc'[p], my'[p].goal)
      BY <2>0, <2>1 DEF Submit, SubmitStart, Reserve, NotAdmitted, NoteCall, Attempted, NotSent,
         LastCheck, PlaceOrder, Receipt, Ack, Unknown
    <3> QED BY <1>3, <2>0, <2>a, <3>1, <3>2, <3>3, MatchingAside
  <2>2. CASE Look(p)
    <3>1. verdict' = verdict /\ pc[p] # "record"
      BY <2>2 DEF Look, Observe, Recover, Query, Observed, ObserveFails, ReserveCancel,
         AskCancel, CancelFails, journal
    <3>2. CASE \E i \in Intents : Observe(p, i) \/ Recover(p, i)
      <4>1. PICK i \in Intents, g \in {"report", "cancel"}, f \in BOOLEAN :
              my'[p] = Observing(i, g, f)
        BY <2>0, <3>2 DEF Observe, Recover
      <4>2. pc'[p] = "query"
        BY <2>0, <3>2 DEF Observe, Recover
      <4>3. ~my'[p].ok /\ my'[p].goal = g
        BY <2>b, <4>1 DEF Goals
      <4> QED BY <1>3, <3>1, <4>2, <4>3, MatchingAside
    <3>3. CASE Query(p)
      <4>1. my'[p].ok = my[p].ok /\ my'[p].goal = my[p].goal /\ pc[p] = "query" /\ pc'[p] = "check"
        BY <2>0, <3>3 DEF Query, Locals
      <4> QED BY <1>3, <2>0, <3>1, <4>1, MatchingAside
    <3>4. CASE Observed(p) \/ ObserveFails(p) \/ ReserveCancel(p) \/ AskCancel(p) \/ CancelFails(p)
      <4>1. my'[p] = my[p] \/ my'[p] = Nothing
        BY <2>0, <3>4 DEF Observed, ObserveFails, ReserveCancel, AskCancel, CancelFails, Goals
      <4>2. Comparing(pc'[p], my'[p].goal) => Comparing(pc[p], my[p].goal)
        BY <2>0, <3>4 DEF Observed, ObserveFails, ReserveCancel, AskCancel, CancelFails, Goals
      <4> QED BY <1>3, <2>0, <2>a, <3>1, <4>1, <4>2, MatchingAside
    <3> QED BY <2>2, <3>2, <3>3, <3>4 DEF Look
  <2>3. CASE Stop(p) \/ Crash(p)
    <3>1. verdict' = verdict
      BY <2>3 DEF Stop, Crash, journal
    <3>2. CASE Crash(p)
      BY <1>3, <2>0, <2>a, <3>1, <3>2, MatchingAside DEF Crash
    <3>3. CASE Stop(p)
      <4>1. intents \subseteq Intents
        BY DEF PaperInv, TypeInv, Shape
      <4>2. \/ UNCHANGED <<pc, my>>
            \/ \E i \in Intents : my'[p] = Observing(i, "cancel", FALSE) /\ pc'[p] = "query"
        BY <2>0, <3>3, <4>1 DEF Stop
      <4>3. ~my'[p].ok /\ ~Comparing(pc'[p], my'[p].goal)
        BY <2>0, <2>b, <3>3, <4>2 DEF Stop, Goals
      <4> QED BY <1>3, <3>1, <4>3, MatchingAside
    <3> QED BY <2>3, <3>2, <3>3
  <2>4. CASE Reconcile(p)
    <3>1. verdict' = verdict /\ pc[p] # "record"
      BY <1>3, <2>4 DEF Reconcile, BaselineStart, BaselineOrders, BaselineAccount, RecordBaseline,
         BaselineFails, ReconcileStart, ReadIntents, Account, ReconcileFails, journal
    <3>2. CASE ReadIntents(p)
      <4>1. intents \subseteq Intents
        BY DEF PaperInv, TypeInv, Shape
      <4>2. my' = my \/ \E i \in Intents : my'[p] = Observing(i, "before", FALSE)
        BY <2>0, <3>2, <4>1 DEF ReadIntents
      <4>3. ~my'[p].ok /\ pc[p] = "intents"
        BY <2>0, <2>b, <3>1, <3>2, <4>2 DEF ReadIntents, Goals
      <4> QED BY <1>3, <3>1, <4>3, MatchingAside
    <3>3. CASE Account(p)
      <4> DEFINE n == Position
                 old == IF my[p].intent = None THEN {} ELSE seen[my[p].intent]
      <4>1. my'[p] = [my[p] EXCEPT !.count = n, !.goal = "after", !.first = my[p].snap, !.old = old]
        BY <2>0, <3>3 DEF Account
      <4> HIDE DEF n, old
      <4>2. my'[p].ok = my[p].ok
        BY <2>0, <4>1 DEF Locals
      <4>3. pc[p] = "account"
        BY <3>3 DEF Account
      <4> QED BY <1>3, <2>0, <3>1, <4>2, <4>3, MatchingAside
    <3>4. CASE \/ BaselineStart(p) \/ BaselineOrders(p, "base1", "base2")
               \/ BaselineAccount(p) \/ BaselineOrders(p, "base3", "base4")
               \/ RecordBaseline(p) \/ BaselineFails(p) \/ ReconcileStart(p) \/ ReconcileFails(p)
      <4>1. my'[p].ok = my[p].ok \/ my'[p] = Nothing
        BY <2>0, <3>4 DEF BaselineStart, BaselineOrders, BaselineAccount, RecordBaseline,
           BaselineFails, ReconcileStart, ReconcileFails, Locals
      <4>2. Comparing(pc'[p], my'[p].goal) => baseline # -1
        BY <2>0, <3>4 DEF BaselineStart, BaselineOrders, BaselineAccount, RecordBaseline,
           BaselineFails, ReconcileStart, ReconcileFails
      <4> QED BY <1>3, <2>0, <2>a, <3>1, <4>1, <4>2, MatchingAside
    <3> QED BY <1>3, <2>4, <3>2, <3>3, <3>4 DEF Reconcile
  <2> QED BY <1>3, <2>1, <2>2, <2>3, <2>4 DEF Step
<1>4. CASE Broker \/ UNCHANGED vars
  <2>1. UNCHANGED <<pc, my, verdict>>
    BY <1>4 DEF Broker, Book, TurnDown, Fill, Expire, Becomes, vars, journal
  <2>2. Closed \subseteq Closed'
    BY ClosedGrows
  <2>3. baseline # -1 => baseline' = baseline
    BY BaselineStays
  <2> QED BY <2>1, <2>2, <2>3 DEF Matching, Comparing
<1> QED BY <1>1, <1>2, <1>3, <1>4 DEF Next

\* A matching reconciliation stays true: the order it covered has ended, and the
\* position is the baseline and what that order filled.
THEOREM MatchAlwaysSettled == Spec => []MatchIsSettled
<1>1. Init => PaperInv /\ Evidence /\ Matching
  BY TypeInit, SingleInit DEF PaperInv, Init, Evidence, Matching, Comparing, Nothing
<1>2. PaperInv /\ Evidence /\ Matching /\ [Next]_vars => (PaperInv /\ Evidence /\ Matching)'
  BY TypeStep, SingleStep, EvidenceStep, MatchingStep DEF PaperInv
<1>3. Matching => MatchIsSettled
  <2> SUFFICES ASSUME Matching, NEW i \in verdict.covers
               PROVE  \E o \in Rows(i) :
                        /\ order[o] \in Terminal
                        /\ baseline + (IF order[o] = "FILLED_ALL" THEN 1 ELSE 0) = Position
    BY DEF MatchIsSettled
  <2>1. i \in Closed
    BY DEF Matching
  <2> HIDE DEF Position
  <2> QED BY <2>1 DEF Closed, Rows, Booked
<1> QED BY <1>1, <1>2, <1>3, PTL DEF Spec
=============================================================================
