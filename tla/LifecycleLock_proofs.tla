------------------------- MODULE LifecycleLock_proofs -------------------------
(***************************************************************************)
(* Proofs about LifecycleLock for any set of processes.                    *)
(***************************************************************************)
EXTENDS LifecycleLock, TLAPS

Using == Places \ {"out", "want"}

\* Whoever is past mkdir made the directory, and the owner file is as far as he
\* is.
Custody ==
  /\ maker = None => owner = None
  /\ \A p \in Processes :
       /\ pc[p] \in Using => maker = p
       /\ pc[p] \in {"made", "undo_rmdir", "unowned"} => owner = None
       /\ pc[p] = "opened" => owner = Torn
       /\ pc[p] \in {"written", "held", "checked"} => owner = p

Inv == TypeOK /\ Custody

LEMMA InvInit == Init => Inv
BY DEF Init, Inv, TypeOK, Custody, Using, Places

LEMMA TypeStep == Inv /\ [Next]_vars => TypeOK'
<1> SUFFICES ASSUME Inv, [Next]_vars PROVE TypeOK'
  OBVIOUS
<1> USE DEF Inv, TypeOK, Places, Goto
<1>1. ASSUME NEW p \in Processes, Step(p) PROVE TypeOK'
  <2>1. CASE Want(p) \/ Make(p) \/ Blocked(p) \/ OpenOwner(p) \/ WriteOwner(p)
    BY <2>1 DEF Want, Make, Blocked, OpenOwner, WriteOwner
  <2>2. CASE Acquired(p) \/ AcquireFails(p) \/ UndoUnlink(p) \/ Rmdir(p) \/ Abandon(p)
    BY <2>2 DEF Acquired, AcquireFails, UndoUnlink, Rmdir, Abandon
  <2>3. CASE CheckOwner(p) \/ ReleaseUnlink(p)
    BY <2>3 DEF CheckOwner, ReleaseUnlink
  <2> QED BY <1>1, <2>1, <2>2, <2>3 DEF Step
<1>2. CASE OperatorClears
  BY <1>2 DEF OperatorClears
<1>3. CASE UNCHANGED vars
  BY <1>3 DEF vars
<1> QED BY <1>1, <1>2, <1>3 DEF Next

LEMMA CustodyStep == Inv /\ [Next]_vars => Custody'
<1> SUFFICES ASSUME Inv, [Next]_vars PROVE Custody'
  OBVIOUS
<1> USE ProcessAssumption DEF Inv, TypeOK, Places, Goto, Custody, Using
<1>1. ASSUME NEW p \in Processes, Step(p) PROVE Custody'
  <2>1. CASE Want(p) \/ Blocked(p) \/ Abandon(p)
    BY <2>1 DEF Want, Blocked, Abandon
  <2>2. CASE Make(p)
    BY <2>2 DEF Make
  <2>3. CASE OpenOwner(p) \/ WriteOwner(p)
    BY <2>3 DEF OpenOwner, WriteOwner
  <2>4. CASE Acquired(p) \/ AcquireFails(p)
    BY <2>4 DEF Acquired, AcquireFails
  <2>5. CASE UndoUnlink(p) \/ Rmdir(p)
    BY <2>5 DEF UndoUnlink, Rmdir
  <2>6. CASE CheckOwner(p) \/ ReleaseUnlink(p)
    BY <2>6 DEF CheckOwner, ReleaseUnlink
  <2> QED BY <1>1, <2>1, <2>2, <2>3, <2>4, <2>5, <2>6 DEF Step
<1>2. CASE OperatorClears
  BY <1>2 DEF OperatorClears, InUse
<1>3. CASE UNCHANGED vars
  BY <1>3 DEF vars
<1> QED BY <1>1, <1>2, <1>3 DEF Next

\* The invariant of the lock: types, and whose the directory and the owner file are.
THEOREM InvAlways == Spec => []Inv
<1>1. Inv /\ [Next]_vars => Inv'
  BY TypeStep, CustodyStep DEF Inv
<1> QED BY InvInit, <1>1, PTL DEF Spec

\* Every variable keeps its shape.
THEOREM TypeCorrect == Spec => []TypeOK
<1>1. Inv => TypeOK
  BY DEF Inv
<1> QED BY InvAlways, <1>1, PTL

\* Two operations never run at the same time, whatever crashes where.
THEOREM Exclusive == Spec => []MutualExclusion
<1>1. Inv => MutualExclusion
  BY DEF Inv, Custody, MutualExclusion, Using, Places
<1> QED BY InvAlways, <1>1, PTL

\* The running operation still owns the directory and its owner file.
THEOREM HolderOwnsAlways == Spec => []HolderOwns
<1>1. Inv => HolderOwns
  BY DEF Inv, Custody, HolderOwns, Using, Places
<1> QED BY InvAlways, <1>1, PTL

\* Every step of the directory lock is a step of Reservation, or none.
THEOREM Refinement == Spec => ImplementsReservation
<1>1. Init => Lock!Init
  BY DEF Init, Lock!Init, Free
<1>2. Inv /\ [Next]_vars => [Lock!Next]_Lock!vars
  <2> SUFFICES ASSUME Inv, [Next]_vars PROVE [Lock!Next]_Lock!vars
    OBVIOUS
  <2> DEFINE who  == IF maker = None THEN Free ELSE IF InUse THEN maker ELSE Stale
             inside == {p \in Processes : pc[p] = "held"}
  <2> USE ProcessAssumption DEF Inv, TypeOK, Goto, Custody, Using, Places, InUse,
      Free, Stale
  <2>1. ASSUME NEW p \in Processes, Step(p) PROVE [Lock!Next]_Lock!vars
    <3>1. CASE Want(p) \/ Blocked(p)
      <4>1. UNCHANGED <<who, inside>>
        BY <3>1 DEF Want, Blocked
      <4> QED BY <4>1 DEF Lock!vars
    <3>2. CASE OpenOwner(p) \/ WriteOwner(p) \/ AcquireFails(p) \/ UndoUnlink(p)
      <4>1. UNCHANGED <<who, inside>>
        BY <3>2 DEF OpenOwner, WriteOwner, AcquireFails, UndoUnlink
      <4> QED BY <4>1 DEF Lock!vars
    <3>3. CASE Make(p)
      <4>1. who = Free /\ who' = p /\ UNCHANGED inside
        BY <3>3 DEF Make
      <4> QED BY <4>1 DEF Lock!Next, Lock!Take
    <3>4. CASE Acquired(p)
      <4>1. who = p /\ who' = p /\ inside' = inside \union {p}
        BY <3>4 DEF Acquired
      <4> QED BY <4>1 DEF Lock!Next, Lock!Enter
    <3>5. CASE CheckOwner(p)
      <4>1. who = p /\ who' = p /\ inside' = inside \ {p}
        BY <3>5 DEF CheckOwner
      <4> QED BY <4>1 DEF Lock!Next, Lock!Exit
    <3>6. CASE ReleaseUnlink(p)
      <4>1. UNCHANGED <<who, inside>>
        BY <3>6 DEF ReleaseUnlink
      <4> QED BY <4>1 DEF Lock!vars
    <3>7. CASE Rmdir(p)
      <4>1. who = p /\ who' = Free /\ p \notin inside /\ UNCHANGED inside
        BY <3>7 DEF Rmdir
      <4> QED BY <4>1 DEF Lock!Next, Lock!Give
    <3>8. CASE Abandon(p) /\ pc[p] = "want"
      <4>1. UNCHANGED <<who, inside>>
        BY <3>8 DEF Abandon
      <4> QED BY <4>1 DEF Lock!vars
    <3>9. CASE Abandon(p) /\ pc[p] # "want"
      <4>1. who = p /\ who' = Stale /\ inside' = inside \ {p}
        BY <3>9 DEF Abandon
      <4> QED BY <4>1 DEF Lock!Next, Lock!Abandon
    <3> QED
      BY <2>1, <3>1, <3>2, <3>3, <3>4, <3>5, <3>6, <3>7, <3>8, <3>9 DEF Step
  <2>2. CASE OperatorClears
    <3>1. who = Stale /\ who' = Free /\ UNCHANGED inside
      BY <2>2 DEF OperatorClears
    <3> QED BY <3>1 DEF Lock!Next, Lock!Clear
  <2>3. CASE UNCHANGED vars
    <3>1. UNCHANGED <<who, inside>>
      BY <2>3 DEF vars
    <3> QED BY <3>1 DEF Lock!vars
  <2> QED BY <2>1, <2>2, <2>3 DEF Next
<1> QED BY InvAlways, <1>1, <1>2, PTL DEF Spec, ImplementsReservation, Lock!Spec
=============================================================================
