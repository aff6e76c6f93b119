--------------------------- MODULE SafePurge_proofs ---------------------------
(***************************************************************************)
(* Proofs about SafePurge for any keys, any bounds and both platforms.     *)
(***************************************************************************)
EXTENDS SafePurge, TLAPS, SequenceTheorems, WellFoundedInduction

Collecting  == {"raw", "curated", "pair", "run"}
Forward     == {"verify", "move", "unlink", "commit"}
RollingBack == {"rollback", "rollback_unlink"}
Published   == {"mark", "publish"}
Executing   == Forward \union RollingBack \union Published

\* What the position of the lock holder says about its local variables.
Control ==
  /\ pc \in Collecting => collected \in Units
  /\ pc \in Executing \union {"index"} => cur \in PlanIds
  /\ pc \in {"commit"} \union Published => att \in Attempts
  /\ pc \notin Executing \ {"verify"} => moved = <<>>
  /\ pc \in {"unlink", "rollback_unlink"} => moved # <<>>

TypeInv == Shapes /\ Control

\* Sealed plans have the shape Content.
LEMMA SelectedType ==
  ASSUME NEW policy \in Policies, NEW K \in SUBSET Keys, Shapes
  PROVE  Selected(policy, K) \in Content
<1>1. /\ \A k : Complete(k) \subseteq Units /\ Winners(k) \subseteq Units
      /\ Historical(K) \subseteq Units
  BY DEF Shapes, Complete, Winners, Historical
<1>2. ExactContent(K, {}) \in Content
  BY <1>1 DEF ExactContent, ExactTargets, ExactReconciled, Content, Policies
<1>3. SupersededContent(K) \in Content
  <2>1. /\ UNION {Complete(k) : k \in K} \subseteq Units
        /\ UNION {Winners(k) : k \in K} \subseteq Units
    BY <1>1
  <2> QED BY <2>1 DEF SupersededContent, Content, Policies
<1> QED BY <1>2, <1>3 DEF Selected

LEMMA UndoneType ==
  ASSUME NEW s \in Seq(Files)
  PROVE  SubSeq(s, 1, Len(s) - 1) \in Seq(Files)
OBVIOUS

\* Undone drops the last file and keeps the others where they are.
LEMMA UndoneElements ==
  ASSUME NEW s \in Seq(Files), s # <<>>
  PROVE  LET t == SubSeq(s, 1, Len(s) - 1)
         IN  Len(t) = Len(s) - 1 /\ \A i \in 1 .. Len(t) : t[i] = s[i]
<1> DEFINE n == Len(s) - 1
<1>1. n \in Nat
  OBVIOUS
<1>2. \A i \in 1 .. n : s[i] \in Files
  OBVIOUS
<1> HIDE DEF n
<1>3. /\ Len(SubSeq(s, 1, n)) = IF 1 <= n THEN n - 1 + 1 ELSE 0
      /\ \A i \in 1 .. n - 1 + 1 : SubSeq(s, 1, n)[i] = s[1 + i - 1]
  BY <1>1, <1>2, SubSeqProperties
<1>4. Len(SubSeq(s, 1, n)) = n /\ \A i \in 1 .. n : SubSeq(s, 1, n)[i] = s[i]
  <2>1. \A i \in 1 .. n : 1 + i - 1 = i
    BY <1>1
  <2>2. n - 1 + 1 = n /\ (1 <= n \/ n = 0)
    BY <1>1
  <2> QED BY <1>3, <2>1, <2>2
<1> QED BY <1>4 DEF n

LEMMA InitType == Init => TypeInv
<1>1. (CHOOSE k \in Keys : TRUE) \in Keys
  BY KeysAssumption
<1>2. NoContent \in Content
  BY DEF NoContent, Content, Policies
<1>3. <<>> \in Seq(Files)
  OBVIOUS
<1>4. Init => Shapes
  <2> SUFFICES ASSUME Init PROVE Shapes
    OBVIOUS
  <2>1. key \in [Units -> Keys]
    BY <1>1 DEF Init
  <2>2. quar \in [PlanIds -> SUBSET Files] /\ plan \in [PlanIds -> Content]
    BY <1>2 DEF Init
  <2>3. moved \in Seq(Files)
    BY <1>3 DEF Init
  <2>4. /\ active \subseteq Files /\ written \subseteq Files /\ todo \subseteq Files
        /\ good \subseteq Units /\ registered \subseteq Units /\ result \subseteq Attempts
    BY DEF Init
  <2>5. /\ collected \in 0 .. MaxUnits /\ cur \in 0 .. MaxPlans /\ att \in 0 .. MaxAttempts
        /\ pc \in Steps
    BY BoundAssumption DEF Init, Steps
  <2>8. retry \in BOOLEAN
    BY Zenon DEF Init
  <2>6. /\ pointer \in [PlanIds -> 0 .. MaxAttempts]
        /\ precommit \in [Attempts -> 0 .. MaxPlans]
    BY BoundAssumption DEF Init
  <2>7. /\ run \in [Units -> {"none", "ok", "failed"}]
        /\ planFile \in [PlanIds -> {"absent", "torn", "sealed"}]
        /\ state \in [PlanIds -> {"NONE", "PLANNED", "EXECUTING", "FAILED", "SUCCESS"}]
    BY DEF Init
  <2> QED BY <2>1, <2>2, <2>3, <2>4, <2>5, <2>6, <2>7, <2>8 DEF Shapes
<1>5. Init => Control
  BY DEF Init, Control, Collecting, Executing, Forward, RollingBack, Published
<1> QED BY <1>4, <1>5 DEF TypeInv

LEMMA LeaveType ==
  ASSUME Leave
  PROVE  /\ cur' \in 0 .. MaxPlans /\ att' \in 0 .. MaxAttempts
         /\ todo' \subseteq Files /\ moved' \in Seq(Files) /\ retry' \in BOOLEAN
<1>1. cur' \in 0 .. MaxPlans /\ att' \in 0 .. MaxAttempts /\ todo' \subseteq Files
  BY BoundAssumption DEF Leave
<1>2. moved' \in Seq(Files)
  BY DEF Leave
<1>3. retry' \in BOOLEAN
  BY Zenon DEF Leave
<1> QED BY <1>1, <1>2, <1>3

\* The shape of the variables, action by action.
LEMMA TypeStep == TypeInv /\ [Next]_vars => Shapes'
<1> SUFFICES ASSUME TypeInv, [Next]_vars PROVE Shapes'
  OBVIOUS
<1> USE BoundAssumption DEF TypeInv, Shapes, Steps, archive, catalog, plans, index,
    local
<1>1. ASSUME NEW k \in Keys, NEW q \in BOOLEAN, CollectStart(k, q)
      PROVE  Shapes'
  BY <1>1 DEF CollectStart, NextUnit, Units
<1>2. CASE WriteRaw \/ WriteCurated
  <2>1. <<collected, "raw">> \in Files /\ <<collected, "curated">> \in Files
    BY <1>2 DEF WriteRaw, WriteCurated, WriteFile, Files, Layers, Control, Collecting
  <2> QED BY <1>2, <2>1 DEF WriteRaw, WriteCurated, WriteFile
<1>3. CASE RegisterPair
  BY <1>3 DEF RegisterPair, Control, Collecting
<1>4. CASE SymbolFails \/ RecordRun \/ CollectAborts
  BY <1>4 DEF SymbolFails, RecordRun, CollectAborts
<1>5. ASSUME NEW policy \in Policies, NEW K \in SUBSET Keys, NEW p \in PlanIds,
             SealPlan(policy, K, p) \/ SealTorn(policy, K, p)
      PROVE  Shapes'
  <2>1. Selected(policy, K) \in Content
    BY SelectedType
  <2>2. /\ plan' \in [PlanIds -> Content]
        /\ planFile' \in [PlanIds -> {"absent", "torn", "sealed"}]
    BY <1>5, <2>1 DEF SealPlan, SealTorn, WritePlan
  <2>3. cur' \in 0 .. MaxPlans /\ pc' \in Steps
    BY <1>5 DEF SealPlan, SealTorn, WritePlan, PlanIds
  <2> QED BY <1>5, <2>2, <2>3 DEF SealPlan, SealTorn, WritePlan
<1>6. ASSUME NEW policy \in Policies, NEW K \in SUBSET Keys, SealAgain(policy, K)
      PROVE  Shapes'
  BY <1>6 DEF SealAgain, SameContent, PlanIds
<1>7. CASE IndexPlan \/ IndexFails
  <2>1. state' \in [PlanIds -> {"NONE", "PLANNED", "EXECUTING", "FAILED", "SUCCESS"}]
    BY <1>7 DEF IndexPlan, IndexFails, Control
  <2> QED BY LeaveType, <1>7, <2>1 DEF IndexPlan, IndexFails
<1>8. ASSUME NEW p \in PlanIds, ExecStart(p)
      PROVE  Shapes'
  BY <1>8 DEF ExecStart, PlanIds
<1>9. ASSUME NEW p \in PlanIds, ExecAgain(p)
      PROVE  Shapes'
  BY <1>9 DEF ExecAgain, PlanIds
<1>10. CASE Verify
  <2>1. cur \in PlanIds
    BY <1>10 DEF Verify, Control, Executing, Forward
  <2>2. FilesOf(plan[cur].targets) \subseteq Files
    BY <2>1 DEF FilesOf, Files, Content
  <2> QED BY <1>10, <2>2 DEF Verify
<1>11. CASE Drift \/ UnlinkFails \/ Mark \/ CommitInterrupted \/ Error
            \/ OperatorClears
  BY <1>11 DEF Drift, UnlinkFails, Mark, CommitInterrupted, Error, OperatorClears
<1>22. CASE Abort \/ Crash \/ PublishFails \/ FailUnrecorded
  BY LeaveType, <1>22 DEF Abort, Crash, PublishFails, FailUnrecorded
<1>12. ASSUME NEW f \in Files, Keep(f)
       PROVE  Shapes'
  BY <1>12 DEF Keep
<1>13. ASSUME NEW f \in Files, Rename(f) \/ Link(f)
       PROVE  Shapes'
  <2>1. Append(moved, f) \in Seq(Files)
    OBVIOUS
  <2>5. cur \in PlanIds
    BY <1>13 DEF Rename, Link, Control, Executing, Forward
  <2>2. quar' \in [PlanIds -> SUBSET Files]
    BY <1>13, <2>5 DEF Rename, Link
  <2>3. CASE Rename(f)
    BY <2>1, <2>2, <2>3 DEF Rename
  <2>4. CASE Link(f)
    BY <2>1, <2>2, <2>4 DEF Link
  <2> QED BY <1>13, <2>3, <2>4
<1>14. CASE Unlink
  BY <1>14 DEF Unlink
<1>15. ASSUME NEW a \in Attempts, Precommit(a)
       PROVE  Shapes'
  BY <1>15 DEF Precommit, Attempts
<1>16. CASE Commit
  BY <1>16 DEF Commit
<1>17. CASE Publish
  <2>1. result' \subseteq Attempts
    BY <1>17 DEF Publish, Control, Published
  <2> QED BY LeaveType, <1>17, <2>1 DEF Publish
<1>18. CASE RollbackRename \/ RollbackLink
  <2>1. Last \in Files /\ Undone \in Seq(Files)
    BY <1>18, UndoneType DEF RollbackRename, RollbackLink, Last, Undone
  <2> QED BY <1>18, <2>1 DEF RollbackRename, RollbackLink
<1>19. CASE RollbackUnlink \/ RollbackFails
  <2>1. Undone \in Seq(Files)
    BY UndoneType DEF Undone
  <2> QED BY <1>19, <2>1 DEF RollbackUnlink, RollbackFails
<1>20. CASE Fail
  <2>1. state' \in [PlanIds -> {"NONE", "PLANNED", "EXECUTING", "FAILED", "SUCCESS"}]
    BY <1>20 DEF Fail
  <2> QED BY LeaveType, <1>20, <2>1 DEF Fail
<1>21. CASE UNCHANGED vars
  BY <1>21 DEF vars
<1> HIDE DEF TypeInv, Shapes, Steps
<1>23. CASE Collect
  BY <1>1, <1>2, <1>3, <1>4, <1>23 DEF Collect
<1>24. CASE Plan
  BY <1>5, <1>6, <1>7, <1>24 DEF Plan
<1>25. CASE Execute
  BY <1>8, <1>9, <1>10, <1>11, <1>12, <1>13, <1>14, <1>15, <1>16, <1>17, <1>18,
     <1>19, <1>20, <1>22, <1>25 DEF Execute
<1> QED
  BY <1>11, <1>21, <1>22, <1>23, <1>24, <1>25 DEF Next

\* The local variables, action by action.
LEMMA ControlStep == TypeInv /\ [Next]_vars => Control'
<1> SUFFICES ASSUME TypeInv, [Next]_vars PROVE Control'
  OBVIOUS
<1> USE DEF TypeInv, Control, Collecting, Executing, Forward, RollingBack, Published,
    archive, catalog, plans, index, local
<1>1. ASSUME NEW k \in Keys, NEW q \in BOOLEAN, CollectStart(k, q)
      PROVE  Control'
  BY <1>1, BoundAssumption DEF CollectStart, NextUnit, Units, Shapes
<1>2. CASE WriteRaw \/ WriteCurated \/ RegisterPair \/ SymbolFails \/ RecordRun
           \/ CollectAborts
  BY <1>2 DEF WriteRaw, WriteCurated, WriteFile, RegisterPair, SymbolFails, RecordRun,
     CollectAborts
<1>3. ASSUME NEW policy \in Policies, NEW K \in SUBSET Keys, NEW p \in PlanIds,
             SealPlan(policy, K, p) \/ SealTorn(policy, K, p)
      PROVE  Control'
  BY <1>3 DEF SealPlan, SealTorn, WritePlan
<1>4. ASSUME NEW policy \in Policies, NEW K \in SUBSET Keys, SealAgain(policy, K)
      PROVE  Control'
  BY <1>4 DEF SealAgain, SameContent
<1>5. CASE IndexPlan \/ IndexFails \/ Publish \/ PublishFails \/ Fail
           \/ FailUnrecorded \/ Abort \/ Crash
  BY <1>5 DEF IndexPlan, IndexFails, Publish, PublishFails, Fail, FailUnrecorded,
     Abort, Crash, Leave
<1>6. ASSUME NEW p \in PlanIds, ExecStart(p)
      PROVE  Control'
  BY <1>6 DEF ExecStart
<1>15. ASSUME NEW p \in PlanIds, ExecAgain(p)
       PROVE  Control'
  BY <1>15 DEF ExecAgain, Authority
<1>7. CASE Verify \/ Drift \/ Unlink \/ UnlinkFails \/ Commit \/ Mark
           \/ CommitInterrupted \/ Error \/ OperatorClears
  BY <1>7 DEF Verify, Drift, Unlink, UnlinkFails, Commit, Mark, CommitInterrupted,
     Error, Uncommitted, OperatorClears
<1>8. ASSUME NEW f \in Files, Keep(f) \/ Rename(f) \/ Link(f)
      PROVE  Control'
  <2>1. moved \in Seq(Files)
    BY DEF Shapes
  <2>3. Append(moved, f) # <<>>
    BY <2>1
  <2> QED BY <1>8, <2>3 DEF Keep, Rename, Link
<1>9. ASSUME NEW a \in Attempts, Precommit(a)
      PROVE  Control'
  BY <1>9 DEF Precommit
<1>10. CASE RollbackRename \/ RollbackLink \/ RollbackUnlink \/ RollbackFails
  BY <1>10 DEF RollbackRename, RollbackLink, RollbackUnlink, RollbackFails
<1>11. CASE UNCHANGED vars
  BY <1>11 DEF vars
<1> HIDE DEF TypeInv, Control, Collecting, Executing, Forward, RollingBack, Published
<1>12. CASE Collect
  BY <1>1, <1>2, <1>12 DEF Collect
<1>13. CASE Plan
  BY <1>3, <1>4, <1>5, <1>13 DEF Plan
<1>14. CASE Execute
  BY <1>5, <1>6, <1>7, <1>8, <1>9, <1>10, <1>15, <1>14 DEF Execute
<1> QED BY <1>5, <1>7, <1>11, <1>12, <1>13, <1>14 DEF Next

-----------------------------------------------------------------------------
(***************************************************************************)
(* Which actions change what.                                              *)
(***************************************************************************)
LEMMA PlanFrame ==
  ASSUME [Next]_vars
  PROVE  \/ UNCHANGED plans
         \/ \E policy \in Policies, K \in SUBSET Keys, p \in PlanIds :
              SealPlan(policy, K, p) \/ SealTorn(policy, K, p)
<1> USE DEF archive, catalog, plans, index, local
<1>1. CASE Collect
  BY <1>1 DEF Collect, CollectStart, WriteRaw, WriteCurated, WriteFile, RegisterPair,
     SymbolFails, RecordRun, CollectAborts
<1>2. CASE Plan
  BY <1>2 DEF Plan, SealAgain, IndexPlan, IndexFails
<1>3. CASE Execute
  BY <1>3 DEF Execute, ExecStart, ExecAgain, Verify, Drift, Keep, Rename, Link, Unlink,
     UnlinkFails, Precommit, Commit, Mark, CommitInterrupted, Publish, PublishFails,
     Error, RollbackRename, RollbackLink, RollbackUnlink, RollbackFails, Fail,
     FailUnrecorded, Abort
<1> QED
  BY <1>1, <1>2, <1>3 DEF Next, Crash, OperatorClears, vars

LEMMA StateFrame ==
  ASSUME [Next]_vars
  PROVE  \/ UNCHANGED state
         \/ IndexPlan \/ (\E p \in PlanIds : ExecStart(p)) \/ Commit \/ Fail
<1> USE DEF archive, catalog, plans, index, local
<1>1. CASE Collect
  BY <1>1 DEF Collect, CollectStart, WriteRaw, WriteCurated, WriteFile, RegisterPair,
     SymbolFails, RecordRun, CollectAborts
<1>2. CASE Plan
  BY <1>2 DEF Plan, SealAgain, SealPlan, SealTorn, WritePlan, IndexFails
<1>3. CASE Execute
  BY <1>3 DEF Execute, ExecAgain, Verify, Drift, Keep, Rename, Link, Unlink,
     UnlinkFails, Precommit, Mark, CommitInterrupted, Publish, PublishFails,
     Error, RollbackRename, RollbackLink, RollbackUnlink, RollbackFails,
     FailUnrecorded, Abort
<1> QED
  BY <1>1, <1>2, <1>3 DEF Next, Crash, OperatorClears, vars

LEMMA ArchiveFrame ==
  ASSUME [Next]_vars
  PROVE  \/ UNCHANGED archive
         \/ WriteRaw \/ WriteCurated
         \/ \E f \in Files : Rename(f) \/ Link(f)
         \/ Unlink \/ RollbackRename \/ RollbackLink \/ RollbackUnlink
<1> USE DEF archive, catalog, plans, index, local
<1>1. CASE Collect
  BY <1>1 DEF Collect, CollectStart, RegisterPair, SymbolFails, RecordRun, CollectAborts
<1>2. CASE Plan
  BY <1>2 DEF Plan, SealAgain, SealPlan, SealTorn, WritePlan, IndexPlan, IndexFails
<1>3. CASE Execute
  BY <1>3 DEF Execute, ExecStart, ExecAgain, Verify, Drift, Keep,
     UnlinkFails, Precommit, Commit, Mark, CommitInterrupted, Publish, PublishFails,
     Error, RollbackFails, Fail, FailUnrecorded, Abort
<1> QED
  BY <1>1, <1>2, <1>3 DEF Next, Crash, OperatorClears, vars

LEMMA RunFrame ==
  ASSUME [Next]_vars
  PROVE  UNCHANGED run \/ RecordRun
<1> USE DEF archive, catalog, plans, index, local
<1>1. CASE Collect
  BY <1>1 DEF Collect, CollectStart, WriteRaw, WriteCurated, WriteFile, RegisterPair,
     SymbolFails, CollectAborts
<1>2. CASE Plan
  BY <1>2 DEF Plan, SealAgain, SealPlan, SealTorn, WritePlan, IndexPlan, IndexFails
<1>3. CASE Execute
  BY <1>3 DEF Execute, ExecStart, ExecAgain, Verify, Drift, Keep, Rename, Link, Unlink,
     UnlinkFails, Precommit, Commit, Mark, CommitInterrupted, Publish, PublishFails,
     Error, RollbackRename, RollbackLink, RollbackUnlink, RollbackFails, Fail,
     FailUnrecorded, Abort
<1> QED
  BY <1>1, <1>2, <1>3 DEF Next, Crash, OperatorClears, vars

LEMMA EvidenceFrame ==
  ASSUME [Next]_vars
  PROVE  \/ UNCHANGED <<pointer, precommit, result>>
         \/ (\E p \in PlanIds : ExecStart(p)) \/ (\E a \in Attempts : Precommit(a))
         \/ Commit \/ Publish
<1> USE DEF archive, catalog, plans, index, local
<1>1. CASE Collect
  BY <1>1 DEF Collect, CollectStart, WriteRaw, WriteCurated, WriteFile, RegisterPair,
     SymbolFails, RecordRun, CollectAborts
<1>2. CASE Plan
  BY <1>2 DEF Plan, SealAgain, SealPlan, SealTorn, WritePlan, IndexPlan, IndexFails
<1>3. CASE Execute
  BY <1>3 DEF Execute, ExecAgain, Verify, Drift, Keep, Rename, Link, Unlink,
     UnlinkFails, Mark, CommitInterrupted, PublishFails,
     Error, RollbackRename, RollbackLink, RollbackUnlink, RollbackFails, Fail,
     FailUnrecorded, Abort
<1> QED
  BY <1>1, <1>2, <1>3 DEF Next, Crash, OperatorClears, vars

-----------------------------------------------------------------------------
(***************************************************************************)
(* Traceable, under every fault.  Its strengthening: an operation works on *)
(* a sealed plan that it has begun, and moved_this_attempt holds only      *)
(* files of that plan.                                                     *)
(***************************************************************************)
Sealed ==
  /\ \A p \in PlanIds : state[p] # "NONE" => planFile[p] = "sealed"
  /\ pc = "index" => planFile[cur] = "sealed"

Begun ==
  /\ pc \in Forward => state[cur] = "EXECUTING"
  /\ pc \in RollingBack => state[cur] \in {"EXECUTING", "SUCCESS"}
  /\ pc \in Published => state[cur] = "SUCCESS"
  /\ pc \in {"move", "unlink"} => todo \subseteq FilesOf(plan[cur].targets)
  /\ \A i \in 1 .. Len(moved) : moved[i] \in FilesOf(plan[cur].targets)
  /\ pc = "unlink" => Last \in quar[cur]
  /\ pc = "rollback_unlink" => Last \in active

LEMMA SealedStep == TypeInv /\ Sealed /\ Begun /\ [Next]_vars => Sealed'
<1> SUFFICES ASSUME TypeInv, Sealed, Begun, [Next]_vars PROVE Sealed'
  OBVIOUS
<1>1. \A p \in PlanIds : state'[p] # "NONE" => state[p] # "NONE" \/ planFile[p] = "sealed"
  <2>1. CASE IndexPlan
    BY <2>1 DEF IndexPlan, TypeInv, Shapes, Sealed, Control
  <2>2. ASSUME NEW p \in PlanIds, ExecStart(p)
        PROVE  \A q \in PlanIds : state'[q] # "NONE" => state[q] # "NONE"
    BY <2>2 DEF ExecStart, Restartable, TypeInv, Shapes
  <2>3. CASE Commit
    BY <2>3 DEF Commit, TypeInv, Shapes
  <2>4. CASE Fail
    BY <2>4 DEF Fail, TypeInv, Shapes, Begun, RollingBack
  <2> QED BY <2>1, <2>2, <2>3, <2>4, StateFrame
<1>2. ASSUME NEW policy \in Policies, NEW K \in SUBSET Keys, NEW p \in PlanIds,
             SealPlan(policy, K, p)
      PROVE  Sealed'
  BY <1>2 DEF SealPlan, WritePlan, FirstFree, index, Sealed, TypeInv, Shapes
<1>3. ASSUME NEW policy \in Policies, NEW K \in SUBSET Keys, NEW p \in PlanIds,
             SealTorn(policy, K, p)
      PROVE  Sealed'
  BY <1>3 DEF SealTorn, WritePlan, FirstFree, index, Sealed, TypeInv, Shapes
<1>4. CASE UNCHANGED plans
  <2>1. pc' = "index" => planFile'[cur'] = "sealed"
    <3> USE DEF archive, catalog, plans, index, local
    <3> SUFFICES ASSUME pc' = "index" PROVE planFile[cur'] = "sealed"
      BY <1>4
    <3>1. CASE Collect
      BY <3>1 DEF Collect, CollectStart, WriteRaw, WriteCurated, WriteFile,
         RegisterPair, SymbolFails, RecordRun, CollectAborts
    <3>2. ASSUME NEW policy \in Policies, NEW K \in SUBSET Keys, SealAgain(policy, K)
          PROVE  planFile[cur'] = "sealed"
      BY <3>2 DEF SealAgain, SameBytes
    <3>3. CASE Plan
      BY <3>3, <3>2, <1>2, <1>4 DEF Plan, SealTorn, IndexPlan, IndexFails, Sealed
    <3>4. CASE Execute
      BY <3>4 DEF Execute, ExecStart, ExecAgain, Verify, Drift, Keep, Rename, Link,
         Unlink, UnlinkFails, Precommit, Commit, Mark, CommitInterrupted, Publish,
         PublishFails, Error, RollbackRename, RollbackLink, RollbackUnlink,
         RollbackFails, Fail, FailUnrecorded, Abort
    <3> QED BY <3>1, <3>3, <3>4 DEF Next, Crash, OperatorClears, vars, Sealed
  <2> QED BY <1>1, <1>4, <2>1 DEF plans, Sealed
<1> QED BY <1>2, <1>3, <1>4, PlanFrame

LEMMA BegunStep == TypeInv /\ Begun /\ [Next]_vars => Begun'
<1> SUFFICES ASSUME TypeInv, Begun, [Next]_vars PROVE Begun'
  OBVIOUS
<1> USE DEF archive, catalog, plans, index, local, Forward, RollingBack, Published
<1>0. moved \in Seq(Files) /\ (pc = "idle" => moved = <<>>)
  BY DEF TypeInv, Shapes, Control, Executing
<1>1. ASSUME moved' = <<>>, pc' \notin Forward \union RollingBack \union Published
      PROVE  Begun'
  BY <1>1 DEF Begun
<1>2. CASE Collect
  BY <1>2 DEF Collect, CollectStart, WriteRaw, WriteCurated, WriteFile, RegisterPair,
     SymbolFails, RecordRun, CollectAborts, Begun, Last
<1>3. ASSUME NEW policy \in Policies, NEW K \in SUBSET Keys, NEW p \in PlanIds,
             SealPlan(policy, K, p) \/ SealTorn(policy, K, p)
      PROVE  Begun'
  BY <1>0, <1>1, <1>3 DEF SealPlan, SealTorn, WritePlan
<1>18. ASSUME NEW policy \in Policies, NEW K \in SUBSET Keys, SealAgain(policy, K)
       PROVE  Begun'
  BY <1>0, <1>1, <1>18 DEF SealAgain
<1>4. CASE IndexPlan \/ IndexFails \/ Publish \/ PublishFails \/ Fail
           \/ FailUnrecorded \/ Abort \/ Crash
  BY <1>1, <1>4 DEF IndexPlan, IndexFails, Publish, PublishFails, Fail, FailUnrecorded,
     Abort, Crash, Leave
<1>5. ASSUME NEW p \in PlanIds, ExecStart(p)
      PROVE  Begun'
  BY <1>0, <1>5 DEF ExecStart, Begun, TypeInv, Shapes
<1>6. ASSUME NEW p \in PlanIds, ExecAgain(p)
      PROVE  Begun'
  BY <1>0, <1>6 DEF ExecAgain, Begun
<1>7. CASE Verify \/ Drift \/ UnlinkFails \/ Mark \/ CommitInterrupted \/ Error
           \/ OperatorClears
  BY <1>7 DEF Verify, Drift, UnlinkFails, Mark, CommitInterrupted, Error, Uncommitted,
     OperatorClears, Begun, Last
<1>8. ASSUME NEW f \in Files, Keep(f)
      PROVE  Begun'
  BY <1>8 DEF Keep, Begun
<1>9. ASSUME NEW f \in Files, Rename(f) \/ Link(f)
      PROVE  Begun'
  <2>1. f \in FilesOf(plan[cur].targets)
    BY <1>9 DEF Rename, Link, NextUp, Begun
  <2>2. /\ moved' = Append(moved, f) /\ Len(moved') = Len(moved) + 1
        /\ moved'[Len(moved')] = f
        /\ \A i \in 1 .. Len(moved) : moved'[i] = moved[i]
    BY <1>0, <1>9 DEF Rename, Link
  <2>3. \A i \in 1 .. Len(moved') : moved'[i] \in FilesOf(plan[cur].targets)
    BY <2>1, <2>2, <1>0 DEF Begun
  <2>4. CASE Rename(f)
    BY <2>3, <2>4 DEF Rename, Begun
  <2>5. CASE Link(f)
    <3>1. cur \in PlanIds
      BY <2>5 DEF Link, TypeInv, Control, Executing
    <3>2. Last' \in quar'[cur]
      BY <2>2, <2>5, <3>1 DEF Link, Last, TypeInv, Shapes
    <3> QED BY <2>3, <2>5, <3>2 DEF Link, Begun
  <2> QED BY <1>9, <2>4, <2>5
<1>10. CASE Unlink
  BY <1>10 DEF Unlink, Begun
<1>11. ASSUME NEW a \in Attempts, Precommit(a)
       PROVE  Begun'
  BY <1>11 DEF Precommit, Begun
<1>12. CASE Commit
  BY <1>12 DEF Commit, Begun, TypeInv, Shapes, Control, Executing
<1>13. CASE RollbackLink
  BY <1>13 DEF RollbackLink, Begun, Last
<1>14. CASE RollbackRename \/ RollbackUnlink \/ RollbackFails
  <2>1. moved # <<>>
    BY <1>14 DEF RollbackRename, RollbackUnlink, RollbackFails, TypeInv, Control
  <2>2. moved' = Undone
    BY <1>14 DEF RollbackRename, RollbackUnlink, RollbackFails
  <2>3. /\ Len(moved') = Len(moved) - 1
        /\ \A i \in 1 .. Len(moved') : moved'[i] = moved[i]
    BY <1>0, <2>1, <2>2, UndoneElements DEF Undone
  <2>4. \A i \in 1 .. Len(moved') : moved'[i] \in FilesOf(plan[cur].targets)
    BY <1>0, <2>3 DEF Begun
  <2> QED
    BY <1>14, <2>4 DEF RollbackRename, RollbackUnlink, RollbackFails, Begun
<1>15. CASE UNCHANGED vars
  BY <1>15 DEF vars, Begun, Last
<1> HIDE DEF archive, catalog, plans, index, local, Forward, RollingBack, Published
<1>16. CASE Plan
  BY <1>3, <1>4, <1>18, <1>16 DEF Plan
<1>17. CASE Execute
  BY <1>4, <1>5, <1>6, <1>7, <1>8, <1>9, <1>10, <1>11, <1>12, <1>13, <1>14, <1>17
     DEF Execute
<1> QED BY <1>2, <1>4, <1>7, <1>15, <1>16, <1>17 DEF Next

\* Every variable keeps its shape, and a plan is indexed only with its whole file,
\* under every fault, torn plan files and repeated requests included.
THEOREM TypeCorrect == Spec => []TypeOK
<1> DEFINE Inv == TypeInv /\ Sealed /\ Begun
<1>1. Init => Inv
  <2>1. Init => Sealed /\ Begun
    BY DEF Init, Sealed, Begun, Forward, RollingBack, Published
  <2> QED BY InitType, <2>1
<1>2. Inv /\ [Next]_vars => Inv'
  BY TypeStep, ControlStep, SealedStep, BegunStep DEF TypeInv
<1>3. Inv => TypeOK
  BY DEF TypeInv, Sealed, TypeOK
<1> QED BY <1>1, <1>2, <1>3, PTL DEF Spec

\* A begun plan is fixed: neither its content nor the fact can be undone.
LEMMA BegunStays ==
  ASSUME TypeInv, Sealed, Begun, [Next]_vars, NEW p \in PlanIds
  PROVE  /\ state[p] # "NONE" => plan'[p] = plan[p]
         /\ state[p] \in {"EXECUTING", "FAILED", "SUCCESS"}
              => state'[p] \in {"EXECUTING", "FAILED", "SUCCESS"}
         /\ state[p] = "SUCCESS" => state'[p] = "SUCCESS"
<1>1. state[p] # "NONE" => plan'[p] = plan[p]
  BY PlanFrame DEF SealPlan, SealTorn, WritePlan, FirstFree, plans, Sealed, TypeInv,
     Shapes
<1>2. /\ state[p] \in {"EXECUTING", "FAILED", "SUCCESS"}
           => state'[p] \in {"EXECUTING", "FAILED", "SUCCESS"}
      /\ state[p] = "SUCCESS" => state'[p] = "SUCCESS"
  <2>1. CASE IndexPlan
    BY <2>1 DEF IndexPlan, TypeInv, Shapes
  <2>2. ASSUME NEW q \in PlanIds, ExecStart(q)
        PROVE  <1>2!1 /\ <1>2!2
    BY <2>2 DEF ExecStart, Restartable, TypeInv, Shapes
  <2>3. CASE Commit
    BY <2>3 DEF Commit, TypeInv, Shapes
  <2>4. CASE Fail
    BY <2>4 DEF Fail, TypeInv, Shapes
  <2> QED BY <2>1, <2>2, <2>3, <2>4, StateFrame
<1> QED BY <1>1, <1>2

LEMMA TraceableStep ==
  TypeInv /\ Sealed /\ Begun /\ Traceable /\ [Next]_vars => Traceable'
<1> SUFFICES ASSUME TypeInv, Sealed, Begun, Traceable, [Next]_vars,
                    NEW f \in written' \ active'
             PROVE  \E p \in PlanIds :
                      /\ f \in quar'[p] /\ f[1] \in plan'[p].targets
                      /\ state'[p] \in {"EXECUTING", "FAILED", "SUCCESS"}
  BY DEF Traceable
<1> DEFINE Named(p) == /\ f \in quar'[p] /\ f[1] \in plan[p].targets
                       /\ state[p] \in {"EXECUTING", "FAILED", "SUCCESS"}
<1>1. SUFFICES \E p \in PlanIds : Named(p)
  BY BegunStays
<1>3. f \in written \ active /\ (\A p \in PlanIds : f \in quar[p] => f \in quar'[p])
        => \E p \in PlanIds : Named(p)
  BY DEF Traceable
<1>4. pc \in {"move", "unlink"} =>
        /\ cur \in PlanIds /\ state[cur] = "EXECUTING"
        /\ \A g \in FilesOf(plan[cur].targets) : g[1] \in plan[cur].targets
  BY DEF Begun, FilesOf, TypeInv, Control, Executing, Forward
<1>5. CASE UNCHANGED archive \/ WriteRaw \/ WriteCurated \/ RollbackLink
  BY <1>3, <1>5 DEF archive, WriteRaw, WriteCurated, WriteFile, RollbackLink
<1>6. ASSUME NEW g \in Files, Rename(g) \/ Link(g)
      PROVE  \E p \in PlanIds : Named(p)
  <2>1. \A p \in PlanIds : quar[p] \subseteq quar'[p]
    BY <1>6 DEF Rename, Link, TypeInv, Shapes
  <2>2. CASE f \in written \ active
    BY <1>3, <2>1, <2>2
  <2>3. CASE f \notin written \ active
    <3>1. f = g /\ f \in quar'[cur]
      BY <1>4, <1>6, <2>3 DEF Rename, Link, TypeInv, Shapes
    <3>2. Named(cur)
      BY <1>4, <1>6, <3>1 DEF Rename, Link, NextUp, Begun
    <3> QED BY <1>4, <1>6, <3>2 DEF Rename, Link
  <2> QED BY <2>2, <2>3
<1>7. CASE Unlink
  <2>1. CASE f \in written \ active
    BY <1>3, <1>7, <2>1 DEF Unlink
  <2>2. CASE f \notin written \ active
    <3>1. f = Last /\ f \in quar'[cur]
      BY <1>7, <2>2 DEF Unlink, Begun
    <3>2. f \in FilesOf(plan[cur].targets)
      <4>1. Len(moved) \in 1 .. Len(moved)
        BY <1>7 DEF Unlink, TypeInv, Shapes, Control
      <4> QED BY <3>1, <4>1 DEF Begun, Last
    <3> QED BY <1>4, <1>7, <3>1, <3>2 DEF Unlink
  <2> QED BY <2>1, <2>2
<1>8. CASE RollbackRename \/ RollbackUnlink
  <2>1. f # Last /\ f \in written \ active
    BY <1>8 DEF RollbackRename, RollbackUnlink, Begun
  <2>2. \A p \in PlanIds : f \in quar[p] => f \in quar'[p]
    BY <1>8, <2>1 DEF RollbackRename, RollbackUnlink, TypeInv, Shapes
  <2> QED BY <1>3, <2>1, <2>2
<1> QED BY <1>5, <1>6, <1>7, <1>8, ArchiveFrame

\* Every collected file can be found: in the archive, or in the quarantine of a
\* begun plan that selected it, under every fault and on both platforms.
THEOREM TraceableAlways == Spec => []Traceable
<1> DEFINE Inv == TypeInv /\ Sealed /\ Begun /\ Traceable
<1>1. Init => Inv
  <2>1. Init => Sealed /\ Begun /\ Traceable
    BY DEF Init, Sealed, Begun, Traceable, Forward, RollingBack, Published
  <2> QED BY InitType, <2>1
<1>2. Inv /\ [Next]_vars => Inv'
  BY TypeStep, ControlStep, SealedStep, BegunStep, TraceableStep DEF TypeInv
<1> QED BY <1>1, <1>2, PTL DEF Spec

-----------------------------------------------------------------------------
(***************************************************************************)
(* ResultAfterCommit, under every fault.  Its strengthening: the attempt   *)
(* about to be committed or published is the one this operation prepared,  *)
(* or the one the committed row names.                                     *)
(***************************************************************************)
Prepared ==
  /\ pc \in {"commit"} \union Published => precommit[att] = cur
  /\ pc \in Published => pointer[cur] = att

LEMMA PreparedStep == TypeInv /\ Prepared /\ [Next]_vars => Prepared'
<1> SUFFICES ASSUME TypeInv, Prepared, [Next]_vars PROVE Prepared'
  OBVIOUS
<1> USE DEF Published
<1>1. \/ pc' \notin {"commit"} \union Published
      \/ UNCHANGED vars \/ Commit \/ Mark
      \/ \E a \in Attempts : Precommit(a)
      \/ \E p \in PlanIds : ExecAgain(p)
  <2>1. CASE Collect
    BY <2>1 DEF Collect, CollectStart, WriteRaw, WriteCurated, WriteFile, RegisterPair,
       SymbolFails, RecordRun, CollectAborts
  <2>2. CASE Plan
    BY <2>2 DEF Plan, SealAgain, SealPlan, SealTorn, IndexPlan, IndexFails
  <2>3. CASE Execute
    BY <2>3 DEF Execute, ExecStart, Verify, Drift, Keep, Rename, Link, Unlink,
       UnlinkFails, CommitInterrupted, Publish, PublishFails, Error, RollbackRename,
       RollbackLink, RollbackUnlink, RollbackFails, Fail, FailUnrecorded, Abort
  <2> QED BY <2>1, <2>2, <2>3 DEF Next, Crash, OperatorClears
<1>2. CASE pc' \notin {"commit"} \union Published
  BY <1>2 DEF Prepared
<1>3. CASE UNCHANGED vars \/ Mark
  BY <1>3 DEF vars, Mark, catalog, index, local, Prepared
<1>4. CASE Commit
  BY <1>4 DEF Commit, local, Prepared, TypeInv, Shapes, Control, Executing, Forward
<1>5. ASSUME NEW a \in Attempts, Precommit(a)
      PROVE  Prepared'
  BY <1>5 DEF Precommit, Prepared, TypeInv, Shapes
<1>6. ASSUME NEW p \in PlanIds, ExecAgain(p)
      PROVE  Prepared'
  BY <1>6 DEF ExecAgain, Authority, index, Prepared
<1> QED BY <1>1, <1>2, <1>3, <1>4, <1>5, <1>6

LEMMA ResultStep ==
  TypeInv /\ Sealed /\ Begun /\ Prepared /\ ResultAfterCommit /\ [Next]_vars
    => ResultAfterCommit'
<1> SUFFICES ASSUME TypeInv, Sealed, Begun, Prepared, ResultAfterCommit, [Next]_vars,
                    NEW a \in result'
             PROVE  \E p \in PlanIds : /\ state'[p] = "SUCCESS"
                                       /\ precommit'[a] = p /\ pointer'[p] = a
  BY DEF ResultAfterCommit, Committed
<1>1. ASSUME NEW p \in PlanIds, state[p] = "SUCCESS"
      PROVE  state'[p] = "SUCCESS"
  BY <1>1, BegunStays
<1>2. a \in result => a \in Attempts /\ \E p \in PlanIds : /\ state[p] = "SUCCESS"
                                        /\ precommit[a] = p /\ pointer[p] = a
  BY DEF ResultAfterCommit, Committed, TypeInv, Shapes
<1>3. CASE UNCHANGED <<pointer, precommit, result>>
  BY <1>1, <1>2, <1>3
<1>4. ASSUME NEW q \in PlanIds, ExecStart(q)
      PROVE  \E p \in PlanIds : /\ state'[p] = "SUCCESS"
                                /\ precommit'[a] = p /\ pointer'[p] = a
  BY <1>1, <1>2, <1>4 DEF ExecStart, Restartable, TypeInv, Shapes
<1>5. ASSUME NEW b \in Attempts, Precommit(b)
      PROVE  \E p \in PlanIds : /\ state'[p] = "SUCCESS"
                                /\ precommit'[a] = p /\ pointer'[p] = a
  <2>1. 0 \notin PlanIds
    BY DEF PlanIds
  <2>2. a \in result /\ a # b
    BY <1>2, <1>5, <2>1 DEF Precommit, FreshEvidence
  <2>3. precommit'[a] = precommit[a] /\ pointer' = pointer
    BY <1>2, <1>5, <2>2 DEF Precommit, index, TypeInv, Shapes
  <2> QED BY <1>1, <1>2, <2>2, <2>3
<1>6. CASE Commit
  BY <1>1, <1>2, <1>6 DEF Commit, TypeInv, Shapes
<1>7. CASE Publish
  <2>1. CASE a = att
    BY <1>7, <2>1, <1>1 DEF Publish, Prepared, Begun, Published, index, TypeInv,
       Control, Executing
  <2>2. CASE a # att
    BY <1>1, <1>2, <1>7, <2>2 DEF Publish, index
  <2> QED BY <2>1, <2>2
<1> QED BY <1>3, <1>4, <1>5, <1>6, <1>7, EvidenceFrame

\* A published result is always that of a committed plan, and the one its row
\* names, under every fault: retries neither publish early nor publish twice.
THEOREM ResultAfterCommitAlways == Spec => []ResultAfterCommit
<1> DEFINE Inv == TypeInv /\ Sealed /\ Begun /\ Prepared /\ ResultAfterCommit
<1>1. Init => Inv
  <2>1. Init => Sealed /\ Begun /\ Prepared /\ ResultAfterCommit
    BY DEF Init, Sealed, Begun, Prepared, ResultAfterCommit, Forward, RollingBack,
       Published
  <2> QED BY InitType, <2>1
<1>2. Inv /\ [Next]_vars => Inv'
  BY TypeStep, ControlStep, SealedStep, BegunStep, PreparedStep, ResultStep DEF TypeInv
<1> QED BY <1>1, <1>2, PTL DEF Spec

-----------------------------------------------------------------------------
(***************************************************************************)
(* SuccessMeansQuarantined, as long as no interrupt hits between the       *)
(* Catalog's commit and `committed = True'.  Its strengthening: targets    *)
(* belong to recorded runs, so that no collection writes their files       *)
(* again; a rollback never holds a committed file; and everything the loop *)
(* has dealt with is in quarantine.                                        *)
(***************************************************************************)
Recorded ==
  /\ \A p \in PlanIds : \A u \in plan[p].targets : run[u] # "none"
  /\ pc \in Collecting => run[collected] = "none"
  /\ \A u \in Units : u > collected => run[u] = "none"

Clean ==
  /\ pc \in RollingBack => state[cur] = "EXECUTING"
  /\ pc \in Forward \union RollingBack =>
       \A i \in 1 .. Len(moved) : \A q \in Committed :
         moved[i] \notin FilesOf(plan[q].targets)
  /\ pc \in {"move", "unlink"} =>
       \A f \in FilesOf(plan[cur].targets) \ todo : f \in quar[cur] /\ f \notin active
  /\ pc = "commit" =>
       \A f \in FilesOf(plan[cur].targets) : f \in quar[cur] /\ f \notin active

\* A plan selects pairs of recorded runs only.
LEMMA SelectedRecorded ==
  ASSUME NEW policy \in Policies, NEW K \in SUBSET Keys,
         NEW u \in Selected(policy, K).targets
  PROVE  run[u] # "none"
<1>1. CASE policy = "EXACT_SCOPE"
  BY <1>1 DEF Selected, ExactContent, ExactTargets, Historical
<1>2. CASE policy # "EXACT_SCOPE"
  BY <1>2 DEF Selected, SupersededContent, Complete, Historical
<1> QED BY <1>1, <1>2

LEMMA RecordedStep == TypeInv /\ Recorded /\ [Next]_vars => Recorded'
<1> SUFFICES ASSUME TypeInv, Recorded, [Next]_vars PROVE Recorded'
  OBVIOUS
<1> USE DEF archive, catalog, plans, index, local
<1>1. \A p \in PlanIds : \A u \in plan'[p].targets : run'[u] # "none"
  <2>1. \A u \in Units : run[u] # "none" => run'[u] # "none"
    <3>1. CASE RecordRun
      BY <3>1 DEF RecordRun, TypeInv, Shapes
    <3> QED BY <3>1, RunFrame
  <2>2. ASSUME NEW p \in PlanIds, NEW u \in plan'[p].targets
        PROVE  run[u] # "none"
    <3>1. ASSUME NEW policy \in Policies, NEW K \in SUBSET Keys, NEW q \in PlanIds,
                 SealPlan(policy, K, q) \/ SealTorn(policy, K, q)
          PROVE  run[u] # "none"
      <4>1. plan' = [plan EXCEPT ![q] = Selected(policy, K)]
        BY <3>1 DEF SealPlan, SealTorn, WritePlan
      <4>2. CASE p = q
        <5>1. plan'[p] = Selected(policy, K)
          BY <4>1, <4>2 DEF TypeInv, Shapes
        <5> QED BY <2>2, <5>1, SelectedRecorded
      <4>3. CASE p # q
        BY <2>2, <4>1, <4>3 DEF TypeInv, Shapes, Recorded
      <4> QED BY <4>2, <4>3
    <3> QED BY <2>2, <3>1, PlanFrame DEF Recorded
  <2>3. \A p \in PlanIds : plan'[p].targets \subseteq Units
    BY TypeStep DEF Shapes, Content
  <2> QED BY <2>1, <2>2, <2>3
<1>2. /\ pc' \in Collecting => run'[collected'] = "none"
      /\ \A u \in Units : u > collected' => run'[u] = "none"
  <2> USE DEF Collecting
  <2>1. ASSUME NEW k \in Keys, NEW q \in BOOLEAN, CollectStart(k, q)
        PROVE  <1>2
    <3>1. collected' = collected + 1 /\ collected' \in Units /\ run' = run
      BY <2>1, BoundAssumption DEF CollectStart, NextUnit, TypeInv, Shapes, Units
    <3>2. collected \in Int /\ \A u \in Units : u \in Int
      BY DEF TypeInv, Shapes, Units
    <3> QED BY <3>1, <3>2 DEF Recorded
  <2>2. CASE WriteRaw \/ WriteCurated \/ RegisterPair \/ SymbolFails \/ CollectAborts
    BY <2>2 DEF WriteRaw, WriteCurated, WriteFile, RegisterPair, SymbolFails,
       CollectAborts, Recorded
  <2>3. CASE RecordRun
    <3>1. collected' = collected /\ pc' = "idle" /\ collected \in Units
      BY <2>3 DEF RecordRun, TypeInv, Control
    <3>2. \A u \in Units : u > collected => run'[u] = run[u]
      BY <2>3, <3>1 DEF RecordRun, TypeInv, Shapes, Units
    <3> QED BY <3>1, <3>2 DEF Recorded
  <2>4. CASE pc' \notin Collecting /\ UNCHANGED <<run, collected>>
    BY <2>4 DEF Recorded
  <2>5. CASE Plan
    BY <2>4, <2>5 DEF Plan, SealAgain, SealPlan, SealTorn, WritePlan, IndexPlan,
       IndexFails
  <2>6. CASE Execute
    BY <2>4, <2>6 DEF Execute, ExecStart, ExecAgain, Verify, Drift, Keep, Rename, Link,
       Unlink, UnlinkFails, Precommit, Commit, Mark, CommitInterrupted, Publish,
       PublishFails, Error, RollbackRename, RollbackLink, RollbackUnlink,
       RollbackFails, Fail, FailUnrecorded, Abort
  <2>7. CASE Crash \/ OperatorClears
    BY <2>4, <2>7 DEF Crash, OperatorClears
  <2>8. CASE UNCHANGED vars
    BY <2>8 DEF vars, Recorded
  <2> QED BY <2>1, <2>2, <2>3, <2>5, <2>6, <2>7, <2>8 DEF Next, Collect
<1> QED BY <1>1, <1>2 DEF Recorded

LEMMA CleanStep ==
  TypeInv /\ Begun /\ Clean /\ SuccessMeansQuarantined
    /\ "commit_interrupt" \notin Faults /\ [Next]_vars => Clean'
<1> SUFFICES ASSUME TypeInv, Begun, Clean, SuccessMeansQuarantined,
                    "commit_interrupt" \notin Faults, [Next]_vars
             PROVE  Clean'
  OBVIOUS
<1> USE DEF archive, catalog, plans, index, local, Forward, RollingBack
<1>0. moved \in Seq(Files) /\ (pc = "idle" => moved = <<>>)
  BY DEF TypeInv, Shapes, Control, Executing, Published
<1>1. ASSUME pc' \notin Forward \union RollingBack
      PROVE  Clean'
  BY <1>1 DEF Clean
<1>2. CASE Collect
  BY <1>1, <1>2 DEF Collect, CollectStart, WriteRaw, WriteCurated, WriteFile,
     RegisterPair, SymbolFails, RecordRun, CollectAborts
<1>3. CASE Plan
  BY <1>1, <1>3 DEF Plan, SealAgain, SealPlan, SealTorn, IndexPlan, IndexFails
<1>4. CASE Publish \/ PublishFails \/ Commit \/ Mark \/ Fail \/ FailUnrecorded \/ Abort
           \/ Crash \/ OperatorClears \/ CommitInterrupted
  BY <1>1, <1>4 DEF Publish, PublishFails, Commit, Mark, Fail, FailUnrecorded, Abort,
     Crash, OperatorClears, CommitInterrupted
<1>5. ASSUME NEW p \in PlanIds, ExecStart(p) \/ ExecAgain(p)
      PROVE  Clean'
  BY <1>0, <1>1, <1>5 DEF ExecStart, ExecAgain, Clean
<1>6. CASE Verify \/ Drift \/ UnlinkFails \/ Error
  BY <1>6 DEF Verify, Drift, UnlinkFails, Error, Uncommitted, Clean, Begun, Committed
<1>7. ASSUME NEW f \in Files, Keep(f)
      PROVE  Clean'
  BY <1>7 DEF Keep, InQuarantine, Clean, Committed
<1>8. ASSUME NEW f \in Files, Rename(f) \/ Link(f)
      PROVE  Clean'
  <2>1. /\ Len(moved') = Len(moved) + 1 /\ moved'[Len(moved')] = f
        /\ \A i \in 1 .. Len(moved) : moved'[i] = moved[i]
    BY <1>0, <1>8 DEF Rename, Link
  <2>2. \A q \in Committed : f \notin FilesOf(plan[q].targets)
    BY <1>8 DEF Rename, Link, SuccessMeansQuarantined
  <2>3. \A i \in 1 .. Len(moved') : \A q \in Committed :
          moved'[i] \notin FilesOf(plan[q].targets)
    BY <1>0, <1>8, <2>1, <2>2 DEF Rename, Link, Clean
  <2>4. cur \in PlanIds
    BY <1>8 DEF Rename, Link, TypeInv, Control, Executing
  <2>5. CASE Rename(f)
    <3>1. \A g \in FilesOf(plan[cur].targets) \ todo' : g \in quar'[cur] /\ g \notin active'
      BY <2>4, <2>5 DEF Rename, Clean, TypeInv, Shapes
    <3> QED BY <2>3, <2>5, <3>1 DEF Rename, Clean, Committed
  <2>6. CASE Link(f)
    <3>1. \A g \in FilesOf(plan[cur].targets) \ todo' : g \in quar'[cur] /\ g \notin active'
      BY <2>4, <2>6 DEF Link, Clean, TypeInv, Shapes
    <3> QED BY <2>3, <2>6, <3>1 DEF Link, Clean, Committed
  <2> QED BY <1>8, <2>5, <2>6
<1>9. CASE Unlink
  BY <1>9 DEF Unlink, Clean, Begun, Committed
<1>10. ASSUME NEW a \in Attempts, Precommit(a)
       PROVE  Clean'
  BY <1>10 DEF Precommit, AllMoved, Clean, Committed
<1>11. CASE RollbackLink
  BY <1>11 DEF RollbackLink, Clean, Committed
<1>12. CASE RollbackRename \/ RollbackUnlink \/ RollbackFails
  <2>1. moved # <<>> /\ moved' = Undone
    BY <1>12 DEF RollbackRename, RollbackUnlink, RollbackFails, TypeInv, Control
  <2>2. /\ Len(moved') = Len(moved) - 1
        /\ \A i \in 1 .. Len(moved') : moved'[i] = moved[i]
    BY <1>0, <2>1, UndoneElements DEF Undone
  <2>3. pc \in RollingBack /\ pc' = "rollback" /\ UNCHANGED <<state, plan, cur>>
    BY <1>12 DEF RollbackRename, RollbackUnlink, RollbackFails
  <2>4. \A i \in 1 .. Len(moved') : \A q \in Committed :
          moved'[i] \notin FilesOf(plan[q].targets)
    BY <1>0, <2>2, <2>3 DEF Clean
  <2> QED BY <2>3, <2>4 DEF Clean, Committed
<1>13. CASE UNCHANGED vars
  BY <1>13 DEF vars, Clean, Committed
<1> HIDE DEF archive, catalog, plans, index, local, Forward, RollingBack
<1>14. CASE Execute
  BY <1>4, <1>5, <1>6, <1>7, <1>8, <1>9, <1>10, <1>11, <1>12, <1>14 DEF Execute
<1> QED BY <1>2, <1>3, <1>4, <1>13, <1>14 DEF Next

LEMMA SuccessStep ==
  TypeInv /\ Sealed /\ Begun /\ Recorded /\ Clean /\ SuccessMeansQuarantined
    /\ [Next]_vars => SuccessMeansQuarantined'
<1> SUFFICES ASSUME TypeInv, Sealed, Begun, Recorded, Clean, SuccessMeansQuarantined,
                    [Next]_vars, NEW q \in PlanIds, state'[q] = "SUCCESS",
                    NEW f \in FilesOf(plan'[q].targets)
             PROVE  f \in quar'[q] /\ f \notin active'
  BY DEF SuccessMeansQuarantined, Committed
<1>1. CASE state[q] # "SUCCESS"
  \* Only Commit makes a plan SUCCESS, and then every file is in place.
  <2>1. Commit /\ q = cur
    <3>1. CASE IndexPlan
      BY <1>1, <3>1 DEF IndexPlan, TypeInv, Shapes
    <3>2. ASSUME NEW p \in PlanIds, ExecStart(p) PROVE FALSE
      BY <1>1, <3>2 DEF ExecStart, TypeInv, Shapes
    <3>3. CASE Fail
      BY <1>1, <3>3 DEF Fail, TypeInv, Shapes
    <3>4. CASE Commit
      BY <1>1, <3>4 DEF Commit, TypeInv, Shapes
    <3> QED BY <1>1, <3>1, <3>2, <3>3, <3>4, StateFrame
  <2> QED BY <2>1 DEF Commit, plans, archive, Clean
<1>2. CASE state[q] = "SUCCESS"
  <2>1. q \in Committed /\ plan'[q] = plan[q]
    BY <1>2, BegunStays DEF Committed
  <2>2. f \in quar[q] /\ f \notin active /\ f[1] \in plan[q].targets
    BY <2>1 DEF SuccessMeansQuarantined, FilesOf
  <2>3. CASE UNCHANGED archive
    BY <2>2, <2>3 DEF archive
  <2>4. CASE WriteRaw \/ WriteCurated
    <3>1. f[1] # collected
      BY <2>2, <2>4 DEF WriteRaw, WriteCurated, WriteFile, Recorded, Collecting
    <3> QED BY <2>2, <2>4, <3>1 DEF WriteRaw, WriteCurated, WriteFile
  <2>5. ASSUME NEW g \in Files, Rename(g) \/ Link(g)
        PROVE  f \in quar'[q] /\ f \notin active'
    BY <2>2, <2>5 DEF Rename, Link, TypeInv, Shapes
  <2>6. CASE Unlink
    BY <2>2, <2>6 DEF Unlink
  <2>7. CASE RollbackRename \/ RollbackLink \/ RollbackUnlink
    <3>1. pc \in RollingBack /\ moved # <<>> /\ moved \in Seq(Files)
      BY <2>7 DEF RollbackRename, RollbackLink, RollbackUnlink, RollingBack, TypeInv,
         Shapes, Control
    <3>2. Len(moved) \in 1 .. Len(moved)
      BY <3>1
    <3>3. Last \notin FilesOf(plan[q].targets)
      BY <2>1, <3>1, <3>2 DEF Clean, Last
    <3>4. f # Last
      BY <2>1, <3>3
    <3> QED
      BY <2>2, <2>7, <3>4 DEF RollbackRename, RollbackLink, RollbackUnlink, TypeInv,
         Shapes
  <2> QED BY <2>3, <2>4, <2>5, <2>6, <2>7, ArchiveFrame
<1> QED BY <1>1, <1>2

PurgeInv ==
  /\ TypeInv /\ Sealed /\ Begun /\ Recorded /\ Clean /\ SuccessMeansQuarantined

LEMMA PurgeInvInit == Init => PurgeInv
<1>1. Init => Sealed /\ Begun /\ Recorded /\ Clean /\ SuccessMeansQuarantined
  BY DEF Init, Sealed, Begun, Recorded, Clean, SuccessMeansQuarantined, Committed,
     NoContent, Forward, RollingBack, Published, Collecting
<1> QED BY InitType, <1>1 DEF PurgeInv

LEMMA PurgeInvStep ==
  PurgeInv /\ "commit_interrupt" \notin Faults /\ [Next]_vars => PurgeInv'
BY TypeStep, ControlStep, SealedStep, BegunStep, RecordedStep, CleanStep, SuccessStep
   DEF TypeInv, PurgeInv

\* A SUCCESS row is true: the whole selection is in quarantine and none of it is
\* active, at every moment, whatever crashes, errors or failed rollbacks occur,
\* provided `committed = True' is reached whenever the Catalog has committed.
THEOREM SuccessTruthful ==
  ASSUME "commit_interrupt" \notin Faults
  PROVE  Spec => []SuccessMeansQuarantined
<1>1. PurgeInv /\ [Next]_vars => PurgeInv'
  BY PurgeInvStep
<1>2. PurgeInv => SuccessMeansQuarantined
  BY DEF PurgeInv
<1> QED BY PurgeInvInit, <1>1, <1>2, PTL DEF Spec

\* The quarantine of a committed plan never changes again, under the same
\* condition.
THEOREM QuarantineSettles ==
  ASSUME "commit_interrupt" \notin Faults
  PROVE  Spec => QuarantineSettled
<1>1. PurgeInv /\ [Next]_vars => PurgeInv'
  BY PurgeInvStep
<1>2. PurgeInv /\ [Next]_vars
        => [\A p \in PlanIds : state[p] = "SUCCESS" => quar'[p] = quar[p]]_vars
  <2> SUFFICES ASSUME PurgeInv, [Next]_vars, NEW p \in PlanIds, state[p] = "SUCCESS"
               PROVE  quar'[p] = quar[p]
    OBVIOUS
  <2>1. pc \in Forward \union RollingBack => cur \in PlanIds /\ p # cur
    BY DEF PurgeInv, TypeInv, Control, Executing, Begun, Clean
  <2>2. CASE UNCHANGED archive \/ WriteRaw \/ WriteCurated \/ Unlink \/ RollbackLink
    BY <2>2 DEF archive, WriteRaw, WriteCurated, WriteFile, Unlink, RollbackLink
  <2>3. ASSUME NEW f \in Files, Rename(f) \/ Link(f)
        PROVE  quar'[p] = quar[p]
    BY <2>1, <2>3 DEF Rename, Link, Forward, PurgeInv, TypeInv, Shapes
  <2>4. CASE RollbackRename \/ RollbackUnlink
    BY <2>1, <2>4 DEF RollbackRename, RollbackUnlink, RollingBack, PurgeInv, TypeInv,
       Shapes
  <2> QED BY <2>2, <2>3, <2>4, ArchiveFrame
<1> QED BY PurgeInvInit, <1>1, <1>2, PTL DEF Spec, QuarantineSettled

-----------------------------------------------------------------------------
(***************************************************************************)
(* OneClaim and the refinement of PurgeLedger, where a move is one rename. *)
(* Their strengthening: a quarantine holds only selected files of a begun  *)
(* plan, and a file has one place.                                         *)
(***************************************************************************)
Held ==
  \A p \in PlanIds : quar[p] # {} =>
    /\ state[p] \in {"EXECUTING", "FAILED", "SUCCESS"}
    /\ quar[p] \subseteq FilesOf(plan[p].targets)

Placed ==
  \A p \in PlanIds : \A f \in quar[p] :
    f \notin active /\ \A q \in PlanIds : f \in quar[q] => q = p

LEMMA HeldStep == TypeInv /\ Sealed /\ Begun /\ Held /\ [Next]_vars => Held'
<1> SUFFICES ASSUME TypeInv, Sealed, Begun, Held, [Next]_vars,
                    NEW p \in PlanIds, quar'[p] # {}
             PROVE  /\ state'[p] \in {"EXECUTING", "FAILED", "SUCCESS"}
                    /\ quar'[p] \subseteq FilesOf(plan'[p].targets)
  BY DEF Held
<1>1. SUFFICES /\ state[p] \in {"EXECUTING", "FAILED", "SUCCESS"}
               /\ quar'[p] \subseteq FilesOf(plan[p].targets)
  BY BegunStays
<1>2. CASE UNCHANGED archive \/ WriteRaw \/ WriteCurated \/ Unlink \/ RollbackLink
  BY <1>2 DEF archive, WriteRaw, WriteCurated, WriteFile, Unlink, RollbackLink, Held
<1>3. ASSUME NEW f \in Files, Rename(f) \/ Link(f)
      PROVE  <1>1!1
  <2>1. state[cur] = "EXECUTING" /\ f \in FilesOf(plan[cur].targets)
    BY <1>3 DEF Rename, Link, NextUp, Begun, Forward
  <2>2. quar'[p] = IF p = cur THEN quar[p] \union {f} ELSE quar[p]
    BY <1>3 DEF Rename, Link, TypeInv, Shapes
  <2> QED BY <2>1, <2>2 DEF Held
<1>4. CASE RollbackRename \/ RollbackUnlink
  <2>1. quar'[p] \subseteq quar[p]
    BY <1>4 DEF RollbackRename, RollbackUnlink, TypeInv, Shapes
  <2> QED BY <2>1 DEF Held
<1> QED BY <1>2, <1>3, <1>4, ArchiveFrame

LEMMA PlacedStep ==
  AtomicRename /\ TypeInv /\ Recorded /\ Held /\ Placed /\ [Next]_vars => Placed'
<1> SUFFICES ASSUME AtomicRename, TypeInv, Recorded, Held, Placed, [Next]_vars
             PROVE  Placed'
  OBVIOUS
<1>1. CASE UNCHANGED archive
  BY <1>1 DEF archive, Placed
<1>2. CASE WriteRaw \/ WriteCurated
  \* The file written belongs to a run without a row, which no plan selects.
  <2>1. PICK layer \in Layers : active' = active \union {<<collected, layer>>}
    BY <1>2 DEF WriteRaw, WriteCurated, WriteFile, Layers
  <2>2. run[collected] = "none" /\ UNCHANGED quar
    BY <1>2 DEF WriteRaw, WriteCurated, WriteFile, Recorded, Collecting
  <2>3. \A p \in PlanIds : \A f \in quar[p] : run[f[1]] # "none"
    BY DEF Held, Recorded, FilesOf
  <2> QED BY <2>1, <2>2, <2>3 DEF Placed
<1>3. ASSUME NEW f \in Files, Rename(f)
      PROVE  Placed'
  <2>1. f \in active /\ active' = active \ {f}
    BY <1>3 DEF Rename
  <2>2. \A p \in PlanIds : quar'[p] = IF p = cur THEN quar[p] \union {f} ELSE quar[p]
    BY <1>3 DEF Rename, TypeInv, Shapes
  <2>3. \A p \in PlanIds : f \notin quar[p]
    BY <2>1 DEF Placed
  <2>4. \A p \in PlanIds : \A g \in quar'[p] : (g = f /\ p = cur) \/ (g # f /\ g \in quar[p])
    BY <2>2, <2>3
  <2>5. ASSUME NEW p \in PlanIds, NEW g \in quar'[p]
        PROVE  g \notin active' /\ \A q \in PlanIds : g \in quar'[q] => q = p
    BY <2>1, <2>4 DEF Placed
  <2> QED BY <2>5 DEF Placed
<1>4. CASE Unlink
  BY <1>4 DEF Unlink, Placed
<1>5. CASE RollbackRename
  <2>1. cur \in PlanIds
    BY <1>5 DEF RollbackRename, TypeInv, Control, Executing, RollingBack
  <2>2. Last \in quar[cur] /\ active' = active \union {Last}
    BY <1>5 DEF RollbackRename
  <2>3. \A p \in PlanIds : quar'[p] = IF p = cur THEN quar[p] \ {Last} ELSE quar[p]
    BY <1>5 DEF RollbackRename, TypeInv, Shapes
  <2> QED BY <2>1, <2>2, <2>3 DEF Placed
<1>6. CASE RollbackUnlink
  <2>1. \A p \in PlanIds : quar'[p] \subseteq quar[p]
    BY <1>6 DEF RollbackUnlink, TypeInv, Shapes
  <2> QED BY <1>6, <2>1 DEF RollbackUnlink, Placed
<1>7. ~RollbackLink /\ \A f \in Files : ~Link(f)
  BY DEF RollbackLink, Link
<1> QED BY <1>1, <1>2, <1>3, <1>4, <1>5, <1>6, <1>7, ArchiveFrame

PlaceInv == PurgeInv /\ Held /\ Placed

LEMMA PlaceInvInit == Init => PlaceInv
<1>1. Init => Held /\ Placed
  BY DEF Init, Held, Placed
<1> QED BY PurgeInvInit, <1>1 DEF PlaceInv

LEMMA PlaceInvStep ==
  AtomicRename /\ "commit_interrupt" \notin Faults /\ PlaceInv /\ [Next]_vars => PlaceInv'
BY PurgeInvStep, HeldStep, PlacedStep DEF PlaceInv, PurgeInv

\* Where every target of a plan is in its quarantine, no other committed plan
\* has selected the same pair.
LEMMA ClaimsApart ==
  ASSUME PlaceInv, NEW p \in PlanIds, NEW q \in Committed, NEW u \in Units,
         u \in plan[q].targets, FilesOf({u}) \subseteq quar[p]
  PROVE  p = q
<1>1. <<u, "raw">> \in quar[p]
  BY DEF FilesOf, Layers
<1>2. <<u, "raw">> \in quar[q]
  BY DEF PlaceInv, PurgeInv, SuccessMeansQuarantined, FilesOf, Layers
<1> QED BY <1>1, <1>2 DEF PlaceInv, Placed, Committed

\* No pair is purged by two committed operations, where a move is one rename and
\* no interrupt separates the Catalog's commit from `committed = True'.
THEOREM OneClaimAlways ==
  ASSUME AtomicRename, "commit_interrupt" \notin Faults
  PROVE  Spec => []OneClaim
<1>1. PlaceInv /\ [Next]_vars => PlaceInv'
  BY PlaceInvStep
<1>2. PlaceInv => OneClaim
  <2> SUFFICES ASSUME PlaceInv, NEW u \in Units, NEW p \in Claims(u), NEW q \in Claims(u)
               PROVE  p = q
    BY DEF OneClaim
  <2>1. p \in Committed /\ q \in Committed /\ u \in plan[p].targets /\ u \in plan[q].targets
    BY DEF Claims
  <2>2. FilesOf({u}) \subseteq quar[p]
    BY <2>1 DEF PlaceInv, PurgeInv, SuccessMeansQuarantined, FilesOf
  <2> QED BY <2>1, <2>2, ClaimsApart DEF Committed
<1> QED BY PlaceInvInit, <1>1, <1>2, PTL DEF Spec

-----------------------------------------------------------------------------
(***************************************************************************)
(* The refinement of PurgeLedger.                                          *)
(***************************************************************************)
Stored    == {u \in registered : run[u] # "none"}
Reviewed  == {p \in PlanIds : planFile[p] = "sealed"}
Selection == [p \in PlanIds |-> IF planFile[p] = "sealed" THEN plan[p].targets ELSE {}]
Reported  == {precommit[a] : a \in result}

\* The ledger as those abbreviations give it.
Shown == <<Stored, Reviewed, Selection, Committed, Reported>>

LEMMA ShownIsLedger == Shown = Ledger!vars /\ (Shown' = Ledger!vars')
BY DEF Shown, Stored, Reviewed, Selection, Reported, Ledger!vars

\* A step of the ledger in the same terms.
ShownStep ==
  \/ Shown' = Shown
  \/ /\ \E u \in Units : Stored' = Stored \union {u}
     /\ UNCHANGED <<Reviewed, Selection, Committed, Reported>>
  \/ \E p \in PlanIds, S \in SUBSET Stored :
       /\ p \notin Reviewed /\ Reviewed' = Reviewed \union {p}
       /\ S \subseteq Stored \ UNION {Selection[q] : q \in Committed}
       /\ Selection' = [Selection EXCEPT ![p] = S]
       /\ UNCHANGED <<Stored, Committed, Reported>>
  \/ \E p \in PlanIds :
       /\ p \in Reviewed \ Committed
       /\ Selection[p] \cap UNION {Selection[q] : q \in Committed} = {}
       /\ Committed' = Committed \union {p}
       /\ UNCHANGED <<Stored, Reviewed, Selection, Reported>>
  \/ \E p \in PlanIds :
       /\ p \in Committed /\ Reported' = Reported \union {p}
       /\ UNCHANGED <<Stored, Reviewed, Selection, Committed>>

LEMMA ShownStepIsLedger == ShownStep => [Ledger!Next]_Ledger!vars
<1> SUFFICES ASSUME ShownStep PROVE Shown' = Shown \/ Ledger!Next
  BY ShownIsLedger
<1> QED
  BY DEF ShownStep, Stored, Reviewed, Selection, Reported, Ledger!Next, Ledger!Store,
     Ledger!Review, Ledger!Purge, Ledger!Report, Ledger!Gone

\* The actions that touch what the ledger shows.
LEMMA LedgerFrame ==
  ASSUME [Next]_vars
  PROVE  \/ UNCHANGED <<registered, run, plans, state, precommit, result>>
         \/ RegisterPair \/ RecordRun
         \/ (\E policy \in Policies, K \in SUBSET Keys, p \in PlanIds :
               SealPlan(policy, K, p) \/ SealTorn(policy, K, p))
         \/ IndexPlan \/ (\E p \in PlanIds : ExecStart(p)) \/ Fail
         \/ (\E a \in Attempts : Precommit(a)) \/ Commit \/ Publish
<1> USE DEF archive, catalog, plans, index, local
<1>1. CASE Collect
  BY <1>1 DEF Collect, CollectStart, WriteRaw, WriteCurated, WriteFile, SymbolFails,
     CollectAborts
<1>2. CASE Plan
  BY <1>2 DEF Plan, SealAgain, IndexFails
<1>3. CASE Execute
  BY <1>3 DEF Execute, ExecAgain, Verify, Drift, Keep, Rename, Link, Unlink,
     UnlinkFails, Mark, CommitInterrupted, PublishFails, Error, RollbackRename,
     RollbackLink, RollbackUnlink, RollbackFails, FailUnrecorded, Abort
<1> QED
  BY <1>1, <1>2, <1>3 DEF Next, Crash, OperatorClears, vars

\* A plan selects recorded pairs that no committed plan has claimed: each of them
\* has an active file at the time.
LEMMA SelectedFree ==
  ASSUME PlaceInv, NEW policy \in Policies, NEW K \in SUBSET Keys,
         NEW u \in Selected(policy, K).targets
  PROVE  u \in Stored /\ \A p \in Committed : u \notin plan[p].targets
<1>1. u \in registered /\ run[u] # "none" /\ <<u, "curated">> \in active
  <2>1. CASE policy = "EXACT_SCOPE"
    <3>1. u \in Historical(K) /\ BothActive(u)
      BY <2>1 DEF Selected, ExactContent, ExactTargets
    <3> QED BY <3>1 DEF Historical, BothActive, FilesOf, Layers
  <2>2. CASE policy # "EXACT_SCOPE"
    <3>1. PICK k \in K : u \in Complete(k)
      BY <2>2 DEF Selected, SupersededContent
    <3> QED BY <3>1 DEF Complete, Historical
  <2> QED BY <2>1, <2>2
<1>2. \A p \in Committed : u \in plan[p].targets => <<u, "curated">> \notin active
  BY DEF PlaceInv, PurgeInv, SuccessMeansQuarantined, FilesOf, Layers
<1> QED BY <1>1, <1>2 DEF Stored

LEMMA LedgerStep ==
  ASSUME PlaceInv, Prepared, ResultAfterCommit, [Next]_vars
  PROVE  ShownStep
<1> USE DEF PlaceInv, PurgeInv
<1>0. /\ \A p \in Committed : planFile[p] = "sealed"
      /\ UNION {Selection[p] : p \in Committed} = UNION {plan[p].targets : p \in Committed}
  <2>1. \A p \in Committed : planFile[p] = "sealed"
    BY DEF Committed, Sealed
  <2>2. \A p \in Committed : Selection[p] = plan[p].targets
    BY <2>1 DEF Selection, Committed
  <2> QED BY <2>1, <2>2
<1>1. ASSUME NEW policy \in Policies, NEW K \in SUBSET Keys, NEW p \in PlanIds,
             SealPlan(policy, K, p)
      PROVE  ShownStep
  <2> DEFINE S == Selected(policy, K).targets
  <2>1. /\ planFile[p] = "absent" /\ planFile' = [planFile EXCEPT ![p] = "sealed"]
        /\ plan' = [plan EXCEPT ![p] = Selected(policy, K)]
        /\ UNCHANGED <<registered, run, state, precommit, result>>
    BY <1>1 DEF SealPlan, WritePlan, FirstFree, catalog, index
  <2>2. S \subseteq Stored /\ \A q \in Committed : S \cap plan[q].targets = {}
    BY SelectedFree
  <2> HIDE DEF S
  <2>3. S \subseteq Stored \ UNION {Selection[q] : q \in Committed}
    BY <1>0, <2>2
  <2>4. p \notin Reviewed /\ Reviewed' = Reviewed \union {p}
    BY <2>1 DEF Reviewed, TypeInv, Shapes
  <2>5. Selection' = [Selection EXCEPT ![p] = S]
    BY <2>1 DEF Selection, S, TypeInv, Shapes
  <2>6. Stored' = Stored /\ Committed' = Committed /\ Reported' = Reported
    BY <2>1 DEF Stored, Committed, Reported
  <2> QED BY <2>2, <2>3, <2>4, <2>5, <2>6 DEF ShownStep
<1>2. ASSUME NEW policy \in Policies, NEW K \in SUBSET Keys, NEW p \in PlanIds,
             SealTorn(policy, K, p)
      PROVE  Shown' = Shown
  <2>1. /\ planFile[p] = "absent" /\ planFile' = [planFile EXCEPT ![p] = "torn"]
        /\ plan' = [plan EXCEPT ![p] = Selected(policy, K)]
        /\ UNCHANGED <<registered, run, state, precommit, result>>
    BY <1>2 DEF SealTorn, WritePlan, FirstFree, catalog, index
  <2>2. Reviewed' = Reviewed /\ Selection' = Selection
    BY <2>1 DEF Reviewed, Selection, TypeInv, Shapes
  <2> QED BY <2>1, <2>2 DEF Shown, Stored, Committed, Reported
<1>3. CASE RegisterPair
  <2>1. Stored' = Stored
    BY <1>3 DEF RegisterPair, Stored, Recorded, Collecting
  <2>2. Shown' = Shown
    BY <1>3, <2>1 DEF RegisterPair, plans, index, Shown, Reviewed, Selection, Committed,
       Reported
  <2> QED BY <2>2 DEF ShownStep
<1>4. CASE RecordRun
  <2>1. UNCHANGED <<registered, plans, state, precommit, result>>
    BY <1>4 DEF RecordRun, plans, index
  <2>2. /\ collected \in Units /\ run[collected] = "none"
        /\ \A u \in Units : run'[u] # "none" <=> u = collected \/ run[u] # "none"
    BY <1>4 DEF RecordRun, TypeInv, Control, Collecting, Shapes, Recorded
  <2>3. UNCHANGED <<Reviewed, Selection, Committed, Reported>>
    BY <2>1 DEF plans, Reviewed, Selection, Committed, Reported
  <2>4. CASE collected \in registered
    <3>1. Stored' = Stored \union {collected}
      BY <2>1, <2>2, <2>4 DEF Stored, TypeInv, Shapes
    <3> QED BY <2>2, <2>3, <3>1 DEF ShownStep
  <2>5. CASE collected \notin registered
    <3>1. Stored' = Stored
      BY <2>1, <2>2, <2>5 DEF Stored, TypeInv, Shapes
    <3> QED BY <2>3, <3>1 DEF ShownStep, Shown
  <2> QED BY <2>4, <2>5
<1>5. CASE IndexPlan \/ Fail \/ \E p \in PlanIds : ExecStart(p)
  <2>1. UNCHANGED <<registered, run, plans, precommit, result>>
    BY <1>5 DEF IndexPlan, Fail, ExecStart, catalog, plans
  <2>2. \A p \in PlanIds : state'[p] = "SUCCESS" <=> state[p] = "SUCCESS"
    BY <1>5 DEF IndexPlan, Fail, ExecStart, Restartable, TypeInv, Shapes
  <2>3. Shown' = Shown
    BY <2>1, <2>2 DEF Shown, plans, Stored, Reviewed, Selection, Committed, Reported
  <2> QED BY <2>3 DEF ShownStep
<1>6. ASSUME NEW a \in Attempts, Precommit(a)
      PROVE  Shown' = Shown
  \* The attempt is fresh: no published result is its own.
  <2>1. UNCHANGED <<registered, run, plans, state, result>> /\ precommit[a] = 0
        /\ precommit' = [precommit EXCEPT ![a] = cur]
    BY <1>6 DEF Precommit, FreshEvidence, catalog, plans, index
  <2>2. \A b \in result : precommit[b] # 0 
    BY DEF ResultAfterCommit, Committed, PlanIds
  <2> QED BY <2>1, <2>2 DEF Shown, plans, Stored, Reviewed, Selection, Committed, Reported,
     TypeInv, Shapes
<1>7. CASE Commit
  <2>1. /\ cur \in PlanIds /\ state[cur] = "EXECUTING" /\ pc = "commit"
        /\ state' = [state EXCEPT ![cur] = "SUCCESS"]
        /\ UNCHANGED <<registered, run, plans, precommit, result>>
    BY <1>7 DEF Commit, catalog, TypeInv, Control, Executing, Forward
  <2>2. Committed' = Committed \union {cur} /\ cur \notin Committed
    BY <2>1 DEF Committed, TypeInv, Shapes
  <2>3. planFile[cur] = "sealed"
    BY <2>1 DEF Sealed
  <2>4. Selection[cur] = plan[cur].targets /\ cur \in Reviewed
    BY <2>1, <2>3 DEF Selection, Reviewed
  <2>5. ASSUME NEW q \in Committed, NEW u \in plan[cur].targets, u \in plan[q].targets
        PROVE  FALSE
    <3>1. u \in Units
      BY <2>1 DEF TypeInv, Shapes, Content
    <3>2. FilesOf({u}) \subseteq quar[cur]
      BY <2>1 DEF Clean, FilesOf
    <3> QED BY <2>1, <2>2, <2>5, <3>1, <3>2, ClaimsApart
  <2>6. Selection[cur] \cap UNION {Selection[q] : q \in Committed} = {}
    BY <1>0, <2>4, <2>5
  <2>7. UNCHANGED <<Stored, Reviewed, Selection, Reported>>
    BY <2>1 DEF plans, Stored, Reviewed, Selection, Reported
  <2> QED BY <2>1, <2>2, <2>4, <2>6, <2>7 DEF ShownStep
<1>8. CASE Publish
  <2>1. /\ cur \in Committed /\ cur \in PlanIds /\ precommit[att] = cur
        /\ result' = result \union {att}
        /\ UNCHANGED <<registered, run, plans, state, precommit>>
    BY <1>8 DEF Publish, catalog, index, Prepared, Begun, Published, Committed, TypeInv,
       Control, Executing
  <2>2. Reported' = Reported \union {cur}
    BY <2>1 DEF Reported
  <2>3. UNCHANGED <<Stored, Reviewed, Selection, Committed>>
    BY <2>1 DEF plans, Stored, Reviewed, Selection, Committed
  <2> QED BY <2>1, <2>2, <2>3 DEF ShownStep
<1>9. CASE UNCHANGED <<registered, run, plans, state, precommit, result>>
  <2>1. Shown' = Shown
    BY <1>9 DEF Shown, plans, Stored, Reviewed, Selection, Committed, Reported
  <2> QED BY <2>1 DEF ShownStep
<1> QED
  BY <1>1, <1>2, <1>3, <1>4, <1>5, <1>6, <1>7, <1>8, <1>9, LedgerFrame DEF ShownStep

\* Under the same two conditions the detailed purge implements the ledger: a
\* reviewed selection is fixed, purged as a whole and once, and reported after.
THEOREM LedgerRefinement ==
  ASSUME AtomicRename, "commit_interrupt" \notin Faults
  PROVE  Spec => ImplementsLedger
<1> DEFINE Inv == PlaceInv /\ Prepared /\ ResultAfterCommit
<1>1. Init => Inv
  <2>1. Init => Prepared /\ ResultAfterCommit
    BY DEF Init, Prepared, ResultAfterCommit, Published
  <2> QED BY PlaceInvInit, <2>1
<1>2. Inv /\ [Next]_vars => Inv'
  BY PlaceInvStep, PreparedStep, ResultStep DEF PlaceInv, PurgeInv
<1>3. Init => Ledger!Init
  BY DEF Init, Ledger!Init, Committed
<1>4. Inv /\ [Next]_vars => [Ledger!Next]_Ledger!vars
  BY LedgerStep, ShownStepIsLedger
<1> QED BY <1>1, <1>2, <1>3, <1>4, PTL DEF Spec, ImplementsLedger, Ledger!Spec

-----------------------------------------------------------------------------
(***************************************************************************)
(* ScopeEmptied, under every fault: what the verification found of the     *)
(* scope is still to be dealt with, and nothing joins it.                  *)
(***************************************************************************)
Emptying ==
  /\ pc \in {"move", "unlink"} /\ plan[cur].policy = "EXACT_SCOPE" =>
       \A f \in active : key[f[1]] \in plan[cur].scope => f \in todo
  /\ pc = "commit" /\ plan[cur].policy = "EXACT_SCOPE" =>
       \A f \in active : key[f[1]] \notin plan[cur].scope

\* Only Commit makes a plan SUCCESS.
LEMMA OnlyCommit ==
  ASSUME TypeInv, [Next]_vars, NEW p \in PlanIds, state[p] # "SUCCESS",
         state'[p] = "SUCCESS"
  PROVE  Commit /\ p = cur
<1>1. ~IndexPlan
  BY DEF IndexPlan, TypeInv, Shapes
<1>2. ASSUME NEW q \in PlanIds, ExecStart(q) PROVE FALSE
  BY <1>2 DEF ExecStart, TypeInv, Shapes
<1>3. ~Fail
  BY DEF Fail, TypeInv, Shapes
<1>4. Commit => p = cur
  BY DEF Commit, TypeInv, Shapes
<1> QED BY <1>1, <1>2, <1>3, <1>4, StateFrame

LEMMA EmptyingStep == Emptying /\ [Next]_vars => Emptying'
<1> SUFFICES ASSUME Emptying, [Next]_vars PROVE Emptying'
  OBVIOUS
<1> USE DEF archive, catalog, plans, index, local
<1>1. ASSUME pc' \notin {"move", "unlink", "commit"}
      PROVE  Emptying'
  BY <1>1 DEF Emptying
<1>2. CASE Collect
  BY <1>1, <1>2 DEF Collect, CollectStart, WriteRaw, WriteCurated, WriteFile,
     RegisterPair, SymbolFails, RecordRun, CollectAborts
<1>3. CASE Plan
  BY <1>1, <1>3 DEF Plan, SealAgain, SealPlan, SealTorn, IndexPlan, IndexFails
<1>4. ASSUME NEW p \in PlanIds, ExecStart(p) \/ ExecAgain(p)
      PROVE  Emptying'
  BY <1>1, <1>4 DEF ExecStart, ExecAgain
<1>5. CASE Drift \/ UnlinkFails \/ Commit \/ Mark \/ CommitInterrupted \/ Publish
           \/ PublishFails \/ Error \/ Fail \/ FailUnrecorded \/ Abort \/ Crash
           \/ OperatorClears
  BY <1>1, <1>5 DEF Drift, UnlinkFails, Commit, Mark, CommitInterrupted, Publish,
     PublishFails, Error, Fail, FailUnrecorded, Abort, Crash, OperatorClears
<1>6. CASE RollbackRename \/ RollbackLink \/ RollbackUnlink \/ RollbackFails
  BY <1>1, <1>6 DEF RollbackRename, RollbackLink, RollbackUnlink, RollbackFails
<1>7. CASE Verify
  BY <1>7 DEF Verify, PlanHolds, ExactHolds, Unplanned, Emptying
<1>8. ASSUME NEW f \in Files, Keep(f) \/ Rename(f) \/ Link(f)
      PROVE  Emptying'
  BY <1>8 DEF Keep, Rename, Link, Emptying
<1>9. CASE Unlink
  BY <1>9 DEF Unlink, Emptying
<1>10. ASSUME NEW a \in Attempts, Precommit(a)
       PROVE  Emptying'
  BY <1>10 DEF Precommit, AllMoved, Emptying
<1>11. CASE UNCHANGED vars
  BY <1>11 DEF vars, Emptying
<1> HIDE DEF archive, catalog, plans, index, local
<1>12. CASE Execute
  BY <1>4, <1>5, <1>6, <1>7, <1>8, <1>9, <1>10, <1>12 DEF Execute
<1> QED BY <1>2, <1>3, <1>5, <1>11, <1>12 DEF Next

\* When an exact plan commits, nothing of its reviewed scope is active, under
\* every fault and however often the plan was retried.
THEOREM ScopeEmptiedAlways == Spec => ScopeEmptied
<1> DEFINE Inv == TypeInv /\ Emptying
<1>1. Init => Inv
  BY InitType DEF Init, Emptying
<1>2. Inv /\ [Next]_vars => Inv'
  BY TypeStep, ControlStep, EmptyingStep DEF TypeInv
<1>3. Inv /\ [Next]_vars
        => [\A p \in PlanIds :
              /\ state[p] # "SUCCESS" /\ state'[p] = "SUCCESS"
              /\ plan[p].policy = "EXACT_SCOPE"
              => \A f \in active : key[f[1]] \notin plan[p].scope]_vars
  BY OnlyCommit DEF Commit, Emptying
<1> QED BY <1>1, <1>2, <1>3, PTL DEF Spec, ScopeEmptied

-----------------------------------------------------------------------------
(***************************************************************************)
(* FailureRestores, where no step of the rollback fails and nothing kills  *)
(* or interrupts the process outside the handlers.  Its strengthening:     *)
(* what an uncommitted plan has in quarantine is in moved_this_attempt.    *)
(***************************************************************************)
Returnable ==
  \A p \in PlanIds : state[p] # "SUCCESS" =>
    \A f \in quar[p] : /\ p = cur /\ pc \in Forward \union RollingBack
                       /\ \E i \in 1 .. Len(moved) : moved[i] = f

LEMMA ReturnableStep ==
  TypeInv /\ Sealed /\ Begun /\ Returnable /\ [Next]_vars
    /\ {"crash", "rollback", "abort"} \cap Faults = {} => Returnable'
<1> SUFFICES ASSUME TypeInv, Sealed, Begun, Returnable, [Next]_vars,
                    {"crash", "rollback", "abort"} \cap Faults = {},
                    NEW p \in PlanIds, state'[p] # "SUCCESS", NEW f \in quar'[p]
             PROVE  /\ p = cur' /\ pc' \in Forward \union RollingBack
                    /\ \E i \in 1 .. Len(moved') : moved'[i] = f
  BY DEF Returnable
<1> USE DEF archive, catalog, plans, index, local, Forward, RollingBack
<1> DEFINE Back == /\ p = cur' /\ pc' \in Forward \union RollingBack
                   /\ \E i \in 1 .. Len(moved') : moved'[i] = f
<1>0. state[p] # "SUCCESS" /\ moved \in Seq(Files)
  BY BegunStays DEF TypeInv, Shapes
<1>1. f \in quar[p] => /\ p = cur /\ pc \in Forward \union RollingBack
                       /\ \E i \in 1 .. Len(moved) : moved[i] = f
  BY <1>0 DEF Returnable
<1>2. CASE UNCHANGED <<quar, cur, moved>> /\ pc' \in Forward \union RollingBack
  BY <1>1, <1>2
<1>3. CASE UNCHANGED quar /\ pc \notin Forward \union RollingBack
  BY <1>1, <1>3
<1>4. CASE Collect
  BY <1>3, <1>4 DEF Collect, CollectStart, WriteRaw, WriteCurated, WriteFile,
     RegisterPair, SymbolFails, RecordRun, CollectAborts
<1>5. CASE Plan
  BY <1>3, <1>5 DEF Plan, SealAgain, SealPlan, SealTorn, WritePlan, IndexPlan, IndexFails
<1>6. ASSUME NEW q \in PlanIds, ExecStart(q) \/ ExecAgain(q)
      PROVE  FALSE
  BY <1>3, <1>6, <1>1 DEF ExecStart, ExecAgain
<1>7. CASE Verify \/ Drift \/ UnlinkFails \/ Error \/ Unlink
  BY <1>2, <1>7 DEF Verify, Drift, UnlinkFails, Error, Unlink
<1>8. CASE Mark \/ CommitInterrupted \/ Publish \/ PublishFails
  BY <1>3, <1>8 DEF Mark, CommitInterrupted, Publish, PublishFails
<1>9. ~Abort /\ ~Crash /\ ~FailUnrecorded /\ ~RollbackFails
  BY DEF Abort, Crash, FailUnrecorded, RollbackFails
<1>10. CASE Fail
  BY <1>0, <1>1, <1>10 DEF Fail
<1>11. CASE OperatorClears
  BY <1>3, <1>11 DEF OperatorClears
<1>12. ASSUME NEW g \in Files, Keep(g)
       PROVE  Back
  BY <1>2, <1>12 DEF Keep
<1>13. ASSUME NEW g \in Files, Rename(g) \/ Link(g)
       PROVE  Back
  <2>1. /\ Len(moved') = Len(moved) + 1 /\ moved'[Len(moved')] = g
        /\ \A i \in 1 .. Len(moved) : moved'[i] = moved[i]
    BY <1>0, <1>13 DEF Rename, Link
  <2>2. f \in quar[p] \/ (f = g /\ p = cur)
    BY <1>13 DEF Rename, Link, TypeInv, Shapes
  <2>3. cur' = cur /\ pc' \in Forward
    BY <1>13 DEF Rename, Link
  <2>4. CASE f \in quar[p]
    <3>1. PICK i \in 1 .. Len(moved) : moved[i] = f
      BY <1>1, <2>4
    <3>2. i \in 1 .. Len(moved') /\ moved'[i] = f
      BY <1>0, <2>1, <3>1
    <3> QED BY <1>1, <2>3, <2>4, <3>2
  <2>5. CASE f = g /\ p = cur
    <3>1. Len(moved') \in 1 .. Len(moved')
      BY <1>0, <2>1
    <3> QED BY <2>1, <2>3, <2>5, <3>1
  <2> QED BY <2>2, <2>4, <2>5
<1>14. ASSUME NEW a \in Attempts, Precommit(a)
       PROVE  Back
  BY <1>2, <1>14 DEF Precommit
<1>15. CASE Commit
  BY <1>0, <1>1, <1>15 DEF Commit, TypeInv, Shapes
<1>16. CASE RollbackLink
  BY <1>2, <1>16 DEF RollbackLink
<1>17. CASE RollbackRename \/ RollbackUnlink
  <2>1. moved # <<>> /\ moved' = Undone
    BY <1>17 DEF RollbackRename, RollbackUnlink, TypeInv, Control
  <2>2. /\ Len(moved') = Len(moved) - 1
        /\ \A i \in 1 .. Len(moved') : moved'[i] = moved[i]
    BY <1>0, <2>1, UndoneElements DEF Undone
  <2>3. f \in quar[p] /\ (p = cur => f # Last)
    BY <1>17 DEF RollbackRename, RollbackUnlink, TypeInv, Shapes
  <2>4. PICK i \in 1 .. Len(moved) : moved[i] = f
    BY <1>1, <2>3
  <2>5. i \in 1 .. Len(moved') /\ moved'[i] = f
    BY <1>0, <1>1, <2>2, <2>3, <2>4 DEF Last
  <2>6. cur' = cur /\ pc' \in RollingBack
    BY <1>17 DEF RollbackRename, RollbackUnlink
  <2> QED BY <1>1, <2>3, <2>5, <2>6
<1>18. CASE UNCHANGED vars
  BY <1>1, <1>18 DEF vars
<1> HIDE DEF archive, catalog, plans, index, local, Forward, RollingBack
<1>19. CASE Execute
  BY <1>6, <1>7, <1>8, <1>9, <1>10, <1>12, <1>13, <1>14, <1>15, <1>16, <1>17, <1>19
     DEF Execute
<1> QED BY <1>4, <1>5, <1>9, <1>11, <1>18, <1>19 DEF Next

\* Whenever the lock is free, an operation that did not commit has left nothing in
\* its quarantine: whatever step fails, the rollback puts every file back, as long
\* as it is itself neither killed nor cut short.
THEOREM FailureRestoresAlways ==
  ASSUME {"crash", "rollback", "abort"} \cap Faults = {}
  PROVE  Spec => []FailureRestores
<1> DEFINE Inv == TypeInv /\ Sealed /\ Begun /\ Returnable
<1>1. Init => Inv
  <2>1. Init => Sealed /\ Begun /\ Returnable
    BY DEF Init, Sealed, Begun, Returnable, Forward, RollingBack, Published
  <2> QED BY InitType, <2>1
<1>2. Inv /\ [Next]_vars => Inv'
  BY TypeStep, ControlStep, SealedStep, BegunStep, ReturnableStep DEF TypeInv
<1>3. Inv => FailureRestores
  BY DEF Returnable, FailureRestores, Forward, RollingBack
<1> QED BY <1>1, <1>2, <1>3, PTL DEF Spec

-----------------------------------------------------------------------------
(***************************************************************************)
(* ServedUnchanged, under every fault.  Its strengthening: every target of *)
(* a superseded plan passed and has a retained unit of its key; and while  *)
(* a target may be moved, or moved back, a later sound unit of its key is  *)
(* active that is no target.                                               *)
(***************************************************************************)
\* A nonempty bounded set of numbers has a greatest element.
LEMMA Greatest ==
  ASSUME NEW N \in Nat, NEW S \in SUBSET (1 .. N), S # {}
  PROVE  \E m \in S : \A x \in S : x <= m
<1> DEFINE R == {ss \in Nat \X Nat : ss[1] < ss[2]}
<1>0. IsWellFoundedOn(R, Nat)
  BY NatLessThanWellFounded DEF OpToRel
<1> DEFINE T == {N - x : x \in S}
<1>1. T \subseteq Nat /\ T # {}
  <2>1. \A x \in S : N - x \in Nat
    OBVIOUS
  <2>2. PICK x \in S : TRUE
    OBVIOUS
  <2>3. N - x \in T
    BY <2>2
  <2> QED BY <2>1, <2>3
<1>2. PICK t \in T : \A y \in T : ~(<<y, t>> \in R)
  <2> HIDE DEF R, T
  <2> QED BY <1>0, <1>1, WFMin
<1>3. \A y \in T : ~(y < t)
  BY <1>1, <1>2
<1>4. PICK m \in S : t = N - m
  BY <1>2
<1>5. \A x \in S : x <= m
  <2> SUFFICES ASSUME NEW x \in S PROVE x <= m
    OBVIOUS
  <2>1. N - x \in T
    OBVIOUS
  <2>2. ~(N - x < N - m)
    BY <1>3, <1>4, <2>1
  <2>3. x \in Int /\ m \in Int /\ N \in Int
    OBVIOUS
  <2> QED BY <2>2, <2>3
<1> QED BY <1>5

Passed(u) == u \in Units /\ u \in registered /\ u \in good /\ run[u] = "ok"

Superseded ==
  /\ \A u \in Units : run[u] = "ok" => u \in registered
  /\ \A p \in PlanIds : plan[p].policy = "SUPERSEDED_ONLY" =>
       /\ plan[p].targets \cap plan[p].retained = {}
       /\ \A u \in plan[p].targets \union plan[p].retained : Passed(u)
       /\ \A u \in plan[p].targets : \E v \in plan[p].retained : key[v] = key[u]

Busy == cur # 0 => pc \in Executing \union {"index"}

\* The units that a later sound unit of their key stands before.
Outranked ==
  {u \in Units : \E w \in Units \ plan[cur].targets :
    /\ w > u /\ key[w] = key[u] /\ w \in good /\ run[w] = "ok"
    /\ <<w, "curated">> \in active}

Shadowed ==
  pc \in Executing /\ plan[cur].policy = "SUPERSEDED_ONLY" =>
    /\ pc \in {"move", "unlink"} =>
         \A f \in todo \cap active : f[2] = "curated" => f[1] \in Outranked
    /\ \A i \in 1 .. Len(moved) : moved[i][2] = "curated" => moved[i][1] \in Outranked

\* What the planner seals for superseded snapshots.
LEMMA SupersededSelected ==
  ASSUME TypeInv, NEW K \in SUBSET Keys
  PROVE  /\ SupersededContent(K).targets \cap SupersededContent(K).retained = {}
         /\ \A u \in SupersededContent(K).targets \union SupersededContent(K).retained :
              Passed(u)
         /\ \A u \in SupersededContent(K).targets :
              \E v \in SupersededContent(K).retained : key[v] = key[u]
<1> DEFINE c == SupersededContent(K)
<1>1. /\ c.targets = (UNION {Complete(k) : k \in K}) \ c.retained
      /\ c.retained = UNION {Winners(k) : k \in K}
  BY DEF SupersededContent
<1>2. \A k : \A u \in Complete(k) : Passed(u) /\ key[u] = k
  BY DEF Complete, Historical, Passed, TypeInv, Shapes
<1>3. \A k : Winners(k) \subseteq Complete(k)
  BY DEF Winners
<1> HIDE DEF c
<1>4. ASSUME NEW u \in c.targets
      PROVE  \E v \in c.retained : key[v] = key[u]
  <2>1. PICK k \in K : u \in Complete(k)
    BY <1>1
  <2>2. Complete(k) \in SUBSET (1 .. MaxUnits)
    BY <1>2 DEF Passed, Units
  <2>3. PICK m \in Complete(k) : \A x \in Complete(k) : x <= m
    BY <2>1, <2>2, Greatest, BoundAssumption
  <2>4. m \in Winners(k)
    BY <2>3 DEF Winners
  <2>5. m \in c.retained
    BY <1>1, <2>4
  <2> QED BY <1>2, <2>1, <2>3, <2>5
<1>5. \A u \in c.targets \union c.retained : Passed(u)
  BY <1>1, <1>2, <1>3
<1> QED BY <1>1, <1>4, <1>5 DEF c

LEMMA BusyStep == TypeInv /\ Busy /\ [Next]_vars => Busy'
<1> SUFFICES ASSUME TypeInv, Busy, [Next]_vars, cur' # 0
             PROVE  pc' \in Executing \union {"index"}
  BY DEF Busy
<1> USE DEF archive, catalog, plans, index, local, Busy, Executing, Forward, RollingBack,
    Published
<1>1. CASE Collect
  BY <1>1 DEF Collect, CollectStart, WriteRaw, WriteCurated, WriteFile, RegisterPair,
     SymbolFails, RecordRun, CollectAborts
<1>2. CASE Plan
  BY <1>2 DEF Plan, SealAgain, SealPlan, SealTorn, IndexPlan, IndexFails, Leave
<1>3. CASE Execute
  BY <1>3 DEF Execute, ExecStart, ExecAgain, Verify, Drift, Keep, Rename, Link, Unlink,
     UnlinkFails, Precommit, Commit, Mark, CommitInterrupted, Publish, PublishFails,
     Error, RollbackRename, RollbackLink, RollbackUnlink, RollbackFails, Fail,
     FailUnrecorded, Abort, Leave
<1>4. CASE Crash \/ OperatorClears
  BY <1>4 DEF Crash, OperatorClears, Leave
<1> QED BY <1>1, <1>2, <1>3, <1>4 DEF Next, vars

LEMMA CatalogFrame ==
  ASSUME [Next]_vars
  PROVE  \/ UNCHANGED catalog
         \/ (\E k \in Keys, q \in BOOLEAN : CollectStart(k, q)) \/ RegisterPair \/ RecordRun
<1> USE DEF archive, catalog, plans, index, local
<1>1. CASE Collect
  BY <1>1 DEF Collect, WriteRaw, WriteCurated, WriteFile, SymbolFails, CollectAborts
<1>2. CASE Plan
  BY <1>2 DEF Plan, SealAgain, SealPlan, SealTorn, WritePlan, IndexPlan, IndexFails
<1>3. CASE Execute
  BY <1>3 DEF Execute, ExecStart, ExecAgain, Verify, Drift, Keep, Rename, Link, Unlink,
     UnlinkFails, Precommit, Commit, Mark, CommitInterrupted, Publish, PublishFails,
     Error, RollbackRename, RollbackLink, RollbackUnlink, RollbackFails, Fail,
     FailUnrecorded, Abort
<1> QED
  BY <1>1, <1>2, <1>3 DEF Next, Crash, OperatorClears, vars

\* Nothing takes a recorded unit's standing away.
LEMMA PassedStays ==
  ASSUME TypeInv, Recorded, [Next]_vars, NEW u \in Units, run[u] = "ok"
  PROVE  /\ run'[u] = "ok" /\ key'[u] = key[u]
         /\ registered \subseteq registered' /\ good \subseteq good'
<1>1. ASSUME NEW k \in Keys, NEW q \in BOOLEAN, CollectStart(k, q)
      PROVE  UNCHANGED <<registered, run>> /\ key'[u] = key[u] /\ good \subseteq good'
  <2>1. u # NextUnit
    <3>1. ~(u > collected)
      BY DEF Recorded
    <3> QED BY <3>1 DEF NextUnit, TypeInv, Shapes, Units
  <2> QED BY <1>1, <2>1 DEF CollectStart, TypeInv, Shapes
<1>2. CASE RegisterPair
  BY <1>2 DEF RegisterPair
<1>3. CASE RecordRun
  <2>1. u # collected
    BY <1>3 DEF RecordRun, Recorded, Collecting
  <2> QED BY <1>3, <2>1 DEF RecordRun, TypeInv, Shapes
<1> QED BY <1>1, <1>2, <1>3, CatalogFrame DEF catalog

LEMMA SupersededStep == TypeInv /\ Recorded /\ Superseded /\ [Next]_vars => Superseded'
<1> SUFFICES ASSUME TypeInv, Recorded, Superseded, [Next]_vars PROVE Superseded'
  OBVIOUS
<1>1. ASSUME NEW u \in Units, run'[u] = "ok"
      PROVE  u \in registered'
  <2>1. CASE run[u] = "ok"
    BY <2>1, PassedStays DEF Superseded
  <2>2. CASE run[u] # "ok"
    BY <1>1, <2>2, RunFrame DEF RecordRun, TypeInv, Shapes
  <2> QED BY <2>1, <2>2
<1>2. \A u \in Units : Passed(u) => Passed(u)' /\ key'[u] = key[u]
  BY PassedStays DEF Passed
<1> DEFINE Well(c) == /\ c.targets \cap c.retained = {}
                      /\ \A u \in c.targets \union c.retained : Passed(u)
                      /\ \A u \in c.targets : \E v \in c.retained : key[v] = key[u]
<1>3. ASSUME NEW p \in PlanIds, plan'[p].policy = "SUPERSEDED_ONLY"
      PROVE  Well(plan'[p])
  <2>1. CASE plan'[p] = plan[p]
    BY <1>3, <2>1 DEF Superseded
  <2>2. CASE plan'[p] # plan[p]
    <3>1. PICK policy \in Policies, K \in SUBSET Keys, q \in PlanIds :
                 SealPlan(policy, K, q) \/ SealTorn(policy, K, q)
      BY <2>2, PlanFrame DEF plans
    <3>2. plan'[p] = Selected(policy, K)
      BY <2>2, <3>1 DEF SealPlan, SealTorn, WritePlan, TypeInv, Shapes
    <3>3. plan'[p] = SupersededContent(K)
      BY <1>3, <3>2 DEF Selected, ExactContent
    <3> QED BY <3>3, SupersededSelected
  <2> QED BY <2>1, <2>2
<1>4. ASSUME NEW p \in PlanIds, plan'[p].policy = "SUPERSEDED_ONLY"
      PROVE  /\ plan'[p].targets \cap plan'[p].retained = {}
             /\ \A u \in plan'[p].targets \union plan'[p].retained : Passed(u)'
             /\ \A u \in plan'[p].targets : \E v \in plan'[p].retained : key'[v] = key'[u]
  BY <1>2, <1>3, <1>4 DEF Passed
<1> QED BY <1>1, <1>4 DEF Superseded

\* The later unit stays, whatever happens to files of the targets.
LEMMA OutrankedStays ==
  ASSUME UNCHANGED <<plan, cur, key, good, run>>,
         \A f \in active \ active' : f \in FilesOf(plan[cur].targets)
  PROVE  Outranked \subseteq Outranked'
BY DEF Outranked, FilesOf

LEMMA ShadowedStep == TypeInv /\ Begun /\ Superseded /\ Shadowed /\ [Next]_vars => Shadowed'
<1> SUFFICES ASSUME TypeInv, Begun, Superseded, Shadowed, [Next]_vars,
                    pc' \in Executing, plan'[cur'].policy = "SUPERSEDED_ONLY"
             PROVE  Shadowed'
  BY DEF Shadowed
<1> USE DEF archive, catalog, plans, index, local, Executing, Forward, RollingBack, Published
<1>0. moved \in Seq(Files) /\ (pc = "idle" => moved = <<>>)
  BY DEF TypeInv, Shapes, Control
<1>1. ~Collect /\ ~Plan /\ ~Crash /\ ~OperatorClears
  BY DEF Collect, CollectStart, WriteRaw, WriteCurated, WriteFile, RegisterPair,
     SymbolFails, RecordRun, CollectAborts, Plan, SealAgain, SealPlan, SealTorn, IndexPlan,
     IndexFails, Crash, OperatorClears
<1>2. ~Publish /\ ~PublishFails /\ ~Fail /\ ~FailUnrecorded /\ ~Abort
  BY DEF Publish, PublishFails, Fail, FailUnrecorded, Abort
<1>3. ASSUME NEW p \in PlanIds, ExecStart(p) \/ ExecAgain(p)
      PROVE  Shadowed'
  BY <1>0, <1>3 DEF ExecStart, ExecAgain, Shadowed
<1>4. CASE Verify
  <2>1. cur \in PlanIds /\ plan[cur].policy = "SUPERSEDED_ONLY" /\ SupersededHolds(cur)
    BY <1>4 DEF Verify, TypeInv, Control, PlanHolds
  <2>2. ASSUME NEW u \in plan[cur].targets, <<u, "curated">> \in active
        PROVE  u \in Outranked
    <3>1. PICK w \in Winners(key[u]) : w \in plan[cur].retained
      BY <2>1, <2>2 DEF SupersededHolds, Superseded
    <3>2. u \in Complete(key[u])
      BY <2>1, <2>2 DEF Complete, Historical, Superseded, Passed
    <3>3. w \in Complete(key[u]) /\ u <= w /\ u # w
      BY <2>1, <2>2, <3>1, <3>2 DEF Winners, Superseded
    <3>4. u \in Units /\ w \in Units \ plan[cur].targets
      BY <2>1, <2>2, <3>1 DEF Superseded, Passed
    <3> QED BY <3>3, <3>4 DEF Outranked, Complete, Historical, Units
  <2>3. \A f \in todo' \cap active' : f[2] = "curated" => f[1] \in Outranked
    BY <1>4, <2>2 DEF Verify, FilesOf
  <2> QED BY <1>4, <2>1, <2>3 DEF Verify, Shadowed, Outranked
<1>5. CASE Drift \/ UnlinkFails \/ Commit \/ Mark \/ CommitInterrupted \/ Error
  BY <1>5 DEF Drift, UnlinkFails, Commit, Mark, CommitInterrupted, Error, Uncommitted,
     Shadowed, Outranked
<1>6. ASSUME NEW a \in Attempts, Precommit(a)
      PROVE  Shadowed'
  BY <1>6 DEF Precommit, Shadowed, Outranked
<1>7. ASSUME NEW f \in Files, Keep(f)
      PROVE  Shadowed'
  BY <1>7 DEF Keep, Shadowed, Outranked
<1>8. ASSUME NEW f \in Files, Rename(f) \/ Link(f)
      PROVE  Shadowed'
  <2>1. /\ UNCHANGED <<plan, cur, key, good, run>> /\ pc = "move"
        /\ f \in todo \cap active /\ active' \subseteq active /\ todo' \subseteq todo
        /\ \A g \in active \ active' : g = f
    BY <1>8 DEF Rename, Link, NextUp
  <2>2. Outranked \subseteq Outranked'
    BY <2>1, OutrankedStays DEF Begun
  <2>3. /\ Len(moved') = Len(moved) + 1 /\ moved'[Len(moved')] = f
        /\ \A i \in 1 .. Len(moved) : moved'[i] = moved[i]
    BY <1>0, <1>8 DEF Rename, Link
  <2>4. /\ \A g \in todo \cap active : g[2] = "curated" => g[1] \in Outranked
        /\ \A i \in 1 .. Len(moved) : moved[i][2] = "curated" => moved[i][1] \in Outranked
    BY <2>1 DEF Shadowed
  <2>5. \A i \in 1 .. Len(moved') : i = Len(moved') \/ i \in 1 .. Len(moved)
    BY <1>0, <2>3
  <2>6. \A i \in 1 .. Len(moved') : moved'[i][2] = "curated" => moved'[i][1] \in Outranked'
    BY <2>1, <2>2, <2>3, <2>4, <2>5
  <2>7. \A g \in todo' \cap active' : g[2] = "curated" => g[1] \in Outranked'
    BY <2>1, <2>2, <2>4
  <2> QED BY <2>6, <2>7 DEF Shadowed
<1>9. CASE Unlink
  <2>1. /\ UNCHANGED <<plan, cur, key, good, run, moved>> /\ pc = "unlink"
        /\ active' \subseteq active /\ todo' \subseteq todo
        /\ \A g \in active \ active' : g = Last
    BY <1>9 DEF Unlink
  <2>2. Last \in FilesOf(plan[cur].targets)
    <3>1. Len(moved) \in 1 .. Len(moved)
      BY <1>0, <2>1 DEF TypeInv, Control
    <3> QED BY <3>1 DEF Begun, Last
  <2>3. Outranked \subseteq Outranked'
    BY <2>1, <2>2, OutrankedStays
  <2>4. /\ \A g \in todo \cap active : g[2] = "curated" => g[1] \in Outranked
        /\ \A i \in 1 .. Len(moved) : moved[i][2] = "curated" => moved[i][1] \in Outranked
    BY <2>1 DEF Shadowed
  <2>5. \A g \in todo' \cap active' : g[2] = "curated" => g[1] \in Outranked'
    BY <2>1, <2>3, <2>4
  <2>6. \A i \in 1 .. Len(moved') : moved'[i][2] = "curated" => moved'[i][1] \in Outranked'
    BY <2>1, <2>3, <2>4
  <2> QED BY <2>5, <2>6 DEF Shadowed
<1>10. CASE RollbackRename \/ RollbackLink \/ RollbackUnlink \/ RollbackFails
  <2>1. /\ UNCHANGED <<plan, cur, key, good, run>> /\ pc \in RollingBack /\ pc' \in RollingBack
        /\ active \subseteq active'
    BY <1>10 DEF RollbackRename, RollbackLink, RollbackUnlink, RollbackFails
  <2>2. moved' = moved \/ (moved # <<>> /\ moved' = Undone)
    BY <1>10 DEF RollbackRename, RollbackLink, RollbackUnlink, RollbackFails, TypeInv, Control
  <2>3. \A i \in 1 .. Len(moved') : i \in 1 .. Len(moved) /\ moved'[i] = moved[i]
    BY <1>0, <2>2, UndoneElements DEF Undone
  <2>4. Outranked \subseteq Outranked'
    BY <2>1, OutrankedStays
  <2>5. \A i \in 1 .. Len(moved) : moved[i][2] = "curated" => moved[i][1] \in Outranked
    BY <2>1 DEF Shadowed
  <2>6. \A i \in 1 .. Len(moved') : moved'[i][2] = "curated" => moved'[i][1] \in Outranked'
    BY <2>3, <2>4, <2>5
  <2> QED BY <2>1, <2>6 DEF Shadowed
<1>11. CASE UNCHANGED vars
  BY <1>11 DEF vars, Shadowed, Outranked
<1> HIDE DEF archive, catalog, plans, index, local, Executing, Forward, RollingBack,
    Published
<1>12. CASE Execute
  BY <1>2, <1>3, <1>4, <1>5, <1>6, <1>7, <1>8, <1>9, <1>10, <1>12 DEF Execute
<1> QED BY <1>1, <1>11, <1>12 DEF Next

\* A unit that a later sound one outranks comes and goes unseen.
LEMMA ServedSame ==
  ASSUME UNCHANGED <<key, good, run>>, TypeInv, TypeInv', NEW u \in Units, u \in Outranked,
         \A v \in Units : v # u => (<<v, "curated">> \in active' <=> <<v, "curated">> \in active),
         NEW k \in Keys
  PROVE  Served(k)' = Served(k)
<1> DEFINE S == {v \in Units \cap good : /\ key[v] = k /\ run[v] = "ok"
                                        /\ <<v, "curated">> \in active}
           T == {v \in Units \cap good : /\ key[v] = k /\ run[v] = "ok"
                                        /\ <<v, "curated">> \in active'}
<1>1. /\ Served(k) = {v \in S : \A x \in S : x <= v}
      /\ Served(k)' = {v \in T : \A x \in T : x <= v}
  BY DEF Served
<1>2. PICK w \in Units : /\ w > u /\ key[w] = key[u] /\ w \in good /\ run[w] = "ok"
                         /\ <<w, "curated">> \in active
  BY DEF Outranked
<1>3. w # u /\ <<w, "curated">> \in active'
  BY <1>2 DEF Units
<1>4. S \subseteq Int /\ T \subseteq Int /\ w \in Int /\ u \in Int
  BY DEF Units
<1>5. /\ \A v : v # u => (v \in S <=> v \in T)
      /\ u \in S \union T => w \in S \cap T
  BY <1>2, <1>3
<1> HIDE DEF S, T
<1>6. {v \in S : \A x \in S : x <= v} = {v \in T : \A x \in T : x <= v}
  <2>1. \A v : (v \in S /\ \A x \in S : x <= v) => (v \in T /\ \A x \in T : x <= v)
    BY <1>2, <1>4, <1>5
  <2>2. \A v : (v \in T /\ \A x \in T : x <= v) => (v \in S /\ \A x \in S : x <= v)
    BY <1>2, <1>4, <1>5
  <2> QED BY <2>1, <2>2
<1> QED BY <1>1, <1>6

\* No step of a superseded plan, forward, rolled back or retried, changes what a
\* reader of any key is served, under every fault.
THEOREM ServedUnchangedAlways == Spec => ServedUnchanged
<1> DEFINE Inv == /\ TypeInv /\ Sealed /\ Begun /\ Recorded /\ Superseded /\ Busy
                  /\ Shadowed
<1>1. Init => Inv
  <2>1. Init => Sealed /\ Begun /\ Recorded
    BY PurgeInvInit DEF PurgeInv
  <2>2. Init => Superseded
    <3> SUFFICES ASSUME Init PROVE Superseded
      OBVIOUS
    <3>1. \A p \in PlanIds : plan[p] = NoContent /\ NoContent.policy = "EXACT_SCOPE"
      BY DEF Init, NoContent
    <3>2. \A u \in Units : run[u] = "none"
      BY DEF Init
    <3> QED BY <3>1, <3>2 DEF Superseded
  <2>3. Init => Busy /\ Shadowed
    BY DEF Init, Busy, Shadowed, Executing, Forward, RollingBack, Published
  <2> QED BY InitType, <2>1, <2>2, <2>3
<1>2. Inv /\ [Next]_vars => Inv'
  BY TypeStep, ControlStep, SealedStep, BegunStep, RecordedStep, SupersededStep, BusyStep,
     ShadowedStep DEF TypeInv
<1>3. Inv /\ [Next]_vars
        => [cur # 0 /\ plan[cur].policy = "SUPERSEDED_ONLY" =>
              \A k \in Keys : Served(k)' = Served(k)]_vars
  <2> SUFFICES ASSUME Inv, [Next]_vars, cur # 0, plan[cur].policy = "SUPERSEDED_ONLY",
                      NEW k \in Keys
               PROVE  Served(k)' = Served(k)
    OBVIOUS
  <2>1. pc \in Executing \union {"index"} /\ TypeInv'
    BY <1>2 DEF Busy
  <2>2. UNCHANGED <<key, good, run>>
    <3>1. ~RegisterPair /\ ~RecordRun /\ \A l \in Keys, q \in BOOLEAN : ~CollectStart(l, q)
      BY <2>1 DEF RegisterPair, RecordRun, CollectStart, Executing, Forward, RollingBack,
         Published
    <3> QED BY <3>1, CatalogFrame DEF catalog
  <2>3. ASSUME \A v \in Units : <<v, "curated">> \in active' <=> <<v, "curated">> \in active
        PROVE  Served(k)' = Served(k)
    BY <2>2, <2>3 DEF Served
  <2>4. ASSUME NEW f \in Files, \A g : g # f => (g \in active' <=> g \in active),
               f[2] = "curated" => f[1] \in Outranked
        PROVE  Served(k)' = Served(k)
    <3>1. f[1] \in Units /\ f = <<f[1], f[2]>>
      BY DEF Files
    <3>2. CASE f[2] = "curated"
      <4>1. \A v \in Units : v # f[1] => <<v, "curated">> # f
        OBVIOUS
      <4>2. \A v \in Units : v # f[1] =>
              (<<v, "curated">> \in active' <=> <<v, "curated">> \in active)
        BY <2>4, <4>1
      <4> QED BY <2>1, <2>2, <2>4, <3>1, <3>2, <4>2, ServedSame
    <3>3. CASE f[2] # "curated"
      BY <2>3, <2>4, <3>1, <3>3
    <3> QED BY <3>2, <3>3
  <2>5. CASE UNCHANGED archive \/ WriteRaw \/ WriteCurated \/ RollbackUnlink
             \/ \E f \in Files : Link(f)
    BY <2>1, <2>3, <2>5 DEF archive, WriteRaw, WriteCurated, WriteFile, RollbackUnlink, Link,
       Executing, Forward, RollingBack, Published
  <2>6. ASSUME NEW f \in Files, Rename(f)
        PROVE  Served(k)' = Served(k)
    BY <2>4, <2>6 DEF Rename, NextUp, Shadowed, Executing, Forward
  <2>7. CASE Unlink \/ RollbackRename \/ RollbackLink
    <3>1. moved # <<>> /\ moved \in Seq(Files)
      BY <2>7 DEF Unlink, RollbackRename, RollbackLink, TypeInv, Shapes, Control
    <3>2. Len(moved) \in 1 .. Len(moved) /\ Last \in Files
      BY <3>1 DEF Last
    <3>3. Last[2] = "curated" => Last[1] \in Outranked
      BY <2>7, <3>2 DEF Unlink, RollbackRename, RollbackLink, Shadowed, Last, Executing,
         Forward, RollingBack
    <3>4. \A g : g # Last => (g \in active' <=> g \in active)
      BY <2>7 DEF Unlink, RollbackRename, RollbackLink
    <3> HIDE DEF Last
    <3> QED BY <2>4, <3>2, <3>3, <3>4
  <2> QED BY <2>5, <2>6, <2>7, ArchiveFrame
<1> QED BY <1>1, <1>2, <1>3, PTL DEF Spec, ServedUnchanged
=============================================================================
