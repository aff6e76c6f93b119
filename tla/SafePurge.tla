------------------------------ MODULE SafePurge ------------------------------
(***************************************************************************)
(* Safe purge of market-bar snapshots, with the collector that feeds it    *)
(* (market_vault/purge.py, service.py, storage/catalog.py).                *)
(*                                                                         *)
(* A collection run of one symbol writes a Raw and a Curated file, binds   *)
(* them in the Catalog and records its run row.  purge_plan seals which of *)
(* these pairs a policy selects; purge_execute moves every selected file   *)
(* into data/quarantine/purge_id=<plan>, commits SUCCESS in the Catalog    *)
(* and publishes a terminal result.  There is no transaction over the file *)
(* system and the Catalog: a crash, an exception or an interrupt can hit   *)
(* between any two of these steps.                                         *)
(*                                                                         *)
(* Every operation modelled here runs under MarketBarLifecycleLock, which  *)
(* module LifecycleLock models.  This module takes from it what it shows:  *)
(* one holder at a time (pc is the holder's next step, "idle" when the     *)
(* lock is free), and a crash leaves the lock "stale" until the operator   *)
(* clears it.  So the variables of the operation in progress (pc, cur,     *)
(* ...) exist once.                                                        *)
(***************************************************************************)
EXTENDS Integers, Sequences

CONSTANTS
  Keys,         \* logical keys: (symbol, date, interval, session, adjustment)
  MaxUnits,     \* bound: collection runs
  MaxPlans,     \* bound: sealed plans
  MaxAttempts,  \* bound: precommits (each attempt names its own evidence)
  Faults,       \* the faults that may occur, a subset of FaultKinds
  AtomicRename  \* os.name = "nt": _move_file is one os.rename

FaultKinds == {"crash",            \* the process dies
               "error",            \* an exception or interrupt before a step
               "unlink",           \* os.unlink fails after its os.link
               "rollback",         \* an OSError while rolling back one file
               "abort",            \* an interrupt that no handler is left for
               "commit_interrupt"} \* an interrupt between the Catalog's commit
                                   \* and `committed = True'

ASSUME KeysAssumption  == Keys # {}
ASSUME BoundAssumption == /\ MaxUnits \in Nat \ {0}
                          /\ MaxPlans \in Nat \ {0}
                          /\ MaxAttempts \in Nat \ {0}
ASSUME FaultAssumption == Faults \subseteq FaultKinds /\ AtomicRename \in BOOLEAN

Units    == 1 .. MaxUnits       \* physical pairs, numbered as they are collected
PlanIds  == 1 .. MaxPlans
Attempts == 1 .. MaxAttempts
Layers   == {"raw", "curated"}
Files    == Units \X Layers
Policies == {"EXACT_SCOPE", "SUPERSEDED_ONLY"}

FilesOf(U) == U \X Layers

\* What purge_plan seals and hashes into the plan id.  A refused plan is never
\* executed (purge_execute refuses it before taking the lock) and is left out.
Content == [policy     : Policies,
            scope      : SUBSET Keys,
            targets    : SUBSET Units,
            retained   : SUBSET Units,
            reconciled : SUBSET (Units \X PlanIds)]

NoContent == [policy |-> "EXACT_SCOPE", scope |-> {}, targets |-> {},
              retained |-> {}, reconciled |-> {}]

VARIABLES
  active,      \* files named in the active Raw/Curated archive
  quar,        \* plan -> files named in that plan's quarantine directory
  written,     \* history: every file a collection run ever finished writing
  collected,   \* number of collection runs started
  key,         \* unit -> its logical key
  good,        \* units whose run has no quality FAIL
  registered,  \* units bound in market_bar_snapshot_pairs
  run,         \* unit -> its ingestion_runs row: "none", "ok" or "failed"
  planFile,    \* plan -> its immutable plan file: "absent", "torn", "sealed"
  plan,        \* plan -> its content
  state,       \* plan -> its purge_operations state, "NONE" before it is indexed
  pointer,     \* plan -> the attempt its Catalog row names as evidence, or 0
  precommit,   \* attempt -> the plan of its complete precommit file, or 0
  result,      \* attempts whose terminal result file is published
  pc,          \* the step the lock holder takes next
  cur,         \* the plan it works on, or 0
  todo,        \* sealed files purge_execute has not dealt with yet
  moved,       \* moved_this_attempt, a sequence of files
  retry,       \* noncommitted_retry
  att          \* the attempt it prepared, or 0

archive == <<active, quar, written>>
catalog == <<key, good, registered, run>>
plans   == <<planFile, plan>>
index   == <<state, pointer>>
local   == <<cur, todo, moved, retry, att>>
vars    == <<archive, collected, catalog, plans, index, precommit, result,
             pc, local>>

Steps == {"idle", "stale",                          \* nobody holds the lock
          "raw", "curated", "pair", "run",          \* collect_history
          "index",                                  \* purge_plan
          "verify", "move", "unlink", "precommit",  \* purge_execute
          "commit", "mark", "publish", "rollback", "rollback_unlink"}

-----------------------------------------------------------------------------
(***************************************************************************)
(* What the planner reads.                                                 *)
(***************************************************************************)
\* In-scope historical units: registered pairs of a recorded run.
Historical(K) == {u \in registered : run[u] # "none" /\ key[u] \in K}

BothActive(u) == FilesOf({u}) \subseteq active
NoneActive(u) == FilesOf({u}) \cap active = {}

\* Faulty variant: a run with a quality FAIL counts as complete.
CompleteDespiteFail(k) == {u \in Historical({k}) : /\ run[u] = "ok"
                                                   /\ <<u, "curated">> \in active}
\* catalog.complete_market_bar_snapshots: only the Curated file is looked at.
Complete(k) == {u \in Historical({k}) : /\ run[u] = "ok"
                                        /\ u \in good
                                        /\ <<u, "curated">> \in active}
\* Ranked by ingestion time, which grows with the unit's number.
Winners(k) == {u \in Complete(k) : \A v \in Complete(k) : v <= u}

\* An active file of the scope that no recorded pair accounts for.
Unregistered(K) ==
  \E f \in active : key[f[1]] \in K /\ f[1] \notin Historical(K)

Committed == {p \in PlanIds : state[p] = "SUCCESS"}
Claims(u) == {p \in Committed : u \in plan[p].targets}

\* The committed record and the precommit it names belong together.
Authority(p) == pointer[p] \in Attempts /\ precommit[pointer[p]] = p

\* _reconcile_historical_unit: exactly one committed operation explains why the
\* unit is gone, and no committed record that covers its key is damaged.
Explained(u, p) ==
  /\ Claims(u) = {p}
  /\ FilesOf({u}) \subseteq quar[p]
  /\ \A q \in Committed : key[u] \in plan[q].scope => Authority(q)

-----------------------------------------------------------------------------
(***************************************************************************)
(* purge_plan                                                              *)
(***************************************************************************)
ExactTargets(K, T)    == T \union {u \in Historical(K) : BothActive(u)}
ExactReconciled(K, T) == {x \in (Historical(K) \ T) \X PlanIds :
                            NoneActive(x[1]) /\ Explained(x[1], x[2])}

\* T holds the sealed targets of an attempt that is being retried: whatever side
\* of the move their files are on, they stay targets.
ExactRefused(K, T) ==
  \/ \E u \in Historical(K) \ T : ~BothActive(u) /\ ~NoneActive(u)
  \/ \E u \in Historical(K) \ T :
       NoneActive(u) /\ \A p \in PlanIds : ~Explained(u, p)
  \/ \E u \in ExactTargets(K, T) : Claims(u) # {}
  \/ Unregistered(K)
  \/ \E k \in K : Historical({k}) = {}
  \/ ExactTargets(K, T) = {}

ExactContent(K, T) ==
  [policy |-> "EXACT_SCOPE", scope |-> K, targets |-> ExactTargets(K, T),
   retained |-> {}, reconciled |-> ExactReconciled(K, T)]

\* Only the keys that have a complete snapshot are searched for stray files.
SupersededRefused(K) ==
  LET found == {k \in K : Complete(k) # {}}
  IN \/ Unregistered(IF found = {} THEN K ELSE found)
     \/ \E k \in found : \E u \in Complete(k) : <<u, "raw">> \notin active

SupersededContent(K) ==
  LET all  == UNION {Complete(k) : k \in K}
      kept == UNION {Winners(k) : k \in K}
  IN [policy |-> "SUPERSEDED_ONLY", scope |-> K, targets |-> all \ kept,
      retained |-> kept, reconciled |-> {}]

Selected(policy, K) == IF policy = "EXACT_SCOPE" THEN ExactContent(K, {})
                                                 ELSE SupersededContent(K)
Refused(policy, K)  == IF policy = "EXACT_SCOPE" THEN ExactRefused(K, {})
                                                 ELSE SupersededRefused(K)

-----------------------------------------------------------------------------
(***************************************************************************)
(* What purge_execute checks before it moves anything.                     *)
(***************************************************************************)
\* Faulty variant: the quarantine path does not tell the plans apart.
InAnyQuarantine(f, p) == \E q \in PlanIds : f \in quar[q]
\* _quarantine_path: data/quarantine/purge_id=<plan>/<path>
InQuarantine(f, p)    == f \in quar[p]

\* Every sealed target file is in exactly one place.
TargetsBound(p) ==
  \A f \in FilesOf(plan[p].targets) : (f \in active) # InQuarantine(f, p)

\* Faulty variant: only the Curated partitions are listed.
UnplannedCurated(c) == \E f \in active : /\ f[2] = "curated" /\ key[f[1]] \in c.scope
                                         /\ f \notin FilesOf(c.targets)
\* An active file of the scope that the plan does not list.
Unplanned(c) == \E f \in active : key[f[1]] \in c.scope /\ f \notin FilesOf(c.targets)

\* A plan with reconciled units (version 4) is rebuilt and compared.
ExactHolds(p, again) ==
  LET c == plan[p]
      T == IF again THEN c.targets ELSE {}
  IN /\ TargetsBound(p)
     /\ c.reconciled # {} => /\ ~ExactRefused(c.scope, T)
                             /\ ExactContent(c.scope, T) = c
     /\ ~Unplanned(c)

\* _verify_superseded_authority: nothing new is complete, every retained winner
\* still wins and is untouched, and no stray file has appeared.
SupersededHolds(p) ==
  LET c    == plan[p]
      keys == {key[u] : u \in c.retained}
  IN /\ TargetsBound(p)
     /\ \A k \in keys : /\ Complete(k) \subseteq c.targets \union c.retained
                        /\ Winners(k) # {} /\ Winners(k) \subseteq c.retained
     /\ \A f \in FilesOf(c.retained) : f \in active /\ f \notin quar[p]
     /\ ~Unregistered(IF keys = {} THEN c.scope ELSE keys)

PlanHolds(p, again) == IF plan[p].policy = "EXACT_SCOPE" THEN ExactHolds(p, again)
                                                         ELSE SupersededHolds(p)

-----------------------------------------------------------------------------
Init ==
  /\ active = {} /\ written = {}
  /\ quar = [p \in PlanIds |-> {}]
  /\ collected = 0
  /\ key = [u \in Units |-> CHOOSE k \in Keys : TRUE]
  /\ good = {} /\ registered = {}
  /\ run = [u \in Units |-> "none"]
  /\ planFile = [p \in PlanIds |-> "absent"]
  /\ plan = [p \in PlanIds |-> NoContent]
  /\ state = [p \in PlanIds |-> "NONE"]
  /\ pointer = [p \in PlanIds |-> 0]
  /\ precommit = [a \in Attempts |-> 0]
  /\ result = {}
  /\ pc = "idle" /\ cur = 0 /\ todo = {} /\ moved = <<>>
  /\ retry = FALSE /\ att = 0

\* The holder leaves its `with MarketBarLifecycleLock' block.
Leave == cur' = 0 /\ todo' = {} /\ moved' = <<>> /\ retry' = FALSE /\ att' = 0

(***************************************************************************)
(* collect_history: one symbol per run.  q: the data passes the checks.    *)
(***************************************************************************)
NextUnit == collected + 1

CollectStart(k, q) ==
  /\ pc = "idle" /\ collected < MaxUnits
  /\ collected' = NextUnit
  /\ key' = [key EXCEPT ![NextUnit] = k]
  /\ good' = IF q THEN good \union {NextUnit} ELSE good
  /\ pc' = "raw"
  /\ UNCHANGED <<archive, registered, run, plans, index, precommit, result, local>>

WriteFile(layer, next) ==
  /\ pc = layer
  /\ active' = active \union {<<collected, layer>>}
  /\ written' = written \union {<<collected, layer>>}
  /\ pc' = next
  /\ UNCHANGED <<quar, collected, catalog, plans, index, precommit, result, local>>

WriteRaw     == WriteFile("raw", "curated")
WriteCurated == WriteFile("curated", "pair")

RegisterPair ==
  /\ pc = "pair"
  /\ registered' = registered \union {collected}
  /\ pc' = "run"
  /\ UNCHANGED <<archive, collected, key, good, run, plans, index, precommit,
                 result, local>>

\* An exception in the loop is kept as the symbol's failure; files stay.
SymbolFails ==
  /\ "error" \in Faults
  /\ pc \in {"raw", "curated", "pair"}
  /\ pc' = "run"
  /\ UNCHANGED <<archive, collected, catalog, plans, index, precommit, result, local>>

RecordRun ==
  /\ pc = "run"
  /\ run' = [run EXCEPT ![collected] =
               IF collected \in registered THEN "ok" ELSE "failed"]
  /\ pc' = "idle"
  /\ UNCHANGED <<archive, collected, key, good, registered, plans, index,
                 precommit, result, local>>

\* An interrupt, or an exception after the loop: no run row is written.
CollectAborts ==
  /\ "error" \in Faults
  /\ pc \in {"raw", "curated", "pair", "run"}
  /\ pc' = "idle"
  /\ UNCHANGED <<archive, collected, catalog, plans, index, precommit, result, local>>

(***************************************************************************)
(* purge_plan: seal the plan file, then index it.                          *)
(***************************************************************************)
SameContent(c) == {p \in PlanIds : planFile[p] # "absent" /\ plan[p] = c}
FirstFree(p)   == /\ planFile[p] = "absent"
                  /\ \A q \in PlanIds : planFile[q] = "absent" => p <= q

WritePlan(c, p, file) ==
  /\ SameContent(c) = {} /\ FirstFree(p)
  /\ planFile' = [planFile EXCEPT ![p] = file]
  /\ plan' = [plan EXCEPT ![p] = c]
  /\ UNCHANGED <<archive, collected, catalog, index, precommit, result,
                 todo, moved, retry, att>>

SealPlan(policy, K, p) ==
  /\ pc = "idle" /\ ~Refused(policy, K)
  /\ WritePlan(Selected(policy, K), p, "sealed")
  /\ cur' = p /\ pc' = "index"

\* _write_immutable opens the final name before it writes the bytes.
SealTorn(policy, K, p) ==
  /\ "crash" \in Faults
  /\ pc = "idle" /\ ~Refused(policy, K)
  /\ WritePlan(Selected(policy, K), p, "torn")
  /\ pc' = "stale" /\ UNCHANGED cur

\* Faulty variant: a file of the right name is taken for the plan.
SameName(p)  == planFile[p] # "absent"
SameBytes(p) == planFile[p] = "sealed"

\* The same content names the same file, whose bytes _write_immutable compares:
\* a torn one makes purge_plan raise.
SealAgain(policy, K) ==
  /\ pc = "idle" /\ ~Refused(policy, K)
  /\ \E p \in SameContent(Selected(policy, K)) : SameBytes(p) /\ cur' = p
  /\ pc' = "index"
  /\ UNCHANGED <<archive, collected, catalog, plans, index, precommit, result,
                 todo, moved, retry, att>>

\* record_purge_plan never resets an existing row.
IndexPlan ==
  /\ pc = "index"
  /\ state' = [state EXCEPT ![cur] = IF @ = "NONE" THEN "PLANNED" ELSE @]
  /\ pc' = "idle" /\ Leave
  /\ UNCHANGED <<archive, collected, catalog, plans, pointer, precommit, result>>

IndexFails ==
  /\ "error" \in Faults
  /\ pc = "index"
  /\ pc' = "idle" /\ Leave
  /\ UNCHANGED <<archive, collected, catalog, plans, index, precommit, result>>

(***************************************************************************)
(* purge_execute                                                           *)
(***************************************************************************)
\* Faulty variant: a committed plan may be started again.
RestartableAlways == {"PLANNED", "FAILED", "EXECUTING", "SUCCESS"}
Restartable       == {"PLANNED", "FAILED", "EXECUTING"}

\* begin_purge_operation: a new attempt forgets the evidence of the last one.
ExecStart(p) ==
  /\ pc = "idle"
  /\ state[p] \in Restartable
  /\ \E a \in Attempts : precommit[a] = 0
  /\ cur' = p
  /\ retry' = (state[p] \in {"FAILED", "EXECUTING"})
  /\ state' = [state EXCEPT ![p] = "EXECUTING"]
  /\ pointer' = [pointer EXCEPT ![p] = 0]
  /\ pc' = "verify"
  /\ UNCHANGED <<archive, collected, catalog, plans, precommit, result,
                 todo, moved, att>>

\* A committed plan is only re-published, from the precommit it names.
ExecAgain(p) ==
  /\ pc = "idle"
  /\ state[p] = "SUCCESS"
  /\ FilesOf(plan[p].targets) \subseteq quar[p]
  /\ Authority(p)
  /\ cur' = p /\ att' = pointer[p]
  /\ pc' = "publish"
  /\ UNCHANGED <<archive, collected, catalog, plans, index, precommit, result,
                 todo, moved, retry>>

Verify ==
  /\ pc = "verify"
  /\ PlanHolds(cur, retry)
  /\ todo' = FilesOf(plan[cur].targets)
  /\ pc' = "move"
  /\ UNCHANGED <<archive, collected, catalog, plans, index, precommit, result,
                 cur, moved, retry, att>>

Drift ==
  /\ pc = "verify"
  /\ ~PlanHolds(cur, retry)
  /\ pc' = "rollback"
  /\ UNCHANGED <<archive, collected, catalog, plans, index, precommit, result, local>>

\* The units in any order (theirs is that of their paths), Raw before Curated.
NextUp(f) ==
  /\ f \in todo
  /\ IF f[2] = "curated"
     THEN <<f[1], "raw">> \notin todo
     ELSE \A g \in todo : <<g[1], "raw">> \in todo

\* A file that an earlier attempt already moved.
Keep(f) ==
  /\ pc = "move" /\ NextUp(f)
  /\ InQuarantine(f, cur) /\ f \notin active
  /\ todo' = todo \ {f}
  /\ UNCHANGED <<archive, collected, catalog, plans, index, precommit, result,
                 pc, cur, moved, retry, att>>

\* _move_file on Windows: one rename.
Rename(f) ==
  /\ AtomicRename
  /\ pc = "move" /\ NextUp(f)
  /\ f \in active /\ ~InQuarantine(f, cur)
  /\ active' = active \ {f}
  /\ quar' = [quar EXCEPT ![cur] = @ \union {f}]
  /\ moved' = Append(moved, f)
  /\ todo' = todo \ {f}
  /\ UNCHANGED <<written, collected, catalog, plans, index, precommit, result,
                 pc, cur, retry, att>>

\* _move_file on POSIX: os.link, then os.unlink.
Link(f) ==
  /\ ~AtomicRename
  /\ pc = "move" /\ NextUp(f)
  /\ f \in active /\ ~InQuarantine(f, cur)
  /\ quar' = [quar EXCEPT ![cur] = @ \union {f}]
  /\ moved' = Append(moved, f)
  /\ pc' = "unlink"
  /\ UNCHANGED <<active, written, collected, catalog, plans, index, precommit,
                 result, cur, todo, retry, att>>

Last == moved[Len(moved)]
\* Faulty variants: the rollback gives up after, or stays at, its first file.
UndoneGivesUp == <<>>
UndoneStays   == moved
Undone        == SubSeq(moved, 1, Len(moved) - 1)

Unlink ==
  /\ pc = "unlink"
  /\ active' = active \ {Last}
  /\ todo' = todo \ {Last}
  /\ pc' = "move"
  /\ UNCHANGED <<quar, written, collected, catalog, plans, index, precommit,
                 result, cur, moved, retry, att>>

UnlinkFails ==
  /\ "unlink" \in Faults
  /\ pc = "unlink"
  /\ pc' = "rollback"
  /\ UNCHANGED <<archive, collected, catalog, plans, index, precommit, result, local>>

\* Faulty variant: the loop over the targets may stop early.
SomeMoved == moved # <<>>
AllMoved  == todo = {}

\* Faulty variant: every attempt writes the same evidence file.
SameEvidence(a)  == a = 1
FreshEvidence(a) == precommit[a] = 0 /\ \A b \in Attempts : precommit[b] = 0 => a <= b

\* All files moved: verify again, then write the precommit of a new attempt.
Precommit(a) ==
  /\ pc = "move" /\ AllMoved
  /\ plan[cur].policy = "SUPERSEDED_ONLY" => SupersededHolds(cur)
  /\ FreshEvidence(a)
  /\ precommit' = [precommit EXCEPT ![a] = cur]
  /\ att' = a
  /\ pc' = "commit"
  /\ UNCHANGED <<archive, collected, catalog, plans, index, result,
                 cur, todo, moved, retry>>

\* commit_purge_operation: the commit point.
Commit ==
  /\ pc = "commit"
  /\ state[cur] = "EXECUTING"
  /\ state' = [state EXCEPT ![cur] = "SUCCESS"]
  /\ pointer' = [pointer EXCEPT ![cur] = att]
  /\ pc' = "mark"
  /\ UNCHANGED <<archive, collected, catalog, plans, precommit, result, local>>

\* `committed = True'
Mark ==
  /\ pc = "mark"
  /\ pc' = "publish"
  /\ UNCHANGED <<archive, collected, catalog, plans, index, precommit, result, local>>

CommitInterrupted ==
  /\ "commit_interrupt" \in Faults
  /\ pc = "mark"
  /\ pc' = "rollback"
  /\ UNCHANGED <<archive, collected, catalog, plans, index, precommit, result, local>>

\* _publish_terminal_result; an equal published file is left as it is.
Publish ==
  /\ pc = "publish"
  /\ result' = result \union {att}
  /\ pc' = "idle" /\ Leave
  /\ UNCHANGED <<archive, collected, catalog, plans, index, precommit>>

PublishFails ==
  /\ "error" \in Faults
  /\ pc = "publish"
  /\ pc' = "idle" /\ Leave
  /\ UNCHANGED <<archive, collected, catalog, plans, index, precommit, result>>

\* Faulty variants: `committed' is set one step, or two steps, too late.
UncommittedTooLong == {"verify", "move", "commit", "mark"}
UncommittedForever == {"verify", "move", "commit", "mark", "publish"}
Uncommitted        == {"verify", "move", "commit"}

\* Any exception or interrupt inside the try before the commit.
Error ==
  /\ "error" \in Faults
  /\ pc \in Uncommitted
  /\ pc' = "rollback"
  /\ UNCHANGED <<archive, collected, catalog, plans, index, precommit, result, local>>

(***************************************************************************)
(* The rollback of purge_execute: moved_this_attempt, newest first.        *)
(***************************************************************************)
RollbackRename ==
  /\ AtomicRename
  /\ pc = "rollback" /\ moved # <<>>
  /\ Last \in quar[cur] /\ Last \notin active
  /\ active' = active \union {Last}
  /\ quar' = [quar EXCEPT ![cur] = @ \ {Last}]
  /\ moved' = Undone
  /\ UNCHANGED <<written, collected, catalog, plans, index, precommit, result,
                 pc, cur, todo, retry, att>>

\* Faulty variant: the quarantine name goes before the active one is back.
RollbackForgetsLink ==
  /\ ~AtomicRename
  /\ pc = "rollback" /\ moved # <<>>
  /\ Last \in quar[cur] /\ Last \notin active
  /\ pc' = "rollback_unlink"
  /\ UNCHANGED <<active, quar, written, collected, catalog, plans, index, precommit,
                 result, local>>

RollbackLink ==
  /\ ~AtomicRename
  /\ pc = "rollback" /\ moved # <<>>
  /\ Last \in quar[cur] /\ Last \notin active
  /\ active' = active \union {Last}
  /\ pc' = "rollback_unlink"
  /\ UNCHANGED <<quar, written, collected, catalog, plans, index, precommit,
                 result, local>>

\* Both names are there, either because this rollback linked the file back or
\* because the move never unlinked it: remove the quarantine name.
RollbackUnlink ==
  /\ \/ pc = "rollback_unlink"
     \/ pc = "rollback" /\ moved # <<>> /\ Last \in active
  /\ quar' = [quar EXCEPT ![cur] = @ \ {Last}]
  /\ moved' = Undone
  /\ pc' = "rollback"
  /\ UNCHANGED <<active, written, collected, catalog, plans, index, precommit,
                 result, cur, todo, retry, att>>

\* An OSError is noted and the next file is tried.
RollbackFails ==
  /\ "rollback" \in Faults
  /\ pc \in {"rollback", "rollback_unlink"} /\ moved # <<>>
  /\ moved' = Undone
  /\ pc' = "rollback"
  /\ UNCHANGED <<archive, collected, catalog, plans, index, precommit, result,
                 cur, todo, retry, att>>

\* fail_purge_operation leaves a SUCCESS row alone.
Fail ==
  /\ pc = "rollback" /\ moved = <<>>
  /\ state' = [state EXCEPT ![cur] = IF @ = "SUCCESS" THEN @ ELSE "FAILED"]
  /\ pc' = "idle" /\ Leave
  /\ UNCHANGED <<archive, collected, catalog, plans, pointer, precommit, result>>

\* Writing the FAILED evidence raised: the row is left as it is.
FailUnrecorded ==
  /\ "rollback" \in Faults
  /\ pc = "rollback" /\ moved = <<>>
  /\ pc' = "idle" /\ Leave
  /\ UNCHANGED <<archive, collected, catalog, plans, index, precommit, result>>

\* An interrupt before the try or during the rollback only releases the lock.
Abort ==
  /\ "abort" \in Faults
  /\ pc \in {"verify", "rollback", "rollback_unlink"}
  /\ pc' = "idle" /\ Leave
  /\ UNCHANGED <<archive, collected, catalog, plans, index, precommit, result>>

-----------------------------------------------------------------------------
\* The holder dies: its memory is gone, the lock directory stays.
Crash ==
  /\ "crash" \in Faults
  /\ pc \notin {"idle", "stale"}
  /\ pc' = "stale" /\ Leave
  /\ UNCHANGED <<archive, collected, catalog, plans, index, precommit, result>>

\* The operator removes the stale lock; nothing else is repaired.
OperatorClears ==
  /\ pc = "stale"
  /\ pc' = "idle"
  /\ UNCHANGED <<archive, collected, catalog, plans, index, precommit, result, local>>

Collect ==
  \/ \E k \in Keys, q \in BOOLEAN : CollectStart(k, q)
  \/ WriteRaw \/ WriteCurated \/ RegisterPair \/ SymbolFails
  \/ RecordRun \/ CollectAborts

Plan ==
  \/ \E policy \in Policies, K \in (SUBSET Keys) \ {{}} :
       \/ SealAgain(policy, K)
       \/ \E p \in PlanIds : SealPlan(policy, K, p) \/ SealTorn(policy, K, p)
  \/ IndexPlan \/ IndexFails

Execute ==
  \/ \E p \in PlanIds : ExecStart(p) \/ ExecAgain(p)
  \/ Verify \/ Drift
  \/ \E f \in Files : Keep(f) \/ Rename(f) \/ Link(f)
  \/ Unlink \/ UnlinkFails
  \/ \E a \in Attempts : Precommit(a)
  \/ Commit \/ Mark \/ CommitInterrupted \/ Publish \/ PublishFails
  \/ Error \/ RollbackRename \/ RollbackLink \/ RollbackUnlink \/ RollbackFails
  \/ Fail \/ FailUnrecorded \/ Abort

Next == Collect \/ Plan \/ Execute \/ Crash \/ OperatorClears

Spec == Init /\ [][Next]_vars

\* The step the lock holder takes when nothing goes wrong.
Proceed ==
  \/ WriteRaw \/ WriteCurated \/ RegisterPair \/ RecordRun
  \/ IndexPlan
  \/ Verify \/ Drift
  \/ \E f \in Files : Keep(f) \/ Rename(f) \/ Link(f)
  \/ Unlink \/ (\E a \in Attempts : Precommit(a)) \/ Commit \/ Mark \/ Publish
  \/ RollbackRename \/ RollbackLink \/ RollbackUnlink \/ Fail

\* A live process goes on, the operator looks after a stale lock, an
\* unpublished SUCCESS is retried, and publication does not fail every time.
FairSpec ==
  /\ Spec
  /\ WF_vars(Proceed) /\ WF_vars(OperatorClears)
  /\ \A p \in PlanIds : /\ SF_vars(ExecAgain(p) /\ att' \notin result)
                        /\ SF_vars(cur = p /\ Publish)

-----------------------------------------------------------------------------
(***************************************************************************)
(* Properties                                                              *)
(***************************************************************************)
Shapes ==
  /\ active \subseteq Files /\ written \subseteq Files
  /\ quar \in [PlanIds -> SUBSET Files]
  /\ collected \in 0 .. MaxUnits
  /\ key \in [Units -> Keys]
  /\ good \subseteq Units /\ registered \subseteq Units
  /\ run \in [Units -> {"none", "ok", "failed"}]
  /\ planFile \in [PlanIds -> {"absent", "torn", "sealed"}]
  /\ plan \in [PlanIds -> Content]
  /\ state \in [PlanIds -> {"NONE", "PLANNED", "EXECUTING", "FAILED", "SUCCESS"}]
  /\ pointer \in [PlanIds -> 0 .. MaxAttempts]
  /\ precommit \in [Attempts -> 0 .. MaxPlans]
  /\ result \subseteq Attempts
  /\ pc \in Steps
  /\ cur \in 0 .. MaxPlans
  /\ todo \subseteq Files
  /\ moved \in Seq(Files)
  /\ retry \in BOOLEAN
  /\ att \in 0 .. MaxAttempts

\* Every variable keeps its shape, and only a plan whose file is whole is in the
\* Catalog's index: _write_immutable writes it in place, a writer may die half-way,
\* and the same plan may be asked for again over what that writer left.
TypeOK == Shapes /\ \A p \in PlanIds : state[p] # "NONE" => planFile[p] = "sealed"

\* Whatever is interrupted, no collected byte is lost or orphaned: a file that
\* left the active archive is named in the quarantine of a plan that selected it
\* and was begun (link before unlink in _move_file, both ways).
Traceable ==
  \A f \in written \ active :
    \E p \in PlanIds : /\ f \in quar[p] /\ f[1] \in plan[p].targets
                       /\ state[p] \in {"EXECUTING", "FAILED", "SUCCESS"}

\* A SUCCESS row tells the truth about the file system, between the operations
\* and during them: every selected file is in that plan's quarantine and none is
\* active ("Interrupted or partially rolled-back work never becomes SUCCESS").
SuccessMeansQuarantined ==
  \A p \in Committed : /\ FilesOf(plan[p].targets) \subseteq quar[p]
                       /\ FilesOf(plan[p].targets) \cap active = {}

\* A terminal result exists only for a committed plan, and it is the one its row
\* names, however often the plan was tried before (at most one per plan).
ResultAfterCommit ==
  \A a \in result : \E p \in Committed : precommit[a] = p /\ pointer[p] = a

\* No physical pair is purged by two committed operations, which the planner
\* would have to refuse for ever as ambiguous.
OneClaim == \A u \in Units : \A p, q \in Claims(u) : p = q

\* When the lock is free again after an ordinary failure, the failed attempt has
\* put every file back (only exceptions in the forward steps occur in that run).
FailureRestores ==
  pc = "idle" => \A p \in PlanIds : state[p] # "SUCCESS" => quar[p] = {}

\* A pair that is gone from the archive is gone for every plan: the quarantine of
\* a committed plan never loses a file again and never gains one.
QuarantineSettled ==
  [][\A p \in PlanIds : state[p] = "SUCCESS" => quar'[p] = quar[p]]_vars

\* What a reader of a key should get: the latest collected snapshot that passed.
Served(k) ==
  LET sound == {u \in Units \cap good : /\ key[u] = k /\ run[u] = "ok"
                                       /\ <<u, "curated">> \in active}
  IN {u \in sound : \A v \in sound : v <= u}

\* Nothing a SUPERSEDED_ONLY attempt does, its rollback included, changes what a
\* reader of any key is served.
ServedUnchanged ==
  [][cur # 0 /\ plan[cur].policy = "SUPERSEDED_ONLY" =>
       \A k \in Keys : Served(k)' = Served(k)]_vars

\* When an EXACT_SCOPE plan commits, nothing of its reviewed scope is active any
\* more: no file arrived between the review and the move.
ScopeEmptied ==
  [][\A p \in PlanIds :
       /\ state[p] # "SUCCESS" /\ state'[p] = "SUCCESS"
       /\ plan[p].policy = "EXACT_SCOPE"
       => \A f \in active : key[f[1]] \notin plan[p].scope]_vars

\* Every operation gives the lock back, crash or not: no check that follows the
\* moves can fail and leave the holder without a next step.
EveryOperationEnds == pc # "idle" ~> pc = "idle"

\* A committed purge whose publication was interrupted is published in the end,
\* by an idempotent retry.
EventuallyPublished ==
  \A p \in PlanIds : state[p] = "SUCCESS" ~> \E a \in result : precommit[a] = p

-----------------------------------------------------------------------------
(***************************************************************************)
(* What the purge looks like from outside.                                 *)
(***************************************************************************)
Ledger == INSTANCE PurgeLedger WITH
  stored    <- {u \in registered : run[u] # "none"},
  reviewed  <- {p \in PlanIds : planFile[p] = "sealed"},
  selection <- [p \in PlanIds |-> IF planFile[p] = "sealed"
                                  THEN plan[p].targets ELSE {}],
  purged    <- Committed,
  reported  <- {precommit[a] : a \in result}

\* Half-moved files, attempts, rollbacks and retries do not show: each step of
\* the code is one step of PurgeLedger or none.
ImplementsLedger == Ledger!Spec

=============================================================================
