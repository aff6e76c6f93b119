------------------------------ MODULE Backfill ------------------------------
(***************************************************************************)
(* History backfill, the collection of one day for several symbols that it *)
(* repeats, and the recovery from Raw (market_vault/backfill.py,           *)
(* service.py, raw_recovery.py), over the run tables of the Catalog and    *)
(* the local trading calendar.                                             *)
(*                                                                         *)
(* Both operations run under the lifecycle lock, so one is under way       *)
(* at a time (LifecycleLock); the calendar is collected without it, hence  *)
(* also between two queries of one plan.  An operation may stop at every   *)
(* step: a crash, or an interrupt, which the backfill passes on.  Both     *)
(* leave the tables and files as they are; the lock is then free, by its   *)
(* own exit or by the operator.                                            *)
(***************************************************************************)
EXTENDS CalendarCoverage, FiniteSets

CONSTANTS
  Symbols,
  Commands,    \* backfill commands: their arguments, see Arguments
  LastDay,     \* the natural days are 1 .. LastDay, all in the past
  Answers,     \* the trading days the exchange may name: a set of sets of days
  MaxBatches,  \* bound: calendar batches
  MaxRuns,     \* bound: collection runs
  MaxRetries   \* --max-retries

Days == 1 .. LastDay

\* Arguments the entry checks of the backfill accept; low is the start date,
\* or in incremental mode the bootstrap date, 0 when it is left out.
Arguments ==
  {c \in [asked : SUBSET Symbols \ {{}}, incremental : BOOLEAN, force : BOOLEAN,
          low : 0 .. LastDay, end : Days] :
     ~c.incremental => 1 <= c.low /\ c.low <= c.end}

ASSUME SymbolAssumption == IsFiniteSet(Symbols)
ASSUME DayAssumption   == LastDay \in Nat \ {0} /\ Answers \subseteq SUBSET Days
ASSUME CommandAssumption == Commands \subseteq Arguments
ASSUME BoundAssumption == {MaxBatches, MaxRuns, MaxRetries} \subseteq Nat

VARIABLES
  calendar,  \* batches of the scope, oldest first
  runs,      \* market-bar runs, by run id
  pc,        \* where the operation under way is; "idle" if there is none
  cmd,       \* its arguments
  plan,      \* BackfillPlan
  manifest,  \* DatasetRunManifest, kept after the operation returned it
  at         \* the loop variables: trade_date, attempt, remaining_symbols, and
             \* the symbols the child run, or the plan, has not come to yet

op   == <<pc, cmd, plan, manifest, at>>
vars == <<calendar, runs, op>>

Items   == Symbols \X Days
RunIds  == 1 .. MaxRuns
Batches == [from : Days, to : Days, days : SUBSET Days]
Runs    == [day : Days, asked : SUBSET Symbols,
            raw : SUBSET Symbols,    \* symbols with a Raw file
            pairs : SUBSET Symbols,  \* market_bar_snapshot_pairs, made after the
                                     \* Raw and the Curated file were verified
            bad : BOOLEAN,           \* a bar quality check failed
            json : BOOLEAN,          \* the manifest and report files
            fail : BOOLEAN,          \* a FAIL row in quality_results
            row : BOOLEAN]           \* the row in ingestion_runs
ChildPlaces == {"attempt", "collect", "quality", "run", "returned"}
PlanPlaces  == {"starts", "gap", "dates"}
Places      == {"idle", "refused", "loop"} \union PlanPlaces \union ChildPlaces

NoCmd      == [name |-> "none", asked |-> {}, incremental |-> FALSE, force |-> FALSE,
               end |-> 0]
NoPlan     == [start |-> [s \in Symbols |-> 0],
               seen |-> 0,  \* how many batches there were at its last query of them
               pending |-> {}, skipped |-> {}]
NoManifest == [success |-> {}, failed |-> {}, children |-> {}, status |-> "none"]
NoLoop     == [day |-> 0, attempt |-> 0, remaining |-> {}, left |-> {}]

TypeOK ==
  /\ calendar \in Seq(Batches) /\ Len(calendar) <= MaxBatches
  /\ runs \in Seq(Runs) /\ Len(runs) <= MaxRuns
  /\ pc \in Places
  /\ cmd \in [name : {"none", "backfill", "recover"}, asked : SUBSET Symbols,
              incremental : BOOLEAN, force : BOOLEAN, end : 0 .. LastDay]
  /\ plan \in [start : [Symbols -> 0 .. LastDay + 1], seen : 0 .. MaxBatches,
               pending : SUBSET Items, skipped : SUBSET Items]
  /\ manifest \in [success : SUBSET Items, failed : SUBSET Items, children : SUBSET RunIds,
                   status : {"none", "SUCCESS", "PARTIAL", "FAILED"}]
  /\ at \in [day : 0 .. LastDay, attempt : 0 .. MaxRetries, remaining : SUBSET Symbols,
             left : SUBSET Symbols]

Init ==
  /\ calendar = <<>> /\ runs = <<>> /\ pc = "idle"
  /\ cmd = NoCmd /\ plan = NoPlan /\ manifest = NoManifest /\ at = NoLoop

Least(S)    == CHOOSE x \in S : \A y \in S : x <= y
Greatest(S) == CHOOSE x \in S : \A y \in S : x >= y

-----------------------------------------------------------------------------
(***************************************************************************)
(* The Catalog                                                             *)
(***************************************************************************)
\* The status a run is recorded with.
RunStatus(r) == IF r.pairs = {} THEN "FAILED"
                ELSE IF r.pairs # r.asked \/ r.bad THEN "PARTIAL" ELSE "SUCCESS"

\* The symbols of a run that completed_market_bar_items counts.  The binding
\* predicate compares pairs with the symbols of the row, which are the pairs.
CompleteIn(r) ==
  IF r.row /\ RunStatus(r) \in {"SUCCESS", "PARTIAL"} /\ ~r.fail
  THEN r.pairs ELSE {}

CompletedItems == {i \in Items : \E r \in DOMAIN runs : runs[r].day = i[2]
                                                      /\ i[1] \in CompleteIn(runs[r])}

CompletedDates(s, end) == {d \in 1 .. end : <<s, d>> \in CompletedItems}

\* collect_trading_calendar; an empty answer or an error writes nothing.
Capture(from, to, answer) ==
  /\ Len(calendar) < MaxBatches /\ from <= to
  /\ answer \intersect (from .. to) # {}
  /\ calendar' = Append(calendar, [from |-> from, to |-> to,
                                   days |-> answer \intersect (from .. to)])
  /\ UNCHANGED <<runs, op>>

-----------------------------------------------------------------------------
(***************************************************************************)
(* plan_history_backfill                                                   *)
(***************************************************************************)
Uncovered(from, end) == MissingRanges(from, end, RequestedRanges(calendar, from, end))

\* latest_completed_market_bar_dates; 0 for a symbol without a history.
Latest(s, end) == IF CompletedDates(s, end) = {} THEN 0 ELSE Greatest(CompletedDates(s, end))

\* The symbols whose start depends on the calendar.
Continued(c) == IF c.incremental THEN {s \in c.asked : Latest(s, c.end) # 0} ELSE {}

\* The command and the query of the latest completed dates.  The others start at
\* the start date or the bootstrap date, which must then be given.
BackfillBegin(c) ==
  /\ pc = "idle"
  /\ cmd' = [name |-> "backfill", asked |-> c.asked, incremental |-> c.incremental,
             force |-> c.force, end |-> c.end]
  /\ IF c.low = 0 /\ Continued(c) # c.asked
     THEN pc' = "refused" /\ plan' = NoPlan /\ at' = NoLoop
     ELSE /\ pc' = "starts"
          /\ plan' = [NoPlan EXCEPT !.start =
               [s \in Symbols |-> IF s \in c.asked \ Continued(c) THEN c.low ELSE 0]]
          /\ at' = [NoLoop EXCEPT !.left = Continued(c)]
  /\ manifest' = NoManifest
  /\ UNCHANGED <<calendar, runs>>

StartsAt(s, day) ==
  /\ plan' = [plan EXCEPT !.start[s] = day, !.seen = Len(calendar)]
  /\ at' = [at EXCEPT !.left = @ \ {s}, !.remaining = {}]
  /\ pc' = "starts"

\* The first query for a symbol with a history, in any order: the next known
\* trading date.  Without one, it is caught up or a second query is needed.
NextDate(s) ==
  /\ pc = "starts" /\ s \in at.left
  /\ LET next == DatesAfter(calendar, Latest(s, cmd.end), cmd.end)
     IN  IF next # {} THEN StartsAt(s, Least(next))
         ELSE IF Latest(s, cmd.end) >= cmd.end THEN StartsAt(s, cmd.end + 1)
         ELSE pc' = "gap" /\ at' = [at EXCEPT !.remaining = {s}] /\ UNCHANGED plan
  /\ UNCHANGED <<calendar, runs, cmd, manifest>>

\* The second query: the calendar must have been asked about the days left.
Gap(s) ==
  /\ pc = "gap" /\ s \in at.remaining
  /\ IF Uncovered(Latest(s, cmd.end) + 1, cmd.end) # {}
     THEN pc' = "refused" /\ UNCHANGED <<plan, at>>
     ELSE StartsAt(s, cmd.end + 1)
  /\ UNCHANGED <<calendar, runs, cmd, manifest>>

Starts == {plan.start[s] : s \in cmd.asked} \intersect (1 .. cmd.end)

\* Every natural day from the first start on must have been asked for.
PlanCoverage ==
  /\ pc = "starts" /\ at.left = {}
  /\ pc' = IF Starts = {} THEN "loop"
           ELSE IF Uncovered(Least(Starts), cmd.end) # {} THEN "refused"
           ELSE "dates"
  /\ plan' = IF Starts = {} THEN plan ELSE [plan EXCEPT !.seen = Len(calendar)]
  /\ UNCHANGED <<calendar, runs, cmd, manifest, at>>

\* Faulty variant: only a SUCCESS run completes its items.
SkippedOfSuccess(all) ==
  IF cmd.force THEN {}
  ELSE {i \in all : \E r \in DOMAIN runs : /\ runs[r].day = i[2] /\ i[1] \in CompleteIn(runs[r])
                                          /\ RunStatus(runs[r]) = "SUCCESS"}
\* The items that need not be collected again.
Skipped(all) == IF cmd.force THEN {} ELSE all \intersect CompletedItems

PlanDates ==
  /\ pc = "dates"
  /\ LET dates == TradingDates(calendar, Least(Starts), cmd.end)
         all   == {i \in cmd.asked \X dates : i[2] >= plan.start[i[1]]}
     IN  plan' = [plan EXCEPT !.pending = all \ Skipped(all), !.skipped = Skipped(all),
                              !.seen = Len(calendar)]
  /\ pc' = "loop"
  /\ UNCHANGED <<calendar, runs, cmd, manifest, at>>

\* An exception in the plan ends it like a refusal.
PlanRaises ==
  /\ pc \in PlanPlaces
  /\ pc' = "refused"
  /\ UNCHANGED <<calendar, runs, cmd, plan, manifest, at>>

-----------------------------------------------------------------------------
(***************************************************************************)
(* _collect_history_locked: one run of one day for several symbols         *)
(***************************************************************************)
Run == Len(runs)  \* the run under way is the newest one

OpenRun(day, S) ==
  runs' = Append(runs, [day |-> day, asked |-> S, raw |-> {}, pairs |-> {},
                        bad |-> FALSE, json |-> FALSE, fail |-> FALSE, row |-> FALSE])

\* recover_history_from_raw: a fresh run from a retained manifest file and Raw
\* files, of all the symbols of that manifest or of some.
RecoverBegin(r, S) ==
  /\ pc = "idle" /\ Len(runs) < MaxRuns
  /\ r \in DOMAIN runs /\ runs[r].json
  /\ S # {} /\ S \subseteq runs[r].asked \intersect runs[r].raw
  /\ OpenRun(runs[r].day, S)
  /\ pc' = "collect"
  /\ cmd' = [NoCmd EXCEPT !.name = "recover"]
  /\ plan' = NoPlan /\ manifest' = NoManifest
  /\ at' = [NoLoop EXCEPT !.day = runs[r].day, !.left = S]
  /\ UNCHANGED calendar

\* An attempt of the backfill.
AttemptBegin ==
  /\ pc = "attempt" /\ Len(runs) < MaxRuns
  /\ OpenRun(at.day, at.remaining)
  /\ pc' = "collect"
  /\ at' = [at EXCEPT !.left = at.remaining]
  /\ UNCHANGED <<calendar, cmd, plan, manifest>>

\* How far one symbol gets: no usable data, Raw (and maybe Curated) written,
\* both verified and registered.  Its exception does not end the run.
Collect(s, got) ==
  /\ pc = "collect" /\ s \in at.left
  /\ runs' = [runs EXCEPT
       ![Run].raw   = IF got = "nothing" THEN @ ELSE @ \union {s},
       ![Run].pairs = IF got = "pair" THEN @ \union {s} ELSE @]
  /\ at' = [at EXCEPT !.left = @ \ {s}]
  /\ UNCHANGED <<calendar, pc, cmd, plan, manifest>>

\* Faulty variant: the run row is written before the quality rows.
RunFirst == [collect |-> "run", run |-> "quality", quality |-> "returned"]
\* The order of the durable steps after the symbols.
After    == [collect |-> "quality", quality |-> "run", run |-> "returned"]

\* All symbols together are checked, then the manifest, the report and, for a
\* recovery, the lineage are written.  Without a symbol nothing is checked.
WriteEvidence(bad) ==
  /\ pc = "collect" /\ at.left = {}
  /\ bad => runs[Run].pairs # {}
  /\ runs' = [runs EXCEPT ![Run].bad = bad, ![Run].json = TRUE]
  /\ pc' = After["collect"]
  /\ UNCHANGED <<calendar, cmd, plan, manifest, at>>

RecordQuality ==
  /\ pc = "quality"
  /\ runs' = [runs EXCEPT ![Run].fail = runs[Run].bad]
  /\ pc' = After["quality"]
  /\ UNCHANGED <<calendar, cmd, plan, manifest, at>>

RecordRun ==
  /\ pc = "run"
  /\ runs' = [runs EXCEPT ![Run].row = TRUE]
  /\ pc' = After["run"]
  /\ UNCHANGED <<calendar, cmd, plan, manifest, at>>

-----------------------------------------------------------------------------
(***************************************************************************)
(* The loop of the backfill                                                *)
(***************************************************************************)
OpenDays == {i[2] : i \in {p \in plan.pending : p[2] > at.day}}

NextDay ==
  /\ pc = "loop" /\ OpenDays # {}
  /\ LET day == Least(OpenDays)
     IN  at' = [day |-> day, attempt |-> 0, left |-> {},
                remaining |-> {s \in Symbols : <<s, day>> \in plan.pending}]
  /\ pc' = "attempt"
  /\ UNCHANGED <<calendar, runs, cmd, plan, manifest>>

\* Faulty variant: the attempts are not counted.
AgainUncounted(remaining) ==
  /\ at' = [at EXCEPT !.remaining = remaining, !.left = {}]
  /\ pc' = "attempt"
\* What remains is tried again, and counted as failed after the last attempt.
Again(remaining) ==
  /\ at' = [at EXCEPT !.attempt = @ + 1, !.remaining = remaining, !.left = {}]
  /\ pc' = "attempt"

DayOver(remaining) ==
  /\ at' = [at EXCEPT !.attempt = 0, !.remaining = {}, !.left = {}]
  /\ pc' = "loop"

\* Faulty variant: one attempt too many.
LastAttemptPlusOne == at.attempt > MaxRetries
LastAttempt        == at.attempt >= MaxRetries

Attempted(remaining, success) ==
  LET over == remaining = {} \/ LastAttempt
  IN  /\ manifest' = [manifest EXCEPT
           !.success  = @ \union (success \X {at.day}),
           !.failed   = IF over THEN @ \union (remaining \X {at.day}) ELSE @,
           !.children = IF pc = "returned" THEN @ \union {Run} ELSE @]
      /\ IF over THEN DayOver(remaining) ELSE Again(remaining)

\* Faulty variant: only what the child reports as failed is tried again.
StillMissingUnchecked(r) == r.asked \ r.pairs
\* A FAIL of the checks cannot be pinned on a symbol, so all of them remain.
StillMissing(r) == IF r.fail THEN r.asked ELSE r.asked \ r.pairs

\* The child run returned.
ChildReturned ==
  /\ pc = "returned" /\ cmd.name = "backfill"
  /\ Attempted(StillMissing(runs[Run]), runs[Run].asked \ StillMissing(runs[Run]))
  /\ UNCHANGED <<calendar, runs, cmd, plan>>

\* An exception out of the child run, or out of run_has_quality_fail after it.
ChildRaises ==
  /\ pc \in ChildPlaces /\ cmd.name = "backfill"
  /\ Attempted(at.remaining, {})
  /\ UNCHANGED <<calendar, runs, cmd, plan>>

\* The recovery returns, or passes its exception on.
RecoverEnds ==
  /\ pc \in ChildPlaces /\ cmd.name # "backfill"
  /\ pc' = "idle" /\ cmd' = NoCmd /\ at' = NoLoop
  /\ UNCHANGED <<calendar, runs, plan, manifest>>

\* _finish_backfill_manifest.
FinalStatus ==
  IF manifest.success = {} /\ plan.skipped = {}
  THEN IF pc # "refused" /\ manifest.failed = {} THEN "SUCCESS" ELSE "FAILED"
  ELSE IF manifest.failed # {} THEN "PARTIAL" ELSE "SUCCESS"

Finish ==
  /\ pc = "refused" \/ (pc = "loop" /\ OpenDays = {})
  /\ manifest' = [manifest EXCEPT !.status = FinalStatus]
  /\ pc' = "idle" /\ at' = NoLoop
  /\ UNCHANGED <<calendar, runs, cmd, plan>>

\* A crash or an interrupt.
Stop ==
  /\ pc # "idle"
  /\ pc' = "idle" /\ cmd' = NoCmd /\ plan' = NoPlan /\ manifest' = NoManifest /\ at' = NoLoop
  /\ UNCHANGED <<calendar, runs>>

-----------------------------------------------------------------------------
Step ==
  \/ \E s \in Symbols : NextDate(s) \/ Gap(s)
  \/ PlanCoverage \/ PlanDates \/ PlanRaises
  \/ AttemptBegin
  \/ \E s \in Symbols, got \in {"nothing", "raw", "pair"} : Collect(s, got)
  \/ \E bad \in BOOLEAN : WriteEvidence(bad)
  \/ RecordQuality \/ RecordRun
  \/ NextDay \/ ChildReturned \/ ChildRaises \/ RecoverEnds \/ Finish

Next ==
  \/ Step \/ Stop
  \/ \E from, to \in Days, answer \in Answers : Capture(from, to, answer)
  \/ \E c \in Commands : BackfillBegin(c)
  \/ \E S \in SUBSET Symbols, r \in RunIds : RecoverBegin(r, S)

Spec == Init /\ [][Next]_vars

-----------------------------------------------------------------------------
(***************************************************************************)
(* Properties                                                              *)
(***************************************************************************)
\* What a manifest says of each planned item is true, whatever failed, was
\* repeated or raised on the way: a successful item is complete through one of
\* the manifest's own children, a skipped item is complete, and at the end each
\* planned item is successful or failed and not both.
\* (_collect_history_backfill_locked_operation)
OutcomeIsTrue ==
  /\ \A i \in manifest.success :
       \E r \in manifest.children : runs[r].day = i[2] /\ i[1] \in CompleteIn(runs[r])
  /\ plan.skipped \subseteq CompletedItems
  /\ manifest.success \intersect manifest.failed = {}
  /\ manifest.status # "none" => plan.pending = manifest.success \union manifest.failed

\* A SUCCESS manifest leaves nothing open between the start of each symbol and
\* the end date: each natural day there was asked of the exchange, and if the
\* newest batch that asked about it names it, the item is complete.
\* (plan_history_backfill, missing_coverage_ranges, trading_calendar_latest)
Named(i, d) == /\ d \in calendar[i].days
               /\ \A j \in (i + 1) .. plan.seen : ~Covers(calendar[j], d)
SuccessIsComplete ==
  manifest.status = "SUCCESS" =>
    \A s \in cmd.asked : \A d \in plan.start[s] .. cmd.end :
      /\ \E i \in 1 .. plan.seen : Covers(calendar[i], d)
      /\ (\E i \in 1 .. plan.seen : Named(i, d)) => <<s, d>> \in CompletedItems

\* No item is ever served through a run whose checks failed, not even for the
\* moment between two of the collector's writes or after a crash there.
\* (record_quality before record_run, _collect_history_locked)
FailedChecksNeverServed ==
  \A r \in DOMAIN runs : runs[r].bad => CompleteIn(runs[r]) = {}

\* Running the same command again resumes it: a plan that does not force starts
\* each day with exactly the items of the plan that are still missing, and no
\* attempt asks again for what this backfill has obtained.
\* (docs/USER_GUIDE.md, the plan and the attempt loop of backfill.py)
AsksMissing ==
  [][pc = "attempt" /\ pc' = "collect" =>
       /\ (at.attempt = 0 /\ ~cmd.force) =>
            (at.remaining \X {at.day}) \intersect CompletedItems = {}
       /\ (at.remaining \X {at.day}) \intersect (manifest.success \union manifest.failed) = {}]_vars

\* Every operation that is started ends, however its child runs fail: each of
\* its steps lowers a natural number, what the days, the attempts of a day and
\* the places of an attempt still leave to do.
\* (the loops of _collect_history_backfill_locked_operation)
Place(name) ==
  CASE name = "attempt" -> Cardinality(Symbols) + 4
    [] name = "collect" -> Cardinality(at.left) + 3
    [] name = "quality" -> 2
    [] name = "run"     -> 1
    [] OTHER            -> 0
PerAttempt == Cardinality(Symbols) + 5
PerDay     == (MaxRetries + 1) * PerAttempt + 1
ToDo ==
  CASE pc = "idle"      -> 0
    [] pc = "refused"   -> 1
    [] pc = "dates"     -> LastDay * PerDay + 2
    [] pc = "gap"       -> LastDay * PerDay + 2 * Cardinality(at.left) + 2
    [] pc = "starts"    -> LastDay * PerDay + 2 * Cardinality(at.left) + 3
    [] OTHER -> Cardinality(OpenDays) * PerDay + 1
                + (IF pc = "loop" THEN 0
                   ELSE (MaxRetries - at.attempt) * PerAttempt + Place(pc) + 1)
EachStepNears == [][pc # "idle" /\ op' # op => ToDo' < ToDo /\ ToDo' \in Nat]_vars

\* A symbol that a SUCCESS backfill takes for caught up has no trading day left:
\* the calendar its plan was made from names none after its latest completed date.
\* (plan_history_backfill: "The range after the latest completed date was already
\* queried and contains no trading days: caught up.")
CaughtUp(s) == /\ cmd.incremental /\ Latest(s, cmd.end) # 0
               /\ plan.start[s] > cmd.end
CaughtUpIsTrue ==
  manifest.status = "SUCCESS" =>
    \A s \in cmd.asked : CaughtUp(s) =>
      \A d \in (Latest(s, cmd.end) + 1) .. cmd.end, i \in 1 .. plan.seen : ~Named(i, d)
=============================================================================
