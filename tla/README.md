# MarketVault in TLA+

MarketVault is a local archive of market data: it collects bars from a broker
gateway into Parquet files and a DuckDB catalog, purges what is no longer wanted
under a reviewed plan, derives immutable research artifacts from what is stored,
and can place one simulated paper order to qualify an account. The package is
`src/src/market_vault/`; its contracts are under `src/docs/`.

The project models the parts of it where order matters: operations that change
several things which no transaction covers, processes that can die between two
steps, and an external service whose answers can be lost. The models are written
from the code; paths and lines of each definition are in `PROJECT.json`.

## Inventory

| Component | State it keeps | Operations | What is hard |
|---|---|---|---|
| Market-bar lifecycle lock (`lifecycle.py`) | a directory, `owner.json` | acquire, release | taken and left one system call at a time; never reclaimed; crashes leave it with, without or with a torn owner file |
| Safe Purge (`purge.py`) | plan files, quarantine directories, staging, precommits, terminal results | plan, execute, rollback, retry | a move of many files and a Catalog commit with no common transaction; interrupted rollback; retry of attempts; stale reviews |
| Market-bar collection (`service.py`) | Raw and Curated files, pair and run rows | collect_history | files, pair, quality and run rows are written in turn; failures per symbol |
| Catalog (`storage/catalog.py`) | DuckDB tables and views | registration, ranking of complete snapshots, purge state machine | which snapshot is served depends on rows *and* on which files exist |
| Backfill (`backfill.py`) | a manifest | plan missing dates, one child run per date, retries | child runs that fail their checks or raise; interrupts; a calendar that changes between two queries of a plan; a SUCCESS that must leave no hole |
| Raw recovery (`raw_recovery.py`) | a new run made from retained Raw files | recover | replay next to what is already registered |
| Atomic file storage (`storage/atomic_file.py`, `parquet_store.py`) | one file and its temporary sibling | no-replace publication | interrupt around the link; ownership of the temporary; two writers |
| Simulated paper orders (`moomoo_simulation_orders.py`, `_recovery.py`) | an SQLite journal | submit, observe, cancel, recover, baseline, reconcile, stop | lost answers, late queries, commands that race or die, a stop that must hold |
| Paper qualifier (`moomoo_simulation_qualifier.py`) | the same journal, a report | prepare, submit, check, stop | chains the operations above and stops after a failure |
| Observation, canonical, cross-day and dataset artifacts | content-addressed directories | materialize, load | staging and no-replace rename of a directory; two builders, of whom one must clean up after itself only |
| Trading calendar and options (`service.py`, catalog views) | Parquet batches, views | collect, refresh | newest-batch selection; coverage ranges |
| Console and desktop (`console/`, `desktop/`) | task state, the reviewed plan id, what each page shows | submit, poll, review, execute, analyse, shutdown | a worker thread against the GUI thread; a scope or a selection that changes while the answer to the old one is computed |
| Normalization, quality, coverage, research, backtest | none | pure functions | numerical content |

How they interact: every operation that changes the market-bar archive
(`collect_history`, the backfill as a whole, `purge_plan`, `purge_execute`, raw
recovery) runs under the lifecycle lock, so the lock is what turns several
processes into one sequence of operations; a crash is what breaks it. The purge
reads from the Catalog what the collector wrote and from the file system what
is still there; the console and the desktop call the purge and hold the one
plan that was reviewed. The paper commands share a journal, whose transactions
are atomic, and a broker account, and nothing else of the package.

What makes each component correct, in a sentence:

- the lock: one operation at a time, never taken from a live holder, not lost for ever;
- the purge: no byte is lost, a committed purge is complete and stays so, a
  failed one leaves nothing behind it cannot continue from, what was reviewed is
  what happens, and it is reported only after it happened;
- the collection: a run that looks complete is complete;
- the backfill: a manifest that is true item by item, a SUCCESS without a hole,
  nothing asked for twice, nothing served that failed its checks;
- publication of a file or a build: the path is bound once, to something whole,
  each writer is told the truth and removes its own temporary only;
- the desktop: what is executed is what was reviewed for the scope shown, what is
  shown belongs to the selection, and a selection is answered;
- the paper journal: one order in its life and none without its preparation, no
  claim that is not true, an outcome that is found in the end, a stop that stops.

## Plan

| Module | Models | Composition | Status |
|---|---|---|---|
| `LifecycleLock` | acquire, release, the operator | implements `Reservation` | checked, proved |
| `SafePurge` | collection of one symbol per run, plan, execute, rollback, retry | relies on what `LifecycleLock` shows; implements `PurgeLedger` | checked, safety and refinement proved |
| `PaperOrders` | the paper commands, the journal, an external broker | implements `PaperRisk` | checked, safety and refinement proved |
| `PaperQualifier` | prepare, submit, check, stop | composed of `PaperOrders`, implements it | checked, safety proved |
| `CalendarCoverage` | calendar views, merged and missing ranges | pure; used by `Backfill` | checked through `Backfill`, range arithmetic proved |
| `Backfill` | plan, child runs with several symbols, retries, manifest, raw recovery, calendar collection | extends `CalendarCoverage` | checked, safety and termination proved |
| `TaskRuntime` | desktop runtime and serial task runner | used by `DesktopPages` | through `DesktopPages` |
| `DesktopPages` | storage page with the reviewed plan id, research page | extends `TaskRuntime` | checked, safety proved |
| `NoReplace` | publication of a file and of four kinds of directories, any number of writers | implements `Publication` | checked, proved |

Each component has a module of its own; `MC*` modules hold the symmetry sets and
the constants a configuration cannot write, `*_proofs` the theorems.

Every safety and action property a passing run checks is also a theorem; of the
refinements, all five are. What is left is breadth: the hazards of `PROJECT.json`
without a property (a run registered by a collection that dies before its row, two
recoveries that append out of order, an exact plan that crashes with a winner in
quarantine while a superseded one purges the older pair), and the parts named under "Not modelled".

## Modules

### LifecycleLock, Reservation

`maker` is the process that made the lock directory, `owner` the token in
`owner.json` (`None` without the file, `Torn` before its content is written),
`pc[p]` the next system call of process `p`. `Want`, `Make`/`Blocked`,
`OpenOwner`, `WriteOwner`, `Acquired` are `acquire`; `AcquireFails`,
`UndoUnlink`, `Rmdir` its exception handler, whose `unlink` looks at no token;
`CheckOwner`, `ReleaseUnlink`, `Rmdir` are `release`; `Abandon` is a crash, and
any error that leaves the directory behind. `OperatorClears` is the operator of
the class comment, who removes the directory of a process that no longer uses
it. What the operations rely on is `Reservation`: taken, entered, left, given
back, or abandoned and stale until cleared.

### SafePurge, PurgeLedger

State is grouped as the code's stores: `archive` (files named in the active
archive, in each plan's quarantine, and the history of what was ever written),
`catalog` (keys, quality, pairs, runs), `plans` (immutable plan files), `index`
(rows of `purge_operations`), `precommit` and `result` (evidence files), and
`local`, the variables of the operation in progress.

Because every operation holds the lifecycle lock, these local variables exist
once: `pc = "idle"` is a free lock, `"stale"` one that a crash left, anything
else the next step of its holder. That is exactly what `LifecycleLock` shows.

`Collect` is `_collect_history_locked`: the Raw file, the Curated file, the pair,
the run row, with `SymbolFails` (the exception handler in the loop) and
`CollectAborts` (an interrupt). `Plan` is `purge_plan`: the planner's selection
and refusals are operators over the state (`ExactContent`, `ExactRefused`,
`SupersededContent`, `SupersededRefused`), `SealPlan` writes the plan file,
`SealTorn` dies inside that write, `SealAgain` meets the same content a second
time, `IndexPlan` inserts the row. `Execute` is `purge_execute`: `ExecStart` and
`ExecAgain` take the plan, `Verify`/`Drift` compare it with the archive, `Keep`,
`Rename`, or `Link` then `Unlink`, move one file, `Precommit` verifies and writes
the evidence, `Commit` is the Catalog's transaction, `Mark` the statement
`committed = True` after it, `Publish` the terminal result; `Error` enters the
rollback, which moves `moved_this_attempt` back newest first and can itself fail
file by file (`RollbackFails`), and `Fail` records it.

`PurgeLedger` is what a user is promised: a selection is fixed by its review,
purged as a whole and once, never un-purged, and reported afterwards.

Abstractions. "Served" is what the completion rule of the Catalog
(`complete_market_bar_snapshots`) ranks first for a key, not what the raw
`market_bars` view lists. A run collects one symbol, so a pair is one unit and its number
its rank in time. The bytes and hashes of files are left out: nobody tampers
with them. Left out with them: pre-registry pairs, refused plans (they are
refused before the lock), the evidence of FAILED attempts and the staging
directory, the refresh of views. The bindings of a run never change, as in the
code. Reviews by the console are any plan at any time.

### PaperOrders, PaperRisk

The journal is `intents`, `stopped`, `verdict` (the latest reconciliation),
`baseline`, `notes` (NOT_SENT, UNKNOWN, RECEIPT per intention), `seen` (statuses
recorded) and `cancelled`; the broker is `order`, `of` (the intention in an
order's remark) and `asked` (cancel requests); a command is `pc[p]` and the
record `my[p]` of its local variables.

A transaction of the journal is one step, and so is a call of the broker; between
any two of them other commands and the broker move. `Submit` follows
`PaperExecution.submit`: a first look at the journal, the cash preflight, the
transaction of `reserve`, the note of the call, the flag `attempted`, the last
`require_running` inside `_call`, the call, the receipt, the acknowledgement.
Where an exception or interrupt ends it depends on the flag: `NotSent` or
`Unknown`. `Look` is `observe`, `cancel` and `recover`; `Reconcile` is `baseline`
and `reconcile`, whose order queries bracket an account query. `Stop` commits
the stop and may go on to cancel. `Book`, `TurnDown`, `Fill` and `Expire` are the
broker, modelled from how the code uses it.

`PaperRisk` is the purpose of the journal: a budget of one order, spent once,
never returned, and unusable after a halt.

Abstractions. The account is changed by orders of this journal only, which the
operating rules in `src/docs/MOOMOO_SIMULATION.md` require. One whole share, so
the partial statuses cannot occur; FAILED, DISABLED and DELETED end an order
unfilled like CANCELLED_ALL. Positions are counted, cash is not. The trading
window, limits and the check of the account appear as failures. CANCEL_ACK and
CANCEL_UNKNOWN are not kept: nothing reads them. A command that cannot append
to the journal counts as dead.

### PaperQualifier

`made` says that the journal file exists, `prepared` counts the finished
preparations it records, and `work[p]` is the command of process `p`, the
operation it comes to next and whether the last one gave what it needed. `Prepare`,
`BeginSubmit`, `BeginCheck` and `BeginStop` are the entries of `perform`; `Enter`
starts an operation of `PaperOrders`, `Continue` is any step of it, at whose end
`NextStep` decides as `_connected_action` does; `Raises`, `Interrupt`, `Handle` and
`Finish` are the exception handler and the `finally` clause. Each action contains
one of `PaperOrders` or leaves its variables alone. The recovery command line
(`BeginRecover`) may be used on the same journal; the one that submits without a
preparation is `PaperOrders`' matter.

### CalendarCoverage, Backfill

A calendar is a sequence of batches; `LatestRows` is the view, in which the newest
batch that asked about a day decides on it. A batch is known through its rows only:
when newer batches have superseded all of them, the days it asked about count as
never asked, as in the code, which then refuses to plan. `MergedRanges` and
`MissingRanges` are the code's range arithmetic, folds over sorted ranges, and not
set difference. What they are for is stated by days: by `SuccessIsComplete`, and by
two theorems that say what they return.

`Backfill` has one operation at a time (`pc`, `cmd`, `plan`, `manifest`, `at`): a
backfill or a recovery, both of which hold the lifecycle lock. `Capture` is
`collect_trading_calendar`, which does not take the lock and comes at any moment.
`BackfillBegin`, `NextDate`, `Gap`, `PlanCoverage` and `PlanDates` are
`plan_history_backfill`: the command with its query of the latest completed dates,
then one step per query of the calendar, so that a batch may arrive between any two
of them, also between those of two symbols or of one. `PlanRaises` is each of its
errors. `AttemptBegin`,
`NextDay`, `ChildReturned`, `ChildRaises` and `Finish` are the loop with its
retries and `_finish_backfill_manifest`. A child run is `Collect` symbol by symbol,
then `WriteEvidence`, `RecordQuality`, `RecordRun` in the order of the code.
`RecoverBegin` opens a fresh run over the symbols whose Raw files an earlier run
with a manifest retained. `Stop` is a crash or an interrupt: both leave tables and
files and lose the rest.

Abstractions. An item is a symbol and a day (one bar kind, one session, one
adjustment); all days are in the past. The delay between attempts has no effect on
state. Files of a run are there as soon as its pair is registered.

### TaskRuntime, DesktopPages

`active` and `closed` are the GUI side of `DesktopOperationRuntime`, `work` is the
Future with the operation in it, from `queued` to `done`, and `runner` says whether
`SerialTaskRunner` still counts it as RUNNING, until `Finish`, its callback. The Future is done
before its callback has run: a poll that comes in between takes the result, and the
next submission meets a runner that still says RUNNING and refuses it; the page
shows an error ("rejected"). The runtime accepts nothing while an operation is
active or after it was closed, and closing waits for what runs.

`DesktopPages` puts two pages on it. The storage page: `SetScope`,
`SetConfirmation`, `RequestReview`, `RequestExecute`, and in the worker the two
halves of `preview_purge` (the old plan id is forgotten, the new one stored) and of
`execute_purge`. The research page: `SelectView`, `SelectCandidate`, `Retry` and
`OpenExperiment`, with the analyses the page starts by itself (`Refreshed`,
`Answered`), for the selected candidate or for its cost group. The four analyses
differ in which of the two they are about, which is `Kinds`. `ArchiveChanges` is
another program, which is why a review can be out of date; that the purge then
refuses is `SafePurge`'s matter.

### NoReplace, Publication

Writers publish one target by one of five schemes, as the head of the module lists
them: a temporary file that is linked (`file`), staging directories with an
identity (`owned`, `sealed`) and without (`plain`), and a fixed staging name
(`fixed`). `at` says which object a path shows and `has` what is written of an
object; both belong to the file system and survive a `Crash`. An action is what
happens between two system calls another process can see. Failures are possible
wherever the code makes a call: `Raise` and `Interrupted` lead to the handlers,
whose order of looking, removing and answering is kept. `Replaced` is a program
that puts another object where a temporary was. That nothing is replaced between a
check of the identity and the use that follows at once is assumed (the code cannot
do better); so is that the marker `_SUCCESS` and the members are what a
verification looks for. `Publication` is the promise: bound once, for good, and the
truth about it.

## Runs

| Run | Instance | Shows |
|---|---|---|
| `lock` | 3 processes, 200 states | mutual exclusion, the holder owns directory and token, the lock is free again in the end, and the refinement of `Reservation` |
| `purge_posix` | 1 key, 2 runs, 2 plans, 2 attempts; link + unlink; crashes, exceptions, failing unlinks, the interrupt at the commit; 605,784 states | no file is lost, no result without its commit, a superseded purge never changes what is served, an exact purge empties its scope |
| `purge_windows` | the same bounds; one rename; every fault but the interrupt at the commit; 462,607 states | SUCCESS rows are true, no pair has two claims, a committed quarantine is settled, the refinement of `PurgeLedger` |
| `purge_live` | 2 keys, 2 runs, 1 plan, 2 attempts; exceptions; fair; 143,051 states | a failed attempt restores everything, every operation gives the lock back, a commit is published |
| `purge_interrupt` | 1 key, 1 run, 1 plan | the finding below (a violation) |
| `paper` | 2 commands, 2 intention ids, room for 2 orders, crashes; 528,042 states up to symmetry | one order, true notes and observations, a baseline before the order, a match about an ended order, one cancel request, a stop that holds, the refinement of `PaperRisk` |
| `paper_live` | qualifier and recovery commands one after another, 2 intention ids, failures, interrupts, crashes; fair; 16,177 states | no order without one finished preparation and a match of the submission's own; the end of a booked order is learned, though its receipt was lost |
| `backfill` | 2 symbols, 2 days, 2 calendar batches, 2 runs, 1 retry; 4 commands; about 4 million states up to symmetry | manifests are true, a SUCCESS leaves no hole, failed checks are never served, a rerun asks only for what is missing, each step nears the end |
| `backfill_caught_up` | 1 symbol, 2 days, 2 batches, 2 runs, no retry | a finding below (a violation) |
| `desktop` | 2 scopes, 3 candidates in 2 cost groups; fair; 210,648 states | only what was reviewed for the shown scope is executed, what is shown belongs to the selection, a selection that stays is answered |
| `publication` | 3 writers, each scheme; 74,711 states up to symmetry | the target is whole, a writer with an identity removes its own only, the refinement of `Publication` |
| `publication_fixed` | the same instance | a finding below (a violation) |

The bounds. Two collection runs of one key give the purge a winner and a
superseded pair, or a pair that arrives after the review; two plans let one
interfere with the other or follow it; two attempts, a retry with evidence of
its own. A second key matters to what the first cannot show, a scope of which
only a part is affected, and is given to the smaller run. `FailureRestores` and
the liveness properties are checked without crashes because a crash does leave
files in quarantine, until the plan is executed again. A third
process adds nothing to the lock that two do not show, except a bystander in
`Blocked`, and is there for that. Two commands are what a race needs, and two
intention ids what a second budget would need; `MaxOrders = 2` leaves room for
the order that must not be sent. `paper_live` has one command at a time, which is
what the docs allow ("One writer per runtime journal"); its safety property is
proved for any number of them. Two symbols let a child run succeed for one of
them only, two days a range have a border inside, two runs a retry, a rerun or a
recovery, and two batches supersede each other, or are the
calendar of the first day and the one that comes late. Three candidates are two in
one cost group and one in another, so that a selection can change with and without
its group. Three writers are one who publishes, one who loses, and one who comes in
between. Symmetry is used in `paper`, `backfill` and `publication`, where no
property is a liveness property. `purge_posix` leaves out
the faults inside a rollback (`RollbackFails`, `FailUnrecorded`, `Abort`), which
`purge_windows` has; that no file is lost under them too is a theorem only
(`TraceableAlways`). The `purge_*` and `publication*` runs switch the
deadlock check off: with every bound used up, or every writer done, the system
may stop. The others check for deadlock.

Fairness. `purge_live`: a live holder takes its next step (weak fairness of
`Proceed`), the operator clears a stale lock, and, for each committed plan, the
operator repeats the execution until it is published and publication does not
fail every time (strong fairness, since other operations come in between).
`lock`: a process goes on or dies, the operator gets round to a stale directory.
`paper_live`: a command goes on, the operator repeats `recover` or `check`,
whichever, and it does not fail or die at the same place every time, the broker
decides what it was sent. `desktop`: the GUI timer polls while an operation is
active (`_poll` is restarted until there is none), and the worker thread goes on
with what it has; that analyses do not fail for ever is not assumed, an error shown
is an answer. None of these makes a fault impossible. The termination of backfills
is shown without fairness, by a number that each step lowers (`EachStepNears`).

Each property also has a mutant: a definition of the code changed the way a
plausible mistake would change it (the "Faulty variant" operators in the
modules), under which the property fails. They are listed in `PROJECT.json`.

## Findings

`purge_interrupt`. `commit_purge_operation` has committed when it returns, and
`committed = True` is the next statement (`src/src/market_vault/purge.py:3507`).
A KeyboardInterrupt in between reaches `except BaseException` with `committed`
still false: all files are moved back, `fail_purge_operation` leaves the SUCCESS
row alone, and no retry can finish, because a SUCCESS plan is only published
and its publication finds the quarantine empty.
`src/docs/contracts/safe_purge_v01.md:215` says that interrupted work never
becomes SUCCESS and that an exact retry is idempotent. The proofs of
`SuccessTruthful` and `QuarantineSettles` assume this one fault away, and show
that it is the only one.

`backfill_caught_up`. For a symbol with a history an incremental plan asks the
calendar twice, for the next trading date (`backfill.py:172`) and, if there is none,
for the ranges that were asked about (189). The calendar command takes no lock. A
batch that arrives in between makes the second query find everything asked about,
while its trading days came too late for the first: the symbol counts as caught up
and the manifest says SUCCESS without the days the calendar names. The comment at
`backfill.py:203-204` says that the range "was already queried and contains no trading
days". The next run of the command finds those days. That an incremental backfill
starts at the next trading date, and not at the natural day after the latest
completed one, is intended and tested (`tests/test_backfill_v03.py:1454-1482`), and
stated here as the code has it.

`publication_fixed`. In `dataset/materialization.py` the exception handler of a build
(270-272) removes the fixed staging name also when that is no longer the directory of
this call: after its own publication, when building the result raises (438; an
`output_root` with a `..` component is first rejected there), and after
`_handle_concurrent_final` has removed the staging (581, 586) and raised. In between
the name can have become another writer's directory. The docstring of
`_remove_tree` (1342-1346) says that nothing else is ever removed. What is
published stays whole. `dataset_catalog_materialization.py` has the same shape
(335, 671, 676).

A limit met on the way, kept as a hazard: where a move is a link and an unlink,
a crash in between lets two plans commit claims on one pair; `OneClaim` is
therefore checked and proved with atomic renames only.

## Proofs

All theorems hold for every value of the constants, from the named assumptions
in the modules: there is a key; bounds are natural numbers, some of them positive;
`None` and `Torn` are no processes; `None` is no intention and no operation; the
names of writers and paths differ; the symbols are finitely many; a command passes
the entry checks. Conditions on `Faults` and `AtomicRename` are hypotheses of the
theorem that needs them.

`LifecycleLock_proofs`. The inductive invariant is `TypeOK /\ Custody`:
whoever is past `mkdir` made the directory that exists, and the owner file is as
far as its maker is. `Exclusive` (mutual exclusion), `HolderOwnsAlways`, and
`Refinement` follow; the last one maps each system call to a step of
`Reservation` or to none.

`SafePurge_proofs`. `TypeInv` adds `Control`, what the position of the holder
says of `cur`, `att` and `moved`. Five frame lemmas say which actions leave
which group of variables alone, so that each conjunct has few cases. Then:

- `Sealed` and `Begun`: a plan with a row has its whole file, and only begun
  plans have a quarantine. `TypeCorrect` (the shapes, and no row without its whole
  plan file) and `TraceableAlways` need them, the latter because the plan that holds
  a file must be one that selected it.
- `Prepared`: the precommit a holder is about to commit is its own plan's.
  `ResultAfterCommitAlways` follows.
- `Recorded` and `Clean`: targets are recorded pairs whose files were written,
  and `moved` with `todo` accounts for each file of the current attempt.
  With them `SuccessTruthful` (a SUCCESS row agrees with the file system) and
  `QuarantineSettles` (its quarantine never changes again) are proved, under
  `"commit_interrupt" \notin Faults`.

- `Held` and `Placed`: a quarantine holds selected files of its own plan, and a file
  has one place. They need a move to be one step, so `OneClaimAlways` and
  `LedgerRefinement`, which says the purge implements `PurgeLedger`, assume
  `AtomicRename` and no interrupt at the commit. The first is necessary: with a link
  and an unlink, a crash in between breaks `OneClaim`.
- `Emptying`: what is active of an exact scope is still to be moved. From it,
  `ScopeEmptiedAlways`, under every fault: a file cannot enter the scope while the
  lock is held.
- `Superseded` and `Shadowed`: whatever a superseded plan moves, a later sound
  snapshot of the same key outranks it, and that one is not moved. From them,
  `ServedUnchangedAlways`, for each step forward, back or repeated, and every fault.
- `Returnable`: what an uncommitted plan has in quarantine is in
  `moved_this_attempt`. It fails after a crash, a failing step of the rollback, or an
  interrupt that meets no handler, and these three kinds are what
  `FailureRestoresAlways` excludes; all others are covered, the interrupt at the
  commit among them.

`PaperOrders_proofs`. `TypeInv` adds `Aimed`: whoever submits or observes has
an intention in hand. `Single` is the strengthening for the rest. `Budget`: there
is at most one intention and one order, and the order is the intention's.
`Custody`: a command between its reservation and its call is the only one, holds
the one intention, and no order exists yet. `NeverSent`: a NOT_SENT note means
that none exists. `Before`: a count taken before the intention was admitted is
zero. `OneOrder` is not inductive without `Custody`, which alone says that a
call about to happen is the first. `OneOrderAlways`, `NotSentAlwaysTrue`,
`BaselineAlwaysBefore`, `StopAlwaysHolds` and `RiskRefinement` follow; in the
last, four kinds of step show in `PaperRisk` and every other one leaves it as it
is (`RiskFrame`). Three more invariants stand on it. `Cancelled`: the right to
cancel the order of an intention belongs to one command, and is gone once it has
asked (`CancelOnceAlways`). `Evidence`: a status in the journal or in a command's
hands is one that an order of the intention bears out; `Known`, the statuses of
which that is so, only grows, so evidence cannot go stale between a query and
its record (`EvidenceAlwaysTrue`). `Matching`: a covered intention has an order that
ended and accounts for the position (`Closed`), and `Closed` never shrinks
(`MatchAlwaysSettled`).

`PaperQualifier_proofs`. `StepIsOne` maps each step of the qualifier to one of
`PaperOrders` or to none, so its theorems carry over (`QualifierRefines`).
`OrderAlwaysPrepared` needs `QInv`: a preparation is alone and comes once
(`Alone`), past its baseline it has one (`HasBaseline`), a submission is past its
first question only if there is a finished preparation (`Asked`), and where a
command is says which one it is (`Course`).

`NoReplace_proofs`. `Inv` says what a scheme never reaches (`Fits`), that nobody is
told anything too early (`Quiet`), where a temporary is (`Temporary`), and what a
writer knows of the target (`Known`). `TargetIsWhole` and the refinement hold with
the fixed staging name too, because of `Shared`: while nothing is published, whoever
is past its `mkdir` made what the shared name shows; so the finding above never
reaches the target. `TypeCorrect`, `TargetAlwaysWhole`, `RemovesOnlyOwn` and
`Refinement` follow, for any number of writers.

`CalendarCoverage_proofs`. `NotMissingIsCovered`: a day of the range that
`missing_coverage_ranges` does not report is covered by one of the ranges it was
given; `MissingIsUncovered`: a day it reports is in the range and covered by none.
Together they say that the arithmetic is exact, for any finite set of ranges, however
they overlap, touch or nest. The folds are recursive functions, and induction over
them is out of the prover's reach as a rule; here it goes by the least number at
which the claim would fail. `FoldExists` builds the function of a fold step by step,
`JoinedChain` and `PassedChain` read the folds as sequences of states, and what the
states keep is `Within` (no day is made up), `Rising` and `Has` (no day is lost),
`Found` (without a gap all is covered) and `Free` (a gap is covered by nothing).

`Backfill_proofs`. The invariant is `BackfillInv`: `Kept` (a run is written until its
row is recorded, never afterwards, and the row comes after the outcome of the
checks), `Asked` (the child run under way is that of the attempt), `Reports` (what
the manifest calls successful is complete in one of its own children), `Ledger` (what
the manifest has settled is exactly what the plan has before the place of the loop)
and `Fresh` (what a plan that does not force has not come to is still missing; that
nobody else completes it is what the lifecycle lock is for). `FailedNeverServed`,
`OutcomeAlwaysTrue` and `AlwaysAsksMissing` follow. `SuccessAlwaysComplete` adds
`Surveyed`: the plan is made from a prefix of the calendar that was asked about each
due day, although batches may come between its two queries, and takes in whatever
the newest of them names; it rests on `NotMissingIsCovered`. `EachStepAlwaysNears`
proves that each step of an operation lowers a natural number, so it ends, without
any fairness but that it goes on.

`DesktopPages_proofs`. The invariant is `DesktopInv`: `Threads` (the worker has the
operation the GUI side thinks it has, with an outcome once it is done), `Offered`
(the plan offered is of the scope shown, and the one being executed is the one
reviewed, until the worker has taken it), `Fits` (what the research page shows
or waits for is about the selected candidate or its group, and only one page is busy).
`OnlyReviewedAlways` and `ShownAlwaysBelongs` follow, for any scopes, candidates
and cost groups.

Only model-checked: the liveness properties (`EventuallyFree`,
`EveryOperationEnds`, `EventuallyPublished`, `OutcomeLearned`, `SelectionAnswered`),
since fairness is out of the prover's reach, and the three properties that runs
show to be violated.

## Not modelled

The components of `PROJECT.json` with status `not_modelled`, each with its reason:
pure computations over immutable inputs (normalization, quality, features, labels,
experiments, backtests), whose content a bounded model would only repeat; calls of
the external SDK, which enter the models as answers and failures; offline readers
of a finished journal; command lines and presentation. They are most of the
package's lines, which is why the map covers a small share of it.

Of modelled components, left out: tampering with files and hashes, legacy pairs of
several symbols and the evidence of FAILED attempts (Safe Purge); option chains and
volatility, one batch of files and one row per run that nothing reads back
(collection); the linked successor of a preparation that failed on its funds
(qualifier); cash (paper orders); the pages of the desktop that submit one
operation and show its result; the validation of a Raw manifest, which is the guard
of `RecoverBegin`; point-in-time selection and splits (datasets).
