---------------------------- MODULE DesktopPages ----------------------------
(***************************************************************************)
(* Two pages of the desktop on one runtime: the storage clean-up page      *)
(* (market_vault/desktop/storage_cleanup.py) with the part of the console  *)
(* backend that holds the reviewed plan (console/backend.py), and the      *)
(* analyses the intraday research page starts by itself                    *)
(* (desktop/intraday_research.py).                                         *)
(*                                                                         *)
(* A page is edited while an operation of either page runs in the worker.  *)
(* The result is applied to the page as it is by then.                     *)
(***************************************************************************)
EXTENDS TaskRuntime, Integers

CONSTANTS
  Scopes,       \* scopes the clean-up page can show
  Refused,      \* the scopes whose plan is not executable
  MaxVersion,   \* bound: changes of the archive by other programs
  Candidates,   \* strategy candidates of the experiments that can be opened
  Group         \* candidate -> its cost group

\* The views that start an analysis: of the candidate (return uncertainty,
\* signal delay), of its cost group (family bounds, sequential selection).
Kinds == {"candidate", "group"}
Views == Kinds \union {"other"}
Keys  == Candidates \union {Group[c] : c \in Candidates}
Plans == [scope : Scopes, version : 0 .. MaxVersion]
\* "failed": the analysis raised; "rejected": the runner did not take it.
Errors == {"none", "failed", "rejected"}
Executable(plan) == plan.scope \notin Refused

ASSUME ScopeAssumption == Refused \subseteq Scopes /\ MaxVersion \in Nat
ASSUME GroupAssumption ==
  /\ DOMAIN Group = Candidates
  /\ {Group[c] : c \in Candidates} \intersect Candidates = {}
  /\ None \notin Plans \union Keys

VARIABLES
  version,   \* the state of the archive
  reviewed,  \* ConsoleBackend._executable_purge_plan_id, or None
  storage,   \* the clean-up page
  research   \* the research page

vars == <<runtime, worker, version, reviewed, storage, research>>

\* Operations: what runs, and the arguments sealed at its submission.
Review(scope)      == [name |-> "review", scope |-> scope]
Execute(plan)      == [name |-> "execute", plan |-> plan]
Open(candidate)    == [name |-> "open", candidate |-> candidate]
Analyse(kind, key) == [name |-> "analyse", kind |-> kind, key |-> key]
Operations == {Review(s) : s \in Scopes} \union {Execute(p) : p \in Plans}
              \union {Open(c) : c \in Candidates}
              \union {Analyse(k, x) : k \in Kinds, x \in Keys}
ASSUME OperationAssumption == None \notin Operations
Page(op) == IF op.name \in {"review", "execute"} THEN "storage" ELSE "research"

NoReview   == [plan |-> None, executable |-> FALSE, sealed |-> None, confirmed |-> FALSE]
NoAnalysis == [report |-> None, error |-> "none", pending |-> None]

\* The operations carry what was sealed for them: a purge the plan it executes, an
\* analysis its candidate or cost group.
TypeOK ==
  /\ active \in Operations \union {None} /\ closed \in BOOLEAN /\ runner \in BOOLEAN
  /\ work \in [op : Operations \union {None}, stage : Stages,
               result : {"none", "ok", "raised"}, value : Plans \union {None}]
  /\ version \in 0 .. MaxVersion
  /\ reviewed \in Plans \union {None}
  /\ storage \in [scope : Scopes, busy : BOOLEAN,
                  review : [plan : Plans \union {None}, executable : BOOLEAN,
                            sealed : Scopes \union {None}, confirmed : BOOLEAN]]
  /\ research \in [view : Views, candidate : Candidates, busy : BOOLEAN,
                   of : [Kinds -> [report : Keys \union {None}, error : Errors,
                                   pending : Keys \union {None}]]]

Init ==
  /\ RuntimeInit
  /\ version = 0 /\ reviewed = None
  /\ \E s \in Scopes : storage = [scope |-> s, busy |-> FALSE, review |-> NoReview]
  /\ \E c \in Candidates :
       research = [view |-> "other", candidate |-> c, busy |-> FALSE,
                   of |-> [k \in Kinds |-> NoAnalysis]]

-----------------------------------------------------------------------------
(***************************************************************************)
(* The analyses of the research page                                       *)
(***************************************************************************)
KeyOf(kind, candidate) == IF kind = "candidate" THEN candidate ELSE Group[candidate]
Current(kind)          == KeyOf(kind, research.candidate)

\* The conditions of _start_uncertainty, _start_family_bounds and their like.
Wanted(page, kind) ==
  /\ page.view = kind /\ ~page.busy
  /\ page.of[kind] = NoAnalysis

\* A page that is refreshed while the runtime is idle: the analysis of its view
\* starts, or the runner turns it down.
Refreshed(page) ==
  LET kind == page.view
      key  == KeyOf(kind, page.candidate)
  IN  IF kind \in Kinds /\ Wanted(page, kind) /\ ~closed
      THEN IF Accepts
           THEN /\ Submitted(Analyse(kind, key))
                /\ research' = [page EXCEPT !.busy = TRUE, !.of[kind].pending = key]
           ELSE Idle /\ research' = [page EXCEPT !.of[kind].error = "rejected"]
      ELSE Idle /\ research' = page

\* The same in the GUI thread at any time; _start_... does nothing while busy.
Refresh(page) ==
  /\ IF Busy THEN research' = page /\ UNCHANGED <<active, worker>> ELSE Refreshed(page)
  /\ UNCHANGED <<closed, version, reviewed, storage>>

SelectView(view) == Refresh([research EXCEPT !.view = view])

\* selectCandidate drops what belongs to the candidate, and what belongs to
\* its cost group when that changes too.
Cleared(page, kinds) ==
  [page EXCEPT !.of = [k \in Kinds |-> IF k \in kinds
                                       THEN [@[k] EXCEPT !.report = None, !.error = "none"]
                                       ELSE @[k]]]
SelectCandidate(c) ==
  LET stale == {k \in Kinds : KeyOf(k, c) # Current(k)}
  IN  Refresh([Cleared(research, stale) EXCEPT !.candidate = c])

Retry(kind) ==
  /\ ~research.busy /\ ~Busy /\ research.of[kind].error # "none"
  /\ Refresh([research EXCEPT !.of[kind].error = "none"])

\* openExperiment; a request that the runner turns down changes nothing.
OpenExperiment(c) ==
  /\ ~closed /\ ~Busy /\ ~research.busy /\ Accepts
  /\ Submitted(Open(c))
  /\ research' = [research EXCEPT !.busy = TRUE]
  /\ UNCHANGED <<closed, version, reviewed, storage>>

\* Faulty variant: the report is kept whatever is selected by now.
AppliesAlways(op) == TRUE
\* An analysis that answers an earlier selection is dropped.
Applies(op)       == op.key = Current(op.kind)

\* Faulty variant: a failure leaves the analysis pending.
FailedPending(page) == [page EXCEPT !.busy = FALSE]
\* operationFailed: the pending analysis, if it is still the selected one, shows
\* its error.
Failed(page) ==
  [page EXCEPT !.busy = FALSE,
     !.of = [k \in Kinds |->
               [page.of[k] EXCEPT
                  !.pending = None,
                  !.error = IF page.of[k].pending = KeyOf(k, page.candidate)
                            THEN "failed" ELSE page.of[k].error]]]

\* The callbacks of the research page: _apply_child, apply, operationFailed.
Answered(op, result) ==
  IF result = "raised" THEN Failed(research)
  ELSE IF op.name = "open"
  THEN [Cleared(research, Kinds) EXCEPT !.busy = FALSE, !.candidate = op.candidate]
  ELSE [research EXCEPT !.busy = FALSE, !.of[op.kind].pending = None,
                        !.of[op.kind].report = IF Applies(op) THEN op.key ELSE @]

-----------------------------------------------------------------------------
(***************************************************************************)
(* The storage clean-up page                                               *)
(***************************************************************************)
\* Faulty variant: the scope may be edited at any time.
EditableAlways == TRUE
Editable       == ~(Busy /\ active.name = "execute")

\* setScopeField and _invalidate_review, which leaves the backend alone while
\* the worker may be using it.
SetScope(s) ==
  /\ Editable /\ storage.scope # s
  /\ storage' = [storage EXCEPT !.scope = s, !.review = NoReview]
  /\ reviewed' = IF Busy THEN reviewed ELSE None
  /\ UNCHANGED <<runtime, worker, version, research>>

\* setConfirmation with the text that belongs to the plan shown.
SetConfirmation ==
  /\ storage.review.plan # None
  /\ storage' = [storage EXCEPT !.review.confirmed = TRUE]
  /\ UNCHANGED <<runtime, worker, version, reviewed, research>>

RequestReview ==
  /\ ~closed /\ ~Busy /\ ~storage.busy /\ Accepts
  /\ Submitted(Review(storage.scope))
  /\ storage' = [storage EXCEPT !.busy = TRUE]
  /\ UNCHANGED <<closed, version, reviewed, research>>

\* Faulty variant: nothing need have been reviewed.
ExecuteUnchecked == ~storage.busy /\ ~Busy

ExecuteEnabled ==
  /\ storage.review.executable /\ storage.review.plan # None
  /\ storage.review.sealed = storage.scope
  /\ storage.review.confirmed /\ ~storage.busy /\ ~Busy

RequestExecute ==
  /\ ~closed /\ ExecuteEnabled /\ Accepts
  /\ Submitted(Execute(storage.review.plan))
  /\ storage' = [storage EXCEPT !.busy = TRUE]
  /\ UNCHANGED <<closed, version, reviewed, research>>

\* The callbacks of the page.  A plan for a scope that was edited meanwhile is
\* withdrawn; one that cannot be displayed leaves the page as it was.
Reviewed(op, result, plan, displayed) ==
  LET changed == op.scope # storage.scope
  IN  /\ storage' = [storage EXCEPT !.busy = FALSE,
           !.review = IF result = "raised" \/ changed \/ ~displayed THEN @
                      ELSE [plan |-> plan, executable |-> Executable(plan),
                            sealed |-> op.scope, confirmed |-> FALSE]]
      /\ reviewed' = IF result # "raised" /\ changed THEN None ELSE reviewed

Executed(op, result) ==
  /\ storage' = [storage EXCEPT !.busy = FALSE,
       !.review = IF result = "raised" \/ op.plan.scope # storage.scope THEN @
                  ELSE [@ EXCEPT !.executable = FALSE, !.confirmed = FALSE]]
  /\ UNCHANGED reviewed

-----------------------------------------------------------------------------
(***************************************************************************)
(* Both threads                                                            *)
(***************************************************************************)
\* _poll delivers to the page, then the runtime is idle, and operationFinished
\* lets the research page start what its view lacks.
Poll ==
  /\ Deliverable
  /\ IF Page(active) = "storage"
     THEN /\ \/ /\ active.name = "review"
                /\ \E displayed \in BOOLEAN : Reviewed(active, work.result, work.value, displayed)
             \/ active.name = "execute" /\ Executed(active, work.result)
          /\ Refreshed(research)
     ELSE /\ Refreshed(Answered(active, work.result))
          /\ UNCHANGED <<storage, reviewed>>
  /\ UNCHANGED <<closed, version>>

Shutdown == RequestShutdown /\ UNCHANGED <<version, reviewed, storage, research>>
Take     == Takes /\ UNCHANGED <<version, reviewed, storage, research>>
FinishCallback == Finish /\ UNCHANGED <<version, reviewed, storage, research>>

\* preview_purge: the old plan is forgotten first.
PreviewStarts ==
  /\ work.stage = "running" /\ work.op.name = "review"
  /\ reviewed' = None
  /\ Middle
  /\ UNCHANGED <<version, storage, research>>

PreviewEnds ==
  /\ work.stage = "middle" /\ work.op.name = "review"
  /\ \/ Done("raised", None) /\ UNCHANGED reviewed
     \/ LET plan == [scope |-> work.op.scope, version |-> version]
        IN  /\ Done("ok", plan)
            /\ reviewed' = IF Executable(plan) THEN plan ELSE reviewed
  /\ UNCHANGED <<version, storage, research>>

Holds(plan) == reviewed = plan

\* ConsoleBackend.execute_purge; between its steps the purge is carried out.
ExecuteStarts ==
  /\ work.stage = "running" /\ work.op.name = "execute"
  /\ IF Holds(work.op.plan) THEN Middle ELSE Done("raised", None)
  /\ UNCHANGED <<version, reviewed, storage, research>>

ExecuteEnds ==
  /\ work.stage = "middle" /\ work.op.name = "execute"
  /\ \/ Done("raised", None) /\ UNCHANGED reviewed
     \/ Done("ok", None) /\ reviewed' = None
  /\ UNCHANGED <<version, storage, research>>

ResearchEnds ==
  /\ work.stage = "running" /\ work.op.name \in {"open", "analyse"}
  /\ Done("ok", None) \/ Done("raised", None)
  /\ UNCHANGED <<version, reviewed, storage, research>>

\* The archive is changed by another program.
ArchiveChanges ==
  /\ version < MaxVersion
  /\ version' = version + 1
  /\ UNCHANGED <<runtime, worker, reviewed, storage, research>>

WorkerStep == Take \/ PreviewStarts \/ PreviewEnds \/ ExecuteStarts \/ ExecuteEnds
              \/ ResearchEnds \/ FinishCallback

Next ==
  \/ Poll \/ WorkerStep \/ Shutdown \/ ArchiveChanges
  \/ \E v \in Views : SelectView(v)
  \/ \E c \in Candidates : SelectCandidate(c) \/ OpenExperiment(c)
  \/ \E k \in Kinds : Retry(k)
  \/ \E s \in Scopes : SetScope(s)
  \/ SetConfirmation \/ RequestReview \/ RequestExecute

\* The timer polls while an operation is active, and the worker thread works on.
Spec == Init /\ [][Next]_vars /\ WF_vars(Poll) /\ WF_vars(WorkerStep)

-----------------------------------------------------------------------------
(***************************************************************************)
(* Properties                                                              *)
(***************************************************************************)
\* While a purge is carried out, the page shows the very plan, reviewed as
\* executable for the scope it still shows; the runtime waits for it and cannot
\* have been closed.  Before that, a plan offered for execution is one of the
\* scope shown.  (storage_cleanup.py, backend.py, runtime.py)
ExecutesOnlyReviewed ==
  /\ (work.stage = "middle" /\ work.op.name = "execute") =>
       /\ storage.review.plan = work.op.plan /\ storage.scope = work.op.plan.scope
       /\ Executable(work.op.plan) /\ reviewed = work.op.plan
       /\ active = work.op /\ ~closed
  /\ storage.review.executable => storage.review.plan.scope = storage.scope

\* What the research page shows belongs to the selected candidate or its cost
\* group, however the selection moved while the analysis ran; an analysis is
\* pending exactly while the runtime works on it, and a page is busy exactly
\* while the runtime works for it, so that none stays busy for ever.
\* (intraday_research.py, controllers.py)
ShownBelongs ==
  /\ \A k \in Kinds :
       /\ research.of[k].report \in {None, Current(k)}
       /\ research.of[k].pending # None => active = Analyse(k, research.of[k].pending)
  /\ storage.busy = (Busy /\ Page(active) = "storage")
  /\ research.busy = (Busy /\ Page(active) = "research")

\* When the selection stays as it is, the analysis of its view is shown in the
\* end, or its error, even if it was selected while other work was running or
\* another selection was being analysed.  (_analysis_idle)
SelectionStays == research'.view = research.view /\ research'.candidate = research.candidate
Lacking(k) ==
  /\ research.view = k /\ ~closed
  /\ research.of[k].report = None /\ research.of[k].error = "none"
SelectionAnswered ==
  <>[][SelectionStays]_vars => \A k \in Kinds : []<>~Lacking(k)
=============================================================================
