------------------------- MODULE DesktopPages_proofs -------------------------
(***************************************************************************)
(* Proofs about DesktopPages for any scopes, candidates and cost groups.   *)
(***************************************************************************)
EXTENDS DesktopPages, TLAPS

Works == [op : Operations \union {None}, stage : Stages,
          result : {"none", "ok", "raised"}, value : Plans \union {None}]
Reviews       == [plan : Plans \union {None}, executable : BOOLEAN,
                  sealed : Scopes \union {None}, confirmed : BOOLEAN]
StoragePages  == [scope : Scopes, busy : BOOLEAN, review : Reviews]
Analyses      == [report : Keys \union {None}, error : Errors, pending : Keys \union {None}]
ResearchPages == [view : Views, candidate : Candidates, busy : BOOLEAN,
                  of : [Kinds -> Analyses]]

Shape ==
  /\ closed \in BOOLEAN /\ runner \in BOOLEAN
  /\ active \in Operations \union {None}
  /\ work \in Works
  /\ version \in 0 .. MaxVersion
  /\ reviewed \in Plans \union {None}
  /\ storage \in StoragePages
  /\ research \in ResearchPages

\* The worker has the runtime's operation and nothing else; a finished operation
\* has an outcome, and a review the plan of its own scope.
Threads ==
  /\ work.op = active
  /\ active = None => work = NoWork
  /\ active # None => ~closed
  /\ active # None /\ work.stage = "done" => work.result \in {"ok", "raised"}
  /\ active # None /\ work.stage # "done" => work.result = "none"
  /\ active # None /\ active.name = "review" /\ work.result = "ok" =>
       work.value \in Plans /\ work.value.scope = active.scope

\* The clean-up page: an offered plan is of the scope shown, and the plan that is
\* being executed is still the one reviewed.
Offered ==
  /\ storage.busy = (active # None /\ Page(active) = "storage")
  /\ storage.review.executable =>
       /\ storage.review.plan \in Plans /\ storage.review.plan.scope = storage.scope
       /\ Executable(storage.review.plan)
  /\ active # None /\ active.name = "execute" =>
       /\ storage.review.plan = active.plan /\ storage.scope = active.plan.scope
       /\ Executable(active.plan)
       /\ work.stage = "middle" => reviewed = active.plan

\* The research page, as it should be while act is the runtime's operation.
Fits(page, act) ==
  /\ \A k \in Kinds : /\ page.of[k].report \in {None, KeyOf(k, page.candidate)}
                      /\ page.of[k].pending # None => act = Analyse(k, page.of[k].pending)
  /\ page.busy = (act # None /\ Page(act) = "research")

DesktopInv == Shape /\ Threads /\ Offered /\ Fits(research, active)

-----------------------------------------------------------------------------
\* Operations by name.
LEMMA Made ==
  /\ \A s \in Scopes : Review(s) \in Operations /\ Review(s).name = "review" /\ Review(s).scope = s
  /\ \A p \in Plans : Execute(p) \in Operations /\ Execute(p).name = "execute" /\ Execute(p).plan = p
  /\ \A c \in Candidates : Open(c) \in Operations /\ Open(c).name = "open" /\ Open(c).candidate = c
  /\ \A k \in Kinds, x \in Keys : /\ Analyse(k, x) \in Operations /\ Analyse(k, x).name = "analyse"
                                  /\ Analyse(k, x).kind = k /\ Analyse(k, x).key = x
<1>1. /\ \A s \in Scopes : Review(s) \in Operations
      /\ \A p \in Plans : Execute(p) \in Operations
      /\ \A c \in Candidates : Open(c) \in Operations
      /\ \A k \in Kinds, x \in Keys : Analyse(k, x) \in Operations
  BY DEF Operations
<1>2. \A s : Review(s).name = "review" /\ Review(s).scope = s
  BY DEF Review
<1>3. \A p : Execute(p).name = "execute" /\ Execute(p).plan = p
  BY DEF Execute
<1>4. \A c : Open(c).name = "open" /\ Open(c).candidate = c
  BY DEF Open
<1>5. \A k, x : /\ Analyse(k, x).name = "analyse"
                /\ Analyse(k, x).kind = k /\ Analyse(k, x).key = x
  BY DEF Analyse
<1> QED BY <1>1, <1>2, <1>3, <1>4, <1>5

LEMMA ByName ==
  ASSUME NEW op \in Operations
  PROVE  /\ op.name \in {"review", "execute", "open", "analyse"}
         /\ op.name = "review" => op.scope \in Scopes
         /\ op.name = "execute" => op.plan \in Plans
         /\ op.name = "open" => op.candidate \in Candidates
         /\ op.name = "analyse" => /\ op.kind \in Kinds /\ op.key \in Keys
                                   /\ op = Analyse(op.kind, op.key)
<1>1. CASE \E s \in Scopes : op = Review(s)
  BY <1>1, Made
<1>2. CASE \E p \in Plans : op = Execute(p)
  BY <1>2, Made
<1>3. CASE \E c \in Candidates : op = Open(c)
  BY <1>3, Made
<1>4. CASE \E k \in Kinds, x \in Keys : op = Analyse(k, x)
  BY <1>4, Made
<1> QED BY <1>1, <1>2, <1>3, <1>4 DEF Operations

LEMMA KeyType == \A k \in Kinds, c \in Candidates : KeyOf(k, c) \in Keys
BY DEF KeyOf, Keys

LEMMA NotThere == None \notin Plans /\ None \notin Keys /\ None \notin Operations
BY GroupAssumption, OperationAssumption

\* What the runtime hands to the worker.
LEMMA Handed ==
  ASSUME NEW op \in Operations, Submitted(op)
  PROVE  /\ active' = op /\ active' # None /\ work'.op = op /\ work' \in Works
         /\ work'.stage = "queued" /\ work'.result = "none" /\ runner' = TRUE
BY NotThere DEF Submitted, Works, Stages

LEMMA Idles ==
  ASSUME Idle, runner \in BOOLEAN
  PROVE  active' = None /\ work' = NoWork /\ work' \in Works /\ work'.op = None /\ runner' \in BOOLEAN
BY DEF Idle, NoWork, Works, Stages

\* A research page that nobody works for any more starts the analysis it lacks,
\* shows that it was turned down, or stays as it is.
LEMMA Refreshing ==
  ASSUME NEW page \in ResearchPages, closed \in BOOLEAN, runner \in BOOLEAN, Refreshed(page),
         Fits(page, None)
  PROVE  /\ research' \in ResearchPages /\ work' \in Works /\ runner' \in BOOLEAN
         /\ active' \in Operations \union {None} /\ work'.op = active'
         /\ active' = None => work' = NoWork
         /\ active' # None => /\ ~closed /\ active'.name = "analyse"
                              /\ work'.stage = "queued" /\ work'.result = "none"
         /\ Fits(research', active')
<1> DEFINE kind == page.view
           key  == KeyOf(kind, page.candidate)
<1>1. /\ page.busy = FALSE /\ page.candidate \in Candidates
      /\ \A k \in Kinds : /\ page.of[k].pending = None /\ page.of[k] \in Analyses
                          /\ page.of[k].report \in {None, KeyOf(k, page.candidate)}
  <2>1. page.busy = FALSE /\ page.candidate \in Candidates
        /\ \A k \in Kinds : page.of[k] \in Analyses
    BY DEF ResearchPages, Fits
  <2>2. ASSUME NEW k \in Kinds, page.of[k].pending # None PROVE FALSE
    <3>1. None = Analyse(k, page.of[k].pending) /\ page.of[k].pending \in Keys
      BY <2>1, <2>2 DEF Fits, Analyses
    <3> QED BY <3>1, Made, NotThere
  <2> QED BY <2>1, <2>2 DEF Fits
<1>2. CASE kind \in Kinds /\ Submitted(Analyse(kind, key)) /\ ~closed
           /\ research' = [page EXCEPT !.busy = TRUE, !.of[kind].pending = key]
  <2>1. key \in Keys /\ Analyse(kind, key) \in Operations /\ Analyse(kind, key).name = "analyse"
    BY <1>1, <1>2, KeyType, Made
  <2>2. /\ active' = Analyse(kind, key) /\ active' # None /\ work'.op = active' /\ work' \in Works
        /\ work'.stage = "queued" /\ work'.result = "none" /\ runner' = TRUE
    BY <1>2, <2>1, Handed
  <2> HIDE DEF key
  <2>3. /\ research' \in ResearchPages /\ research'.busy = TRUE
        /\ research'.candidate = page.candidate
        /\ \A k \in Kinds : /\ research'.of[k].report = page.of[k].report
                            /\ research'.of[k].pending = IF k = kind THEN key ELSE None
    <3> HIDE DEF kind
    <3> DEFINE new == [page.of[kind] EXCEPT !.pending = key]
    <3>1. /\ new \in Analyses /\ new.report = page.of[kind].report
          /\ new.pending = key
      BY <1>1, <1>2, <2>1 DEF Analyses
    <3>2. research' = [page EXCEPT !.busy = TRUE, !.of = [page.of EXCEPT ![kind] = new]]
      BY <1>2
    <3> HIDE DEF new
    <3>3. /\ research' \in ResearchPages /\ research'.busy = TRUE
          /\ research'.candidate = page.candidate
          /\ research'.of = [page.of EXCEPT ![kind] = new]
      BY <1>1, <3>1, <3>2 DEF ResearchPages
    <3>4. DOMAIN page.of = Kinds
      BY DEF ResearchPages
    <3> QED BY <1>1, <1>2, <3>1, <3>3, <3>4
  <2>4. Page(active') = "research"
    BY <2>1, <2>2 DEF Page
  <2>5. Fits(research', active')
    BY <1>1, <2>2, <2>3, <2>4 DEF Fits
  <2> QED BY <1>2, <2>1, <2>2, <2>3, <2>5
<1>3. CASE Idle /\ \E k \in Kinds : research' = [page EXCEPT !.of[k].error = "rejected"]
  <2>1. active' = None /\ work' = NoWork /\ work' \in Works /\ work'.op = None /\ runner' \in BOOLEAN
    BY <1>3, Idles
  <2>2. PICK x \in Kinds : research' = [page EXCEPT !.of[x].error = "rejected"]
    BY <1>3
  <2>3. page.of[x] \in Analyses /\ "rejected" \in Errors
    BY <1>1 DEF Errors
  <2>4. /\ research' \in ResearchPages /\ research'.busy = FALSE
        /\ research'.candidate = page.candidate
        /\ \A k \in Kinds : /\ research'.of[k].report = page.of[k].report
                            /\ research'.of[k].pending = None
    <3> DEFINE new == [page.of[x] EXCEPT !.error = "rejected"]
    <3>1. /\ new \in Analyses /\ new.report = page.of[x].report
          /\ new.pending = page.of[x].pending
      BY <2>3 DEF Analyses
    <3>2. research' = [page EXCEPT !.of = [page.of EXCEPT ![x] = new]]
      BY <2>2
    <3> HIDE DEF new
    <3> QED BY <1>1, <3>1, <3>2 DEF ResearchPages
  <2> QED BY <1>1, <2>1, <2>4 DEF Fits
<1>4. CASE Idle /\ research' = page
  <2>1. active' = None /\ work' = NoWork /\ work' \in Works /\ work'.op = None /\ runner' \in BOOLEAN
    BY <1>4, Idles
  <2> QED BY <1>4, <2>1 DEF Fits
<1> QED BY <1>2, <1>3, <1>4 DEF Refreshed, Wanted

-----------------------------------------------------------------------------
\* The runtime is idle, and the research page may make it start again.
LEMMA RefreshedInv ==
  ASSUME NEW page \in ResearchPages, closed \in BOOLEAN, runner \in BOOLEAN,
         Refreshed(page), Fits(page, None), UNCHANGED <<closed, version>>,
         version \in 0 .. MaxVersion, reviewed' \in Plans \union {None},
         storage' \in StoragePages, ~storage'.busy,
         storage'.review.executable =>
           /\ storage'.review.plan \in Plans /\ storage'.review.plan.scope = storage'.scope
           /\ Executable(storage'.review.plan)
  PROVE  DesktopInv'
<1>1. /\ research' \in ResearchPages /\ work' \in Works /\ runner' \in BOOLEAN
      /\ active' \in Operations \union {None} /\ work'.op = active'
      /\ active' = None => work' = NoWork
      /\ active' # None => /\ ~closed /\ active'.name = "analyse"
                           /\ work'.stage = "queued" /\ work'.result = "none"
      /\ Fits(research', active')
  BY Refreshing
<1>2. storage'.busy = FALSE
  BY DEF StoragePages
<1>3. Shape'
  BY <1>1 DEF Shape
<1>4. Threads'
  BY <1>1 DEF Threads
<1>5. Offered'
  BY <1>1, <1>2 DEF Offered, Page
<1> QED BY <1>1, <1>3, <1>4, <1>5 DEF DesktopInv

\* A change of the research page that refreshes it.
LEMMA RefreshInv ==
  ASSUME DesktopInv, NEW page \in ResearchPages, Fits(page, active), Refresh(page)
  PROVE  DesktopInv'
<1>1. CASE active # None
  <2>1. research' = page /\ UNCHANGED <<active, work, runner, closed, version, reviewed, storage>>
    BY <1>1 DEF Refresh, Busy, worker
  <2> QED BY <2>1 DEF DesktopInv, Shape, Threads, Offered
<1>2. CASE active = None
  <2>1. Refreshed(page) /\ UNCHANGED <<closed, version, reviewed, storage>>
    BY <1>2 DEF Refresh, Busy
  <2>2. ~storage.busy
    BY <1>2 DEF DesktopInv, Offered
  <2> QED BY <1>2, <2>1, <2>2, RefreshedInv DEF DesktopInv, Shape, Offered
<1> QED BY <1>1, <1>2

LEMMA SelectViewInv ==
  ASSUME DesktopInv, NEW v \in Views, SelectView(v) PROVE DesktopInv'
<1> DEFINE page == [research EXCEPT !.view = v]
<1>1. page \in ResearchPages /\ page.of = research.of /\ page.candidate = research.candidate
      /\ page.busy = research.busy
  BY DEF DesktopInv, Shape, ResearchPages
<1> HIDE DEF page
<1>2. Fits(page, active)
  BY <1>1 DEF DesktopInv, Fits
<1>3. Refresh(page)
  BY DEF SelectView, page
<1> QED BY <1>1, <1>2, <1>3, RefreshInv

\* Clearing some kinds keeps what is pending, and no report of those is left.
LEMMA Clearing ==
  ASSUME NEW page \in ResearchPages, NEW kinds
  PROVE  LET new == Cleared(page, kinds)
         IN  /\ new \in ResearchPages /\ new.candidate = page.candidate /\ new.busy = page.busy
             /\ \A k \in Kinds : /\ new.of[k].pending = page.of[k].pending
                                 /\ new.of[k].report = IF k \in kinds THEN None ELSE page.of[k].report
<1> DEFINE of(k) == IF k \in kinds THEN [page.of[k] EXCEPT !.report = None, !.error = "none"]
                    ELSE page.of[k]
<1>1. \A k \in Kinds : /\ of(k) \in Analyses /\ of(k).pending = page.of[k].pending
                       /\ of(k).report = IF k \in kinds THEN None ELSE page.of[k].report
  BY DEF ResearchPages, Analyses, Errors
<1>2. Cleared(page, kinds) = [page EXCEPT !.of = [k \in Kinds |-> of(k)]]
  BY DEF Cleared, ResearchPages
<1> DEFINE all == [k \in Kinds |-> of(k)]
<1>3. all \in [Kinds -> Analyses] /\ \A k \in Kinds : all[k] = of(k)
  BY <1>1
<1> HIDE DEF of, all
<1>4. Cleared(page, kinds) = [page EXCEPT !.of = all]
  BY <1>2 DEF all
<1> QED BY <1>1, <1>3, <1>4 DEF ResearchPages

LEMMA SelectCandidateInv ==
  ASSUME DesktopInv, NEW c \in Candidates, SelectCandidate(c) PROVE DesktopInv'
<1> DEFINE stale == {k \in Kinds : KeyOf(k, c) # Current(k)}
           old == Cleared(research, stale)
           page == [old EXCEPT !.candidate = c]
<1>1. /\ old \in ResearchPages /\ old.candidate = research.candidate /\ old.busy = research.busy
      /\ \A k \in Kinds : /\ old.of[k].pending = research.of[k].pending
                          /\ old.of[k].report = IF k \in stale THEN None ELSE research.of[k].report
  BY Clearing DEF DesktopInv, Shape
<1>2. \A k \in Kinds : k \notin stale => KeyOf(k, c) = KeyOf(k, research.candidate)
  BY DEF Current
<1>3. Refresh(page)
  BY DEF SelectCandidate
<1> HIDE DEF stale, old
<1>4. page \in ResearchPages /\ page.candidate = c /\ page.of = old.of /\ page.busy = research.busy
  BY <1>1 DEF ResearchPages
<1> HIDE DEF page
<1>5. Fits(page, active)
  BY <1>1, <1>2, <1>4 DEF DesktopInv, Fits
<1> QED BY <1>3, <1>4, <1>5, RefreshInv

LEMMA RetryInv ==
  ASSUME DesktopInv, NEW x \in Kinds, Retry(x) PROVE DesktopInv'
<1> DEFINE page == [research EXCEPT !.of[x].error = "none"]
           new == [research.of[x] EXCEPT !.error = "none"]
<1>1. /\ new \in Analyses /\ new.report = research.of[x].report
      /\ new.pending = research.of[x].pending
  BY DEF DesktopInv, Shape, ResearchPages, Analyses, Errors
<1>2. page = [research EXCEPT !.of = [research.of EXCEPT ![x] = new]]
  OBVIOUS
<1>3. Refresh(page)
  BY DEF Retry
<1> HIDE DEF page, new
<1>4. /\ page \in ResearchPages /\ page.of = [research.of EXCEPT ![x] = new]
      /\ page.candidate = research.candidate /\ page.busy = research.busy
      /\ DOMAIN research.of = Kinds
  BY <1>1, <1>2 DEF DesktopInv, Shape, ResearchPages
<1>5. Fits(page, active)
  BY <1>1, <1>4 DEF DesktopInv, Fits
<1> QED BY <1>3, <1>4, <1>5, RefreshInv

-----------------------------------------------------------------------------
LEMMA OpenInv ==
  ASSUME DesktopInv, NEW c \in Candidates, OpenExperiment(c) PROVE DesktopInv'
<1>1. /\ ~closed /\ active = None /\ Submitted(Open(c))
      /\ research' = [research EXCEPT !.busy = TRUE]
      /\ UNCHANGED <<closed, version, reviewed, storage>>
  BY DEF OpenExperiment, Busy
<1>2. Open(c) \in Operations /\ Open(c).name = "open"
  BY Made
<1>3. /\ active' = Open(c) /\ active' # None /\ work'.op = active' /\ work' \in Works
      /\ work'.stage = "queued" /\ work'.result = "none" /\ runner' = TRUE
  BY <1>1, <1>2, Handed
<1>4. /\ research' \in ResearchPages /\ research'.busy = TRUE
      /\ research'.candidate = research.candidate /\ research'.of = research.of
  BY <1>1 DEF DesktopInv, Shape, ResearchPages
<1>5. \A k \in Kinds : research.of[k].pending = None
  <2> SUFFICES ASSUME NEW k \in Kinds, research.of[k].pending # None PROVE FALSE
    OBVIOUS
  <2>1. None = Analyse(k, research.of[k].pending) /\ research.of[k].pending \in Keys
    BY <1>1 DEF DesktopInv, Shape, Fits, ResearchPages, Analyses
  <2> QED BY <2>1, Made, NotThere
<1>6. Fits(research', active')
  BY <1>2, <1>3, <1>4, <1>5 DEF DesktopInv, Fits, Page
<1>7. Shape'
  BY <1>1, <1>2, <1>3, <1>4 DEF DesktopInv, Shape
<1>8. Threads' /\ Offered'
  BY <1>1, <1>2, <1>3 DEF DesktopInv, Threads, Offered, Page
<1> QED BY <1>6, <1>7, <1>8 DEF DesktopInv

\* A request of the clean-up page, which shows the plan an execution is about.
LEMMA RequestInv ==
  ASSUME DesktopInv, NEW op \in Operations, op.name \in {"review", "execute"},
         ~closed, active = None, Submitted(op),
         storage' = [storage EXCEPT !.busy = TRUE],
         UNCHANGED <<closed, version, reviewed, research>>,
         op.name = "execute" =>
           /\ storage.review.plan = op.plan /\ storage.scope = op.plan.scope
           /\ Executable(op.plan)
  PROVE  DesktopInv'
<1>1. /\ active' = op /\ active' # None /\ work'.op = active' /\ work' \in Works
      /\ work'.stage = "queued" /\ work'.result = "none" /\ runner' = TRUE
  BY Handed
<1>2. /\ storage' \in StoragePages /\ storage'.busy = TRUE
      /\ storage'.scope = storage.scope /\ storage'.review = storage.review
  BY DEF DesktopInv, Shape, StoragePages
<1>3. \A k \in Kinds : research.of[k].pending = None
  <2> SUFFICES ASSUME NEW k \in Kinds, research.of[k].pending # None PROVE FALSE
    OBVIOUS
  <2>1. None = Analyse(k, research.of[k].pending) /\ research.of[k].pending \in Keys
    BY DEF DesktopInv, Shape, Fits, ResearchPages, Analyses
  <2> QED BY <2>1, Made, NotThere
<1>4. Fits(research', active')
  BY <1>1, <1>3 DEF DesktopInv, Fits, Page
<1>5. Shape'
  BY <1>1, <1>2 DEF DesktopInv, Shape
<1>6. Threads' /\ Offered'
  BY <1>1, <1>2 DEF DesktopInv, Threads, Offered, Page
<1> QED BY <1>4, <1>5, <1>6 DEF DesktopInv

LEMMA StorageInv ==
  ASSUME DesktopInv,
         RequestReview \/ RequestExecute \/ SetConfirmation \/ \E s \in Scopes : SetScope(s)
  PROVE  DesktopInv'
<1>1. CASE RequestReview
  <2>1. Review(storage.scope) \in Operations /\ Review(storage.scope).name = "review"
    BY Made DEF DesktopInv, Shape, StoragePages
  <2> QED BY <1>1, <2>1, RequestInv DEF RequestReview, Busy
<1>2. CASE RequestExecute
  <2> DEFINE plan == storage.review.plan
  <2>1. plan \in Plans /\ plan.scope = storage.scope /\ Executable(plan)
    BY <1>2 DEF RequestExecute, ExecuteEnabled, DesktopInv, Offered
  <2>2. Execute(plan) \in Operations /\ Execute(plan).name = "execute" /\ Execute(plan).plan = plan
    BY <2>1, Made
  <2>3. /\ ~closed /\ active = None /\ Submitted(Execute(plan))
        /\ storage' = [storage EXCEPT !.busy = TRUE]
        /\ UNCHANGED <<closed, version, reviewed, research>>
    BY <1>2 DEF RequestExecute, ExecuteEnabled, Busy
  <2> DEFINE op == Execute(plan)
  <2>4. op \in Operations /\ op.name = "execute" /\ op.plan = plan /\ Submitted(op)
    BY <2>2, <2>3
  <2> HIDE DEF op
  <2> QED BY <2>1, <2>3, <2>4, RequestInv
<1>3. CASE SetConfirmation
  <2>1. /\ storage' \in StoragePages /\ storage'.busy = storage.busy
        /\ storage'.scope = storage.scope /\ storage'.review.plan = storage.review.plan
        /\ storage'.review.executable = storage.review.executable
    BY <1>3 DEF SetConfirmation, DesktopInv, Shape, StoragePages, Reviews
  <2>2. UNCHANGED <<active, closed, work, runner, version, reviewed, research>>
    BY <1>3 DEF SetConfirmation, runtime, worker
  <2> QED BY <2>1, <2>2 DEF DesktopInv, Shape, Threads, Offered
<1>4. ASSUME NEW s \in Scopes, SetScope(s) PROVE DesktopInv'
  <2>1. NoReview \in Reviews /\ NoReview.executable = FALSE
    BY DEF NoReview, Reviews
  <2>2. /\ storage' \in StoragePages /\ storage'.busy = storage.busy
        /\ storage'.scope = s /\ storage'.review = NoReview
    <3> HIDE DEF NoReview
    <3> QED BY <1>4, <2>1 DEF SetScope, DesktopInv, Shape, StoragePages
  <2>3. UNCHANGED <<active, closed, work, runner, version, research>>
    BY <1>4 DEF SetScope, runtime, worker
  <2>4. reviewed' \in Plans \union {None} /\ ~(active # None /\ active.name = "execute")
    BY <1>4 DEF SetScope, Editable, Busy, DesktopInv, Shape
  <2> QED BY <2>1, <2>2, <2>3, <2>4 DEF DesktopInv, Shape, Threads, Offered
<1> QED BY <1>1, <1>2, <1>3, <1>4

LEMMA WorkerInv ==
  ASSUME DesktopInv, WorkerStep PROVE DesktopInv'
<1> USE DEF DesktopInv, Shape, Threads, Offered, runtime
<1>0. work \in Works /\ work.op = active
  OBVIOUS
<1>1. CASE Take
  <2>1. /\ work' \in Works /\ work'.op = work.op /\ work'.stage = "running"
        /\ work.stage = "queued" /\ work'.result = work.result /\ work'.value = work.value
    BY <1>0, <1>1 DEF Take, Takes, Works, Stages
  <2>2. work # NoWork
    BY <2>1 DEF NoWork
  <2> QED BY <1>1, <2>1, <2>2 DEF Take, Takes
<1>2. CASE FinishCallback
  BY <1>2 DEF FinishCallback, Finish
<1>3. ASSUME work.stage \in {"running", "middle"}, Middle, UNCHANGED <<version, storage, research>>,
             reviewed' \in Plans \union {None},
             work.op.name = "execute" => reviewed' = work.op.plan
      PROVE  DesktopInv'
  <2>1. /\ work' \in Works /\ work'.op = work.op /\ work'.stage = "middle"
        /\ work'.result = work.result /\ work'.value = work.value
    BY <1>0, <1>3 DEF Middle, Works, Stages
  <2>2. work # NoWork
    BY <1>3 DEF NoWork
  <2> QED BY <1>3, <2>1, <2>2 DEF Middle
<1>4. ASSUME NEW result \in {"ok", "raised"}, NEW value \in Plans \union {None},
             work.stage \in {"running", "middle"}, Done(result, value),
             UNCHANGED <<version, storage, research>>, reviewed' \in Plans \union {None},
             work.op.name = "review" /\ result = "ok" =>
               value \in Plans /\ value.scope = work.op.scope
      PROVE  DesktopInv'
  <2>1. /\ work' \in Works /\ work'.op = work.op /\ work'.stage = "done"
        /\ work'.result = result /\ work'.value = value
    BY <1>0, <1>4 DEF Done, Works, Stages
  <2>2. work # NoWork
    BY <1>4 DEF NoWork
  <2> QED BY <1>4, <2>1, <2>2 DEF Done
<1>5. CASE PreviewStarts
  BY <1>3, <1>5 DEF PreviewStarts
<1>6. CASE PreviewEnds
  <2> DEFINE plan == [scope |-> work.op.scope, version |-> version]
  <2>1. work.op \in Operations
    BY <1>0, <1>6 DEF PreviewEnds, NoWork
  <2>2. plan \in Plans /\ plan.scope = work.op.scope
    BY <1>6, <2>1, ByName DEF PreviewEnds, Plans
  <2> QED BY <1>4, <1>6, <2>2 DEF PreviewEnds
<1>7. CASE ExecuteStarts
  BY <1>3, <1>4, <1>7 DEF ExecuteStarts, Holds
<1>8. CASE ExecuteEnds
  BY <1>4, <1>8 DEF ExecuteEnds
<1>9. CASE ResearchEnds
  BY <1>4, <1>9 DEF ResearchEnds
<1> QED BY <1>1, <1>2, <1>5, <1>6, <1>7, <1>8, <1>9 DEF WorkerStep

-----------------------------------------------------------------------------
\* Nothing is pending on the research page while another kind of work runs.
LEMMA NonePending ==
  ASSUME NEW page \in ResearchPages, NEW act \in Operations \union {None}, Fits(page, act),
         act = None \/ act.name # "analyse"
  PROVE  \A k \in Kinds : page.of[k].pending = None
<1> SUFFICES ASSUME NEW k \in Kinds, page.of[k].pending # None PROVE FALSE
  OBVIOUS
<1>1. act = Analyse(k, page.of[k].pending) /\ page.of[k].pending \in Keys
  BY DEF Fits, ResearchPages, Analyses
<1> QED BY <1>1, Made, NotThere

\* The research page with the answer to its operation taken in.
LEMMA AnsweredFits ==
  ASSUME NEW op \in Operations, NEW result, research \in ResearchPages,
         Fits(research, op), Page(op) = "research"
  PROVE  Answered(op, result) \in ResearchPages /\ Fits(Answered(op, result), None)
<1>0. /\ research.candidate \in Candidates /\ DOMAIN research.of = Kinds
      /\ \A k \in Kinds : /\ research.of[k] \in Analyses
                          /\ research.of[k].report \in {None, KeyOf(k, research.candidate)}
  BY DEF ResearchPages, Fits
<1>1. CASE result = "raised"
  <2> DEFINE new(k) == [research.of[k] EXCEPT
                          !.pending = None,
                          !.error = IF research.of[k].pending = KeyOf(k, research.candidate)
                                    THEN "failed" ELSE research.of[k].error]
             all == [k \in Kinds |-> new(k)]
             page == [research EXCEPT !.busy = FALSE, !.of = all]
  <2>1. \A k \in Kinds : /\ new(k) \in Analyses /\ new(k).pending = None
                         /\ new(k).report = research.of[k].report
    BY <1>0 DEF Analyses, Errors
  <2>2. Answered(op, result) = page
    BY <1>0, <1>1 DEF Answered, Failed, ResearchPages
  <2> HIDE DEF new
  <2>3. all \in [Kinds -> Analyses] /\ \A k \in Kinds : all[k] = new(k)
    BY <2>1
  <2> HIDE DEF all
  <2>4. /\ page \in ResearchPages /\ page.busy = FALSE /\ page.of = all
        /\ page.candidate = research.candidate
    BY <2>3 DEF ResearchPages
  <2> HIDE DEF page
  <2> QED BY <1>0, <2>1, <2>2, <2>3, <2>4 DEF Fits
<1>2. CASE result # "raised" /\ op.name = "open"
  <2> DEFINE old == Cleared(research, Kinds)
             page == [old EXCEPT !.busy = FALSE, !.candidate = op.candidate]
  <2>1. op.candidate \in Candidates
    BY <1>2, ByName
  <2>2. \A k \in Kinds : research.of[k].pending = None
    BY <1>2, NonePending
  <2>3. /\ old \in ResearchPages
        /\ \A k \in Kinds : old.of[k].pending = None /\ old.of[k].report = None
    BY <2>2, Clearing
  <2>4. Answered(op, result) = page
    BY <1>2 DEF Answered
  <2> HIDE DEF old
  <2>5. page \in ResearchPages /\ page.busy = FALSE /\ page.of = old.of
    BY <2>1, <2>3 DEF ResearchPages
  <2> HIDE DEF page
  <2> QED BY <2>3, <2>4, <2>5 DEF Fits
<1>3. CASE result # "raised" /\ op.name # "open"
  <2>1. op.name = "analyse" /\ op.kind \in Kinds /\ op.key \in Keys /\ op = Analyse(op.kind, op.key)
    BY <1>3, ByName DEF Page
  <2> DEFINE x == op.kind
             report == IF Applies(op) THEN op.key ELSE research.of[x].report
             new == [research.of[x] EXCEPT !.pending = None, !.report = report]
             page == [research EXCEPT !.busy = FALSE, !.of = [research.of EXCEPT ![x] = new]]
  <2>2. report \in {None, KeyOf(x, research.candidate)} /\ report \in Keys \union {None}
    BY <1>0, <2>1 DEF Applies, Current, Analyses
  <2>3. Answered(op, result) = page
    BY <1>3 DEF Answered
  <2> HIDE DEF report
  <2>4. new \in Analyses /\ new.pending = None /\ new.report = report
    BY <1>0, <2>1, <2>2 DEF Analyses
  <2> HIDE DEF new
  <2>5. /\ page \in ResearchPages /\ page.busy = FALSE
        /\ page.candidate = research.candidate
        /\ page.of = [research.of EXCEPT ![x] = new]
    BY <2>1, <2>4 DEF ResearchPages
  <2> HIDE DEF page
  <2>6. ASSUME NEW k \in Kinds, k # x PROVE research.of[k].pending = None
    <3> SUFFICES ASSUME research.of[k].pending # None PROVE FALSE
      OBVIOUS
    <3>1. op = Analyse(k, research.of[k].pending) /\ research.of[k].pending \in Keys
      BY <1>0, <2>6 DEF Fits, Analyses
    <3> QED BY <2>6, <3>1, Made
  <2> QED BY <1>0, <2>1, <2>2, <2>3, <2>4, <2>5, <2>6 DEF Fits
<1> QED BY <1>1, <1>2, <1>3

LEMMA PollInv == ASSUME DesktopInv, Poll PROVE DesktopInv'
<1>1. /\ active \in Operations /\ active # None /\ work.stage = "done" /\ work.op = active
      /\ work.result \in {"ok", "raised"} /\ UNCHANGED <<closed, version>>
      /\ closed \in BOOLEAN /\ runner \in BOOLEAN /\ version \in 0 .. MaxVersion
      /\ Fits(research, active) /\ research \in ResearchPages
  BY DEF Poll, Deliverable, Busy, DesktopInv, Shape, Threads
<1>2. CASE Page(active) # "storage"
  <2> DEFINE page == Answered(active, work.result)
  <2>1. Refreshed(page) /\ UNCHANGED <<storage, reviewed>>
    BY <1>2 DEF Poll
  <2>2. page \in ResearchPages /\ Fits(page, None)
    BY <1>1, <1>2, AnsweredFits DEF Page
  <2> HIDE DEF page
  <2>3. ~storage.busy
    BY <1>2 DEF DesktopInv, Offered
  <2> QED BY <1>1, <2>1, <2>2, <2>3, RefreshedInv DEF DesktopInv, Shape, Offered
<1>3. CASE Page(active) = "storage"
  <2>1. \/ /\ active.name = "review"
           /\ \E displayed \in BOOLEAN : Reviewed(active, work.result, work.value, displayed)
        \/ active.name = "execute" /\ Executed(active, work.result)
    BY <1>3 DEF Poll
  <2>2. Refreshed(research)
    BY <1>3 DEF Poll
  <2>3. active.name # "analyse" /\ \A k \in Kinds : research.of[k].pending = None
    BY <1>1, <2>1, NonePending
  <2>4. Fits(research, None)
    BY <1>1, <1>3, <2>3 DEF Fits
  <2>5. storage.review \in Reviews /\ storage.scope \in Scopes /\ storage \in StoragePages
        /\ reviewed \in Plans \union {None}
    BY DEF DesktopInv, Shape, StoragePages
  <2>6. /\ storage' \in StoragePages /\ ~storage'.busy /\ reviewed' \in Plans \union {None}
        /\ storage'.review.executable =>
             /\ storage'.review.plan \in Plans /\ storage'.review.plan.scope = storage'.scope
             /\ Executable(storage'.review.plan)
    <3>1. CASE active.name = "review"
      <4>1. PICK displayed \in BOOLEAN : Reviewed(active, work.result, work.value, displayed)
        BY <2>1, <3>1
      <4> DEFINE plan == work.value
                 new == IF work.result = "raised" \/ active.scope # storage.scope \/ ~displayed
                        THEN storage.review
                        ELSE [plan |-> plan, executable |-> Executable(plan),
                              sealed |-> active.scope, confirmed |-> FALSE]
      <4>2. storage' = [storage EXCEPT !.busy = FALSE, !.review = new]
        BY <4>1 DEF Reviewed
      <4>3. /\ new \in Reviews
            /\ new.executable => /\ new.plan \in Plans /\ new.plan.scope = storage.scope
                                 /\ Executable(new.plan)
        <5>1. CASE work.result = "raised" \/ active.scope # storage.scope \/ ~displayed
          BY <2>5, <5>1 DEF DesktopInv, Offered
        <5>2. CASE ~(work.result = "raised" \/ active.scope # storage.scope \/ ~displayed)
          <6>1. plan \in Plans /\ plan.scope = storage.scope
            BY <1>1, <3>1, <5>2 DEF DesktopInv, Threads
          <6>2. Executable(plan) \in BOOLEAN
            BY DEF Executable
          <6> QED BY <2>5, <5>2, <6>1, <6>2 DEF Reviews
        <5> QED BY <5>1, <5>2
      <4> HIDE DEF new
      <4>4. /\ storage' \in StoragePages /\ storage'.busy = FALSE /\ storage'.review = new
            /\ storage'.scope = storage.scope
        BY <2>5, <4>2, <4>3 DEF StoragePages
      <4>5. reviewed' \in Plans \union {None}
        BY <2>5, <4>1 DEF Reviewed
      <4> QED BY <4>3, <4>4, <4>5
    <3>2. CASE active.name = "execute"
      <4> DEFINE new == IF work.result = "raised" \/ active.plan.scope # storage.scope
                        THEN storage.review
                        ELSE [storage.review EXCEPT !.executable = FALSE, !.confirmed = FALSE]
      <4>1. storage' = [storage EXCEPT !.busy = FALSE, !.review = new] /\ reviewed' = reviewed
        BY <2>1, <3>2 DEF Executed
      <4>2. /\ new \in Reviews
            /\ new.executable => new = storage.review
        BY <2>5 DEF Reviews
      <4> HIDE DEF new
      <4>3. /\ storage' \in StoragePages /\ storage'.busy = FALSE /\ storage'.review = new
            /\ storage'.scope = storage.scope
        BY <2>5, <4>1, <4>2 DEF StoragePages
      <4> QED BY <2>5, <4>1, <4>2, <4>3 DEF DesktopInv, Offered
    <3> QED BY <2>1, <3>1, <3>2
  <2> QED BY <1>1, <2>2, <2>4, <2>6, RefreshedInv
<1> QED BY <1>2, <1>3

-----------------------------------------------------------------------------
LEMMA DesktopInit == Init => DesktopInv
<1> SUFFICES ASSUME Init PROVE DesktopInv
  OBVIOUS
<1>1. NoAnalysis \in Analyses /\ NoAnalysis.report = None /\ NoAnalysis.pending = None
  BY DEF NoAnalysis, Analyses, Errors
<1>2. NoReview \in Reviews /\ NoReview.executable = FALSE
  BY DEF NoReview, Reviews
<1>3. PICK s \in Scopes : storage = [scope |-> s, busy |-> FALSE, review |-> NoReview]
  BY DEF Init
<1>4. PICK c \in Candidates :
        research = [view |-> "other", candidate |-> c, busy |-> FALSE,
                    of |-> [k \in Kinds |-> NoAnalysis]]
  BY DEF Init
<1> HIDE DEF NoReview, NoAnalysis
<1>5. active = None /\ closed = FALSE /\ work = NoWork /\ runner = FALSE
      /\ version = 0 /\ reviewed = None
  BY DEF Init, RuntimeInit
<1>6. Shape
  <2>1. work \in Works
    BY <1>5 DEF Works, NoWork, Stages
  <2>2. storage \in StoragePages
    BY <1>2, <1>3 DEF StoragePages
  <2>3. [k \in Kinds |-> NoAnalysis] \in [Kinds -> Analyses]
    BY <1>1
  <2>4. research \in ResearchPages
    BY <1>4, <2>3 DEF ResearchPages, Views
  <2>5. version \in 0 .. MaxVersion
    BY <1>5, ScopeAssumption
  <2> QED BY <1>5, <2>1, <2>2, <2>4, <2>5, Zenon DEF Shape
<1>7. Threads /\ Offered
  BY <1>2, <1>3, <1>5 DEF Threads, Offered, NoWork
<1>8. Fits(research, active)
  BY <1>1, <1>4, <1>5 DEF Fits
<1> QED BY <1>6, <1>7, <1>8 DEF DesktopInv

LEMMA DesktopStep == DesktopInv /\ [Next]_vars => DesktopInv'
<1> SUFFICES ASSUME DesktopInv, [Next]_vars PROVE DesktopInv'
  OBVIOUS
<1>1. CASE Shutdown \/ ArchiveChanges \/ UNCHANGED vars
  <2>1. UNCHANGED <<active, work, runner, reviewed, storage, research>>
    BY <1>1 DEF Shutdown, RequestShutdown, ArchiveChanges, vars, runtime, worker
  <2>2. closed' \in BOOLEAN /\ (active # None => closed' = closed)
    BY <1>1 DEF Shutdown, RequestShutdown, Busy, ArchiveChanges, vars, runtime, DesktopInv, Shape
  <2>3. version' \in 0 .. MaxVersion
    <3>1. version \in 0 .. MaxVersion
      BY DEF DesktopInv, Shape
    <3>2. version' = version \/ (version < MaxVersion /\ version' = version + 1)
      BY <1>1 DEF Shutdown, ArchiveChanges, vars
    <3> QED BY <3>1, <3>2, ScopeAssumption
  <2> QED BY <2>1, <2>2, <2>3 DEF DesktopInv, Shape, Threads, Offered
<1> QED
  BY <1>1, PollInv, WorkerInv, SelectViewInv, SelectCandidateInv, OpenInv, RetryInv, StorageInv
  DEF Next

\* The runtime, its worker and the two pages agree on what is under way.
THEOREM DesktopInvAlways == Spec => []DesktopInv
BY DesktopInit, DesktopStep, PTL DEF Spec

\* The threads and the pages keep their types.
THEOREM TypeCorrect == Spec => []TypeOK
<1>1. DesktopInv => TypeOK
  BY DEF DesktopInv, Shape, TypeOK, Works, StoragePages, Reviews, ResearchPages, Analyses
<1> QED BY DesktopInvAlways, <1>1, PTL

\* A purge that is carried out is the one on the page, reviewed as executable for
\* the scope the page still shows; and the runtime waits for it.
THEOREM OnlyReviewedAlways == Spec => []ExecutesOnlyReviewed
<1>1. DesktopInv => ExecutesOnlyReviewed
  <2> SUFFICES ASSUME DesktopInv PROVE ExecutesOnlyReviewed
    OBVIOUS
  <2>1. work.stage = "middle" => active # None
    BY DEF DesktopInv, Threads, NoWork
  <2> QED BY <2>1 DEF DesktopInv, Threads, Offered, ExecutesOnlyReviewed
<1> QED BY DesktopInvAlways, <1>1, PTL

\* What the research page shows is of its selection, and a page is busy exactly
\* while the runtime works for it.
THEOREM ShownAlwaysBelongs == Spec => []ShownBelongs
<1>1. DesktopInv => ShownBelongs
  BY DEF DesktopInv, Offered, Fits, ShownBelongs, Current, Busy
<1> QED BY DesktopInvAlways, <1>1, PTL
=============================================================================
