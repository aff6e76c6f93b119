--------------------------- MODULE Backfill_proofs ---------------------------
(***************************************************************************)
(* Proofs about Backfill for any symbols, commands, days, answers of the   *)
(* exchange and bounds.                                                    *)
(***************************************************************************)
EXTENDS Backfill, CalendarCoverage_proofs, SequenceTheorems, FiniteSetTheorems, TLAPS

Opened == {"collect", "quality", "run", "returned"}

\* Whose operation is under way, and that its run exists while it writes to it.
Control ==
  /\ pc \in PlanPlaces \union {"refused", "loop", "attempt"} => cmd.name = "backfill"
  /\ pc = "gap" => at.remaining \subseteq at.left
  /\ pc \in Opened => cmd.name \in {"backfill", "recover"} /\ runs # <<>>
  /\ pc \in ChildPlaces => at.day \in Days
TypeInv == TypeOK /\ Control

USE DEF PlanPlaces

-----------------------------------------------------------------------------
(***************************************************************************)
(* The operators the plan is made with                                     *)
(***************************************************************************)
LEMMA LeastOf ==
  ASSUME NEW S \in SUBSET Nat, S # {}
  PROVE  Least(S) \in S /\ \A x \in S : Least(S) <= x
<1> DEFINE R == {ss \in Nat \X Nat : ss[1] < ss[2]}
<1>1. IsWellFoundedOn(R, Nat)
  BY NatLessThanWellFounded DEF OpToRel
<1>2. PICK m \in S : \A y \in S : ~(<<y, m>> \in R)
  <2> HIDE DEF R
  <2> QED BY <1>1, WFMin
<1>3. \A y \in S : ~(y < m)
  BY <1>2
<1>4. \A y \in S : m <= y
  BY <1>3
<1> QED BY <1>4 DEF Least

LEMMA GreatestOf ==
  ASSUME NEW N \in Nat, NEW S \in SUBSET (1 .. N), S # {}
  PROVE  Greatest(S) \in S /\ \A x \in S : Greatest(S) >= x
<1> DEFINE T == {N - x : x \in S}
<1>1. T \in SUBSET Nat
  <2>1. \A x \in S : N - x \in Nat
    OBVIOUS
  <2> QED BY <2>1
<1>2. T # {}
  OBVIOUS
<1> HIDE DEF T
<1>3. Least(T) \in T /\ \A y \in T : Least(T) <= y
  BY <1>1, <1>2, LeastOf
<1>4. PICK m \in S : Least(T) = N - m
  BY <1>3 DEF T
<1>5. ASSUME NEW x \in S PROVE m >= x
  <2>1. N - x \in T
    BY DEF T
  <2>2. N - m <= N - x /\ x \in Int /\ m \in Int /\ N \in Int
    BY <1>3, <1>4, <2>1
  <2> QED BY <2>2
<1> QED BY <1>5 DEF Greatest

LEMMA TradingDaysType ==
  ASSUME calendar \in Seq(Batches), NEW from, NEW to
  PROVE  /\ TradingDates(calendar, from, to) \subseteq Days
         /\ \A d \in TradingDates(calendar, from, to) : from <= d /\ d <= to
<1>1. \A i \in DOMAIN calendar : calendar[i].days \subseteq Days
  <2>1. \A i \in DOMAIN calendar : calendar[i] \in Batches
    OBVIOUS
  <2> QED BY <2>1 DEF Batches
<1>2. \A row \in LatestRows(calendar) : row[2] \in Days
  BY <1>1 DEF LatestRows
<1> HIDE DEF LatestRows
<1> QED BY <1>2 DEF TradingDates

LEMMA LatestType ==
  ASSUME NEW s, NEW end \in Nat
  PROVE  Latest(s, end) \in 0 .. end
<1> DEFINE D == CompletedDates(s, end)
<1>1. D \in SUBSET (1 .. end)
  BY DEF CompletedDates
<1>2. D # {} => Greatest(D) \in 1 .. end
  BY <1>1, GreatestOf
<1>3. Latest(s, end) = IF D = {} THEN 0 ELSE Greatest(D)
  BY DEF Latest
<1> HIDE DEF D
<1> QED BY <1>2, <1>3

\* The next known trading date is a day.
LEMMA NextIsDay ==
  ASSUME TypeInv, NEW from, NEW to, DatesAfter(calendar, from, to) # {}
  PROVE  Least(DatesAfter(calendar, from, to)) \in Days
<1> DEFINE next == DatesAfter(calendar, from, to)
<1>1. next \in SUBSET Days
  BY TradingDaysType DEF DatesAfter, TypeInv, TypeOK
<1>2. next \in SUBSET Nat /\ next # {}
  BY <1>1 DEF Days
<1> HIDE DEF next
<1>3. Least(next) \in next
  BY <1>2, LeastOf
<1> QED BY <1>1, <1>3 DEF next

-----------------------------------------------------------------------------
(***************************************************************************)
(* Types                                                                   *)
(***************************************************************************)
Commanded == [name : {"none", "backfill", "recover"}, asked : SUBSET Symbols,
              incremental : BOOLEAN, force : BOOLEAN, end : 0 .. LastDay]
Planned   == [start : [Symbols -> 0 .. LastDay + 1],
              seen : 0 .. MaxBatches, pending : SUBSET Items, skipped : SUBSET Items]
Reported  == [success : SUBSET Items, failed : SUBSET Items, children : SUBSET RunIds,
              status : {"none", "SUCCESS", "PARTIAL", "FAILED"}]
Looped    == [day : 0 .. LastDay, attempt : 0 .. MaxRetries, remaining : SUBSET Symbols,
              left : SUBSET Symbols]

LEMMA Typed ==
  TypeOK <=> /\ calendar \in Seq(Batches) /\ Len(calendar) <= MaxBatches
             /\ runs \in Seq(Runs) /\ Len(runs) <= MaxRuns
             /\ pc \in Places /\ cmd \in Commanded /\ plan \in Planned
             /\ manifest \in Reported /\ at \in Looped
BY DEF TypeOK, Commanded, Planned, Reported, Looped

LEMMA Bounds == /\ LastDay \in Nat /\ LastDay >= 1 /\ MaxBatches \in Nat /\ MaxRuns \in Nat
                /\ MaxRetries \in Nat
BY DayAssumption, BoundAssumption

LEMMA Blank == /\ NoCmd \in Commanded /\ NoPlan \in Planned /\ NoManifest \in Reported
               /\ NoLoop \in Looped
<1>1. 0 \in 0 .. LastDay /\ 0 \in 0 .. LastDay + 1 /\ 0 \in 0 .. MaxBatches /\ 0 \in 0 .. MaxRetries
  BY Bounds
<1>2. NoCmd \in Commanded
  BY <1>1 DEF NoCmd, Commanded
<1>3. [s \in Symbols |-> 0] \in [Symbols -> 0 .. LastDay + 1]
  BY <1>1
<1>4. NoPlan \in Planned
  BY <1>1, <1>3 DEF NoPlan, Planned
<1>5. NoManifest \in Reported
  BY DEF NoManifest, Reported
<1>6. NoLoop \in Looped
  BY <1>1 DEF NoLoop, Looped
<1> QED BY <1>2, <1>4, <1>5, <1>6

\* The newest run, and what writing to it changes.
LEMMA Newest ==
  ASSUME TypeInv, runs # <<>>
  PROVE  /\ Run \in 1 .. Len(runs) /\ Run \in DOMAIN runs /\ DOMAIN runs = 1 .. Len(runs)
         /\ runs[Run] \in Runs /\ Run \in RunIds
<1>1. runs \in Seq(Runs) /\ Len(runs) <= MaxRuns /\ MaxRuns \in Nat
  BY Bounds DEF TypeInv, TypeOK
<1>2. Len(runs) \in Nat \ {0}
  BY <1>1, EmptySeq
<1> QED BY <1>1, <1>2, ElementOfSeq DEF Run, RunIds

LEMMA Written ==
  ASSUME TypeInv, runs # <<>>, NEW r \in Runs, runs' = [runs EXCEPT ![Run] = r]
  PROVE  /\ runs' \in Seq(Runs) /\ Len(runs') = Len(runs) /\ runs' # <<>>
         /\ DOMAIN runs' = DOMAIN runs
         /\ \A j \in DOMAIN runs : runs'[j] = IF j = Run THEN r ELSE runs[j]
<1>1. runs \in Seq(Runs) /\ Run \in 1 .. Len(runs) /\ DOMAIN runs = 1 .. Len(runs)
  BY Newest DEF TypeInv, TypeOK
<1>2. /\ runs' \in Seq(Runs) /\ Len(runs') = Len(runs)
      /\ \A j \in 1 .. Len(runs) : runs'[j] = IF j = Run THEN r ELSE runs[j]
  BY <1>1, ExceptSeq
<1>3. DOMAIN runs' = DOMAIN runs
  BY <1>1, <1>2
<1>4. runs' # <<>>
  BY <1>1, <1>2, EmptySeq
<1> QED BY <1>1, <1>2, <1>3, <1>4

LEMMA OpenedRun ==
  ASSUME TypeInv, Len(runs) < MaxRuns, NEW day \in Days, NEW S \in SUBSET Symbols, OpenRun(day, S)
  PROVE  LET r == [day |-> day, asked |-> S, raw |-> {}, pairs |-> {},
                   bad |-> FALSE, json |-> FALSE, fail |-> FALSE, row |-> FALSE]
         IN  /\ runs' \in Seq(Runs) /\ Len(runs') <= MaxRuns /\ runs' # <<>>
             /\ Run' \notin DOMAIN runs
             /\ DOMAIN runs' = DOMAIN runs \union {Run'} /\ runs'[Run'] = r
             /\ \A j \in DOMAIN runs : runs'[j] = runs[j]
<1> DEFINE r == [day |-> day, asked |-> S, raw |-> {}, pairs |-> {},
                 bad |-> FALSE, json |-> FALSE, fail |-> FALSE, row |-> FALSE]
<1>1. r \in Runs
  BY DEF Runs
<1>2. runs' = Append(runs, r)
  BY DEF OpenRun
<1> HIDE DEF r
<1>3. runs \in Seq(Runs) /\ Len(runs) \in Nat /\ DOMAIN runs = 1 .. Len(runs)
  BY DEF TypeInv, TypeOK
<1>4. /\ runs' \in Seq(Runs) /\ runs' # <<>> /\ Len(runs') = Len(runs) + 1
      /\ \A j \in 1 .. Len(runs) : runs'[j] = runs[j]
      /\ runs'[Len(runs) + 1] = r
  BY <1>1, <1>2, <1>3, AppendProperties
<1>5. Run' = Len(runs) + 1 /\ DOMAIN runs' = 1 .. Len(runs) + 1
  BY <1>4 DEF Run
<1>6. Len(runs') <= MaxRuns
  BY <1>3, <1>4, Bounds
<1>7. /\ Run' \notin DOMAIN runs
      /\ DOMAIN runs' = DOMAIN runs \union {Run'}
  BY <1>3, <1>5
<1> QED BY <1>3, <1>4, <1>5, <1>6, <1>7 DEF r

-----------------------------------------------------------------------------
\* What each step of the collection makes of its run.
LEMMA Collects ==
  ASSUME TypeInv, NEW s \in Symbols, NEW got, Collect(s, got)
  PROVE  /\ runs # <<>>
         /\ \E r \in Runs : /\ runs' = [runs EXCEPT ![Run] = r]
                            /\ r.day = runs[Run].day /\ r.asked = runs[Run].asked
                            /\ r.bad = runs[Run].bad /\ r.fail = runs[Run].fail
                            /\ r.row = runs[Run].row
<1>1. runs # <<>>
  BY DEF Collect, TypeInv, Control, Opened
<1> DEFINE old == runs[Run]
           raw == IF got = "nothing" THEN old.raw ELSE old.raw \union {s}
           pairs == IF got = "pair" THEN old.pairs \union {s} ELSE old.pairs
           r == [old EXCEPT !.raw = raw, !.pairs = pairs]
<1>2. old \in Runs /\ Run \in DOMAIN runs
  BY <1>1, Newest
<1>3. runs' = [runs EXCEPT ![Run] = r]
  BY <1>2 DEF Collect
<1>4. raw \in SUBSET Symbols /\ pairs \in SUBSET Symbols
  BY <1>2 DEF Runs
<1> HIDE DEF raw, pairs, old
<1>5. /\ r \in Runs /\ r.day = old.day /\ r.asked = old.asked
      /\ r.bad = old.bad /\ r.fail = old.fail /\ r.row = old.row
  BY <1>2, <1>4 DEF Runs
<1> QED BY <1>1, <1>3, <1>5 DEF old

LEMMA WritesEvidence ==
  ASSUME TypeInv, NEW bad \in BOOLEAN, WriteEvidence(bad)
  PROVE  /\ runs # <<>>
         /\ \E r \in Runs : /\ runs' = [runs EXCEPT ![Run] = r]
                            /\ r.day = runs[Run].day /\ r.asked = runs[Run].asked
                            /\ r.row = runs[Run].row
<1>1. runs # <<>>
  BY DEF WriteEvidence, TypeInv, Control, Opened
<1> DEFINE old == runs[Run]
           r == [old EXCEPT !.bad = bad, !.json = TRUE]
<1>2. old \in Runs /\ Run \in DOMAIN runs
  BY <1>1, Newest
<1>3. runs' = [runs EXCEPT ![Run] = r]
  BY <1>2 DEF WriteEvidence
<1> HIDE DEF old
<1>4. r \in Runs /\ r.day = old.day /\ r.asked = old.asked /\ r.row = old.row
  BY <1>2 DEF Runs
<1> QED BY <1>1, <1>3, <1>4 DEF old

LEMMA RecordsQuality ==
  ASSUME TypeInv, RecordQuality
  PROVE  /\ runs # <<>>
         /\ \E r \in Runs : /\ runs' = [runs EXCEPT ![Run] = r]
                            /\ r.day = runs[Run].day /\ r.asked = runs[Run].asked
                            /\ r.bad = r.fail /\ r.row = runs[Run].row
<1>1. runs # <<>>
  BY DEF RecordQuality, TypeInv, Control, Opened
<1> DEFINE old == runs[Run]
           r == [old EXCEPT !.fail = old.bad]
<1>2. old \in Runs /\ Run \in DOMAIN runs
  BY <1>1, Newest
<1>3. runs' = [runs EXCEPT ![Run] = r]
  BY <1>2 DEF RecordQuality
<1> HIDE DEF old
<1>4. r \in Runs /\ r.day = old.day /\ r.asked = old.asked /\ r.bad = r.fail /\ r.row = old.row
  BY <1>2 DEF Runs
<1> QED BY <1>1, <1>3, <1>4 DEF old

LEMMA RecordsRun ==
  ASSUME TypeInv, RecordRun
  PROVE  /\ runs # <<>>
         /\ \E r \in Runs : /\ runs' = [runs EXCEPT ![Run] = r]
                            /\ r.day = runs[Run].day /\ r.asked = runs[Run].asked
                            /\ r.bad = runs[Run].bad /\ r.fail = runs[Run].fail /\ r.row
<1>1. runs # <<>>
  BY DEF RecordRun, TypeInv, Control, Opened
<1> DEFINE old == runs[Run]
           r == [old EXCEPT !.row = TRUE]
<1>2. old \in Runs /\ Run \in DOMAIN runs
  BY <1>1, Newest
<1>3. runs' = [runs EXCEPT ![Run] = r]
  BY <1>2 DEF RecordRun
<1> HIDE DEF old
<1>4. /\ r \in Runs /\ r.day = old.day /\ r.asked = old.asked
      /\ r.bad = old.bad /\ r.fail = old.fail /\ r.row
  BY <1>2 DEF Runs
<1> QED BY <1>1, <1>3, <1>4 DEF old

LEMMA CaptureType ==
  ASSUME TypeInv, NEW from \in Days, NEW to \in Days, NEW answer \in Answers, Capture(from, to, answer)
  PROVE  TypeInv'
<1> DEFINE b == [from |-> from, to |-> to, days |-> answer \intersect (from .. to)]
<1>1. b \in Batches
  BY DayAssumption DEF Batches
<1>2. calendar' = Append(calendar, b) /\ Len(calendar) < MaxBatches
      /\ UNCHANGED <<runs, pc, cmd, plan, manifest, at>>
  BY DEF Capture, op
<1>3. calendar \in Seq(Batches) /\ Len(calendar) \in Nat
  BY DEF TypeInv, TypeOK
<1> HIDE DEF b
<1>4. calendar' \in Seq(Batches) /\ Len(calendar') = Len(calendar) + 1
  BY <1>1, <1>2, <1>3, AppendProperties
<1>5. Len(calendar') <= MaxBatches
  BY <1>2, <1>3, <1>4, Bounds
<1> QED BY <1>2, <1>4, <1>5, Typed DEF TypeInv, Control, Commanded, Planned, Reported, Looped, TypeOK

LEMMA BeginType ==
  ASSUME TypeInv, NEW c \in Commands, BackfillBegin(c) PROVE TypeInv'
<1>1. c.asked \in SUBSET Symbols /\ c.incremental \in BOOLEAN /\ c.force \in BOOLEAN /\ c.end \in 0 .. LastDay
  BY CommandAssumption, Bounds DEF Arguments, Days
<1>2. cmd' \in Commanded /\ cmd'.name = "backfill"
  BY <1>1 DEF BackfillBegin, Commanded
<1>3. plan' \in Planned
  <2> DEFINE g == [s \in Symbols |-> IF s \in c.asked \ Continued(c) THEN c.low ELSE 0]
  <2>1. 0 \in 0 .. LastDay + 1 /\ c.low \in 0 .. LastDay + 1
    BY CommandAssumption, Bounds DEF Arguments
  <2>2. g \in [Symbols -> 0 .. LastDay + 1]
    BY <2>1
  <2>3. plan' = NoPlan \/ plan' = [NoPlan EXCEPT !.start = g]
    BY DEF BackfillBegin
  <2> HIDE DEF g
  <2>4. NoPlan \in Planned
    BY Blank
  <2> HIDE DEF NoPlan
  <2> QED BY <2>2, <2>3, <2>4 DEF Planned
<1>4. manifest' \in Reported /\ at' \in Looped
  <2>1. at' = NoLoop \/ at' = [NoLoop EXCEPT !.left = Continued(c)]
    BY DEF BackfillBegin
  <2>2. Continued(c) \in SUBSET Symbols
    BY <1>1 DEF Continued
  <2>3. NoLoop \in Looped /\ NoManifest \in Reported
    BY Blank
  <2> HIDE DEF NoLoop
  <2> QED BY <2>1, <2>2, <2>3 DEF Looped, BackfillBegin
<1>5. pc' \in {"refused", "starts"} /\ UNCHANGED <<calendar, runs>>
  BY DEF BackfillBegin
<1>6. TypeOK'
  BY <1>2, <1>3, <1>4, <1>5 DEF TypeInv, TypeOK, Commanded, Planned, Reported, Looped, Places
<1> QED BY <1>2, <1>5, <1>6 DEF TypeInv, Control, Opened, ChildPlaces

\* What the two queries about the start of one symbol may do.
LEMMA Queries ==
  ASSUME TypeInv, NEW s \in Symbols, NextDate(s) \/ Gap(s)
  PROVE  /\ UNCHANGED <<calendar, runs, cmd, manifest>>
         /\ s \in at.left
         /\ \/ /\ pc = "starts" /\ pc' = "gap" /\ UNCHANGED plan
               /\ at' = [at EXCEPT !.remaining = {s}]
            \/ pc = "gap" /\ pc' = "refused" /\ UNCHANGED <<plan, at>>
            \/ /\ pc \in {"starts", "gap"} /\ pc' = "starts"
               /\ at' = [at EXCEPT !.left = @ \ {s}, !.remaining = {}]
               /\ \E day \in 1 .. LastDay + 1 :
                    plan' = [plan EXCEPT !.start[s] = day, !.seen = Len(calendar)]
<1>1. cmd.end \in 0 .. LastDay /\ cmd.end + 1 \in 1 .. LastDay + 1
  BY Typed, Bounds DEF TypeInv, Commanded
<1>2. Days \subseteq 1 .. LastDay + 1
  BY Bounds DEF Days
<1>3. s \in at.left
  BY DEF NextDate, Gap, TypeInv, Control
<1>4. CASE NextDate(s)
  <2> DEFINE next == DatesAfter(calendar, Latest(s, cmd.end), cmd.end)
  <2>1. next # {} => Least(next) \in 1 .. LastDay + 1
    BY <1>2, NextIsDay
  <2>2. /\ UNCHANGED <<calendar, runs, cmd, manifest>> /\ pc = "starts"
        /\ \/ next # {} /\ StartsAt(s, Least(next))
           \/ StartsAt(s, cmd.end + 1)
           \/ pc' = "gap" /\ at' = [at EXCEPT !.remaining = {s}] /\ UNCHANGED plan
    BY <1>4 DEF NextDate
  <2> HIDE DEF next
  <2> QED BY <1>1, <1>3, <2>1, <2>2 DEF StartsAt
<1>5. CASE Gap(s)
  BY <1>1, <1>3, <1>5 DEF Gap, StartsAt
<1> QED BY <1>4, <1>5

LEMMA QueryType ==
  ASSUME TypeInv, NEW s \in Symbols, NextDate(s) \/ Gap(s) PROVE TypeInv'
<1>1. plan \in Planned /\ at \in Looped /\ Len(calendar) \in 0 .. MaxBatches
  BY Typed, Bounds DEF TypeInv, TypeOK
<1>2. UNCHANGED <<calendar, runs, cmd, manifest>> /\ pc' \in {"starts", "gap", "refused"}
  BY Queries
<1>3. plan' \in Planned
  <2>1. \/ plan' = plan
        \/ \E day \in 1 .. LastDay + 1 :
             plan' = [plan EXCEPT !.start[s] = day, !.seen = Len(calendar)]
    BY Queries
  <2>2. CASE plan' = plan
    BY <1>1, <2>2
  <2>3. ASSUME NEW day \in 1 .. LastDay + 1,
               plan' = [plan EXCEPT !.start[s] = day, !.seen = Len(calendar)]
        PROVE  plan' \in Planned
    <3> DEFINE n == Len(calendar)
    <3>1. day \in 0 .. LastDay + 1 /\ n \in 0 .. MaxBatches
      BY <1>1, Bounds
    <3>2. plan' = [plan EXCEPT !.start[s] = day, !.seen = n]
      BY <2>3
    <3> HIDE DEF n
    <3> QED BY <1>1, <3>1, <3>2 DEF Planned
  <2> QED BY <2>1, <2>2, <2>3
<1>4. at' \in Looped
  <2>1. \/ at' = at \/ at' = [at EXCEPT !.remaining = {s}]
        \/ at' = [at EXCEPT !.left = @ \ {s}, !.remaining = {}]
    BY Queries
  <2> QED BY <1>1, <2>1 DEF Looped
<1>5. TypeOK'
  BY <1>2, <1>3, <1>4 DEF TypeInv, TypeOK, Commanded, Planned, Reported, Looped, Places
<1>6. pc' = "gap" => at'.remaining = {s} /\ at'.left = at.left
  <2>1. pc' = "gap" => at' = [at EXCEPT !.remaining = {s}]
    BY Queries
  <2> QED BY <1>1, <2>1 DEF Looped
<1>7. s \in at.left /\ cmd'.name = "backfill"
  BY <1>2, Queries DEF TypeInv, Control
<1> QED BY <1>2, <1>5, <1>6, <1>7 DEF TypeInv, Control, Opened, ChildPlaces

LEMMA PlanType ==
  ASSUME TypeInv, PlanCoverage \/ PlanDates \/ PlanRaises PROVE TypeInv'
<1> USE DEF TypeInv, TypeOK
<1>1. UNCHANGED <<calendar, runs, cmd, manifest, at>>
  BY DEF PlanCoverage, PlanDates, PlanRaises
<1>2. pc' \in {"loop", "refused", "dates"} /\ cmd.name = "backfill"
  BY DEF PlanCoverage, PlanDates, PlanRaises, Control
<1>3. Len(calendar) \in 0 .. MaxBatches
  BY Bounds
<1>4. plan \in Planned
  BY Typed
<1>5. plan' \in Planned
  <2>1. CASE PlanCoverage
    BY <1>3, <1>4, <2>1 DEF PlanCoverage, Planned
  <2>2. CASE PlanDates
    <3> DEFINE dates == TradingDates(calendar, Least(Starts), cmd.end)
               all == {i \in cmd.asked \X dates : i[2] >= plan.start[i[1]]}
               n == Len(calendar)
    <3>1. dates \subseteq Days
      BY TradingDaysType
    <3>2. cmd.asked \subseteq Symbols
      OBVIOUS
    <3> HIDE DEF dates
    <3>3. all \in SUBSET Items
      BY <3>1, <3>2 DEF Items
    <3>4. plan' = [plan EXCEPT !.pending = all \ Skipped(all), !.skipped = Skipped(all), !.seen = n]
      BY <2>2 DEF PlanDates, dates
    <3> HIDE DEF all, n
    <3>5. Skipped(all) \in SUBSET Items
      BY <3>3 DEF Skipped
    <3>6. n \in 0 .. MaxBatches
      BY <1>3 DEF n
    <3> QED BY <1>4, <3>3, <3>4, <3>5, <3>6 DEF Planned
  <2>3. CASE PlanRaises
    BY <1>4, <2>3 DEF PlanRaises
  <2> QED BY <2>1, <2>2, <2>3
<1>6. TypeOK'
  BY <1>1, <1>2, <1>5, Typed DEF Planned, Places
<1> QED BY <1>1, <1>2, <1>6 DEF Control, Opened, ChildPlaces

-----------------------------------------------------------------------------
\* The steps that open a run or write to the newest one.
LEMMA OpensType ==
  ASSUME TypeInv, AttemptBegin \/ \E r \in RunIds, S \in SUBSET Symbols : RecoverBegin(r, S)
  PROVE  TypeInv'
<1>1. /\ runs' \in Seq(Runs) /\ Len(runs') <= MaxRuns /\ runs' # <<>>
      /\ UNCHANGED calendar /\ pc' = "collect" /\ cmd' \in Commanded
      /\ cmd'.name \in {"backfill", "recover"}
      /\ plan' \in Planned /\ manifest' \in Reported /\ at' \in Looped /\ at'.day \in Days
  <2>1. CASE \E r \in RunIds, S \in SUBSET Symbols : RecoverBegin(r, S)
    <3>0. PICK r \in RunIds, S \in SUBSET Symbols : RecoverBegin(r, S)
      BY <2>1
    <3>1. r \in DOMAIN runs /\ runs[r] \in Runs
      <4>1. runs \in Seq(Runs)
        BY DEF TypeInv, TypeOK
      <4>2. r \in DOMAIN runs
        BY <3>0 DEF RecoverBegin
      <4> QED BY <4>1, <4>2, ElementOfSeq
    <3>2. runs[r].day \in Days
      BY <3>1 DEF Runs
    <3> DEFINE day == runs[r].day
    <3>3. Len(runs) < MaxRuns /\ OpenRun(day, S)
      BY <3>0 DEF RecoverBegin
    <3>4. /\ pc' = "collect" /\ UNCHANGED calendar
          /\ cmd' = [NoCmd EXCEPT !.name = "recover"]
          /\ plan' = NoPlan /\ manifest' = NoManifest
          /\ at' = [NoLoop EXCEPT !.day = day, !.left = S]
      BY <3>0 DEF RecoverBegin
    <3>5. day \in Days /\ day \in 0 .. LastDay
      BY <3>2, Bounds DEF Days
    <3> HIDE DEF day
    <3>6. runs' \in Seq(Runs) /\ Len(runs') <= MaxRuns /\ runs' # <<>>
      BY <3>3, <3>5, OpenedRun
    <3> HIDE DEF NoCmd, NoLoop
    <3>7. cmd' \in Commanded /\ cmd'.name = "recover"
      BY <3>4, Blank DEF Commanded
    <3>8. at' \in Looped /\ at'.day = day
      BY <3>4, <3>5, Blank DEF Looped
    <3> QED BY <3>4, <3>5, <3>6, <3>7, <3>8, Blank
  <2>2. CASE AttemptBegin
    <3> DEFINE day == at.day
    <3>1. /\ Len(runs) < MaxRuns /\ OpenRun(day, at.remaining) /\ at.remaining \in SUBSET Symbols
          /\ pc' = "collect" /\ UNCHANGED <<calendar, cmd, plan, manifest>>
          /\ at' = [at EXCEPT !.left = at.remaining]
          /\ pc = "attempt" /\ cmd.name = "backfill"
      BY <2>2 DEF AttemptBegin, TypeInv, TypeOK, Control
    <3>2. day \in Days
      BY <3>1 DEF TypeInv, Control, ChildPlaces
    <3>3. runs' \in Seq(Runs) /\ Len(runs') <= MaxRuns /\ runs' # <<>>
      BY <3>1, <3>2, OpenedRun
    <3>4. at' \in Looped /\ at'.day = day
      BY <3>1, Typed DEF TypeInv, Looped
    <3> QED BY <3>1, <3>2, <3>3, <3>4, Typed DEF TypeInv
  <2> QED BY <2>1, <2>2
<1>2. TypeOK'
  BY <1>1 DEF TypeInv, TypeOK, Commanded, Planned, Reported, Looped, Places, ChildPlaces
<1> QED BY <1>1, <1>2 DEF TypeInv, Control, Opened

LEMMA WritesType ==
  ASSUME TypeInv,
         \/ \E s \in Symbols, got \in {"nothing", "raw", "pair"} : Collect(s, got)
         \/ \E bad \in BOOLEAN : WriteEvidence(bad)
         \/ RecordQuality \/ RecordRun
  PROVE  TypeInv'
<1>1. \E r \in Runs : runs # <<>> /\ runs' = [runs EXCEPT ![Run] = r]
  BY Collects, WritesEvidence, RecordsQuality, RecordsRun
<1>2. runs' \in Seq(Runs) /\ Len(runs') = Len(runs) /\ runs' # <<>>
  BY <1>1, Written
<1>3. /\ UNCHANGED <<calendar, cmd, plan, manifest>>
      /\ pc \in Opened /\ pc' \in Opened
  BY DEF Collect, WriteEvidence, RecordQuality, RecordRun, After, Opened
<1>4. at \in Looped
  BY Typed DEF TypeInv
<1>5. at' = at \/ \E s \in Symbols : at' = [at EXCEPT !.left = @ \ {s}]
  BY DEF Collect, WriteEvidence, RecordQuality, RecordRun
<1>6. at' \in Looped /\ at'.day = at.day
  BY <1>4, <1>5 DEF Looped
<1>7. TypeOK'
  BY <1>2, <1>3, <1>6 DEF TypeInv, TypeOK, Looped, Places, ChildPlaces, Opened
<1> QED BY <1>2, <1>3, <1>6, <1>7 DEF TypeInv, Control, Opened, ChildPlaces

\* The days of the plan that the loop has not come to.
LEMMA OpenDaysType ==
  ASSUME plan \in Planned, at \in Looped
  PROVE  /\ OpenDays \subseteq Days /\ \A d \in OpenDays : d > at.day
         /\ OpenDays # {} => /\ Least(OpenDays) \in OpenDays
                             /\ \A d \in OpenDays : Least(OpenDays) <= d
<1>1. plan.pending \subseteq Symbols \X Days
  BY DEF Planned, Items
<1>2. OpenDays \subseteq Days /\ \A d \in OpenDays : d > at.day
  BY <1>1 DEF OpenDays
<1>3. OpenDays \in SUBSET Nat
  BY <1>2, Bounds DEF Days
<1> HIDE DEF OpenDays
<1> QED BY <1>2, <1>3, LeastOf

LEMMA NextDayType == ASSUME TypeInv, NextDay PROVE TypeInv'
<1>1. plan \in Planned /\ at \in Looped
  BY Typed DEF TypeInv
<1>2. Least(OpenDays) \in Days
  BY <1>1, OpenDaysType DEF NextDay
<1> DEFINE day == Least(OpenDays)
           rest == {s \in Symbols : <<s, day>> \in plan.pending}
<1>3. /\ UNCHANGED <<calendar, runs, cmd, plan, manifest>> /\ pc = "loop" /\ pc' = "attempt"
      /\ at' = [day |-> day, attempt |-> 0, left |-> {}, remaining |-> rest]
  BY DEF NextDay
<1>4. day \in 0 .. LastDay /\ 0 \in 0 .. MaxRetries
  BY <1>2, Bounds DEF Days
<1> HIDE DEF day
<1>5. at' \in Looped /\ at'.day = day
  BY <1>3, <1>4 DEF Looped
<1>6. TypeOK'
  BY <1>3, <1>5 DEF TypeInv, TypeOK, Looped, Places, ChildPlaces
<1> QED BY <1>2, <1>3, <1>5, <1>6 DEF TypeInv, Control, Opened, ChildPlaces, day

LEMMA AttemptedType ==
  ASSUME TypeInv, pc \in ChildPlaces, cmd.name = "backfill", NEW remaining \in SUBSET Symbols,
         NEW success \in SUBSET Symbols, Attempted(remaining, success),
         UNCHANGED <<calendar, runs, cmd, plan>>
  PROVE  TypeInv'
<1>1. manifest \in Reported /\ at \in Looped /\ at.day \in Days
  BY Typed DEF TypeInv, Control
<1> DEFINE over == remaining = {} \/ LastAttempt
           good == manifest.success \union (success \X {at.day})
           lost == IF over THEN manifest.failed \union (remaining \X {at.day}) ELSE manifest.failed
           kids == IF pc = "returned" THEN manifest.children \union {Run} ELSE manifest.children
<1>2. manifest' = [manifest EXCEPT !.success = good, !.failed = lost, !.children = kids]
  BY DEF Attempted
<1>3. good \in SUBSET Items /\ lost \in SUBSET Items
  BY <1>1 DEF Reported, Items
<1>4. kids \in SUBSET RunIds
  <2>1. pc = "returned" => Run \in RunIds
    BY Newest DEF TypeInv, Control, Opened
  <2> QED BY <1>1, <2>1 DEF Reported
<1> HIDE DEF good, lost, kids
<1>5. manifest' \in Reported
  BY <1>1, <1>2, <1>3, <1>4 DEF Reported
<1>6. at' \in Looped /\ at'.day = at.day /\ pc' \in {"attempt", "loop"}
  <2>1. CASE over
    <3>1. pc' = "loop" /\ at' = [at EXCEPT !.attempt = 0, !.remaining = {}, !.left = {}]
      BY <2>1 DEF Attempted, DayOver
    <3>2. 0 \in 0 .. MaxRetries
      BY Bounds
    <3> QED BY <1>1, <3>1, <3>2 DEF Looped
  <2>2. CASE ~over
    <3>1. /\ pc' = "attempt" /\ ~(at.attempt >= MaxRetries)
          /\ at' = [at EXCEPT !.attempt = at.attempt + 1, !.remaining = remaining, !.left = {}]
      BY <2>2 DEF Attempted, Again, LastAttempt
    <3>2. at.attempt \in 0 .. MaxRetries
      BY <1>1 DEF Looped
    <3>3. at.attempt + 1 \in 0 .. MaxRetries
      BY <3>1, <3>2, Bounds
    <3> QED BY <1>1, <3>1, <3>3 DEF Looped
  <2> QED BY <2>1, <2>2
<1>7. TypeOK'
  BY <1>5, <1>6 DEF TypeInv, TypeOK, Looped, Reported, Places, ChildPlaces
<1> QED BY <1>1, <1>6, <1>7 DEF TypeInv, Control, Opened, ChildPlaces

-----------------------------------------------------------------------------
LEMMA ChildType == ASSUME TypeInv, ChildReturned \/ ChildRaises PROVE TypeInv'
<1>1. at.remaining \in SUBSET Symbols
  BY DEF TypeInv, TypeOK
<1>2. CASE ChildReturned
  <2> DEFINE missing == StillMissing(runs[Run])
             success == runs[Run].asked \ missing
  <2>1. runs[Run] \in Runs
    BY <1>2, Newest DEF ChildReturned, TypeInv, Control, Opened
  <2>2. missing \in SUBSET Symbols /\ success \in SUBSET Symbols
    BY <2>1 DEF StillMissing, Runs
  <2>3. /\ pc \in ChildPlaces /\ cmd.name = "backfill" /\ Attempted(missing, success)
        /\ UNCHANGED <<calendar, runs, cmd, plan>>
    BY <1>2 DEF ChildReturned, ChildPlaces
  <2> HIDE DEF missing, success
  <2> QED BY <2>2, <2>3, AttemptedType
<1>3. CASE ChildRaises
  <2> DEFINE none == {}
  <2>1. /\ pc \in ChildPlaces /\ cmd.name = "backfill" /\ Attempted(at.remaining, none)
        /\ UNCHANGED <<calendar, runs, cmd, plan>> /\ none \in SUBSET Symbols
    BY <1>3 DEF ChildRaises
  <2> HIDE DEF none
  <2> QED BY <1>1, <2>1, AttemptedType
<1> QED BY <1>2, <1>3

LEMMA EndType == ASSUME TypeInv, RecoverEnds \/ Finish \/ Stop PROVE TypeInv'
<1>1. /\ UNCHANGED <<calendar, runs>> /\ pc' = "idle" /\ at' = NoLoop
      /\ cmd' \in {cmd, NoCmd} /\ plan' \in {plan, NoPlan}
  BY DEF RecoverEnds, Finish, Stop
<1>2. manifest' \in Reported
  <2>1. manifest \in Reported
    BY Typed DEF TypeInv
  <2>2. FinalStatus \in {"SUCCESS", "PARTIAL", "FAILED"}
    BY DEF FinalStatus
  <2>3. manifest' \in {manifest, NoManifest, [manifest EXCEPT !.status = FinalStatus]}
    BY DEF RecoverEnds, Finish, Stop
  <2> HIDE DEF FinalStatus
  <2> QED BY <2>1, <2>2, <2>3, Blank DEF Reported
<1>3. cmd' \in Commanded /\ plan' \in Planned /\ at' \in Looped
  BY <1>1, Blank, Typed DEF TypeInv
<1>4. TypeOK'
  BY <1>1, <1>2, <1>3 DEF TypeInv, TypeOK, Commanded, Planned, Reported, Looped, Places
<1> QED BY <1>1, <1>4 DEF TypeInv, Control, Opened, ChildPlaces

LEMMA TypeInit == Init => TypeInv
<1> SUFFICES ASSUME Init PROVE TypeInv
  OBVIOUS
<1>1. calendar = <<>> /\ runs = <<>> /\ pc = "idle" /\ cmd = NoCmd /\ plan = NoPlan
      /\ manifest = NoManifest /\ at = NoLoop
  BY DEF Init
<1>2. /\ calendar \in Seq(Batches) /\ Len(calendar) <= MaxBatches
      /\ runs \in Seq(Runs) /\ Len(runs) <= MaxRuns
  BY <1>1, Bounds, EmptySeq
<1>3. pc \in Places /\ cmd \in Commanded /\ plan \in Planned /\ manifest \in Reported /\ at \in Looped
  BY <1>1, Blank DEF Places
<1>4. TypeOK
  BY <1>2, <1>3, Typed
<1> QED BY <1>1, <1>4 DEF TypeInv, Control, Opened, ChildPlaces

LEMMA TypeStep == TypeInv /\ [Next]_vars => TypeInv'
<1> SUFFICES ASSUME TypeInv, [Next]_vars PROVE TypeInv'
  OBVIOUS
<1>1. CASE Step
  BY <1>1, QueryType, PlanType, OpensType, WritesType, NextDayType, ChildType, EndType DEF Step
<1>2. CASE UNCHANGED vars
  BY <1>2 DEF vars, op, TypeInv, TypeOK, Control
<1>3. CASE \E from, to \in Days, answer \in Answers : Capture(from, to, answer)
  BY <1>3, CaptureType
<1> QED BY <1>1, <1>2, <1>3, BeginType, OpensType, EndType DEF Next

\* The types, and whose operation is under way.
THEOREM TypeAlways == Spec => []TypeInv
BY TypeInit, TypeStep, PTL DEF Spec

\* The tables and the operation's variables keep their types.
THEOREM TypeCorrect == Spec => []TypeOK
<1>1. TypeInv => TypeOK
  BY DEF TypeInv
<1> QED BY TypeAlways, <1>1, PTL

-----------------------------------------------------------------------------
(***************************************************************************)
(* The recorded runs: a run is written to until its row is recorded, never *)
(* afterwards, and the row comes after the outcome of the checks.          *)
(***************************************************************************)
Kept ==
  /\ \A r \in DOMAIN runs : runs[r].row => (runs[r].bad => runs[r].fail)
  /\ pc = "run" => (runs[Run].bad => runs[Run].fail)
  /\ pc \in {"collect", "quality", "run"} => ~runs[Run].row
  /\ pc = "returned" => runs[Run].row

\* A step that writes nothing to the runs.
LEMMA KeptFrame ==
  ASSUME Kept, UNCHANGED runs, pc' \notin {"collect", "quality", "run", "returned"}
  PROVE  Kept'
BY DEF Kept

LEMMA Unwritten ==
  ASSUME TypeInv,
         \/ \E s \in Symbols : NextDate(s) \/ Gap(s)
         \/ PlanCoverage \/ PlanDates \/ PlanRaises \/ NextDay \/ ChildReturned \/ ChildRaises
         \/ RecoverEnds \/ Finish \/ Stop \/ \E c \in Commands : BackfillBegin(c)
  PROVE  UNCHANGED runs /\ pc' \notin {"collect", "quality", "run", "returned"}
BY DEF NextDate, Gap, StartsAt, PlanCoverage, PlanDates, PlanRaises, NextDay, ChildReturned,
   ChildRaises, RecoverEnds, Finish, Stop, BackfillBegin, Attempted, DayOver, Again

\* A step that opens a run.
LEMMA Opens ==
  ASSUME TypeInv, AttemptBegin \/ \E r \in RunIds, S \in SUBSET Symbols : RecoverBegin(r, S)
  PROVE  /\ pc' = "collect" /\ Run' \notin DOMAIN runs /\ DOMAIN runs' = DOMAIN runs \union {Run'}
         /\ ~runs'[Run'].row /\ \A j \in DOMAIN runs : runs'[j] = runs[j]
         /\ AttemptBegin => runs'[Run'].day = at.day /\ runs'[Run'].asked = at.remaining
<1>1. CASE \E r \in RunIds, S \in SUBSET Symbols : RecoverBegin(r, S)
  <2>1. PICK r \in RunIds, S \in SUBSET Symbols : RecoverBegin(r, S)
    BY <1>1
  <2>2. runs \in Seq(Runs) /\ r \in DOMAIN runs
    BY <2>1 DEF TypeInv, TypeOK, RecoverBegin
  <2>3. runs[r].day \in Days
    <3>1. runs[r] \in Runs
      BY <2>2, ElementOfSeq
    <3> QED BY <3>1 DEF Runs
  <2> DEFINE day == runs[r].day
  <2>4. Len(runs) < MaxRuns /\ OpenRun(day, S) /\ pc' = "collect" /\ pc = "idle"
    BY <2>1 DEF RecoverBegin
  <2> HIDE DEF day
  <2>5. ~AttemptBegin
    BY <2>4 DEF AttemptBegin
  <2>6. day \in Days
    BY <2>3 DEF day
  <2>7. /\ Run' \notin DOMAIN runs
        /\ DOMAIN runs' = DOMAIN runs \union {Run'}
        /\ runs'[Run'] = [day |-> day, asked |-> S, raw |-> {}, pairs |-> {},
                        bad |-> FALSE, json |-> FALSE, fail |-> FALSE, row |-> FALSE]
        /\ \A j \in DOMAIN runs : runs'[j] = runs[j]
    BY <2>4, <2>6, OpenedRun
  <2>8. ~runs'[Run'].row
    BY <2>7
  <2> HIDE DEF Run
  <2> QED BY <2>4, <2>5, <2>7, <2>8
<1>2. CASE AttemptBegin
  <2>1. at.day \in Days /\ at.remaining \in SUBSET Symbols
    BY <1>2 DEF AttemptBegin, TypeInv, TypeOK, Control, ChildPlaces
  <2>2. Len(runs) < MaxRuns /\ OpenRun(at.day, at.remaining) /\ pc' = "collect"
    BY <1>2 DEF AttemptBegin
  <2>3. /\ Run' \notin DOMAIN runs
        /\ DOMAIN runs' = DOMAIN runs \union {Run'}
        /\ runs'[Run'] = [day |-> at.day, asked |-> at.remaining, raw |-> {}, pairs |-> {},
                        bad |-> FALSE, json |-> FALSE, fail |-> FALSE, row |-> FALSE]
        /\ \A j \in DOMAIN runs : runs'[j] = runs[j]
    BY <2>1, <2>2, OpenedRun
  <2>4. ~runs'[Run'].row /\ runs'[Run'].day = at.day /\ runs'[Run'].asked = at.remaining
    BY <2>3
  <2> QED BY <2>2, <2>3, <2>4
<1> QED BY <1>1, <1>2

\* A step that writes to the newest run.
LEMMA Writes ==
  ASSUME TypeInv, Kept,
         \/ \E s \in Symbols, got \in {"nothing", "raw", "pair"} : Collect(s, got)
         \/ \E bad \in BOOLEAN : WriteEvidence(bad)
         \/ RecordQuality \/ RecordRun
  PROVE  /\ pc \in {"collect", "quality", "run"} /\ pc' \in {"collect", "quality", "run", "returned"}
         /\ DOMAIN runs' = DOMAIN runs /\ Run' = Run /\ Run \in DOMAIN runs
         /\ \A j \in DOMAIN runs : j # Run => runs'[j] = runs[j]
         /\ runs'[Run].day = runs[Run].day /\ runs'[Run].asked = runs[Run].asked
         /\ ~runs[Run].row
         /\ pc' = "run" => (runs'[Run].bad => runs'[Run].fail)
         /\ IF pc' = "returned" THEN /\ pc = "run" /\ runs'[Run].row
                                     /\ runs'[Run].bad => runs'[Run].fail
                                ELSE ~runs'[Run].row
<1>1. ASSUME NEW s \in Symbols, NEW got, Collect(s, got)
      PROVE  /\ pc = "collect" /\ pc' = "collect" /\ runs # <<>>
             /\ \E r \in Runs : /\ runs' = [runs EXCEPT ![Run] = r]
                                /\ r.day = runs[Run].day /\ r.asked = runs[Run].asked
                                /\ ~r.row
  BY <1>1, Collects DEF Kept, Collect
<1>2. ASSUME NEW bad \in BOOLEAN, WriteEvidence(bad)
      PROVE  /\ pc = "collect" /\ pc' = "quality" /\ runs # <<>>
             /\ \E r \in Runs : /\ runs' = [runs EXCEPT ![Run] = r]
                                /\ r.day = runs[Run].day /\ r.asked = runs[Run].asked
                                /\ ~r.row
  BY <1>2, WritesEvidence DEF Kept, WriteEvidence, After
<1>3. ASSUME RecordQuality
      PROVE  /\ pc = "quality" /\ pc' = "run" /\ runs # <<>>
             /\ \E r \in Runs : /\ runs' = [runs EXCEPT ![Run] = r]
                                /\ r.day = runs[Run].day /\ r.asked = runs[Run].asked
                                /\ ~r.row /\ (r.bad => r.fail)
  BY <1>3, RecordsQuality DEF Kept, RecordQuality, After
<1>4. ASSUME RecordRun
      PROVE  /\ pc = "run" /\ pc' = "returned" /\ runs # <<>>
             /\ \E r \in Runs : /\ runs' = [runs EXCEPT ![Run] = r]
                                /\ r.day = runs[Run].day /\ r.asked = runs[Run].asked
                                /\ r.row /\ (r.bad => r.fail)
  BY <1>4, RecordsRun DEF Kept, RecordRun, After
<1>5. PICK r \in Runs :
        /\ runs' = [runs EXCEPT ![Run] = r] /\ runs # <<>>
        /\ pc \in {"collect", "quality", "run"} /\ pc' \in {"collect", "quality", "run", "returned"}
        /\ r.day = runs[Run].day /\ r.asked = runs[Run].asked
        /\ pc' = "run" => (r.bad => r.fail)
        /\ IF pc' = "returned" THEN pc = "run" /\ r.row /\ (r.bad => r.fail) ELSE ~r.row
  BY <1>1, <1>2, <1>3, <1>4
<1>6. /\ Len(runs') = Len(runs) /\ DOMAIN runs' = DOMAIN runs /\ Run \in DOMAIN runs
      /\ \A j \in DOMAIN runs : runs'[j] = IF j = Run THEN r ELSE runs[j]
  BY <1>5, Written, Newest
<1>7. Run' = Run
  BY <1>6 DEF Run
<1>8. ~runs[Run].row
  BY <1>5 DEF Kept
<1> HIDE DEF Run
<1> QED BY <1>5, <1>6, <1>7, <1>8

\* What happens to the rows in one step.
LEMMA RowsStay ==
  ASSUME TypeInv, Kept, [Next]_vars
  PROVE  /\ \A r \in DOMAIN runs : runs[r].row => r \in DOMAIN runs' /\ runs'[r] = runs[r]
         /\ \A r \in DOMAIN runs' : runs'[r].row =>
              \/ r \in DOMAIN runs /\ runs[r].row /\ runs'[r] = runs[r]
              \/ pc = "run" /\ pc' = "returned" /\ r = Run /\ runs'[r].day = runs[Run].day
         /\ Kept'
<1>1. CASE \/ \E s \in Symbols : NextDate(s) \/ Gap(s)
           \/ PlanCoverage \/ PlanDates \/ PlanRaises \/ NextDay \/ ChildReturned \/ ChildRaises
           \/ RecoverEnds \/ Finish \/ Stop \/ \E c \in Commands : BackfillBegin(c)
  BY <1>1, Unwritten, KeptFrame
<1>2. CASE \/ UNCHANGED vars \/ \E from, to \in Days, answer \in Answers : Capture(from, to, answer)
  <2>1. UNCHANGED <<runs, pc>>
    BY <1>2 DEF vars, op, Capture
  <2> QED BY <2>1 DEF Kept, Run
<1>3. CASE AttemptBegin \/ \E r \in RunIds, S \in SUBSET Symbols : RecoverBegin(r, S)
  BY <1>3, Opens DEF Kept
<1>4. CASE \/ \E s \in Symbols, got \in {"nothing", "raw", "pair"} : Collect(s, got)
           \/ \E bad \in BOOLEAN : WriteEvidence(bad)
           \/ RecordQuality \/ RecordRun
  <2>1. /\ pc \in {"collect", "quality", "run"} /\ pc' \in {"collect", "quality", "run", "returned"}
        /\ DOMAIN runs' = DOMAIN runs /\ Run' = Run /\ Run \in DOMAIN runs
        /\ \A j \in DOMAIN runs : j # Run => runs'[j] = runs[j]
        /\ runs'[Run].day = runs[Run].day
        /\ ~runs[Run].row
        /\ pc' = "run" => (runs'[Run].bad => runs'[Run].fail)
        /\ IF pc' = "returned" THEN /\ pc = "run" /\ runs'[Run].row
                                    /\ runs'[Run].bad => runs'[Run].fail
                               ELSE ~runs'[Run].row
    BY <1>4, Writes
  <2> HIDE DEF Run
  <2> QED BY <2>1 DEF Kept
<1> QED BY <1>1, <1>2, <1>3, <1>4 DEF Next, Step

\* No run whose checks failed is ever one an item is complete through.
THEOREM FailedNeverServed == Spec => []FailedChecksNeverServed
<1>1. Init => TypeInv /\ Kept
  <2>1. Init => Kept
    BY DEF Init, Kept
  <2> QED BY <2>1, TypeInit
<1>2. TypeInv /\ Kept /\ [Next]_vars => (TypeInv /\ Kept)'
  BY TypeStep, RowsStay
<1>3. Kept => FailedChecksNeverServed
  BY DEF Kept, FailedChecksNeverServed, CompleteIn
<1> QED BY <1>1, <1>2, <1>3, PTL DEF Spec

-----------------------------------------------------------------------------
(***************************************************************************)
(* What a manifest says of its items                                       *)
(***************************************************************************)
Reports ==
  /\ plan.skipped \subseteq CompletedItems
  /\ \A r \in manifest.children : r \in DOMAIN runs /\ runs[r].row
  /\ \A i \in manifest.success :
       \E r \in manifest.children : runs[r].day = i[2] /\ i[1] \in CompleteIn(runs[r])

\* The child run under way is that of the attempt under way.
Asked ==
  (pc \in Opened /\ cmd.name = "backfill") =>
    runs[Run].day = at.day /\ runs[Run].asked = at.remaining

\* An item stays complete, and becomes it when its run is recorded.
LEMMA ItemsStay ==
  ASSUME TypeInv, Kept, [Next]_vars
  PROVE  /\ CompletedItems \subseteq CompletedItems'
         /\ \A i \in CompletedItems' :
              i \in CompletedItems \/ (pc = "run" /\ pc' = "returned" /\ i[2] = runs[Run].day)
<1>1. \A r, s : s \in CompleteIn(r) => r.row
  BY DEF CompleteIn
<1>2. CompletedItems \subseteq CompletedItems'
  <2> SUFFICES ASSUME NEW i \in CompletedItems PROVE i \in CompletedItems'
    OBVIOUS
  <2>1. i \in Items
    BY DEF CompletedItems
  <2>2. PICK r \in DOMAIN runs : runs[r].day = i[2] /\ i[1] \in CompleteIn(runs[r])
    BY DEF CompletedItems
  <2>3. r \in DOMAIN runs' /\ runs'[r] = runs[r]
    BY <1>1, <2>2, RowsStay
  <2> QED BY <2>1, <2>2, <2>3 DEF CompletedItems
<1>3. ASSUME NEW i \in CompletedItems'
      PROVE  i \in CompletedItems \/ (pc = "run" /\ pc' = "returned" /\ i[2] = runs[Run].day)
  <2>1. i \in Items
    BY DEF CompletedItems
  <2>2. PICK r \in DOMAIN runs' : runs'[r].day = i[2] /\ i[1] \in CompleteIn(runs'[r])
    BY DEF CompletedItems
  <2>3. \/ r \in DOMAIN runs /\ runs[r].row /\ runs'[r] = runs[r]
        \/ pc = "run" /\ pc' = "returned" /\ r = Run /\ runs'[r].day = runs[Run].day
    BY <1>1, <2>2, RowsStay
  <2> QED BY <2>1, <2>2, <2>3 DEF CompletedItems
<1> QED BY <1>2, <1>3

\* How the manifest changes in one step.
LEMMA ManifestSteps ==
  ASSUME TypeInv, [Next]_vars
  PROVE  \/ manifest'.success = manifest.success /\ manifest'.children = manifest.children
         \/ manifest' = NoManifest
         \/ ChildReturned \/ ChildRaises
<1>1. manifest \in Reported
  BY Typed DEF TypeInv
<1>2. CASE Finish
  <2>1. manifest' = [manifest EXCEPT !.status = FinalStatus]
    BY <1>2 DEF Finish
  <2> HIDE DEF FinalStatus
  <2> QED BY <1>1, <2>1 DEF Reported
<1>3. CASE \/ UNCHANGED vars \/ PlanCoverage \/ PlanDates \/ PlanRaises \/ AttemptBegin
           \/ \E s \in Symbols : NextDate(s) \/ Gap(s)
           \/ \E s \in Symbols, got \in {"nothing", "raw", "pair"} : Collect(s, got)
           \/ \E bad \in BOOLEAN : WriteEvidence(bad)
           \/ RecordQuality \/ RecordRun \/ NextDay \/ RecoverEnds
           \/ \E from, to \in Days, answer \in Answers : Capture(from, to, answer)
  BY <1>3 DEF vars, op, PlanCoverage, PlanDates, PlanRaises, AttemptBegin, Collect, WriteEvidence,
     RecordQuality, RecordRun, NextDay, RecoverEnds, Capture, NextDate, Gap
<1>4. CASE \/ Stop \/ \E c \in Commands : BackfillBegin(c)
           \/ \E S \in SUBSET Symbols, r \in RunIds : RecoverBegin(r, S)
  BY <1>4 DEF Stop, BackfillBegin, RecoverBegin
<1> QED BY <1>2, <1>3, <1>4 DEF Next, Step

\* How the plan changes in one step.
LEMMA PlanSteps ==
  ASSUME TypeInv, [Next]_vars
  PROVE  \/ plan'.pending = plan.pending /\ plan'.skipped = plan.skipped
         \/ plan'.pending = {} /\ plan'.skipped = {}
         \/ PlanDates
<1>0. NoPlan.pending = {} /\ NoPlan.skipped = {} /\ NoPlan \in Planned
  <2>1. NoPlan.pending = {} /\ NoPlan.skipped = {}
    BY DEF NoPlan
  <2> QED BY <2>1, Blank
<1>1. plan \in Planned
  BY Typed DEF TypeInv
<1>2. CASE PlanCoverage
  <2>1. plan' = plan \/ plan' = [plan EXCEPT !.seen = Len(calendar)]
    BY <1>2 DEF PlanCoverage
  <2> QED BY <1>1, <2>1 DEF Planned
<1>3. CASE \/ UNCHANGED vars \/ PlanRaises \/ AttemptBegin
           \/ \E s \in Symbols, got \in {"nothing", "raw", "pair"} : Collect(s, got)
           \/ \E bad \in BOOLEAN : WriteEvidence(bad)
           \/ RecordQuality \/ RecordRun \/ NextDay \/ RecoverEnds \/ ChildReturned \/ ChildRaises
           \/ Finish
           \/ \E from, to \in Days, answer \in Answers : Capture(from, to, answer)
  BY <1>3 DEF vars, op, PlanRaises, AttemptBegin, Collect, WriteEvidence, RecordQuality, RecordRun,
     NextDay, RecoverEnds, ChildReturned, ChildRaises, Finish, Capture
<1>4. CASE \/ Stop \/ \E S \in SUBSET Symbols, r \in RunIds : RecoverBegin(r, S)
  <2>1. plan' = NoPlan
    BY <1>4 DEF Stop, RecoverBegin
  <2> QED BY <1>0, <2>1
<1>5. CASE \E c \in Commands : BackfillBegin(c)
  <2>1. PICK c \in Commands : BackfillBegin(c)
    BY <1>5
  <2> DEFINE g == [s \in Symbols |-> IF s \in c.asked \ Continued(c) THEN c.low ELSE 0]
  <2>2. plan' = NoPlan \/ plan' = [NoPlan EXCEPT !.start = g]
    BY <2>1 DEF BackfillBegin
  <2> HIDE DEF g
  <2> QED BY <1>0, <2>2 DEF Planned
<1>6. CASE \E s \in Symbols : NextDate(s) \/ Gap(s)
  <2>1. PICK s \in Symbols : NextDate(s) \/ Gap(s)
    BY <1>6
  <2>2. \/ plan' = plan
        \/ \E day \in 1 .. LastDay + 1 :
             plan' = [plan EXCEPT !.start[s] = day, !.seen = Len(calendar)]
    BY <2>1, Queries
  <2> QED BY <1>1, <2>2 DEF Planned
<1> QED BY <1>2, <1>3, <1>4, <1>5, <1>6 DEF Next, Step

\* What an attempt adds to the manifest.
LEMMA AttemptReports ==
  ASSUME TypeInv, Kept, Asked, ChildReturned \/ ChildRaises
  PROVE  /\ UNCHANGED runs
         /\ manifest'.children = IF pc = "returned" THEN manifest.children \union {Run}
                                                    ELSE manifest.children
         /\ \/ manifest'.success = manifest.success
            \/ /\ pc = "returned"
               /\ \A i \in manifest'.success :
                    \/ i \in manifest.success
                    \/ runs[Run].day = i[2] /\ i[1] \in CompleteIn(runs[Run])
<1>1. manifest \in Reported
  BY Typed DEF TypeInv
<1>2. CASE ChildReturned
  <2>1. runs[Run] \in Runs /\ runs[Run].row /\ runs[Run].day = at.day /\ runs[Run].asked = at.remaining
    BY <1>2, Newest DEF ChildReturned, Kept, Asked, Opened, TypeInv, Control
  <2> DEFINE run == runs[Run]
             good == run.asked \ StillMissing(run)
             rest == StillMissing(run)
             over == rest = {} \/ LastAttempt
             lost == IF over THEN manifest.failed \union (rest \X {at.day}) ELSE manifest.failed
  <2>2. /\ manifest' = [manifest EXCEPT !.success = @ \union (good \X {at.day}), !.failed = lost,
                                        !.children = manifest.children \union {Run}]
        /\ UNCHANGED runs /\ pc = "returned"
    BY <1>2 DEF ChildReturned, Attempted
  <2>3. good \subseteq CompleteIn(run)
    BY <2>1 DEF StillMissing, CompleteIn, RunStatus
  <2>4. manifest'.success = manifest.success \union (good \X {at.day})
        /\ manifest'.children = manifest.children \union {Run}
    <3> HIDE DEF good, lost, Run
    <3> QED BY <1>1, <2>2 DEF Reported
  <2> HIDE DEF good, lost
  <2>5. ASSUME NEW i \in manifest'.success
        PROVE  i \in manifest.success \/ (runs[Run].day = i[2] /\ i[1] \in CompleteIn(runs[Run]))
    BY <2>1, <2>3, <2>4
  <2> QED BY <2>2, <2>4, <2>5
<1>3. CASE ChildRaises
  <2> DEFINE none == {}
             over == at.remaining = {} \/ LastAttempt
             lost == IF over THEN manifest.failed \union (at.remaining \X {at.day}) ELSE manifest.failed
             kids == IF pc = "returned" THEN manifest.children \union {Run} ELSE manifest.children
  <2>1. /\ manifest' = [manifest EXCEPT !.success = @ \union (none \X {at.day}), !.failed = lost,
                                        !.children = kids]
        /\ UNCHANGED runs
    BY <1>3 DEF ChildRaises, Attempted
  <2>2. none \X {at.day} = {}
    OBVIOUS
  <2> HIDE DEF none, lost, kids
  <2>3. manifest'.success = manifest.success /\ manifest'.children = kids
    BY <1>1, <2>1, <2>2 DEF Reported
  <2> QED BY <2>1, <2>3 DEF kids
<1> QED BY <1>2, <1>3

LEMMA ReportsStep ==
  ASSUME TypeInv, Kept, Reports, Asked, [Next]_vars
  PROVE  Reports'
<1>1. plan'.skipped \subseteq CompletedItems'
  <2>1. CASE PlanDates
    <3> DEFINE dates == TradingDates(calendar, Least(Starts), cmd.end)
               all == {i \in cmd.asked \X dates : i[2] >= plan.start[i[1]]}
               n == Len(calendar)
    <3>1. plan' = [plan EXCEPT !.pending = all \ Skipped(all), !.skipped = Skipped(all), !.seen = n]
      BY <2>1 DEF PlanDates
    <3> HIDE DEF all, n
    <3>2. plan \in Planned
      BY Typed DEF TypeInv
    <3>3. plan'.skipped = Skipped(all)
      BY <3>1, <3>2 DEF Planned
    <3>4. Skipped(all) \subseteq CompletedItems
      BY DEF Skipped
    <3> QED BY <3>3, <3>4, ItemsStay
  <2>2. plan'.skipped = plan.skipped \/ plan'.skipped = {} \/ PlanDates
    BY PlanSteps
  <2> QED BY <2>1, <2>2, ItemsStay DEF Reports
<1>2. /\ \A r \in manifest'.children : r \in DOMAIN runs' /\ runs'[r].row
      /\ \A i \in manifest'.success :
           \E r \in manifest'.children : runs'[r].day = i[2] /\ i[1] \in CompleteIn(runs'[r])
  <2>1. CASE manifest'.success = manifest.success /\ manifest'.children = manifest.children
    <3>1. \A r \in manifest.children : r \in DOMAIN runs' /\ runs'[r] = runs[r]
      BY RowsStay DEF Reports
    <3> QED BY <2>1, <3>1 DEF Reports
  <2>2. CASE manifest' = NoManifest
    BY <2>2 DEF NoManifest
  <2>3. CASE ChildReturned \/ ChildRaises
    <3>1. UNCHANGED runs
      BY <2>3, AttemptReports
    <3>2. CASE pc = "returned"
      <4>1. Run \in DOMAIN runs /\ runs[Run].row
        BY <3>2, Newest DEF Kept, TypeInv, Control, Opened
      <4>2. manifest'.children = manifest.children \union {Run}
        BY <2>3, <3>2, AttemptReports
      <4>3. \A i \in manifest'.success :
              i \in manifest.success \/ (runs[Run].day = i[2] /\ i[1] \in CompleteIn(runs[Run]))
        BY <2>3, AttemptReports
      <4> HIDE DEF Run
      <4> QED BY <3>1, <4>1, <4>2, <4>3 DEF Reports
    <3>3. CASE pc # "returned"
      <4>1. manifest'.children = manifest.children /\ manifest'.success = manifest.success
        BY <2>3, <3>3, AttemptReports
      <4> QED BY <3>1, <4>1 DEF Reports
    <3> QED BY <3>2, <3>3
  <2> QED BY <2>1, <2>2, <2>3, ManifestSteps
<1> QED BY <1>1, <1>2 DEF Reports

LEMMA AskedStep ==
  ASSUME TypeInv, Kept, Asked, [Next]_vars
  PROVE  Asked'
<1>1. CASE \/ \E s \in Symbols : NextDate(s) \/ Gap(s)
           \/ PlanCoverage \/ PlanDates \/ PlanRaises \/ NextDay \/ ChildReturned \/ ChildRaises
           \/ RecoverEnds \/ Finish \/ Stop \/ \E c \in Commands : BackfillBegin(c)
  BY <1>1, Unwritten DEF Asked, Opened
<1>2. CASE \/ UNCHANGED vars \/ \E from, to \in Days, answer \in Answers : Capture(from, to, answer)
  <2>1. UNCHANGED <<runs, pc, cmd, at>>
    BY <1>2 DEF vars, op, Capture
  <2> QED BY <2>1 DEF Asked, Run
<1>3. CASE \E r \in RunIds, S \in SUBSET Symbols : RecoverBegin(r, S)
  <2>1. cmd'.name = "recover"
    BY <1>3 DEF RecoverBegin, NoCmd
  <2> QED BY <2>1 DEF Asked
<1>4. CASE AttemptBegin
  <2>1. runs'[Run'].day = at.day /\ runs'[Run'].asked = at.remaining
    BY <1>4, Opens
  <2>2. at'.day = at.day /\ at'.remaining = at.remaining
    <3>1. at \in Looped /\ at' = [at EXCEPT !.left = at.remaining]
      BY <1>4, Typed DEF AttemptBegin, TypeInv
    <3> QED BY <3>1 DEF Looped
  <2> HIDE DEF Run
  <2> QED BY <2>1, <2>2 DEF Asked
<1>5. CASE \/ \E s \in Symbols, got \in {"nothing", "raw", "pair"} : Collect(s, got)
           \/ \E bad \in BOOLEAN : WriteEvidence(bad)
           \/ RecordQuality \/ RecordRun
  <2>1. /\ pc \in {"collect", "quality", "run"} /\ Run' = Run
        /\ runs'[Run].day = runs[Run].day /\ runs'[Run].asked = runs[Run].asked
    BY <1>5, Writes
  <2>2. at' = at \/ \E s \in Symbols : at' = [at EXCEPT !.left = @ \ {s}]
    BY <1>5 DEF Collect, WriteEvidence, RecordQuality, RecordRun
  <2>3. at'.day = at.day /\ at'.remaining = at.remaining
    <3>1. at \in Looped
      BY Typed DEF TypeInv
    <3> QED BY <2>2, <3>1 DEF Looped
  <2>4. cmd' = cmd
    BY <1>5 DEF Collect, WriteEvidence, RecordQuality, RecordRun
  <2> HIDE DEF Run
  <2> QED BY <2>1, <2>3, <2>4 DEF Asked, Opened
<1> QED BY <1>1, <1>2, <1>3, <1>4, <1>5 DEF Next, Step

-----------------------------------------------------------------------------
\* The loop has come as far as its variables say: what the manifest has settled
\* is what the plan has before the place of the loop, and the items that remain
\* on its day are planned.  Around the loop there is nothing to report yet, or
\* all of it.
Looping == pc = "loop" \/ (pc \in ChildPlaces /\ cmd.name = "backfill")
Settled == {i \in plan.pending :
              i[2] < at.day \/ (i[2] = at.day /\ i[1] \notin at.remaining)}
Ledger ==
  /\ manifest.success \intersect manifest.failed = {}
  /\ Looping => /\ manifest.status = "none"
                /\ manifest.success \union manifest.failed = Settled
                /\ at.remaining \X {at.day} \subseteq plan.pending
                /\ pc = "loop" => at.remaining = {}
  /\ pc \in PlanPlaces \union {"refused"} =>
       plan.pending = {} /\ plan.skipped = {} /\ manifest = NoManifest /\ at.day = 0
  /\ pc \in {"starts", "dates"} => at.remaining = {}
  /\ pc # "idle" /\ cmd.name # "backfill" => plan = NoPlan /\ manifest = NoManifest
  /\ pc = "idle" /\ manifest.status # "none" =>
       plan.pending = manifest.success \union manifest.failed

LEMMA NoneYet ==
  /\ NoManifest.success = {} /\ NoManifest.failed = {} /\ NoManifest.status = "none"
  /\ NoPlan.pending = {} /\ NoPlan.skipped = {}
  /\ NoLoop.day = 0 /\ NoLoop.remaining = {}
BY DEF NoManifest, NoPlan, NoLoop

LEMMA PlanLedger ==
  ASSUME TypeInv, Ledger, PlanCoverage \/ PlanDates \/ PlanRaises
  PROVE  Ledger'
<1>1. /\ plan.pending = {} /\ plan.skipped = {} /\ manifest = NoManifest /\ at.day = 0
      /\ UNCHANGED <<cmd, manifest, at>> /\ cmd.name = "backfill"
      /\ pc' # "refused" => at.remaining = {}
  BY DEF Ledger, PlanCoverage, PlanDates, PlanRaises, TypeInv, Control
<1>2. CASE PlanDates
  <2>1. pc' = "loop"
    BY <1>2 DEF PlanDates
  <2>2. plan' \in Planned
    <3>1. TypeInv'
      BY PlanType
    <3> QED BY <3>1 DEF TypeInv, TypeOK, Planned
  <2>3. \A i \in plan'.pending : i[2] \in Nat /\ i[2] > 0
    BY <2>2, Bounds DEF Planned, Items, Days
  <2>4. at'.day = 0 /\ at'.remaining = {}
    BY <1>1, <2>1
  <2>5. Settled' = {}
    BY <2>3, <2>4 DEF Settled
  <2> QED BY <2>4, <1>1, <2>1, <2>5, NoneYet DEF Ledger, Looping
<1>3. CASE PlanCoverage \/ PlanRaises
  <2>1. plan'.pending = plan.pending /\ plan'.skipped = plan.skipped
    <3>1. plan' = plan \/ plan' = [plan EXCEPT !.seen = Len(calendar)]
      BY <1>3 DEF PlanCoverage, PlanRaises
    <3>2. plan \in Planned
      BY Typed DEF TypeInv
    <3> QED BY <3>1, <3>2 DEF Planned
  <2>2. /\ pc' \in {"loop", "refused", "dates"}
        /\ pc' # "refused" => at.remaining = {}
    BY <1>1, <1>3 DEF PlanCoverage, PlanRaises
  <2>3. Settled' = {}
    BY <1>1, <2>1 DEF Settled
  <2> QED BY <1>1, <2>1, <2>2, <2>3, NoneYet DEF Ledger, Looping, ChildPlaces
<1> QED BY <1>2, <1>3

LEMMA NextDayLedger == ASSUME TypeInv, Ledger, NextDay PROVE Ledger'
<1> DEFINE day == Least(OpenDays)
<1>1. plan \in Planned /\ at \in Looped
  BY Typed DEF TypeInv
<1>2. day \in OpenDays /\ day \in Days /\ day > at.day /\ \A d \in OpenDays : day <= d
  BY <1>1, OpenDaysType DEF NextDay
<1>3. /\ UNCHANGED <<cmd, plan, manifest>> /\ pc = "loop" /\ pc' = "attempt" /\ cmd.name = "backfill"
      /\ at'.day = day /\ at'.remaining = {s \in Symbols : <<s, day>> \in plan.pending}
  BY DEF NextDay, TypeInv, Control
<1>4. \A i \in plan.pending : /\ i[2] \in Nat /\ i[1] \in Symbols /\ i = <<i[1], i[2]>>
                              /\ i[2] > at.day => i[2] \in OpenDays
  BY <1>1, Bounds DEF Planned, Items, Days, OpenDays
<1>5. at.day \in Nat /\ day \in Nat
  BY <1>1, <1>2, Bounds DEF Looped, Days
<1> HIDE DEF day
<1>6. /\ manifest.success \union manifest.failed = Settled /\ at.remaining = {}
      /\ manifest.success \intersect manifest.failed = {} /\ manifest.status = "none"
  BY <1>3 DEF Ledger, Looping
<1>7. Settled' = Settled
  <2>1. \A i \in plan.pending : i[2] < day <=> i[2] <= at.day
    BY <1>2, <1>4, <1>5
  <2>2. Settled = {i \in plan.pending : i[2] <= at.day}
    BY <1>4, <1>5, <1>6 DEF Settled
  <2>3. Settled' = {i \in plan.pending : i[2] < day}
    BY <1>3, <1>4 DEF Settled
  <2> QED BY <2>1, <2>2, <2>3
<1>8. at'.remaining \X {at'.day} \subseteq plan'.pending
  BY <1>3
<1> QED BY <1>3, <1>6, <1>7, <1>8 DEF Ledger, Looping, ChildPlaces

\* One attempt settles what it does not leave for the next one.
LEMMA AttemptedLedger ==
  ASSUME TypeInv, Ledger, pc \in ChildPlaces, cmd.name = "backfill",
         NEW remaining \in SUBSET Symbols, NEW success \in SUBSET Symbols,
         remaining \union success = at.remaining, remaining \intersect success = {},
         Attempted(remaining, success), UNCHANGED <<cmd, plan>>
  PROVE  Ledger'
<1>1. manifest \in Reported /\ at \in Looped /\ plan \in Planned /\ at.day \in Nat
  <2>1. at.day \in Days
    BY DEF TypeInv, Control
  <2> QED BY <2>1, Typed, Bounds DEF TypeInv, Days
<1>2. \A i \in plan.pending : i[2] \in Nat /\ i = <<i[1], i[2]>>
  BY <1>1, Bounds DEF Planned, Items, Days
<1> DEFINE over == remaining = {} \/ LastAttempt
           won  == success \X {at.day}
           lost == IF over THEN remaining \X {at.day} ELSE {}
           kids == IF pc = "returned" THEN manifest.children \union {Run} ELSE manifest.children
<1>3. manifest' = [manifest EXCEPT !.success = manifest.success \union won,
                                   !.failed = manifest.failed \union lost, !.children = kids]
  <2>1. (IF over THEN manifest.failed \union (remaining \X {at.day}) ELSE manifest.failed)
        = manifest.failed \union lost
    OBVIOUS
  <2> QED BY <2>1 DEF Attempted
<1>4. /\ at'.day = at.day /\ at'.remaining = IF over THEN {} ELSE remaining
      /\ pc' = IF over THEN "loop" ELSE "attempt"
  BY <1>1 DEF Attempted, DayOver, Again, Looped
<1>5. /\ manifest'.success = manifest.success \union won
      /\ manifest'.failed = manifest.failed \union lost
      /\ manifest'.status = manifest.status
  <2> HIDE DEF won, lost, kids
  <2> QED BY <1>1, <1>3 DEF Reported
<1>6. /\ manifest.success \union manifest.failed = Settled /\ manifest.status = "none"
      /\ at.remaining \X {at.day} \subseteq plan.pending
      /\ manifest.success \intersect manifest.failed = {}
  BY DEF Ledger, Looping
<1>7. won \intersect Settled = {} /\ lost \intersect Settled = {} /\ won \intersect lost = {}
  BY <1>1 DEF Settled
<1>8. Settled' = Settled \union won \union lost
  <2> DEFINE rest == IF over THEN {} ELSE remaining
  <2>1. Settled' = {i \in plan.pending : i[2] < at.day \/ (i[2] = at.day /\ i[1] \notin rest)}
    BY <1>4 DEF Settled
  <2>2. won \union lost = {i \in at.remaining \X {at.day} : i[1] \notin rest}
    <3>1. CASE over
      BY <3>1
    <3>2. CASE ~over
      BY <3>2
    <3> QED BY <3>1, <3>2
  <2>3. rest \subseteq at.remaining
    OBVIOUS
  <2> HIDE DEF won, lost, rest
  <2>4. ASSUME NEW i \in plan.pending
        PROVE  i \in Settled' <=> i \in Settled \/ i \in won \union lost
    <3>1. i[2] \in Nat /\ i = <<i[1], i[2]>>
      BY <1>2
    <3>2. i \in won \union lost <=> i[1] \in at.remaining /\ i[2] = at.day /\ i[1] \notin rest
      BY <2>2, <3>1
    <3> QED BY <1>1, <2>1, <2>3, <3>1, <3>2 DEF Settled
  <2>5. won \union lost \subseteq plan.pending /\ Settled \subseteq plan.pending
        /\ Settled' \subseteq plan.pending
    BY <1>6, <2>1, <2>2 DEF Settled
  <2> QED BY <2>4, <2>5
<1>9. manifest'.success \intersect manifest'.failed = {}
  <2> HIDE DEF won, lost
  <2> QED BY <1>5, <1>6, <1>7
<1>10. manifest'.success \union manifest'.failed = Settled'
  <2> HIDE DEF won, lost
  <2> QED BY <1>5, <1>6, <1>8
<1>11. at'.remaining \X {at'.day} \subseteq plan'.pending
  BY <1>4, <1>6
<1> HIDE DEF won, lost
<1> QED BY <1>4, <1>5, <1>6, <1>9, <1>10, <1>11 DEF Ledger, Looping, ChildPlaces

LEMMA ChildLedger ==
  ASSUME TypeInv, Asked, Ledger, ChildReturned \/ ChildRaises
  PROVE  Ledger'
<1>1. at.remaining \in SUBSET Symbols
  BY DEF TypeInv, TypeOK
<1>2. CASE ChildReturned
  <2> DEFINE missing == StillMissing(runs[Run])
             success == runs[Run].asked \ missing
  <2>1. runs[Run].asked = at.remaining
    BY <1>2 DEF ChildReturned, Asked, Opened
  <2>2. missing \subseteq at.remaining
    BY <2>1 DEF StillMissing
  <2>3. /\ missing \in SUBSET Symbols /\ success \in SUBSET Symbols
        /\ missing \union success = at.remaining /\ missing \intersect success = {}
    <3> HIDE DEF missing
    <3> QED BY <1>1, <2>1, <2>2
  <2>4. /\ pc \in ChildPlaces /\ cmd.name = "backfill" /\ Attempted(missing, success)
        /\ UNCHANGED <<cmd, plan>>
    BY <1>2 DEF ChildReturned, ChildPlaces
  <2> HIDE DEF missing, success
  <2> QED BY <2>3, <2>4, AttemptedLedger
<1>3. CASE ChildRaises
  <2> DEFINE none == {}
  <2>1. /\ pc \in ChildPlaces /\ cmd.name = "backfill" /\ Attempted(at.remaining, none)
        /\ UNCHANGED <<cmd, plan>> /\ none \in SUBSET Symbols
        /\ at.remaining \union none = at.remaining /\ at.remaining \intersect none = {}
    BY <1>3 DEF ChildRaises
  <2> HIDE DEF none
  <2> QED BY <1>1, <2>1, AttemptedLedger
<1> QED BY <1>2, <1>3

-----------------------------------------------------------------------------
\* A step inside a child run leaves the plan, the manifest and the place of the
\* loop alone.
LEMMA InsideRun ==
  ASSUME TypeInv,
         \/ AttemptBegin
         \/ \E s \in Symbols, got \in {"nothing", "raw", "pair"} : Collect(s, got)
         \/ \E bad \in BOOLEAN : WriteEvidence(bad)
         \/ RecordQuality \/ RecordRun
  PROVE  /\ UNCHANGED <<cmd, plan, manifest>> /\ pc \in ChildPlaces /\ pc' \in Opened
         /\ at'.day = at.day /\ at'.remaining = at.remaining
<1>1. UNCHANGED <<cmd, plan, manifest>> /\ pc \in ChildPlaces /\ pc' \in Opened
  BY DEF AttemptBegin, Collect, WriteEvidence, RecordQuality, RecordRun, After, ChildPlaces, Opened
<1>2. at \in Looped
  BY Typed DEF TypeInv
<1>3. \/ at' = at \/ at' = [at EXCEPT !.left = at.remaining]
      \/ \E s \in Symbols : at' = [at EXCEPT !.left = @ \ {s}]
  BY DEF AttemptBegin, Collect, WriteEvidence, RecordQuality, RecordRun
<1> QED BY <1>1, <1>2, <1>3 DEF Looped

LEMMA EndLedger ==
  ASSUME TypeInv, Ledger, RecoverEnds \/ Finish
  PROVE  Ledger'
<1>1. plan \in Planned /\ at \in Looped /\ manifest \in Reported
  BY Typed DEF TypeInv
<1>2. CASE RecoverEnds
  <2>1. plan' = NoPlan /\ manifest' = NoManifest /\ pc' = "idle"
    BY <1>2 DEF RecoverEnds, Ledger, ChildPlaces
  <2> QED BY <2>1, NoneYet DEF Ledger, Looping, ChildPlaces
<1>3. CASE Finish
  <2>1. plan' = plan /\ pc' = "idle" /\ manifest' = [manifest EXCEPT !.status = FinalStatus]
    BY <1>3 DEF Finish
  <2>2. manifest'.success = manifest.success /\ manifest'.failed = manifest.failed
    <3> HIDE DEF FinalStatus
    <3> QED BY <1>1, <2>1 DEF Reported
  <2>3. plan.pending = manifest.success \union manifest.failed
    <3>1. CASE pc = "refused"
      BY <3>1, NoneYet DEF Ledger
    <3>2. CASE pc = "loop" /\ OpenDays = {}
      <4>1. manifest.success \union manifest.failed = Settled /\ at.remaining = {}
        BY <3>2 DEF Ledger, Looping
      <4>2. \A i \in plan.pending : i[2] \in Nat /\ ~(i[2] > at.day)
        BY <1>1, <3>2, Bounds DEF Planned, Items, Days, OpenDays
      <4>3. at.day \in Nat
        BY <1>1, Bounds DEF Looped
      <4>4. Settled = plan.pending
        BY <4>1, <4>2, <4>3 DEF Settled
      <4> QED BY <4>1, <4>4
    <3> QED BY <1>3, <3>1, <3>2 DEF Finish
  <2> QED BY <2>1, <2>2, <2>3 DEF Ledger, Looping, ChildPlaces
<1> QED BY <1>2, <1>3

LEMMA LedgerStep == ASSUME TypeInv, Asked, Ledger, [Next]_vars PROVE Ledger'
<1>1. CASE \/ UNCHANGED vars \/ \E from, to \in Days, answer \in Answers : Capture(from, to, answer)
  <2>1. UNCHANGED op
    BY <1>1 DEF vars, Capture
  <2> QED BY <2>1 DEF op, Ledger, Looping, Settled
<1>2. CASE \E c \in Commands : BackfillBegin(c)
  <2>1. /\ pc' \in {"refused", "starts"} /\ manifest' = NoManifest
        /\ cmd'.name = "backfill"
        /\ \/ at' = NoLoop
           \/ \E c \in Commands : at' = [NoLoop EXCEPT !.left = Continued(c)]
    BY <1>2 DEF BackfillBegin
  <2>3. at'.day = 0 /\ at'.remaining = {}
    <3>1. NoLoop \in Looped
      BY Blank
    <3> QED BY <2>1, <3>1, NoneYet DEF Looped
  <2>2. plan'.pending = {} /\ plan'.skipped = {}
    <3>1. plan'.pending = plan'.pending /\ plan'.skipped = plan'.skipped
      OBVIOUS
    <3>2. PICK c \in Commands : BackfillBegin(c)
      BY <1>2
    <3> DEFINE g == [s \in Symbols |-> IF s \in c.asked \ Continued(c) THEN c.low ELSE 0]
    <3>3. plan' = NoPlan \/ plan' = [NoPlan EXCEPT !.start = g]
      BY <3>2 DEF BackfillBegin
    <3> HIDE DEF g
    <3> QED BY <3>3, NoneYet, Blank DEF Planned
  <2> QED BY <2>1, <2>2, <2>3, NoneYet DEF Ledger, Looping, ChildPlaces
<1>3. CASE \E S \in SUBSET Symbols, r \in RunIds : RecoverBegin(r, S)
  <2>1. /\ pc' = "collect" /\ cmd'.name = "recover" /\ plan' = NoPlan /\ manifest' = NoManifest
    BY <1>3 DEF RecoverBegin, NoCmd
  <2> QED BY <2>1, NoneYet DEF Ledger, Looping
<1>4. CASE \/ AttemptBegin
           \/ \E s \in Symbols, got \in {"nothing", "raw", "pair"} : Collect(s, got)
           \/ \E bad \in BOOLEAN : WriteEvidence(bad)
           \/ RecordQuality \/ RecordRun
  <2>1. /\ UNCHANGED <<cmd, plan, manifest>> /\ pc \in ChildPlaces /\ pc' \in Opened
        /\ at'.day = at.day /\ at'.remaining = at.remaining
    BY <1>4, InsideRun
  <2>2. Settled' = Settled
    BY <2>1 DEF Settled
  <2> QED BY <2>1, <2>2 DEF Ledger, Looping, ChildPlaces, Opened
<1>5. CASE Stop
  BY <1>5, NoneYet DEF Stop, Ledger, Looping, ChildPlaces
<1>6. CASE \E s \in Symbols : NextDate(s) \/ Gap(s)
  <2>1. PICK s \in Symbols : NextDate(s) \/ Gap(s)
    BY <1>6
  <2>2. /\ pc \in {"starts", "gap"} /\ pc' \in {"starts", "gap", "refused"}
        /\ UNCHANGED <<cmd, manifest>> /\ cmd.name = "backfill"
    BY <2>1, Queries DEF TypeInv, Control
  <2>3. plan'.pending = plan.pending /\ plan'.skipped = plan.skipped
    <3>1. \/ plan' = plan
          \/ \E day \in 1 .. LastDay + 1 :
               plan' = [plan EXCEPT !.start[s] = day, !.seen = Len(calendar)]
      BY <2>1, Queries
    <3> QED BY <3>1, Typed DEF TypeInv, Planned
  <2>4. at'.day = at.day /\ (pc' = "starts" => at'.remaining = {})
    <3>1. \/ at' = at /\ pc' = "refused"
          \/ at' = [at EXCEPT !.remaining = {s}] /\ pc' = "gap"
          \/ at' = [at EXCEPT !.left = @ \ {s}, !.remaining = {}]
      BY <2>1, Queries
    <3> QED BY <3>1, Typed DEF TypeInv, Looped
  <2> QED BY <2>2, <2>3, <2>4, NoneYet DEF Ledger, Looping, ChildPlaces
<1> QED BY <1>1, <1>2, <1>3, <1>4, <1>5, <1>6, PlanLedger, NextDayLedger, ChildLedger, EndLedger DEF Next, Step

\* What a plan that does not force has not come to is still missing, up to the
\* first attempt of its day.
Fresh ==
  (Looping /\ ~cmd.force) =>
    \A i \in plan.pending :
      i[2] > at.day \/ (pc = "attempt" /\ at.attempt = 0 /\ i[2] = at.day) => i \notin CompletedItems

LEMMA FreshStep == ASSUME TypeInv, Kept, Asked, Ledger, Fresh, [Next]_vars PROVE Fresh'
<1>0. plan \in Planned /\ at \in Looped /\ at.day \in Nat /\ at.attempt \in Nat
      /\ \A i \in plan.pending : i[2] \in Nat
  BY Typed, Bounds DEF TypeInv, Looped, Planned, Items, Days
<1>1. CASE UNCHANGED vars \/ \E from, to \in Days, answer \in Answers : Capture(from, to, answer)
  <2>1. UNCHANGED <<runs, pc, cmd, plan, manifest, at>>
    BY <1>1 DEF vars, op, Capture
  <2> QED BY <2>1 DEF Fresh, Looping, CompletedItems
<1>2. CASE \/ PlanRaises \/ Finish \/ RecoverEnds \/ Stop \/ \E c \in Commands : BackfillBegin(c)
           \/ \E S \in SUBSET Symbols, r \in RunIds : RecoverBegin(r, S)
           \/ \E s \in Symbols : NextDate(s) \/ Gap(s)
  <2>1. ~Looping'
    BY <1>2 DEF PlanRaises, Finish, RecoverEnds, Stop, BackfillBegin, RecoverBegin, Looping, ChildPlaces,
       NoCmd, NextDate, Gap, StartsAt
  <2> QED BY <2>1 DEF Fresh
<1>3. CASE PlanCoverage
  <2>1. (plan' = plan \/ plan' = [plan EXCEPT !.seen = Len(calendar)]) /\ pc = "starts"
    BY <1>3 DEF PlanCoverage
  <2>2. plan'.pending = {}
    BY <1>0, <2>1 DEF Planned, Ledger
  <2> QED BY <2>2 DEF Fresh
<1>4. CASE PlanDates
  <2> DEFINE dates == TradingDates(calendar, Least(Starts), cmd.end)
             all == {i \in cmd.asked \X dates : i[2] >= plan.start[i[1]]}
             n == Len(calendar)
  <2>1. /\ plan' = [plan EXCEPT !.pending = all \ Skipped(all), !.skipped = Skipped(all), !.seen = n]
        /\ UNCHANGED <<runs, cmd>>
    BY <1>4 DEF PlanDates
  <2> HIDE DEF all, n
  <2>2. plan'.pending = all \ Skipped(all)
    BY <1>0, <2>1 DEF Planned
  <2>3. ~cmd.force => Skipped(all) = all \intersect CompletedItems
    BY DEF Skipped
  <2>4. CompletedItems' = CompletedItems
    BY <2>1 DEF CompletedItems
  <2> QED BY <2>1, <2>2, <2>3, <2>4 DEF Fresh
<1>5. CASE NextDay
  <2> DEFINE day == Least(OpenDays)
  <2>1. day \in OpenDays /\ day \in Nat /\ day > at.day
    BY <1>0, <1>5, OpenDaysType, Bounds DEF NextDay, Days
  <2>2. at'.day = day /\ UNCHANGED <<runs, cmd, plan>> /\ pc = "loop"
    BY <1>5 DEF NextDay
  <2> HIDE DEF day
  <2>3. CompletedItems' = CompletedItems
    BY <2>2 DEF CompletedItems
  <2>4. \A i \in plan.pending : i[2] > day \/ i[2] = day => i[2] > at.day
    BY <1>0, <2>1
  <2> QED BY <2>2, <2>3, <2>4 DEF Fresh, Looping
<1>6. CASE \/ AttemptBegin
           \/ \E s \in Symbols, got \in {"nothing", "raw", "pair"} : Collect(s, got)
           \/ \E bad \in BOOLEAN : WriteEvidence(bad)
           \/ RecordQuality \/ RecordRun
  <2>1. /\ UNCHANGED <<cmd, plan, manifest>> /\ pc \in ChildPlaces /\ pc' \in Opened
        /\ at'.day = at.day /\ at'.remaining = at.remaining
    BY <1>6, InsideRun
  <2> SUFFICES ASSUME Looping', ~cmd'.force, NEW i \in plan'.pending,
                      i[2] > at'.day \/ (pc' = "attempt" /\ at'.attempt = 0 /\ i[2] = at'.day)
               PROVE  i \notin CompletedItems'
    BY DEF Fresh
  <2>2. Looping /\ ~cmd.force /\ i \in plan.pending /\ i[2] > at.day
    BY <2>1 DEF Looping, Opened
  <2>3. i \notin CompletedItems
    BY <2>2 DEF Fresh
  <2>4. pc = "run" => runs[Run].day = at.day
    BY <2>2 DEF Asked, Opened, Looping
  <2>5. i[2] # at.day
    BY <1>0, <2>2
  <2> QED BY <2>3, <2>4, <2>5, ItemsStay
<1>7. CASE ChildReturned \/ ChildRaises
  <2>1. /\ UNCHANGED <<runs, cmd, plan>> /\ pc \in ChildPlaces /\ cmd.name = "backfill"
    BY <1>7 DEF ChildReturned, ChildRaises, ChildPlaces
  <2>2. at'.day = at.day /\ ~(pc' = "attempt" /\ at'.attempt = 0)
    <3>1. \E remaining : Again(remaining) \/ DayOver(remaining)
      BY <1>7 DEF ChildReturned, ChildRaises, Attempted
    <3>2. \/ \E remaining : at' = [at EXCEPT !.attempt = at.attempt + 1, !.remaining = remaining,
                                           !.left = {}]
          \/ at' = [at EXCEPT !.attempt = 0, !.remaining = {}, !.left = {}] /\ pc' = "loop"
      BY <3>1 DEF Again, DayOver
    <3>3. at.attempt + 1 # 0
      BY <1>0
    <3> QED BY <1>0, <3>2, <3>3 DEF Looped
  <2>3. CompletedItems' = CompletedItems
    BY <2>1 DEF CompletedItems
  <2> QED BY <2>1, <2>2, <2>3 DEF Fresh, Looping
<1> QED BY <1>1, <1>2, <1>3, <1>4, <1>5, <1>6, <1>7 DEF Next, Step

(***************************************************************************)
(* The inductive invariant of the backfill                                 *)
(***************************************************************************)
BackfillInv == TypeInv /\ Kept /\ Asked /\ Reports /\ Ledger /\ Fresh

LEMMA BackfillInit == Init => BackfillInv
<1> SUFFICES ASSUME Init PROVE BackfillInv
  OBVIOUS
<1>1. runs = <<>> /\ pc = "idle" /\ plan = NoPlan /\ manifest = NoManifest
  BY DEF Init
<1>2. Kept /\ Asked /\ Ledger /\ Fresh
  BY <1>1, NoneYet DEF Kept, Asked, Ledger, Fresh, Looping, ChildPlaces, Opened
<1>3. Reports
  BY <1>1 DEF Reports, NoPlan, NoManifest
<1> QED BY <1>2, <1>3, TypeInit DEF BackfillInv

LEMMA BackfillStep == BackfillInv /\ [Next]_vars => BackfillInv'
BY TypeStep, RowsStay, AskedStep, ReportsStep, LedgerStep, FreshStep DEF BackfillInv

\* The invariant holds in every reachable state.
THEOREM BackfillInvAlways == Spec => []BackfillInv
BY BackfillInit, BackfillStep, PTL DEF Spec

\* What a manifest says of each planned item is true.
THEOREM OutcomeAlwaysTrue == Spec => []OutcomeIsTrue
<1>1. BackfillInv => OutcomeIsTrue
  <2> SUFFICES ASSUME BackfillInv PROVE OutcomeIsTrue
    OBVIOUS
  <2>1. manifest.status # "none" => plan.pending = manifest.success \union manifest.failed
    <3>1. pc \in Places
      BY DEF BackfillInv, TypeInv, TypeOK
    <3> QED BY <3>1, NoneYet DEF BackfillInv, Ledger, Looping, Places
  <2> QED BY <2>1 DEF OutcomeIsTrue, BackfillInv, Reports, Ledger
<1> QED BY <1>1, BackfillInvAlways, PTL

\* An attempt asks for what is missing, and never again for what it settled.
THEOREM AlwaysAsksMissing == Spec => AsksMissing
<1>1. BackfillInv /\ [Next]_vars =>
        [pc = "attempt" /\ pc' = "collect" =>
           /\ (at.attempt = 0 /\ ~cmd.force) =>
                (at.remaining \X {at.day}) \intersect CompletedItems = {}
           /\ (at.remaining \X {at.day}) \intersect (manifest.success \union manifest.failed) = {}]_vars
  <2> SUFFICES ASSUME BackfillInv, pc = "attempt"
               PROVE  /\ (at.attempt = 0 /\ ~cmd.force) =>
                           (at.remaining \X {at.day}) \intersect CompletedItems = {}
                      /\ (at.remaining \X {at.day})
                           \intersect (manifest.success \union manifest.failed) = {}
    OBVIOUS
  <2>1. Looping
    BY DEF BackfillInv, TypeInv, Control, Looping, ChildPlaces
  <2>2. at.remaining \X {at.day} \subseteq plan.pending
        /\ manifest.success \union manifest.failed = Settled
    BY <2>1 DEF BackfillInv, Ledger
  <2>3. at.day \in Nat
    BY Bounds DEF BackfillInv, TypeInv, Control, ChildPlaces, Days
  <2>4. (at.remaining \X {at.day}) \intersect Settled = {}
    BY <2>3 DEF Settled
  <2>5. (at.attempt = 0 /\ ~cmd.force) => (at.remaining \X {at.day}) \intersect CompletedItems = {}
    <3>1. \A i \in at.remaining \X {at.day} : i \in plan.pending /\ i[2] = at.day
      BY <2>2
    <3> QED BY <2>1, <3>1 DEF BackfillInv, Fresh
  <2> QED BY <2>2, <2>4, <2>5
<1> QED BY <1>1, BackfillInvAlways, PTL DEF Spec, AsksMissing

-----------------------------------------------------------------------------
(***************************************************************************)
(* What an operation still has to do                                       *)
(***************************************************************************)
LEMMA Products ==
  ASSUME NEW m \in Nat, NEW n \in Nat, NEW k \in Nat
  PROVE  /\ m * k \in Nat
         /\ m <= n => m * k <= n * k
         /\ (m + 1) * k = m * k + k
<1>1. m * k \in Nat /\ (m + 1) * k = m * k + k
  OBVIOUS
<1>2. ASSUME m <= n PROVE m * k <= n * k
  <2>1. n - m \in Nat
    BY <1>2
  <2>2. (n - m) * k \in Nat
    BY <2>1
  <2>3. n * k = m * k + (n - m) * k
    OBVIOUS
  <2>4. m * k \in Nat /\ n * k \in Nat
    OBVIOUS
  <2> DEFINE a == m * k
             b == n * k
             d == (n - m) * k
  <2> HIDE DEF a, b, d
  <2>5. a <= b
    BY <2>2, <2>3, <2>4 DEF a, b, d
  <2> QED BY <2>5 DEF a, b
<1> QED BY <1>1, <1>2

\* The measures of one attempt and of one day.
LEMMA Measures ==
  /\ Cardinality(Symbols) \in Nat /\ PerAttempt \in Nat /\ PerDay \in Nat
  /\ PerAttempt = Cardinality(Symbols) + 5
  /\ PerDay = MaxRetries * PerAttempt + PerAttempt + 1
  /\ MaxRetries * PerAttempt \in Nat
<1>1. Cardinality(Symbols) \in Nat /\ PerAttempt \in Nat /\ PerAttempt = Cardinality(Symbols) + 5
  BY SymbolAssumption, FS_CardinalityType DEF PerAttempt
<1>2. MaxRetries * PerAttempt \in Nat /\ (MaxRetries + 1) * PerAttempt = MaxRetries * PerAttempt + PerAttempt
  BY <1>1, Bounds, Products
<1> QED BY <1>1, <1>2 DEF PerDay

\* The days that are still open, and the symbols of a run.
LEMMA DaysLeft ==
  ASSUME NEW D \in SUBSET Days
  PROVE  IsFiniteSet(D) /\ Cardinality(D) \in 0 .. LastDay
<1>1. IsFiniteSet(1 .. LastDay) /\ Cardinality(1 .. LastDay) = LastDay
  BY Bounds, FS_Interval
<1>2. IsFiniteSet(D) /\ Cardinality(D) <= LastDay
  BY <1>1, FS_Subset DEF Days
<1> QED BY <1>2, FS_CardinalityType, Bounds

LEMMA SymbolsLeft ==
  ASSUME NEW S \in SUBSET Symbols
  PROVE  IsFiniteSet(S) /\ Cardinality(S) \in 0 .. Cardinality(Symbols)
<1>1. IsFiniteSet(S) /\ Cardinality(S) <= Cardinality(Symbols)
  BY SymbolAssumption, FS_Subset
<1> QED BY <1>1, Measures, FS_CardinalityType

\* What is left of a day while one of its attempts is under way.
OfDay == (MaxRetries - at.attempt) * PerAttempt + Place(pc) + 1

LEMMA ToDoNow ==
  ASSUME TypeInv
  PROVE  /\ Cardinality(OpenDays) \in 0 .. LastDay
         /\ Cardinality(OpenDays) * PerDay \in Nat
         /\ Cardinality(OpenDays) * PerDay <= LastDay * PerDay
         /\ LastDay * PerDay \in Nat
         /\ pc = "loop" => ToDo = Cardinality(OpenDays) * PerDay + 1
         /\ pc \in ChildPlaces =>
              /\ Place(pc) \in Nat
              /\ (MaxRetries - at.attempt) * PerAttempt \in Nat
              /\ ToDo = Cardinality(OpenDays) * PerDay + 1 + OfDay
         /\ pc # "idle" => ToDo \in Nat /\ ToDo > 0
<1>1. plan \in Planned /\ at \in Looped
  BY Typed DEF TypeInv
<1>2. Cardinality(OpenDays) \in 0 .. LastDay
  BY <1>1, OpenDaysType, DaysLeft
<1>3. /\ Cardinality(OpenDays) * PerDay \in Nat /\ LastDay * PerDay \in Nat
      /\ Cardinality(OpenDays) * PerDay <= LastDay * PerDay
  BY <1>2, Bounds, Measures, Products
<1>4. ASSUME pc = "loop" PROVE ToDo = Cardinality(OpenDays) * PerDay + 1
  BY <1>3, <1>4 DEF ToDo
<1>5. ASSUME pc \in ChildPlaces
      PROVE  /\ Place(pc) \in Nat /\ (MaxRetries - at.attempt) * PerAttempt \in Nat
             /\ ToDo = Cardinality(OpenDays) * PerDay + 1 + OfDay
  <2>1. Cardinality(at.left) \in Nat
    BY <1>1, SymbolsLeft, Measures DEF Looped
  <2>2. Place(pc) \in Nat
    BY <1>5, <2>1, Measures DEF Place, ChildPlaces
  <2>3. MaxRetries - at.attempt \in Nat
    BY <1>1, Bounds DEF Looped
  <2>4. (MaxRetries - at.attempt) * PerAttempt \in Nat
    BY <2>3, Measures, Products
  <2>5. pc # "loop" /\ pc \notin {"idle", "refused", "dates", "gap", "starts"}
    BY <1>5 DEF ChildPlaces
  <2>6. ToDo = Cardinality(OpenDays) * PerDay + 1 + OfDay
    BY <2>5 DEF ToDo, OfDay
  <2> QED BY <2>2, <2>4, <2>6
<1>6. ASSUME pc # "idle" PROVE ToDo \in Nat /\ ToDo > 0
  <2>1. CASE pc \in {"refused", "dates", "gap", "starts"}
    <3> DEFINE all == LastDay * PerDay
               n == Cardinality(at.left)
    <3>1. all \in Nat /\ (ToDo = 1 \/ ToDo = all + 2 \/ ToDo = all + 2 * n + 2 \/ ToDo = all + 2 * n + 3)
      BY <1>3, <2>1 DEF ToDo
    <3>2. n \in Nat
      BY <1>1, SymbolsLeft, Measures DEF Looped
    <3> HIDE DEF all, n
    <3> QED BY <3>1, <3>2
  <2>2. CASE pc = "loop"
    <3> DEFINE all == Cardinality(OpenDays) * PerDay
    <3>1. all \in Nat /\ ToDo = all + 1
      BY <1>3, <1>4, <2>2
    <3> HIDE DEF all
    <3> QED BY <3>1
  <2>3. CASE pc \in ChildPlaces
    <3> DEFINE all == Cardinality(OpenDays) * PerDay
               rest == (MaxRetries - at.attempt) * PerAttempt
    <3>1. all \in Nat /\ rest \in Nat /\ Place(pc) \in Nat /\ ToDo = all + 1 + (rest + Place(pc) + 1)
      BY <1>3, <1>5, <2>3 DEF OfDay
    <3> HIDE DEF all, rest, Place
    <3> QED BY <3>1
  <2>4. pc \in Places
    BY DEF TypeInv, TypeOK
  <2> QED BY <1>6, <2>1, <2>2, <2>3, <2>4 DEF Places
<1> QED BY <1>2, <1>3, <1>4, <1>5, <1>6

-----------------------------------------------------------------------------
LEMMA EndNears ==
  ASSUME TypeInv, RecoverEnds \/ Finish \/ Stop
  PROVE  ToDo' < ToDo /\ ToDo' \in Nat
<1>1. pc # "idle" /\ pc' = "idle"
  BY DEF RecoverEnds, Finish, Stop, ChildPlaces
<1>2. ToDo' = 0
  BY <1>1 DEF ToDo
<1>3. ToDo \in Nat /\ ToDo > 0
  BY <1>1, ToDoNow
<1> HIDE DEF ToDo
<1> QED BY <1>2, <1>3

LEMMA PlanNears ==
  ASSUME TypeInv, PlanCoverage \/ PlanDates \/ PlanRaises
  PROVE  ToDo' < ToDo /\ ToDo' \in Nat
<1> DEFINE all  == LastDay * PerDay
           here == Cardinality(OpenDays') * PerDay
<1>1. Cardinality(OpenDays') \in 0 .. LastDay
  <2>1. TypeInv'
    BY PlanType
  <2>2. plan'.pending \subseteq Symbols \X Days
    BY <2>1 DEF TypeInv, TypeOK, Items
  <2>3. OpenDays' \in SUBSET Days
    BY <2>2 DEF OpenDays
  <2> QED BY <2>3, DaysLeft
<1>2. all \in Nat /\ here \in Nat /\ here <= all
  BY <1>1, Bounds, Measures, Products
<1>3. /\ \/ pc \in {"starts", "gap"} /\ pc' = "refused"
         \/ pc = "starts" /\ pc' \in {"loop", "refused", "dates"}
         \/ pc = "dates" /\ pc' \in {"loop", "refused"}
      /\ UNCHANGED at
  BY DEF PlanCoverage, PlanDates, PlanRaises
<1> DEFINE n == Cardinality(at.left)
<1>4. n \in Nat
  BY SymbolsLeft, Measures, Typed DEF TypeInv, Looped
<1>5. ToDo = IF pc = "dates" THEN all + 2 ELSE IF pc = "gap" THEN all + 2 * n + 2 ELSE all + 2 * n + 3
  BY <1>2, <1>3 DEF ToDo
<1>6. ToDo' = IF pc' = "refused" THEN 1 ELSE IF pc' = "dates" THEN all + 2 ELSE here + 1
  BY <1>2, <1>3 DEF ToDo, PerDay, PerAttempt
<1> HIDE DEF all, here, n
<1> QED BY <1>2, <1>3, <1>4, <1>5, <1>6

\* A query settles the start of a symbol, refuses the plan, or is followed by the
\* second one.
LEMMA QueryNears ==
  ASSUME TypeInv, NEW s \in Symbols, NextDate(s) \/ Gap(s)
  PROVE  ToDo' < ToDo /\ ToDo' \in Nat
<1> DEFINE all == LastDay * PerDay
           n   == Cardinality(at.left)
           m   == Cardinality(at'.left)
<1>1. all \in Nat
  BY Bounds, Measures, Products
<1>2. n \in Nat /\ IsFiniteSet(at.left) /\ at \in Looped
  BY SymbolsLeft, Measures, Typed DEF TypeInv, Looped
<1>3. s \in at.left
  BY Queries
<1>4. Cardinality(at.left \ {s}) = n - 1
  BY <1>2, <1>3, FS_RemoveElement
<1>5. \/ pc = "starts" /\ pc' = "gap" /\ m = n
      \/ pc = "gap" /\ pc' = "refused"
      \/ pc \in {"starts", "gap"} /\ pc' = "starts" /\ m = n - 1
  <2>1. \/ pc = "starts" /\ pc' = "gap" /\ at' = [at EXCEPT !.remaining = {s}]
        \/ pc = "gap" /\ pc' = "refused"
        \/ /\ pc \in {"starts", "gap"} /\ pc' = "starts"
           /\ at' = [at EXCEPT !.left = @ \ {s}, !.remaining = {}]
    BY Queries
  <2>2. at' = [at EXCEPT !.remaining = {s}] => at'.left = at.left
    BY <1>2 DEF Looped
  <2>3. at' = [at EXCEPT !.left = @ \ {s}, !.remaining = {}] => at'.left = at.left \ {s}
    BY <1>2 DEF Looped
  <2> QED BY <1>4, <2>1, <2>2, <2>3
<1>6. ToDo = IF pc = "gap" THEN all + 2 * n + 2 ELSE all + 2 * n + 3
  BY <1>1, <1>5 DEF ToDo
<1>7. ToDo' = IF pc' = "refused" THEN 1 ELSE IF pc' = "gap" THEN all + 2 * m + 2 ELSE all + 2 * m + 3
  BY <1>1, <1>5 DEF ToDo, PerDay, PerAttempt
<1> HIDE DEF all, n, m
<1>8. n >= 1 \/ m = n \/ pc' = "refused"
  BY <1>2, <1>3, FS_EmptySet DEF n
<1> QED BY <1>1, <1>2, <1>5, <1>6, <1>7, <1>8

LEMMA NextDayNears ==
  ASSUME TypeInv, NextDay
  PROVE  ToDo' < ToDo /\ ToDo' \in Nat
<1> DEFINE day == Least(OpenDays)
           there == Cardinality(OpenDays) * PerDay
           here == Cardinality(OpenDays') * PerDay
<1>1. plan \in Planned /\ at \in Looped
  BY Typed DEF TypeInv
<1>2. /\ day \in OpenDays /\ day > at.day /\ (\A d \in OpenDays : day <= d)
      /\ OpenDays \in SUBSET Days
  BY <1>1, OpenDaysType DEF NextDay
<1>3. at'.day = day /\ at'.attempt = 0 /\ plan' = plan /\ pc = "loop" /\ pc' = "attempt"
  BY DEF NextDay
<1> HIDE DEF day
<1>4. OpenDays' = OpenDays \ {day}
  <2>1. \A i \in plan.pending : i[2] \in Nat
    BY <1>1, Bounds DEF Planned, Items, Days
  <2>2. at.day \in Nat /\ day \in Nat
    BY <1>1, <1>2, Bounds DEF Looped, Days
  <2>3. \A i \in plan.pending : i[2] > day <=> i[2] > at.day /\ i[2] # day
    <3> SUFFICES ASSUME NEW i \in plan.pending
                 PROVE  i[2] > day <=> i[2] > at.day /\ i[2] # day
      OBVIOUS
    <3>1. i[2] > at.day => i[2] \in OpenDays
      BY DEF OpenDays
    <3>2. i[2] > at.day => day <= i[2]
      BY <1>2, <3>1
    <3> QED BY <1>2, <2>1, <2>2, <3>2
  <2> QED BY <1>3, <2>3 DEF OpenDays
<1>5. /\ Cardinality(OpenDays) \in Nat /\ Cardinality(OpenDays') \in Nat
      /\ Cardinality(OpenDays) = Cardinality(OpenDays') + 1
  <2>1. IsFiniteSet(OpenDays) /\ Cardinality(OpenDays) \in 0 .. LastDay
    BY <1>2, DaysLeft
  <2>2. Cardinality(OpenDays') = Cardinality(OpenDays) - 1
    BY <1>2, <1>4, <2>1, FS_RemoveElement
  <2>3. OpenDays' \in SUBSET Days
    BY <1>2, <1>4
  <2>4. Cardinality(OpenDays') \in 0 .. LastDay
    BY <2>3, DaysLeft
  <2> QED BY <2>1, <2>2, <2>4, Bounds
<1>6. there = here + PerDay /\ here \in Nat
  BY <1>5, Measures, Products
<1>7. ToDo = there + 1
  BY <1>3, ToDoNow
<1> DEFINE attempts == MaxRetries * PerAttempt
<1>8. ToDo' = here + 1 + (attempts + Cardinality(Symbols) + 4 + 1)
  <2>1. MaxRetries - at'.attempt = MaxRetries
    BY <1>3, Bounds
  <2>2. Place(pc)' = Cardinality(Symbols) + 4
    BY <1>3 DEF Place
  <2>3. PerDay' = PerDay /\ PerAttempt' = PerAttempt
    BY DEF PerDay, PerAttempt
  <2>4. ToDo' = here + 1 + ((MaxRetries - at'.attempt) * PerAttempt + Place(pc)' + 1)
    BY <1>3, <2>3 DEF ToDo
  <2> HIDE DEF here
  <2>5. ToDo' = here + 1 + (attempts + (Cardinality(Symbols) + 4) + 1)
    BY <2>1, <2>2, <2>4
  <2> HIDE DEF attempts
  <2> QED BY <1>6, <2>5, Measures DEF attempts
<1>9. PerDay = attempts + Cardinality(Symbols) + 5 + 1 /\ attempts \in Nat
      /\ Cardinality(Symbols) \in Nat
  <2> HIDE DEF attempts
  <2> QED BY Measures DEF attempts
<1> HIDE DEF there, here, attempts
<1> QED BY <1>6, <1>7, <1>8, <1>9

\* Inside a child run only its place, or what it has not come to, gets less.
LEMMA InsideNears ==
  ASSUME TypeInv,
         \/ AttemptBegin
         \/ \E s \in Symbols, got \in {"nothing", "raw", "pair"} : Collect(s, got)
         \/ \E bad \in BOOLEAN : WriteEvidence(bad)
         \/ RecordQuality \/ RecordRun
  PROVE  ToDo' < ToDo /\ ToDo' \in Nat
<1> DEFINE all == Cardinality(OpenDays) * PerDay
           rest == (MaxRetries - at.attempt) * PerAttempt
           size == Cardinality(Symbols)
<1>1. at \in Looped
  BY Typed DEF TypeInv
<1>2. /\ UNCHANGED plan /\ pc \in ChildPlaces /\ pc' \in Opened /\ at'.day = at.day
      /\ at'.attempt = at.attempt
  <2>1. \/ at' = at \/ at' = [at EXCEPT !.left = at.remaining]
        \/ \E s \in Symbols : at' = [at EXCEPT !.left = @ \ {s}]
    BY DEF AttemptBegin, Collect, WriteEvidence, RecordQuality, RecordRun
  <2>2. at'.attempt = at.attempt
    BY <1>1, <2>1 DEF Looped
  <2> QED BY <2>2, InsideRun
<1>3. /\ all \in Nat /\ rest \in Nat /\ Place(pc) \in Nat
      /\ ToDo = all + 1 + (rest + Place(pc) + 1)
  BY <1>2, ToDoNow DEF OfDay
<1>4. ToDo' = all + 1 + (rest + Place(pc)' + 1)
  <2>1. OpenDays' = OpenDays
    BY <1>2 DEF OpenDays
  <2>2. PerDay' = PerDay /\ PerAttempt' = PerAttempt
    BY DEF PerDay, PerAttempt
  <2>3. pc' # "loop" /\ pc' \notin {"idle", "refused", "dates", "gap", "starts"}
    BY <1>2 DEF Opened
  <2> QED BY <1>2, <2>1, <2>2, <2>3 DEF ToDo
<1>5. Place(pc)' < Place(pc) /\ Place(pc)' \in Nat
  <2>1. CASE AttemptBegin
    <3>1. pc = "attempt" /\ pc' = "collect" /\ at' = [at EXCEPT !.left = at.remaining]
      BY <2>1 DEF AttemptBegin
    <3>2. at'.left \in SUBSET Symbols
      BY <1>1, <3>1 DEF Looped
    <3>3. Cardinality(at'.left) \in 0 .. size
      BY <3>2, SymbolsLeft
    <3>4. Place(pc) = size + 4 /\ Place(pc)' = Cardinality(at'.left) + 3
      BY <3>1 DEF Place
    <3> QED BY <3>3, <3>4, Measures
  <2>2. CASE \E s \in Symbols, got \in {"nothing", "raw", "pair"} : Collect(s, got)
    <3>1. PICK s \in Symbols : /\ s \in at.left /\ at' = [at EXCEPT !.left = @ \ {s}]
                              /\ pc = "collect" /\ pc' = "collect"
      BY <2>2 DEF Collect
    <3>2. at.left \in SUBSET Symbols /\ at'.left = at.left \ {s}
      BY <1>1, <3>1 DEF Looped
    <3>3. IsFiniteSet(at.left) /\ Cardinality(at.left) \in Nat /\ Cardinality(at'.left) \in Nat
      BY <3>2, SymbolsLeft, Measures
    <3>4. Cardinality(at'.left) = Cardinality(at.left) - 1
      BY <3>1, <3>2, <3>3, FS_RemoveElement
    <3>5. Place(pc) = Cardinality(at.left) + 3 /\ Place(pc)' = Cardinality(at'.left) + 3
      BY <3>1 DEF Place
    <3> QED BY <3>3, <3>4, <3>5
  <2>3. CASE \E bad \in BOOLEAN : WriteEvidence(bad)
    <3>1. pc = "collect" /\ pc' = "quality" /\ at.left = {}
      BY <2>3 DEF WriteEvidence, After
    <3>2. Cardinality(at.left) = 0
      BY <3>1, FS_EmptySet
    <3> QED BY <3>1, <3>2 DEF Place
  <2>4. CASE RecordQuality
    BY <2>4 DEF RecordQuality, After, Place
  <2>5. CASE RecordRun
    BY <2>5 DEF RecordRun, After, Place
  <2> QED BY <2>1, <2>2, <2>3, <2>4, <2>5
<1> HIDE DEF all, rest, Place
<1> QED BY <1>3, <1>4, <1>5

\* An attempt that ends leaves the next one, or the days after this one.
LEMMA ChildNears ==
  ASSUME TypeInv, ChildReturned \/ ChildRaises
  PROVE  ToDo' < ToDo /\ ToDo' \in Nat
<1> DEFINE all == Cardinality(OpenDays) * PerDay
           rest == (MaxRetries - at.attempt) * PerAttempt
           next == (MaxRetries - at'.attempt) * PerAttempt
           size == Cardinality(Symbols)
<1>1. at \in Looped /\ plan' = plan /\ pc \in ChildPlaces
  BY Typed DEF TypeInv, ChildReturned, ChildRaises, ChildPlaces
<1>2. /\ at'.day = at.day
      /\ \/ pc' = "loop"
         \/ pc' = "attempt" /\ at'.attempt = at.attempt + 1 /\ at.attempt < MaxRetries
  <2>1. \E remaining : \/ DayOver(remaining)
                       \/ Again(remaining) /\ ~LastAttempt
    BY DEF ChildReturned, ChildRaises, Attempted
  <2>2. \/ pc' = "loop" /\ at' = [at EXCEPT !.attempt = 0, !.remaining = {}, !.left = {}]
        \/ /\ pc' = "attempt" /\ ~(at.attempt >= MaxRetries)
           /\ \E remaining : at' = [at EXCEPT !.attempt = at.attempt + 1, !.remaining = remaining,
                                              !.left = {}]
    BY <2>1 DEF DayOver, Again, LastAttempt
  <2>3. ~(at.attempt >= MaxRetries) => at.attempt < MaxRetries
    BY <1>1, Bounds DEF Looped
  <2>4. ASSUME NEW remaining,
               at' = [at EXCEPT !.attempt = at.attempt + 1, !.remaining = remaining, !.left = {}]
        PROVE  at'.day = at.day /\ at'.attempt = at.attempt + 1
    BY <1>1, <2>4 DEF Looped
  <2>5. at' = [at EXCEPT !.attempt = 0, !.remaining = {}, !.left = {}] => at'.day = at.day
    BY <1>1 DEF Looped
  <2> QED BY <2>2, <2>3, <2>4, <2>5
<1>3. /\ all \in Nat /\ rest \in Nat /\ Place(pc) \in Nat
      /\ ToDo = all + 1 + (rest + Place(pc) + 1)
  BY <1>1, ToDoNow DEF OfDay
<1>4. OpenDays' = OpenDays /\ PerDay' = PerDay /\ PerAttempt' = PerAttempt
  BY <1>1, <1>2 DEF OpenDays, PerDay, PerAttempt
<1>5. CASE pc' = "loop"
  <2>1. ToDo' = all + 1
    BY <1>3, <1>4, <1>5 DEF ToDo
  <2> HIDE DEF all, rest, Place
  <2> QED BY <1>3, <2>1
<1>6. CASE pc' = "attempt" /\ at'.attempt = at.attempt + 1 /\ at.attempt < MaxRetries
  <2>1. Place(pc)' = size + 4
    BY <1>6 DEF Place
  <2>2. ToDo' = all + 1 + (next + (size + 4) + 1)
    <3>1. ToDo' = all + 1 + (next + Place(pc)' + 1)
      BY <1>4, <1>6 DEF ToDo
    <3> HIDE DEF all, next
    <3> QED BY <2>1, <3>1
  <2>3. rest = next + PerAttempt /\ next \in Nat
    <3>1. /\ MaxRetries - at'.attempt \in Nat
          /\ MaxRetries - at.attempt = (MaxRetries - at'.attempt) + 1
      BY <1>1, <1>6, Bounds DEF Looped
    <3> QED BY <3>1, Measures, Products
  <2> HIDE DEF all, rest, next, Place
  <2> QED BY <1>3, <2>2, <2>3, Measures
<1> QED BY <1>2, <1>5, <1>6

\* Every step of an operation lowers what it still has to do.
THEOREM EachStepAlwaysNears == Spec => EachStepNears
<1>1. TypeInv /\ [Next]_vars => [pc # "idle" /\ op' # op => ToDo' < ToDo /\ ToDo' \in Nat]_vars
  <2> SUFFICES ASSUME TypeInv, Next, pc # "idle", op' # op
               PROVE  ToDo' < ToDo /\ ToDo' \in Nat
    OBVIOUS
  <2>1. Step \/ Stop
    BY DEF Next, Capture, BackfillBegin, RecoverBegin
  <2> QED BY <2>1, EndNears, QueryNears, PlanNears, NextDayNears, InsideNears, ChildNears DEF Step
<1> QED BY <1>1, TypeAlways, PTL DEF Spec, EachStepNears

-----------------------------------------------------------------------------
-----------------------------------------------------------------------------
(***************************************************************************)
(* A SUCCESS backfill leaves nothing open                                  *)
(***************************************************************************)
Done     == pc = "idle" /\ manifest.status = "SUCCESS"
Planning == pc = "dates" \/ Looping \/ Done

\* The items between start and end, the days the exchange was asked about, and
\* those its newest batch names.
Due   == {i \in cmd.asked \X Days : plan.start[i[1]] <= i[2] /\ i[2] <= cmd.end}
Known == {d \in Days : \E i \in 1 .. plan.seen : Covers(calendar[i], d)}
NamedDays ==
  {d \in Days : \E i \in 1 .. plan.seen :
     d \in calendar[i].days /\ \A j \in (i + 1) .. plan.seen : ~Covers(calendar[j], d)}

\* The plan is made from a prefix of the calendar that was asked about all due
\* items, and it takes in the named ones; only a loop without losses succeeds.
Surveyed ==
  /\ plan.seen <= Len(calendar)
  /\ pc \in {"starts", "gap"} => \A s \in cmd.asked \ at.left : plan.start[s] >= 1
  /\ Planning => \A s \in cmd.asked : plan.start[s] >= 1
  /\ Planning => \A i \in Due : i[2] \in Known
  /\ (Looping \/ Done) => \A i \in Due : i[2] \in NamedDays => i \in plan.pending \union plan.skipped
  /\ manifest.status = "SUCCESS" => Done /\ manifest.failed = {}

\* The days of the calendar and of the plan are numbers.
LEMMA Numbers ==
  ASSUME TypeInv
  PROVE  /\ calendar \in Seq(Batches) /\ Len(calendar) \in Nat /\ DOMAIN calendar = 1 .. Len(calendar)
         /\ \A i \in DOMAIN calendar : calendar[i] \in Batches
         /\ plan \in Planned /\ plan.seen \in Nat /\ cmd.asked \in SUBSET Symbols
         /\ cmd.end \in 0 .. LastDay /\ LastDay \in Nat
         /\ \A s \in Symbols : plan.start[s] \in 0 .. LastDay + 1
<1>1. calendar \in Seq(Batches) /\ plan \in Planned /\ cmd \in Commanded
  BY Typed DEF TypeInv
<1>2. \A i \in DOMAIN calendar : calendar[i] \in Batches
  BY <1>1
<1>3. plan.seen \in Nat /\ \A s \in Symbols : plan.start[s] \in 0 .. LastDay + 1
  BY <1>1, Bounds DEF Planned
<1> QED BY <1>1, <1>2, <1>3, Bounds DEF Commanded

\* A due item is no earlier than the first day of the plan.
LEMMA FirstStart ==
  ASSUME TypeInv, \A s \in cmd.asked : plan.start[s] >= 1, NEW i \in Due
  PROVE  /\ Starts # {} /\ Least(Starts) \in Days
         /\ Least(Starts) <= i[2] /\ i[2] <= cmd.end /\ i[2] \in Days
<1>1. i[1] \in cmd.asked /\ i[1] \in Symbols /\ i[2] \in Days
      /\ plan.start[i[1]] <= i[2] /\ i[2] <= cmd.end
  BY Numbers DEF Due
<1>2. plan.start[i[1]] \in Nat /\ plan.start[i[1]] <= cmd.end /\ plan.start[i[1]] >= 1 /\ cmd.end \in Nat
  BY <1>1, Numbers DEF Days
<1>3. plan.start[i[1]] \in Starts
  BY <1>1, <1>2 DEF Starts
<1>4. Starts \in SUBSET Nat /\ Starts \subseteq Days
  BY Numbers DEF Starts, Days
<1>5. Least(Starts) \in Starts /\ Least(Starts) <= plan.start[i[1]]
  <2> HIDE DEF Starts
  <2> QED BY <1>3, <1>4, LeastOf
<1>6. Least(Starts) \in Nat /\ i[2] \in Nat
  <2>1. Least(Starts) \in Nat
    <3> HIDE DEF Starts
    <3> QED BY <1>4, <1>5
  <2>2. i[2] \in Nat
    BY <1>1 DEF Days
  <2> QED BY <2>1, <2>2
<1>7. Least(Starts) <= i[2]
  BY <1>1, <1>2, <1>5, <1>6
<1> QED BY <1>1, <1>3, <1>4, <1>5, <1>7

\* A calendar with nothing missing was asked about each day of the range.
LEMMA CoveredDays ==
  ASSUME TypeInv, NEW from \in Int, Uncovered(from, cmd.end) = {}, NEW d \in from .. cmd.end
  PROVE  \E i \in DOMAIN calendar : Covers(calendar[i], d)
<1> DEFINE R == RequestedRanges(calendar, from, cmd.end)
           I == {row[1] : row \in {r \in LatestRows(calendar) :
                                     calendar[r[1]].to >= from /\ calendar[r[1]].from <= cmd.end}}
<1>1. I \in SUBSET DOMAIN calendar
  BY DEF LatestRows
<1>2. R = {[from |-> calendar[i].from, to |-> calendar[i].to] : i \in I}
  BY DEF RequestedRanges
<1> HIDE DEF I, R
<1>3. \A i \in DOMAIN calendar : calendar[i].from \in 0 .. LastDay /\ calendar[i].to \in 0 .. LastDay
  BY Numbers DEF Batches, Days
<1>4. R \in SUBSET Bounded(LastDay)
  BY <1>1, <1>2, <1>3 DEF Bounded
<1>5. IsFiniteSet(R)
  <2>1. IsFiniteSet(I)
    <3>1. IsFiniteSet(1 .. Len(calendar))
      BY Numbers, FS_Interval
    <3> QED BY <1>1, <3>1, Numbers, FS_Subset
  <2> DEFINE f == [i \in I |-> [from |-> calendar[i].from, to |-> calendar[i].to]]
  <2>2. f \in Surjection(I, R)
    BY <1>2 DEF Surjection
  <2> QED BY <2>1, <2>2, FS_Surjection
<1>6. MissingRanges(from, cmd.end, R) = {} /\ cmd.end \in Int /\ LastDay \in Nat
  BY Numbers DEF Uncovered, R
<1>7. PICK r \in R : Covers(r, d)
  BY <1>4, <1>5, <1>6, NotMissingIsCovered
<1> QED BY <1>1, <1>2, <1>7 DEF Covers

\* What the exchange names last is a trading date of the view.
LEMMA NamedIsTrading ==
  ASSUME TypeInv, NEW from \in Int, NEW to \in Int, NEW d \in from .. to, NEW i \in DOMAIN calendar,
         d \in calendar[i].days, \A j \in (i + 1) .. Len(calendar) : ~Covers(calendar[j], d)
  PROVE  d \in TradingDates(calendar, from, to)
<1>1. \A j \in DOMAIN calendar : j > i => j \in (i + 1) .. Len(calendar)
  BY Numbers
<1>2. <<i, d>> \in LatestRows(calendar)
  BY <1>1 DEF LatestRows
<1> HIDE DEF LatestRows
<1> QED BY <1>2 DEF TradingDates

-----------------------------------------------------------------------------
\* A step that keeps the calendar up to where the plan has seen it keeps what
\* the plan knows.
LEMMA SameDays ==
  ASSUME TypeInv, plan.seen <= Len(calendar), UNCHANGED <<cmd, plan>>,
         \A i \in 1 .. Len(calendar) : calendar'[i] = calendar[i]
  PROVE  Due' = Due /\ Known' = Known /\ NamedDays' = NamedDays
<1>1. \A i \in 1 .. plan.seen : calendar'[i] = calendar[i]
  BY Numbers
<1>2. \A i \in 1 .. plan.seen : \A j \in (i + 1) .. plan.seen : j \in 1 .. plan.seen
  BY Numbers
<1>3. Due' = Due
  BY DEF Due
<1>4. Known' = Known
  BY <1>1 DEF Known, Covers
<1>5. NamedDays' = NamedDays
  BY <1>1, <1>2 DEF NamedDays, Covers
<1> QED BY <1>3, <1>4, <1>5

\* A start is a day or the day after the last.
LEMMA BeginSurveyed ==
  ASSUME TypeInv, NEW c \in Commands, BackfillBegin(c) PROVE Surveyed'
<1>1. /\ pc' \in {"refused", "starts"} /\ manifest' = NoManifest /\ cmd'.asked = c.asked
      /\ UNCHANGED calendar
  BY DEF BackfillBegin
<1>2. ~Planning' /\ ~Looping' /\ ~Done' /\ manifest'.status # "SUCCESS"
  BY <1>1, NoneYet DEF Planning, Looping, Done, ChildPlaces
<1> DEFINE g == [s \in Symbols |-> IF s \in c.asked \ Continued(c) THEN c.low ELSE 0]
<1>3. /\ plan' = NoPlan \/ plan' = [NoPlan EXCEPT !.start = g]
      /\ pc' = "starts" => /\ plan' = [NoPlan EXCEPT !.start = g]
                           /\ at' = [NoLoop EXCEPT !.left = Continued(c)]
                           /\ c.low = 0 => Continued(c) = c.asked
  BY DEF BackfillBegin
<1>4. c.asked \in SUBSET Symbols /\ c.low \in Nat
  BY CommandAssumption, Bounds DEF Arguments
<1>5. pc' = "starts" => \A s \in c.asked \ Continued(c) : g[s] >= 1
  BY <1>3, <1>4
<1> HIDE DEF g
<1>6. NoPlan.seen = 0 /\ NoPlan \in Planned /\ NoLoop \in Looped
  <2>1. NoPlan.seen = 0
    BY DEF NoPlan
  <2> QED BY <2>1, Blank
<1>7. plan'.seen = 0 /\ (pc' = "starts" => plan'.start = g /\ at'.left = Continued(c))
  BY <1>3, <1>6 DEF Planned, Looped
<1>8. plan'.seen <= Len(calendar')
  BY <1>1, <1>7, Numbers
<1> QED BY <1>1, <1>2, <1>5, <1>7, <1>8 DEF Surveyed

LEMMA QuerySurveyed ==
  ASSUME TypeInv, Ledger, Surveyed, NEW s \in Symbols, NextDate(s) \/ Gap(s) PROVE Surveyed'
<1>1. /\ UNCHANGED <<calendar, cmd, manifest>>
      /\ pc \in {"starts", "gap"} /\ pc' \in {"starts", "gap", "refused"}
  BY Queries
<1>2. ~Planning' /\ ~Looping' /\ ~Done' /\ manifest'.status # "SUCCESS"
  BY <1>1, NoneYet DEF Planning, Looping, Done, ChildPlaces, Ledger
<1>3. plan \in Planned /\ at \in Looped /\ Len(calendar) \in Nat
  BY Typed, Numbers DEF TypeInv
<1>4. plan'.seen <= Len(calendar')
  <2>1. \/ plan' = plan
        \/ \E day \in 1 .. LastDay + 1 :
             plan' = [plan EXCEPT !.start[s] = day, !.seen = Len(calendar)]
    BY Queries
  <2>2. plan'.seen = plan.seen \/ plan'.seen = Len(calendar)
    BY <1>3, <2>1 DEF Planned
  <2>3. plan.seen <= Len(calendar)
    BY DEF Surveyed
  <2> QED BY <1>1, <1>3, <2>2, <2>3
<1>5. ASSUME pc' \in {"starts", "gap"}, NEW x \in cmd.asked \ at'.left
      PROVE  plan'.start[x] >= 1
  <2>1. CASE UNCHANGED plan /\ at' = [at EXCEPT !.remaining = {s}]
    BY <1>1, <1>3, <1>5, <2>1 DEF Surveyed, Looped
  <2>2. ASSUME at' = [at EXCEPT !.left = @ \ {s}, !.remaining = {}],
               NEW day \in 1 .. LastDay + 1,
               plan' = [plan EXCEPT !.start[s] = day, !.seen = Len(calendar)]
        PROVE  plan'.start[x] >= 1
    <3>1. x = s \/ x \in cmd.asked \ at.left
      BY <1>3, <1>5, <2>2 DEF Looped
    <3>2. x # s => plan.start[x] >= 1
      BY <1>1, <3>1 DEF Surveyed
    <3>3. plan'.start = [plan.start EXCEPT ![s] = day]
      BY <1>3, <2>2 DEF Planned
    <3>4. x \in Symbols /\ plan.start \in [Symbols -> 0 .. LastDay + 1] /\ day \in Nat /\ day >= 1
      BY <1>3, <1>5, Numbers DEF Planned
    <3> QED BY <3>2, <3>3, <3>4
  <2> QED BY <1>5, <2>1, <2>2, Queries
<1> QED BY <1>1, <1>2, <1>4, <1>5 DEF Surveyed

LEMMA CoverageSurveyed ==
  ASSUME TypeInv, Ledger, Surveyed, PlanCoverage PROVE Surveyed'
<1>1. /\ pc = "starts" /\ pc' \in {"loop", "refused", "dates"} /\ UNCHANGED <<calendar, cmd, manifest>>
      /\ plan' = IF Starts = {} THEN plan ELSE [plan EXCEPT !.seen = Len(calendar)]
      /\ pc' = "loop" <=> Starts = {}
      /\ pc' = "dates" => Uncovered(Least(Starts), cmd.end) = {}
      /\ at.left = {}
  BY DEF PlanCoverage
<1>2. /\ plan'.seen = IF Starts = {} THEN plan.seen ELSE Len(calendar)
      /\ plan'.start = plan.start /\ plan'.pending = plan.pending /\ plan'.skipped = plan.skipped
  <2> HIDE DEF Starts
  <2> QED BY <1>1, Numbers DEF Planned
<1>3. \A s \in cmd.asked : plan.start[s] >= 1
  BY <1>1 DEF Surveyed
<1>4. Due' = Due
  BY <1>1, <1>2 DEF Due
<1>5. manifest'.status # "SUCCESS"
  BY <1>1, NoneYet DEF Ledger
<1>6. pc' = "loop" => Due = {}
  BY <1>1, <1>3, FirstStart
<1>7. ASSUME pc' = "dates", NEW i \in Due PROVE i[2] \in Known'
  <2>1. /\ Starts # {} /\ Least(Starts) \in Days
        /\ Least(Starts) <= i[2] /\ i[2] <= cmd.end /\ i[2] \in Days
    BY <1>3, FirstStart
  <2>2. Least(Starts) \in Int /\ i[2] \in Least(Starts) .. cmd.end
    <3> HIDE DEF Starts
    <3> QED BY <2>1 DEF Days
  <2>3. \E j \in DOMAIN calendar : Covers(calendar[j], i[2])
    <3> HIDE DEF Starts
    <3> QED BY <1>1, <1>7, <2>2, CoveredDays
  <2>4. plan'.seen = Len(calendar)
    <3> HIDE DEF Starts
    <3> QED BY <1>2, <2>1
  <2> QED BY <1>1, <2>1, <2>3, <2>4, Numbers DEF Known, Covers
<1>8. plan'.seen <= Len(calendar')
  <2> HIDE DEF Starts
  <2> QED BY <1>1, <1>2, Numbers DEF Surveyed
<1>9. ~Done' /\ (Looping' => pc' = "loop") /\ (Planning' => pc' \in {"loop", "dates"})
  BY <1>1 DEF Done, Looping, Planning, ChildPlaces
<1>10. Planning' => \A i \in Due' : i[2] \in Known'
  BY <1>4, <1>6, <1>7, <1>9
<1>11. Looping' \/ Done' => Due' = {}
  BY <1>4, <1>6, <1>9
<1>12. \A s \in cmd'.asked : plan'.start[s] >= 1
  BY <1>1, <1>2, <1>3
<1> QED BY <1>5, <1>8, <1>10, <1>11, <1>12 DEF Surveyed

LEMMA DatesSurveyed ==
  ASSUME TypeInv, Ledger, Surveyed, PlanDates PROVE Surveyed'
<1> DEFINE dates == TradingDates(calendar, Least(Starts), cmd.end)
           all == {i \in cmd.asked \X dates : i[2] >= plan.start[i[1]]}
           n == Len(calendar)
<1>1. /\ pc = "dates" /\ pc' = "loop" /\ UNCHANGED <<calendar, cmd, manifest>>
      /\ plan' = [plan EXCEPT !.pending = all \ Skipped(all), !.skipped = Skipped(all), !.seen = n]
  BY DEF PlanDates
<1>2. /\ plan'.seen = n /\ plan'.start = plan.start
      /\ plan'.pending \union plan'.skipped = all \union Skipped(all)
  <2> HIDE DEF all, n
  <2> QED BY <1>1, Numbers DEF Planned
<1>3. /\ \A s \in cmd.asked : plan.start[s] >= 1
      /\ \A i \in Due : i[2] \in Known
  BY <1>1 DEF Surveyed, Planning
<1>4. Due' = Due
  BY <1>1, <1>2 DEF Due
<1>5. plan.seen <= n /\ n \in Nat /\ plan.seen \in Nat
  BY Numbers DEF Surveyed
<1>6. Known \subseteq Known'
  <2>1. \A i \in 1 .. plan.seen : i \in 1 .. n
    BY <1>5
  <2> HIDE DEF n
  <2> QED BY <1>1, <1>2, <2>1 DEF Known, Covers
<1>7. ASSUME NEW i \in Due, i[2] \in NamedDays' PROVE i \in all
  <2>1. PICK k \in 1 .. n : /\ i[2] \in calendar[k].days
                            /\ \A j \in (k + 1) .. n : ~Covers(calendar[j], i[2])
    <3> HIDE DEF n
    <3> QED BY <1>1, <1>2, <1>7 DEF NamedDays, Covers
  <2>2. /\ Least(Starts) \in Days /\ Least(Starts) <= i[2] /\ i[2] <= cmd.end /\ i[2] \in Days
    BY <1>3, FirstStart
  <2>3. i[2] \in dates
    <3>1. Least(Starts) \in Int /\ cmd.end \in Int /\ i[2] \in Least(Starts) .. cmd.end
      <4> HIDE DEF Starts
      <4> QED BY <2>2, Numbers DEF Days
    <3>2. k \in DOMAIN calendar
      BY <2>1, Numbers
    <3> HIDE DEF Starts
    <3> QED BY <2>1, <3>1, <3>2, NamedIsTrading
  <2> HIDE DEF dates
  <2>4. i \in cmd.asked \X dates
    BY <2>3 DEF Due
  <2>5. plan.start[i[1]] \in Nat /\ i[2] \in Nat /\ plan.start[i[1]] <= i[2]
    BY Numbers DEF Due, Days
  <2> QED BY <2>4, <2>5
<1>8. manifest'.status # "SUCCESS"
  BY <1>1, NoneYet DEF Ledger
<1>9. plan'.seen <= Len(calendar')
  BY <1>1, <1>2, <1>5
<1> HIDE DEF all, n
<1> QED BY <1>1, <1>2, <1>3, <1>4, <1>6, <1>7, <1>8, <1>9 DEF Surveyed

LEMMA FinishSurveyed ==
  ASSUME TypeInv, Ledger, Surveyed, Finish PROVE Surveyed'
<1>1. /\ pc' = "idle" /\ UNCHANGED <<calendar, cmd, plan>>
      /\ pc = "refused" \/ pc = "loop"
      /\ manifest' = [manifest EXCEPT !.status = FinalStatus]
  BY DEF Finish
<1>2. manifest'.status = FinalStatus /\ manifest'.failed = manifest.failed
  <2> HIDE DEF FinalStatus
  <2> QED BY <1>1, Typed DEF TypeInv, Reported
<1>3. FinalStatus = "SUCCESS" => pc = "loop" /\ manifest.failed = {}
  <2>1. pc = "refused" => plan.skipped = {} /\ manifest.success = {}
    BY NoneYet DEF Ledger
  <2> QED BY <1>1, <2>1 DEF FinalStatus
<1>4. Due' = Due /\ Known' = Known /\ NamedDays' = NamedDays /\ plan'.seen <= Len(calendar')
  BY <1>1, SameDays DEF Surveyed
<1>5. ~Looping' /\ (Planning' => Done') /\ (Done' => pc = "loop" /\ Looping /\ Planning)
  BY <1>1, <1>2, <1>3 DEF Looping, Planning, Done, ChildPlaces
<1> QED BY <1>1, <1>2, <1>3, <1>4, <1>5 DEF Surveyed, Done

LEMMA SurveyedStep == ASSUME TypeInv, Kept, Asked, Ledger, Surveyed, [Next]_vars PROVE Surveyed'
<1>1. CASE \/ UNCHANGED vars
           \/ \E from, to \in Days, answer \in Answers : Capture(from, to, answer)
  <2>1. UNCHANGED <<pc, cmd, plan, manifest>>
    BY <1>1 DEF vars, op, Capture
  <2>2. /\ \A i \in 1 .. Len(calendar) : calendar'[i] = calendar[i]
        /\ Len(calendar) <= Len(calendar') /\ Len(calendar') \in Nat
    <3>1. CASE UNCHANGED vars
      BY <3>1, Numbers DEF vars
    <3>2. CASE \E from, to \in Days, answer \in Answers : Capture(from, to, answer)
      <4>1. PICK from \in Days, to \in Days, answer \in Answers : Capture(from, to, answer)
        BY <3>2
      <4> DEFINE b == [from |-> from, to |-> to, days |-> answer \intersect (from .. to)]
      <4>2. calendar' = Append(calendar, b) /\ b \in Batches
        BY <4>1, DayAssumption DEF Capture, Batches
      <4> HIDE DEF b
      <4>3. Len(calendar') = Len(calendar) + 1 /\ \A i \in 1 .. Len(calendar) : calendar'[i] = calendar[i]
        BY <4>2, Numbers, AppendProperties
      <4> QED BY <4>3, Numbers
    <3> QED BY <1>1, <3>1, <3>2
  <2>3. Due' = Due /\ Known' = Known /\ NamedDays' = NamedDays
    BY <2>1, <2>2, SameDays DEF Surveyed
  <2>4. plan'.seen <= Len(calendar')
    BY <2>1, <2>2, Numbers DEF Surveyed
  <2>5. Planning' = Planning /\ Looping' = Looping /\ Done' = Done
    BY <2>1 DEF Planning, Looping, Done
  <2>6. UNCHANGED at
    BY <1>1 DEF vars, op, Capture
  <2> QED BY <2>1, <2>6, <2>3, <2>4, <2>5 DEF Surveyed
<1>2. CASE PlanRaises \/ RecoverEnds
  <2>1. UNCHANGED <<calendar, plan, manifest>> /\ ~Looping' /\ manifest = NoManifest
    BY <1>2 DEF PlanRaises, RecoverEnds, Looping, Ledger, ChildPlaces
  <2>2. ~Planning' /\ ~Done' /\ pc' \notin {"starts", "gap"}
    BY <1>2, <2>1, NoneYet DEF Planning, Done, PlanRaises, RecoverEnds
  <2> QED BY <2>1, <2>2, NoneYet DEF Surveyed
<1>3. CASE Stop \/ \E S \in SUBSET Symbols, r \in RunIds : RecoverBegin(r, S)
  <2>1. UNCHANGED calendar /\ plan' = NoPlan /\ manifest' = NoManifest /\ ~Looping' /\ pc' \in {"idle", "collect"}
    BY <1>3 DEF Stop, RecoverBegin, NoCmd, Looping, ChildPlaces
  <2>2. plan'.seen = 0
    BY <2>1 DEF NoPlan
  <2>3. ~Planning' /\ ~Done' /\ pc' \notin {"starts", "gap"}
    BY <2>1, NoneYet DEF Planning, Done
  <2> QED BY <2>1, <2>2, <2>3, NoneYet, Numbers DEF Surveyed
<1>4. CASE \/ AttemptBegin
           \/ \E s \in Symbols, got \in {"nothing", "raw", "pair"} : Collect(s, got)
           \/ \E bad \in BOOLEAN : WriteEvidence(bad)
           \/ RecordQuality \/ RecordRun \/ NextDay \/ ChildReturned \/ ChildRaises
  <2>1. /\ UNCHANGED <<calendar, cmd, plan>> /\ pc \in {"loop"} \union ChildPlaces
        /\ pc' \in {"loop"} \union ChildPlaces
        /\ manifest'.status = manifest.status
    <3>1. CASE NextDay
      BY <3>1 DEF NextDay, ChildPlaces
    <3>2. CASE ChildReturned \/ ChildRaises
      <4>1. \E good, lost, kids : manifest' = [manifest EXCEPT !.success = good, !.failed = lost, !.children = kids]
        <5>1. PICK rest, good : Attempted(rest, good)
          BY <3>2 DEF ChildReturned, ChildRaises
        <5> DEFINE all == manifest.success \union (good \X {at.day})
                   over == rest = {} \/ LastAttempt
                   lost == IF over THEN manifest.failed \union (rest \X {at.day}) ELSE manifest.failed
                   kids == IF pc = "returned" THEN manifest.children \union {Run} ELSE manifest.children
        <5>2. manifest' = [manifest EXCEPT !.success = all, !.failed = lost, !.children = kids]
          BY <5>1 DEF Attempted
        <5> HIDE DEF all, lost, kids
        <5> QED BY <5>2
      <4>2. manifest'.status = manifest.status
        BY <4>1, Typed DEF TypeInv, Reported
      <4>3. /\ UNCHANGED <<calendar, cmd, plan>> /\ pc \in ChildPlaces /\ pc' \in {"loop", "attempt"}
        BY <3>2 DEF ChildReturned, ChildRaises, Attempted, Again, DayOver, ChildPlaces
      <4> QED BY <4>2, <4>3 DEF ChildPlaces
    <3>3. CASE \/ AttemptBegin
               \/ \E s \in Symbols, got \in {"nothing", "raw", "pair"} : Collect(s, got)
               \/ \E bad \in BOOLEAN : WriteEvidence(bad)
               \/ RecordQuality \/ RecordRun
      BY <3>3 DEF AttemptBegin, Collect, WriteEvidence, RecordQuality, RecordRun, After, ChildPlaces
    <3> QED BY <1>4, <3>1, <3>2, <3>3
  <2>2. Due' = Due /\ Known' = Known /\ NamedDays' = NamedDays /\ plan'.seen <= Len(calendar')
    BY <2>1, SameDays DEF Surveyed
  <2>3. ~Done /\ ~Done' /\ Looping' = Looping /\ Planning = Looping /\ Planning' = Looping'
        /\ pc' \notin {"starts", "gap"}
    <3>1. ~Done /\ ~Done' /\ pc' \notin {"starts", "gap"} /\ pc # "dates" /\ pc' # "dates"
      BY <2>1 DEF Done, ChildPlaces
    <3>2. Looping = (cmd.name = "backfill") /\ Looping' = (cmd.name = "backfill")
      <4>1. pc = "loop" => cmd.name = "backfill"
        BY DEF TypeInv, Control
      <4>2. pc' = "loop" => cmd'.name = "backfill"
        <5>1. TypeInv'
          BY TypeStep
        <5> QED BY <5>1 DEF TypeInv, Control
      <4> QED BY <2>1, <4>1, <4>2 DEF Looping
    <3> QED BY <3>1, <3>2 DEF Planning
  <2>4. manifest.status # "SUCCESS"
    BY <2>3 DEF Surveyed
  <2> QED BY <2>1, <2>2, <2>3, <2>4 DEF Surveyed
<1> QED BY <1>1, <1>2, <1>3, <1>4, BeginSurveyed, QuerySurveyed, CoverageSurveyed, DatesSurveyed, FinishSurveyed
        DEF Next, Step

\* A SUCCESS manifest leaves nothing open between the start of each symbol and
\* the end date.
THEOREM SuccessAlwaysComplete == Spec => []SuccessIsComplete
<1>1. Init => Surveyed
  <2> SUFFICES ASSUME Init PROVE Surveyed
    OBVIOUS
  <2>1. pc = "idle" /\ plan.seen = 0 /\ manifest.status = "none" /\ Len(calendar) = 0
    BY DEF Init, NoPlan, NoManifest
  <2>2. ~Planning /\ ~Looping /\ ~Done
    BY <2>1 DEF Planning, Looping, Done, ChildPlaces
  <2> QED BY <2>1, <2>2 DEF Surveyed
<1>2. BackfillInv /\ Surveyed /\ [Next]_vars => Surveyed'
  BY SurveyedStep DEF BackfillInv
<1>3. BackfillInv /\ Surveyed => SuccessIsComplete
  <2> SUFFICES ASSUME BackfillInv, Surveyed, manifest.status = "SUCCESS",
                      NEW s \in cmd.asked, NEW d \in plan.start[s] .. cmd.end
               PROVE  /\ \E i \in 1 .. plan.seen : Covers(calendar[i], d)
                      /\ (\E i \in 1 .. plan.seen : Named(i, d)) => <<s, d>> \in CompletedItems
    BY DEF SuccessIsComplete
  <2>0. TypeInv /\ Reports /\ Ledger
    BY DEF BackfillInv
  <2>1. Done /\ manifest.failed = {} /\ Planning
    BY DEF Surveyed, Planning
  <2>2. d \in Days /\ s \in Symbols /\ plan.start[s] <= d /\ d <= cmd.end
    <3>1. plan.start[s] >= 1 /\ s \in Symbols
      BY <2>0, <2>1, Numbers DEF Surveyed
    <3> QED BY <2>0, <3>1, Numbers DEF Days
  <2>3. <<s, d>> \in Due
    BY <2>2 DEF Due
  <2>4. d \in Known
    BY <2>1, <2>3 DEF Surveyed
  <2>5. ASSUME NEW i \in 1 .. plan.seen, Named(i, d) PROVE <<s, d>> \in CompletedItems
    <3>1. d \in NamedDays
      BY <2>2, <2>5 DEF Named, NamedDays
    <3>2. <<s, d>> \in plan.pending \union plan.skipped
      BY <2>1, <2>3, <3>1 DEF Surveyed
    <3>3. <<s, d>> \in manifest.success \union plan.skipped
      BY <2>0, <2>1, <3>2 DEF Ledger, Done
    <3>4. manifest.success \subseteq CompletedItems
      <4>1. manifest.success \subseteq Items
        BY <2>0, Typed DEF TypeInv, Reported
      <4> QED BY <2>0, <4>1 DEF Reports, CompletedItems
    <3> QED BY <2>0, <3>3, <3>4 DEF Reports
  <2> QED BY <2>4, <2>5 DEF Known
<1> QED BY <1>1, <1>2, <1>3, BackfillInvAlways, PTL DEF Spec
=============================================================================
