-------------------------- MODULE CalendarCoverage --------------------------
(***************************************************************************)
(* What the local trading calendar says (market_vault/storage/catalog.py   *)
(* and backfill.py).  A calendar is the sequence of the batches captured   *)
(* for one scope, oldest first; a batch is the range of natural days that  *)
(* was requested and the trading days the exchange named, at least one.    *)
(*                                                                         *)
(* Days are integers, ranges are inclusive at both ends.                   *)
(***************************************************************************)
EXTENDS Integers, SequencesExt

Covers(r, d) == r.from <= d /\ d <= r.to

-----------------------------------------------------------------------------
(***************************************************************************)
(* trading_calendar_latest and the queries on it                           *)
(***************************************************************************)
\* Rows <<batch, day>> of the view: of all the batches that requested a day,
\* only the newest counts, and it shows the day only if it named it.
LatestRows(cal) ==
  {row \in (DOMAIN cal) \X UNION {cal[i].days : i \in DOMAIN cal} :
     /\ row[2] \in cal[row[1]].days
     /\ \A j \in DOMAIN cal : j > row[1] => ~Covers(cal[j], row[2])}

TradingDates(cal, from, to) ==
  {row[2] : row \in {r \in LatestRows(cal) : from <= r[2] /\ r[2] <= to}}

\* A range is known through the rows of its batch, and only through them.
RequestedRanges(cal, from, to) ==
  {[from |-> cal[i].from, to |-> cal[i].to] :
     i \in {row[1] : row \in {r \in LatestRows(cal) :
                                cal[r[1]].to >= from /\ cal[r[1]].from <= to}}}

\* The dates among which next_trading_date takes the least.
DatesAfter(cal, after, end) == TradingDates(cal, after + 1, end)

-----------------------------------------------------------------------------
(***************************************************************************)
(* merge_date_ranges, missing_coverage_ranges                              *)
(***************************************************************************)
Earlier(a, b) == a.from < b.from \/ (a.from = b.from /\ a.to < b.to)
Larger(a, b)  == IF a >= b THEN a ELSE b
Smaller(a, b) == IF a <= b THEN a ELSE b

\* Ranges that overlap or touch become one.
Joined(merged, r) ==
  LET last == merged[Len(merged)]
  IN  IF r.from <= last.to + 1
      THEN [merged EXCEPT ![Len(merged)].to = Larger(last.to, r.to)]
      ELSE Append(merged, r)

\* sorted(ranges): a set of pairs has one order by start and then by end.
Ordered(ranges) ==
  CHOOSE s \in [1 .. Cardinality(ranges) -> ranges] :
    \A i, j \in DOMAIN s : i < j => Earlier(s[i], s[j])

MergedRanges(ranges) ==
  LET ordered == Ordered(ranges)
  IN  IF ranges = {} THEN <<>>
      ELSE FoldLeft(Joined, <<ordered[1]>>, Tail(ordered))

\* Faulty variant: the day after the range counts as covered.
PastNextDay(r) == r.to + 2
\* The first day not known to be covered once range r has been passed.
PastRange(r) == r.to + 1

\* One range of the walk over the merged ranges, inside [from, to]: at is the
\* first day not yet known to be covered.
Passed(from, to, walk, r) ==
  LET first == Larger(r.from, from)
  IN  IF r.to < from \/ r.from > to THEN walk
      ELSE [at   |-> Larger(walk.at, Smaller(PastRange(r), to + 1)),
            gaps |-> IF first > walk.at
                     THEN walk.gaps \union {[from |-> walk.at, to |-> first - 1]}
                     ELSE walk.gaps]

Walked(from, to, start, merged) ==
  FoldLeft(LAMBDA walk, r : Passed(from, to, walk, r), start, merged)

MissingRanges(from, to, ranges) ==
  LET done == Walked(from, to, [at |-> from, gaps |-> {}], MergedRanges(ranges))
  IN  done.gaps \union (IF done.at <= to THEN {[from |-> done.at, to |-> to]} ELSE {})
=============================================================================
