----------------------------- MODULE MCBackfill -----------------------------
EXTENDS Backfill, TLC

Symmetry == Permutations(Symbols)

Command(incremental, force, low, end) ==
  [asked |-> Symbols, incremental |-> incremental, force |-> force, low |-> low, end |-> end]

\* Two days, both trading days until the second becomes a holiday.  All symbols
\* are asked for over both days: plainly, forced, and from the latest completed
\* date on, with and without a bootstrap date.
TwoDays == {{1, 2}, {1}}
Usual   == {Command(FALSE, FALSE, 1, 2), Command(FALSE, TRUE, 1, 2),
            Command(TRUE, FALSE, 0, 2), Command(TRUE, FALSE, 1, 2)}

\* One day is collected, and later what follows it.
BothTrade == {{1, 2}}
Daily     == {Command(FALSE, FALSE, 1, 1), Command(TRUE, FALSE, 0, 2)}
=============================================================================
