SPECIFICATION Spec
CONSTANTS
  Scopes = {s1, s2}
  Refused = {s2}
  MaxVersion = 1
  c1 = c1
  c2 = c2
  c3 = c3
  g1 = g1
  g2 = g2
  Candidates = {c1, c2, c3}
  Group <- Grouped
  None = None
INVARIANTS TypeOK ExecutesOnlyReviewed ShownBelongs
PROPERTY SelectionAnswered
