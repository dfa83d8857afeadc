SPECIFICATION MCSpec
CONSTANTS
  Tap = {t1, t2}
  Keg = {k1, k2}
  Beverage = {b1}
  MaxFills = 3
  MaxAssignments = 3
  MaxWars = 2
  MaxVotes = 1
  Source = {s1}
  Density = {d1, d2}
  Config = {c1, c2}
  Group = {g1}
  None = None
SYMMETRY Symmetry
INVARIANTS
  DeckDense
CHECK_DEADLOCK FALSE
