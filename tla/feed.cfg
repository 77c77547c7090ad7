SPECIFICATION Spec
CONSTANTS
  Users = {r, u}
  Reader = r
  States = {s1, s2}
  PageSize = 1
  MaxDates = 3
  MaxClock = 2
  MaxMoves = 1
SYMMETRY Symmetry
INVARIANTS TypeOK MissesForDepartures ShownAsTicked
PROPERTIES NextShowsNew
