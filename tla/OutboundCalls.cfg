SPECIFICATION Spec
CONSTANTS
  w1 = w1  w2 = w2
  Workers = {w1, w2}
  Initial = 4
  Ceiling = 5
  Refill <- Rates
  MaxWindow = 2
  Faults = {"down", "refuse", "timeout", "term"}
SYMMETRY Symmetry
INVARIANTS RequestsPaced OutlastsBlips
PROPERTIES ImplementsRow
