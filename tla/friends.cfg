SPECIFICATION Spec
CONSTANTS
  ann = ann
  bob = bob
  Users = {ann, bob}
  Nobody = Nobody
  MaxRequests = 2
  Openers <- Each
  Roamers = {bob}
  MaxLosses = 1
  p1 = p1
  p2 = p2
  p3 = p3
  Places = {p1, p2, p3}
SYMMETRY Swaps
INVARIANT CalmOneRow
INVARIANT CalmListsFresh
CHECK_DEADLOCK FALSE
