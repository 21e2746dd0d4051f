\* Two requests at once, a post and three more in sequence.
SPECIFICATION Spec
CONSTANTS
  Users = {u1, u2}
  Nobody = Nobody
  Slots = {p, q}
  Texts = {first, second}
  Ranks = {0, 2}
  MaxDepth = 1
  MaxComments = 2
  MaxRequests = 4
SYMMETRY Alike
INVARIANTS CalmCountsExact CountsWithinComments
PROPERTIES CalmWritesAsMeant
CHECK_DEADLOCK FALSE
