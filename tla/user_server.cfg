\* Two requests at once, three in sequence, one fault.
SPECIFICATION Spec
CONSTANTS
  Slots = {p, q}
  MaxRequests = 3
  MaxFaults = 1
  Seeded <- OneAccount
  LowerCase <- Typed
  Texts = {"hi"}
  MaxUsers = 3
  MaxPhotos = 2
  MaxReviews = 1
  Authors = {1}
  MaxStories = 2
  Askers = {1}
  Remembered = 2
SYMMETRY Alike
INVARIANT CalmOneAccount
INVARIANT CalmLikesExact
INVARIANT CalmDiskMatches
INVARIANT CalmRemembers
PROPERTY CalmProfileSaves
CHECK_DEADLOCK FALSE
