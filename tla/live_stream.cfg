SPECIFICATION LiveSpec
CONSTANTS
  ann = ann
  bob = bob
  Users = {ann, bob}
  Nobody = Nobody
  MaxSessions = 1
  MaxObjects = 4
  Tabs <- TwoTabs
  MaxHand = 2
  MaxRequests = 4
  Starters <- AnnStarts
  MaxCrashes = 1
INVARIANT CalmRoutersKnown
INVARIANT GoneReleased
INVARIANT GoneEnds
PROPERTY CalmFinalStays
CHECK_DEADLOCK FALSE
