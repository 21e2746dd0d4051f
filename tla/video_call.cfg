SPECIFICATION CallSpec
CONSTANTS
  ann = ann
  bob = bob
  Users = {ann, bob}
  Nobody = Nobody
  Dials <- AnnFirst
  Load <- Lighter
  MaxDrops = 1
INVARIANT CalmCameraReleased
INVARIANT ToldWhenQuiet
PROPERTY CalmTimesStay
CHECK_DEADLOCK FALSE
