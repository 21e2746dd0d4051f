SPECIFICATION Spec
CONSTANTS
  ann = ann
  bob = bob
  People = {ann, bob}
  Grok = Grok
  Nobody = Nobody
  Openers <- AnnTurns
  MaxMessages = 2
  MaxHand = 2
  MaxDrops = 1
INVARIANT CalmOneConversation
INVARIANT CalmAddressed
INVARIANT CalmViewExact
CHECK_DEADLOCK FALSE
