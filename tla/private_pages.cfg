SPECIFICATION MCSpec
CONSTANTS
  MaxActs = 3
  MaxCalls = 3
  MaxFailures = 1
  MaxNews = 1
  MaxPhotos = 3
 
INVARIANT EditsKept
INVARIANT MailShown
INVARIANT ChatsShown
CHECK_DEADLOCK FALSE
