SPECIFICATION PagesSpec
CONSTANTS
  MaxActs = 3
  MaxCalls = 3
  MaxFailures = 1
  MaxComments = 3
  MaxPosts = 2
  CommentLimit = 2
  PostLimit = 1
  ann = ann
  bob = bob
  cat = cat
  LastSeen <- ThreePeople
  Women = {ann, bob}
  Verified = {cat}
  Named = {ann, cat}
  Limit = 1
  MaxNews = 1
  Media <- VideoAndPictures
  FirstStory = 2
INVARIANT RoomShown
INVARIANT PeopleShown
INVARIANT StoriesShown
CHECK_DEADLOCK FALSE
