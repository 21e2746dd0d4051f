------------------------------- MODULE RoomPage -------------------------------
(***************************************************************************)
(* The page of a forum room, forum/room-detail.component of the front end: *)
(* the posts of the room, the comments of a post of it, the vote of the    *)
(* user on one of them, and whether the user is a member.  Nothing is      *)
(* pushed to this page (the events of gateways/forum.gateway have no       *)
(* listener): what it shows is what its calls returned, and a vote that is *)
(* shown before the server knows of it.                                    *)
(*                                                                         *)
(* forum is what the server holds; each call is served in one step here,   *)
(* ForumRoom and ForumThread have the steps inside.  The page asks for the *)
(* newest posts and for the oldest comments, those on the post before the  *)
(* replies.  Left out: the pictures of the authors, titles and texts,      *)
(* pinned posts, and the replies to replies, which come after all others   *)
(* and this page neither makes nor shows.                                  *)
(***************************************************************************)
EXTENDS Browser

CONSTANTS
  MaxComments,  \* bound: comments of the post, one of them there at first
  MaxPosts,     \* bound: posts of the room, one of them there at first
  CommentLimit, \* the comments the page asks for: 100
  PostLimit     \* the posts it asks for: 50

ASSUME RoomPageAssumption ==
  /\ MaxComments \in Nat \ {0} /\ MaxPosts \in Nat
  /\ CommentLimit \in Nat \ {0} /\ PostLimit \in Nat \ {0}

VARIABLES
  forum,      \* the server: entry, posts, comments, mine, vote, member
  thread,     \* the fields of RoomDetailComponent
  roomCalls,  \* the calls the page has under way
  roomMet     \* history: what of the page an accident has touched

roomVars == <<forum, thread, roomCalls, roomMet>>

Votes == {"upvote", "downvote"}

\* What a room is to somebody who is not a member: one to see and to join, one of
\* his own, private, to see only, or neither.
Entries == {"open", "own", "closed"}

\* A comment: how deep it is, and its number.
First == <<0, 1>>

\* No component; open: the post is in expandedPosts; busy: loading;
\* reloading: the post is in loadingComments.
NoThread ==
  [room |-> FALSE, posts |-> {}, busy |-> FALSE, open |-> FALSE, comments |-> {},
   reloading |-> FALSE, vote |-> "none", member |-> FALSE, dialog |-> FALSE]

RoomInit ==
  /\ forum \in [entry : Entries, posts : {1}, comments : {{First}}, mine : {{}},
                vote : {"none"}, member : BOOLEAN]
  /\ forum.member => forum.entry = "closed"
  /\ thread = NoThread
  /\ roomCalls = <<>>
  /\ roomMet = {}

-----------------------------------------------------------------------------
\* What an answer says.
RoomTells ==
  {<<"posts", "posts">>, <<"comments", "comments">>, <<"comments", "vote">>, <<"vote", "vote">>,
   <<"members", "member">>, <<"join", "member">>}

\* What of the page is out of date when it does not hear of a call.
RoomMisses(kind) ==
  CASE kind \in {"comment", "reply"} -> {"comments", "posts"}
    [] kind = "post" -> {"posts"}
    [] OTHER -> About(RoomTells, kind)

RoomWrites == {"comment", "reply", "vote", "post", "join"}

LoadPosts == <<Call("posts", "")>>

LoadRoom == <<Call("room", "")>>

CheckMembership == <<Call("members", "")>>

\* loadCommentsForPost does nothing while it is loading.
LoadComments == IF thread.reloading THEN <<>> ELSE <<Call("comments", "")>>

\* ngOnInit and ngOnDestroy.
EnterRoom ==
  /\ thread' = [NoThread EXCEPT !.busy = TRUE]
  /\ roomCalls' = roomCalls \o LoadRoom \o LoadPosts
  /\ roomMet' = {}
  /\ UNCHANGED forum

LeaveRoom ==
  /\ thread' = NoThread
  /\ roomCalls' = Unheard(roomCalls, RoomWrites)
  /\ UNCHANGED <<forum, roomMet>>

-----------------------------------------------------------------------------
(***************************************************************************)
(* Clicks.  The page is blank until its room is there, its posts are       *)
(* hidden while they are loading, and its comments while they are.         *)
(***************************************************************************)
Clickable == Shows("room") /\ thread.room

Asks(calls) ==
  /\ Len(roomCalls) + Len(calls) <= MaxCalls
  /\ roomCalls' = Sent(roomCalls, calls)

\* The post is on the page.
Commentable == Clickable /\ ~thread.busy /\ 1 \in thread.posts

ToggleComments ==
  /\ Commentable
  /\ Click
  /\ IF thread.open
     THEN /\ thread' = [thread EXCEPT !.open = FALSE]
          /\ UNCHANGED roomCalls
     ELSE /\ thread' = [thread EXCEPT !.open = TRUE, !.reloading = TRUE]
          /\ Asks(LoadComments)
  /\ UNCHANGED <<forum, roomMet>>

SubmitComment ==
  /\ Commentable /\ thread.open
  /\ Click
  /\ Asks(<<Call("comment", "")>>)
  /\ UNCHANGED <<forum, thread, roomMet>>

SubmitReply ==
  /\ Commentable /\ thread.open
  /\ ~thread.reloading /\ First \in thread.comments
  /\ Click
  /\ Asks(<<Call("reply", "")>>)
  /\ UNCHANGED <<forum, thread, roomMet>>

\* The vote is shown at once: a second click takes it back.
Upvoted(vote) == IF vote = "upvote" THEN "none" ELSE "upvote"

Downvoted(vote) == IF vote = "downvote" THEN "none" ELSE "downvote"

UpvoteComment ==
  /\ Commentable /\ thread.open /\ ~thread.reloading /\ First \in thread.comments
  /\ Click
  /\ thread' = [thread EXCEPT !.vote = Upvoted(@)]
  /\ Asks(<<Call("vote", "upvote")>>)
  /\ UNCHANGED <<forum, roomMet>>

DownvoteComment ==
  /\ Commentable /\ thread.open /\ ~thread.reloading /\ First \in thread.comments
  /\ Click
  /\ thread' = [thread EXCEPT !.vote = Downvoted(@)]
  /\ Asks(<<Call("vote", "downvote")>>)
  /\ UNCHANGED <<forum, roomMet>>

JoinRoom ==
  /\ Clickable /\ ~thread.member
  /\ Click
  /\ Asks(<<Call("join", "")>>)
  /\ UNCHANGED <<forum, thread, roomMet>>

OpenCreatePostDialog ==
  /\ Clickable /\ thread.member /\ ~thread.dialog
  /\ Click
  /\ thread' = [thread EXCEPT !.dialog = TRUE]
  /\ UNCHANGED <<forum, roomCalls, roomMet>>

\* The dialog stays open until the answer, so the button may be hit twice.
CreatePost ==
  /\ Clickable /\ thread.dialog
  /\ Click
  /\ Asks(<<Call("post", "")>>)
  /\ UNCHANGED <<forum, thread, roomMet>>

-----------------------------------------------------------------------------
(***************************************************************************)
(* The server, one action an endpoint.                                     *)
(***************************************************************************)
\* A room that is not public is for its members and who made it; members alone
\* write in any and do not join again.
Permits(kind) ==
  CASE kind \in {"comment", "reply", "post", "vote"} -> forum.member
    [] kind = "join" -> ~forum.member /\ forum.entry = "open"
    [] OTHER -> forum.entry # "closed" \/ forum.member

\* Call j is served: the tables become did, and the answer is got.
Serve(j, kinds, did, got) ==
  LET c == roomCalls[j]
  IN  /\ c.at = "sent" /\ c.kind \in kinds
      /\ Permits(c.kind)
      /\ forum' = did
      /\ roomCalls' = IF c.deaf THEN RemoveAt(roomCalls, j) ELSE Served(roomCalls, j, got)
      /\ roomMet' = IF c.deaf THEN roomMet \union RoomMisses(c.kind) ELSE roomMet
      /\ Unprompted
      /\ UNCHANGED thread

GetRoomById(j) == Serve(j, {"room"}, forum, <<>>)

GetRoomMembers(j) == Serve(j, {"members"}, forum, [member |-> forum.member])

\* The newest of n posts.
NewestPosts(n) == {k \in 1..n : k > n - PostLimit}

PostsByRoom == [posts |-> NewestPosts(forum.posts)]

GetPostsByRoom(j) == Serve(j, {"posts"}, forum, PostsByRoom)

\* d comes before c: it is on the post, or on the same level and older.
Before(d, c) == d[1] < c[1] \/ (d[1] = c[1] /\ d[2] < c[2])

\* Those of the comments that come first.
Foremost(comments) == {c \in comments : Cardinality({d \in comments : Before(d, c)}) < CommentLimit}

\* The comments of the post, with the vote of the user on the first.
CommentsByPost == [comments |-> Foremost(forum.comments), vote |-> forum.vote]

GetCommentsByPost(j) == Serve(j, {"comments"}, forum, CommentsByPost)

\* A comment or a reply to one.
CreateComment(j) ==
  LET new == <<IF roomCalls[j].kind = "reply" THEN 1 ELSE 0, Cardinality(forum.comments) + 1>>
  IN  /\ Cardinality(forum.comments) < MaxComments
      /\ Serve(j, {"comment", "reply"},
               [forum EXCEPT !.comments = @ \union {new}, !.mine = @ \union {new}], <<>>)

\* voteComment: the same vote again removes it, the other one replaces it.
VotedFor(vote, asked) == IF vote = asked THEN "none" ELSE asked

VoteComment(j) ==
  LET is == VotedFor(forum.vote, roomCalls[j].arg)
  IN  Serve(j, {"vote"}, [forum EXCEPT !.vote = is], [vote |-> is])

CreatePostServed(j) ==
  /\ forum.posts < MaxPosts
  /\ Serve(j, {"post"}, [forum EXCEPT !.posts = @ + 1], <<>>)

JoinRoomServed(j) == Serve(j, {"join"}, [forum EXCEPT !.member = TRUE], <<>>)

\* Somebody else comments or replies: the page is not told.
OthersComment ==
  /\ Shows("room")
  /\ Cardinality(forum.comments) < MaxComments
  /\ \E depth \in {0, 1} :
       forum' = [forum EXCEPT !.comments = @ \union {<<depth, Cardinality(@) + 1>>}]
  /\ Unprompted
  /\ UNCHANGED <<thread, roomCalls, roomMet>>

-----------------------------------------------------------------------------
(***************************************************************************)
(* Answers.                                                                *)
(***************************************************************************)
\* Call j of this kind has been answered, and the page makes other calls; an
\* answer served before what the page has been told since is remembered.
Heard(j, kind, more) ==
  /\ roomCalls[j].kind = kind /\ roomCalls[j].at = "served"
  /\ roomCalls' = Sent(Answered(roomCalls, j, RoomTells), more)
  /\ Unprompted
  /\ UNCHANGED forum

RoomLoaded(j) ==
  /\ Heard(j, "room", CheckMembership)
  /\ thread' = [thread EXCEPT !.room = TRUE]
  /\ UNCHANGED roomMet

\* Mutant: whoever the members are, the user is taken for one.
AnyMember(j) ==
  /\ Heard(j, "members", <<>>)
  /\ thread' = [thread EXCEPT !.member = TRUE]
  /\ roomMet' = roomMet \union roomCalls[j].late

MembersLoaded(j) ==
  /\ Heard(j, "members", <<>>)
  /\ thread' = [thread EXCEPT !.member = roomCalls[j].got.member]
  /\ roomMet' = roomMet \union roomCalls[j].late

PostsLoaded(j) ==
  /\ Heard(j, "posts", <<>>)
  /\ thread' = [thread EXCEPT !.posts = roomCalls[j].got.posts, !.busy = FALSE]
  /\ roomMet' = roomMet \union roomCalls[j].late

CommentsLoaded(j) ==
  /\ Heard(j, "comments", <<>>)
  /\ thread' = [thread EXCEPT !.comments = roomCalls[j].got.comments,
                              !.vote = roomCalls[j].got.vote, !.reloading = FALSE]
  /\ roomMet' = roomMet \union roomCalls[j].late

\* The list is loaded again, unless it is being loaded: perhaps without this
\* comment.
Commented(j) ==
  /\ Heard(j, "comment", LoadComments \o LoadPosts)
  /\ thread' = [thread EXCEPT !.reloading = TRUE, !.busy = TRUE]
  /\ roomMet' = IF thread.reloading THEN roomMet \union {"comments"} ELSE roomMet

Replied(j) ==
  /\ Heard(j, "reply", LoadComments \o LoadPosts)
  /\ thread' = [thread EXCEPT !.reloading = TRUE, !.busy = TRUE]
  /\ roomMet' = IF thread.reloading THEN roomMet \union {"comments"} ELSE roomMet

Upvotes(j) ==
  /\ roomCalls[j].arg = "upvote"
  /\ Heard(j, "vote", <<>>)
  /\ thread' = [thread EXCEPT !.vote = roomCalls[j].got.vote]
  /\ roomMet' = roomMet \union roomCalls[j].late

Downvotes(j) ==
  /\ roomCalls[j].arg = "downvote"
  /\ Heard(j, "vote", <<>>)
  /\ thread' = [thread EXCEPT !.vote = roomCalls[j].got.vote]
  /\ roomMet' = roomMet \union roomCalls[j].late

Joined(j) ==
  /\ Heard(j, "join", LoadRoom)
  /\ thread' = [thread EXCEPT !.member = TRUE]
  /\ UNCHANGED roomMet

Posted(j) ==
  /\ Heard(j, "post", LoadPosts)
  /\ thread' = [thread EXCEPT !.dialog = FALSE, !.busy = TRUE]
  /\ UNCHANGED roomMet

\* The call is refused, or the connection breaks before or after it is served.
Errs(j, kind) ==
  /\ roomCalls[j].kind = kind /\ ~roomCalls[j].deaf
  /\ \/ roomCalls[j].at = "sent" /\ ~Permits(kind) /\ Unprompted
     \/ Failing
  /\ UNCHANGED forum

\* ... and the page is left with what it had.
Fails(j, kind) ==
  /\ Errs(j, kind)
  /\ roomCalls' = RemoveAt(roomCalls, j)
  /\ roomMet' = roomMet \union RoomMisses(kind)

MembersFailed(j) == Fails(j, "members") /\ thread' = [thread EXCEPT !.member = FALSE]

PostsFailed(j) == Fails(j, "posts") /\ thread' = [thread EXCEPT !.busy = FALSE]

CommentsFailed(j) == Fails(j, "comments") /\ thread' = [thread EXCEPT !.reloading = FALSE]

\* Writes nobody knows the end of.
CommentFailed(j) == Fails(j, "comment") /\ UNCHANGED thread

ReplyFailed(j) == Fails(j, "reply") /\ UNCHANGED thread

JoinFailed(j) == Fails(j, "join") /\ UNCHANGED thread

PostFailed(j) == Fails(j, "post") /\ UNCHANGED thread

\* What the vote is now is read again, unless the comments are being read.
VoteFailed(j) ==
  /\ Errs(j, "vote")
  /\ roomCalls' = Sent(RemoveAt(roomCalls, j), LoadComments)
  /\ thread' = [thread EXCEPT !.reloading = TRUE]
  /\ roomMet' = IF thread.reloading THEN roomMet \union {"vote"} ELSE roomMet

\* Both votes ask again, each in a handler of its own.
UpvoteFailed(j) == roomCalls[j].arg = "upvote" /\ VoteFailed(j)

DownvoteFailed(j) == roomCalls[j].arg = "downvote" /\ VoteFailed(j)

\* The page goes back to the forum.
RoomNotFound(j) ==
  /\ roomCalls[j].kind = "room" /\ ~roomCalls[j].deaf
  /\ \/ roomCalls[j].at = "sent" /\ ~Permits("room") /\ UnpromptedTo(At("forum", 0))
     \/ FailingTo(At("forum", 0))
  /\ LeaveRoom

RoomNext ==
  \/ ToggleComments \/ SubmitComment \/ SubmitReply
  \/ UpvoteComment \/ DownvoteComment
  \/ JoinRoom \/ OpenCreatePostDialog \/ CreatePost
  \/ OthersComment
  \/ \E j \in 1..Len(roomCalls) :
       \/ GetRoomById(j) \/ GetRoomMembers(j) \/ GetPostsByRoom(j) \/ GetCommentsByPost(j)
       \/ CreateComment(j) \/ VoteComment(j) \/ CreatePostServed(j) \/ JoinRoomServed(j)
       \/ RoomLoaded(j) \/ MembersLoaded(j) \/ PostsLoaded(j) \/ CommentsLoaded(j)
       \/ Commented(j) \/ Replied(j) \/ Upvotes(j) \/ Downvotes(j) \/ Joined(j) \/ Posted(j)
       \/ MembersFailed(j) \/ PostsFailed(j) \/ CommentsFailed(j) \/ CommentFailed(j)
       \/ ReplyFailed(j) \/ JoinFailed(j) \/ PostFailed(j)
       \/ UpvoteFailed(j) \/ DownvoteFailed(j) \/ RoomNotFound(j)

-----------------------------------------------------------------------------
RoomTypeOK ==
  /\ forum.entry \in Entries
  /\ forum.posts \in 1..MaxPosts /\ forum.comments \subseteq {0, 1} \X (1..MaxComments)
  /\ forum.mine \subseteq forum.comments
  /\ forum.vote \in Votes \union {"none"} /\ forum.member \in BOOLEAN
  /\ thread.vote \in Votes \union {"none"} /\ thread.comments \subseteq forum.comments
  /\ thread.reloading <=> \E j \in 1..Len(roomCalls) : roomCalls[j].kind = "comments"
  /\ ~Shows("room") => thread = NoThread

RoomQuiet == Shows("room") /\ thread.room /\ roomCalls = <<>>

\* A page at rest shows the user's vote, the newest posts, those of his comments
\* that are among the first and whether he is a member as the server has them,
\* except what an answer that was overtaken, a failed call, a reload skipped
\* because one was already under way, or a write made before the page was left and
\* opened again has touched; comments that were never opened are not loaded, and
\* a comment of his past the limit is never shown.
RoomShown ==
  RoomQuiet =>
    /\ "posts" \in roomMet \/ thread.posts = NewestPosts(forum.posts)
    /\ \/ "comments" \in roomMet \/ forum.mine \intersect Foremost(forum.comments) \subseteq thread.comments
       \/ ~thread.open /\ thread.comments = {}
    /\ "vote" \in roomMet \/ thread.comments = {} \/ thread.vote = forum.vote
    /\ "member" \in roomMet \/ thread.member = forum.member
=============================================================================
