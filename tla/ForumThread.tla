---------------------------- MODULE ForumThread ----------------------------
(***************************************************************************)
(* A forum post with its comments and their votes:                         *)
(* services/forum-post.service.ts and services/forum-comment.service.ts    *)
(* over the tables forum_post, forum_comment and forum_comment_vote.       *)
(*                                                                         *)
(* No operation touches two posts, so the module follows one.  An action   *)
(* is one query with the checks the handler makes on its result; a         *)
(* transaction is one action from its first write on, because it locks the *)
(* rows it changes in one order (vote, comment, its parent, post).         *)
(*                                                                         *)
(* Repository.save(entity) is two queries: it reads the row again and then *)
(* writes the columns in which the entity differs from what it has read.   *)
(* updateComment, updatePost, pinPost and lockPost save the entity they    *)
(* loaded before they looked for the caller's rights; a vote that changes  *)
(* its type saves the vote it loaded before its transaction.               *)
(*                                                                         *)
(* The membership of the room belongs to ForumRoom: here it changes at any *)
(* time.  unreadCount is left out.                                         *)
(***************************************************************************)
EXTENDS Integers, FiniteSets, Sequences

CONSTANTS
  Users,         \* registered users
  Nobody,        \* no user
  Slots,         \* requests the server has in hand at once
  Texts,         \* the contents clients write
  Ranks,         \* the ranks users may have: 0 not a member, 1 member, 2 moderator, 3 admin
  MaxDepth,      \* deepest reply (5 in the code)
  MaxComments,   \* bound: comments in a behaviour
  MaxRequests    \* bound: requests in a behaviour

VoteTypes == {"upvote", "downvote"}

ASSUME UsersAssumption == Nobody \notin Users
ASSUME SlotsAssumption == IsFiniteSet(Slots)
ASSUME RanksAssumption == Ranks \subseteq 0..3
ASSUME BoundsAssumption == {MaxDepth, MaxComments, MaxRequests} \subseteq Nat

VARIABLES
  rank,      \* rank of each user in the room
  open,      \* the room is active
  post,      \* the row of forum_post, NoPost before it is created
  comments,  \* the rows of forum_comment, by id
  votes,     \* the rows of forum_comment_vote: [id, comment, user, type]
  pc,        \* where each slot's handler stands
  req,       \* what it was asked: [kind, user, row, arg]
  seen,      \* what it keeps of its reads: [entity, vote, cols]
  answer,    \* what the last step answered, "none" when it answered nothing
  calm,      \* history: no two requests met that the code does not keep apart
  sent       \* requests so far

vars == <<rank, open, post, comments, votes, pc, req, seen, answer, calm, sent>>
tables == <<post, comments, votes>>
room == <<rank, open>>

NoPost == [author |-> Nobody, commentCount |-> 0, isPinned |-> FALSE,
           isLocked |-> FALSE, status |-> "none", text |-> "none"]
NoVote == [id |-> 0, comment |-> 0, user |-> Nobody, type |-> "upvote"]
NoReq  == [kind |-> "none", user |-> Nobody, row |-> 0, arg |-> "none"]
Unseen == [entity |-> NoPost, vote |-> NoVote, cols |-> {}]

\* A row of a request is a comment's id, or Post.
Post == 0

Posts == [author : Users, commentCount : Int, isPinned : BOOLEAN,
          isLocked : BOOLEAN, status : {"active", "deleted"}, text : Texts]
Comments == [author : Users, parent : 0..MaxComments, depth : 0..MaxDepth,
             replyCount : Int, upvoteCount : Int, downvoteCount : Int,
             status : {"active", "deleted"}, text : Texts]
Votes == [id : Nat \ {0}, comment : 1..MaxComments, user : Users, type : VoteTypes]

Writing == {"createPost", "commentTx", "editUpdate", "deleteTx", "voteNew",
            "voteRemove", "voteInsert", "voteUpdate", "voteSame",
            "postUpdate", "deletePostTx"}
PCs == {"idle", "postMember", "postRoom", "comment", "commentMember",
        "commentParent", "edit", "editRights", "editSelect", "delete",
        "deleteRights", "vote", "voteMember", "voteExisting", "voteSelect",
        "update", "updateRights", "pin", "pinRights", "lock", "lockRights",
        "postSelect", "deletePost", "deletePostRights"} \union Writing

-----------------------------------------------------------------------------
(* The tables.                                                             *)

Exists == post.status # "none"
Active(c) == comments[c].status = "active"
Replies(row) == {c \in DOMAIN comments : comments[c].parent = row}
VotesOf(u, c) == {v \in votes : v.user = u /\ v.comment = c}

Counter(type) == IF type = "upvote" THEN "upvoteCount" ELSE "downvoteCount"

\* An id of a vote that no row has and no handler remembers.
FreshId ==
  CHOOSE n \in 1..(Cardinality(votes) + Cardinality(Slots) + 1) :
    /\ \A v \in votes : v.id # n
    /\ \A p \in Slots : seen[p].vote.id # n

\* increment and decrement of the count kept beside the replies.
Recount(row, d) ==
  IF row = Post
  THEN post' = [post EXCEPT !.commentCount = @ + d]
  ELSE post' = post

\* The columns save() writes, and the row when it has written them.
Differing(entity, row) == {f \in DOMAIN row : entity[f] # row[f]}
Saved(row, entity, cols) ==
  [f \in DOMAIN row |-> IF f \in cols THEN entity[f] ELSE row[f]]

-----------------------------------------------------------------------------
(* A handler.                                                              *)

Saves == {"edit", "update", "pin", "lock"}

\* The rows a request reads or counts on, and may write.
Touched(r) ==
  CASE r.kind = "comment" -> {Post, r.row}
    [] r.kind = "delete"  -> {r.row} \union {comments[c].parent : c \in {r.row} \intersect DOMAIN comments}
    [] OTHER -> {r.row}

\* Two requests that the code does not keep apart: one saves a whole row the
\* other touches, two votes of one user on one comment, two deletions.
Conflict(r, s) ==
  \/ {r.kind, s.kind} \intersect Saves # {} /\ Touched(r) \intersect Touched(s) # {}
  \/ r.kind = "vote" /\ s.kind = "vote" /\ r.user = s.user /\ r.row = s.row
  \/ r.kind = "delete" /\ s.kind = "delete" /\ r.row = s.row

\* A comment that is deleted already.
Repeated(r) ==
  r.kind = "delete" /\ r.row \in DOMAIN comments /\ ~Active(r.row)

\* A request arrives in slot p.
Start(p, at, r) ==
  /\ pc[p] = "idle"
  /\ sent < MaxRequests
  /\ sent' = sent + 1
  /\ pc' = [pc EXCEPT ![p] = at]
  /\ req' = [req EXCEPT ![p] = r]
  /\ answer' = "none"
  /\ calm' = (calm /\ ~Repeated(r)
                   /\ \A q \in Slots : pc[q] # "idle" => ~Conflict(r, req[q]))
  /\ UNCHANGED <<room, tables, seen>>

\* The handler of slot p returns or throws.
Answer(p, a) ==
  /\ pc' = [pc EXCEPT ![p] = "idle"]
  /\ req' = [req EXCEPT ![p] = NoReq]
  /\ seen' = [seen EXCEPT ![p] = Unseen]
  /\ answer' = a
  /\ UNCHANGED <<room, calm, sent>>

Goto(p, at) ==
  /\ pc' = [pc EXCEPT ![p] = at]
  /\ answer' = "none"
  /\ UNCHANGED <<room, tables, req, calm, sent>>

\* A query whose result lets the handler go on or makes it throw.
Check(p, from, ok, to) ==
  /\ pc[p] = from
  /\ IF ok
     THEN Goto(p, to) /\ UNCHANGED seen
     ELSE Answer(p, "refused") /\ UNCHANGED tables

\* findOne of a row the handler keeps.
Load(p, from, found, row, to) ==
  /\ pc[p] = from
  /\ IF found
     THEN Goto(p, to) /\ seen' = [seen EXCEPT ![p].entity = row]
     ELSE Answer(p, "refused") /\ UNCHANGED tables

\* checkUserIsMember and hasPermission(..., "moderator").
Member(u) == rank[u] >= 1
Moderator(u) == rank[u] >= 2

-----------------------------------------------------------------------------
(* createPost                                                              *)

PostMember(p) == Check(p, "postMember", Member(req[p].user), "postRoom")
PostRoom(p) == Check(p, "postRoom", open, "createPost")

CreatePost(p) ==
  /\ pc[p] = "createPost"
  /\ ~Exists
  /\ post' = [NoPost EXCEPT !.author = req[p].user, !.status = "active",
                            !.text = req[p].arg]
  /\ Answer(p, "done")
  /\ UNCHANGED <<comments, votes>>

-----------------------------------------------------------------------------
(* createComment                                                           *)

CommentPost(p) == Check(p, "comment", Exists /\ ~post.isLocked, "commentMember")

CommentMember(p) ==
  Check(p, "commentMember", Member(req[p].user),
        IF req[p].row = Post THEN "commentTx" ELSE "commentParent")

Depth(row) == IF row = Post THEN 0 ELSE comments[row].depth + 1

CommentParent(p) ==
  Check(p, "commentParent",
        req[p].row \in DOMAIN comments /\ Depth(req[p].row) =< MaxDepth, "commentTx")

\* increment and decrement of the count kept with the parent.
WithReplies(rows, row, d) ==
  IF row = Post THEN rows ELSE [rows EXCEPT ![row].replyCount = @ + d]

\* Mutant: a reply counts for the post as well.
CommentTxBoth(p) ==
  LET row == req[p].row
      new == [author |-> req[p].user, parent |-> row, depth |-> Depth(row),
              replyCount |-> 0, upvoteCount |-> 0, downvoteCount |-> 0,
              status |-> "active", text |-> req[p].arg]
  IN /\ pc[p] = "commentTx"
     /\ Len(comments) < MaxComments
     /\ comments' = Append(WithReplies(comments, row, 1), new)
     /\ Recount(Post, 1)
     /\ Answer(p, "done")
     /\ UNCHANGED votes

\* The comment and the count of its parent.
CommentTx(p) ==
  LET row == req[p].row
      new == [author |-> req[p].user, parent |-> row, depth |-> Depth(row),
              replyCount |-> 0, upvoteCount |-> 0, downvoteCount |-> 0,
              status |-> "active", text |-> req[p].arg]
  IN /\ pc[p] = "commentTx"
     /\ Len(comments) < MaxComments
     /\ comments' = Append(WithReplies(comments, row, 1), new)
     /\ Recount(row, 1)
     /\ Answer(p, "done")
     /\ UNCHANGED votes

-----------------------------------------------------------------------------
(* updateComment                                                           *)

Found(p) == req[p].row \in DOMAIN comments
Own(p) == comments[req[p].row].author = req[p].user

EditComment(p) ==
  Load(p, "edit", Found(p), comments[req[p].row], "editRights")

EditRights(p) ==
  Check(p, "editRights", Own(p) \/ Moderator(req[p].user), "editSelect")

EditedComment(p) == [seen[p].entity EXCEPT !.text = req[p].arg]

EditSelect(p) ==
  /\ pc[p] = "editSelect"
  /\ LET cols == Differing(EditedComment(p), comments[req[p].row])
     IN IF cols = {}
        THEN Answer(p, "done") /\ UNCHANGED tables
        ELSE Goto(p, "editUpdate") /\ seen' = [seen EXCEPT ![p].cols = cols]

EditUpdate(p) ==
  /\ pc[p] = "editUpdate"
  /\ comments' = [comments EXCEPT ![req[p].row] =
                    Saved(@, EditedComment(p), seen[p].cols)]
  /\ Answer(p, "done")
  /\ UNCHANGED <<post, votes>>

-----------------------------------------------------------------------------
(* deleteComment                                                           *)

DeleteComment(p) == Check(p, "delete", Found(p), "deleteRights")

DeleteRights(p) ==
  Check(p, "deleteRights", Own(p) \/ Moderator(req[p].user), "deleteTx")

\* Mutant: the count of the parent is left alone.
DeleteTxUncounted(p) ==
  /\ pc[p] = "deleteTx"
  /\ comments' = [comments EXCEPT ![req[p].row].status = "deleted"]
  /\ Answer(p, "done")
  /\ UNCHANGED <<post, votes>>

\* The status, whatever it was, and the count of the parent.
DeleteTx(p) ==
  LET c == req[p].row
      parent == comments[c].parent
  IN /\ pc[p] = "deleteTx"
     /\ comments' = WithReplies([comments EXCEPT ![c].status = "deleted"], parent, -1)
     /\ Recount(parent, -1)
     /\ Answer(p, "done")
     /\ UNCHANGED votes

-----------------------------------------------------------------------------
(* voteComment                                                             *)

VoteComment(p) == Check(p, "vote", Found(p), "voteMember")
VoteMember(p) == Check(p, "voteMember", Member(req[p].user), "voteExisting")

\* The last read before the transaction decides what the transaction does.
VoteExisting(p) ==
  /\ pc[p] = "voteExisting"
  /\ \/ /\ VotesOf(req[p].user, req[p].row) = {}
        /\ Goto(p, "voteNew")
        /\ UNCHANGED seen
     \/ \E v \in VotesOf(req[p].user, req[p].row) :
          /\ Goto(p, IF v.type = req[p].arg THEN "voteRemove" ELSE "voteSelect")
          /\ seen' = [seen EXCEPT ![p].vote = v]

Tally(c, type, d) == [comments EXCEPT ![c][Counter(type)] = @ + d]

\* A second row of one user for one comment violates the table's UNIQUE.
Clash(p) == VotesOf(req[p].user, req[p].row) # {}

VoteNew(p) ==
  /\ pc[p] = "voteNew"
  /\ IF Clash(p)
     THEN Answer(p, "conflict") /\ UNCHANGED tables
     ELSE /\ votes' = votes \union {[id |-> FreshId, comment |-> req[p].row,
                                     user |-> req[p].user, type |-> req[p].arg]}
          /\ comments' = Tally(req[p].row, req[p].arg, 1)
          /\ Answer(p, "done")
          /\ UNCHANGED post

\* DELETE by id: a row that is gone already is counted all the same.
VoteRemove(p) ==
  /\ pc[p] = "voteRemove"
  /\ votes' = {v \in votes : v.id # seen[p].vote.id}
  /\ comments' = Tally(req[p].row, req[p].arg, -1)
  /\ Answer(p, "done")
  /\ UNCHANGED post

\* save(existingVote): INSERT when the row is gone, UPDATE when its type
\* differs, nothing otherwise ...
VoteSelect(p) ==
  /\ pc[p] = "voteSelect"
  /\ LET now == {v \in votes : v.id = seen[p].vote.id}
     IN Goto(p, IF now = {} THEN "voteInsert"
                ELSE IF \E v \in now : v.type = req[p].arg THEN "voteSame"
                ELSE "voteUpdate")
  /\ UNCHANGED seen

\* ... and the counts: one off the type it was, one on the type it is.
VoteChange(p) ==
  LET changed == [seen[p].vote EXCEPT !.type = req[p].arg]
      was == Counter(seen[p].vote.type)
      is  == Counter(req[p].arg)
  IN /\ pc[p] \in {"voteInsert", "voteUpdate", "voteSame"}
     /\ IF pc[p] = "voteInsert" /\ Clash(p)
        THEN Answer(p, "conflict") /\ UNCHANGED tables
        ELSE /\ votes' = CASE pc[p] = "voteInsert" -> votes \union {changed}
                           [] pc[p] = "voteUpdate" ->
                                {IF v.id = changed.id THEN changed ELSE v : v \in votes}
                           [] OTHER -> votes
             /\ comments' = [comments EXCEPT ![req[p].row][was] = @ - 1,
                                             ![req[p].row][is] = @ + 1]
             /\ Answer(p, "done")
             /\ UNCHANGED post

-----------------------------------------------------------------------------
(* updatePost, pinPost, lockPost, deletePost                               *)

UpdatePost(p) == Load(p, "update", Exists, post, "updateRights")

UpdateRights(p) ==
  Check(p, "updateRights", post.author = req[p].user \/ Moderator(req[p].user), "postSelect")

PinPost(p) == Load(p, "pin", Exists, post, "pinRights")
PinRights(p) == Check(p, "pinRights", Moderator(req[p].user), "postSelect")

LockPost(p) == Load(p, "lock", Exists, post, "lockRights")
LockRights(p) == Check(p, "lockRights", Moderator(req[p].user), "postSelect")

\* Mutant: a lock toggles the pin as well.
ChangedPostBoth(p) ==
  LET e == seen[p].entity
  IN CASE req[p].kind = "update" -> [e EXCEPT !.text = req[p].arg]
       [] req[p].kind = "pin"    -> [e EXCEPT !.isPinned = ~@]
       [] req[p].kind = "lock"   -> [e EXCEPT !.isLocked = ~@, !.isPinned = ~@]

\* The entity that is saved: as it was read, but for one column.
ChangedPost(p) ==
  LET e == seen[p].entity
  IN CASE req[p].kind = "update" -> [e EXCEPT !.text = req[p].arg]
       [] req[p].kind = "pin"    -> [e EXCEPT !.isPinned = ~@]
       [] req[p].kind = "lock"   -> [e EXCEPT !.isLocked = ~@]

PostSelect(p) ==
  /\ pc[p] = "postSelect"
  /\ LET cols == Differing(ChangedPost(p), post)
     IN IF cols = {}
        THEN Answer(p, "done") /\ UNCHANGED tables
        ELSE Goto(p, "postUpdate") /\ seen' = [seen EXCEPT ![p].cols = cols]

PostUpdate(p) ==
  /\ pc[p] = "postUpdate"
  /\ post' = Saved(post, ChangedPost(p), seen[p].cols)
  /\ Answer(p, "done")
  /\ UNCHANGED <<comments, votes>>

DeletePost(p) == Check(p, "deletePost", Exists, "deletePostRights")
DeletePostRights(p) ==
  Check(p, "deletePostRights", post.author = req[p].user \/ Moderator(req[p].user),
        "deletePostTx")

DeletePostTx(p) ==
  /\ pc[p] = "deletePostTx"
  /\ post' = [post EXCEPT !.status = "deleted"]
  /\ Answer(p, "done")
  /\ UNCHANGED <<comments, votes>>

-----------------------------------------------------------------------------

\* A database error, or the server stops: what was not committed is undone.
Abort(p) ==
  /\ pc[p] # "idle"
  /\ Answer(p, "error")
  /\ UNCHANGED tables

\* Joins, leaves, changes of role and the deletion of the room.
RoomChanges ==
  /\ \/ \E u \in Users, n \in Ranks :
          /\ n # rank[u]
          /\ rank' = [rank EXCEPT ![u] = n]
          /\ calm' = (calm /\ \A p \in Slots : req[p].user # u)
          /\ UNCHANGED open
     \/ open /\ open' = FALSE /\ UNCHANGED <<rank, calm>>
  /\ answer' = "none"
  /\ UNCHANGED <<tables, pc, req, seen, sent>>

Ask(k, u, row, arg) == [kind |-> k, user |-> u, row |-> row, arg |-> arg]

(* The endpoints, with what they are sent.                                 *)
AskCreatePost(p, u) ==
  /\ ~Exists
  /\ \A q \in Slots : req[q].kind # "post"
  /\ \E t \in Texts : Start(p, "postMember", Ask("post", u, Post, t))

AskUpdatePost(p, u) ==
  \E t \in Texts : Start(p, "update", Ask("update", u, Post, t))

AskPinPost(p, u) == Start(p, "pin", Ask("pin", u, Post, "none"))

AskLockPost(p, u) == Start(p, "lock", Ask("lock", u, Post, "none"))

AskDeletePost(p, u) == Start(p, "deletePost", Ask("deletePost", u, Post, "none"))

AskCreateComment(p, u) ==
  \E row \in 0..MaxComments, t \in Texts :
    Start(p, "comment", Ask("comment", u, row, t))

AskUpdateComment(p, u) ==
  \E c \in 1..MaxComments, t \in Texts : Start(p, "edit", Ask("edit", u, c, t))

AskDeleteComment(p, u) ==
  \E c \in 1..MaxComments : Start(p, "delete", Ask("delete", u, c, "none"))

AskVoteComment(p, u) ==
  \E c \in 1..MaxComments, t \in VoteTypes :
    Start(p, "vote", Ask("vote", u, c, t))

Request(p) ==
  \E u \in Users :
    \/ AskCreatePost(p, u) \/ AskUpdatePost(p, u) \/ AskPinPost(p, u)
    \/ AskLockPost(p, u) \/ AskDeletePost(p, u)
    \/ AskCreateComment(p, u) \/ AskUpdateComment(p, u)
    \/ AskDeleteComment(p, u) \/ AskVoteComment(p, u)

Query(p) ==
  \/ PostMember(p) \/ PostRoom(p) \/ CreatePost(p)
  \/ CommentPost(p) \/ CommentMember(p) \/ CommentParent(p) \/ CommentTx(p)
  \/ EditComment(p) \/ EditRights(p) \/ EditSelect(p) \/ EditUpdate(p)
  \/ DeleteComment(p) \/ DeleteRights(p) \/ DeleteTx(p)
  \/ VoteComment(p) \/ VoteMember(p) \/ VoteExisting(p)
  \/ VoteNew(p) \/ VoteRemove(p) \/ VoteSelect(p) \/ VoteChange(p)
  \/ UpdatePost(p) \/ UpdateRights(p) \/ PinPost(p) \/ PinRights(p)
  \/ LockPost(p) \/ LockRights(p) \/ PostSelect(p) \/ PostUpdate(p)
  \/ DeletePost(p) \/ DeletePostRights(p) \/ DeletePostTx(p)

Init ==
  /\ rank \in [Users -> Ranks]
  /\ open = TRUE
  /\ post = NoPost
  /\ comments = <<>>
  /\ votes = {}
  /\ pc = [p \in Slots |-> "idle"]
  /\ req = [p \in Slots |-> NoReq]
  /\ seen = [p \in Slots |-> Unseen]
  /\ answer = "none"
  /\ calm = TRUE
  /\ sent = 0

Next ==
  \/ \E p \in Slots : Request(p) \/ Query(p) \/ Abort(p)
  \/ RoomChanges

Spec == Init /\ [][Next]_vars

-----------------------------------------------------------------------------
(* Properties.                                                             *)

TypeOK ==
  /\ rank \in [Users -> Ranks] /\ open \in BOOLEAN
  /\ post \in Posts \union {NoPost}
  /\ comments \in Seq(Comments)
  /\ votes \subseteq Votes
  /\ pc \in [Slots -> PCs]
  /\ answer \in {"none", "done", "refused", "conflict", "error"}
  /\ calm \in BOOLEAN /\ sent \in 0..MaxRequests
  /\ \A p \in Slots :
       /\ pc[p] \in {"editRights", "editSelect", "editUpdate"} => seen[p].entity \in Comments
       /\ pc[p] \in {"postSelect", "postUpdate"} => seen[p].entity \in Posts
       /\ pc[p] \in {"voteRemove", "voteSelect", "voteInsert", "voteUpdate", "voteSame"} =>
            seen[p].vote \in Votes

\* While no two requests met that the code does not keep apart, a count kept
\* on a row is the number of the rows it counts: the votes of a comment, the
\* replies to it and the comments on the post that are not deleted
\* (voteComment, updateComment, createComment, deleteComment).
CalmCountsExact ==
  calm =>
    /\ post.commentCount = Cardinality({c \in Replies(Post) : Active(c)})
    /\ \A c \in DOMAIN comments :
         /\ comments[c].replyCount = Cardinality({d \in Replies(c) : Active(d)})
         /\ \A t \in VoteTypes :
              comments[c][Counter(t)] = Cardinality({v \in votes : v.comment = c /\ v.type = t})

\* Whatever meets, no count exceeds what was ever there to count: a stale
\* save writes back a value that was right once, a repeated deletion counts
\* down.
CountsWithinComments ==
  /\ post.commentCount =< Cardinality(Replies(Post))
  /\ \A c \in DOMAIN comments : comments[c].replyCount =< Cardinality(Replies(c))

\* Who may do what, as the endpoints document it.
Entitled(r) ==
  CASE r.kind \in {"post", "vote"} -> Member(r.user)
    [] r.kind = "comment" -> Member(r.user) /\ ~post.isLocked
    [] r.kind \in {"edit", "delete"} ->
         comments[r.row].author = r.user \/ Moderator(r.user)
    [] r.kind \in {"update", "deletePost"} -> post.author = r.user \/ Moderator(r.user)
    [] r.kind \in {"pin", "lock"} -> Moderator(r.user)

\* The column a request on the post is about.
Column(kind) == [update |-> "text", pin |-> "isPinned", lock |-> "isLocked"][kind]

\* While calm, what is written is written by someone entitled to it at that
\* moment, no comment reaches a locked post, and an edit writes the text, a pin
\* the pin and a lock the lock: no count, no other edit and no deletion is
\* undone by a save.
CalmWritesAsMeant ==
  [][calm' => \A p \in Slots :
       /\ pc[p] \in Writing /\ pc'[p] = "idle" /\ answer' = "done" => Entitled(req[p])
       /\ PostUpdate(p) => \A f \in DOMAIN post \ {Column(req[p].kind)} : post'[f] = post[f]
       /\ EditUpdate(p) =>
            LET c == req[p].row
            IN \A f \in DOMAIN comments[c] \ {"text"} : comments'[c][f] = comments[c][f]]_vars
=============================================================================
