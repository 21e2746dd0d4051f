-------------------------- MODULE ForumThreadProofs --------------------------
(***************************************************************************)
(* Proofs about ForumThread, for any users, ranks, texts, depths, bounds   *)
(* and number of requests in hand at once.                                 *)
(***************************************************************************)
EXTENDS ForumThread, FunctionTheorems, FiniteSetTheorems, SequenceTheorems, TLAPS

-----------------------------------------------------------------------------
(* The inductive invariants.                                               *)

\* The kinds of requests.
Kinds == {"post", "comment", "edit", "delete", "vote", "update", "pin", "lock", "deletePost"}

\* Where the handlers of each kind of request may stand.
Stands(at, kind) ==
  /\ at \in PCs \ {"idle"}
  /\ at \in {"postMember", "postRoom", "createPost"} => kind = "post"
  /\ at \in {"comment", "commentMember", "commentParent", "commentTx"} => kind = "comment"
  /\ at \in {"edit", "editRights", "editSelect", "editUpdate"} => kind = "edit"
  /\ at \in {"delete", "deleteRights", "deleteTx"} => kind = "delete"
  /\ at \in {"vote", "voteMember", "voteExisting", "voteNew", "voteRemove", "voteSelect",
             "voteInsert", "voteUpdate", "voteSame"} => kind = "vote"
  /\ at \in {"update", "updateRights"} => kind = "update"
  /\ at \in {"pin", "pinRights"} => kind = "pin"
  /\ at \in {"lock", "lockRights"} => kind = "lock"
  /\ at \in {"postSelect", "postUpdate"} => kind \in {"update", "pin", "lock"}
  /\ at \in {"deletePost", "deletePostRights", "deletePostTx"} => kind = "deletePost"

\* The requests about the post itself.
OnPost == {"post", "update", "pin", "lock", "deletePost"}

\* What a client may ask for.
Asked(r) ==
  /\ r.kind \in Kinds
  /\ r.user \in Users
  /\ r.row \in 0..MaxComments
  /\ r.kind \in OnPost => r.row = Post
  /\ r.kind \in {"edit", "delete", "vote"} => r.row # Post
  /\ r.kind \in {"post", "comment", "edit", "update"} => r.arg \in Texts
  /\ r.kind = "vote" => r.arg \in VoteTypes

\* The steps that come after the row, or the post, was found.
OnFound == {"editRights", "editSelect", "editUpdate", "deleteRights", "deleteTx", "voteMember",
            "voteExisting", "voteNew", "voteRemove", "voteSelect", "voteInsert", "voteUpdate", "voteSame"}
\* The steps that come after the post was found.
OnExisting == {"commentMember", "commentParent", "commentTx", "updateRights", "pinRights", "lockRights",
               "postSelect", "postUpdate", "deletePostRights", "deletePostTx"}

\* The steps of a handler that holds an entity, or a vote, it has read.
HoldsComment == {"editRights", "editSelect", "editUpdate"}
\* ... the post,
HoldsPost == {"updateRights", "pinRights", "lockRights", "postSelect", "postUpdate"}
\* ... or a vote.
HoldsVote == {"voteRemove", "voteSelect", "voteInsert", "voteUpdate", "voteSame"}

\* The comments with this parent.
Under(cs, row) == {c \in DOMAIN cs : cs[c].parent = row}

\* What a handler at this step knows of the rows, whatever it meets: they are
\* there, and what it holds was true of them once.
Knows(at, r, s, cs, ps) ==
  /\ Asked(r)
  /\ Stands(at, r.kind)
  /\ at \in OnFound => r.row \in DOMAIN cs
  /\ at \in OnExisting => ps.status # "none"
  /\ at = "commentTx" /\ r.row # Post => r.row \in DOMAIN cs /\ cs[r.row].depth + 1 =< MaxDepth
  /\ at \in HoldsComment =>
       /\ s.entity \in Comments
       /\ s.entity.author = cs[r.row].author
       /\ s.entity.parent = cs[r.row].parent
       /\ s.entity.depth = cs[r.row].depth
       /\ s.entity.replyCount =< Cardinality(Under(cs, r.row))
  /\ at \in HoldsPost =>
       /\ s.entity \in Posts
       /\ s.entity.author = ps.author
       /\ s.entity.commentCount =< Cardinality(Under(cs, Post))
  /\ at \in HoldsVote =>
       /\ s.vote \in Votes
       /\ s.vote.user = r.user
       /\ s.vote.comment = r.row
       /\ s.vote.type = r.arg <=> at = "voteRemove"

\* A slot with its request.
Standing(p) ==
  IF pc[p] = "idle" THEN req[p] = NoReq ELSE Knows(pc[p], req[p], seen[p], comments, post)

\* The comments as they were written: each under the post or an earlier one.
Grown(cs) ==
  /\ cs \in Seq(Comments)
  /\ \A c \in DOMAIN cs : cs[c].parent < c

\* No count exceeds what was ever there to count.
Within(cs, ps) ==
  /\ ps.commentCount =< Cardinality(Under(cs, Post))
  /\ \A c \in DOMAIN cs : cs[c].replyCount =< Cardinality(Under(cs, c))

\* A handler keeps its three fields.
Kept(s) == s = [entity |-> s.entity, vote |-> s.vote, cols |-> s.cols]

\* What holds whatever meets: the types, what each handler knows, and that no
\* count exceeds what was ever there to count.
Basis ==
  /\ rank \in [Users -> Ranks] /\ open \in BOOLEAN
  /\ post \in Posts \union {NoPost}
  /\ Grown(comments)
  /\ comments # <<>> => Exists
  /\ votes \subseteq Votes /\ IsFiniteSet(votes)
  /\ pc \in [Slots -> PCs]
  /\ DOMAIN req = Slots
  /\ DOMAIN seen = Slots /\ \A p \in Slots : Kept(seen[p])
  /\ answer \in {"none", "done", "refused", "conflict", "error"}
  /\ calm \in BOOLEAN /\ sent \in 0..MaxRequests
  /\ \A p \in Slots : Standing(p)
  /\ Within(comments, post)

-----------------------------------------------------------------------------
\* While calm.

\* Two votes have two ids, and a user one vote on a comment.
VotesApart(vs) ==
  \A v, w \in vs : v.id = w.id \/ (v.user = w.user /\ v.comment = w.comment) => v = w

\* The steps that come after the last check of the caller's rights.
Cleared == {"postRoom", "createPost", "commentParent", "commentTx", "editSelect", "editUpdate",
            "deleteTx", "voteExisting", "voteNew", "voteRemove", "voteSelect", "voteUpdate",
            "postSelect", "postUpdate", "deletePostTx"}

\* Meanwhile nothing has changed under a handler: what it holds is the row, who
\* was entitled is, and what is to be deleted is not deleted yet.
Undisturbed(at, r, s, cs, vs, ps) ==
  /\ at \in HoldsComment => s.entity = cs[r.row]
  /\ at \in HoldsPost => s.entity = ps
  /\ r.kind = "delete" /\ r.row \in DOMAIN cs => cs[r.row].status = "active"
  /\ at \notin {"voteInsert", "voteSame"}
  /\ at = "voteNew" => \A v \in vs : ~(v.user = r.user /\ v.comment = r.row)
  /\ at \in {"voteRemove", "voteSelect", "voteUpdate"} => s.vote \in vs
  /\ r.kind = "comment" /\ at # "comment" => ~ps.isLocked

\* What a request reads or counts on, and whether the code keeps two apart:
\* Touched and Conflict of ForumThread, as functions of the comments.
Reach(r, cs) ==
  CASE r.kind = "comment" -> {Post, r.row}
    [] r.kind = "delete"  -> {r.row} \union {cs[c].parent : c \in {r.row} \intersect DOMAIN cs}
    [] OTHER -> {r.row}

\* Two requests that the code does not keep apart.
Meet(r, s, cs) ==
  \/ {r.kind, s.kind} \intersect Saves # {} /\ Reach(r, cs) \intersect Reach(s, cs) # {}
  \/ r.kind = "vote" /\ s.kind = "vote" /\ r.user = s.user /\ r.row = s.row
  \/ r.kind = "delete" /\ s.kind = "delete" /\ r.row = s.row

\* No two requests in hand meet.
Separate ==
  \A p, q \in Slots :
    p # q /\ pc[p] # "idle" /\ pc[q] # "idle" => ~Meet(req[p], req[q], comments)

\* Who may do what: Entitled of ForumThread, as a function of the rows.
May(r, rk, cs, ps) ==
  /\ r.kind \in {"post", "vote", "comment"} => rk[r.user] >= 1
  /\ r.kind = "comment" => ~ps.isLocked
  /\ r.kind \in {"edit", "delete"} => cs[r.row].author = r.user \/ rk[r.user] >= 2
  /\ r.kind \in {"update", "deletePost"} => ps.author = r.user \/ rk[r.user] >= 2
  /\ r.kind \in {"pin", "lock"} => rk[r.user] >= 2

\* The comments under a row that are not deleted, the votes of a type.
Live(cs, row) == {c \in DOMAIN cs : cs[c].parent = row /\ cs[c].status = "active"}
\* The votes of a type on a comment.
Cast(vs, c, type) == {v \in vs : v.comment = c /\ v.type = type}

\* The counts of a comment are what they count.
Balanced(cs, vs, c) ==
  /\ cs[c].replyCount = Cardinality(Live(cs, c))
  /\ cs[c].upvoteCount = Cardinality(Cast(vs, c, "upvote"))
  /\ cs[c].downvoteCount = Cardinality(Cast(vs, c, "downvote"))

\* Every count of the post and its comments is what it counts.
Exact(cs, vs, ps) ==
  /\ ps.commentCount = Cardinality(Live(cs, Post))
  /\ \A c \in DOMAIN cs : Balanced(cs, vs, c)

\* What holds while calm: the counts are exact, a vote is cast once, no two
\* requests meet, and nothing has changed under a handler since its reads.
Serene ==
  /\ Exact(comments, votes, post)
  /\ VotesApart(votes)
  /\ \A v \in votes : v.comment \in DOMAIN comments
  /\ Separate
  /\ \A p \in Slots :
       /\ pc[p] # "idle" => Undisturbed(pc[p], req[p], seen[p], comments, votes, post)
       /\ pc[p] \in Cleared => May(req[p], rank, comments, post)

\* History says that no two requests met.
CalmInv == calm => Serene

\* The inductive invariant.
Inv == Basis /\ CalmInv

-----------------------------------------------------------------------------
(* Lemmas about the operators.                                             *)

\* The fields of a comment.
LEMMA CommentFields ==
  ASSUME NEW c \in Comments
  PROVE  /\ c.author \in Users /\ c.parent \in 0..MaxComments /\ c.depth \in 0..MaxDepth
         /\ c.replyCount \in Int /\ c.upvoteCount \in Int /\ c.downvoteCount \in Int
         /\ c.status \in {"active", "deleted"} /\ c.text \in Texts
         /\ DOMAIN c = {"author", "parent", "depth", "replyCount", "upvoteCount", "downvoteCount",
                        "status", "text"}
BY DEF Comments

\* Comments that have been changed and not removed.
Grows(cs, cs2) ==
  /\ DOMAIN cs \subseteq DOMAIN cs2
  /\ \A c \in DOMAIN cs : /\ cs2[c].author = cs[c].author
                          /\ cs2[c].parent = cs[c].parent
                          /\ cs2[c].depth = cs[c].depth

\* The ids of comments are 1, 2, ...
LEMMA Ids ==
  ASSUME NEW cs, Grown(cs)
  PROVE  /\ Len(cs) \in Nat /\ DOMAIN cs = 1..Len(cs) /\ cs \in [1..Len(cs) -> Comments]
         /\ \A c \in DOMAIN cs : c \in Nat /\ c # Post /\ cs[c] \in Comments
         /\ IsFiniteSet(DOMAIN cs)
<1>1. cs \in Seq(Comments)
  BY DEF Grown
<1>2. Len(cs) \in Nat /\ DOMAIN cs = 1..Len(cs) /\ cs \in [1..Len(cs) -> Comments]
  BY <1>1, LenProperties
<1>3. IsFiniteSet(1..Len(cs))
  BY <1>2, FS_Interval
<1> QED
  BY <1>2, <1>3 DEF Post

\* The comments under a row are finitely many, and they stay there.
LEMMA UnderGrows ==
  ASSUME NEW cs, Grown(cs), NEW cs2, Grown(cs2), Grows(cs, cs2), NEW row
  PROVE  /\ Cardinality(Under(cs, row)) \in Nat
         /\ Cardinality(Under(cs2, row)) \in Nat
         /\ Cardinality(Under(cs, row)) =< Cardinality(Under(cs2, row))
<1>1. IsFiniteSet(DOMAIN cs) /\ IsFiniteSet(DOMAIN cs2)
  BY Ids
<1>2. Under(cs, row) \in SUBSET DOMAIN cs /\ Under(cs2, row) \in SUBSET DOMAIN cs2
  BY DEF Under
<1>3. IsFiniteSet(Under(cs, row)) /\ IsFiniteSet(Under(cs2, row))
  BY <1>1, <1>2, FS_Subset
<1>4. Under(cs, row) \in SUBSET Under(cs2, row)
  BY DEF Under, Grows
<1> QED
  BY <1>3, <1>4, FS_Subset, FS_CardinalityType

\* The comments under a row are finitely many.
LEMMA UnderFinite ==
  ASSUME NEW cs, Grown(cs), NEW row
  PROVE  IsFiniteSet(Under(cs, row)) /\ Cardinality(Under(cs, row)) \in Nat
<1>1. IsFiniteSet(DOMAIN cs)
  BY Ids
<1>2. Under(cs, row) \in SUBSET DOMAIN cs
  BY DEF Under
<1> QED
  BY <1>1, <1>2, FS_Subset, FS_CardinalityType

\* A change to the count of replies.
Recounted(cs, row, d, w) ==
  /\ Grown(w) /\ Grows(cs, w) /\ DOMAIN w = DOMAIN cs /\ Len(w) = Len(cs)
  /\ \A c \in DOMAIN cs :
       /\ w[c].replyCount = IF c = row THEN cs[c].replyCount + d ELSE cs[c].replyCount
       /\ w[c].upvoteCount = cs[c].upvoteCount
       /\ w[c].downvoteCount = cs[c].downvoteCount
       /\ w[c].status = cs[c].status
       /\ c # row => w[c] = cs[c]

\* WithReplies changes the count of one comment, and nothing else of any.
LEMMA WithRepliesIs ==
  ASSUME NEW cs, Grown(cs), NEW row, row = Post \/ row \in DOMAIN cs, NEW d \in Int,
         NEW w, w = WithReplies(cs, row, d)
  PROVE  Recounted(cs, row, d, w)
<1>1. CASE row = Post
  <2>1. w = cs
    BY <1>1 DEF WithReplies
  <2>2. \A c \in DOMAIN cs : c # row
    BY <1>1, Ids
  <2> QED
    BY <2>1, <2>2 DEF Grows, Recounted
<1>2. CASE row # Post
  <2>1. w = [cs EXCEPT ![row].replyCount = @ + d]
    BY <1>2 DEF WithReplies
  <2>2. row \in DOMAIN cs
    BY <1>2
  <2>3. PICK x : x = [cs[row] EXCEPT !.replyCount = @ + d]
    OBVIOUS
  <2>4. cs[row] \in Comments
    BY <2>2, Ids
  <2>5. /\ x \in Comments
        /\ x.replyCount = cs[row].replyCount + d
        /\ x.author = cs[row].author /\ x.parent = cs[row].parent /\ x.depth = cs[row].depth
        /\ x.upvoteCount = cs[row].upvoteCount /\ x.downvoteCount = cs[row].downvoteCount
        /\ x.status = cs[row].status
    BY <2>3, <2>4 DEF Comments
  <2>6. w = [cs EXCEPT ![row] = x]
    BY <2>1, <2>3
  <2>7. w \in Seq(Comments) /\ Len(w) = Len(cs) /\ DOMAIN w = DOMAIN cs
    BY <2>6, <2>5, <2>2, ExceptSeq DEF Grown
  <2>8. w[row] = x /\ \A c \in DOMAIN cs : c # row => w[c] = cs[c]
    BY <2>6, <2>2
  <2>9. Grown(w) /\ Grows(cs, w)
    BY <2>7, <2>8, <2>5 DEF Grown, Grows
  <2>10. \A c \in DOMAIN cs :
                  /\ w[c].replyCount = IF c = row THEN cs[c].replyCount + d ELSE cs[c].replyCount
                  /\ w[c].upvoteCount = cs[c].upvoteCount
                  /\ w[c].downvoteCount = cs[c].downvoteCount
                  /\ w[c].status = cs[c].status
                  /\ c # row => w[c] = cs[c]
    BY <2>8, <2>5
  <2> QED
    BY <2>7, <2>9, <2>10 DEF Recounted
<1> QED
  BY <1>1, <1>2

\* A comment put in the place of another.
Put(cs, c, x) == [cs EXCEPT ![c] = x]

\* A comment put in the place of one of the same author, parent and depth
\* leaves the comments grown.
LEMMA PutIs ==
  ASSUME NEW cs, Grown(cs), NEW c \in DOMAIN cs, NEW x \in Comments, NEW cs2,
         cs2 = Put(cs, c, x),
         x.author = cs[c].author, x.parent = cs[c].parent, x.depth = cs[c].depth
  PROVE  /\ Grown(cs2) /\ Grows(cs, cs2) /\ DOMAIN cs2 = DOMAIN cs /\ Len(cs2) = Len(cs)
         /\ cs2[c] = x
         /\ \A d \in DOMAIN cs : d # c => cs2[d] = cs[d]
<1>1. cs2 \in Seq(Comments) /\ Len(cs2) = Len(cs) /\ DOMAIN cs2 = DOMAIN cs
  BY ExceptSeq DEF Grown, Put
<1>2. cs2[c] = x /\ \A d \in DOMAIN cs : d # c => cs2[d] = cs[d]
  BY DEF Put
<1>3. \A d \in DOMAIN cs2 : cs2[d].parent < d
  BY <1>1, <1>2 DEF Grown
<1>4. Grown(cs2)
  BY <1>1, <1>3 DEF Grown
<1> QED
  BY <1>1, <1>2, <1>4 DEF Grows

\* A comment added.
Added(cs, x, n, cs2) ==
  /\ Grown(cs2) /\ Grows(cs, cs2) /\ DOMAIN cs2 = DOMAIN cs \union {n}
  /\ n \notin DOMAIN cs
  /\ cs2[n] = x
  /\ \A d \in DOMAIN cs : cs2[d] = cs[d]

\* A comment under the post or an earlier comment leaves the comments grown.
LEMMA AddedIs ==
  ASSUME NEW cs, Grown(cs), NEW x \in Comments, x.parent =< Len(cs), NEW cs2, cs2 = Append(cs, x),
         NEW n, n = Len(cs) + 1
  PROVE  Added(cs, x, n, cs2)
<1>1. cs \in Seq(Comments)
  BY DEF Grown
<1>2. Len(cs) \in Nat /\ DOMAIN cs = 1..Len(cs)
  BY Ids
<1>3. /\ cs2 \in Seq(Comments) /\ Len(cs2) = Len(cs) + 1
      /\ \A d \in 1..Len(cs) : cs2[d] = cs[d]
      /\ cs2[Len(cs) + 1] = x
  BY <1>1, AppendProperties
<1>4. DOMAIN cs2 = 1..(Len(cs) + 1)
  BY <1>3, LenProperties
<1>5. \A d \in DOMAIN cs2 : cs2[d].parent < d
  <2> TAKE d \in DOMAIN cs2
  <2>1. CASE d \in DOMAIN cs
    BY <2>1, <1>2, <1>3 DEF Grown
  <2>2. CASE d = Len(cs) + 1
    <3>1. x.parent \in 0..MaxComments
      BY CommentFields
    <3>2. 0..MaxComments \subseteq Int
      OBVIOUS
    <3> QED
      BY <2>2, <1>2, <1>3, <3>1, <3>2
  <2> QED
    BY <2>1, <2>2, <1>2, <1>4
<1>6. Grown(cs2)
  BY <1>3, <1>5 DEF Grown
<1>7. Grows(cs, cs2)
  BY <1>2, <1>3, <1>4 DEF Grows
<1> QED
  BY <1>2, <1>3, <1>4, <1>6, <1>7 DEF Added

\* What a save leaves, field by field.
LEMMA SavedComment ==
  ASSUME NEW row \in Comments, NEW e \in Comments, NEW cols, NEW x, x = Saved(row, e, cols)
  PROVE  /\ x \in Comments
         /\ x.author \in {row.author, e.author}
         /\ x.parent \in {row.parent, e.parent}
         /\ x.depth \in {row.depth, e.depth}
         /\ x.replyCount \in {row.replyCount, e.replyCount}
         /\ x.upvoteCount \in {row.upvoteCount, e.upvoteCount}
         /\ x.downvoteCount \in {row.downvoteCount, e.downvoteCount}
         /\ x.status \in {row.status, e.status}
<1>1. DOMAIN row = {"author", "parent", "depth", "replyCount", "upvoteCount", "downvoteCount",
                    "status", "text"}
  BY CommentFields
<1>2. x = [f \in {"author", "parent", "depth", "replyCount", "upvoteCount", "downvoteCount",
                  "status", "text"} |-> IF f \in cols THEN e[f] ELSE row[f]]
  BY <1>1 DEF Saved
<1>3. /\ x.author \in {row.author, e.author}
      /\ x.parent \in {row.parent, e.parent}
      /\ x.depth \in {row.depth, e.depth}
      /\ x.replyCount \in {row.replyCount, e.replyCount}
      /\ x.upvoteCount \in {row.upvoteCount, e.upvoteCount}
      /\ x.downvoteCount \in {row.downvoteCount, e.downvoteCount}
      /\ x.status \in {row.status, e.status}
      /\ x.text \in {row.text, e.text}
  BY <1>2
<1>4. x = [author |-> x.author, parent |-> x.parent, depth |-> x.depth, replyCount |-> x.replyCount,
           upvoteCount |-> x.upvoteCount, downvoteCount |-> x.downvoteCount,
           status |-> x.status, text |-> x.text]
  BY <1>2
<1>5. x \in Comments
  BY <1>3, <1>4, CommentFields DEF Comments
<1> QED
  BY <1>3, <1>5

\* What a save of the post leaves, field by field.
LEMMA SavedPost ==
  ASSUME NEW row \in Posts, NEW e \in Posts, NEW cols, NEW x, x = Saved(row, e, cols)
  PROVE  /\ x \in Posts
         /\ x.author \in {row.author, e.author}
         /\ x.commentCount \in {row.commentCount, e.commentCount}
         /\ x.isPinned \in {row.isPinned, e.isPinned}
         /\ x.isLocked \in {row.isLocked, e.isLocked}
         /\ x.status \in {row.status, e.status}
         /\ x.text \in {row.text, e.text}
<1>1. DOMAIN row = {"author", "commentCount", "isPinned", "isLocked", "status", "text"}
  BY DEF Posts
<1>2. x = [f \in {"author", "commentCount", "isPinned", "isLocked", "status", "text"} |->
             IF f \in cols THEN e[f] ELSE row[f]]
  BY <1>1 DEF Saved
<1>3. /\ x.author \in {row.author, e.author}
      /\ x.commentCount \in {row.commentCount, e.commentCount}
      /\ x.isPinned \in {row.isPinned, e.isPinned}
      /\ x.isLocked \in {row.isLocked, e.isLocked}
      /\ x.status \in {row.status, e.status}
      /\ x.text \in {row.text, e.text}
  BY <1>2
<1>4. x = [author |-> x.author, commentCount |-> x.commentCount, isPinned |-> x.isPinned,
           isLocked |-> x.isLocked, status |-> x.status, text |-> x.text]
  BY <1>2
<1>5. x \in Posts
  BY <1>3, <1>4 DEF Posts
<1> QED
  BY <1>3, <1>5

\* What finitely many things have is a finite set, no larger.
LEMMA ImageFinite ==
  ASSUME NEW S, IsFiniteSet(S), NEW T, NEW f \in [S -> T]
  PROVE  IsFiniteSet(Range(f)) /\ Cardinality(Range(f)) =< Cardinality(S)
BY Fun_RangeProperties, FS_Surjection

\* There is an id that no vote has and nobody remembers.
LEMMA FreshIdIs ==
  ASSUME IsFiniteSet(votes), DOMAIN seen = Slots
  PROVE  FreshId \in Nat \ {0} /\ \A v \in votes : v.id # FreshId
<1> DEFINE n == Cardinality(votes) + Cardinality(Slots) + 1
           f == [v \in votes |-> v.id]
           g == [p \in Slots |-> seen[p].vote.id]
           P(i) == (\A v \in votes : v.id # i) /\ \A p \in Slots : seen[p].vote.id # i
<1>1. Cardinality(votes) \in Nat /\ Cardinality(Slots) \in Nat
  BY SlotsAssumption, FS_CardinalityType
<1>2. f \in [votes -> {v.id : v \in votes}] /\ g \in [Slots -> {seen[p].vote.id : p \in Slots}]
  OBVIOUS
<1>3. IsFiniteSet(Range(f)) /\ Cardinality(Range(f)) =< Cardinality(votes)
  <2> HIDE DEF f
  <2> QED
    BY <1>2, ImageFinite
<1>4. IsFiniteSet(Range(g)) /\ Cardinality(Range(g)) =< Cardinality(Slots)
  <2> HIDE DEF g
  <2> QED
    BY <1>2, ImageFinite, SlotsAssumption
<1>5. \A v \in votes : v.id \in Range(f)
  BY DEF Range
<1>6. \A p \in Slots : seen[p].vote.id \in Range(g)
  BY DEF Range
<1> HIDE DEF f, g
<1> DEFINE U == Range(f) \union Range(g)
<1>7. IsFiniteSet(U) /\ Cardinality(U) =< Cardinality(Range(f)) + Cardinality(Range(g))
  <2>1. IsFiniteSet(Range(f) \cap Range(g))
    BY <1>3, FS_Subset
  <2>2. /\ Cardinality(Range(f) \cap Range(g)) \in Nat /\ Cardinality(Range(f)) \in Nat
        /\ Cardinality(Range(g)) \in Nat
    BY <2>1, <1>3, <1>4, FS_CardinalityType
  <2>3. /\ IsFiniteSet(Range(f) \cup Range(g))
        /\ Cardinality(Range(f) \cup Range(g))
             = Cardinality(Range(f)) + Cardinality(Range(g)) - Cardinality(Range(f) \cap Range(g))
    BY <1>3, <1>4, FS_Union
  <2> QED
    BY <2>2, <2>3
<1>8. IsFiniteSet(1..n) /\ Cardinality(1..n) = n
  <2>1. n \in Nat /\ n >= 1
    BY <1>1
  <2> HIDE DEF n
  <2> QED
    BY <2>1, FS_Interval
<1>9. Cardinality(U) \in Nat /\ Cardinality(U) < n
  <2>1. Cardinality(Range(f)) \in Nat /\ Cardinality(Range(g)) \in Nat /\ Cardinality(U) \in Nat
    BY <1>3, <1>4, <1>7, FS_CardinalityType
  <2> QED
    BY <2>1, <1>1, <1>3, <1>4, <1>7
<1>10. \E i \in 1..n : i \notin U
  <2>1. SUFFICES ASSUME 1..n \subseteq U PROVE FALSE
    OBVIOUS
  <2>2. Cardinality(1..n) =< Cardinality(U)
    BY <2>1, <1>7, FS_Subset
  <2> QED
    BY <2>2, <1>8, <1>9, <1>1
<1>11. \E i \in 1..n : P(i)
  BY <1>5, <1>6, <1>10
<1>12. FreshId = CHOOSE i \in 1..n : P(i)
  BY DEF FreshId
<1> HIDE DEF n, P
<1>13. FreshId \in 1..n /\ P(FreshId)
  BY <1>11, <1>12
<1> QED
  BY <1>13, <1>1 DEF P, n

-----------------------------------------------------------------------------
(* One handler moves.                                                      *)

\* Only slot p changes.
Alone(p) ==
  /\ pc' \in [Slots -> PCs] /\ DOMAIN req' = Slots /\ DOMAIN seen' = Slots
  /\ Kept(seen'[p])
  /\ \A q \in Slots : q # p => pc'[q] = pc[q] /\ req'[q] = req[q] /\ seen'[q] = seen[q]

\* What a step may answer.
Answers == {"none", "done", "refused", "conflict", "error"}

\* The handler of p is over; or it goes on with its request.
Ends(p) ==
  /\ Alone(p) /\ pc'[p] = "idle" /\ req'[p] = NoReq
  /\ UNCHANGED <<room, calm, sent>> /\ answer' \in Answers

\* The handler of p goes on with its request.
GoesOn(p) ==
  /\ Alone(p) /\ pc'[p] # "idle" /\ req'[p] = req[p]
  /\ UNCHANGED <<room, calm, sent>> /\ answer' = "none"

\* A step that only reads: the handler is over, or knows what its next step
\* needs.
Reads(p) ==
  /\ UNCHANGED tables
  /\ \/ Ends(p)
     \/ /\ GoesOn(p)
        /\ Knows(pc'[p], req[p], seen'[p], comments, post)
        /\ calm => /\ Undisturbed(pc'[p], req[p], seen'[p], comments, votes, post)
                   /\ pc'[p] \in Cleared => May(req[p], rank, comments, post)

\* The handler of slot p at a step of its own.
LEMMA AtWork ==
  ASSUME Inv, NEW p \in Slots, pc[p] # "idle"
  PROVE  /\ Knows(pc[p], req[p], seen[p], comments, post)
         /\ Asked(req[p]) /\ Stands(pc[p], req[p].kind)
         /\ Kept(seen[p])
         /\ calm => Undisturbed(pc[p], req[p], seen[p], comments, votes, post)
         /\ calm /\ pc[p] \in Cleared => May(req[p], rank, comments, post)
<1>1. Standing(p) /\ Kept(seen[p])
  BY DEF Inv, Basis
<1>2. Knows(pc[p], req[p], seen[p], comments, post)
  BY <1>1 DEF Standing
<1>3. calm => /\ Undisturbed(pc[p], req[p], seen[p], comments, votes, post)
              /\ pc[p] \in Cleared => May(req[p], rank, comments, post)
  BY DEF Inv, CalmInv, Serene
<1>4. Asked(req[p]) /\ Stands(pc[p], req[p].kind)
  BY <1>2 DEF Knows
<1> QED
  BY <1>1, <1>2, <1>3, <1>4

\* Answer ends the handler.
LEMMA AnswerIs ==
  ASSUME Inv, NEW p \in Slots, NEW a \in Answers, Answer(p, a)
  PROVE  Ends(p) /\ answer' = a
<1>1. pc \in [Slots -> PCs] /\ DOMAIN req = Slots /\ DOMAIN seen = Slots
  BY DEF Inv, Basis
<1>2. /\ pc' = [pc EXCEPT ![p] = "idle"]
      /\ req' = [req EXCEPT ![p] = NoReq]
      /\ seen' = [seen EXCEPT ![p] = Unseen]
      /\ answer' = a
      /\ UNCHANGED <<room, calm, sent>>
  BY DEF Answer, room
<1>3. "idle" \in PCs
  BY DEF PCs
<1>4. /\ pc' \in [Slots -> PCs] /\ DOMAIN req' = Slots /\ DOMAIN seen' = Slots
      /\ pc'[p] = "idle" /\ req'[p] = NoReq /\ seen'[p] = Unseen
      /\ \A q \in Slots : q # p => pc'[q] = pc[q] /\ req'[q] = req[q] /\ seen'[q] = seen[q]
  BY <1>1, <1>2, <1>3
<1>5. Kept(Unseen)
  BY DEF Kept, Unseen
<1>6. Kept(seen'[p])
  BY <1>4, <1>5
<1> QED
  BY <1>2, <1>4, <1>6 DEF Ends, Alone

\* Goto lets the handler go on.
LEMMA GotoIs ==
  ASSUME Inv, NEW p \in Slots, NEW at \in PCs \ {"idle"}, Goto(p, at), NEW s, Kept(s),
         seen' = [seen EXCEPT ![p] = s] \/ (seen' = seen /\ s = seen[p])
  PROVE  GoesOn(p) /\ pc'[p] = at /\ seen'[p] = s /\ UNCHANGED tables
<1>1. pc \in [Slots -> PCs] /\ DOMAIN req = Slots /\ DOMAIN seen = Slots
  BY DEF Inv, Basis
<1>2. /\ pc' = [pc EXCEPT ![p] = at]
      /\ req' = req
      /\ answer' = "none"
      /\ UNCHANGED <<room, calm, sent, tables>>
  BY DEF Goto, room, tables
<1>3. /\ pc' \in [Slots -> PCs] /\ DOMAIN req' = Slots /\ DOMAIN seen' = Slots
      /\ pc'[p] = at /\ seen'[p] = s
      /\ \A q \in Slots : q # p => pc'[q] = pc[q] /\ req'[q] = req[q] /\ seen'[q] = seen[q]
  BY <1>1, <1>2
<1> QED
  BY <1>2, <1>3 DEF GoesOn, Alone

\* A check: the handler goes on as it is, or is refused.
LEMMA CheckIs ==
  ASSUME Inv, NEW p \in Slots, NEW from \in PCs \ {"idle"}, NEW to \in PCs \ {"idle"},
         NEW ok, Check(p, from, ok, to)
  PROVE  /\ pc[p] = from /\ UNCHANGED tables
         /\ \/ ~ok /\ Ends(p)
            \/ ok /\ GoesOn(p) /\ pc'[p] = to /\ seen'[p] = seen[p]
<1>1. DOMAIN seen = Slots /\ Kept(seen[p])
  BY DEF Inv, Basis
<1>2. CASE ok
  <2>1. Goto(p, to) /\ seen' = seen
    BY <1>2 DEF Check
  <2> QED
    BY <1>1, <1>2, <2>1, GotoIs DEF Check
<1>3. CASE ~ok
  BY <1>3, AnswerIs DEF Check, Answers, tables
<1> QED
  BY <1>2, <1>3

\* A load: the handler goes on with the row it has read, or is refused.
LEMMA LoadIs ==
  ASSUME Inv, NEW p \in Slots, NEW from \in PCs \ {"idle"}, NEW to \in PCs \ {"idle"},
         NEW found, NEW row, Load(p, from, found, row, to)
  PROVE  /\ pc[p] = from /\ UNCHANGED tables
         /\ \/ ~found /\ Ends(p)
            \/ found /\ GoesOn(p) /\ pc'[p] = to /\ seen'[p].entity = row
<1>1. DOMAIN seen = Slots /\ Kept(seen[p])
  BY DEF Inv, Basis
<1>2. CASE found
  <2>1. Goto(p, to) /\ seen' = [seen EXCEPT ![p].entity = row]
    BY <1>2 DEF Load
  <2>2. PICK s : s = [seen[p] EXCEPT !.entity = row]
    OBVIOUS
  <2>3. Kept(s) /\ s.entity = row
    BY <1>1, <2>2 DEF Kept
  <2>4. seen' = [seen EXCEPT ![p] = s]
    BY <2>1, <2>2
  <2> QED
    BY <1>2, <2>1, <2>3, <2>4, GotoIs DEF Load
<1>3. CASE ~found
  BY <1>3, AnswerIs DEF Load, Answers, tables
<1> QED
  BY <1>2, <1>3

\* What a handler knows stays known while the comments grow and the post stays.
LEMMA KnowsStays ==
  ASSUME NEW at, NEW r, NEW s, NEW cs, NEW ps, Knows(at, r, s, cs, ps), Grown(cs),
         NEW cs2, Grown(cs2), Grows(cs, cs2),
         NEW ps2, ps.status # "none" => ps2.status # "none" /\ ps2.author = ps.author
  PROVE  Knows(at, r, s, cs2, ps2)
<1>1. /\ Asked(r) /\ Stands(at, r.kind)
      /\ at \in OnFound => r.row \in DOMAIN cs2
      /\ at \in OnExisting => ps2.status # "none"
  BY DEF Knows, Grows
<1>2. at = "commentTx" /\ r.row # Post => r.row \in DOMAIN cs2 /\ cs2[r.row].depth + 1 =< MaxDepth
  BY DEF Knows, Grows
<1>3. \A row : /\ Cardinality(Under(cs, row)) \in Nat /\ Cardinality(Under(cs2, row)) \in Nat
               /\ Cardinality(Under(cs, row)) =< Cardinality(Under(cs2, row))
  BY UnderGrows
<1>4. ASSUME at \in HoldsComment
      PROVE  /\ s.entity \in Comments
             /\ s.entity.author = cs2[r.row].author
             /\ s.entity.parent = cs2[r.row].parent
             /\ s.entity.depth = cs2[r.row].depth
             /\ s.entity.replyCount =< Cardinality(Under(cs2, r.row))
  <2>1. r.row \in DOMAIN cs
    BY <1>4 DEF Knows, HoldsComment, OnFound
  <2>2. /\ s.entity \in Comments
        /\ s.entity.author = cs[r.row].author
        /\ s.entity.parent = cs[r.row].parent
        /\ s.entity.depth = cs[r.row].depth
        /\ s.entity.replyCount =< Cardinality(Under(cs, r.row))
    BY <1>4 DEF Knows
  <2>3. s.entity.replyCount \in Int
    BY <2>2 DEF Comments
  <2> QED
    BY <1>3, <2>1, <2>2, <2>3 DEF Grows
<1>5. ASSUME at \in HoldsPost
      PROVE  /\ s.entity \in Posts
             /\ s.entity.author = ps2.author
             /\ s.entity.commentCount =< Cardinality(Under(cs2, Post))
  <2>1. ps.status # "none"
    BY <1>5 DEF Knows, HoldsPost, OnExisting
  <2>2. /\ s.entity \in Posts
        /\ s.entity.author = ps.author
        /\ s.entity.commentCount =< Cardinality(Under(cs, Post))
    BY <1>5 DEF Knows
  <2>3. s.entity.commentCount \in Int
    BY <2>2 DEF Posts
  <2> QED
    BY <1>3, <2>1, <2>2, <2>3
<1>6. at \in HoldsVote =>
       /\ s.vote \in Votes
       /\ s.vote.user = r.user
       /\ s.vote.comment = r.row
       /\ s.vote.type = r.arg <=> at = "voteRemove"
  BY DEF Knows
<1> QED
  BY <1>1, <1>2, <1>4, <1>5, <1>6 DEF Knows

\* A step that only reads keeps the invariant.
LEMMA ReadsKeep ==
  ASSUME Inv, NEW p \in Slots, Reads(p)
  PROVE  Inv'
<1>1. Basis /\ CalmInv
  BY DEF Inv
<1>2. UNCHANGED <<rank, open, post, comments, votes, calm, sent>>
  BY DEF Reads, Ends, GoesOn, tables, room
<1>3. Alone(p) /\ answer' \in Answers
  BY DEF Reads, Ends, GoesOn, Answers
<1>4. \A q \in Slots : pc'[q] # "idle" =>
        req'[q] = req[q] /\ (q = p \/ (seen'[q] = seen[q] /\ pc'[q] = pc[q]))
  BY <1>3 DEF Reads, Ends, GoesOn, Alone
<1>5. Standing(p)'
  <2>1. CASE Ends(p)
    BY <2>1 DEF Standing, Ends
  <2>2. CASE GoesOn(p) /\ Knows(pc'[p], req[p], seen'[p], comments, post)
    BY <1>2, <2>2 DEF Standing, GoesOn
  <2> QED
    BY <2>1, <2>2 DEF Reads
<1>6. ASSUME NEW q \in Slots PROVE Standing(q)'
  <2>1. CASE q = p
    BY <1>5, <2>1
  <2>2. CASE q # p
    <3>1. pc'[q] = pc[q] /\ req'[q] = req[q] /\ seen'[q] = seen[q]
      BY <1>3, <2>2 DEF Alone
    <3>2. Standing(q)
      BY <1>1 DEF Basis
    <3> QED
      BY <1>2, <3>1, <3>2 DEF Standing
  <2> QED
    BY <2>1, <2>2
<1>7. \A q \in Slots : Kept(seen'[q])
  BY <1>1, <1>3 DEF Alone, Basis
<1>8. Basis'
  BY <1>1, <1>2, <1>3, <1>6, <1>7 DEF Basis, Alone, Answers, Exists
<1>9. ASSUME calm' PROVE Serene'
  <2>1. Serene /\ calm
    BY <1>1, <1>2, <1>9 DEF CalmInv
  <2>2. ASSUME NEW q \in Slots
        PROVE  /\ pc'[q] # "idle" => Undisturbed(pc'[q], req'[q], seen'[q], comments', votes', post')
               /\ pc'[q] \in Cleared => May(req'[q], rank', comments', post')
    <3>1. CASE q # p
      <4>1. pc'[q] = pc[q] /\ req'[q] = req[q] /\ seen'[q] = seen[q]
        BY <1>3, <3>1 DEF Alone
      <4>2. /\ pc[q] # "idle" => Undisturbed(pc[q], req[q], seen[q], comments, votes, post)
            /\ pc[q] \in Cleared => May(req[q], rank, comments, post)
        BY <2>1 DEF Serene
      <4> QED
        BY <1>2, <4>1, <4>2
    <3>2. CASE q = p /\ Ends(p)
      BY <3>2 DEF Ends, Cleared
    <3>3. CASE q = p /\ ~Ends(p)
      BY <1>2, <2>1, <3>3 DEF Reads, GoesOn
    <3> QED
      BY <3>1, <3>2, <3>3
  <2>3. Separate'
    <3>1. \A q \in Slots : pc'[q] # "idle" => req'[q] = req[q] /\ pc[q] # "idle"
      <4>1. TAKE q \in Slots
      <4>2. HAVE pc'[q] # "idle"
      <4>3. CASE q # p
        BY <1>4, <4>2, <4>3
      <4>4. CASE q = p
        <5>1. GoesOn(p) /\ Knows(pc'[p], req[p], seen'[p], comments, post)
          BY <4>2, <4>4 DEF Reads, Ends
        <5>2. req[p].kind \in Kinds
          BY <5>1 DEF Knows, Asked
        <5>3. req[p] # NoReq
          BY <5>2 DEF NoReq, Kinds
        <5>4. Standing(p)
          BY <1>1 DEF Basis
        <5> QED
          BY <4>4, <5>1, <5>3, <5>4 DEF Standing, GoesOn
      <4> QED
        BY <4>3, <4>4
    <3> QED
      BY <1>2, <2>1, <3>1 DEF Serene, Separate
  <2> QED
    BY <1>2, <2>1, <2>2, <2>3 DEF Serene
<1> QED
  BY <1>8, <1>9 DEF Inv, CalmInv

-----------------------------------------------------------------------------
(* The steps that only read.                                               *)

\* A check that passes lets the handler know what its next step needs.
LEMMA ChecksRead ==
  ASSUME Inv, NEW p \in Slots, NEW from \in PCs \ {"idle"}, NEW to \in PCs \ {"idle"},
         NEW ok, Check(p, from, ok, to),
         ok /\ pc[p] = from
           => /\ Knows(to, req[p], seen[p], comments, post)
              /\ calm => /\ Undisturbed(to, req[p], seen[p], comments, votes, post)
                         /\ to \in Cleared => May(req[p], rank, comments, post)
  PROVE  Reads(p)
<1>1. /\ pc[p] = from /\ UNCHANGED tables
      /\ \/ ~ok /\ Ends(p)
         \/ ok /\ GoesOn(p) /\ pc'[p] = to /\ seen'[p] = seen[p]
  BY CheckIs
<1> QED
  BY <1>1 DEF Reads

\* The check of the author's membership.
LEMMA PostMemberReads == ASSUME Inv, NEW p \in Slots, PostMember(p) PROVE Reads(p)
<1>1. pc[p] = "postMember" /\ "postMember" \in PCs \ {"idle"} /\ "postRoom" \in PCs \ {"idle"}
  BY DEF PostMember, Check, PCs, Writing
<1>2. /\ Knows(pc[p], req[p], seen[p], comments, post)
      /\ calm => Undisturbed(pc[p], req[p], seen[p], comments, votes, post)
      /\ calm /\ pc[p] \in Cleared => May(req[p], rank, comments, post)
  BY <1>1, AtWork
<1>3. req[p].kind = "post"
  BY <1>1, <1>2 DEF Knows, Stands
<1>4. Member(req[p].user) => Knows("postRoom", req[p], seen[p], comments, post)
  BY <1>1, <1>2, <1>3 DEF Knows, Stands, OnFound, OnExisting, HoldsComment, HoldsPost, HoldsVote,
     PCs, Writing, Member
<1>5. Member(req[p].user) /\ calm => Undisturbed("postRoom", req[p], seen[p], comments, votes, post)
  BY <1>1, <1>2, <1>3 DEF Undisturbed, HoldsComment, HoldsPost, Member
<1>6. Member(req[p].user) /\ calm /\ "postRoom" \in Cleared => May(req[p], rank, comments, post)
  BY <1>1, <1>2, <1>3 DEF May, Cleared, Member
<1> QED
  BY <1>1, <1>4, <1>5, <1>6, ChecksRead DEF PostMember

\* The check of the room.
LEMMA PostRoomReads == ASSUME Inv, NEW p \in Slots, PostRoom(p) PROVE Reads(p)
<1>1. pc[p] = "postRoom" /\ "postRoom" \in PCs \ {"idle"} /\ "createPost" \in PCs \ {"idle"}
  BY DEF PostRoom, Check, PCs, Writing
<1>2. /\ Knows(pc[p], req[p], seen[p], comments, post)
      /\ calm => Undisturbed(pc[p], req[p], seen[p], comments, votes, post)
      /\ calm /\ pc[p] \in Cleared => May(req[p], rank, comments, post)
  BY <1>1, AtWork
<1>3. req[p].kind = "post"
  BY <1>1, <1>2 DEF Knows, Stands
<1>4. open => Knows("createPost", req[p], seen[p], comments, post)
  BY <1>1, <1>2, <1>3 DEF Knows, Stands, OnFound, OnExisting, HoldsComment, HoldsPost, HoldsVote,
     PCs, Writing
<1>5. open /\ calm => Undisturbed("createPost", req[p], seen[p], comments, votes, post)
  BY <1>1, <1>2, <1>3 DEF Undisturbed, HoldsComment, HoldsPost
<1>6. open /\ calm /\ "createPost" \in Cleared => May(req[p], rank, comments, post)
  BY <1>1, <1>2, <1>3 DEF May, Cleared
<1> QED
  BY <1>1, <1>4, <1>5, <1>6, ChecksRead DEF PostRoom

\* The check of the post: it is there and not locked.
LEMMA CommentPostReads == ASSUME Inv, NEW p \in Slots, CommentPost(p) PROVE Reads(p)
<1>1. pc[p] = "comment" /\ "comment" \in PCs \ {"idle"} /\ "commentMember" \in PCs \ {"idle"}
  BY DEF CommentPost, Check, PCs, Writing
<1>2. /\ Knows(pc[p], req[p], seen[p], comments, post)
      /\ calm => Undisturbed(pc[p], req[p], seen[p], comments, votes, post)
      /\ calm /\ pc[p] \in Cleared => May(req[p], rank, comments, post)
  BY <1>1, AtWork
<1>3. req[p].kind = "comment"
  BY <1>1, <1>2 DEF Knows, Stands
<1>4. (Exists /\ ~post.isLocked) => Knows("commentMember", req[p], seen[p], comments, post)
  BY <1>1, <1>2, <1>3 DEF Knows, Stands, OnFound, OnExisting, HoldsComment, HoldsPost, HoldsVote,
     PCs, Writing, Exists
<1>5. (Exists /\ ~post.isLocked) /\ calm =>
        Undisturbed("commentMember", req[p], seen[p], comments, votes, post)
  BY <1>1, <1>2, <1>3 DEF Undisturbed, HoldsComment, HoldsPost, Exists
<1>6. (Exists /\ ~post.isLocked) /\ calm /\ "commentMember" \in Cleared =>
        May(req[p], rank, comments, post)
  BY <1>1, <1>2, <1>3 DEF May, Cleared, Exists
<1> QED
  BY <1>1, <1>4, <1>5, <1>6, ChecksRead DEF CommentPost

\* The check of the parent and its depth.
LEMMA CommentParentReads == ASSUME Inv, NEW p \in Slots, CommentParent(p) PROVE Reads(p)
<1>1. pc[p] = "commentParent" /\ "commentParent" \in PCs \ {"idle"} /\ "commentTx" \in PCs \ {"idle"}
  BY DEF CommentParent, Check, PCs, Writing
<1>2. /\ Knows(pc[p], req[p], seen[p], comments, post)
      /\ calm => Undisturbed(pc[p], req[p], seen[p], comments, votes, post)
      /\ calm /\ pc[p] \in Cleared => May(req[p], rank, comments, post)
  BY <1>1, AtWork
<1>3. req[p].kind = "comment"
  BY <1>1, <1>2 DEF Knows, Stands
<1>4. (req[p].row \in DOMAIN comments /\ Depth(req[p].row) =< MaxDepth) =>
        Knows("commentTx", req[p], seen[p], comments, post)
  BY <1>1, <1>2, <1>3 DEF Knows, Stands, OnFound, OnExisting, HoldsComment, HoldsPost, HoldsVote,
     PCs, Writing, Depth
<1>5. (req[p].row \in DOMAIN comments /\ Depth(req[p].row) =< MaxDepth) /\ calm =>
        Undisturbed("commentTx", req[p], seen[p], comments, votes, post)
  BY <1>1, <1>2, <1>3 DEF Undisturbed, HoldsComment, HoldsPost, Depth
<1>6. (req[p].row \in DOMAIN comments /\ Depth(req[p].row) =< MaxDepth) /\ calm /\ "commentTx" \in Cleared =>
        May(req[p], rank, comments, post)
  BY <1>1, <1>2, <1>3 DEF May, Cleared, Depth
<1> QED
  BY <1>1, <1>4, <1>5, <1>6, ChecksRead DEF CommentParent

\* The check of the rights to edit.
LEMMA EditRightsReads == ASSUME Inv, NEW p \in Slots, EditRights(p) PROVE Reads(p)
<1>1. pc[p] = "editRights" /\ "editRights" \in PCs \ {"idle"} /\ "editSelect" \in PCs \ {"idle"}
  BY DEF EditRights, Check, PCs, Writing
<1>2. /\ Knows(pc[p], req[p], seen[p], comments, post)
      /\ calm => Undisturbed(pc[p], req[p], seen[p], comments, votes, post)
      /\ calm /\ pc[p] \in Cleared => May(req[p], rank, comments, post)
  BY <1>1, AtWork
<1>3. req[p].kind = "edit"
  BY <1>1, <1>2 DEF Knows, Stands
<1>4. (Own(p) \/ Moderator(req[p].user)) => Knows("editSelect", req[p], seen[p], comments, post)
  BY <1>1, <1>2, <1>3 DEF Knows, Stands, OnFound, OnExisting, HoldsComment, HoldsPost, HoldsVote,
     PCs, Writing, Own, Moderator
<1>5. (Own(p) \/ Moderator(req[p].user)) /\ calm =>
        Undisturbed("editSelect", req[p], seen[p], comments, votes, post)
  BY <1>1, <1>2, <1>3 DEF Undisturbed, HoldsComment, HoldsPost, Own, Moderator
<1>6. (Own(p) \/ Moderator(req[p].user)) /\ calm /\ "editSelect" \in Cleared =>
        May(req[p], rank, comments, post)
  BY <1>1, <1>2, <1>3 DEF May, Cleared, Own, Moderator
<1> QED
  BY <1>1, <1>4, <1>5, <1>6, ChecksRead DEF EditRights

\* The check of the comment to delete.
LEMMA DeleteCommentReads == ASSUME Inv, NEW p \in Slots, DeleteComment(p) PROVE Reads(p)
<1>1. pc[p] = "delete" /\ "delete" \in PCs \ {"idle"} /\ "deleteRights" \in PCs \ {"idle"}
  BY DEF DeleteComment, Check, PCs, Writing
<1>2. /\ Knows(pc[p], req[p], seen[p], comments, post)
      /\ calm => Undisturbed(pc[p], req[p], seen[p], comments, votes, post)
      /\ calm /\ pc[p] \in Cleared => May(req[p], rank, comments, post)
  BY <1>1, AtWork
<1>3. req[p].kind = "delete"
  BY <1>1, <1>2 DEF Knows, Stands
<1>4. Found(p) => Knows("deleteRights", req[p], seen[p], comments, post)
  BY <1>1, <1>2, <1>3 DEF Knows, Stands, OnFound, OnExisting, HoldsComment, HoldsPost, HoldsVote,
     PCs, Writing, Found
<1>5. Found(p) /\ calm => Undisturbed("deleteRights", req[p], seen[p], comments, votes, post)
  BY <1>1, <1>2, <1>3 DEF Undisturbed, HoldsComment, HoldsPost, Found
<1>6. Found(p) /\ calm /\ "deleteRights" \in Cleared => May(req[p], rank, comments, post)
  BY <1>1, <1>2, <1>3 DEF May, Cleared, Found
<1> QED
  BY <1>1, <1>4, <1>5, <1>6, ChecksRead DEF DeleteComment

\* The check of the rights to delete.
LEMMA DeleteRightsReads == ASSUME Inv, NEW p \in Slots, DeleteRights(p) PROVE Reads(p)
<1>1. pc[p] = "deleteRights" /\ "deleteRights" \in PCs \ {"idle"} /\ "deleteTx" \in PCs \ {"idle"}
  BY DEF DeleteRights, Check, PCs, Writing
<1>2. /\ Knows(pc[p], req[p], seen[p], comments, post)
      /\ calm => Undisturbed(pc[p], req[p], seen[p], comments, votes, post)
      /\ calm /\ pc[p] \in Cleared => May(req[p], rank, comments, post)
  BY <1>1, AtWork
<1>3. req[p].kind = "delete"
  BY <1>1, <1>2 DEF Knows, Stands
<1>4. (Own(p) \/ Moderator(req[p].user)) => Knows("deleteTx", req[p], seen[p], comments, post)
  BY <1>1, <1>2, <1>3 DEF Knows, Stands, OnFound, OnExisting, HoldsComment, HoldsPost, HoldsVote,
     PCs, Writing, Own, Moderator
<1>5. (Own(p) \/ Moderator(req[p].user)) /\ calm =>
        Undisturbed("deleteTx", req[p], seen[p], comments, votes, post)
  BY <1>1, <1>2, <1>3 DEF Undisturbed, HoldsComment, HoldsPost, Own, Moderator
<1>6. (Own(p) \/ Moderator(req[p].user)) /\ calm /\ "deleteTx" \in Cleared =>
        May(req[p], rank, comments, post)
  BY <1>1, <1>2, <1>3 DEF May, Cleared, Own, Moderator
<1> QED
  BY <1>1, <1>4, <1>5, <1>6, ChecksRead DEF DeleteRights

\* The check of the comment to vote on.
LEMMA VoteCommentReads == ASSUME Inv, NEW p \in Slots, VoteComment(p) PROVE Reads(p)
<1>1. pc[p] = "vote" /\ "vote" \in PCs \ {"idle"} /\ "voteMember" \in PCs \ {"idle"}
  BY DEF VoteComment, Check, PCs, Writing
<1>2. /\ Knows(pc[p], req[p], seen[p], comments, post)
      /\ calm => Undisturbed(pc[p], req[p], seen[p], comments, votes, post)
      /\ calm /\ pc[p] \in Cleared => May(req[p], rank, comments, post)
  BY <1>1, AtWork
<1>3. req[p].kind = "vote"
  BY <1>1, <1>2 DEF Knows, Stands
<1>4. Found(p) => Knows("voteMember", req[p], seen[p], comments, post)
  BY <1>1, <1>2, <1>3 DEF Knows, Stands, OnFound, OnExisting, HoldsComment, HoldsPost, HoldsVote,
     PCs, Writing, Found
<1>5. Found(p) /\ calm => Undisturbed("voteMember", req[p], seen[p], comments, votes, post)
  BY <1>1, <1>2, <1>3 DEF Undisturbed, HoldsComment, HoldsPost, Found
<1>6. Found(p) /\ calm /\ "voteMember" \in Cleared => May(req[p], rank, comments, post)
  BY <1>1, <1>2, <1>3 DEF May, Cleared, Found
<1> QED
  BY <1>1, <1>4, <1>5, <1>6, ChecksRead DEF VoteComment

\* The check of the voter's membership.
LEMMA VoteMemberReads == ASSUME Inv, NEW p \in Slots, VoteMember(p) PROVE Reads(p)
<1>1. pc[p] = "voteMember" /\ "voteMember" \in PCs \ {"idle"} /\ "voteExisting" \in PCs \ {"idle"}
  BY DEF VoteMember, Check, PCs, Writing
<1>2. /\ Knows(pc[p], req[p], seen[p], comments, post)
      /\ calm => Undisturbed(pc[p], req[p], seen[p], comments, votes, post)
      /\ calm /\ pc[p] \in Cleared => May(req[p], rank, comments, post)
  BY <1>1, AtWork
<1>3. req[p].kind = "vote"
  BY <1>1, <1>2 DEF Knows, Stands
<1>4. Member(req[p].user) => Knows("voteExisting", req[p], seen[p], comments, post)
  BY <1>1, <1>2, <1>3 DEF Knows, Stands, OnFound, OnExisting, HoldsComment, HoldsPost, HoldsVote,
     PCs, Writing, Member
<1>5. Member(req[p].user) /\ calm => Undisturbed("voteExisting", req[p], seen[p], comments, votes, post)
  BY <1>1, <1>2, <1>3 DEF Undisturbed, HoldsComment, HoldsPost, Member
<1>6. Member(req[p].user) /\ calm /\ "voteExisting" \in Cleared => May(req[p], rank, comments, post)
  BY <1>1, <1>2, <1>3 DEF May, Cleared, Member
<1> QED
  BY <1>1, <1>4, <1>5, <1>6, ChecksRead DEF VoteMember

\* The check of the rights to update the post.
LEMMA UpdateRightsReads == ASSUME Inv, NEW p \in Slots, UpdateRights(p) PROVE Reads(p)
<1>1. pc[p] = "updateRights" /\ "updateRights" \in PCs \ {"idle"} /\ "postSelect" \in PCs \ {"idle"}
  BY DEF UpdateRights, Check, PCs, Writing
<1>2. /\ Knows(pc[p], req[p], seen[p], comments, post)
      /\ calm => Undisturbed(pc[p], req[p], seen[p], comments, votes, post)
      /\ calm /\ pc[p] \in Cleared => May(req[p], rank, comments, post)
  BY <1>1, AtWork
<1>3. req[p].kind = "update"
  BY <1>1, <1>2 DEF Knows, Stands
<1>4. (post.author = req[p].user \/ Moderator(req[p].user)) =>
        Knows("postSelect", req[p], seen[p], comments, post)
  BY <1>1, <1>2, <1>3 DEF Knows, Stands, OnFound, OnExisting, HoldsComment, HoldsPost, HoldsVote,
     PCs, Writing, Moderator
<1>5. (post.author = req[p].user \/ Moderator(req[p].user)) /\ calm =>
        Undisturbed("postSelect", req[p], seen[p], comments, votes, post)
  BY <1>1, <1>2, <1>3 DEF Undisturbed, HoldsComment, HoldsPost, Moderator
<1>6. (post.author = req[p].user \/ Moderator(req[p].user)) /\ calm /\ "postSelect" \in Cleared =>
        May(req[p], rank, comments, post)
  BY <1>1, <1>2, <1>3 DEF May, Cleared, Moderator
<1> QED
  BY <1>1, <1>4, <1>5, <1>6, ChecksRead DEF UpdateRights

\* The check of the rights to pin.
LEMMA PinRightsReads == ASSUME Inv, NEW p \in Slots, PinRights(p) PROVE Reads(p)
<1>1. pc[p] = "pinRights" /\ "pinRights" \in PCs \ {"idle"} /\ "postSelect" \in PCs \ {"idle"}
  BY DEF PinRights, Check, PCs, Writing
<1>2. /\ Knows(pc[p], req[p], seen[p], comments, post)
      /\ calm => Undisturbed(pc[p], req[p], seen[p], comments, votes, post)
      /\ calm /\ pc[p] \in Cleared => May(req[p], rank, comments, post)
  BY <1>1, AtWork
<1>3. req[p].kind = "pin"
  BY <1>1, <1>2 DEF Knows, Stands
<1>4. Moderator(req[p].user) => Knows("postSelect", req[p], seen[p], comments, post)
  BY <1>1, <1>2, <1>3 DEF Knows, Stands, OnFound, OnExisting, HoldsComment, HoldsPost, HoldsVote,
     PCs, Writing, Moderator
<1>5. Moderator(req[p].user) /\ calm => Undisturbed("postSelect", req[p], seen[p], comments, votes, post)
  BY <1>1, <1>2, <1>3 DEF Undisturbed, HoldsComment, HoldsPost, Moderator
<1>6. Moderator(req[p].user) /\ calm /\ "postSelect" \in Cleared => May(req[p], rank, comments, post)
  BY <1>1, <1>2, <1>3 DEF May, Cleared, Moderator
<1> QED
  BY <1>1, <1>4, <1>5, <1>6, ChecksRead DEF PinRights

\* The check of the rights to lock.
LEMMA LockRightsReads == ASSUME Inv, NEW p \in Slots, LockRights(p) PROVE Reads(p)
<1>1. pc[p] = "lockRights" /\ "lockRights" \in PCs \ {"idle"} /\ "postSelect" \in PCs \ {"idle"}
  BY DEF LockRights, Check, PCs, Writing
<1>2. /\ Knows(pc[p], req[p], seen[p], comments, post)
      /\ calm => Undisturbed(pc[p], req[p], seen[p], comments, votes, post)
      /\ calm /\ pc[p] \in Cleared => May(req[p], rank, comments, post)
  BY <1>1, AtWork
<1>3. req[p].kind = "lock"
  BY <1>1, <1>2 DEF Knows, Stands
<1>4. Moderator(req[p].user) => Knows("postSelect", req[p], seen[p], comments, post)
  BY <1>1, <1>2, <1>3 DEF Knows, Stands, OnFound, OnExisting, HoldsComment, HoldsPost, HoldsVote,
     PCs, Writing, Moderator
<1>5. Moderator(req[p].user) /\ calm => Undisturbed("postSelect", req[p], seen[p], comments, votes, post)
  BY <1>1, <1>2, <1>3 DEF Undisturbed, HoldsComment, HoldsPost, Moderator
<1>6. Moderator(req[p].user) /\ calm /\ "postSelect" \in Cleared => May(req[p], rank, comments, post)
  BY <1>1, <1>2, <1>3 DEF May, Cleared, Moderator
<1> QED
  BY <1>1, <1>4, <1>5, <1>6, ChecksRead DEF LockRights

\* The check of the post to delete.
LEMMA DeletePostReads == ASSUME Inv, NEW p \in Slots, DeletePost(p) PROVE Reads(p)
<1>1. pc[p] = "deletePost" /\ "deletePost" \in PCs \ {"idle"} /\ "deletePostRights" \in PCs \ {"idle"}
  BY DEF DeletePost, Check, PCs, Writing
<1>2. /\ Knows(pc[p], req[p], seen[p], comments, post)
      /\ calm => Undisturbed(pc[p], req[p], seen[p], comments, votes, post)
      /\ calm /\ pc[p] \in Cleared => May(req[p], rank, comments, post)
  BY <1>1, AtWork
<1>3. req[p].kind = "deletePost"
  BY <1>1, <1>2 DEF Knows, Stands
<1>4. Exists => Knows("deletePostRights", req[p], seen[p], comments, post)
  BY <1>1, <1>2, <1>3 DEF Knows, Stands, OnFound, OnExisting, HoldsComment, HoldsPost, HoldsVote,
     PCs, Writing, Exists
<1>5. Exists /\ calm => Undisturbed("deletePostRights", req[p], seen[p], comments, votes, post)
  BY <1>1, <1>2, <1>3 DEF Undisturbed, HoldsComment, HoldsPost, Exists
<1>6. Exists /\ calm /\ "deletePostRights" \in Cleared => May(req[p], rank, comments, post)
  BY <1>1, <1>2, <1>3 DEF May, Cleared, Exists
<1> QED
  BY <1>1, <1>4, <1>5, <1>6, ChecksRead DEF DeletePost

\* The check of the rights to delete the post.
LEMMA DeletePostRightsReads == ASSUME Inv, NEW p \in Slots, DeletePostRights(p) PROVE Reads(p)
<1>1. pc[p] = "deletePostRights" /\ "deletePostRights" \in PCs \ {"idle"} /\ "deletePostTx" \in PCs \ {"idle"}
  BY DEF DeletePostRights, Check, PCs, Writing
<1>2. /\ Knows(pc[p], req[p], seen[p], comments, post)
      /\ calm => Undisturbed(pc[p], req[p], seen[p], comments, votes, post)
      /\ calm /\ pc[p] \in Cleared => May(req[p], rank, comments, post)
  BY <1>1, AtWork
<1>3. req[p].kind = "deletePost"
  BY <1>1, <1>2 DEF Knows, Stands
<1>4. (post.author = req[p].user \/ Moderator(req[p].user)) =>
        Knows("deletePostTx", req[p], seen[p], comments, post)
  BY <1>1, <1>2, <1>3 DEF Knows, Stands, OnFound, OnExisting, HoldsComment, HoldsPost, HoldsVote,
     PCs, Writing, Moderator
<1>5. (post.author = req[p].user \/ Moderator(req[p].user)) /\ calm =>
        Undisturbed("deletePostTx", req[p], seen[p], comments, votes, post)
  BY <1>1, <1>2, <1>3 DEF Undisturbed, HoldsComment, HoldsPost, Moderator
<1>6. (post.author = req[p].user \/ Moderator(req[p].user)) /\ calm /\ "deletePostTx" \in Cleared =>
        May(req[p], rank, comments, post)
  BY <1>1, <1>2, <1>3 DEF May, Cleared, Moderator
<1> QED
  BY <1>1, <1>4, <1>5, <1>6, ChecksRead DEF DeletePostRights

\* The check of the author's membership.
LEMMA CommentMemberReads == ASSUME Inv, NEW p \in Slots, CommentMember(p) PROVE Reads(p)
<1> DEFINE to == IF req[p].row = Post THEN "commentTx" ELSE "commentParent"
<1>1. pc[p] = "commentMember" /\ "commentMember" \in PCs \ {"idle"} /\ to \in PCs \ {"idle"}
  BY DEF CommentMember, Check, PCs, Writing
<1>2. /\ Knows(pc[p], req[p], seen[p], comments, post)
      /\ calm => Undisturbed(pc[p], req[p], seen[p], comments, votes, post)
  BY <1>1, AtWork
<1>3. req[p].kind = "comment"
  BY <1>1, <1>2 DEF Knows, Stands
<1>4. Knows(to, req[p], seen[p], comments, post)
  BY <1>1, <1>2, <1>3 DEF Knows, Stands, OnFound, OnExisting, HoldsComment, HoldsPost, HoldsVote,
     PCs, Writing
<1>5. calm => Undisturbed(to, req[p], seen[p], comments, votes, post)
  BY <1>1, <1>2, <1>3 DEF Undisturbed, HoldsComment, HoldsPost
<1>6. Member(req[p].user) /\ calm => May(req[p], rank, comments, post)
  BY <1>1, <1>2, <1>3 DEF May, Undisturbed, Member
<1>7. Check(p, "commentMember", Member(req[p].user), to)
  BY DEF CommentMember
<1> HIDE DEF to
<1> QED
  BY <1>1, <1>4, <1>5, <1>6, <1>7, ChecksRead

\* A load that finds its row: the handler holds it as it is.
LEMMA LoadsRead ==
  ASSUME Inv, NEW p \in Slots, NEW from \in PCs \ {"idle"}, NEW to \in PCs \ {"idle"},
         NEW found, NEW row, Load(p, from, found, row, to),
         ASSUME NEW s, Kept(s), s.entity = row, found, pc[p] = from
         PROVE  /\ Knows(to, req[p], s, comments, post)
                /\ calm => /\ Undisturbed(to, req[p], s, comments, votes, post)
                           /\ to \in Cleared => May(req[p], rank, comments, post)
  PROVE  Reads(p)
<1>1. /\ pc[p] = from /\ UNCHANGED tables
      /\ \/ ~found /\ Ends(p)
         \/ found /\ GoesOn(p) /\ pc'[p] = to /\ seen'[p].entity = row
  BY LoadIs
<1>2. CASE ~found /\ Ends(p)
  BY <1>1, <1>2 DEF Reads
<1>3. CASE found /\ GoesOn(p) /\ pc'[p] = to /\ seen'[p].entity = row
  <2>1. PICK s : s = seen'[p]
    OBVIOUS
  <2>2. Kept(s)
    BY <1>3, <2>1 DEF GoesOn, Alone
  <2>3. /\ Knows(to, req[p], s, comments, post)
        /\ calm => /\ Undisturbed(to, req[p], s, comments, votes, post)
                   /\ to \in Cleared => May(req[p], rank, comments, post)
    BY <1>1, <1>3, <2>1, <2>2
  <2> QED
    BY <1>1, <1>3, <2>1, <2>3 DEF Reads
<1> QED
  BY <1>1, <1>2, <1>3

\* The load of the comment to edit.
LEMMA EditCommentReads == ASSUME Inv, NEW p \in Slots, EditComment(p) PROVE Reads(p)
<1>1. pc[p] = "edit" /\ "edit" \in PCs \ {"idle"} /\ "editRights" \in PCs \ {"idle"}
  BY DEF EditComment, Load, PCs, Writing
<1>2. /\ Knows(pc[p], req[p], seen[p], comments, post)
      /\ calm => Undisturbed(pc[p], req[p], seen[p], comments, votes, post)
  BY <1>1, AtWork
<1>3. req[p].kind = "edit"
  BY <1>1, <1>2 DEF Knows, Stands
<1>4. Found(p) => /\ req[p].row \in DOMAIN comments
                  /\ comments[req[p].row] \in Comments
                  /\ comments[req[p].row].replyCount =< Cardinality(Under(comments, req[p].row))
  BY Ids DEF Inv, Basis, Within, Found
<1>5. ASSUME NEW s, s.entity = comments[req[p].row], Found(p)
      PROVE  Knows("editRights", req[p], s, comments, post)
  BY <1>1, <1>2, <1>3, <1>4, <1>5 DEF Knows, Stands, OnFound, OnExisting, HoldsComment, HoldsPost,
     HoldsVote, PCs, Writing, Exists
<1>6. ASSUME NEW s, s.entity = comments[req[p].row], Found(p), calm
      PROVE  Undisturbed("editRights", req[p], s, comments, votes, post)
  BY <1>1, <1>2, <1>3, <1>6 DEF Undisturbed, HoldsComment, HoldsPost
<1>7. "editRights" \notin Cleared
  BY DEF Cleared
<1>8. Load(p, "edit", Found(p), comments[req[p].row], "editRights")
  BY DEF EditComment
<1> QED
  BY <1>1, <1>5, <1>6, <1>7, <1>8, LoadsRead

\* The load of the post to update.
LEMMA UpdatePostReads == ASSUME Inv, NEW p \in Slots, UpdatePost(p) PROVE Reads(p)
<1>1. pc[p] = "update" /\ "update" \in PCs \ {"idle"} /\ "updateRights" \in PCs \ {"idle"}
  BY DEF UpdatePost, Load, PCs, Writing
<1>2. /\ Knows(pc[p], req[p], seen[p], comments, post)
      /\ calm => Undisturbed(pc[p], req[p], seen[p], comments, votes, post)
  BY <1>1, AtWork
<1>3. req[p].kind = "update"
  BY <1>1, <1>2 DEF Knows, Stands
<1>4. Exists => post \in Posts /\ post.commentCount =< Cardinality(Under(comments, Post))
  BY DEF Inv, Basis, Within, Exists, NoPost
<1>5. ASSUME NEW s, s.entity = post, Exists
      PROVE  Knows("updateRights", req[p], s, comments, post)
  BY <1>1, <1>2, <1>3, <1>4, <1>5 DEF Knows, Stands, OnFound, OnExisting, HoldsComment, HoldsPost,
     HoldsVote, PCs, Writing, Exists
<1>6. ASSUME NEW s, s.entity = post, Exists, calm
      PROVE  Undisturbed("updateRights", req[p], s, comments, votes, post)
  BY <1>1, <1>2, <1>3, <1>6 DEF Undisturbed, HoldsComment, HoldsPost
<1>7. "updateRights" \notin Cleared
  BY DEF Cleared
<1>8. Load(p, "update", Exists, post, "updateRights")
  BY DEF UpdatePost
<1> QED
  BY <1>1, <1>5, <1>6, <1>7, <1>8, LoadsRead

\* The load of the post to pin.
LEMMA PinPostReads == ASSUME Inv, NEW p \in Slots, PinPost(p) PROVE Reads(p)
<1>1. pc[p] = "pin" /\ "pin" \in PCs \ {"idle"} /\ "pinRights" \in PCs \ {"idle"}
  BY DEF PinPost, Load, PCs, Writing
<1>2. /\ Knows(pc[p], req[p], seen[p], comments, post)
      /\ calm => Undisturbed(pc[p], req[p], seen[p], comments, votes, post)
  BY <1>1, AtWork
<1>3. req[p].kind = "pin"
  BY <1>1, <1>2 DEF Knows, Stands
<1>4. Exists => post \in Posts /\ post.commentCount =< Cardinality(Under(comments, Post))
  BY DEF Inv, Basis, Within, Exists, NoPost
<1>5. ASSUME NEW s, s.entity = post, Exists
      PROVE  Knows("pinRights", req[p], s, comments, post)
  BY <1>1, <1>2, <1>3, <1>4, <1>5 DEF Knows, Stands, OnFound, OnExisting, HoldsComment, HoldsPost,
     HoldsVote, PCs, Writing, Exists
<1>6. ASSUME NEW s, s.entity = post, Exists, calm
      PROVE  Undisturbed("pinRights", req[p], s, comments, votes, post)
  BY <1>1, <1>2, <1>3, <1>6 DEF Undisturbed, HoldsComment, HoldsPost
<1>7. "pinRights" \notin Cleared
  BY DEF Cleared
<1>8. Load(p, "pin", Exists, post, "pinRights")
  BY DEF PinPost
<1> QED
  BY <1>1, <1>5, <1>6, <1>7, <1>8, LoadsRead

\* The load of the post to lock.
LEMMA LockPostReads == ASSUME Inv, NEW p \in Slots, LockPost(p) PROVE Reads(p)
<1>1. pc[p] = "lock" /\ "lock" \in PCs \ {"idle"} /\ "lockRights" \in PCs \ {"idle"}
  BY DEF LockPost, Load, PCs, Writing
<1>2. /\ Knows(pc[p], req[p], seen[p], comments, post)
      /\ calm => Undisturbed(pc[p], req[p], seen[p], comments, votes, post)
  BY <1>1, AtWork
<1>3. req[p].kind = "lock"
  BY <1>1, <1>2 DEF Knows, Stands
<1>4. Exists => post \in Posts /\ post.commentCount =< Cardinality(Under(comments, Post))
  BY DEF Inv, Basis, Within, Exists, NoPost
<1>5. ASSUME NEW s, s.entity = post, Exists
      PROVE  Knows("lockRights", req[p], s, comments, post)
  BY <1>1, <1>2, <1>3, <1>4, <1>5 DEF Knows, Stands, OnFound, OnExisting, HoldsComment, HoldsPost,
     HoldsVote, PCs, Writing, Exists
<1>6. ASSUME NEW s, s.entity = post, Exists, calm
      PROVE  Undisturbed("lockRights", req[p], s, comments, votes, post)
  BY <1>1, <1>2, <1>3, <1>6 DEF Undisturbed, HoldsComment, HoldsPost
<1>7. "lockRights" \notin Cleared
  BY DEF Cleared
<1>8. Load(p, "lock", Exists, post, "lockRights")
  BY DEF LockPost
<1> QED
  BY <1>1, <1>5, <1>6, <1>7, <1>8, LoadsRead

\* A handler that goes on, with what it keeps of its reads.
LEMMA GoesReads ==
  ASSUME Inv, NEW p \in Slots, NEW at \in PCs \ {"idle"}, Goto(p, at), NEW s, Kept(s),
         seen' = [seen EXCEPT ![p] = s] \/ (seen' = seen /\ s = seen[p]),
         Knows(at, req[p], s, comments, post),
         calm => /\ Undisturbed(at, req[p], s, comments, votes, post)
                 /\ at \in Cleared => May(req[p], rank, comments, post)
  PROVE  Reads(p)
<1>1. GoesOn(p) /\ pc'[p] = at /\ seen'[p] = s /\ UNCHANGED tables
  BY GotoIs
<1> QED
  BY <1>1 DEF Reads

\* An answer that changes no row.
LEMMA AnswersRead ==
  ASSUME Inv, NEW p \in Slots, NEW a \in Answers, Answer(p, a), UNCHANGED tables
  PROVE  Reads(p)
<1>1. Ends(p)
  BY AnswerIs
<1> QED
  BY <1>1 DEF Reads

\* The comment read again: the columns in which it differs are to be written.
LEMMA EditSelectReads == ASSUME Inv, NEW p \in Slots, EditSelect(p) PROVE Reads(p)
<1>1. pc[p] = "editSelect" /\ pc[p] # "idle"
  BY DEF EditSelect
<1>2. /\ Knows(pc[p], req[p], seen[p], comments, post) /\ Kept(seen[p])
      /\ calm => Undisturbed(pc[p], req[p], seen[p], comments, votes, post)
      /\ calm => May(req[p], rank, comments, post)
  BY <1>1, AtWork DEF Cleared
<1>3. CASE Answer(p, "done") /\ UNCHANGED tables
  BY <1>3, AnswersRead DEF Answers
<1>4. ASSUME NEW cols, Goto(p, "editUpdate"), seen' = [seen EXCEPT ![p].cols = cols] PROVE Reads(p)
  <2>1. PICK s : s = [seen[p] EXCEPT !.cols = cols]
    OBVIOUS
  <2>2. Kept(s) /\ s.entity = seen[p].entity
    BY <1>2, <2>1 DEF Kept
  <2>3. Knows("editUpdate", req[p], s, comments, post)
    BY <1>1, <1>2, <2>2 DEF Knows, Stands, OnFound, OnExisting, HoldsComment, HoldsPost, HoldsVote,
       PCs, Writing
  <2>4. calm => Undisturbed("editUpdate", req[p], s, comments, votes, post)
    BY <1>1, <1>2, <2>2 DEF Undisturbed, HoldsComment, HoldsPost
  <2>5. "editUpdate" \in PCs \ {"idle"}
    BY DEF PCs, Writing
  <2>6. seen' = [seen EXCEPT ![p] = s]
    BY <1>4, <2>1
  <2> QED
    BY <1>2, <1>4, <2>2, <2>3, <2>4, <2>5, <2>6, GoesReads
<1> QED
  BY <1>3, <1>4 DEF EditSelect

\* The post read again: the columns in which it differs are to be written.
LEMMA PostSelectReads == ASSUME Inv, NEW p \in Slots, PostSelect(p) PROVE Reads(p)
<1>1. pc[p] = "postSelect" /\ pc[p] # "idle"
  BY DEF PostSelect
<1>2. /\ Knows(pc[p], req[p], seen[p], comments, post) /\ Kept(seen[p])
      /\ calm => Undisturbed(pc[p], req[p], seen[p], comments, votes, post)
      /\ calm => May(req[p], rank, comments, post)
  BY <1>1, AtWork DEF Cleared
<1>3. CASE Answer(p, "done") /\ UNCHANGED tables
  BY <1>3, AnswersRead DEF Answers
<1>4. ASSUME NEW cols, Goto(p, "postUpdate"), seen' = [seen EXCEPT ![p].cols = cols] PROVE Reads(p)
  <2>1. PICK s : s = [seen[p] EXCEPT !.cols = cols]
    OBVIOUS
  <2>2. Kept(s) /\ s.entity = seen[p].entity
    BY <1>2, <2>1 DEF Kept
  <2>3. Knows("postUpdate", req[p], s, comments, post)
    BY <1>1, <1>2, <2>2 DEF Knows, Stands, OnFound, OnExisting, HoldsComment, HoldsPost, HoldsVote,
       PCs, Writing
  <2>4. calm => Undisturbed("postUpdate", req[p], s, comments, votes, post)
    BY <1>1, <1>2, <2>2 DEF Undisturbed, HoldsComment, HoldsPost
  <2>5. "postUpdate" \in PCs \ {"idle"}
    BY DEF PCs, Writing
  <2>6. seen' = [seen EXCEPT ![p] = s]
    BY <1>4, <2>1
  <2> QED
    BY <1>2, <1>4, <2>2, <2>3, <2>4, <2>5, <2>6, GoesReads
<1> QED
  BY <1>3, <1>4 DEF PostSelect

\* The user's vote on the comment, which decides what the transaction does.
LEMMA VoteExistingReads == ASSUME Inv, NEW p \in Slots, VoteExisting(p) PROVE Reads(p)
<1>1. pc[p] = "voteExisting" /\ pc[p] # "idle"
  BY DEF VoteExisting
<1>2. /\ Knows(pc[p], req[p], seen[p], comments, post) /\ Kept(seen[p])
      /\ calm => Undisturbed(pc[p], req[p], seen[p], comments, votes, post)
      /\ calm => May(req[p], rank, comments, post)
  BY <1>1, AtWork DEF Cleared
<1>3. req[p].kind = "vote"
  BY <1>1, <1>2 DEF Knows, Stands
<1>4. CASE VotesOf(req[p].user, req[p].row) = {} /\ Goto(p, "voteNew") /\ UNCHANGED seen
  <2>1. Knows("voteNew", req[p], seen[p], comments, post)
    BY <1>1, <1>2 DEF Knows, Stands, OnFound, OnExisting, HoldsComment, HoldsPost, HoldsVote, PCs,
       Writing
  <2>2. calm => Undisturbed("voteNew", req[p], seen[p], comments, votes, post)
    BY <1>2, <1>3, <1>4 DEF Undisturbed, HoldsComment, HoldsPost, VotesOf
  <2>3. "voteNew" \in PCs \ {"idle"}
    BY DEF PCs, Writing
  <2> QED
    BY <1>2, <1>4, <2>1, <2>2, <2>3, GoesReads
<1>5. ASSUME NEW v \in VotesOf(req[p].user, req[p].row),
             NEW at, at = IF v.type = req[p].arg THEN "voteRemove" ELSE "voteSelect",
             Goto(p, at), seen' = [seen EXCEPT ![p].vote = v]
      PROVE  Reads(p)
  <2>1. PICK s : s = [seen[p] EXCEPT !.vote = v]
    OBVIOUS
  <2>2. Kept(s) /\ s.vote = v
    BY <1>2, <2>1 DEF Kept
  <2>3. v \in votes /\ v \in Votes /\ v.user = req[p].user /\ v.comment = req[p].row
    BY DEF Inv, Basis, VotesOf
  <2>4. at \in PCs \ {"idle"}
    BY <1>5 DEF PCs, Writing
  <2>5. Knows(at, req[p], s, comments, post)
    BY <1>1, <1>2, <1>3, <1>5, <2>2, <2>3, <2>4
    DEF Knows, Stands, OnFound, OnExisting, HoldsComment, HoldsPost, HoldsVote
  <2>6. calm => Undisturbed(at, req[p], s, comments, votes, post)
    BY <1>2, <1>3, <1>5, <2>2, <2>3 DEF Undisturbed, HoldsComment, HoldsPost
  <2>7. seen' = [seen EXCEPT ![p] = s]
    BY <1>5, <2>1
  <2> QED
    BY <1>2, <1>5, <2>2, <2>4, <2>5, <2>6, <2>7, GoesReads
<1> QED
  BY <1>4, <1>5 DEF VoteExisting

\* The vote read again: while calm it is still there, of the type it was.
LEMMA VoteSelectReads == ASSUME Inv, NEW p \in Slots, VoteSelect(p) PROVE Reads(p)
<1>1. pc[p] = "voteSelect" /\ pc[p] # "idle"
  BY DEF VoteSelect
<1>2. /\ Knows(pc[p], req[p], seen[p], comments, post) /\ Kept(seen[p])
      /\ calm => Undisturbed(pc[p], req[p], seen[p], comments, votes, post)
      /\ calm => May(req[p], rank, comments, post)
  BY <1>1, AtWork DEF Cleared
<1>3. req[p].kind = "vote"
  BY <1>1, <1>2 DEF Knows, Stands
<1>4. PICK at : /\ at = (IF {v \in votes : v.id = seen[p].vote.id} = {} THEN "voteInsert"
                         ELSE IF \E v \in {w \in votes : w.id = seen[p].vote.id} : v.type = req[p].arg
                         THEN "voteSame" ELSE "voteUpdate")
                /\ Goto(p, at) /\ UNCHANGED seen
  BY DEF VoteSelect
<1>5. at \in {"voteInsert", "voteSame", "voteUpdate"}
  BY <1>4
<1>6. at \in PCs \ {"idle"}
  BY <1>5 DEF PCs, Writing
<1>7. Knows(at, req[p], seen[p], comments, post)
  BY <1>1, <1>2, <1>3, <1>5, <1>6
  DEF Knows, Stands, OnFound, OnExisting, HoldsComment, HoldsPost, HoldsVote
<1>8. ASSUME calm PROVE Undisturbed(at, req[p], seen[p], comments, votes, post)
  <2>1. seen[p].vote \in votes
    BY <1>1, <1>2, <1>8 DEF Undisturbed
  <2>2. VotesApart(votes)
    BY <1>8 DEF Inv, CalmInv, Serene
  <2>3. \A v \in votes : v.id = seen[p].vote.id => v = seen[p].vote
    BY <2>1, <2>2 DEF VotesApart
  <2>4. seen[p].vote.type # req[p].arg
    BY <1>1, <1>2 DEF Knows, HoldsVote
  <2>5. at = "voteUpdate"
    BY <1>4, <2>1, <2>3, <2>4
  <2> QED
    BY <1>2, <1>3, <1>8, <2>1, <2>5 DEF Undisturbed, HoldsComment, HoldsPost
<1> QED
  BY <1>2, <1>4, <1>6, <1>7, <1>8, GoesReads

\* A handler that is stopped leaves the tables.
LEMMA AbortReads == ASSUME Inv, NEW p \in Slots, Abort(p) PROVE Reads(p)
BY AnswersRead DEF Abort, Answers

-----------------------------------------------------------------------------
(* Requests, and changes of the room.                                      *)

\* Meet is Conflict of ForumThread, and symmetric.
LEMMA Meeting ==
  ASSUME NEW r, NEW s
  PROVE  /\ Touched(r) = Reach(r, comments)
         /\ Conflict(r, s) <=> Meet(r, s, comments)
         /\ Meet(r, s, comments) <=> Meet(s, r, comments)
<1>1. \A x : Touched(x) = Reach(x, comments)
  BY DEF Touched, Reach
<1>2. Conflict(r, s) <=> Meet(r, s, comments)
  BY <1>1 DEF Conflict, Meet
<1>3. Meet(r, s, comments) <=> Meet(s, r, comments)
  <2>1. {r.kind, s.kind} = {s.kind, r.kind}
    OBVIOUS
  <2>2. Reach(r, comments) \intersect Reach(s, comments) = Reach(s, comments) \intersect Reach(r, comments)
    OBVIOUS
  <2> QED
    BY <2>1, <2>2 DEF Meet
<1> QED
  BY <1>1, <1>2, <1>3

\* Where the handlers of requests begin.
First == {"postMember", "comment", "edit", "delete", "vote", "update", "pin", "lock", "deletePost"}

\* The arrival of a request keeps the invariant: calm ends when it meets another.
LEMMA StartKeeps ==
  ASSUME Inv, NEW p \in Slots, NEW at \in First, NEW r, Asked(r), Stands(at, r.kind), Start(p, at, r)
  PROVE  Inv'
<1>1. Basis /\ CalmInv
  BY DEF Inv
<1>2. /\ pc[p] = "idle" /\ sent < MaxRequests /\ sent' = sent + 1
      /\ pc' = [pc EXCEPT ![p] = at] /\ req' = [req EXCEPT ![p] = r] /\ seen' = seen
      /\ answer' = "none"
      /\ calm' = (calm /\ ~Repeated(r) /\ \A q \in Slots : pc[q] # "idle" => ~Conflict(r, req[q]))
      /\ UNCHANGED <<rank, open, post, comments, votes>>
  BY DEF Start, room, tables
<1>3. pc \in [Slots -> PCs] /\ DOMAIN req = Slots /\ DOMAIN seen = Slots
  BY <1>1 DEF Basis
<1>4. at \in PCs /\ at # "idle"
  BY DEF First, PCs
<1>5. /\ pc' \in [Slots -> PCs] /\ DOMAIN req' = Slots /\ DOMAIN seen' = Slots
      /\ pc'[p] = at /\ req'[p] = r
      /\ \A q \in Slots : q # p => pc'[q] = pc[q] /\ req'[q] = req[q]
  BY <1>2, <1>3, <1>4
<1>6. Knows(at, r, seen[p], comments, post)
  BY DEF Knows, First, OnFound, OnExisting, HoldsComment, HoldsPost, HoldsVote
<1>7. ASSUME NEW q \in Slots PROVE Standing(q)'
  <2>1. CASE q = p
    BY <1>2, <1>4, <1>5, <1>6, <2>1 DEF Standing
  <2>2. CASE q # p
    <3>1. Standing(q)
      BY <1>1 DEF Basis
    <3> QED
      BY <1>2, <1>5, <2>2, <3>1 DEF Standing
  <2> QED
    BY <2>1, <2>2
<1>8. sent' \in 0..MaxRequests
  BY <1>1, <1>2, BoundsAssumption DEF Basis
<1>9. calm' \in BOOLEAN
  BY <1>2
<1>10. Basis'
  BY <1>1, <1>2, <1>5, <1>7, <1>8, <1>9 DEF Basis, Exists
<1>11. ASSUME calm' PROVE Serene'
  <2>1. Serene /\ ~Repeated(r) /\ \A q \in Slots : pc[q] # "idle" => ~Conflict(r, req[q])
    BY <1>1, <1>2, <1>11 DEF CalmInv
  <2>2. Separate'
    <3>1. \A q \in Slots : pc[q] # "idle" => ~Meet(r, req[q], comments) /\ ~Meet(req[q], r, comments)
      BY <2>1, Meeting
    <3> QED
      BY <1>2, <1>5, <2>1, <3>1 DEF Separate, Serene
  <2>3. Undisturbed(at, r, seen[p], comments, votes, post)
    <3>1. r.kind = "delete" /\ r.row \in DOMAIN comments => comments[r.row].status = "active"
      BY <2>1 DEF Repeated, Active
    <3>2. r.kind = "comment" => at = "comment"
      BY DEF Stands, First
    <3> QED
      BY <3>1, <3>2 DEF Undisturbed, First, HoldsComment, HoldsPost
  <2>4. at \notin Cleared
    BY DEF First, Cleared
  <2>5. ASSUME NEW q \in Slots
        PROVE  /\ pc'[q] # "idle" => Undisturbed(pc'[q], req'[q], seen'[q], comments', votes', post')
               /\ pc'[q] \in Cleared => May(req'[q], rank', comments', post')
    <3>1. CASE q = p
      BY <1>2, <1>5, <2>3, <2>4, <3>1
    <3>2. CASE q # p
      <4>1. /\ pc[q] # "idle" => Undisturbed(pc[q], req[q], seen[q], comments, votes, post)
            /\ pc[q] \in Cleared => May(req[q], rank, comments, post)
        BY <2>1 DEF Serene
      <4> QED
        BY <1>2, <1>5, <3>2, <4>1
    <3> QED
      BY <3>1, <3>2
  <2> QED
    BY <1>2, <2>1, <2>2, <2>5 DEF Serene
<1> QED
  BY <1>10, <1>11 DEF Inv, CalmInv

\* Every endpoint's request keeps the invariant.
LEMMA RequestKeeps == ASSUME Inv, NEW p \in Slots, Request(p) PROVE Inv'
<1> USE DEF Ask
<1>1. PICK u \in Users :
        \/ AskCreatePost(p, u) \/ AskUpdatePost(p, u) \/ AskPinPost(p, u)
        \/ AskLockPost(p, u) \/ AskDeletePost(p, u)
        \/ AskCreateComment(p, u) \/ AskUpdateComment(p, u)
        \/ AskDeleteComment(p, u) \/ AskVoteComment(p, u)
  BY DEF Request
<1>2. Post \in 0..MaxComments /\ \A c \in 1..MaxComments : c \in 0..MaxComments /\ c # Post
  BY BoundsAssumption DEF Post
<1> USE <1>2 DEF Asked, Stands, First, Kinds, OnPost, PCs
<1>3. CASE AskCreatePost(p, u)
  BY <1>3, StartKeeps DEF AskCreatePost
<1>4. CASE AskUpdatePost(p, u)
  BY <1>4, StartKeeps DEF AskUpdatePost
<1>5. CASE AskPinPost(p, u)
  BY <1>5, StartKeeps DEF AskPinPost
<1>6. CASE AskLockPost(p, u)
  BY <1>6, StartKeeps DEF AskLockPost
<1>7. CASE AskDeletePost(p, u)
  BY <1>7, StartKeeps DEF AskDeletePost
<1>8. CASE AskCreateComment(p, u)
  BY <1>8, StartKeeps DEF AskCreateComment
<1>9. CASE AskUpdateComment(p, u)
  BY <1>9, StartKeeps DEF AskUpdateComment
<1>10. CASE AskDeleteComment(p, u)
  BY <1>10, StartKeeps DEF AskDeleteComment
<1>11. CASE AskVoteComment(p, u)
  BY <1>11, StartKeeps DEF AskVoteComment
<1> QED
  BY <1>1, <1>3, <1>4, <1>5, <1>6, <1>7, <1>8, <1>9, <1>10, <1>11

\* A change of membership keeps the invariant: calm ends when the user has a
\* request in hand.
LEMMA RoomChangesKeep == ASSUME Inv, RoomChanges PROVE Inv'
<1>1. Basis /\ CalmInv
  BY DEF Inv
<1>2. answer' = "none" /\ UNCHANGED <<post, comments, votes, pc, req, seen, sent>>
  BY DEF RoomChanges, tables
<1>3. /\ rank' \in [Users -> Ranks] /\ open' \in BOOLEAN /\ calm' \in BOOLEAN
      /\ calm' => calm
      /\ calm' => \A p \in Slots : req[p].user \in Users => rank'[req[p].user] = rank[req[p].user]
  <2>1. rank \in [Users -> Ranks] /\ open \in BOOLEAN /\ calm \in BOOLEAN
    BY <1>1 DEF Basis
  <2>2. CASE \E u \in Users, n \in Ranks :
               /\ rank' = [rank EXCEPT ![u] = n]
               /\ calm' = (calm /\ \A p \in Slots : req[p].user # u)
               /\ UNCHANGED open
    BY <2>1, <2>2
  <2>3. CASE open' = FALSE /\ UNCHANGED <<rank, calm>>
    BY <2>1, <2>3
  <2> QED
    BY <2>2, <2>3 DEF RoomChanges
<1>4. Basis'
  BY <1>1, <1>2, <1>3 DEF Basis, Exists, Standing
<1>5. ASSUME calm' PROVE Serene'
  <2>1. Serene
    BY <1>1, <1>3, <1>5 DEF CalmInv
  <2>2. ASSUME NEW p \in Slots, pc[p] \in Cleared PROVE May(req[p], rank', comments, post)
    <3>1. May(req[p], rank, comments, post)
      BY <2>1, <2>2 DEF Serene
    <3>2. pc[p] # "idle"
      BY <2>2 DEF Cleared
    <3>3. req[p].user \in Users
      BY <3>2, AtWork DEF Asked
    <3>4. rank'[req[p].user] = rank[req[p].user]
      BY <1>3, <1>5, <3>3
    <3> QED
      BY <3>1, <3>4 DEF May
  <2> QED
    BY <1>2, <2>1, <2>2 DEF Serene, Separate
<1> QED
  BY <1>4, <1>5 DEF Inv, CalmInv

-----------------------------------------------------------------------------
(* The steps that write.                                                   *)

\* A write is the last step of its handler.  Comments only grow, and the post
\* stays where it is.
Writes(p) ==
  /\ Ends(p)
  /\ post' \in Posts \union {NoPost}
  /\ post.status # "none" => post'.status # "none" /\ post'.author = post.author
  /\ Grown(comments') /\ Grows(comments, comments')
  /\ comments' # <<>> => post'.status # "none"
  /\ votes' \subseteq Votes /\ IsFiniteSet(votes')
  /\ Within(comments', post')

\* While calm it changes no row beyond the reach of its request, deletes only
\* what it is to delete, casts only its own vote, locks only when it is to
\* lock, and leaves the counts exact.
Calmly(p) ==
  /\ \A c \in DOMAIN comments : c \notin Reach(req[p], comments) => comments'[c] = comments[c]
  /\ Post \notin Reach(req[p], comments) => post' = post
  /\ \A c \in DOMAIN comments :
       comments'[c].status # comments[c].status => req[p].kind = "delete" /\ c = req[p].row
  /\ \A c \in DOMAIN comments' \ DOMAIN comments :
       /\ req[p].kind = "comment"
       /\ comments'[c].status = "active"
       /\ comments'[c].parent \in Reach(req[p], comments)
  /\ \A v \in (votes \ votes') \union (votes' \ votes) :
       req[p].kind = "vote" /\ v.user = req[p].user /\ v.comment = req[p].row
  /\ post'.isLocked # post.isLocked => req[p].kind = "lock"
  /\ Exact(comments', votes', post')
  /\ VotesApart(votes')
  /\ \A v \in votes' : v.comment \in DOMAIN comments'

\* While calm, a write of p leaves what another handler knows.
LEMMA OthersUndisturbed ==
  ASSUME Inv, calm, NEW p \in Slots, pc[p] # "idle", Writes(p), Calmly(p),
         NEW q \in Slots, q # p, pc[q] # "idle"
  PROVE  /\ Undisturbed(pc[q], req[q], seen[q], comments', votes', post')
         /\ pc[q] \in Cleared => May(req[q], rank', comments', post')
<1>1. Serene
  BY DEF Inv, CalmInv
<1>2. ~Meet(req[p], req[q], comments)
  BY <1>1 DEF Serene, Separate
<1>3. /\ Knows(pc[q], req[q], seen[q], comments, post)
      /\ Undisturbed(pc[q], req[q], seen[q], comments, votes, post)
      /\ pc[q] \in Cleared => May(req[q], rank, comments, post)
      /\ Asked(req[q]) /\ Stands(pc[q], req[q].kind)
      /\ Asked(req[p])
  BY AtWork
<1>4. pc[q] \in HoldsComment => seen[q].entity = comments'[req[q].row]
  <2>1. SUFFICES ASSUME pc[q] \in HoldsComment PROVE seen[q].entity = comments'[req[q].row]
    OBVIOUS
  <2>2. req[q].kind = "edit" /\ req[q].row \in DOMAIN comments
    BY <1>3, <2>1 DEF Stands, Knows, HoldsComment, OnFound
  <2>3. req[q].row \in Reach(req[q], comments) /\ req[q].kind \in Saves
    BY <2>2 DEF Reach, Saves
  <2>4. req[q].row \notin Reach(req[p], comments)
    BY <1>2, <2>3 DEF Meet
  <2> QED
    BY <1>3, <2>1, <2>2, <2>4 DEF Undisturbed, Calmly
<1>5. pc[q] \in HoldsPost => seen[q].entity = post'
  <2>1. SUFFICES ASSUME pc[q] \in HoldsPost PROVE seen[q].entity = post'
    OBVIOUS
  <2>2. req[q].kind \in {"update", "pin", "lock"}
    BY <1>3, <2>1 DEF Stands, HoldsPost
  <2>3. Post \in Reach(req[q], comments) /\ req[q].kind \in Saves
    BY <1>3, <2>2 DEF Reach, Saves, Asked, OnPost
  <2>4. Post \notin Reach(req[p], comments)
    BY <1>2, <2>3 DEF Meet
  <2> QED
    BY <1>3, <2>1, <2>4 DEF Undisturbed, Calmly
<1>6. req[q].kind = "delete" /\ req[q].row \in DOMAIN comments' =>
        comments'[req[q].row].status = "active"
  <2>1. SUFFICES ASSUME req[q].kind = "delete", req[q].row \in DOMAIN comments'
                 PROVE  comments'[req[q].row].status = "active"
    OBVIOUS
  <2>2. CASE req[q].row \notin DOMAIN comments
    BY <2>1, <2>2 DEF Calmly
  <2>3. CASE req[q].row \in DOMAIN comments
    <3>1. comments[req[q].row].status = "active"
      BY <1>3, <2>1, <2>3 DEF Undisturbed
    <3>2. ~(req[p].kind = "delete" /\ req[q].row = req[p].row)
      BY <1>2, <2>1 DEF Meet
    <3> QED
      BY <2>3, <3>1, <3>2 DEF Calmly
  <2> QED
    BY <2>2, <2>3
<1>7. pc[q] = "voteNew" => \A v \in votes' : ~(v.user = req[q].user /\ v.comment = req[q].row)
  <2>1. SUFFICES ASSUME pc[q] = "voteNew", NEW v \in votes', v.user = req[q].user, v.comment = req[q].row
                 PROVE  FALSE
    OBVIOUS
  <2>2. req[q].kind = "vote"
    BY <1>3, <2>1 DEF Stands
  <2>3. v \notin votes
    BY <1>3, <2>1 DEF Undisturbed
  <2>4. req[p].kind = "vote" /\ v.user = req[p].user /\ v.comment = req[p].row
    BY <2>1, <2>3 DEF Calmly
  <2> QED
    BY <1>2, <2>1, <2>2, <2>4 DEF Meet
<1>8. pc[q] \in {"voteRemove", "voteSelect", "voteUpdate"} => seen[q].vote \in votes'
  <2>1. SUFFICES ASSUME pc[q] \in {"voteRemove", "voteSelect", "voteUpdate"}, seen[q].vote \notin votes'
                 PROVE  FALSE
    OBVIOUS
  <2>2. req[q].kind = "vote" /\ seen[q].vote.user = req[q].user /\ seen[q].vote.comment = req[q].row
    BY <1>3, <2>1 DEF Stands, Knows, HoldsVote
  <2>3. seen[q].vote \in votes
    BY <1>3, <2>1 DEF Undisturbed
  <2>4. req[p].kind = "vote" /\ seen[q].vote.user = req[p].user /\ seen[q].vote.comment = req[p].row
    BY <2>1, <2>3 DEF Calmly
  <2> QED
    BY <1>2, <2>2, <2>4 DEF Meet
<1>9. req[q].kind = "comment" => post'.isLocked = post.isLocked
  <2>1. SUFFICES ASSUME req[q].kind = "comment", post'.isLocked # post.isLocked PROVE FALSE
    OBVIOUS
  <2>2. req[p].kind = "lock"
    BY <2>1 DEF Calmly
  <2>3. Post \in Reach(req[p], comments) /\ req[p].kind \in Saves
    BY <1>3, <2>2 DEF Reach, Asked, OnPost, Saves
  <2>4. Post \in Reach(req[q], comments)
    BY <2>1 DEF Reach
  <2> QED
    BY <1>2, <2>3, <2>4 DEF Meet
<1>10. Undisturbed(pc[q], req[q], seen[q], comments', votes', post')
  BY <1>3, <1>4, <1>5, <1>6, <1>7, <1>8, <1>9 DEF Undisturbed
<1>11. ASSUME pc[q] \in Cleared PROVE May(req[q], rank', comments', post')
  <2>1. rank' = rank
    BY DEF Writes, Ends, room
  <2>2. May(req[q], rank, comments, post)
    BY <1>3, <1>11
  <2>3. req[q].kind \in {"edit", "delete"} => comments'[req[q].row].author = comments[req[q].row].author
    <3>1. req[q].kind \in {"edit", "delete"} => req[q].row \in DOMAIN comments
      BY <1>3, <1>11 DEF Cleared, Stands, Knows, OnFound
    <3> QED
      BY <3>1 DEF Writes, Grows
  <2>4. req[q].kind \in {"update", "deletePost"} => post'.author = post.author
    <3>1. req[q].kind \in {"update", "deletePost"} => post.status # "none"
      BY <1>3, <1>11 DEF Cleared, Stands, Knows, OnExisting
    <3> QED
      BY <3>1 DEF Writes
  <2> QED
    BY <1>9, <2>1, <2>2, <2>3, <2>4 DEF May
<1> QED
  BY <1>10, <1>11

\* While calm, two requests that a write of p leaves still do not meet: a new
\* comment brings the row it is under within reach of its deletion, and no save
\* of that row is under way.
LEMMA OthersSeparate ==
  ASSUME Inv, calm, NEW p \in Slots, pc[p] # "idle", Writes(p), Calmly(p),
         NEW q \in Slots, q # p, pc[q] # "idle", NEW r \in Slots, r # p, r # q, pc[r] # "idle"
  PROVE  ~Meet(req[q], req[r], comments')
<1>1. Serene
  BY DEF Inv, CalmInv
<1>2. ~Meet(req[q], req[r], comments) /\ ~Meet(req[p], req[q], comments) /\ ~Meet(req[p], req[r], comments)
  BY <1>1 DEF Serene, Separate
<1> DEFINE New(s, x) ==
             req[s].kind = "delete" /\ req[p].kind = "comment" /\ x \in Reach(req[p], comments)
<1>3. ASSUME NEW s \in {q, r}, NEW x \in Reach(req[s], comments')
      PROVE  x \in Reach(req[s], comments) \/ New(s, x)
  <2>1. CASE req[s].kind # "delete"
    BY <1>3, <2>1 DEF Reach
  <2>2. CASE req[s].kind = "delete"
    <3>1. CASE x = req[s].row
      BY <2>2, <3>1 DEF Reach
    <3>2. CASE x # req[s].row
      <4>1. req[s].row \in DOMAIN comments' /\ x = comments'[req[s].row].parent
        BY <1>3, <2>2, <3>2 DEF Reach
      <4>2. CASE req[s].row \in DOMAIN comments
        <5>1. comments'[req[s].row].parent = comments[req[s].row].parent
          BY <4>2 DEF Writes, Grows
        <5> QED
          BY <2>2, <4>1, <4>2, <5>1 DEF Reach
      <4>3. CASE req[s].row \notin DOMAIN comments
        BY <2>2, <4>1, <4>3 DEF Calmly
      <4> QED
        BY <4>2, <4>3
    <3> QED
      BY <3>1, <3>2
  <2> QED
    BY <2>1, <2>2
<1>4. \A s \in {q, r} : req[s].kind \in Saves => Reach(req[s], comments') = Reach(req[s], comments)
  BY DEF Reach, Saves
<1>5. ASSUME NEW s \in {q, r}, NEW t \in {q, r}, s # t, req[s].kind \in Saves,
             NEW x \in Reach(req[s], comments'), x \in Reach(req[t], comments')
      PROVE  FALSE
  <2>1. x \in Reach(req[s], comments)
    BY <1>4, <1>5
  <2>2. CASE x \in Reach(req[t], comments)
    <3>1. Meet(req[q], req[r], comments)
      BY <1>5, <2>1, <2>2 DEF Meet
    <3> QED
      BY <1>2, <3>1
  <2>3. CASE New(t, x)
    <3>1. Meet(req[p], req[s], comments)
      BY <1>5, <2>1, <2>3 DEF Meet
    <3> QED
      BY <1>2, <1>5, <3>1
  <2> QED
    BY <1>3, <1>5, <2>2, <2>3
<1>6. ~({req[q].kind, req[r].kind} \intersect Saves # {}
          /\ Reach(req[q], comments') \intersect Reach(req[r], comments') # {})
  <2>1. SUFFICES ASSUME {req[q].kind, req[r].kind} \intersect Saves # {},
                        NEW x \in Reach(req[q], comments') \intersect Reach(req[r], comments')
                 PROVE  FALSE
    OBVIOUS
  <2>2. CASE req[q].kind \in Saves
    BY <1>5, <2>1, <2>2
  <2>3. CASE req[r].kind \in Saves
    BY <1>5, <2>1, <2>3
  <2> QED
    BY <2>1, <2>2, <2>3
<1> QED
  BY <1>2, <1>6 DEF Meet

\* A write, calmly done while calm, keeps the invariant.
LEMMA WritesKeep ==
  ASSUME Inv, NEW p \in Slots, pc[p] # "idle", Writes(p), calm => Calmly(p)
  PROVE  Inv'
<1>1. Basis /\ CalmInv
  BY DEF Inv
<1>2. /\ Alone(p) /\ pc'[p] = "idle" /\ req'[p] = NoReq /\ answer' \in Answers
      /\ UNCHANGED <<rank, open, calm, sent>>
  BY DEF Writes, Ends, room
<1>3. \A q \in Slots : q # p => pc'[q] = pc[q] /\ req'[q] = req[q] /\ seen'[q] = seen[q]
  BY <1>2 DEF Alone
<1>4. ASSUME NEW q \in Slots PROVE Standing(q)'
  <2>1. CASE q = p
    BY <1>2, <2>1 DEF Standing
  <2>2. CASE q # p /\ pc[q] = "idle"
    <3>1. Standing(q)
      BY <1>1 DEF Basis
    <3> QED
      BY <1>3, <2>2, <3>1 DEF Standing
  <2>3. CASE q # p /\ pc[q] # "idle"
    <3>1. Knows(pc[q], req[q], seen[q], comments, post)
      BY <2>3, AtWork
    <3>2. Grown(comments)
      BY <1>1 DEF Basis
    <3>3. Knows(pc[q], req[q], seen[q], comments', post')
      BY <3>1, <3>2, KnowsStays DEF Writes
    <3> QED
      BY <1>3, <2>3, <3>3 DEF Standing
  <2> QED
    BY <2>1, <2>2, <2>3
<1>5. \A q \in Slots : Kept(seen'[q])
  BY <1>1, <1>2 DEF Alone, Basis
<1>6. Basis'
  BY <1>1, <1>2, <1>4, <1>5 DEF Basis, Alone, Answers, Exists, Writes
<1>7. ASSUME calm' PROVE Serene'
  <2>1. Serene /\ Calmly(p) /\ calm
    BY <1>1, <1>2, <1>7 DEF CalmInv
  <2>2. ASSUME NEW q \in Slots
        PROVE  /\ pc'[q] # "idle" => Undisturbed(pc'[q], req'[q], seen'[q], comments', votes', post')
               /\ pc'[q] \in Cleared => May(req'[q], rank', comments', post')
    <3>1. CASE pc'[q] = "idle"
      BY <3>1 DEF Cleared
    <3>2. CASE pc'[q] # "idle"
      <4>1. q # p /\ pc[q] # "idle" /\ pc'[q] = pc[q] /\ req'[q] = req[q] /\ seen'[q] = seen[q]
        BY <1>2, <1>3, <3>2
      <4> QED
        BY <2>1, <4>1, OthersUndisturbed
    <3> QED
      BY <3>1, <3>2
  <2>3. Separate'
    <3>1. ASSUME NEW q \in Slots, NEW r \in Slots, q # r, pc'[q] # "idle", pc'[r] # "idle"
          PROVE  ~Meet(req'[q], req'[r], comments')
      <4>1. /\ q # p /\ pc[q] # "idle" /\ req'[q] = req[q]
            /\ r # p /\ pc[r] # "idle" /\ req'[r] = req[r]
        BY <1>2, <1>3, <3>1
      <4> QED
        BY <2>1, <3>1, <4>1, OthersSeparate
    <3> QED
      BY <3>1 DEF Separate
  <2> QED
    BY <2>1, <2>2, <2>3 DEF Serene, Calmly
<1> QED
  BY <1>6, <1>7 DEF Inv, CalmInv

\* The counts still lie within what was there to count.
LEMMA WithinStays ==
  ASSUME NEW cs, Grown(cs), NEW cs2, Grown(cs2), Grows(cs, cs2), DOMAIN cs2 = DOMAIN cs,
         NEW ps, ps.commentCount \in Int, ps.commentCount =< Cardinality(Under(cs, Post)),
         \A c \in DOMAIN cs : cs2[c].replyCount =< Cardinality(Under(cs, c))
  PROVE  Within(cs2, ps)
<1>1. \A row : /\ Cardinality(Under(cs, row)) \in Nat /\ Cardinality(Under(cs2, row)) \in Nat
               /\ Cardinality(Under(cs, row)) =< Cardinality(Under(cs2, row))
  BY UnderGrows
<1>2. ps.commentCount =< Cardinality(Under(cs2, Post))
  BY <1>1
<1>3. ASSUME NEW c \in DOMAIN cs2 PROVE cs2[c].replyCount =< Cardinality(Under(cs2, c))
  <2>1. cs2[c].replyCount \in Int
    BY Ids, CommentFields
  <2> QED
    BY <1>1, <2>1
<1> QED
  BY <1>2, <1>3 DEF Within

\* What the counts of a row are about does not change.
LEMMA ExactStays ==
  ASSUME NEW cs, NEW vs, NEW ps, Exact(cs, vs, ps), NEW cs2, DOMAIN cs2 = DOMAIN cs,
         NEW ps2, ps2.commentCount = ps.commentCount,
         \A c \in DOMAIN cs : /\ cs2[c].parent = cs[c].parent
                              /\ cs2[c].status = cs[c].status
                              /\ cs2[c].replyCount = cs[c].replyCount
                              /\ cs2[c].upvoteCount = cs[c].upvoteCount
                              /\ cs2[c].downvoteCount = cs[c].downvoteCount
  PROVE  Exact(cs2, vs, ps2)
<1>1. \A row : Live(cs2, row) = Live(cs, row)
  BY DEF Live
<1> QED
  BY <1>1 DEF Exact, Balanced

\* A save of a comment that is the row but for its text.
LEMMA EditUpdateKeeps ==
  ASSUME Inv, NEW p \in Slots, EditUpdate(p)
  PROVE  /\ Inv'
         /\ calm => LET c == req[p].row
                    IN \A f \in DOMAIN comments[c] \ {"text"} : comments'[c][f] = comments[c][f]
<1>1. /\ pc[p] = "editUpdate" /\ pc[p] # "idle"
      /\ comments' = [comments EXCEPT ![req[p].row] = Saved(@, EditedComment(p), seen[p].cols)]
      /\ Answer(p, "done") /\ UNCHANGED <<post, votes>>
  BY DEF EditUpdate
<1>2. /\ Knows(pc[p], req[p], seen[p], comments, post)
      /\ calm => Undisturbed(pc[p], req[p], seen[p], comments, votes, post)
  BY <1>1, AtWork
<1>3. req[p].kind = "edit" /\ req[p].arg \in Texts /\ req[p].row \in DOMAIN comments
  BY <1>1, <1>2 DEF Knows, Stands, Asked, OnFound
<1>4. PICK c : c = req[p].row
  OBVIOUS
<1>5. PICK e : e = EditedComment(p)
  OBVIOUS
<1>6. PICK x : x = Saved(comments[c], e, seen[p].cols)
  OBVIOUS
<1>7. Basis /\ Grown(comments)
  BY DEF Inv, Basis
<1>8. c \in DOMAIN comments /\ comments[c] \in Comments
  BY <1>3, <1>4, <1>7, Ids
<1>9. /\ seen[p].entity \in Comments
      /\ seen[p].entity.author = comments[c].author
      /\ seen[p].entity.parent = comments[c].parent
      /\ seen[p].entity.depth = comments[c].depth
      /\ seen[p].entity.replyCount =< Cardinality(Under(comments, c))
      /\ calm => seen[p].entity = comments[c]
  BY <1>1, <1>2, <1>4 DEF Knows, HoldsComment, Undisturbed
<1>10. e = [seen[p].entity EXCEPT !.text = req[p].arg]
  BY <1>5 DEF EditedComment
<1>11. /\ e \in Comments
       /\ e.author = seen[p].entity.author /\ e.parent = seen[p].entity.parent
       /\ e.depth = seen[p].entity.depth /\ e.replyCount = seen[p].entity.replyCount
       /\ e.upvoteCount = seen[p].entity.upvoteCount
       /\ e.downvoteCount = seen[p].entity.downvoteCount /\ e.status = seen[p].entity.status
  BY <1>3, <1>9, <1>10 DEF Comments
<1>12. /\ x \in Comments
       /\ x.author \in {comments[c].author, e.author}
       /\ x.parent \in {comments[c].parent, e.parent}
       /\ x.depth \in {comments[c].depth, e.depth}
       /\ x.replyCount \in {comments[c].replyCount, e.replyCount}
       /\ x.upvoteCount \in {comments[c].upvoteCount, e.upvoteCount}
       /\ x.downvoteCount \in {comments[c].downvoteCount, e.downvoteCount}
       /\ x.status \in {comments[c].status, e.status}
  BY <1>6, <1>8, <1>11, SavedComment
<1>13. comments' = [comments EXCEPT ![c] = x]
  BY <1>1, <1>4, <1>5, <1>6
<1>14. PICK cs : cs = comments'
  OBVIOUS
<1>15. /\ Grown(cs) /\ Grows(comments, cs) /\ DOMAIN cs = DOMAIN comments
       /\ cs[c] = x /\ \A d \in DOMAIN comments : d # c => cs[d] = comments[d]
  <2>1. x.author = comments[c].author /\ x.parent = comments[c].parent /\ x.depth = comments[c].depth
    BY <1>9, <1>11, <1>12
  <2>2. cs = Put(comments, c, x)
    BY <1>13, <1>14 DEF Put
  <2> QED
    BY <1>7, <1>8, <1>12, <2>1, <2>2, PutIs
<1>16. Within(comments, post) /\ (comments # <<>> => Exists) /\ post \in Posts \union {NoPost}
       /\ votes \subseteq Votes /\ IsFiniteSet(votes)
  BY <1>7 DEF Basis
<1>17. Within(cs, post)
  <2>1. \A d \in DOMAIN comments : cs[d].replyCount =< Cardinality(Under(comments, d))
    BY <1>9, <1>11, <1>12, <1>15, <1>16 DEF Within
  <2>2. post.commentCount \in Int
    BY <1>16 DEF Posts, NoPost
  <2> QED
    BY <1>7, <1>15, <1>16, <2>1, <2>2, WithinStays DEF Within
<1>18. Exists
  BY <1>8, <1>16
<1>19. Writes(p)
  <2>1. Ends(p)
    BY <1>1, AnswerIs DEF Answers
  <2> QED
    BY <1>1, <1>14, <1>15, <1>16, <1>17, <1>18, <2>1 DEF Writes, Exists
<1>20. ASSUME calm PROVE Calmly(p)
  <2>1. Serene
    BY <1>20 DEF Inv, CalmInv
  <2>2. /\ x.parent = comments[c].parent /\ x.status = comments[c].status
        /\ x.replyCount = comments[c].replyCount
        /\ x.upvoteCount = comments[c].upvoteCount /\ x.downvoteCount = comments[c].downvoteCount
    BY <1>9, <1>11, <1>12, <1>20
  <2>3. Exact(cs, votes, post)
    BY <1>15, <2>1, <2>2, ExactStays DEF Serene
  <2>4. c \in Reach(req[p], comments)
    BY <1>3, <1>4 DEF Reach
  <2> QED
    BY <1>1, <1>14, <1>15, <2>1, <2>2, <2>3, <2>4 DEF Calmly, Serene
<1>21. ASSUME calm, NEW f \in DOMAIN comments[c] \ {"text"} PROVE cs[c][f] = comments[c][f]
  <2>1. f \in {"author", "parent", "depth", "replyCount", "upvoteCount", "downvoteCount", "status"}
    BY <1>8, <1>21, CommentFields
  <2>2. seen[p].entity = comments[c]
    BY <1>9, <1>21
  <2> QED
    BY <1>11, <1>12, <1>15, <2>1, <2>2
<1> QED
  BY <1>1, <1>4, <1>14, <1>19, <1>20, <1>21, WritesKeep

\* A save of the post.
LEMMA PostUpdateKeeps ==
  ASSUME Inv, NEW p \in Slots, PostUpdate(p)
  PROVE  /\ Inv'
         /\ calm => \A f \in DOMAIN post \ {Column(req[p].kind)} : post'[f] = post[f]
<1>1. /\ pc[p] = "postUpdate" /\ pc[p] # "idle"
      /\ post' = Saved(post, ChangedPost(p), seen[p].cols)
      /\ Answer(p, "done") /\ UNCHANGED <<comments, votes>>
  BY DEF PostUpdate
<1>2. /\ Knows(pc[p], req[p], seen[p], comments, post)
      /\ calm => Undisturbed(pc[p], req[p], seen[p], comments, votes, post)
  BY <1>1, AtWork
<1>3. /\ req[p].kind \in {"update", "pin", "lock"} /\ req[p].row = Post
      /\ req[p].kind = "update" => req[p].arg \in Texts
      /\ post.status # "none"
  BY <1>1, <1>2 DEF Knows, Stands, Asked, OnPost, OnExisting
<1>4. Basis
  BY DEF Inv
<1>5. post \in Posts
  BY <1>3, <1>4 DEF Basis, NoPost
<1>6. PICK e : e = seen[p].entity
  OBVIOUS
<1>7. PICK x : x = ChangedPost(p)
  OBVIOUS
<1>8. /\ e \in Posts /\ e.author = post.author
      /\ e.commentCount =< Cardinality(Under(comments, Post))
      /\ calm => e = post
  BY <1>1, <1>2, <1>6 DEF Knows, HoldsPost, Undisturbed
<1>9. /\ req[p].kind = "update" => x = [e EXCEPT !.text = req[p].arg]
      /\ req[p].kind = "pin" => x = [e EXCEPT !.isPinned = ~@]
      /\ req[p].kind = "lock" => x = [e EXCEPT !.isLocked = ~@]
  BY <1>6, <1>7 DEF ChangedPost
<1>10. /\ x \in Posts /\ x.author = e.author /\ x.commentCount = e.commentCount /\ x.status = e.status
       /\ req[p].kind # "update" => x.text = e.text
       /\ req[p].kind # "pin" => x.isPinned = e.isPinned
       /\ req[p].kind # "lock" => x.isLocked = e.isLocked
  <2>1. CASE req[p].kind = "update"
    BY <1>3, <1>8, <1>9, <2>1 DEF Posts
  <2>2. CASE req[p].kind = "pin"
    BY <1>3, <1>8, <1>9, <2>2 DEF Posts
  <2>3. CASE req[p].kind = "lock"
    BY <1>3, <1>8, <1>9, <2>3 DEF Posts
  <2> QED
    BY <1>3, <2>1, <2>2, <2>3
<1>11. PICK s : s = post'
  OBVIOUS
<1>12. /\ s \in Posts
       /\ s.author \in {post.author, x.author}
       /\ s.commentCount \in {post.commentCount, x.commentCount}
       /\ s.isPinned \in {post.isPinned, x.isPinned}
       /\ s.isLocked \in {post.isLocked, x.isLocked}
       /\ s.status \in {post.status, x.status}
       /\ s.text \in {post.text, x.text}
  BY <1>1, <1>5, <1>7, <1>10, <1>11, SavedPost
<1>13. s.status # "none" /\ s.author = post.author
  BY <1>8, <1>10, <1>12 DEF Posts
<1>14. Within(comments, s)
  BY <1>4, <1>8, <1>10, <1>12 DEF Basis, Within
<1>15. Writes(p)
  <2>1. Ends(p)
    BY <1>1, AnswerIs DEF Answers
  <2> QED
    BY <1>1, <1>4, <1>11, <1>12, <1>13, <1>14, <2>1 DEF Writes, Basis, Grows
<1>16. ASSUME calm
       PROVE  /\ s.author = post.author /\ s.commentCount = post.commentCount /\ s.status = post.status
              /\ req[p].kind # "update" => s.text = post.text
              /\ req[p].kind # "pin" => s.isPinned = post.isPinned
              /\ req[p].kind # "lock" => s.isLocked = post.isLocked
  BY <1>8, <1>10, <1>12, <1>16
<1>17. ASSUME calm PROVE Calmly(p)
  <2>1. Serene
    BY <1>17 DEF Inv, CalmInv
  <2>2. Exact(comments, votes, s)
    BY <1>16, <1>17, <2>1 DEF Serene, Exact
  <2>3. Post \in Reach(req[p], comments)
    BY <1>3 DEF Reach
  <2> QED
    BY <1>1, <1>11, <1>16, <1>17, <2>1, <2>2, <2>3 DEF Calmly, Serene
<1>18. ASSUME calm, NEW f \in DOMAIN post \ {Column(req[p].kind)} PROVE post'[f] = post[f]
  <2>1. f \in {"author", "commentCount", "isPinned", "isLocked", "status", "text"}
    BY <1>5 DEF Posts
  <2>2. /\ req[p].kind = "update" => f # "text"
        /\ req[p].kind = "pin" => f # "isPinned"
        /\ req[p].kind = "lock" => f # "isLocked"
    BY <1>18 DEF Column
  <2> QED
    BY <1>3, <1>11, <1>16, <1>18, <2>1, <2>2
<1> QED
  BY <1>1, <1>15, <1>17, <1>18, WritesKeep

-----------------------------------------------------------------------------
(* Votes.                                                                  *)

\* Comments of which one has been counted up, or down.
Tallied(cs, c, cs2, up, down) ==
  /\ Grown(cs2) /\ Grows(cs, cs2) /\ DOMAIN cs2 = DOMAIN cs
  /\ \A d \in DOMAIN cs : d # c => cs2[d] = cs[d]
  /\ cs2[c].replyCount = cs[c].replyCount /\ cs2[c].status = cs[c].status
  /\ cs2[c].upvoteCount = cs[c].upvoteCount + up
  /\ cs2[c].downvoteCount = cs[c].downvoteCount + down

\* Comments of which one has this number in the place of a count.
Counted(cs, c, field, n) == [cs EXCEPT ![c] = [cs[c] EXCEPT ![field] = n]]

\* Counted changes one count of votes, and nothing else.
LEMMA CountedIs ==
  ASSUME NEW cs, Grown(cs), NEW c \in DOMAIN cs, NEW type \in VoteTypes, NEW n \in Int,
         NEW cs2, cs2 = Counted(cs, c, Counter(type), n)
  PROVE  /\ Grown(cs2) /\ Grows(cs, cs2) /\ DOMAIN cs2 = DOMAIN cs
         /\ \A d \in DOMAIN cs : d # c => cs2[d] = cs[d]
         /\ cs2[c].replyCount = cs[c].replyCount /\ cs2[c].status = cs[c].status
         /\ cs2[c].upvoteCount = IF type = "upvote" THEN n ELSE cs[c].upvoteCount
         /\ cs2[c].downvoteCount = IF type = "upvote" THEN cs[c].downvoteCount ELSE n
<1>1. cs[c] \in Comments
  BY Ids
<1>2. PICK x : x = [cs[c] EXCEPT ![Counter(type)] = n]
  OBVIOUS
<1>3. /\ x \in Comments
      /\ x.author = cs[c].author /\ x.parent = cs[c].parent /\ x.depth = cs[c].depth
      /\ x.replyCount = cs[c].replyCount /\ x.status = cs[c].status
      /\ x.upvoteCount = IF type = "upvote" THEN n ELSE cs[c].upvoteCount
      /\ x.downvoteCount = IF type = "upvote" THEN cs[c].downvoteCount ELSE n
  <2>1. CASE type = "upvote"
    <3>1. x = [cs[c] EXCEPT !.upvoteCount = n]
      BY <1>2, <2>1 DEF Counter
    <3> QED
      BY <1>1, <2>1, <3>1 DEF Comments
  <2>2. CASE type = "downvote"
    <3>1. x = [cs[c] EXCEPT !.downvoteCount = n]
      BY <1>2, <2>2 DEF Counter
    <3> QED
      BY <1>1, <2>2, <3>1 DEF Comments
  <2> QED
    BY <2>1, <2>2 DEF VoteTypes
<1>4. cs2 = Put(cs, c, x)
  BY <1>2 DEF Counted, Put
<1>5. /\ Grown(cs2) /\ Grows(cs, cs2) /\ DOMAIN cs2 = DOMAIN cs
      /\ cs2[c] = x
      /\ \A e \in DOMAIN cs : e # c => cs2[e] = cs[e]
  BY <1>3, <1>4, PutIs
<1> QED
  BY <1>3, <1>5

\* One count of votes, changed by d.
LEMMA TalliedIs ==
  ASSUME NEW cs, Grown(cs), NEW c \in DOMAIN cs, NEW type \in VoteTypes, NEW d \in Int,
         NEW cs2, cs2 = Counted(cs, c, Counter(type), cs[c][Counter(type)] + d),
         NEW up, up = (IF type = "upvote" THEN d ELSE 0),
         NEW down, down = (IF type = "upvote" THEN 0 ELSE d)
  PROVE  Tallied(cs, c, cs2, up, down)
<1>1. cs[c].upvoteCount \in Int /\ cs[c].downvoteCount \in Int
  BY Ids, CommentFields
<1>2. PICK n : n = cs[c][Counter(type)] + d
  OBVIOUS
<1>3. /\ n \in Int
      /\ type = "upvote" => n = cs[c].upvoteCount + d
      /\ type # "upvote" => n = cs[c].downvoteCount + d
  BY <1>1, <1>2 DEF Counter
<1>4. /\ Grown(cs2) /\ Grows(cs, cs2) /\ DOMAIN cs2 = DOMAIN cs
      /\ \A e \in DOMAIN cs : e # c => cs2[e] = cs[e]
      /\ cs2[c].replyCount = cs[c].replyCount /\ cs2[c].status = cs[c].status
      /\ cs2[c].upvoteCount = IF type = "upvote" THEN n ELSE cs[c].upvoteCount
      /\ cs2[c].downvoteCount = IF type = "upvote" THEN cs[c].downvoteCount ELSE n
  BY <1>2, <1>3, CountedIs
<1> QED
  BY <1>1, <1>3, <1>4 DEF Tallied

\* Counted one way, then another.
LEMMA TalliedTwice ==
  ASSUME NEW cs, Grown(cs), NEW c \in DOMAIN cs, NEW m, NEW cs2,
         NEW u \in Int, NEW d \in Int, NEW u2 \in Int, NEW d2 \in Int,
         Tallied(cs, c, m, u, d), Tallied(m, c, cs2, u2, d2)
  PROVE  Tallied(cs, c, cs2, u + u2, d + d2)
<1>1. cs[c].upvoteCount \in Int /\ cs[c].downvoteCount \in Int
  BY Ids, CommentFields
<1>2. Grows(cs, cs2)
  BY DEF Tallied, Grows
<1> QED
  BY <1>1, <1>2 DEF Tallied

\* What is cast when a vote comes, and when it goes.
LEMMA CastGains ==
  ASSUME NEW vs, IsFiniteSet(vs), NEW v, v \notin vs, NEW c, NEW type
  PROVE  /\ Cardinality(Cast(vs, c, type)) \in Nat
         /\ Cardinality(Cast(vs \union {v}, c, type))
              = IF v.comment = c /\ v.type = type THEN Cardinality(Cast(vs, c, type)) + 1
                ELSE Cardinality(Cast(vs, c, type))
<1>1. Cast(vs, c, type) \subseteq vs /\ v \notin Cast(vs, c, type)
  BY DEF Cast
<1>2. IsFiniteSet(Cast(vs, c, type)) /\ Cardinality(Cast(vs, c, type)) \in Nat
  BY <1>1, FS_Subset, FS_CardinalityType
<1>3. CASE v.comment = c /\ v.type = type
  <2>1. Cast(vs \union {v}, c, type) = Cast(vs, c, type) \union {v}
    BY <1>3 DEF Cast
  <2>2. Cardinality(Cast(vs, c, type) \union {v}) = Cardinality(Cast(vs, c, type)) + 1
    BY <1>1, <1>2, FS_AddElement
  <2> QED
    BY <1>2, <1>3, <2>1, <2>2
<1>4. CASE ~(v.comment = c /\ v.type = type)
  <2>1. Cast(vs \union {v}, c, type) = Cast(vs, c, type)
    BY <1>4 DEF Cast
  <2> QED
    BY <1>2, <1>4, <2>1
<1> QED
  BY <1>3, <1>4

\* What is cast when a vote goes.
LEMMA CastLoses ==
  ASSUME NEW vs, IsFiniteSet(vs), NEW v \in vs, NEW c, NEW type
  PROVE  /\ Cardinality(Cast(vs \ {v}, c, type)) \in Nat
         /\ Cardinality(Cast(vs, c, type))
              = IF v.comment = c /\ v.type = type THEN Cardinality(Cast(vs \ {v}, c, type)) + 1
                ELSE Cardinality(Cast(vs \ {v}, c, type))
<1>1. PICK ws : ws = vs \ {v}
  OBVIOUS
<1>2. v \notin ws /\ ws \union {v} = vs /\ ws \subseteq vs
  BY <1>1
<1>3. IsFiniteSet(ws)
  BY <1>2, FS_Subset
<1> QED
  BY <1>1, <1>2, <1>3, CastGains

\* What the last step of a vote must show to keep the invariant.
LEMMA VoteKeeps ==
  ASSUME Inv, NEW p \in Slots, pc[p] # "idle", req[p].kind = "vote", req[p].row \in DOMAIN comments,
         Ends(p), post' = post, NEW up \in Int, NEW down \in Int,
         Tallied(comments, req[p].row, comments', up, down),
         votes' \subseteq Votes, IsFiniteSet(votes'),
         calm =>
           /\ \A v \in (votes \ votes') \union (votes' \ votes) :
                v.user = req[p].user /\ v.comment = req[p].row
           /\ VotesApart(votes')
           /\ Cardinality(Cast(votes', req[p].row, "upvote"))
                = Cardinality(Cast(votes, req[p].row, "upvote")) + up
           /\ Cardinality(Cast(votes', req[p].row, "downvote"))
                = Cardinality(Cast(votes, req[p].row, "downvote")) + down
  PROVE  Inv'
<1>1. Basis /\ Grown(comments) /\ Within(comments, post)
  BY DEF Inv, Basis
<1>2. PICK c : c = req[p].row
  OBVIOUS
<1>3. PICK cs : cs = comments'
  OBVIOUS
<1>4. /\ Grown(cs) /\ Grows(comments, cs) /\ DOMAIN cs = DOMAIN comments
      /\ \A d \in DOMAIN comments : d # c => cs[d] = comments[d]
      /\ cs[c].replyCount = comments[c].replyCount /\ cs[c].status = comments[c].status
      /\ cs[c].upvoteCount = comments[c].upvoteCount + up
      /\ cs[c].downvoteCount = comments[c].downvoteCount + down
  BY <1>2, <1>3 DEF Tallied
<1>5. Within(cs, post)
  <2>1. \A d \in DOMAIN comments : cs[d].replyCount =< Cardinality(Under(comments, d))
    BY <1>1, <1>4 DEF Within
  <2>2. post.commentCount \in Int
    BY <1>1 DEF Basis, Posts, NoPost
  <2> QED
    BY <1>1, <1>4, <2>1, <2>2, WithinStays DEF Within
<1>6. post.status # "none" /\ post \in Posts \union {NoPost}
  BY <1>1, Ids DEF Basis, Exists
<1>7. Writes(p)
  BY <1>3, <1>4, <1>5, <1>6 DEF Writes
<1>8. ASSUME calm PROVE Calmly(p)
  <2>1. Serene
    BY <1>8 DEF Inv, CalmInv
  <2>2. \A row : Live(cs, row) = Live(comments, row)
    BY <1>4 DEF Live, Grows
  <2>3. \A d : d # c => \A type : Cast(votes', d, type) = Cast(votes, d, type)
    BY <1>2, <1>8 DEF Cast
  <2>4. ASSUME NEW d \in DOMAIN cs PROVE Balanced(cs, votes', d)
    <3>1. Balanced(comments, votes, d)
      BY <1>4, <2>1 DEF Serene, Exact
    <3>2. CASE d = c
      BY <1>2, <1>4, <1>8, <2>2, <3>1, <3>2 DEF Balanced
    <3>3. CASE d # c
      BY <1>4, <2>2, <2>3, <3>1, <3>3 DEF Balanced
    <3> QED
      BY <3>2, <3>3
  <2>5. Exact(cs, votes', post)
    BY <2>1, <2>2, <2>4 DEF Serene, Exact
  <2>6. c \in Reach(req[p], comments)
    BY <1>2 DEF Reach
  <2>7. \A v \in votes' : v.comment \in DOMAIN comments
    BY <1>2, <1>8, <2>1 DEF Serene
  <2> QED
    BY <1>3, <1>4, <1>8, <2>5, <2>6, <2>7 DEF Calmly
<1> QED
  BY <1>7, <1>8, WritesKeep

\* A vote's request at its last step.
LEMMA Voting ==
  ASSUME Inv, NEW p \in Slots, pc[p] \in {"voteNew"} \union HoldsVote
  PROVE  /\ pc[p] # "idle" /\ req[p].kind = "vote" /\ req[p].arg \in VoteTypes
         /\ req[p].user \in Users
         /\ req[p].row \in DOMAIN comments /\ req[p].row \in 1..MaxComments
         /\ pc[p] \in HoldsVote =>
              /\ seen[p].vote \in Votes /\ seen[p].vote.user = req[p].user
              /\ seen[p].vote.comment = req[p].row
              /\ seen[p].vote.type = req[p].arg <=> pc[p] = "voteRemove"
<1>1. pc[p] # "idle"
  BY DEF HoldsVote
<1>2. Knows(pc[p], req[p], seen[p], comments, post) /\ Asked(req[p]) /\ Stands(pc[p], req[p].kind)
  BY <1>1, AtWork
<1>3. req[p].kind = "vote"
  BY <1>2 DEF Stands, HoldsVote
<1>4. req[p].arg \in VoteTypes /\ req[p].user \in Users /\ req[p].row \in 0..MaxComments /\ req[p].row # Post
  BY <1>2, <1>3 DEF Asked
<1>5. req[p].row \in 1..MaxComments
  BY <1>4, BoundsAssumption DEF Post
<1>6. req[p].row \in DOMAIN comments
  BY <1>2 DEF Knows, OnFound, HoldsVote
<1> QED
  BY <1>1, <1>2, <1>3, <1>4, <1>5, <1>6 DEF Knows

\* A vote refused because its user has one already.
LEMMA ConflictKeeps ==
  ASSUME Inv, NEW p \in Slots, Answer(p, "conflict"), UNCHANGED tables
  PROVE  Inv'
BY AnswerIs, ReadsKeep DEF Reads, Answers

\* A first vote: its id is fresh and its count grows by one.
LEMMA VoteNewKeeps == ASSUME Inv, NEW p \in Slots, VoteNew(p) PROVE Inv'
<1>1. pc[p] = "voteNew"
  BY DEF VoteNew
<1>2. /\ pc[p] # "idle" /\ req[p].kind = "vote" /\ req[p].arg \in VoteTypes
      /\ req[p].user \in Users
      /\ req[p].row \in DOMAIN comments /\ req[p].row \in 1..MaxComments
  BY <1>1, Voting
<1>3. CASE Clash(p)
  BY <1>3, ConflictKeeps DEF VoteNew
<1>4. CASE ~Clash(p)
  <2>1. PICK v : v = [id |-> FreshId, comment |-> req[p].row, user |-> req[p].user, type |-> req[p].arg]
    OBVIOUS
  <2>2. /\ votes' = votes \union {v}
        /\ comments' = [comments EXCEPT ![req[p].row][Counter(req[p].arg)] = @ + 1]
        /\ Answer(p, "done") /\ post' = post
    BY <1>4, <2>1 DEF VoteNew, Tally
  <2>3. Grown(comments) /\ votes \subseteq Votes /\ IsFiniteSet(votes) /\ DOMAIN seen = Slots
    BY DEF Inv, Basis
  <2>4. FreshId \in Nat \ {0} /\ \A w \in votes : w.id # FreshId
    BY <2>3, FreshIdIs
  <2>5. /\ v \in Votes
        /\ v.id = FreshId /\ v.comment = req[p].row /\ v.user = req[p].user /\ v.type = req[p].arg
    BY <1>2, <2>1, <2>4 DEF Votes
  <2>6. v \notin votes
    BY <2>4, <2>5
  <2>7. IsFiniteSet(votes') /\ votes' \subseteq Votes
    BY <2>2, <2>3, <2>5, FS_AddElement
  <2>8. PICK cs : cs = comments'
    OBVIOUS
  <2> DEFINE d == 1
  <2>d. PICK up, down :
          /\ up = (IF req[p].arg = "upvote" THEN d ELSE 0)
          /\ down = (IF req[p].arg = "upvote" THEN 0 ELSE d)
    OBVIOUS
  <2>9. Tallied(comments, req[p].row, cs, up, down)
    <3>1. cs = Counted(comments, req[p].row, Counter(req[p].arg),
                       comments[req[p].row][Counter(req[p].arg)] + d)
      BY <2>2, <2>8 DEF Counted
    <3>2. d \in Int
      OBVIOUS
    <3> HIDE DEF d
    <3> QED
      BY <1>2, <2>3, <2>d, <3>1, <3>2, TalliedIs
  <2>10. ASSUME calm PROVE VotesApart(votes')
    <3>1. VotesApart(votes) /\ \A w \in votes : ~(w.user = req[p].user /\ w.comment = req[p].row)
      <4>1. Serene /\ Undisturbed(pc[p], req[p], seen[p], comments, votes, post)
        BY <1>2, <2>10, AtWork DEF Inv, CalmInv
      <4> QED
        BY <1>1, <4>1 DEF Serene, Undisturbed
    <3> QED
      BY <2>2, <2>4, <2>5, <3>1 DEF VotesApart
  <2>11. /\ Cardinality(Cast(votes', req[p].row, "upvote"))
              = Cardinality(Cast(votes, req[p].row, "upvote")) + up
         /\ Cardinality(Cast(votes', req[p].row, "downvote"))
              = Cardinality(Cast(votes, req[p].row, "downvote")) + down
    BY <1>2, <2>d, <2>2, <2>3, <2>5, <2>6, CastGains DEF VoteTypes
  <2>12. \A w \in (votes \ votes') \union (votes' \ votes) : w.user = req[p].user /\ w.comment = req[p].row
    BY <2>2, <2>5
  <2>13. Ends(p)
    BY <2>2, AnswerIs DEF Answers
  <2>14. up \in Int /\ down \in Int
    BY <2>d
  <2> QED
    BY <1>2, <2>2, <2>7, <2>8, <2>9, <2>10, <2>11, <2>12, <2>13, <2>14, VoteKeeps
<1> QED
  BY <1>3, <1>4

\* A vote taken back: while calm it is there, and its count loses one.
LEMMA VoteRemoveKeeps == ASSUME Inv, NEW p \in Slots, VoteRemove(p) PROVE Inv'
<1>1. /\ pc[p] = "voteRemove"
      /\ votes' = {v \in votes : v.id # seen[p].vote.id}
      /\ comments' = [comments EXCEPT ![req[p].row][Counter(req[p].arg)] = @ + -1]
      /\ Answer(p, "done") /\ post' = post
  BY DEF VoteRemove, Tally
<1>2. /\ pc[p] # "idle" /\ req[p].kind = "vote" /\ req[p].arg \in VoteTypes
      /\ req[p].row \in DOMAIN comments
      /\ seen[p].vote \in Votes /\ seen[p].vote.user = req[p].user
      /\ seen[p].vote.comment = req[p].row /\ seen[p].vote.type = req[p].arg
  BY <1>1, Voting DEF HoldsVote
<1>3. Grown(comments) /\ votes \subseteq Votes /\ IsFiniteSet(votes)
  BY DEF Inv, Basis
<1>4. votes' \subseteq Votes /\ IsFiniteSet(votes')
  BY <1>1, <1>3, FS_Subset
<1>5. PICK cs : cs = comments'
  OBVIOUS
<1> DEFINE d == -1
<1>d. PICK up, down :
        /\ up = (IF req[p].arg = "upvote" THEN d ELSE 0)
        /\ down = (IF req[p].arg = "upvote" THEN 0 ELSE d)
  OBVIOUS
<1>6. Tallied(comments, req[p].row, cs, up, down)
  <2>1. cs = Counted(comments, req[p].row, Counter(req[p].arg),
                     comments[req[p].row][Counter(req[p].arg)] + d)
    BY <1>1, <1>5 DEF Counted
  <2>2. d \in Int
    OBVIOUS
  <2> HIDE DEF d
  <2> QED
    BY <1>2, <1>3, <1>d, <2>1, <2>2, TalliedIs
<1>7. ASSUME calm
      PROVE  /\ \A w \in (votes \ votes') \union (votes' \ votes) :
                  w.user = req[p].user /\ w.comment = req[p].row
             /\ VotesApart(votes')
             /\ Cardinality(Cast(votes', req[p].row, "upvote"))
                  = Cardinality(Cast(votes, req[p].row, "upvote")) + up
             /\ Cardinality(Cast(votes', req[p].row, "downvote"))
                  = Cardinality(Cast(votes, req[p].row, "downvote")) + down
  <2>1. Serene /\ Undisturbed(pc[p], req[p], seen[p], comments, votes, post)
    BY <1>2, <1>7, AtWork DEF Inv, CalmInv
  <2>2. PICK v : v = seen[p].vote
    OBVIOUS
  <2>3. v \in votes /\ VotesApart(votes)
    BY <1>1, <2>1, <2>2 DEF Undisturbed, Serene
  <2>4. votes' = votes \ {v}
    BY <1>1, <2>2, <2>3 DEF VotesApart
  <2>5. VotesApart(votes')
    BY <2>3, <2>4 DEF VotesApart
  <2>6. \A w \in (votes \ votes') \union (votes' \ votes) : w.user = req[p].user /\ w.comment = req[p].row
    BY <1>2, <2>2, <2>4
  <2>7. v.comment = req[p].row /\ v.type = req[p].arg
    BY <1>2, <2>2
  <2> QED
    BY <1>2, <1>3, <1>d, <2>3, <2>4, <2>5, <2>6, <2>7, CastLoses DEF VoteTypes
<1>8. Ends(p)
  BY <1>1, AnswerIs DEF Answers
<1>9. up \in Int /\ down \in Int
  BY <1>d
<1> QED
  BY <1>1, <1>2, <1>4, <1>5, <1>6, <1>7, <1>8, <1>9, VoteKeeps

\* A set of votes in which one has been put in the place of those with its id.
LEMMA ReplacedFinite ==
  ASSUME NEW vs, vs \subseteq Votes, IsFiniteSet(vs), NEW x \in Votes,
         NEW ws, ws = {IF v.id = x.id THEN x ELSE v : v \in vs}
  PROVE  ws \subseteq Votes /\ IsFiniteSet(ws)
<1>1. vs \union {x} \subseteq Votes /\ IsFiniteSet(vs \union {x})
  BY FS_AddElement
<1>2. ws \subseteq vs \union {x}
  OBVIOUS
<1> QED
  BY <1>1, <1>2, FS_Subset

\* A vote that changes its type: one count loses what the other gains.
LEMMA VoteChangeKeeps == ASSUME Inv, NEW p \in Slots, VoteChange(p) PROVE Inv'
<1>1. pc[p] \in {"voteInsert", "voteUpdate", "voteSame"}
  BY DEF VoteChange
<1>2. /\ pc[p] # "idle" /\ req[p].kind = "vote" /\ req[p].arg \in VoteTypes
      /\ req[p].row \in DOMAIN comments
      /\ seen[p].vote \in Votes /\ seen[p].vote.user = req[p].user
      /\ seen[p].vote.comment = req[p].row /\ seen[p].vote.type # req[p].arg
  BY <1>1, Voting DEF HoldsVote
<1>3. CASE pc[p] = "voteInsert" /\ Clash(p)
  BY <1>3, ConflictKeeps DEF VoteChange
<1>4. CASE ~(pc[p] = "voteInsert" /\ Clash(p))
  <2>1. PICK old : old = seen[p].vote
    OBVIOUS
  <2>2. PICK new : new = [seen[p].vote EXCEPT !.type = req[p].arg]
    OBVIOUS
  <2>3. /\ old \in Votes /\ new \in Votes /\ new.id = old.id
        /\ new.user = req[p].user /\ old.user = req[p].user
        /\ new.comment = req[p].row /\ old.comment = req[p].row
        /\ new.type = req[p].arg /\ old.type \in VoteTypes /\ old.type # new.type
    BY <1>2, <2>1, <2>2 DEF Votes
  <2>4. /\ Answer(p, "done") /\ post' = post
        /\ comments' = [comments EXCEPT ![req[p].row][Counter(old.type)] = @ - 1,
                                        ![req[p].row][Counter(new.type)] = @ + 1]
        /\ votes' = CASE pc[p] = "voteInsert" -> votes \union {new}
                      [] pc[p] = "voteUpdate" -> {IF v.id = new.id THEN new ELSE v : v \in votes}
                      [] OTHER -> votes
    BY <1>4, <2>1, <2>2, <2>3 DEF VoteChange
  <2>5. Grown(comments) /\ votes \subseteq Votes /\ IsFiniteSet(votes)
    BY DEF Inv, Basis
  <2>6. votes' \subseteq Votes /\ IsFiniteSet(votes')
    <3>1. CASE pc[p] = "voteInsert"
      BY <2>3, <2>4, <2>5, <3>1, FS_AddElement
    <3>2. CASE pc[p] = "voteUpdate"
      BY <2>3, <2>4, <2>5, <3>2, ReplacedFinite
    <3>3. CASE pc[p] = "voteSame"
      BY <2>4, <2>5, <3>3
    <3> QED
      BY <1>1, <3>1, <3>2, <3>3
  <2> DEFINE row == req[p].row
             was == Counter(old.type)
             is == Counter(new.type)
             less == -1
             more == 1
  <2>7. PICK m : m = Counted(comments, row, was, comments[row][was] + less)
    OBVIOUS
  <2>8. PICK cs : cs = comments'
    OBVIOUS
  <2>d. PICK u, d, u2, d2 :
          /\ u = (IF old.type = "upvote" THEN less ELSE 0) /\ d = (IF old.type = "upvote" THEN 0 ELSE less)
          /\ u2 = (IF new.type = "upvote" THEN more ELSE 0) /\ d2 = (IF new.type = "upvote" THEN 0 ELSE more)
    OBVIOUS
  <2>9. u \in Int /\ d \in Int /\ u2 \in Int /\ d2 \in Int /\ less \in Int /\ more \in Int
    BY <2>d
  <2>10. Tallied(comments, row, m, u, d)
    <3> HIDE DEF less, more, row
    <3> QED
      BY <1>2, <2>3, <2>5, <2>7, <2>9, <2>d, TalliedIs DEF row
  <2>11. Grown(m) /\ row \in DOMAIN m /\ new.type \in VoteTypes
    BY <1>2, <2>3, <2>10 DEF Tallied
  <2>12. Tallied(m, row, cs, u2, d2)
    <3>1. m[row][is] = comments[row][is]
      <4>1. comments[row] \in Comments
        BY <1>2, <2>5, Ids
      <4>2. was # is /\ is \in DOMAIN comments[row]
        BY <2>3, <2>11, <4>1, CommentFields DEF VoteTypes, Counter
      <4> QED
        BY <1>2, <2>7, <4>2 DEF Counted
    <3>2. cs = Counted(m, row, is, comments[row][is] + more)
      <4>1. comments[row] \in Comments
        BY <1>2, <2>5, Ids
      <4>2. comments[row][was] - 1 = comments[row][was] + less
        BY <4>1, CommentFields DEF Counter
      <4>3. m = [comments EXCEPT ![row][was] = @ - 1]
        BY <2>7, <4>2 DEF Counted
      <4>4. cs = [comments EXCEPT ![row][was] = @ - 1, ![row][is] = @ + 1]
        BY <2>4, <2>8
      <4>5. cs = [m EXCEPT ![row][is] = comments[row][is] + 1]
        <5> HIDE DEF was, is, less, more, row
        <5>1. row \in DOMAIN comments
          BY <1>2 DEF row
        <5>2. was # is
          BY <2>3, <2>11 DEF VoteTypes, Counter, was, is
        <5> QED
          BY <4>3, <4>4, <5>1, <5>2
      <4> QED
        BY <4>5 DEF Counted
    <3>3. cs = Counted(m, row, is, m[row][is] + more)
      BY <3>1, <3>2
    <3> HIDE DEF less, more, row
    <3> QED
      BY <2>9, <2>11, <2>d, <3>3, TalliedIs DEF row
  <2>13. Tallied(comments, row, cs, u + u2, d + d2)
    BY <1>2, <2>5, <2>9, <2>10, <2>12, TalliedTwice
  <2>14. ASSUME calm
         PROVE  /\ \A w \in (votes \ votes') \union (votes' \ votes) :
                     w.user = req[p].user /\ w.comment = req[p].row
                /\ VotesApart(votes')
                /\ Cardinality(Cast(votes', req[p].row, "upvote"))
                     = Cardinality(Cast(votes, req[p].row, "upvote")) + (u + u2)
                /\ Cardinality(Cast(votes', req[p].row, "downvote"))
                     = Cardinality(Cast(votes, req[p].row, "downvote")) + (d + d2)
    <3>1. Serene /\ Undisturbed(pc[p], req[p], seen[p], comments, votes, post)
      BY <1>2, <2>14, AtWork DEF Inv, CalmInv
    <3>2. pc[p] = "voteUpdate" /\ old \in votes /\ VotesApart(votes)
      BY <1>1, <2>1, <3>1 DEF Undisturbed, Serene
    <3>3. PICK ws : ws = votes \ {old}
      OBVIOUS
    <3>4. votes' = ws \union {new} /\ new \notin ws
      BY <2>3, <2>4, <3>2, <3>3 DEF VotesApart
    <3>5. VotesApart(votes')
      BY <2>3, <3>2, <3>3, <3>4 DEF VotesApart
    <3>6. \A w \in (votes \ votes') \union (votes' \ votes) :
                     w.user = req[p].user /\ w.comment = req[p].row
      BY <2>3, <3>3, <3>4
    <3>7. IsFiniteSet(ws)
      BY <2>5, <3>3, FS_Subset
    <3>8. \A type : /\ Cardinality(Cast(ws, req[p].row, type)) \in Nat
                    /\ Cardinality(Cast(votes, req[p].row, type))
                         = IF old.type = type THEN Cardinality(Cast(ws, req[p].row, type)) + 1
                           ELSE Cardinality(Cast(ws, req[p].row, type))
      BY <2>3, <2>5, <3>2, <3>3, CastLoses
    <3>9. \A type : Cardinality(Cast(votes', req[p].row, type))
                      = IF new.type = type THEN Cardinality(Cast(ws, req[p].row, type)) + 1
                        ELSE Cardinality(Cast(ws, req[p].row, type))
      BY <2>3, <3>4, <3>7, CastGains
    <3>10. \/ old.type = "upvote" /\ new.type = "downvote"
           \/ old.type = "downvote" /\ new.type = "upvote"
      BY <1>2, <2>3 DEF VoteTypes
    <3>11. /\ Cardinality(Cast(votes', req[p].row, "upvote"))
                = Cardinality(Cast(votes, req[p].row, "upvote")) + (u + u2)
           /\ Cardinality(Cast(votes', req[p].row, "downvote"))
                = Cardinality(Cast(votes, req[p].row, "downvote")) + (d + d2)
      BY <2>d, <3>8, <3>9, <3>10
    <3> QED
      BY <3>5, <3>6, <3>11
  <2>15. Ends(p)
    BY <2>4, AnswerIs DEF Answers
  <2>16. u + u2 \in Int /\ d + d2 \in Int
    BY <2>9
  <2> QED
    BY <1>2, <2>4, <2>6, <2>8, <2>13, <2>14, <2>15, <2>16, VoteKeeps
<1> QED
  BY <1>3, <1>4
-----------------------------------------------------------------------------
(* The post and its comments.                                              *)

\* The post, before any comment.
LEMMA CreatePostKeeps == ASSUME Inv, NEW p \in Slots, CreatePost(p) PROVE Inv'
<1>1. /\ pc[p] = "createPost" /\ pc[p] # "idle" /\ ~Exists
      /\ post' = [NoPost EXCEPT !.author = req[p].user, !.status = "active", !.text = req[p].arg]
      /\ Answer(p, "done") /\ UNCHANGED <<comments, votes>>
  BY DEF CreatePost
<1>2. Asked(req[p]) /\ Stands(pc[p], req[p].kind)
  BY <1>1, AtWork
<1>3. /\ req[p].kind = "post" /\ req[p].user \in Users /\ req[p].arg \in Texts /\ req[p].row = Post
  BY <1>1, <1>2 DEF Stands, Asked, OnPost
<1>4. Basis
  BY DEF Inv
<1>5. post = NoPost /\ comments = <<>> /\ Grown(comments)
  BY <1>1, <1>4 DEF Basis, Exists, Posts
<1>6. PICK s : s = post'
  OBVIOUS
<1>7. s \in Posts /\ s.status = "active" /\ s.commentCount = 0 /\ s.isLocked = FALSE
  <2>1. s = [author |-> req[p].user, commentCount |-> 0, isPinned |-> FALSE, isLocked |-> FALSE,
             status |-> "active", text |-> req[p].arg]
    BY <1>1, <1>6 DEF NoPost
  <2> QED
    BY <1>3, <2>1 DEF Posts
<1>8. Cardinality(Under(comments, Post)) \in Nat
  BY <1>5, UnderFinite
<1>9. DOMAIN comments = {}
  BY <1>5
<1>10. Within(comments, s)
  BY <1>7, <1>8, <1>9 DEF Within
<1>11. Writes(p)
  <2>1. Ends(p)
    BY <1>1, AnswerIs DEF Answers
  <2> QED
    BY <1>1, <1>4, <1>6, <1>7, <1>10, <2>1 DEF Writes, Basis, Grows, Exists
<1>12. ASSUME calm PROVE Calmly(p)
  <2>1. Serene
    BY <1>12 DEF Inv, CalmInv
  <2>2. Live(comments, Post) = {}
    BY <1>9 DEF Live
  <2>3. Exact(comments, votes, s)
    BY <1>7, <1>9, <2>2, FS_EmptySet DEF Exact
  <2>4. Post \in Reach(req[p], comments)
    BY <1>3 DEF Reach
  <2>5. post.isLocked = FALSE
    BY <1>5 DEF NoPost
  <2> QED
    BY <1>1, <1>6, <1>7, <2>1, <2>3, <2>4, <2>5 DEF Calmly, Serene
<1> QED
  BY <1>1, <1>11, <1>12, WritesKeep

\* The post's status, and nothing else of it.
LEMMA DeletePostTxKeeps == ASSUME Inv, NEW p \in Slots, DeletePostTx(p) PROVE Inv'
<1>1. /\ pc[p] = "deletePostTx" /\ pc[p] # "idle"
      /\ post' = [post EXCEPT !.status = "deleted"]
      /\ Answer(p, "done") /\ UNCHANGED <<comments, votes>>
  BY DEF DeletePostTx
<1>2. Asked(req[p]) /\ Stands(pc[p], req[p].kind) /\ Knows(pc[p], req[p], seen[p], comments, post)
  BY <1>1, AtWork
<1>3. req[p].kind = "deletePost" /\ req[p].row = Post /\ post.status # "none"
  BY <1>1, <1>2 DEF Stands, Asked, OnPost, Knows, OnExisting
<1>4. Basis
  BY DEF Inv
<1>5. post \in Posts
  BY <1>3, <1>4 DEF Basis, NoPost
<1>6. PICK s : s = post'
  OBVIOUS
<1>7. /\ s \in Posts /\ s.status # "none" /\ s.author = post.author
      /\ s.commentCount = post.commentCount /\ s.isLocked = post.isLocked
  BY <1>1, <1>5, <1>6 DEF Posts
<1>8. Within(comments, s)
  BY <1>4, <1>7 DEF Basis, Within
<1>9. Writes(p)
  <2>1. Ends(p)
    BY <1>1, AnswerIs DEF Answers
  <2> QED
    BY <1>1, <1>4, <1>6, <1>7, <1>8, <2>1 DEF Writes, Basis, Grows
<1>10. ASSUME calm PROVE Calmly(p)
  <2>1. Serene
    BY <1>10 DEF Inv, CalmInv
  <2>2. Exact(comments, votes, s)
    BY <1>7, <2>1 DEF Serene, Exact
  <2>3. Post \in Reach(req[p], comments)
    BY <1>3 DEF Reach
  <2> QED
    BY <1>1, <1>6, <1>7, <2>1, <2>2, <2>3 DEF Calmly, Serene
<1> QED
  BY <1>1, <1>9, <1>10, WritesKeep

\* What the post becomes when a count kept beside the replies changes.
LEMMA RecountIs ==
  ASSUME post \in Posts, NEW row, NEW d \in Int, Recount(row, d), NEW s, s = post'
  PROVE  /\ s \in Posts
         /\ s.author = post.author /\ s.status = post.status /\ s.isLocked = post.isLocked
         /\ s.commentCount = IF row = Post THEN post.commentCount + d ELSE post.commentCount
<1>1. CASE row = Post
  <2>1. s = [post EXCEPT !.commentCount = @ + d]
    BY <1>1 DEF Recount
  <2>2. post.commentCount \in Int
    BY DEF Posts
  <2> QED
    BY <1>1, <2>1, <2>2 DEF Posts
<1>2. CASE row # Post
  BY <1>2 DEF Recount
<1> QED
  BY <1>1, <1>2

\* One more under a row.
LEMMA OneMore ==
  ASSUME NEW S, IsFiniteSet(S), NEW n, n \notin S
  PROVE  /\ IsFiniteSet(S \union {n}) /\ Cardinality(S) \in Nat
         /\ Cardinality(S \union {n}) = Cardinality(S) + 1
BY FS_AddElement, FS_CardinalityType

\* The comments under a row that are not deleted are finitely many.
LEMMA LiveFinite ==
  ASSUME NEW cs, Grown(cs), NEW row
  PROVE  IsFiniteSet(Live(cs, row)) /\ Cardinality(Live(cs, row)) \in Nat
<1>1. Live(cs, row) \subseteq Under(cs, row)
  BY DEF Live, Under
<1> QED
  BY <1>1, UnderFinite, FS_Subset, FS_CardinalityType

\* A comment, and the count of the row it is under.
LEMMA CommentTxKeeps == ASSUME Inv, NEW p \in Slots, CommentTx(p) PROVE Inv'
<1>1. PICK row : row = req[p].row
  OBVIOUS
<1>2. PICK x : x = [author |-> req[p].user, parent |-> row, depth |-> Depth(row),
                    replyCount |-> 0, upvoteCount |-> 0, downvoteCount |-> 0,
                    status |-> "active", text |-> req[p].arg]
  OBVIOUS
<1>3. PICK w : w = WithReplies(comments, row, 1)
  OBVIOUS
<1>4. /\ pc[p] = "commentTx" /\ pc[p] # "idle"
      /\ comments' = Append(w, x)
      /\ Recount(row, 1)
      /\ Answer(p, "done") /\ votes' = votes
  BY <1>1, <1>2, <1>3 DEF CommentTx
<1>5. Asked(req[p]) /\ Stands(pc[p], req[p].kind) /\ Knows(pc[p], req[p], seen[p], comments, post)
  BY <1>4, AtWork
<1>6. /\ req[p].kind = "comment" /\ req[p].user \in Users /\ req[p].arg \in Texts
      /\ row \in 0..MaxComments /\ post.status # "none"
      /\ row # Post => row \in DOMAIN comments /\ comments[row].depth + 1 =< MaxDepth
  BY <1>1, <1>4, <1>5 DEF Stands, Asked, Knows, OnExisting
<1>7. /\ Basis /\ Grown(comments) /\ Within(comments, post)
      /\ post \in Posts
  BY <1>6 DEF Inv, Basis, NoPost
<1>8. Depth(row) \in 0..MaxDepth
  <2>1. CASE row = Post
    BY <2>1, BoundsAssumption DEF Depth
  <2>2. CASE row # Post
    <3>1. comments[row] \in Comments
      BY <1>6, <1>7, <2>2, Ids
    <3>2. comments[row].depth \in 0..MaxDepth
      BY <3>1, CommentFields
    <3> QED
      BY <1>6, <2>2, <3>2, BoundsAssumption DEF Depth
  <2> QED
    BY <2>1, <2>2
<1>9. /\ x \in Comments
      /\ x.parent = row /\ x.status = "active"
      /\ x.replyCount = 0 /\ x.upvoteCount = 0 /\ x.downvoteCount = 0
  BY <1>2, <1>6, <1>8 DEF Comments
<1>10. /\ Grown(w) /\ Grows(comments, w) /\ DOMAIN w = DOMAIN comments /\ Len(w) = Len(comments)
       /\ \A c \in DOMAIN comments :
            /\ w[c].replyCount = IF c = row THEN comments[c].replyCount + 1 ELSE comments[c].replyCount
            /\ w[c].upvoteCount = comments[c].upvoteCount
            /\ w[c].downvoteCount = comments[c].downvoteCount
            /\ w[c].status = comments[c].status
            /\ c # row => w[c] = comments[c]
  <2>1. PICK d \in Int : d = 1
    OBVIOUS
  <2>2. w = WithReplies(comments, row, d) /\ (row = Post \/ row \in DOMAIN comments)
    BY <1>3, <1>6, <2>1
  <2>3. Recounted(comments, row, d, w)
    BY <1>7, <2>2, WithRepliesIs
  <2> QED
    BY <2>1, <2>3 DEF Recounted
<1>11. /\ Len(comments) \in Nat /\ DOMAIN comments = 1..Len(comments)
       /\ row =< Len(comments)
  <2>1. Len(comments) \in Nat /\ DOMAIN comments = 1..Len(comments)
    BY <1>7, Ids
  <2> QED
    BY <1>6, <2>1 DEF Post
<1>12. PICK cs : cs = comments'
  OBVIOUS
<1>13. PICK n : n = Len(comments) + 1
  OBVIOUS
<1>14. /\ Grown(cs) /\ Grows(w, cs) /\ DOMAIN cs = DOMAIN comments \union {n} /\ n \notin DOMAIN comments
       /\ cs[n] = x
       /\ \A d \in DOMAIN comments : cs[d] = w[d]
  <2>1. cs = Append(w, x) /\ x \in Comments /\ x.parent =< Len(w) /\ Grown(w)
    BY <1>4, <1>9, <1>10, <1>11, <1>12
  <2>2. DOMAIN w = DOMAIN comments /\ n = Len(w) + 1
    BY <1>10, <1>13
  <2>3. Added(w, x, n, cs)
    BY <2>1, <2>2, AddedIs
  <2> QED
    BY <2>2, <2>3 DEF Added
<1>15. Grows(comments, cs)
  BY <1>10, <1>14 DEF Grows
<1>16. PICK s : s = post'
  OBVIOUS
<1>17. /\ s \in Posts
       /\ s.author = post.author /\ s.status = post.status /\ s.isLocked = post.isLocked
       /\ s.commentCount = IF row = Post THEN post.commentCount + 1 ELSE post.commentCount
  BY <1>4, <1>7, <1>16, RecountIs
<1>18. /\ Under(cs, row) = Under(comments, row) \union {n}
       /\ \A d : d # row => Under(cs, d) = Under(comments, d)
  BY <1>9, <1>14, <1>15 DEF Under, Grows
<1>19. \A d : /\ IsFiniteSet(Under(comments, d)) /\ Cardinality(Under(comments, d)) \in Nat
              /\ n \notin Under(comments, d)
  <2>1. \A d : n \notin Under(comments, d)
    BY <1>14 DEF Under
  <2> QED
    BY <1>7, <2>1, UnderFinite
<1>20. Cardinality(Under(cs, row)) = Cardinality(Under(comments, row)) + 1
  BY <1>18, <1>19, OneMore
<1>21. row # n /\ n # Post /\ \A c \in DOMAIN comments : c # Post
  BY <1>6, <1>11, <1>13, <1>14 DEF Post
<1>22. Within(cs, s)
  <2>1. s.commentCount =< Cardinality(Under(cs, Post))
    <3>1. post.commentCount =< Cardinality(Under(comments, Post)) /\ post.commentCount \in Int
      BY <1>7 DEF Within, Posts
    <3>2. Cardinality(Under(comments, Post)) \in Nat
      BY <1>19
    <3>3. CASE row = Post
      BY <1>17, <1>20, <3>1, <3>2, <3>3
    <3>4. CASE row # Post
      BY <1>17, <1>18, <3>1, <3>4
    <3> QED
      BY <3>3, <3>4
  <2>2. ASSUME NEW c \in DOMAIN cs PROVE cs[c].replyCount =< Cardinality(Under(cs, c))
    <3>1. CASE c = n
      BY <1>9, <1>14, <1>18, <1>19, <1>21, <3>1
    <3>2. CASE c \in DOMAIN comments
      <4>1. comments[c].replyCount =< Cardinality(Under(comments, c))
        BY <1>7, <3>2 DEF Within
      <4>2. comments[c].replyCount \in Int
        BY <1>7, <3>2, Ids, CommentFields
      <4>3. cs[c].replyCount = IF c = row THEN comments[c].replyCount + 1 ELSE comments[c].replyCount
        BY <1>10, <1>14, <3>2
      <4>4. Cardinality(Under(comments, c)) \in Nat
        BY <1>19
      <4>5. CASE c = row
        BY <1>20, <4>1, <4>2, <4>3, <4>4, <4>5
      <4>6. CASE c # row
        BY <1>18, <4>1, <4>3, <4>6
      <4> QED
        BY <4>5, <4>6
    <3> QED
      BY <1>14, <3>1, <3>2
  <2> QED
    BY <2>1, <2>2 DEF Within
<1>23. Writes(p)
  <2>1. Ends(p)
    BY <1>4, AnswerIs DEF Answers
  <2>2. votes \subseteq Votes /\ IsFiniteSet(votes)
    BY <1>7 DEF Basis
  <2> QED
    BY <1>4, <1>6, <1>12, <1>14, <1>15, <1>16, <1>17, <1>22, <2>1, <2>2 DEF Writes
<1>24. ASSUME calm PROVE Calmly(p)
  <2>1. Serene
    BY <1>24 DEF Inv, CalmInv
  <2>2. Reach(req[p], comments) = {Post, row}
    BY <1>1, <1>6 DEF Reach
  <2>3. /\ Live(cs, row) = Live(comments, row) \union {n}
        /\ \A d : d # row => Live(cs, d) = Live(comments, d)
    <3>1. \A c \in DOMAIN comments : cs[c].parent = comments[c].parent /\ cs[c].status = comments[c].status
      BY <1>10, <1>14, <1>15 DEF Grows
    <3> QED
      BY <1>9, <1>14, <3>1 DEF Live
  <2>4. \A d : /\ IsFiniteSet(Live(comments, d)) /\ Cardinality(Live(comments, d)) \in Nat
               /\ n \notin Live(comments, d)
    <3>1. \A d : n \notin Live(comments, d)
      BY <1>14 DEF Live
    <3> QED
      BY <1>7, <3>1, LiveFinite
  <2>5. Cardinality(Live(cs, row)) = Cardinality(Live(comments, row)) + 1
    BY <2>3, <2>4, OneMore
  <2>6. s.commentCount = Cardinality(Live(cs, Post))
    <3>1. post.commentCount = Cardinality(Live(comments, Post))
      BY <2>1 DEF Serene, Exact
    <3> QED
      BY <1>17, <2>3, <2>5, <3>1
  <2>7. ASSUME NEW c \in DOMAIN cs PROVE Balanced(cs, votes, c)
    <3>1. CASE c = n
      <4>1. Live(cs, n) = {}
        <5>1. SUFFICES ASSUME NEW d \in Live(comments, n) PROVE FALSE
          BY <1>21, <2>3
        <5>2. d \in DOMAIN comments /\ comments[d].parent = n
          BY <5>1 DEF Live
        <5>3. n < d
          BY <1>7, <5>2 DEF Grown
        <5> QED
          BY <1>11, <1>13, <5>2, <5>3
      <4>2. \A type : Cast(votes, n, type) = {}
        BY <1>14, <2>1 DEF Cast, Serene
      <4> QED
        BY <1>9, <1>14, <3>1, <4>1, <4>2, FS_EmptySet DEF Balanced
    <3>2. CASE c \in DOMAIN comments
      <4>1. Balanced(comments, votes, c)
        BY <2>1, <3>2 DEF Serene, Exact
      <4>2. /\ cs[c].replyCount = IF c = row THEN comments[c].replyCount + 1 ELSE comments[c].replyCount
            /\ cs[c].upvoteCount = comments[c].upvoteCount
            /\ cs[c].downvoteCount = comments[c].downvoteCount
        BY <1>10, <1>14, <3>2
      <4> QED
        BY <2>3, <2>5, <4>1, <4>2 DEF Balanced
    <3> QED
      BY <1>14, <3>1, <3>2
  <2>8. Exact(cs, votes, s)
    BY <2>6, <2>7 DEF Exact
  <2>9. \A c \in DOMAIN comments : /\ cs[c].status = comments[c].status
                                   /\ c # row => cs[c] = comments[c]
    BY <1>10, <1>14
  <2>10. \A v \in votes : v.comment \in DOMAIN cs
    BY <1>14, <2>1 DEF Serene
  <2>11. \A c \in DOMAIN cs \ DOMAIN comments : cs[c].status = "active" /\ cs[c].parent = row
    BY <1>9, <1>14
  <2> QED
    BY <1>4, <1>6, <1>12, <1>16, <1>17, <2>1, <2>2, <2>8, <2>9, <2>10, <2>11 DEF Calmly, Serene
<1> QED
  BY <1>4, <1>23, <1>24, WritesKeep

\* A deletion: while calm the comment was active, and its parent counts one less.
LEMMA DeleteTxKeeps == ASSUME Inv, NEW p \in Slots, DeleteTx(p) PROVE Inv'
<1>1. PICK c : c = req[p].row
  OBVIOUS
<1>2. PICK row : row = comments[c].parent
  OBVIOUS
<1>3. PICK m : m = [comments EXCEPT ![c].status = "deleted"]
  OBVIOUS
<1>4. PICK less \in Int : less = -1
  OBVIOUS
<1>5. /\ pc[p] = "deleteTx" /\ pc[p] # "idle"
      /\ comments' = WithReplies(m, row, less)
      /\ Recount(row, less)
      /\ Answer(p, "done") /\ votes' = votes
  BY <1>1, <1>2, <1>3, <1>4 DEF DeleteTx
<1>6. /\ Stands(pc[p], req[p].kind) /\ Knows(pc[p], req[p], seen[p], comments, post)
      /\ calm => Undisturbed(pc[p], req[p], seen[p], comments, votes, post)
  BY <1>5, AtWork
<1>7. req[p].kind = "delete" /\ c \in DOMAIN comments
  BY <1>1, <1>5, <1>6 DEF Stands, Knows, OnFound
<1>8. /\ Basis /\ Grown(comments) /\ Within(comments, post)
      /\ votes \subseteq Votes /\ IsFiniteSet(votes)
      /\ post \in Posts /\ post.status # "none"
  BY <1>7, Ids DEF Inv, Basis, Exists, NoPost
<1>9. /\ comments[c] \in Comments /\ row \in Nat
      /\ row = Post \/ (row # c /\ row \in DOMAIN comments)
  <2>1. /\ comments[c] \in Comments /\ c \in Nat
        /\ Len(comments) \in Nat /\ DOMAIN comments = 1..Len(comments)
    BY <1>7, <1>8, Ids
  <2>2. row \in 0..MaxComments
    BY <1>2, <2>1, CommentFields
  <2>3. row < c
    BY <1>2, <1>7, <1>8 DEF Grown
  <2> QED
    BY <1>7, <2>1, <2>2, <2>3 DEF Post
<1>10. PICK x : x = [comments[c] EXCEPT !.status = "deleted"]
  OBVIOUS
<1>11. /\ x \in Comments /\ x.author = comments[c].author /\ x.parent = comments[c].parent
       /\ x.depth = comments[c].depth /\ x.replyCount = comments[c].replyCount
       /\ x.upvoteCount = comments[c].upvoteCount /\ x.downvoteCount = comments[c].downvoteCount
       /\ x.status = "deleted"
  BY <1>9, <1>10 DEF Comments
<1>12. m = Put(comments, c, x)
  BY <1>3, <1>10 DEF Put
<1>13. /\ Grown(m) /\ Grows(comments, m) /\ DOMAIN m = DOMAIN comments
       /\ m[c] = x
       /\ \A d \in DOMAIN comments : d # c => m[d] = comments[d]
  BY <1>7, <1>8, <1>11, <1>12, PutIs
<1>14. PICK cs : cs = comments'
  OBVIOUS
<1>15. /\ Grown(cs) /\ Grows(m, cs) /\ DOMAIN cs = DOMAIN m
       /\ \A d \in DOMAIN m :
            /\ cs[d].replyCount = IF d = row THEN m[d].replyCount + less ELSE m[d].replyCount
            /\ cs[d].upvoteCount = m[d].upvoteCount
            /\ cs[d].downvoteCount = m[d].downvoteCount
            /\ cs[d].status = m[d].status
            /\ d # row => cs[d] = m[d]
  <2>1. row = Post \/ row \in DOMAIN m
    BY <1>9, <1>13
  <2>2. cs = WithReplies(m, row, less)
    BY <1>5, <1>14
  <2>3. Recounted(m, row, less, cs)
    BY <1>4, <1>13, <2>1, <2>2, WithRepliesIs
  <2> QED
    BY <2>3 DEF Recounted
<1>16. /\ Grown(cs) /\ Grows(comments, cs) /\ DOMAIN cs = DOMAIN comments
       /\ cs[c].status = "deleted"
       /\ \A d \in DOMAIN comments :
            /\ cs[d].replyCount = IF d = row THEN comments[d].replyCount + less ELSE comments[d].replyCount
            /\ cs[d].upvoteCount = comments[d].upvoteCount
            /\ cs[d].downvoteCount = comments[d].downvoteCount
            /\ d # c => cs[d].status = comments[d].status
            /\ d # c /\ d # row => cs[d] = comments[d]
  <2>1. Grows(comments, cs)
    BY <1>13, <1>15 DEF Grows
  <2>2. \A d \in DOMAIN comments :
          /\ m[d].replyCount = comments[d].replyCount
          /\ m[d].upvoteCount = comments[d].upvoteCount
          /\ m[d].downvoteCount = comments[d].downvoteCount
          /\ d # c => m[d].status = comments[d].status
    BY <1>11, <1>13
  <2>3. cs[c].status = "deleted"
    BY <1>7, <1>11, <1>13, <1>15
  <2> QED
    BY <1>13, <1>15, <2>1, <2>2, <2>3
<1>17. PICK s : s = post'
  OBVIOUS
<1>18. /\ s \in Posts
       /\ s.author = post.author /\ s.status = post.status /\ s.isLocked = post.isLocked
       /\ s.commentCount = IF row = Post THEN post.commentCount + less ELSE post.commentCount
  BY <1>5, <1>8, <1>17, RecountIs
<1>19. Within(cs, s)
  <2>1. s.commentCount =< Cardinality(Under(comments, Post)) /\ s.commentCount \in Int
    <3>1. /\ post.commentCount \in Int /\ post.commentCount =< Cardinality(Under(comments, Post))
      BY <1>8 DEF Posts, Within
    <3>2. Cardinality(Under(comments, Post)) \in Nat
      BY <1>8, UnderFinite
    <3> QED
      BY <1>4, <1>18, <3>1, <3>2
  <2>2. ASSUME NEW d \in DOMAIN comments PROVE cs[d].replyCount =< Cardinality(Under(comments, d))
    <3>1. comments[d].replyCount \in Int
      BY <1>8, Ids, CommentFields
    <3>2. comments[d].replyCount =< Cardinality(Under(comments, d))
      BY <1>8 DEF Within
    <3>3. Cardinality(Under(comments, d)) \in Nat
      BY <1>8, UnderFinite
    <3>4. cs[d].replyCount = IF d = row THEN comments[d].replyCount + less ELSE comments[d].replyCount
      BY <1>16
    <3> QED
      BY <1>4, <3>1, <3>2, <3>3, <3>4
  <2> QED
    BY <1>8, <1>16, <2>1, <2>2, WithinStays
<1>20. Writes(p)
  <2>1. Ends(p)
    BY <1>5, AnswerIs DEF Answers
  <2> QED
    BY <1>5, <1>8, <1>14, <1>16, <1>17, <1>18, <1>19, <2>1 DEF Writes
<1>21. ASSUME calm PROVE Calmly(p)
  <2>1. Serene /\ comments[c].status = "active"
    BY <1>1, <1>6, <1>7, <1>21 DEF Inv, CalmInv, Undisturbed
  <2>2. Reach(req[p], comments) = {c, row}
    BY <1>1, <1>2, <1>7 DEF Reach
  <2>3. /\ c \in Live(comments, row) /\ Live(cs, row) = Live(comments, row) \ {c}
        /\ \A d : d # row => Live(cs, d) = Live(comments, d)
    <3>1. \A d \in DOMAIN comments : cs[d].parent = comments[d].parent
      BY <1>16 DEF Grows
    <3>2. c \in Live(comments, row)
      BY <1>2, <1>7, <2>1 DEF Live
    <3>3. Live(cs, row) = Live(comments, row) \ {c}
      BY <1>16, <3>1 DEF Live
    <3>4. \A d : d # row => Live(cs, d) = Live(comments, d)
      BY <1>2, <1>16, <3>1 DEF Live
    <3> QED
      BY <3>2, <3>3, <3>4
  <2>4. IsFiniteSet(Live(cs, row)) /\ Cardinality(Live(cs, row)) \in Nat
    BY <1>16, LiveFinite
  <2>5. Cardinality(Live(comments, row)) = Cardinality(Live(cs, row)) + 1
    <3>1. c \notin Live(cs, row) /\ Live(comments, row) = Live(cs, row) \union {c}
      BY <2>3
    <3> QED
      BY <2>4, <3>1, OneMore
  <2>6. Cardinality(Live(comments, row)) + less = Cardinality(Live(cs, row))
    BY <1>4, <2>4, <2>5
  <2>7. s.commentCount = Cardinality(Live(cs, Post))
    <3>1. post.commentCount = Cardinality(Live(comments, Post))
      BY <2>1 DEF Serene, Exact
    <3>2. CASE row = Post
      BY <1>18, <2>6, <3>1, <3>2
    <3>3. CASE row # Post
      BY <1>18, <2>3, <3>1, <3>3
    <3> QED
      BY <3>2, <3>3
  <2>8. ASSUME NEW d \in DOMAIN cs PROVE Balanced(cs, votes, d)
    <3>1. Balanced(comments, votes, d)
      BY <1>16, <2>1 DEF Serene, Exact
    <3>2. /\ cs[d].replyCount = IF d = row THEN comments[d].replyCount + less ELSE comments[d].replyCount
          /\ cs[d].upvoteCount = comments[d].upvoteCount
          /\ cs[d].downvoteCount = comments[d].downvoteCount
      BY <1>16
    <3>3. CASE d = row
      BY <2>6, <3>1, <3>2, <3>3 DEF Balanced
    <3>4. CASE d # row
      BY <2>3, <3>1, <3>2, <3>4 DEF Balanced
    <3> QED
      BY <3>3, <3>4
  <2>9. Exact(cs, votes, s)
    BY <2>7, <2>8 DEF Exact
  <2>10. Post \notin Reach(req[p], comments) => s = post
    <3>1. Post # row => post' = post
      BY <1>5 DEF Recount
    <3> QED
      BY <1>17, <2>2, <3>1
  <2> QED
    BY <1>1, <1>5, <1>7, <1>14, <1>16, <1>17, <1>18, <2>1, <2>2, <2>9, <2>10 DEF Calmly, Serene
<1> QED
  BY <1>5, <1>20, <1>21, WritesKeep

-----------------------------------------------------------------------------
(* The invariant.                                                          *)

\* Nothing is asked and nothing written at the start.
LEMMA InitHolds == ASSUME Init PROVE Inv
<1>1. /\ rank \in [Users -> Ranks] /\ open = TRUE /\ post = NoPost /\ comments = <<>> /\ votes = {}
      /\ pc = [p \in Slots |-> "idle"] /\ req = [p \in Slots |-> NoReq]
      /\ seen = [p \in Slots |-> Unseen]
      /\ answer = "none" /\ calm = TRUE /\ sent = 0
  BY DEF Init
<1>2. Grown(comments) /\ DOMAIN comments = {}
  BY <1>1 DEF Grown
<1>3. Under(comments, Post) = {} /\ Live(comments, Post) = {}
  BY <1>2 DEF Under, Live
<1>4. Within(comments, post) /\ Exact(comments, votes, post)
  <2>1. post.commentCount = 0 /\ Cardinality({}) = 0
    BY <1>1, FS_EmptySet DEF NoPost
  <2> QED
    BY <1>2, <1>3, <2>1 DEF Within, Exact
<1>5. /\ "idle" \in PCs /\ Kept(Unseen) /\ IsFiniteSet({}) /\ sent \in 0..MaxRequests
      /\ votes \subseteq Votes
  BY <1>1, FS_EmptySet, BoundsAssumption DEF PCs, Kept, Unseen
<1>6. Basis
  BY <1>1, <1>2, <1>4, <1>5 DEF Basis, Standing, Exists
<1>7. Serene
  BY <1>1, <1>4 DEF Serene, VotesApart, Separate, Cleared
<1> QED
  BY <1>6, <1>7 DEF Inv, CalmInv

\* A step of a handler.
LEMMA QueryKeeps == ASSUME Inv, NEW p \in Slots, Query(p) PROVE Inv'
<1>1. CASE PostMember(p) \/ PostRoom(p) \/ CommentPost(p) \/ CommentMember(p) \/ CommentParent(p)
  BY <1>1, PostMemberReads, PostRoomReads, CommentPostReads, CommentMemberReads,
     CommentParentReads, ReadsKeep
<1>2. CASE EditComment(p) \/ EditRights(p) \/ EditSelect(p) \/ DeleteComment(p) \/ DeleteRights(p)
  BY <1>2, EditCommentReads, EditRightsReads, EditSelectReads, DeleteCommentReads,
     DeleteRightsReads, ReadsKeep
<1>3. CASE VoteComment(p) \/ VoteMember(p) \/ VoteExisting(p) \/ VoteSelect(p)
  BY <1>3, VoteCommentReads, VoteMemberReads, VoteExistingReads, VoteSelectReads, ReadsKeep
<1>4. CASE UpdatePost(p) \/ UpdateRights(p) \/ PinPost(p) \/ PinRights(p) \/ LockPost(p)
             \/ LockRights(p) \/ PostSelect(p) \/ DeletePost(p) \/ DeletePostRights(p)
  BY <1>4, UpdatePostReads, UpdateRightsReads, PinPostReads, PinRightsReads, LockPostReads,
     LockRightsReads, PostSelectReads, DeletePostReads, DeletePostRightsReads, ReadsKeep
<1>5. CASE CreatePost(p) \/ PostUpdate(p) \/ DeletePostTx(p)
  BY <1>5, CreatePostKeeps, PostUpdateKeeps, DeletePostTxKeeps
<1>6. CASE CommentTx(p) \/ EditUpdate(p) \/ DeleteTx(p)
  BY <1>6, CommentTxKeeps, EditUpdateKeeps, DeleteTxKeeps
<1>7. CASE VoteNew(p) \/ VoteRemove(p) \/ VoteChange(p)
  BY <1>7, VoteNewKeeps, VoteRemoveKeeps, VoteChangeKeeps
<1> QED
  BY <1>1, <1>2, <1>3, <1>4, <1>5, <1>6, <1>7 DEF Query

\* Every step keeps the invariant.
LEMMA StepKeeps == ASSUME Inv, [Next]_vars PROVE Inv'
<1>1. CASE UNCHANGED vars
  <2>1. UNCHANGED <<rank, open, post, comments, votes, pc, req, seen, answer, calm, sent>>
    BY <1>1 DEF vars
  <2>2. Basis'
    BY <2>1 DEF Inv, Basis, Standing, Exists
  <2>3. CalmInv'
    BY <2>1 DEF Inv, CalmInv, Serene, Separate
  <2> QED
    BY <2>2, <2>3 DEF Inv
<1>2. CASE RoomChanges
  BY <1>2, RoomChangesKeep
<1>3. ASSUME NEW p \in Slots, Request(p) \/ Query(p) \/ Abort(p) PROVE Inv'
  BY <1>3, RequestKeeps, QueryKeeps, AbortReads, ReadsKeep
<1> QED
  BY <1>1, <1>2, <1>3 DEF Next

\* Inv holds throughout.
THEOREM Invariant == Spec => []Inv
<1>1. Init => Inv
  BY InitHolds
<1>2. Inv /\ [Next]_vars => Inv'
  BY StepKeeps
<1> QED
  BY <1>1, <1>2, PTL DEF Spec

-----------------------------------------------------------------------------
(* The properties.                                                         *)

\* The rows of forum_post, forum_comment and forum_comment_vote, and what the
\* handlers keep of their reads, have their types: what a save writes back is a
\* row again.
THEOREM ThreadTypeCorrect == Spec => []TypeOK
<1>1. Inv => TypeOK
  <2>1. SUFFICES ASSUME Inv PROVE TypeOK
    OBVIOUS
  <2>2. Basis /\ comments \in Seq(Comments)
    BY <2>1 DEF Inv, Basis, Grown
  <2>3. ASSUME NEW p \in Slots
        PROVE  /\ pc[p] \in {"editRights", "editSelect", "editUpdate"} => seen[p].entity \in Comments
               /\ pc[p] \in {"postSelect", "postUpdate"} => seen[p].entity \in Posts
               /\ pc[p] \in {"voteRemove", "voteSelect", "voteInsert", "voteUpdate", "voteSame"} =>
                    seen[p].vote \in Votes
    <3>1. CASE pc[p] = "idle"
      BY <3>1
    <3>2. CASE pc[p] # "idle"
      <4>1. Knows(pc[p], req[p], seen[p], comments, post)
        BY <2>1, <3>2, AtWork
      <4> QED
        BY <4>1 DEF Knows, HoldsComment, HoldsPost, HoldsVote
    <3> QED
      BY <3>1, <3>2
  <2> QED
    BY <2>2, <2>3 DEF Basis, TypeOK
<1> QED
  BY <1>1, Invariant, PTL

\* No replyCount or commentCount exceeds the number of comments ever written
\* under the row, whatever saves, deletions and aborts meet (createComment,
\* deleteComment, updateComment, updatePost, pinPost and lockPost).
THEOREM CountsBounded == Spec => []CountsWithinComments
<1>1. Inv => CountsWithinComments
  <2>1. \A row : Replies(row) = Under(comments, row)
    BY DEF Replies, Under
  <2> QED
    BY <2>1 DEF Inv, Basis, Within, CountsWithinComments
<1> QED
  BY <1>1, Invariant, PTL

\* While no save meets a request that touches its row, no two votes of a user
\* on a comment meet and no comment is deleted twice, commentCount, replyCount,
\* upvoteCount and downvoteCount are the numbers of what they count (createComment,
\* deleteComment, voteComment and the saves of updateComment, updatePost, pinPost
\* and lockPost).
THEOREM CountsExact == Spec => []CalmCountsExact
<1>1. Inv => CalmCountsExact
  <2>1. SUFFICES
          ASSUME Inv, calm
          PROVE  /\ post.commentCount = Cardinality({c \in Replies(Post) : Active(c)})
                 /\ \A c \in DOMAIN comments :
                      /\ comments[c].replyCount = Cardinality({d \in Replies(c) : Active(d)})
                      /\ \A t \in VoteTypes :
                           comments[c][Counter(t)] = Cardinality({v \in votes : v.comment = c /\ v.type = t})
    BY DEF CalmCountsExact
  <2>2. Exact(comments, votes, post)
    BY <2>1 DEF Inv, CalmInv, Serene
  <2>3. \A row : {c \in Replies(row) : Active(c)} = Live(comments, row)
    BY DEF Replies, Active, Live
  <2>4. \A c, t : {v \in votes : v.comment = c /\ v.type = t} = Cast(votes, c, t)
    BY DEF Cast
  <2>5. ASSUME NEW c \in DOMAIN comments
        PROVE  /\ comments[c].replyCount = Cardinality({d \in Replies(c) : Active(d)})
               /\ \A t \in VoteTypes :
                    comments[c][Counter(t)] = Cardinality({v \in votes : v.comment = c /\ v.type = t})
    <3>1. /\ comments[c].replyCount = Cardinality(Live(comments, c))
          /\ comments[c].upvoteCount = Cardinality(Cast(votes, c, "upvote"))
          /\ comments[c].downvoteCount = Cardinality(Cast(votes, c, "downvote"))
      BY <2>2 DEF Exact, Balanced
    <3>2. \A t \in VoteTypes : comments[c][Counter(t)] = Cardinality(Cast(votes, c, t))
      BY <3>1 DEF VoteTypes, Counter
    <3> QED
      BY <2>3, <2>4, <3>1, <3>2
  <2>6. post.commentCount = Cardinality({c \in Replies(Post) : Active(c)})
    BY <2>2, <2>3 DEF Exact
  <2> QED
    BY <2>5, <2>6
<1> QED
  BY <1>1, Invariant, PTL

\* What is not calm stays so.
LEMMA ChecksLeaveCalm ==
  ASSUME NEW p, NEW from, NEW ok, NEW row, NEW to, Check(p, from, ok, to) \/ Load(p, from, ok, row, to)
  PROVE  calm' = calm
BY DEF Check, Load, Goto, Answer

\* No step of a handler makes it calm, or not.
LEMMA QueryLeavesCalm == ASSUME NEW p, Query(p) PROVE calm' = calm
<1>1. CASE PostMember(p) \/ PostRoom(p) \/ CommentPost(p) \/ CommentMember(p) \/ CommentParent(p)
             \/ EditRights(p) \/ DeleteComment(p) \/ DeleteRights(p) \/ VoteComment(p) \/ VoteMember(p)
  BY <1>1, ChecksLeaveCalm DEF PostMember, PostRoom, CommentPost, CommentMember, CommentParent,
     EditRights, DeleteComment, DeleteRights, VoteComment, VoteMember
<1>2. CASE UpdateRights(p) \/ PinRights(p) \/ LockRights(p) \/ DeletePost(p) \/ DeletePostRights(p)
  BY <1>2, ChecksLeaveCalm DEF UpdateRights, PinRights, LockRights, DeletePost, DeletePostRights
<1>3. CASE EditComment(p) \/ UpdatePost(p) \/ PinPost(p) \/ LockPost(p)
  BY <1>3, ChecksLeaveCalm DEF EditComment, UpdatePost, PinPost, LockPost
<1>4. CASE EditSelect(p) \/ PostSelect(p) \/ VoteExisting(p) \/ VoteSelect(p)
  BY <1>4 DEF EditSelect, PostSelect, VoteExisting, VoteSelect, Goto, Answer
<1>5. CASE CreatePost(p) \/ CommentTx(p) \/ EditUpdate(p) \/ DeleteTx(p) \/ VoteNew(p)
             \/ VoteRemove(p) \/ VoteChange(p) \/ PostUpdate(p) \/ DeletePostTx(p)
  BY <1>5 DEF CreatePost, CommentTx, EditUpdate, DeleteTx, VoteNew, VoteRemove, VoteChange,
     PostUpdate, DeletePostTx, Answer
<1> QED
  BY <1>1, <1>2, <1>3, <1>4, <1>5 DEF Query

\* Once it is not calm it is not calm again.
LEMMA CalmWas == ASSUME Next, calm' PROVE calm
<1>1. CASE RoomChanges
  BY <1>1 DEF RoomChanges
<1>2. ASSUME NEW p \in Slots, Query(p) PROVE calm
  BY <1>2, QueryLeavesCalm
<1>3. ASSUME NEW p \in Slots, Abort(p) PROVE calm
  BY <1>3 DEF Abort, Answer
<1>4. ASSUME NEW p \in Slots, Request(p) PROVE calm
  <2>1. \A at, r : Start(p, at, r) => calm
    BY DEF Start
  <2> QED
    BY <1>4, <2>1 DEF Request, AskCreatePost, AskUpdatePost, AskPinPost, AskLockPost, AskDeletePost,
       AskCreateComment, AskUpdateComment, AskDeleteComment, AskVoteComment
<1> QED
  BY <1>1, <1>2, <1>3, <1>4 DEF Next

\* A handler that is about to write is entitled to it.
LEMMA WritersMay ==
  ASSUME Inv, calm, NEW p \in Slots, pc[p] \in Writing
  PROVE  Entitled(req[p])
<1>1. pc[p] # "idle"
  BY DEF Writing
<1>2. /\ Asked(req[p])
      /\ Undisturbed(pc[p], req[p], seen[p], comments, votes, post)
      /\ pc[p] \in Cleared => May(req[p], rank, comments, post)
  BY <1>1, AtWork
<1>3. pc[p] \in Cleared
  BY <1>2 DEF Undisturbed, Writing, Cleared
<1>4. May(req[p], rank, comments, post) /\ req[p].kind \in Kinds
  BY <1>2, <1>3 DEF Asked
<1> QED
  BY <1>4 DEF May, Entitled, Member, Moderator, Kinds

\* Under the same condition every write is by a user entitled to it at that
\* moment, and a save of the post or of a comment changes the column it is meant
\* to change and no other (createPost, createComment, updateComment, deleteComment,
\* voteComment, updatePost, pinPost, lockPost, deletePost).
THEOREM WritesAsMeant == Spec => CalmWritesAsMeant
<1>1. ASSUME Inv, Next
      PROVE  calm' => \A p \in Slots :
               /\ pc[p] \in Writing /\ pc'[p] = "idle" /\ answer' = "done" => Entitled(req[p])
               /\ PostUpdate(p) => \A f \in DOMAIN post \ {Column(req[p].kind)} : post'[f] = post[f]
               /\ EditUpdate(p) =>
                    LET c == req[p].row
                    IN \A f \in DOMAIN comments[c] \ {"text"} : comments'[c][f] = comments[c][f]
  <2>1. SUFFICES ASSUME calm', NEW p \in Slots
                 PROVE  /\ pc[p] \in Writing => Entitled(req[p])
                        /\ PostUpdate(p) => \A f \in DOMAIN post \ {Column(req[p].kind)} : post'[f] = post[f]
                        /\ EditUpdate(p) =>
                             LET c == req[p].row
                             IN \A f \in DOMAIN comments[c] \ {"text"} : comments'[c][f] = comments[c][f]
    OBVIOUS
  <2>2. calm
    BY <1>1, <2>1, CalmWas
  <2> QED
    BY <1>1, <2>2, WritersMay, PostUpdateKeeps, EditUpdateKeeps
<1>2. Inv /\ [Next]_vars =>
        [calm' => \A p \in Slots :
           /\ pc[p] \in Writing /\ pc'[p] = "idle" /\ answer' = "done" => Entitled(req[p])
           /\ PostUpdate(p) => \A f \in DOMAIN post \ {Column(req[p].kind)} : post'[f] = post[f]
           /\ EditUpdate(p) =>
                LET c == req[p].row
                IN \A f \in DOMAIN comments[c] \ {"text"} : comments'[c][f] = comments[c][f]]_vars
  BY <1>1
<1> QED
  BY <1>2, Invariant, PTL DEF Spec, CalmWritesAsMeant
=============================================================================
