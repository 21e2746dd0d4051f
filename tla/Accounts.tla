------------------------------ MODULE Accounts ------------------------------
(***************************************************************************)
(* Accounts, profiles, photos, likes and verification requests:            *)
(* services/user.service.ts over the tables user, user_profile,            *)
(* user_photo, photo_likes and verification_request.                       *)
(*                                                                         *)
(* No operation of the service opens a transaction.  save(entity) reads    *)
(* the row again and writes every column in which the entity differs from  *)
(* it: a profile kept over an await is written back with what it held.     *)
(* The database refuses a second profile of a user (userId), a second like *)
(* (userId, photoId) and to delete a photo some profile shows.             *)
(*                                                                         *)
(* A profile is its picture, its verification and one text (bio, city,     *)
(* interests, ...).  The names and the gender updateProfile saves on the   *)
(* user's row are left out: nothing else writes them.                      *)
(***************************************************************************)
EXTENDS Handlers

CONSTANTS
  Seeded,        \* the e-mails of the accounts there are already: a sequence
  LowerCase,     \* each e-mail people type, and how it is stored
  Texts,         \* what users write on their profile
  MaxUsers,      \* bound: accounts
  MaxPhotos,     \* bound: photos
  MaxReviews     \* bound: verification requests

ASSUME TextsAssumption == "" \notin Texts
ASSUME SeededAssumption ==
  /\ Seeded \in Seq({Seeded[i] : i \in DOMAIN Seeded})
  /\ \A i, j \in DOMAIN Seeded : Seeded[i] = Seeded[j] => i = j
ASSUME AccountsAssumption ==
  /\ {MaxUsers, MaxPhotos, MaxReviews} \subseteq Nat \ {0} /\ Len(Seeded) \in 1..MaxUsers

VARIABLES
  users,         \* table user: the e-mail of each id
  profiles,      \* table user_profile, by user
  photos,        \* table user_photo, by id; a deleted row is not there
  likes,         \* table photo_likes: <<user, photo>>
  reviews,       \* table verification_request, by id
  held           \* what a handler keeps of its reads: [profile, cols, id]

accountTables == <<users, profiles, photos, likes, reviews>>
accountVars == <<accountTables, held>>

UserIds == 1..MaxUsers
Columns == {"picture", "isVerified", "text"}
Statuses == {"pending", "in_review", "verified", "rejected"}
Profiles == [there : BOOLEAN, picture : 0..MaxPhotos, isVerified : BOOLEAN,
             text : Texts \union {""}]
Photos == [owner : UserIds, likesCount : Int, there : BOOLEAN]

NoProfile == [there |-> FALSE, picture |-> 0, isVerified |-> FALSE, text |-> ""]
NewProfile == [NoProfile EXCEPT !.there = TRUE]
Nothing == [profile |-> NoProfile, cols |-> {}, id |-> 0]

AccountKinds == {"register", "ownProfile", "edit", "setPicture", "uploadPicture", "uploadPhoto",
                 "deletePhoto", "like", "unlike", "verify", "review"}

-----------------------------------------------------------------------------
(* The tables.                                                             *)

HasPhoto(i) == i \in DOMAIN photos /\ photos[i].there
Owns(u, i) == HasPhoto(i) /\ photos[i].owner = u

Differing(entity, row) == {c \in Columns : entity[c] # row[c]}
Saved(row, entity, cols) ==
  [c \in DOMAIN row |-> IF c \in cols THEN entity[c] ELSE row[c]]

\* increment and decrement of likesCount: nothing when the row is gone.
Recount(i, d) ==
  photos' = IF HasPhoto(i) THEN [photos EXCEPT ![i].likesCount = @ + d] ELSE photos

-----------------------------------------------------------------------------
(* Requests.                                                               *)

\* Whose profile a request is about: a review is an admin's.
Owner(r) == IF r.kind = "review" THEN reviews[r.id].user ELSE r.user

\* The column a kind of request saves on the profile.
Saves(kind) ==
  CASE kind = "edit" -> {"text"}
    [] kind \in {"setPicture", "uploadPicture"} -> {"picture"}
    [] kind = "review" -> {"isVerified"}
    [] OTHER -> {}

\* What the code does not keep apart: two registrations of one e-mail, two
\* requests that save one profile, two unlikes of one like.
Conflicts(r, s) ==
  {t \in {"account", "profile", "likes"} :
     CASE t = "account" -> /\ r.kind = "register" /\ s.kind = "register"
                           /\ LowerCase[r.word] = LowerCase[s.word]
       [] t = "profile" -> Saves(r.kind) # {} /\ Saves(s.kind) # {} /\ Owner(r) = Owner(s)
       [] t = "likes"   -> r.kind = "unlike" /\ r = s}

Asks(p, at, r) ==
  /\ Start(p, at, r,
       (UNION {Conflicts(r, req[q]) : q \in {q \in Slots : Busy(q)}})
       \union (IF r.kind = "register" /\ LowerCase[r.word] # r.word THEN {"account"} ELSE {}))
  /\ UNCHANGED accountVars

\* The requests in hand that add a row to a table.
Adding(kinds) == Cardinality({q \in Slots : req[q].kind \in kinds})

Register(p) ==
  /\ Len(users) + Adding({"register"}) < MaxUsers
  /\ \E e \in DOMAIN LowerCase :
       Asks(p, "findEmail", [NoReq EXCEPT !.kind = "register", !.word = e])

\* The two endpoints of the edit dialog write the same profile; the first one
\* the names of the user, too, before it.
Edits(p, at) ==
  \E u \in DOMAIN users, t \in Texts :
    Asks(p, at, [NoReq EXCEPT !.kind = "edit", !.user = u, !.word = t])

UpdateProfile(p) == Edits(p, "saveNames")

UpdateUserProfile(p) == Edits(p, "findProfile")

GetUserProfile(p) ==
  \E u \in DOMAIN users : Asks(p, "findProfile", [NoReq EXCEPT !.kind = "ownProfile", !.user = u])

\* The endpoint that removes a picture is never reached: its path is one of
\* this endpoint's, which is declared before it.
SetProfilePicture(p) ==
  \E u \in DOMAIN users, i \in DOMAIN photos :
    Asks(p, "findProfile", [NoReq EXCEPT !.kind = "setPicture", !.user = u, !.id = i])

Uploads(p, kind) ==
  /\ Len(photos) + Adding({"uploadPhoto", "uploadPicture"}) < MaxPhotos
  /\ \E u \in DOMAIN users : Asks(p, "findProfile", [NoReq EXCEPT !.kind = kind, !.user = u])

UploadPhoto(p) == Uploads(p, "uploadPhoto")

UploadProfilePicture(p) == Uploads(p, "uploadPicture")

OnPhoto(p, kind, at) ==
  \E u \in DOMAIN users, i \in DOMAIN photos :
    Asks(p, at, [NoReq EXCEPT !.kind = kind, !.user = u, !.id = i])

RemovePhoto(p) == OnPhoto(p, "deletePhoto", "findOwned")

LikePhoto(p) == OnPhoto(p, "like", "findLiked")

UnlikePhoto(p) == OnPhoto(p, "unlike", "findUnliked")

UploadVerificationPhoto(p) ==
  /\ Len(reviews) + Adding({"verify"}) < MaxReviews
  /\ \E u \in DOMAIN users : Asks(p, "insertReview", [NoReq EXCEPT !.kind = "verify", !.user = u])

\* The admin's page approves, rejects and revokes.
ReviewVerificationRequest(p) ==
  \E i \in DOMAIN reviews, s \in {"verified", "rejected"} :
    Asks(p, "saveReview", [NoReq EXCEPT !.kind = "review", !.id = i, !.word = s])

-----------------------------------------------------------------------------
(* Handlers.                                                               *)

Go(p, at) == Goto(p, at) /\ UNCHANGED <<faults, met>>
Leave(p) == Finish(p) /\ held' = [held EXCEPT ![p] = Nothing] /\ UNCHANGED <<faults, met>>

\* A query whose result lets the handler go on or makes it throw.
Check(p, from, ok, to) ==
  /\ pc[p] = from
  /\ IF ok THEN Go(p, to) /\ UNCHANGED held ELSE Leave(p)
  /\ UNCHANGED accountTables

\* Mutant: the form's own look at the e-mail is thought to be enough.
NoLookUp(p) == Check(p, "findEmail", TRUE, "saveUser")

\* register looks the e-mail up as it was typed and stores it in lower case.
FindEmail(p) ==
  Check(p, "findEmail", \A u \in DOMAIN users : users[u] # req[p].word, "saveUser")

SaveUser(p) ==
  /\ pc[p] = "saveUser"
  /\ users' = Append(users, LowerCase[req[p].word])
  /\ held' = [held EXCEPT ![p].id = Len(users) + 1]
  /\ Go(p, "insertProfile")
  /\ UNCHANGED <<profiles, photos, likes, reviews>>

\* Where a handler goes with the profile it has found or created. deletePhoto
\* takes no picture from a profile: it compares the number there with a text.
WithProfile(p) ==
  CASE req[p].kind = "setPicture" -> "findPhoto"
    [] req[p].kind \in {"uploadPhoto", "uploadPicture"} -> "insertPhoto"
    [] req[p].kind = "deletePhoto" -> "deletePhoto"
    [] OTHER -> "select"

\* updateProfile: the row of the user, which is always there.
SaveNames(p) ==
  /\ pc[p] = "saveNames"
  /\ Go(p, "findProfile")
  /\ UNCHANGED accountVars

FindProfile(p) ==
  LET row == profiles[Owner(req[p])]
      creates == req[p].kind \in {"ownProfile", "edit", "setPicture", "uploadPicture"}
  IN /\ pc[p] = "findProfile"
     /\ UNCHANGED accountTables
     /\ \/ /\ row.there /\ req[p].kind # "ownProfile"
           /\ Go(p, WithProfile(p))
           /\ held' = [held EXCEPT ![p].profile = row]
        \/ /\ ~row.there /\ creates
           /\ Go(p, "insertProfile")
           /\ UNCHANGED held
        \/ /\ IF row.there THEN req[p].kind = "ownProfile" ELSE ~creates
           /\ Leave(p)

\* The insert of a profile; UNIQUE(userId) refuses a second one.
InsertProfile(p) ==
  LET u == IF req[p].kind = "register" THEN held[p].id ELSE req[p].user
      row == IF req[p].kind = "edit" THEN [NewProfile EXCEPT !.text = req[p].word] ELSE NewProfile
      over == req[p].kind \in {"register", "ownProfile", "edit"}
  IN /\ pc[p] = "insertProfile"
     /\ UNCHANGED <<users, photos, likes, reviews>>
     /\ IF profiles[u].there
        THEN Leave(p) /\ UNCHANGED profiles
        ELSE /\ profiles' = [profiles EXCEPT ![u] = row]
             /\ IF over
                THEN Leave(p)
                ELSE Go(p, WithProfile(p)) /\ held' = [held EXCEPT ![p].profile = row]

FindPhoto(p) == Check(p, "findPhoto", Owns(req[p].user, req[p].id), "select")

InsertPhoto(p) ==
  /\ pc[p] = "insertPhoto"
  /\ photos' = Append(photos, [owner |-> req[p].user, likesCount |-> 0, there |-> TRUE])
  /\ IF req[p].kind = "uploadPhoto"
     THEN Leave(p)
     ELSE Go(p, "select") /\ held' = [held EXCEPT ![p].id = Len(photos) + 1]
  /\ UNCHANGED <<users, profiles, likes, reviews>>

\* Mutant: a review saves a fresh entity.
ChangedAnew(p) ==
  LET e == IF req[p].kind = "review" THEN NewProfile ELSE held[p].profile
  IN CASE req[p].kind = "edit"          -> [e EXCEPT !.text = req[p].word]
       [] req[p].kind = "review"        -> [e EXCEPT !.isVerified = TRUE]
       [] req[p].kind = "setPicture"    -> [e EXCEPT !.picture = req[p].id]
       [] OTHER                         -> [e EXCEPT !.picture = held[p].id]

\* The entity a handler saves: the profile it holds, one column changed.
Changed(p) ==
  LET e == held[p].profile
  IN CASE req[p].kind = "edit"          -> [e EXCEPT !.text = req[p].word]
       [] req[p].kind = "review"        -> [e EXCEPT !.isVerified = TRUE]
       [] req[p].kind = "setPicture"    -> [e EXCEPT !.picture = req[p].id]
       [] OTHER                         -> [e EXCEPT !.picture = held[p].id]

\* save(profile) reads the row again ...
Select(p) ==
  LET cols == Differing(Changed(p), profiles[Owner(req[p])])
  IN /\ pc[p] = "select"
     /\ IF cols = {}
        THEN Leave(p)
        ELSE Go(p, "update") /\ held' = [held EXCEPT ![p].cols = cols]
     /\ UNCHANGED accountTables

\* ... and writes the columns that differ; a picture has to be a photo.
Update(p) ==
  LET u == Owner(req[p])
      row == Saved(profiles[u], Changed(p), held[p].cols)
  IN /\ pc[p] = "update"
     /\ IF "picture" \in held[p].cols /\ row.picture # 0 /\ ~HasPhoto(row.picture)
        THEN UNCHANGED profiles
        ELSE profiles' = [profiles EXCEPT ![u] = row]
     /\ Leave(p)
     /\ UNCHANGED <<users, photos, likes, reviews>>

FindOwned(p) == Check(p, "findOwned", Owns(req[p].user, req[p].id), "findProfile")

\* The likes go with the photo; the database refuses to delete one a profile
\* shows, though its owner asked to.
DeletePhoto(p) ==
  LET i == req[p].id
  IN /\ pc[p] = "deletePhoto"
     /\ IF HasPhoto(i) /\ \A u \in UserIds : profiles[u].picture # i
        THEN /\ photos' = [photos EXCEPT ![i].there = FALSE]
             /\ likes' = {l \in likes : l[2] # i}
        ELSE UNCHANGED <<photos, likes>>
     /\ Leave(p)
     /\ UNCHANGED <<users, profiles, reviews>>

FindLiked(p) == Check(p, "findLiked", HasPhoto(req[p].id), "findLike")

FindLike(p) == Check(p, "findLike", <<req[p].user, req[p].id>> \notin likes, "insertLike")

\* The insert of a like; UNIQUE(userId, photoId) refuses a second one.
InsertLike(p) ==
  LET l == <<req[p].user, req[p].id>>
  IN /\ pc[p] = "insertLike"
     /\ IF l \in likes \/ ~HasPhoto(l[2])
        THEN Leave(p) /\ UNCHANGED likes
        ELSE likes' = likes \union {l} /\ Go(p, "countLike") /\ UNCHANGED held
     /\ UNCHANGED <<users, profiles, photos, reviews>>

\* The count goes with the like, or a restart comes between the two.
CountUp(p) ==
  /\ pc[p] = "countLike"
  /\ Recount(req[p].id, 1)
  /\ Leave(p)
  /\ UNCHANGED <<users, profiles, likes, reviews>>

FindUnliked(p) == Check(p, "findUnliked", HasPhoto(req[p].id), "findOwnLike")

\* Mutant: an unlike does not look for the like.
NoOwnLike(p) == Check(p, "findOwnLike", TRUE, "deleteLike")

FindOwnLike(p) == Check(p, "findOwnLike", <<req[p].user, req[p].id>> \in likes, "deleteLike")

\* Nothing, when another unlike has deleted it meanwhile.
DeleteLike(p) ==
  /\ pc[p] = "deleteLike"
  /\ likes' = likes \ {<<req[p].user, req[p].id>>}
  /\ Go(p, "countUnlike")
  /\ UNCHANGED <<users, profiles, photos, reviews, held>>

\* Counted down whether there was a like to delete or not.
CountDown(p) ==
  /\ pc[p] = "countUnlike"
  /\ Recount(req[p].id, -1)
  /\ Leave(p)
  /\ UNCHANGED <<users, profiles, likes, reviews>>

InsertReview(p) ==
  /\ pc[p] = "insertReview"
  /\ reviews' = Append(reviews, [user |-> req[p].user, status |-> "pending"])
  /\ Leave(p)
  /\ UNCHANGED <<users, profiles, photos, likes>>

\* A review is stored whatever the request's status was; only an approval
\* goes on to the profile.
SaveReview(p) ==
  /\ pc[p] = "saveReview"
  /\ reviews' = [reviews EXCEPT ![req[p].id].status = req[p].word]
  /\ IF req[p].word = "verified" THEN Go(p, "findProfile") /\ UNCHANGED held ELSE Leave(p)
  /\ UNCHANGED <<users, profiles, photos, likes>>

\* A query of the handler fails.
AccountFails(p) ==
  /\ Busy(p) /\ req[p].kind \in AccountKinds
  /\ Fault
  /\ Finish(p)
  /\ held' = [held EXCEPT ![p] = Nothing]
  /\ UNCHANGED accountTables

-----------------------------------------------------------------------------

\* There are accounts: the first has a profile, a photo that may be its
\* picture and a verification request, the others nothing yet.
AccountsInit ==
  /\ users = Seeded
  /\ \E i \in {0, 1} :
       profiles = [u \in UserIds |-> IF u = 1 THEN [NewProfile EXCEPT !.picture = i] ELSE NoProfile]
  /\ photos = <<[owner |-> 1, likesCount |-> 0, there |-> TRUE]>>
  /\ likes = {}
  /\ reviews = <<[user |-> 1, status |-> "pending"]>>
  /\ held = [p \in Slots |-> Nothing]

AccountsNext ==
  \E p \in Slots :
    \/ Register(p) \/ UpdateProfile(p) \/ UpdateUserProfile(p) \/ GetUserProfile(p)
    \/ SetProfilePicture(p) \/ UploadPhoto(p) \/ UploadProfilePicture(p)
    \/ RemovePhoto(p) \/ LikePhoto(p) \/ UnlikePhoto(p)
    \/ UploadVerificationPhoto(p) \/ ReviewVerificationRequest(p)
    \/ FindEmail(p) \/ SaveUser(p) \/ SaveNames(p) \/ FindProfile(p) \/ InsertProfile(p)
    \/ FindPhoto(p) \/ InsertPhoto(p) \/ Select(p) \/ Update(p)
    \/ FindOwned(p) \/ DeletePhoto(p)
    \/ FindLiked(p) \/ FindLike(p) \/ InsertLike(p) \/ CountUp(p)
    \/ FindUnliked(p) \/ FindOwnLike(p) \/ DeleteLike(p) \/ CountDown(p)
    \/ InsertReview(p) \/ SaveReview(p)
    \/ AccountFails(p)

-----------------------------------------------------------------------------
(* Properties.                                                             *)

AccountsTypeOK ==
  /\ users \in Seq({LowerCase[e] : e \in DOMAIN LowerCase} \union {Seeded[i] : i \in DOMAIN Seeded})
  /\ profiles \in [UserIds -> Profiles]
  /\ photos \in Seq(Photos)
  /\ likes \subseteq (DOMAIN users) \X (DOMAIN photos)
  /\ reviews \in Seq([user : UserIds, status : Statuses])
  /\ held \in [Slots -> [profile : Profiles, cols : SUBSET Columns, id : Nat]]

\* No e-mail has two accounts, unless two registrations of it overlapped or
\* one was typed with capitals: register looks before it inserts, and the
\* table has no UNIQUE on the column.
CalmOneAccount ==
  "account" \notin met =>
    \A u, v \in DOMAIN users : users[u] = users[v] => u = v

\* A photo's likesCount and its likes agree up to the handlers between their
\* two statements, unless two unlikes of one like overlapped, a statement
\* failed or the server was restarted (likePhoto, unlikePhoto).
CalmLikesExact ==
  LET between(i, at) == Cardinality({p \in Slots : pc[p] = at /\ req[p].id = i})
  IN met \intersect {"likes", "fault"} = {} =>
       \A i \in DOMAIN photos : photos[i].there =>
         photos[i].likesCount + between(i, "countLike") - between(i, "countUnlike")
           = Cardinality({l \in likes : l[2] = i})

\* While no two requests save one profile at once, a save changes the column
\* its request is about and no other: an edit does not take the verification
\* or the picture back.
CalmProfileSaves ==
  [][\A u \in UserIds :
       "profile" \notin met /\ profiles[u].there =>
         Differing(profiles'[u], profiles[u])
           \subseteq UNION {Saves(req[p].kind) : p \in {p \in Slots : Busy(p) /\ Owner(req[p]) = u}}]_<<handlerVars, accountVars>>
=============================================================================
