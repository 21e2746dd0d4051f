---------------------------- MODULE UserServerProofs ----------------------------
(***************************************************************************)
(* Proofs about UserServer, for any number of requests at once, accounts,  *)
(* photos, stories and users, and any bounds.  Of the accounts: one for    *)
(* each e-mail, saves that keep to their column, exact counts of likes.    *)
(* Of Grok: what it remembers is the end of the talk.  Of the stories:     *)
(* files and rows agree at rest.  Each but for the histories its property  *)
(* names.                                                                  *)
(*                                                                         *)
(* Every proof rests on Handling: each handler stands at a step of what it *)
(* was asked for.  One lemma for each action says what it does to its      *)
(* handler; the invariants of the accounts, the stories and Grok then need *)
(* only look at the actions of their own component, and the others leave   *)
(* their handlers aside.                                                   *)
(***************************************************************************)
EXTENDS UserServer, SequenceTheorems, FiniteSetTheorems, TLAPS
-----------------------------------------------------------------------------
(* The handlers.                                                           *)

\* The steps a handler begins at.
FirstSteps == {"findEmail", "saveNames", "findProfile", "findOwned", "findLiked", "findUnliked", "insertReview",
               "saveReview", "write", "findStory", "findExpired", "fetch"}

\* A handler of kind k may stand there.
Stands(at, k) ==
  /\ at = "idle" <=> k = "none"
  /\ at \in {"findEmail", "saveUser"} => k = "register"
  /\ at = "saveNames" => k = "edit"
  /\ at = "findProfile" =>
       k \in {"edit", "ownProfile", "setPicture", "uploadPhoto", "uploadPicture", "deletePhoto", "review"}
  /\ at = "insertProfile" => k \in {"register", "ownProfile", "edit", "setPicture", "uploadPicture"}
  /\ at = "findPhoto" => k = "setPicture"
  /\ at = "insertPhoto" => k \in {"uploadPhoto", "uploadPicture"}
  /\ at \in {"select", "update"} => k \in {"edit", "setPicture", "uploadPicture", "review"}
  /\ at \in {"findOwned", "deletePhoto"} => k = "deletePhoto"
  /\ at \in {"findLiked", "findLike", "insertLike", "countLike"} => k = "like"
  /\ at \in {"findUnliked", "findOwnLike", "deleteLike", "countUnlike"} => k = "unlike"
  /\ at = "insertReview" => k = "verify"
  /\ at = "saveReview" => k = "review"
  /\ at \in {"write", "thumbnail", "saveStory", "undo"} => k = "upload"
  /\ at = "findStory" => k = "deleteStory"
  /\ at = "findExpired" => k = "sweep"
  /\ at \in {"unlink", "unlinkThumbnail", "deleteRow"} => k \in {"deleteStory", "sweep"}
  /\ at = "fetch" => k = "ask"
  /\ k = "upload" => at \in {"write", "thumbnail", "saveStory", "undo"}
  /\ k \in {"deleteStory", "sweep"} => at \in {"findStory", "findExpired", "unlink", "unlinkThumbnail", "deleteRow"}
  /\ k = "ask" => at = "fetch"

\* What a request is.
Asked(r) ==
  /\ r.kind \in AccountKinds \union StoryKinds \union {"ask", "none"}
  /\ r.kind = "none" => r = NoReq
  /\ r.kind = "unlike" => r = [NoReq EXCEPT !.kind = "unlike", !.user = r.user, !.id = r.id]

\* Every slot has a handler at a step of its kind, or none.
Handling ==
  /\ pc = [p \in Slots |-> pc[p]] /\ req = [p \in Slots |-> req[p]]
  /\ \A p \in Slots : Stands(pc[p], req[p].kind) /\ Asked(req[p])

\* Nothing but the handler of slot p moves.
Only(p) ==
  /\ pc' = [q \in Slots |-> pc'[q]] /\ req' = [q \in Slots |-> req'[q]]
  /\ \A q \in Slots : q # p => pc'[q] = pc[q] /\ req'[q] = req[q]

USE SlotsAssumption, RequestsAssumption

\* A free slot is one whose request is none.
LEMMA NoReqIs == NoReq.kind = "none" /\ NoReq.user = 0 /\ NoReq.id = 0 /\ NoReq.word = "" /\ Asked(NoReq)
                 /\ Stands("idle", NoReq.kind)
BY DEF NoReq, Asked, Stands

\* A request takes a free slot.
LEMMA StartIs ==
  ASSUME Handling, NEW p \in Slots, NEW at, NEW r, NEW T, Start(p, at, r, T)
  PROVE  /\ Only(p) /\ pc[p] = "idle" /\ req[p] = NoReq /\ pc'[p] = at /\ req'[p] = r
         /\ met' = met \union T /\ faults' = faults /\ sent < MaxRequests /\ sent' = sent + 1
<1>1. pc[p] = "idle" /\ pc' = [pc EXCEPT ![p] = at] /\ req' = [req EXCEPT ![p] = r]
      /\ met' = met \union T /\ faults' = faults /\ sent < MaxRequests /\ sent' = sent + 1
  BY DEF Start, Busy
<1>2. req[p] = NoReq
  BY <1>1 DEF Handling, Stands, Asked
<1> QED
  BY <1>1, <1>2 DEF Handling, Only

\* A handler that goes on keeps its request.
LEMMA GotoIs ==
  ASSUME Handling, NEW p \in Slots, NEW at, Goto(p, at)
  PROVE  Only(p) /\ pc'[p] = at /\ req'[p] = req[p] /\ sent' = sent
BY DEF Handling, Goto, Only

\* A handler that is over leaves its slot free.
LEMMA FinishIs ==
  ASSUME Handling, NEW p \in Slots, Finish(p)
  PROVE  Only(p) /\ pc'[p] = "idle" /\ req'[p] = NoReq /\ sent' = sent
BY DEF Handling, Finish, Only

\* A step of one handler keeps Handling if it does for that handler.
LEMMA OnlyHandles ==
  ASSUME Handling, NEW p \in Slots, Only(p), Stands(pc'[p], req'[p].kind), Asked(req'[p])
  PROVE  Handling'
BY DEF Handling, Only

-----------------------------------------------------------------------------
(* The handlers of the accounts.                                           *)

\* One step of such a handler comes after another.
Follows(a, b) ==
  /\ b = "saveUser" => a = "findEmail"
  /\ b = "insertProfile" => a \in {"saveUser", "findProfile"}
  /\ b = "findProfile" => a \in {"saveNames", "findOwned", "saveReview"}
  /\ b \in {"findPhoto", "insertPhoto"} => a \in {"findProfile", "insertProfile"}
  /\ b = "select" => a \in {"findProfile", "insertProfile", "findPhoto", "insertPhoto"}
  /\ b = "update" => a = "select"
  /\ b = "deletePhoto" => a = "findProfile"
  /\ b = "findLike" => a = "findLiked"
  /\ b = "insertLike" => a = "findLike"
  /\ b = "countLike" => a = "insertLike"
  /\ b = "findOwnLike" => a = "findUnliked"
  /\ b = "deleteLike" => a = "findOwnLike"
  /\ b = "countUnlike" => a = "deleteLike"
  /\ b \notin FirstSteps \ {"findProfile"}

\* What a request to the accounts is about exists.
About(r) ==
  /\ r.kind = "register" => r.word \in DOMAIN LowerCase
  /\ r.kind = "edit" => r.word \in Texts
  /\ r.kind \in AccountKinds \ {"register", "review"} => r.user \in DOMAIN users
  /\ r.kind \in {"setPicture", "deletePhoto", "like", "unlike"} => r.id \in DOMAIN photos
  /\ r.kind = "review" => r.id \in DOMAIN reviews /\ r.word \in {"verified", "rejected"}

\* A request to the accounts arrives.
Endpoint(p) ==
  \/ Register(p) \/ UpdateProfile(p) \/ UpdateUserProfile(p) \/ GetUserProfile(p)
  \/ SetProfilePicture(p) \/ UploadPhoto(p) \/ UploadProfilePicture(p)
  \/ RemovePhoto(p) \/ LikePhoto(p) \/ UnlikePhoto(p)
  \/ UploadVerificationPhoto(p) \/ ReviewVerificationRequest(p)

\* It begins at the first step of its kind, and what it is about exists.
LEMMA Endpoints ==
  ASSUME NEW p \in Slots, Endpoint(p)
  PROVE  \E at, r : /\ at \in FirstSteps /\ Asks(p, at, r) /\ r.kind \in AccountKinds
                     /\ Stands(at, r.kind) /\ Asked(r) /\ About(r)
<1> DEFINE Good(at, r) == Asks(p, at, r) /\ r.kind \in AccountKinds /\ Stands(at, r.kind) /\ Asked(r) /\ About(r)
           Some == \E at, r : at \in FirstSteps /\ Good(at, r)
<1>1. ASSUME Register(p) PROVE Some
  <2>1. PICK e \in DOMAIN LowerCase : Asks(p, "findEmail", [NoReq EXCEPT !.kind = "register", !.word = e])
    BY <1>1 DEF Register
  <2> DEFINE r == [NoReq EXCEPT !.kind = "register", !.word = e]
  <2>2. r.kind = "register" /\ r.word = e
    BY DEF NoReq
  <2> HIDE DEF r
  <2>3. Stands("findEmail", r.kind) /\ Asked(r) /\ About(r) /\ r.kind \in AccountKinds
    BY <2>2 DEF Stands, Asked, About, AccountKinds
  <2>4. Good("findEmail", r)
    BY <2>1, <2>3 DEF r
  <2> QED
    BY <2>4 DEF FirstSteps
<1>2. ASSUME NEW u \in DOMAIN users, NEW t \in Texts, NEW at \in {"saveNames", "findProfile"},
             Asks(p, at, [NoReq EXCEPT !.kind = "edit", !.user = u, !.word = t])
      PROVE  Some
  <2> DEFINE r == [NoReq EXCEPT !.kind = "edit", !.user = u, !.word = t]
  <2>2. r.kind = "edit" /\ r.word = t /\ r.user = u
    BY DEF NoReq
  <2> HIDE DEF r
  <2>3. Stands(at, r.kind) /\ Asked(r) /\ About(r) /\ r.kind \in AccountKinds
    BY <2>2 DEF Stands, Asked, About, AccountKinds
  <2>4. Good(at, r)
    BY <1>2, <2>3 DEF r
  <2> QED
    BY <2>4 DEF FirstSteps
<1>3. ASSUME NEW u \in DOMAIN users, NEW k \in {"ownProfile", "uploadPhoto", "uploadPicture", "verify"},
             NEW at, at = IF k = "verify" THEN "insertReview" ELSE "findProfile",
             Asks(p, at, [NoReq EXCEPT !.kind = k, !.user = u])
      PROVE  Some
  <2> DEFINE r == [NoReq EXCEPT !.kind = k, !.user = u]
  <2>2. r.kind = k /\ r.user = u
    BY DEF NoReq
  <2> HIDE DEF r
  <2>3. Stands(at, r.kind) /\ Asked(r) /\ About(r) /\ r.kind \in AccountKinds
    BY <1>3, <2>2 DEF Stands, Asked, About, AccountKinds
  <2>4. Good(at, r)
    BY <1>3, <2>3 DEF r
  <2>5. at \in FirstSteps
    BY <1>3 DEF FirstSteps
  <2> QED
    BY <2>4, <2>5
<1>4. ASSUME NEW u \in DOMAIN users, NEW i \in DOMAIN photos,
             NEW k \in {"setPicture", "deletePhoto", "like", "unlike"},
             NEW at \in FirstSteps, k = "setPicture" => at = "findProfile", k = "deletePhoto" => at = "findOwned",
             k = "like" => at = "findLiked", k = "unlike" => at = "findUnliked",
             Asks(p, at, [NoReq EXCEPT !.kind = k, !.user = u, !.id = i])
      PROVE  Some
  <2> DEFINE r == [NoReq EXCEPT !.kind = k, !.user = u, !.id = i]
  <2>2. r.kind = k /\ r.user = u /\ r.id = i
    BY DEF NoReq
  <2>a. r = [NoReq EXCEPT !.kind = k, !.user = r.user, !.id = r.id]
    BY <2>2
  <2> HIDE DEF r
  <2>3. Stands(at, r.kind) /\ About(r) /\ r.kind \in AccountKinds
    BY <1>4, <2>2 DEF Stands, About, AccountKinds
  <2>b. Asked(r)
    BY <2>2, <2>3, <2>a DEF Asked
  <2>4. Good(at, r)
    BY <1>4, <2>3, <2>b DEF r
  <2> QED
    BY <2>4
<1>5. ASSUME NEW i \in DOMAIN reviews, NEW s \in {"verified", "rejected"},
             Asks(p, "saveReview", [NoReq EXCEPT !.kind = "review", !.id = i, !.word = s])
      PROVE  Some
  <2> DEFINE r == [NoReq EXCEPT !.kind = "review", !.id = i, !.word = s]
  <2>2. r.kind = "review" /\ r.word = s /\ r.id = i
    BY DEF NoReq
  <2> HIDE DEF r
  <2>3. Stands("saveReview", r.kind) /\ Asked(r) /\ About(r) /\ r.kind \in AccountKinds
    BY <2>2 DEF Stands, Asked, About, AccountKinds
  <2>4. Good("saveReview", r)
    BY <1>5, <2>3 DEF r
  <2> QED
    BY <2>4 DEF FirstSteps
<1>6. ASSUME UpdateProfile(p) \/ UpdateUserProfile(p) PROVE Some
  BY <1>2, <1>6 DEF UpdateProfile, UpdateUserProfile, Edits
<1>7. ASSUME GetUserProfile(p) \/ UploadPhoto(p) \/ UploadProfilePicture(p) \/ UploadVerificationPhoto(p) PROVE Some
  <2>1. CASE GetUserProfile(p)
    BY <1>3, <2>1 DEF GetUserProfile
  <2>2. CASE UploadPhoto(p)
    BY <1>3, <2>2 DEF UploadPhoto, Uploads
  <2>3. CASE UploadProfilePicture(p)
    BY <1>3, <2>3 DEF UploadProfilePicture, Uploads
  <2>4. CASE UploadVerificationPhoto(p)
    BY <1>3, <2>4 DEF UploadVerificationPhoto
  <2> QED
    BY <1>7, <2>1, <2>2, <2>3, <2>4
<1>8. ASSUME SetProfilePicture(p) PROVE Some
  <2>1. PICK u \in DOMAIN users, i \in DOMAIN photos :
          Asks(p, "findProfile", [NoReq EXCEPT !.kind = "setPicture", !.user = u, !.id = i])
    BY <1>8 DEF SetProfilePicture
  <2> QED
    BY <1>4, <2>1 DEF FirstSteps
<1>9. ASSUME NEW k \in {"deletePhoto", "like", "unlike"},
             NEW at \in FirstSteps, k = "deletePhoto" => at = "findOwned",
             k = "like" => at = "findLiked", k = "unlike" => at = "findUnliked",
             OnPhoto(p, k, at)
      PROVE  Some
  <2>1. PICK u \in DOMAIN users, i \in DOMAIN photos : Asks(p, at, [NoReq EXCEPT !.kind = k, !.user = u, !.id = i])
    BY <1>9 DEF OnPhoto
  <2> QED
    BY <1>4, <1>9, <2>1
<1>10. ASSUME RemovePhoto(p) \/ LikePhoto(p) \/ UnlikePhoto(p) PROVE Some
  BY <1>9, <1>10 DEF RemovePhoto, LikePhoto, UnlikePhoto, FirstSteps
<1>11. ASSUME ReviewVerificationRequest(p) PROVE Some
  BY <1>5, <1>11 DEF ReviewVerificationRequest
<1> QED
  BY <1>1, <1>6, <1>7, <1>8, <1>10, <1>11 DEF Endpoint
-----------------------------------------------------------------------------
(* One step of a handler of the accounts.                                  *)

\* A handler of the accounts takes its next step.
Handle(p) ==
  \/ FindEmail(p) \/ SaveUser(p) \/ SaveNames(p) \/ FindProfile(p) \/ InsertProfile(p)
  \/ FindPhoto(p) \/ InsertPhoto(p) \/ Select(p) \/ Update(p)
  \/ FindOwned(p) \/ DeletePhoto(p)
  \/ FindLiked(p) \/ FindLike(p) \/ InsertLike(p) \/ CountUp(p)
  \/ FindUnliked(p) \/ FindOwnLike(p) \/ DeleteLike(p) \/ CountDown(p)
  \/ InsertReview(p) \/ SaveReview(p)

\* The handler goes on with its request, or is over.
GoesOn(p) == req'[p] = req[p] /\ pc'[p] # "idle" /\ Stands(pc'[p], req[p].kind) /\ Follows(pc[p], pc'[p])
IsOver(p) == req'[p] = NoReq /\ pc'[p] = "idle"

\* Handler p takes a step, makes no trouble, and goes on or is over.
Moved(p) ==
  /\ Only(p) /\ met' = met /\ sent' = sent
  /\ pc[p] # "idle"
  /\ GoesOn(p) \/ IsOver(p)

\* Go, of a handler that has not ended.
LEMMA GoIs ==
  ASSUME Handling, NEW p \in Slots, NEW at, Go(p, at), pc[p] # "idle", at # "idle",
         Stands(at, req[p].kind), Follows(pc[p], at)
  PROVE  Moved(p) /\ pc'[p] = at /\ req'[p] = req[p]
<1>1. Goto(p, at) /\ met' = met
  BY DEF Go
<1>2. Only(p) /\ pc'[p] = at /\ req'[p] = req[p] /\ sent' = sent
  BY <1>1, GotoIs
<1> QED
  BY <1>1, <1>2 DEF Moved, GoesOn

\* Leave, of a handler that has not ended.
LEMMA LeaveIs ==
  ASSUME Handling, NEW p \in Slots, Leave(p), pc[p] # "idle"
  PROVE  Moved(p) /\ IsOver(p) /\ held' = [held EXCEPT ![p] = Nothing]
<1>1. Finish(p) /\ met' = met /\ held' = [held EXCEPT ![p] = Nothing]
  BY DEF Leave
<1>2. Only(p) /\ pc'[p] = "idle" /\ req'[p] = NoReq /\ sent' = sent
  BY <1>1, FinishIs
<1> QED
  BY <1>1, <1>2 DEF Moved, IsOver

\* Check, which goes on or ends the request.
LEMMA CheckIs ==
  ASSUME Handling, NEW p \in Slots, NEW from, NEW to, NEW ok, Check(p, from, ok, to), from # "idle", to # "idle",
         Stands(to, req[p].kind), Follows(from, to)
  PROVE  /\ Moved(p) /\ pc[p] = from /\ UNCHANGED accountTables
         /\ \/ ok /\ pc'[p] = to /\ req'[p] = req[p] /\ held' = held
            \/ ~ok /\ IsOver(p) /\ held' = [held EXCEPT ![p] = Nothing]
<1>1. pc[p] = from /\ UNCHANGED accountTables
  BY DEF Check
<1>2. CASE ok
  <2>1. Go(p, to) /\ held' = held
    BY <1>2 DEF Check
  <2>2. Moved(p) /\ pc'[p] = to /\ req'[p] = req[p]
    BY <1>1, <2>1, GoIs
  <2> QED
    BY <1>1, <1>2, <2>1, <2>2
<1>3. CASE ~ok
  <2>1. Leave(p)
    BY <1>3 DEF Check
  <2>2. Moved(p) /\ IsOver(p) /\ held' = [held EXCEPT ![p] = Nothing]
    BY <1>1, <2>1, LeaveIs
  <2> QED
    BY <1>1, <1>3, <2>2
<1> QED
  BY <1>2, <1>3

\* The steps that only look.
LEMMA FindEmailIt ==
  ASSUME Handling, NEW p \in Slots, FindEmail(p)
  PROVE  /\ Moved(p) /\ pc[p] = "findEmail" /\ UNCHANGED accountTables
         /\ \/ /\ \A u \in DOMAIN users : users[u] # req[p].word
               /\ pc'[p] = "saveUser" /\ req'[p] = req[p] /\ held' = held
            \/ IsOver(p) /\ held' = [held EXCEPT ![p] = Nothing]
<1> DEFINE ok == \A u \in DOMAIN users : users[u] # req[p].word
<1>1. Check(p, "findEmail", ok, "saveUser")
  BY DEF FindEmail
<1>2. Stands("saveUser", req[p].kind) /\ Follows("findEmail", "saveUser")
  BY <1>1 DEF Check, Handling, Stands, Follows, FirstSteps
<1> HIDE DEF ok
<1>3. /\ Moved(p) /\ pc[p] = "findEmail" /\ UNCHANGED accountTables
      /\ \/ ok /\ pc'[p] = "saveUser" /\ req'[p] = req[p] /\ held' = held
         \/ ~ok /\ IsOver(p) /\ held' = [held EXCEPT ![p] = Nothing]
  BY <1>1, <1>2, CheckIs
<1> USE DEF ok
<1> QED
  BY <1>3

\* A handler looks for a row and goes on, or ends for want of it.
LEMMA LooksIt ==
  ASSUME Handling, NEW p \in Slots, NEW from, NEW to, NEW ok, Check(p, from, ok, to),
         \/ from = "findPhoto" /\ to = "select"
         \/ from = "findOwned" /\ to = "findProfile"
         \/ from = "findLiked" /\ to = "findLike"
         \/ from = "findLike" /\ to = "insertLike"
         \/ from = "findUnliked" /\ to = "findOwnLike"
         \/ from = "findOwnLike" /\ to = "deleteLike"
  PROVE  /\ Moved(p) /\ pc[p] = from /\ UNCHANGED accountTables
         /\ \/ ok /\ pc'[p] = to /\ req'[p] = req[p] /\ held' = held
            \/ ~ok /\ IsOver(p) /\ held' = [held EXCEPT ![p] = Nothing]
<1>1. Stands(from, req[p].kind)
  BY DEF Check, Handling
<1>2. from # "idle" /\ to # "idle"
  OBVIOUS
<1>3. Stands(to, req[p].kind) /\ Follows(from, to)
  BY <1>1 DEF Stands, Follows, FirstSteps
<1> QED
  BY <1>2, <1>3, CheckIs

\* updateUserProfile saves the names of the user.
LEMMA SaveNamesIt ==
  ASSUME Handling, NEW p \in Slots, SaveNames(p)
  PROVE  Moved(p) /\ pc[p] = "saveNames" /\ pc'[p] = "findProfile" /\ req'[p] = req[p] /\ UNCHANGED accountVars
<1>1. pc[p] = "saveNames" /\ Go(p, "findProfile") /\ UNCHANGED accountVars
  BY DEF SaveNames
<1>2. Stands("findProfile", req[p].kind) /\ Follows("saveNames", "findProfile")
  BY <1>1 DEF Handling, Stands, Follows, FirstSteps
<1> QED
  BY <1>1, <1>2, GoIs

\* register inserts the row of the user, or the index refuses it.
LEMMA SaveUserIt ==
  ASSUME Handling, NEW p \in Slots, SaveUser(p)
  PROVE  /\ Moved(p) /\ pc[p] = "saveUser" /\ pc'[p] = "insertProfile" /\ req'[p] = req[p] /\ req[p].kind = "register"
         /\ users' = Append(users, LowerCase[req[p].word])
         /\ held' = [held EXCEPT ![p].id = Len(users) + 1]
         /\ UNCHANGED <<profiles, photos, likes, reviews>>
<1>1. pc[p] = "saveUser" /\ Go(p, "insertProfile")
  BY DEF SaveUser
<1>2. Stands("insertProfile", req[p].kind) /\ Follows("saveUser", "insertProfile") /\ req[p].kind = "register"
  BY <1>1 DEF Handling, Stands, Follows, FirstSteps
<1>3. Moved(p) /\ pc'[p] = "insertProfile" /\ req'[p] = req[p]
  BY <1>1, <1>2, GoIs
<1> QED
  BY <1>1, <1>2, <1>3 DEF SaveUser

\* Where the handlers that have a profile go.
LEMMA WithProfileIs ==
  ASSUME NEW p \in Slots,
         req[p].kind \in {"edit", "setPicture", "uploadPhoto", "uploadPicture", "deletePhoto", "review"},
         NEW from \in {"findProfile", "insertProfile"}, req[p].kind = "deletePhoto" => from = "findProfile"
  PROVE  /\ WithProfile(p) \in {"findPhoto", "insertPhoto", "deletePhoto", "select"}
         /\ WithProfile(p) # "idle"
         /\ Stands(WithProfile(p), req[p].kind) /\ Follows(from, WithProfile(p))
<1>1. CASE req[p].kind = "setPicture"
  BY <1>1 DEF WithProfile, Stands, Follows, FirstSteps
<1>2. CASE req[p].kind \in {"uploadPhoto", "uploadPicture"}
  BY <1>2 DEF WithProfile, Stands, Follows, FirstSteps
<1>3. CASE req[p].kind = "deletePhoto"
  BY <1>3 DEF WithProfile, Stands, Follows, FirstSteps
<1>4. CASE req[p].kind \in {"edit", "review"}
  <2>1. WithProfile(p) = "select"
    BY <1>4 DEF WithProfile
  <2> QED
    BY <1>4, <2>1 DEF Stands, Follows, FirstSteps
<1> QED
  BY <1>1, <1>2, <1>3, <1>4

\* A handler looks for a profile and goes on with what it found.
LEMMA FindProfileIt ==
  ASSUME Handling, NEW p \in Slots, FindProfile(p)
  PROVE  /\ Moved(p) /\ pc[p] = "findProfile" /\ UNCHANGED accountTables
         /\ \/ /\ profiles[Owner(req[p])].there /\ req'[p] = req[p]
               /\ pc'[p] \in {"findPhoto", "insertPhoto", "deletePhoto", "select"}
               /\ held' = [held EXCEPT ![p].profile = profiles[Owner(req[p])]]
            \/ ~profiles[Owner(req[p])].there /\ req'[p] = req[p] /\ pc'[p] = "insertProfile" /\ held' = held
            \/ IsOver(p) /\ held' = [held EXCEPT ![p] = Nothing]
<1> DEFINE row == profiles[Owner(req[p])]
<1>1. pc[p] = "findProfile" /\ UNCHANGED accountTables
  BY DEF FindProfile
<1>2. req[p].kind \in {"edit", "ownProfile", "setPicture", "uploadPhoto", "uploadPicture", "deletePhoto", "review"}
  BY <1>1 DEF Handling, Stands
<1>3. CASE row.there /\ req[p].kind # "ownProfile" /\ Go(p, WithProfile(p)) /\ held' = [held EXCEPT ![p].profile = row]
  <2> HIDE DEF row
  <2>1. /\ WithProfile(p) \in {"findPhoto", "insertPhoto", "deletePhoto", "select"} /\ WithProfile(p) # "idle"
        /\ Stands(WithProfile(p), req[p].kind) /\ Follows(pc[p], WithProfile(p))
    BY <1>1, <1>2, <1>3, WithProfileIs
  <2>2. Moved(p) /\ pc'[p] = WithProfile(p) /\ req'[p] = req[p]
    BY <1>1, <1>3, <2>1, GoIs
  <2> USE DEF row
  <2> QED
    BY <1>1, <1>3, <2>1, <2>2
<1>4. CASE ~row.there /\ req[p].kind \in {"ownProfile", "edit", "setPicture", "uploadPicture"}
           /\ Go(p, "insertProfile") /\ held' = held
  <2>1. Stands("insertProfile", req[p].kind) /\ Follows(pc[p], "insertProfile")
    BY <1>1, <1>4 DEF Stands, Follows, FirstSteps
  <2>2. Moved(p) /\ pc'[p] = "insertProfile" /\ req'[p] = req[p]
    BY <1>1, <1>4, <2>1, GoIs
  <2> QED
    BY <1>1, <1>4, <2>2
<1>5. CASE Leave(p)
  BY <1>1, <1>5, LeaveIs
<1> QED
  BY <1>3, <1>4, <1>5 DEF FindProfile

\* The row an insert of a profile would write, and whose.
Inserted(p) == IF req[p].kind = "edit" THEN [NewProfile EXCEPT !.text = req[p].word] ELSE NewProfile
Inserts(p) == IF req[p].kind = "register" THEN held[p].id ELSE req[p].user

\* A profile is inserted, or is there already and the request fails.
LEMMA InsertProfileIt ==
  ASSUME Handling, NEW p \in Slots, InsertProfile(p)
  PROVE  /\ Moved(p) /\ pc[p] = "insertProfile" /\ UNCHANGED <<users, photos, likes, reviews>>
         /\ \/ profiles' = profiles /\ IsOver(p) /\ held' = [held EXCEPT ![p] = Nothing]
            \/ /\ ~profiles[Inserts(p)].there
               /\ profiles' = [profiles EXCEPT ![Inserts(p)] = Inserted(p)]
               /\ \/ IsOver(p) /\ held' = [held EXCEPT ![p] = Nothing]
                  \/ /\ req'[p] = req[p] /\ req[p].kind \in {"setPicture", "uploadPicture"}
                     /\ pc'[p] \in {"findPhoto", "insertPhoto"}
                     /\ held' = [held EXCEPT ![p].profile = Inserted(p)]
<1> DEFINE over == req[p].kind \in {"register", "ownProfile", "edit"}
<1>1. pc[p] = "insertProfile" /\ UNCHANGED <<users, photos, likes, reviews>>
  BY DEF InsertProfile
<1>2. req[p].kind \in {"register", "ownProfile", "edit", "setPicture", "uploadPicture"}
  BY <1>1 DEF Handling, Stands
<1>3. \/ Leave(p) /\ profiles' = profiles
      \/ /\ ~profiles[Inserts(p)].there
         /\ profiles' = [profiles EXCEPT ![Inserts(p)] = Inserted(p)]
         /\ \/ Leave(p)
            \/ /\ ~over /\ Go(p, WithProfile(p))
               /\ held' = [held EXCEPT ![p].profile = Inserted(p)]
  BY DEF InsertProfile, Inserts, Inserted
<1>4. CASE Leave(p)
  BY <1>1, <1>3, <1>4, LeaveIs
<1>5. CASE ~over /\ Go(p, WithProfile(p))
  <2>1. req[p].kind \in {"setPicture", "uploadPicture"}
    BY <1>2, <1>5
  <2>2. /\ WithProfile(p) # "idle"
        /\ Stands(WithProfile(p), req[p].kind) /\ Follows(pc[p], WithProfile(p))
    BY <1>1, <2>1, WithProfileIs
  <2>3. Moved(p) /\ pc'[p] = WithProfile(p) /\ req'[p] = req[p]
    BY <1>1, <1>5, <2>2, GoIs
  <2>4. WithProfile(p) \in {"findPhoto", "insertPhoto"}
    BY <2>1 DEF WithProfile
  <2>5. \/ Leave(p)
        \/ /\ ~profiles[Inserts(p)].there
           /\ profiles' = [profiles EXCEPT ![Inserts(p)] = Inserted(p)]
           /\ held' = [held EXCEPT ![p].profile = Inserted(p)]
    BY <1>3
  <2>6. ~Leave(p)
    <3>1. SUFFICES ASSUME Leave(p) PROVE FALSE
      OBVIOUS
    <3>2. pc'[p] = "idle"
      BY <3>1, <1>1, LeaveIs DEF IsOver
    <3> QED
      BY <3>2, <2>3, <2>2
  <2> HIDE DEF over
  <2> QED
    BY <1>1, <2>1, <2>3, <2>4, <2>5, <2>6
<1> HIDE DEF over
<1> QED
  BY <1>3, <1>4, <1>5
\* The row of a photo is inserted.
LEMMA InsertPhotoIt ==
  ASSUME Handling, NEW p \in Slots, InsertPhoto(p)
  PROVE  /\ Moved(p) /\ pc[p] = "insertPhoto" /\ UNCHANGED <<users, profiles, likes, reviews>>
         /\ photos' = Append(photos, [owner |-> req[p].user, likesCount |-> 0, there |-> TRUE])
         /\ \/ IsOver(p) /\ held' = [held EXCEPT ![p] = Nothing]
            \/ /\ pc'[p] = "select" /\ req'[p] = req[p] /\ req[p].kind = "uploadPicture"
               /\ held' = [held EXCEPT ![p].id = Len(photos) + 1]
<1>1. /\ pc[p] = "insertPhoto" /\ UNCHANGED <<users, profiles, likes, reviews>>
      /\ photos' = Append(photos, [owner |-> req[p].user, likesCount |-> 0, there |-> TRUE])
  BY DEF InsertPhoto
<1>2. CASE Leave(p)
  BY <1>1, <1>2, LeaveIs
<1>3. CASE req[p].kind # "uploadPhoto" /\ Go(p, "select") /\ held' = [held EXCEPT ![p].id = Len(photos) + 1]
  <2>1. req[p].kind = "uploadPicture"
    BY <1>1, <1>3 DEF Handling, Stands
  <2>2. Stands("select", req[p].kind) /\ Follows(pc[p], "select")
    BY <1>1, <2>1 DEF Stands, Follows, FirstSteps
  <2>3. Moved(p) /\ pc'[p] = "select" /\ req'[p] = req[p]
    BY <1>1, <1>3, <2>2, GoIs
  <2> QED
    BY <1>1, <1>3, <2>1, <2>3
<1> QED
  BY <1>2, <1>3 DEF InsertPhoto

\* TypeORM reads the row before it saves.
LEMMA SelectIt ==
  ASSUME Handling, NEW p \in Slots, Select(p)
  PROVE  /\ Moved(p) /\ pc[p] = "select" /\ UNCHANGED accountTables
         /\ \/ IsOver(p) /\ held' = [held EXCEPT ![p] = Nothing]
            \/ /\ pc'[p] = "update" /\ req'[p] = req[p]
               /\ held' = [held EXCEPT ![p].cols = Differing(Changed(p), profiles[Owner(req[p])])]
<1> DEFINE cols == Differing(Changed(p), profiles[Owner(req[p])])
<1>1. pc[p] = "select" /\ UNCHANGED accountTables
  BY DEF Select
<1>2. CASE Leave(p)
  BY <1>1, <1>2, LeaveIs
<1>3. CASE Go(p, "update") /\ held' = [held EXCEPT ![p].cols = cols]
  <2>1. Stands("update", req[p].kind) /\ Follows(pc[p], "update")
    BY <1>1 DEF Handling, Stands, Follows, FirstSteps
  <2>2. Moved(p) /\ pc'[p] = "update" /\ req'[p] = req[p]
    BY <1>1, <1>3, <2>1, GoIs
  <2> QED
    BY <1>1, <1>3, <2>2
<1> QED
  BY <1>2, <1>3 DEF Select

\* TypeORM writes the columns that differ from the row it read.
LEMMA UpdateIt ==
  ASSUME Handling, NEW p \in Slots, Update(p)
  PROVE  /\ Moved(p) /\ pc[p] = "update" /\ UNCHANGED <<users, photos, likes, reviews>>
         /\ \/ profiles' = profiles
            \/ profiles' = [profiles EXCEPT ![Owner(req[p])] =
                              Saved(profiles[Owner(req[p])], Changed(p), held[p].cols)]
         /\ IsOver(p) /\ held' = [held EXCEPT ![p] = Nothing]
<1>1. pc[p] = "update" /\ UNCHANGED <<users, photos, likes, reviews>>
  BY DEF Update
<1>2. Leave(p)
  BY DEF Update
<1> QED
  BY <1>1, <1>2, LeaveIs DEF Update

\* The row of a photo is removed.
LEMMA DeletePhotoIt ==
  ASSUME Handling, NEW p \in Slots, DeletePhoto(p)
  PROVE  /\ Moved(p) /\ IsOver(p) /\ pc[p] = "deletePhoto" /\ UNCHANGED <<users, profiles, reviews>>
         /\ held' = [held EXCEPT ![p] = Nothing]
         /\ \/ UNCHANGED <<photos, likes>>
            \/ /\ photos' = [photos EXCEPT ![req[p].id].there = FALSE]
               /\ likes' = {l \in likes : l[2] # req[p].id}
               /\ HasPhoto(req[p].id)
<1>1. pc[p] = "deletePhoto" /\ Leave(p) /\ UNCHANGED <<users, profiles, reviews>>
  BY DEF DeletePhoto
<1>2. Moved(p) /\ IsOver(p) /\ held' = [held EXCEPT ![p] = Nothing]
  BY <1>1, LeaveIs
<1>3. \/ UNCHANGED <<photos, likes>>
      \/ /\ photos' = [photos EXCEPT ![req[p].id].there = FALSE]
         /\ likes' = {l \in likes : l[2] # req[p].id}
         /\ HasPhoto(req[p].id)
  BY DEF DeletePhoto
<1> QED
  BY <1>1, <1>2, <1>3

\* The row of a like is inserted, or the index refuses it.
LEMMA InsertLikeIt ==
  ASSUME Handling, NEW p \in Slots, InsertLike(p)
  PROVE  /\ Moved(p) /\ pc[p] = "insertLike" /\ UNCHANGED <<users, profiles, photos, reviews>>
         /\ \/ IsOver(p) /\ likes' = likes /\ held' = [held EXCEPT ![p] = Nothing]
            \/ /\ <<req[p].user, req[p].id>> \notin likes /\ HasPhoto(req[p].id)
               /\ likes' = likes \union {<<req[p].user, req[p].id>>}
               /\ pc'[p] = "countLike" /\ req'[p] = req[p] /\ held' = held
<1>1. pc[p] = "insertLike" /\ UNCHANGED <<users, profiles, photos, reviews>>
  BY DEF InsertLike
<1>2. CASE Leave(p) /\ likes' = likes
  BY <1>1, <1>2, LeaveIs
<1>3. CASE /\ <<req[p].user, req[p].id>> \notin likes /\ HasPhoto(req[p].id)
           /\ likes' = likes \union {<<req[p].user, req[p].id>>}
           /\ Go(p, "countLike") /\ held' = held
  <2>1. Stands("countLike", req[p].kind) /\ Follows(pc[p], "countLike")
    BY <1>1 DEF Handling, Stands, Follows, FirstSteps
  <2>2. Moved(p) /\ pc'[p] = "countLike" /\ req'[p] = req[p]
    BY <1>1, <1>3, <2>1, GoIs
  <2> QED
    BY <1>1, <1>3, <2>2
<1> QED
  BY <1>2, <1>3 DEF InsertLike

\* The row of a like is removed.
LEMMA DeleteLikeIt ==
  ASSUME Handling, NEW p \in Slots, DeleteLike(p)
  PROVE  /\ Moved(p) /\ pc[p] = "deleteLike" /\ UNCHANGED <<users, profiles, photos, reviews, held>>
         /\ likes' = likes \ {<<req[p].user, req[p].id>>}
         /\ pc'[p] = "countUnlike" /\ req'[p] = req[p]
<1>1. /\ pc[p] = "deleteLike" /\ UNCHANGED <<users, profiles, photos, reviews, held>>
      /\ likes' = likes \ {<<req[p].user, req[p].id>>} /\ Go(p, "countUnlike")
  BY DEF DeleteLike
<1>2. Stands("countUnlike", req[p].kind) /\ Follows(pc[p], "countUnlike")
  BY <1>1 DEF Handling, Stands, Follows, FirstSteps
<1>3. Moved(p) /\ pc'[p] = "countUnlike" /\ req'[p] = req[p]
  BY <1>1, <1>2, GoIs
<1> QED
  BY <1>1, <1>3

\* The count of likes follows a like.
LEMMA CountUpIt ==
  ASSUME Handling, NEW p \in Slots, CountUp(p)
  PROVE  /\ Moved(p) /\ IsOver(p) /\ pc[p] = "countLike" /\ UNCHANGED <<users, profiles, likes, reviews>>
         /\ held' = [held EXCEPT ![p] = Nothing] /\ Recount(req[p].id, 1)
<1>1. pc[p] = "countLike" /\ Leave(p) /\ Recount(req[p].id, 1) /\ UNCHANGED <<users, profiles, likes, reviews>>
  BY DEF CountUp
<1> QED
  BY <1>1, LeaveIs

\* The count of likes follows an unlike.
LEMMA CountDownIt ==
  ASSUME Handling, NEW p \in Slots, CountDown(p)
  PROVE  /\ Moved(p) /\ IsOver(p) /\ pc[p] = "countUnlike" /\ UNCHANGED <<users, profiles, likes, reviews>>
         /\ held' = [held EXCEPT ![p] = Nothing] /\ Recount(req[p].id, -1)
<1>1. pc[p] = "countUnlike" /\ Leave(p) /\ Recount(req[p].id, -1) /\ UNCHANGED <<users, profiles, likes, reviews>>
  BY DEF CountDown
<1> QED
  BY <1>1, LeaveIs

\* A verification request is stored.
LEMMA InsertReviewIt ==
  ASSUME Handling, NEW p \in Slots, InsertReview(p)
  PROVE  /\ Moved(p) /\ IsOver(p) /\ pc[p] = "insertReview" /\ UNCHANGED <<users, profiles, photos, likes>>
         /\ held' = [held EXCEPT ![p] = Nothing]
         /\ reviews' = Append(reviews, [user |-> req[p].user, status |-> "pending"])
<1>1. /\ pc[p] = "insertReview" /\ Leave(p) /\ UNCHANGED <<users, profiles, photos, likes>>
      /\ reviews' = Append(reviews, [user |-> req[p].user, status |-> "pending"])
  BY DEF InsertReview
<1> QED
  BY <1>1, LeaveIs

\* A verification request gets its answer.
LEMMA SaveReviewIt ==
  ASSUME Handling, NEW p \in Slots, SaveReview(p)
  PROVE  /\ Moved(p) /\ pc[p] = "saveReview" /\ UNCHANGED <<users, profiles, photos, likes>>
         /\ reviews' = [reviews EXCEPT ![req[p].id].status = req[p].word]
         /\ \/ IsOver(p) /\ held' = [held EXCEPT ![p] = Nothing]
            \/ pc'[p] = "findProfile" /\ req'[p] = req[p] /\ held' = held
<1>1. /\ pc[p] = "saveReview" /\ UNCHANGED <<users, profiles, photos, likes>>
      /\ reviews' = [reviews EXCEPT ![req[p].id].status = req[p].word]
  BY DEF SaveReview
<1>2. CASE Leave(p)
  BY <1>1, <1>2, LeaveIs
<1>3. CASE Go(p, "findProfile") /\ held' = held
  <2>1. Stands("findProfile", req[p].kind) /\ Follows(pc[p], "findProfile")
    BY <1>1 DEF Handling, Stands, Follows, FirstSteps
  <2> QED
    BY <1>1, <1>3, <2>1, GoIs
<1> QED
  BY <1>2, <1>3 DEF SaveReview

\* The steps that touch no table.
LEMMA Lookers ==
  ASSUME Handling, NEW p \in Slots,
         FindPhoto(p) \/ FindOwned(p) \/ FindLiked(p) \/ FindLike(p) \/ FindUnliked(p)
  PROVE  /\ Moved(p) /\ UNCHANGED accountTables
         /\ pc[p] \in {"findPhoto", "findOwned", "findLiked", "findLike", "findUnliked"}
         /\ \/ /\ req'[p] = req[p] /\ held' = held
               /\ pc'[p] \in {"select", "findProfile", "findLike", "insertLike", "findOwnLike"}
               /\ pc'[p] = "select" => pc[p] = "findPhoto"
            \/ IsOver(p) /\ held' = [held EXCEPT ![p] = Nothing]
<1>1. \E from, to, ok : /\ Check(p, from, ok, to)
                        /\ \/ from = "findPhoto" /\ to = "select"
                           \/ from = "findOwned" /\ to = "findProfile"
                           \/ from = "findLiked" /\ to = "findLike"
                           \/ from = "findLike" /\ to = "insertLike"
                           \/ from = "findUnliked" /\ to = "findOwnLike"
  BY DEF FindPhoto, FindOwned, FindLiked, FindLike, FindUnliked
<1>2. PICK from, to, ok : /\ Check(p, from, ok, to)
                          /\ \/ from = "findPhoto" /\ to = "select"
                             \/ from = "findOwned" /\ to = "findProfile"
                             \/ from = "findLiked" /\ to = "findLike"
                             \/ from = "findLike" /\ to = "insertLike"
                             \/ from = "findUnliked" /\ to = "findOwnLike"
  BY <1>1
<1>3. /\ Moved(p) /\ pc[p] = from /\ UNCHANGED accountTables
      /\ \/ ok /\ pc'[p] = to /\ req'[p] = req[p] /\ held' = held
         \/ ~ok /\ IsOver(p) /\ held' = [held EXCEPT ![p] = Nothing]
  BY <1>2, LooksIt
<1> QED
  BY <1>2, <1>3

\* unlikePhoto looks for the like it removes.
LEMMA FindOwnLikeIt ==
  ASSUME Handling, NEW p \in Slots, FindOwnLike(p)
  PROVE  /\ Moved(p) /\ UNCHANGED accountTables /\ pc[p] = "findOwnLike"
         /\ \/ /\ <<req[p].user, req[p].id>> \in likes
               /\ req'[p] = req[p] /\ held' = held /\ pc'[p] = "deleteLike"
            \/ IsOver(p) /\ held' = [held EXCEPT ![p] = Nothing]
<1> DEFINE ok == <<req[p].user, req[p].id>> \in likes
<1>1. Check(p, "findOwnLike", ok, "deleteLike")
  BY DEF FindOwnLike
<1> HIDE DEF ok
<1>2. /\ Moved(p) /\ pc[p] = "findOwnLike" /\ UNCHANGED accountTables
      /\ \/ ok /\ pc'[p] = "deleteLike" /\ req'[p] = req[p] /\ held' = held
         \/ ~ok /\ IsOver(p) /\ held' = [held EXCEPT ![p] = Nothing]
  BY <1>1, LooksIt
<1> USE DEF ok
<1> QED
  BY <1>2

\* A query fails, and the request with it.
LEMMA AccountFailsIt ==
  ASSUME Handling, NEW p \in Slots, AccountFails(p)
  PROVE  /\ Only(p) /\ IsOver(p) /\ pc[p] # "idle" /\ req[p].kind \in AccountKinds
         /\ met' = met \union {"fault"} /\ sent' = sent
         /\ UNCHANGED accountTables /\ held' = [held EXCEPT ![p] = Nothing]
<1>1. /\ pc[p] # "idle" /\ req[p].kind \in AccountKinds /\ met' = met \union {"fault"} /\ Finish(p)
      /\ UNCHANGED accountTables /\ held' = [held EXCEPT ![p] = Nothing]
  BY DEF AccountFails, Fault, Busy
<1> QED
  BY <1>1, FinishIs DEF IsOver

\* Every step of the accounts moves one handler of the accounts.
LEMMA HandlersMove ==
  ASSUME Handling, NEW p \in Slots, Handle(p)
  PROVE  Moved(p) /\ req[p].kind \in AccountKinds
<1>1. Moved(p) /\ pc[p] \in {"findEmail", "saveUser", "saveNames", "findProfile", "insertProfile", "findPhoto",
        "insertPhoto", "select", "update", "findOwned", "deletePhoto", "findLiked", "findLike", "insertLike", "countLike",
        "findUnliked", "findOwnLike", "deleteLike", "countUnlike", "insertReview", "saveReview"}
  <2>1. CASE FindEmail(p) \/ SaveUser(p) \/ SaveNames(p) \/ FindProfile(p) \/ InsertProfile(p)
    BY <2>1, FindEmailIt, SaveUserIt, SaveNamesIt, FindProfileIt, InsertProfileIt
  <2>2. CASE FindPhoto(p) \/ FindOwned(p) \/ FindLiked(p) \/ FindLike(p) \/ FindUnliked(p)
    BY <2>2, Lookers
  <2>3. CASE InsertPhoto(p) \/ Select(p) \/ Update(p) \/ DeletePhoto(p)
    BY <2>3, InsertPhotoIt, SelectIt, UpdateIt, DeletePhotoIt
  <2>4. CASE InsertLike(p) \/ CountUp(p) \/ FindOwnLike(p) \/ DeleteLike(p) \/ CountDown(p)
    BY <2>4, InsertLikeIt, CountUpIt, FindOwnLikeIt, DeleteLikeIt, CountDownIt
  <2>5. CASE InsertReview(p) \/ SaveReview(p)
    BY <2>5, InsertReviewIt, SaveReviewIt
  <2> QED
    BY <2>1, <2>2, <2>3, <2>4, <2>5 DEF Handle
<1>2. Stands(pc[p], req[p].kind)
  BY DEF Handling
<1> QED
  BY <1>1, <1>2 DEF Stands, AccountKinds
-----------------------------------------------------------------------------
(* The handlers that a step leaves alone.                                  *)

\* The handlers of these kinds stay where they are, and none begins.
Aside(kinds) ==
  /\ met \subseteq met'
  /\ \A q \in Slots : req[q].kind \in kinds \/ req'[q].kind \in kinds => pc'[q] = pc[q] /\ req'[q] = req[q]

\* A step of one handler leaves the kinds aside that it is not of.
LEMMA SlotAside ==
  ASSUME Handling, NEW p \in Slots, Only(p), NEW kinds, req[p].kind \notin kinds, req'[p].kind \notin kinds, met \subseteq met'
  PROVE  Aside(kinds)
BY DEF Only, Aside

\* A handler that begins.
LEMMA BeginsIt ==
  ASSUME Handling, NEW p \in Slots, NEW at, NEW r, NEW T, Start(p, at, r, T), Stands(at, r.kind), Asked(r),
         NEW kinds, r.kind \notin kinds, "none" \notin kinds
  PROVE  Handling' /\ Aside(kinds)
<1>1. Only(p) /\ req[p] = NoReq /\ pc'[p] = at /\ req'[p] = r /\ met \subseteq met'
  BY StartIs
<1>2. req[p].kind = "none"
  BY <1>1, NoReqIs
<1> QED
  BY <1>1, <1>2, SlotAside, OnlyHandles

\* One that goes on or is over.
LEMMA GoesOnIt ==
  ASSUME Handling, NEW p \in Slots, Only(p), met \subseteq met',
         \/ req'[p] = req[p] /\ Stands(pc'[p], req[p].kind)
         \/ req'[p] = NoReq /\ pc'[p] = "idle",
         NEW kinds, req[p].kind \notin kinds, "none" \notin kinds
  PROVE  Handling' /\ Aside(kinds)
<1>1. Asked(req[p])
  BY DEF Handling
<1>2. Stands(pc'[p], req'[p].kind) /\ Asked(req'[p]) /\ req'[p].kind \notin kinds
  BY <1>1, NoReqIs
<1> QED
  BY <1>2, SlotAside, OnlyHandles

\* The troubles that a request to the accounts makes.
LEMMA AsksIs ==
  ASSUME NEW p \in Slots, NEW at, NEW r, Asks(p, at, r)
  PROVE  \E T : /\ Start(p, at, r, T) /\ UNCHANGED accountVars
                /\ \A q \in Slots : Busy(q) => Conflicts(r, req[q]) \subseteq T
                /\ r.kind = "register" /\ LowerCase[r.word] # r.word => "account" \in T
<1> DEFINE T == (UNION {Conflicts(r, req[q]) : q \in {q \in Slots : Busy(q)}})
                \union (IF r.kind = "register" /\ LowerCase[r.word] # r.word THEN {"account"} ELSE {})
<1>1. Start(p, at, r, T) /\ UNCHANGED accountVars
  BY DEF Asks
<1>2. \A q \in Slots : Busy(q) => Conflicts(r, req[q]) \subseteq T
  OBVIOUS
<1>3. ASSUME r.kind = "register", LowerCase[r.word] # r.word PROVE "account" \in T
  BY <1>3
<1> HIDE DEF T
<1> QED
  BY <1>1, <1>2, <1>3

\* A step of the accounts leaves the stories and Grok aside.
LEMMA AccountsMove ==
  ASSUME Handling, AccountsNext
  PROVE  Handling' /\ Aside(StoryKinds \union {"ask"})
<1> DEFINE K == StoryKinds \union {"ask"}
<1>0. "none" \notin K /\ \A k \in AccountKinds : k \notin K
  BY DEF StoryKinds, AccountKinds
<1> HIDE DEF K
<1>1. ASSUME NEW p \in Slots, Endpoint(p) PROVE Handling' /\ Aside(K)
  <2>1. PICK at, r : at \in FirstSteps /\ Asks(p, at, r) /\ r.kind \in AccountKinds /\ Stands(at, r.kind) /\ Asked(r)
    BY <1>1, Endpoints
  <2>2. PICK T : Start(p, at, r, T)
    BY <2>1, AsksIs
  <2> QED
    BY <1>0, <2>1, <2>2, BeginsIt
<1>2. ASSUME NEW p \in Slots, Handle(p) PROVE Handling' /\ Aside(K)
  <2>1. Moved(p) /\ req[p].kind \in AccountKinds
    BY <1>2, HandlersMove
  <2> QED
    BY <1>0, <2>1, GoesOnIt DEF Moved, GoesOn, IsOver
<1>3. ASSUME NEW p \in Slots, AccountFails(p) PROVE Handling' /\ Aside(K)
  BY <1>0, <1>3, AccountFailsIt, GoesOnIt DEF IsOver
<1>4. \E p \in Slots : Endpoint(p) \/ Handle(p) \/ AccountFails(p)
  BY DEF AccountsNext, Endpoint, Handle
<1>5. Handling' /\ Aside(K)
  BY <1>1, <1>2, <1>3, <1>4
<1> QED
  BY <1>5 DEF K

\* A step of Grok leaves the accounts and the stories aside.
LEMMA GrokMoves ==
  ASSUME Handling, GrokNext
  PROVE  Handling' /\ Aside(AccountKinds \union StoryKinds)
<1> DEFINE K == AccountKinds \union StoryKinds
<1>0. "none" \notin K /\ "ask" \notin K
  BY DEF StoryKinds, AccountKinds
<1> HIDE DEF K
<1>1. ASSUME NEW p \in Slots, Ask(p) PROVE Handling' /\ Aside(K)
  <2>1. PICK u \in Askers : Start(p, "fetch", [NoReq EXCEPT !.kind = "ask", !.user = u], {})
    BY <1>1 DEF Ask
  <2> DEFINE r == [NoReq EXCEPT !.kind = "ask", !.user = u]
  <2>2. r.kind = "ask"
    BY DEF NoReq
  <2>3. Start(p, "fetch", r, {})
    BY <2>1
  <2> HIDE DEF r
  <2>4. Stands("fetch", r.kind) /\ Asked(r) /\ r.kind \notin K
    BY <1>0, <2>2 DEF Stands, Asked
  <2> QED
    BY <1>0, <2>3, <2>4, BeginsIt
<1>2. ASSUME NEW p \in Slots, Answered(p) \/ Unanswered(p) PROVE Handling' /\ Aside(K)
  <2>1. pc[p] = "fetch" /\ Finish(p) /\ met \subseteq met'
    BY <1>2 DEF Answered, Unanswered, Fault
  <2>2. Only(p) /\ req'[p] = NoReq /\ pc'[p] = "idle"
    BY <2>1, FinishIs
  <2>3. req[p].kind \notin K
    BY <1>0, <2>1 DEF Handling, Stands
  <2> QED
    BY <1>0, <2>1, <2>2, <2>3, GoesOnIt
<1>3. Handling' /\ Aside(K)
  BY <1>1, <1>2 DEF GrokNext
<1> QED
  BY <1>3 DEF K

\* The steps of the handlers of stories.
StoryHandle(p) ==
  \/ Write(p) \/ Thumbnail(p) \/ SaveStory(p) \/ Undo(p)
  \/ FindStory(p) \/ FindExpired(p) \/ Unlink(p) \/ UnlinkThumbnail(p) \/ DeleteRow(p)
  \/ StoryFails(p)

\* A step of a story handler goes on or ends the request.
LEMMA StoryHandles ==
  ASSUME Handling, NEW p \in Slots, StoryHandle(p)
  PROVE  /\ Only(p) /\ met \subseteq met' /\ pc[p] # "idle" /\ req[p].kind \in StoryKinds
         /\ \/ req'[p] = req[p] /\ Stands(pc'[p], req[p].kind)
            \/ req'[p] = NoReq /\ pc'[p] = "idle"
<1> DEFINE Story == {"write", "thumbnail", "saveStory", "undo", "findStory", "findExpired", "unlink", "unlinkThumbnail", "deleteRow"}
<1>1. pc[p] \in Story /\ met \subseteq met'
  BY DEF StoryHandle, Write, Thumbnail, SaveStory, Undo, FindStory, FindExpired, Unlink, UnlinkThumbnail, DeleteRow,
         StoryFails, Moves, Ends, Dooms, NextDoomed, Fault
<1>2. Stands(pc[p], req[p].kind)
  BY DEF Handling
<1>3. pc[p] # "idle" /\ req[p].kind \in StoryKinds
  BY <1>1, <1>2 DEF Stands, StoryKinds
<1>4. \/ Finish(p)
      \/ \E at : /\ Goto(p, at)
                 /\ pc[p] \in {"write", "thumbnail", "saveStory"} => at \in {"thumbnail", "saveStory", "undo"}
                 /\ pc[p] \notin {"write", "thumbnail", "saveStory"} => at \in {"unlink", "unlinkThumbnail", "deleteRow"}
  <2>1. CASE Write(p) \/ Thumbnail(p) \/ SaveStory(p) \/ Undo(p)
    BY <2>1 DEF Write, Thumbnail, SaveStory, Undo, Moves, Ends
  <2>2. CASE FindStory(p) \/ FindExpired(p)
    BY <2>2 DEF FindStory, FindExpired, Ends
  <2>3. CASE Unlink(p) \/ UnlinkThumbnail(p) \/ DeleteRow(p)
    BY <2>3 DEF Unlink, UnlinkThumbnail, DeleteRow, Moves, NextDoomed
  <2>4. CASE StoryFails(p)
    BY <2>4 DEF StoryFails, NextDoomed
  <2> QED
    BY <2>1, <2>2, <2>3, <2>4 DEF StoryHandle
<1>5. CASE Finish(p)
  BY <1>1, <1>3, <1>5, FinishIs
<1>6. ASSUME NEW at, Goto(p, at),
             pc[p] \in {"write", "thumbnail", "saveStory"} => at \in {"thumbnail", "saveStory", "undo"},
             pc[p] \notin {"write", "thumbnail", "saveStory"} => at \in {"unlink", "unlinkThumbnail", "deleteRow"}
      PROVE  Only(p) /\ req'[p] = req[p] /\ Stands(pc'[p], req[p].kind)
  <2>1. Only(p) /\ pc'[p] = at /\ req'[p] = req[p]
    BY <1>6, GotoIs
  <2>2. CASE pc[p] \in {"write", "thumbnail", "saveStory"}
    BY <1>2, <1>6, <2>1, <2>2 DEF Stands
  <2>3. CASE pc[p] = "undo"
    BY <1>4, <1>5, <1>6, <2>1, <2>3, <1>2 DEF StoryHandle, Write, Thumbnail, SaveStory, Undo, FindStory, FindExpired, Unlink, UnlinkThumbnail, DeleteRow, StoryFails, Ends, Finish, Goto, Handling
  <2>4. CASE pc[p] \in {"findStory", "findExpired", "unlink", "unlinkThumbnail", "deleteRow"}
    BY <1>2, <1>6, <2>1, <2>4 DEF Stands
  <2> QED
    BY <1>1, <2>2, <2>3, <2>4
<1> QED
  BY <1>1, <1>3, <1>4, <1>5, <1>6

\* A step of the stories leaves the accounts and Grok aside.
LEMMA StoriesMove ==
  ASSUME Handling, StoriesNext
  PROVE  Handling' /\ Aside(AccountKinds \union {"ask"})
<1> DEFINE K == AccountKinds \union {"ask"}
<1>0. "none" \notin K /\ \A k \in StoryKinds : k \notin K
  BY DEF StoryKinds, AccountKinds
<1> HIDE DEF K
<1>1. ASSUME NEW p \in Slots, NEW at, NEW r, Start(p, at, r, {}), r.kind \in StoryKinds, Stands(at, r.kind), Asked(r)
      PROVE  Handling' /\ Aside(K)
  BY <1>0, <1>1, BeginsIt
<1>2. ASSUME NEW p \in Slots, Upload(p) PROVE Handling' /\ Aside(K)
  <2> DEFINE r == [NoReq EXCEPT !.kind = "upload", !.id = Len(stories) + 1]
  <2>1. Start(p, "write", r, {}) /\ r.kind = "upload"
    BY <1>2 DEF Upload, NoReq
  <2> HIDE DEF r
  <2>2. Stands("write", r.kind) /\ Asked(r) /\ r.kind \in StoryKinds
    BY <2>1 DEF Stands, Asked, StoryKinds
  <2> QED
    BY <1>1, <2>1, <2>2
<1>3. ASSUME NEW p \in Slots, DeleteStory(p) PROVE Handling' /\ Aside(K)
  <2>0. PICK u \in Authors, s \in DOMAIN stories :
          Start(p, "findStory", [NoReq EXCEPT !.kind = "deleteStory", !.user = u, !.id = s], {})
    BY <1>3 DEF DeleteStory
  <2> DEFINE r == [NoReq EXCEPT !.kind = "deleteStory", !.user = u, !.id = s]
  <2>1. Start(p, "findStory", r, {}) /\ r.kind = "deleteStory"
    BY <2>0 DEF NoReq
  <2> HIDE DEF r
  <2>2. Stands("findStory", r.kind) /\ Asked(r) /\ r.kind \in StoryKinds
    BY <2>1 DEF Stands, Asked, StoryKinds
  <2> QED
    BY <1>1, <2>1, <2>2
<1>4. ASSUME NEW p \in Slots, Sweep(p) PROVE Handling' /\ Aside(K)
  <2> DEFINE r == [NoReq EXCEPT !.kind = "sweep"]
  <2>1. Start(p, "findExpired", r, {}) /\ r.kind = "sweep"
    BY <1>4 DEF Sweep, NoReq
  <2> HIDE DEF r
  <2>2. Stands("findExpired", r.kind) /\ Asked(r) /\ r.kind \in StoryKinds
    BY <2>1 DEF Stands, Asked, StoryKinds
  <2> QED
    BY <1>1, <2>1, <2>2
<1>5. ASSUME NEW p \in Slots, StoryHandle(p) PROVE Handling' /\ Aside(K)
  <2>1. /\ Only(p) /\ met \subseteq met' /\ req[p].kind \in StoryKinds
        /\ \/ req'[p] = req[p] /\ Stands(pc'[p], req[p].kind)
           \/ req'[p] = NoReq /\ pc'[p] = "idle"
    BY <1>5, StoryHandles
  <2> QED
    BY <1>0, <2>1, GoesOnIt
<1>6. ASSUME UNCHANGED <<pc, req>>, met \subseteq met' PROVE Handling' /\ Aside(K)
  BY <1>6 DEF Handling, Aside
<1>7. ASSUME NEW s, \/ Expires(s) \/ Compress(s) \/ Encoded(s) \/ Stat(s) \/ UnlinkOriginal(s) \/ UnlinkCompressed(s)
                    \/ Point(s) \/ Processed(s) \/ TaskFails(s)
      PROVE  Handling' /\ Aside(K)
  <2>1. UNCHANGED <<pc, req>> /\ met \subseteq met'
    BY <1>7 DEF Expires, Compress, Encoded, Stat, UnlinkOriginal, UnlinkCompressed, Point, Processed, TaskFails, Task,
                handlerVars, Fault
  <2> QED
    BY <1>6, <2>1
<1>8. Handling' /\ Aside(K)
  BY <1>2, <1>3, <1>4, <1>5, <1>7 DEF StoriesNext, StoryHandle
<1> QED
  BY <1>8 DEF K

\* A restart drops every handler; the tables and the disk stay.
LEMMA RestartIs ==
  ASSUME Restart
  PROVE  /\ pc' = [p \in Slots |-> "idle"] /\ req' = [p \in Slots |-> NoReq]
         /\ met' = met \union {"fault"} /\ UNCHANGED <<accountTables, stories, disk>>
         /\ Handling'
<1>1. /\ pc' = [p \in Slots |-> "idle"] /\ req' = [p \in Slots |-> NoReq]
      /\ met' = met \union {"fault"} /\ UNCHANGED <<accountTables, stories, disk>>
  BY DEF Restart, Dropped, Fault
<1> QED
  BY <1>1, NoReqIs DEF Handling

\* Every handler of the server stands at a step of the request it was given
\* (the endpoints of user.service.ts, story.service.ts and grok.service.ts).
THEOREM HandlingKept == Spec => []Handling
<1>1. Init => Handling
  BY NoReqIs DEF Init, HandlersInit, Handling
<1>2. Handling /\ [Next]_vars => Handling'
  <2> SUFFICES ASSUME Handling, [Next]_vars PROVE Handling'
    OBVIOUS
  <2>1. CASE AccountsNext
    BY <2>1, AccountsMove
  <2>2. CASE StoriesNext
    BY <2>2, StoriesMove
  <2>3. CASE GrokNext
    BY <2>3, GrokMoves
  <2>4. CASE Restart
    BY <2>4, RestartIs
  <2>5. CASE UNCHANGED vars
    BY <2>5 DEF vars, handlerVars, Handling
  <2> QED
    BY <2>1, <2>2, <2>3, <2>4, <2>5 DEF Next
<1> QED
  BY <1>1, <1>2, PTL DEF Spec
-----------------------------------------------------------------------------
(* One account for each e-mail.                                            *)

Emails == {LowerCase[e] : e \in DOMAIN LowerCase} \union {Seeded[i] : i \in DOMAIN Seeded}

\* Between two registrations at once no e-mail is shared, each was typed as it
\* is stored, and one that is about to insert has found nobody.
Registering ==
  /\ \A p \in Slots : req[p].kind = "register" => LowerCase[req[p].word] = req[p].word
  /\ \A p, q \in Slots :
       p # q /\ req[p].kind = "register" /\ req[q].kind = "register" => req[p].word # req[q].word
  /\ \A p \in Slots : pc[p] = "saveUser" => \A u \in DOMAIN users : users[u] # req[p].word

AccountInv ==
  /\ users \in Seq(Emails)
  /\ \A p \in Slots : req[p].kind = "register" => req[p].word \in DOMAIN LowerCase
  /\ "account" \notin met => Registering /\ \A u, v \in DOMAIN users : users[u] = users[v] => u = v

\* There is one account of each seeded e-mail.
LEMMA AccountInvInit == Init => AccountInv
<1> SUFFICES ASSUME Init PROVE AccountInv
  OBVIOUS
<1>1. users = Seeded /\ pc = [p \in Slots |-> "idle"] /\ req = [p \in Slots |-> NoReq]
  BY DEF Init, HandlersInit, AccountsInit
<1>2. users \in Seq({Seeded[i] : i \in DOMAIN Seeded})
  BY <1>1, SeededAssumption
<1> DEFINE S == {Seeded[i] : i \in DOMAIN Seeded}
<1>3. S \subseteq Emails
  BY DEF Emails
<1> HIDE DEF S
<1>4. users \in Seq(S)
  BY <1>2 DEF S
<1>5. users \in Seq(Emails)
  BY <1>3, <1>4, SeqMonotonic
<1>6. \A p \in Slots : pc[p] = "idle" /\ req[p].kind = "none"
  BY <1>1, NoReqIs
<1>7. \A u, v \in DOMAIN users : users[u] = users[v] => u = v
  BY <1>1, SeededAssumption
<1> QED
  BY <1>5, <1>6, <1>7 DEF AccountInv, Registering

\* Nothing happens to the accounts and the registrations.
LEMMA AccountInvAside ==
  ASSUME AccountInv, Handling, Handling', users' = users, met \subseteq met',
         \A q \in Slots : req'[q].kind = "register" => req[q] = req'[q] /\ (pc'[q] = "saveUser" => pc[q] = "saveUser")
  PROVE  AccountInv'
<1>1. \A q \in Slots : pc'[q] = "saveUser" => req'[q].kind = "register"
  BY DEF Handling, Stands
<1>2. \A q \in Slots : pc'[q] = "saveUser" => pc[q] = "saveUser" /\ req'[q] = req[q]
  BY <1>1
<1> QED
  BY <1>2 DEF AccountInv, Registering

\* A registration begins: none of that e-mail is under way, or there is trouble.
LEMMA AccountInvBegins ==
  ASSUME AccountInv, Handling, Handling', NEW p \in Slots, Endpoint(p)
  PROVE  AccountInv'
<1>1. PICK at, r : at \in FirstSteps /\ Asks(p, at, r) /\ r.kind \in AccountKinds /\ Stands(at, r.kind) /\ About(r)
  BY Endpoints
<1>2. PICK T : /\ Start(p, at, r, T) /\ UNCHANGED accountVars
               /\ \A q \in Slots : Busy(q) => Conflicts(r, req[q]) \subseteq T
               /\ r.kind = "register" /\ LowerCase[r.word] # r.word => "account" \in T
  BY <1>1, AsksIs
<1>3. /\ Only(p) /\ pc[p] = "idle" /\ req[p] = NoReq /\ pc'[p] = at /\ req'[p] = r /\ met' = met \union T
      /\ users' = users
  BY <1>2, StartIs DEF accountVars, accountTables
<1>4. CASE r.kind # "register"
  <2>1. \A q \in Slots : req'[q].kind = "register" => req[q] = req'[q] /\ pc'[q] = pc[q]
    BY <1>3, <1>4 DEF Only
  <2> QED
    BY <1>2, <1>3, <2>1, AccountInvAside
<1>5. CASE r.kind = "register"
  <2>1. r.word \in DOMAIN LowerCase /\ at # "saveUser"
    BY <1>1, <1>5 DEF About, FirstSteps
  <2>2. \A q \in Slots : q # p => req'[q] = req[q] /\ pc'[q] = pc[q]
    BY <1>3 DEF Only
  <2>3. users' \in Seq(Emails) /\ \A q \in Slots : req'[q].kind = "register" => req'[q].word \in DOMAIN LowerCase
    BY <1>2, <1>3, <2>1, <2>2 DEF AccountInv
  <2>4. ASSUME "account" \notin met'
        PROVE  Registering' /\ \A u, v \in DOMAIN users' : users'[u] = users'[v] => u = v
    <3>1. "account" \notin met /\ "account" \notin T
      BY <1>3, <2>4
    <3>2. Registering /\ \A u, v \in DOMAIN users : users[u] = users[v] => u = v
      BY <3>1 DEF AccountInv
    <3>3. LowerCase[r.word] = r.word
      BY <1>2, <1>5, <3>1
    <3>4. ASSUME NEW q \in Slots, q # p, req[q].kind = "register" PROVE req[q].word # r.word
      <4>1. Busy(q)
        BY <3>4 DEF Handling, Stands, Busy
      <4>3. "account" \notin Conflicts(r, req[q])
        BY <1>2, <3>1, <4>1
      <4>4. LowerCase[r.word] # LowerCase[req[q].word]
        BY <1>5, <3>4, <4>3 DEF Conflicts
      <4> QED
        BY <4>4
    <3> QED
      BY <1>2, <1>3, <2>1, <2>2, <3>2, <3>3, <3>4 DEF Registering
  <2> QED
    BY <2>3, <2>4 DEF AccountInv
<1> QED
  BY <1>4, <1>5

\* A registration goes on when no account has its e-mail.
LEMMA AccountInvFindEmail ==
  ASSUME AccountInv, Handling, Handling', NEW p \in Slots, FindEmail(p)
  PROVE  AccountInv'
<1>1. /\ Moved(p) /\ users' = users
      /\ \/ /\ \A u \in DOMAIN users : users[u] # req[p].word
            /\ pc'[p] = "saveUser" /\ req'[p] = req[p]
         \/ IsOver(p)
  BY FindEmailIt DEF accountTables
<1>2. met' = met /\ \A q \in Slots : q # p => req'[q] = req[q] /\ pc'[q] = pc[q]
  BY <1>1 DEF Moved, Only
<1>3. CASE IsOver(p)
  <2>1. \A q \in Slots : req'[q].kind = "register" => req[q] = req'[q] /\ pc'[q] = pc[q]
    BY <1>2, <1>3, NoReqIs DEF IsOver
  <2> QED
    BY <1>1, <1>2, <2>1, AccountInvAside
<1>4. CASE (\A u \in DOMAIN users : users[u] # req[p].word) /\ pc'[p] = "saveUser" /\ req'[p] = req[p]
  <2>1. \A q \in Slots : req'[q] = req[q]
    BY <1>2, <1>4
  <2> QED
    BY <1>1, <1>2, <1>4, <2>1 DEF AccountInv, Registering
<1> QED
  BY <1>1, <1>3, <1>4

\* A registration stores the account it looked for and did not find.
LEMMA AccountInvSaveUser ==
  ASSUME AccountInv, Handling, Handling', NEW p \in Slots, SaveUser(p)
  PROVE  AccountInv'
<1> DEFINE w == LowerCase[req[p].word]
<1>1. /\ Moved(p) /\ users' = Append(users, w) /\ req'[p] = req[p] /\ pc[p] = "saveUser" /\ pc'[p] = "insertProfile"
      /\ req[p].kind = "register"
  BY SaveUserIt
<1>2. met' = met /\ \A q \in Slots : req'[q] = req[q]
  BY <1>1 DEF Moved, Only
<1>3. w \in Emails
  BY <1>1 DEF AccountInv, Emails
<1>4. users \in Seq(Emails)
  BY DEF AccountInv
<1> HIDE DEF w
<1>5. /\ users' \in Seq(Emails) /\ Len(users') = Len(users) + 1 /\ users'[Len(users) + 1] = w
      /\ \A i \in 1..Len(users) : users'[i] = users[i]
  BY <1>1, <1>3, <1>4, AppendProperties
<1>6. DOMAIN users = 1..Len(users) /\ DOMAIN users' = 1..(Len(users) + 1) /\ Len(users) \in Nat
  BY <1>4, <1>5, LenProperties
<1>7. \A q \in Slots : req'[q].kind = "register" => req'[q].word \in DOMAIN LowerCase
  BY <1>2 DEF AccountInv
<1>8. ASSUME "account" \notin met'
      PROVE  Registering' /\ \A u, v \in DOMAIN users' : users'[u] = users'[v] => u = v
  <2>1. Registering /\ \A u, v \in DOMAIN users : users[u] = users[v] => u = v
    BY <1>2, <1>8 DEF AccountInv
  <2>2. w = req[p].word /\ \A u \in DOMAIN users : users[u] # w
    BY <1>1, <2>1 DEF Registering, w
  <2>3. \A u, v \in DOMAIN users' : users'[u] = users'[v] => u = v
    BY <1>5, <1>6, <2>1, <2>2
  <2>4. ASSUME NEW q \in Slots, pc'[q] = "saveUser", NEW u \in DOMAIN users' PROVE users'[u] # req'[q].word
    <3>1. q # p /\ pc[q] = "saveUser" /\ req[q].kind = "register"
      BY <1>1, <2>4 DEF Moved, Only, Handling, Stands
    <3>2. req[q].word # w /\ \A v \in DOMAIN users : users[v] # req[q].word
      BY <1>1, <2>1, <2>2, <3>1 DEF Registering
    <3> QED
      BY <1>2, <1>5, <1>6, <3>2
  <2>5. Registering'
    BY <1>2, <2>1, <2>4 DEF Registering
  <2> QED
    BY <2>3, <2>5
<1> QED
  BY <1>5, <1>7, <1>8 DEF AccountInv

\* Every step keeps AccountInv.
LEMMA AccountInvNext == AccountInv /\ Handling /\ Handling' /\ [Next]_vars => AccountInv'
<1> SUFFICES ASSUME AccountInv, Handling, Handling', [Next]_vars PROVE AccountInv'
  OBVIOUS
<1>1. ASSUME users' = users, Aside(AccountKinds) PROVE AccountInv'
  <2>1. \A q \in Slots : req'[q].kind = "register" => pc'[q] = pc[q] /\ req'[q] = req[q]
    BY <1>1 DEF Aside, AccountKinds
  <2> QED
    BY <1>1, <2>1, AccountInvAside DEF Aside
<1>2. ASSUME NEW p \in Slots, Handle(p) PROVE AccountInv'
  <2>1. Moved(p)
    BY <1>2, HandlersMove
  <2>2. ASSUME ~FindEmail(p), ~SaveUser(p) PROVE AccountInv'
    <3>1. users' = users /\ pc[p] # "findEmail"
      <4>1. CASE SaveNames(p) \/ FindProfile(p) \/ InsertProfile(p)
        BY <4>1, SaveNamesIt, FindProfileIt, InsertProfileIt DEF accountVars, accountTables
      <4>2. CASE FindPhoto(p) \/ FindOwned(p) \/ FindLiked(p) \/ FindLike(p) \/ FindUnliked(p)
        BY <4>2, Lookers DEF accountTables
      <4>3. CASE InsertPhoto(p) \/ Select(p) \/ Update(p) \/ DeletePhoto(p)
        BY <4>3, InsertPhotoIt, SelectIt, UpdateIt, DeletePhotoIt DEF accountTables
      <4>4. CASE InsertLike(p) \/ CountUp(p) \/ FindOwnLike(p) \/ DeleteLike(p) \/ CountDown(p)
        BY <4>4, InsertLikeIt, CountUpIt, FindOwnLikeIt, DeleteLikeIt, CountDownIt DEF accountTables
      <4>5. CASE InsertReview(p) \/ SaveReview(p)
        BY <4>5, InsertReviewIt, SaveReviewIt
      <4> QED
        BY <1>2, <2>2, <4>1, <4>2, <4>3, <4>4, <4>5 DEF Handle
    <3>2. \A q \in Slots : req'[q].kind = "register" => req[q] = req'[q] /\ (pc'[q] = "saveUser" => pc[q] = "saveUser")
      BY <2>1, <3>1, NoReqIs DEF Moved, Only, GoesOn, IsOver, Follows
    <3>3. met' = met
      BY <2>1 DEF Moved
    <3> QED
      BY <3>1, <3>2, <3>3, AccountInvAside
  <2> QED
    BY <2>2, AccountInvFindEmail, AccountInvSaveUser
<1>3. ASSUME NEW p \in Slots, AccountFails(p) PROVE AccountInv'
  <2>1. Only(p) /\ IsOver(p) /\ users' = users /\ met \subseteq met'
    BY <1>3, AccountFailsIt DEF accountTables
  <2>2. \A q \in Slots : req'[q].kind = "register" => req[q] = req'[q] /\ pc'[q] = pc[q]
    BY <2>1, NoReqIs DEF Only, IsOver
  <2> QED
    BY <2>1, <2>2, AccountInvAside
<1>4. CASE AccountsNext
  <2>1. \E p \in Slots : Endpoint(p) \/ Handle(p) \/ AccountFails(p)
    BY <1>4 DEF AccountsNext, Endpoint, Handle
  <2> QED
    BY <1>2, <1>3, <2>1, AccountInvBegins
<1>5. CASE StoriesNext /\ UNCHANGED accountVars
  <2>1. Aside(AccountKinds \union {"ask"})
    BY <1>5, StoriesMove
  <2>2. Aside(AccountKinds)
    BY <2>1 DEF Aside
  <2> QED
    BY <1>1, <1>5, <2>2 DEF accountVars, accountTables
<1>6. CASE GrokNext /\ UNCHANGED accountVars
  <2>1. Aside(AccountKinds \union StoryKinds)
    BY <1>6, GrokMoves
  <2>2. Aside(AccountKinds)
    BY <2>1 DEF Aside
  <2> QED
    BY <1>1, <1>6, <2>2 DEF accountVars, accountTables
<1>7. CASE Restart
  <2>1. /\ users' = users /\ met \subseteq met' /\ \A q \in Slots : pc'[q] = "idle" /\ req'[q] = NoReq
    BY <1>7, RestartIs DEF accountTables
  <2> QED
    BY <2>1, NoReqIs, AccountInvAside
<1>8. CASE UNCHANGED vars
  <2>1. users' = users /\ pc' = pc /\ req' = req /\ met' = met
    BY <1>8 DEF vars, accountVars, accountTables, handlerVars
  <2> QED
    BY <2>1, AccountInvAside
<1> QED
  BY <1>4, <1>5, <1>6, <1>7, <1>8 DEF Next

\* An e-mail has one account, however it is written, unless two registrations of
\* it overlap or one has capital letters (register of user.service.ts).
THEOREM OneAccountEach == Spec => []CalmOneAccount
<1>1. Init => AccountInv
  BY AccountInvInit
<1>2. AccountInv /\ Handling /\ Handling' /\ [Next]_vars => AccountInv'
  BY AccountInvNext
<1>3. AccountInv => CalmOneAccount
  BY DEF AccountInv, CalmOneAccount
<1> QED
  BY <1>1, <1>2, <1>3, HandlingKept, PTL DEF Spec
-----------------------------------------------------------------------------
(* What is saved on a profile.                                             *)

\* A row of profiles, and what a handler keeps of one, are records.
Shaped(x) ==
  x = [there |-> x.there, picture |-> x.picture, isVerified |-> x.isVerified, text |-> x.text]
Kept(h) == h = [profile |-> h.profile, cols |-> h.cols, id |-> h.id]

\* Owner, of the table it is given.
OwnerIn(rs, r) == IF r.kind = "review" THEN rs[r.id].user ELSE r.user

\* The steps at which a handler keeps a profile it read.
HoldSteps == {"findPhoto", "insertPhoto", "select", "update"}
\* The requests that save a profile.
SavingKinds == {"edit", "setPicture", "uploadPicture", "review"}

\* No two requests save one profile, and what a handler keeps of a profile it
\* is going to save is what the table holds.
Saving ==
  /\ \A p, q \in Slots :
       p # q /\ req[p].kind \in SavingKinds /\ req[q].kind \in SavingKinds
         => OwnerIn(reviews, req[p]) # OwnerIn(reviews, req[q])
  /\ \A p \in Slots :
       pc[p] \in HoldSteps /\ req[p].kind \in SavingKinds /\ OwnerIn(reviews, req[p]) \in UserIds
         => /\ held[p].profile = profiles[OwnerIn(reviews, req[p])]
            /\ profiles[OwnerIn(reviews, req[p])].there

Reviews == [user : Nat, status : Statuses]

ProfileInv ==
  /\ reviews \in Seq(Reviews)
  /\ \A p \in Slots : req[p].kind = "review" => req[p].id \in DOMAIN reviews /\ req[p].word \in Statuses
  /\ \A p \in Slots : req[p].kind = "verify" => req[p].user \in Nat
  /\ profiles = [u \in UserIds |-> profiles[u]] /\ \A u \in UserIds : Shaped(profiles[u])
  /\ held = [p \in Slots |-> held[p]] /\ \A p \in Slots : Kept(held[p])
  /\ "profile" \notin met => Saving

\* The user whose profile a request saves.
LEMMA OwnerIs == ASSUME NEW r PROVE Owner(r) = OwnerIn(reviews, r)
BY DEF Owner, OwnerIn

\* The requests that save a profile write a column of it.
LEMMA SavesIs == ASSUME NEW k PROVE Saves(k) # {} <=> k \in SavingKinds
BY DEF Saves, SavingKinds

\* A profile with one column changed.
LEMMA ShapedChanged ==
  ASSUME NEW x, Shaped(x), NEW b
  PROVE  /\ Shaped([x EXCEPT !.there = b]) /\ [x EXCEPT !.there = b].there = b
         /\ Shaped([x EXCEPT !.picture = b])
            /\ [x EXCEPT !.picture = b].isVerified = x.isVerified /\ [x EXCEPT !.picture = b].text = x.text
         /\ Shaped([x EXCEPT !.isVerified = b])
            /\ [x EXCEPT !.isVerified = b].picture = x.picture /\ [x EXCEPT !.isVerified = b].text = x.text
         /\ Shaped([x EXCEPT !.text = b])
            /\ [x EXCEPT !.text = b].picture = x.picture /\ [x EXCEPT !.text = b].isVerified = x.isVerified
<1>1. x = [there |-> x.there, picture |-> x.picture, isVerified |-> x.isVerified, text |-> x.text]
  BY DEF Shaped
<1>2. Shaped([x EXCEPT !.there = b]) /\ [x EXCEPT !.there = b].there = b
  <2> DEFINE y == [x EXCEPT !.there = b]
  <2>1. /\ y = [there |-> y.there, picture |-> y.picture, isVerified |-> y.isVerified, text |-> y.text]
        /\ y.there = b
    BY <1>1
  <2> HIDE DEF y
  <2>2. Shaped(y)
    BY <2>1 DEF Shaped
  <2> USE DEF y
  <2> QED
    BY <2>1, <2>2
<1>3. Shaped([x EXCEPT !.picture = b]) /\ [x EXCEPT !.picture = b].isVerified = x.isVerified /\ [x EXCEPT !.picture = b].text = x.text
  <2> DEFINE y == [x EXCEPT !.picture = b]
  <2>1. /\ y = [there |-> y.there, picture |-> y.picture, isVerified |-> y.isVerified, text |-> y.text]
        /\ y.isVerified = x.isVerified /\ y.text = x.text
    BY <1>1
  <2> HIDE DEF y
  <2>2. Shaped(y)
    BY <2>1 DEF Shaped
  <2> USE DEF y
  <2> QED
    BY <2>1, <2>2
<1>4. Shaped([x EXCEPT !.isVerified = b]) /\ [x EXCEPT !.isVerified = b].picture = x.picture /\ [x EXCEPT !.isVerified = b].text = x.text
  <2> DEFINE y == [x EXCEPT !.isVerified = b]
  <2>1. /\ y = [there |-> y.there, picture |-> y.picture, isVerified |-> y.isVerified, text |-> y.text]
        /\ y.picture = x.picture /\ y.text = x.text
    BY <1>1
  <2> HIDE DEF y
  <2>2. Shaped(y)
    BY <2>1 DEF Shaped
  <2> USE DEF y
  <2> QED
    BY <2>1, <2>2
<1>5. Shaped([x EXCEPT !.text = b]) /\ [x EXCEPT !.text = b].picture = x.picture /\ [x EXCEPT !.text = b].isVerified = x.isVerified
  <2> DEFINE y == [x EXCEPT !.text = b]
  <2>1. /\ y = [there |-> y.there, picture |-> y.picture, isVerified |-> y.isVerified, text |-> y.text]
        /\ y.picture = x.picture /\ y.isVerified = x.isVerified
    BY <1>1
  <2> HIDE DEF y
  <2>2. Shaped(y)
    BY <2>1 DEF Shaped
  <2> USE DEF y
  <2> QED
    BY <2>1, <2>2
<1> QED
  BY <1>2, <1>3, <1>4, <1>5

\* A handler that keeps nothing, and a new profile, have their shapes.
LEMMA NothingKept == Kept(Nothing) /\ Shaped(NoProfile) /\ Shaped(NewProfile) /\ NewProfile.there
<1>1. Shaped(NoProfile)
  BY DEF Shaped, NoProfile
<1>2. Shaped(NewProfile) /\ NewProfile.there = TRUE
  BY <1>1, ShapedChanged DEF NewProfile
<1>3. Nothing = [profile |-> NoProfile, cols |-> {}, id |-> 0] /\ Nothing.profile = NoProfile
      /\ Nothing.cols = {} /\ Nothing.id = 0
  BY DEF Nothing
<1>4. Nothing = [profile |-> Nothing.profile, cols |-> Nothing.cols, id |-> Nothing.id]
  BY <1>3, Zenon
<1> QED
  BY <1>1, <1>2, <1>4 DEF Kept

\* No request is under way.
LEMMA ProfileInvInit == Init => ProfileInv
<1> SUFFICES ASSUME Init PROVE ProfileInv
  OBVIOUS
<1>1. /\ pc = [p \in Slots |-> "idle"] /\ req = [p \in Slots |-> NoReq] /\ held = [p \in Slots |-> Nothing]
      /\ reviews = <<[user |-> 1, status |-> "pending"]>>
  BY DEF Init, HandlersInit, AccountsInit
<1>2. PICK i \in {0, 1} : profiles = [u \in UserIds |-> IF u = 1 THEN [NewProfile EXCEPT !.picture = i] ELSE NoProfile]
  BY DEF Init, AccountsInit
<1>3. [user |-> 1, status |-> "pending"] \in Reviews
  BY DEF Reviews, Statuses
<1>4. reviews \in Seq(Reviews)
  BY <1>1, <1>3
<1>5. \A p \in Slots : pc[p] = "idle" /\ req[p].kind = "none"
  BY <1>1, NoReqIs
<1>6. \A u \in UserIds : Shaped(profiles[u])
  BY <1>2, NothingKept DEF Shaped, NewProfile, NoProfile
<1>7. Saving
  BY <1>5 DEF Saving, HoldSteps, SavingKinds
<1> QED
  BY <1>1, <1>2, <1>4, <1>5, <1>6, <1>7, NothingKept DEF ProfileInv

\* A review keeps whom it is about.
LEMMA OwnersKept ==
  ASSUME reviews \in Seq(Reviews),
         \/ reviews' = reviews
         \/ \E i, s : s \in Statuses /\ i \in DOMAIN reviews /\ reviews' = [reviews EXCEPT ![i].status = s]
         \/ \E x \in Reviews : reviews' = Append(reviews, x)
  PROVE  /\ reviews' \in Seq(Reviews) /\ DOMAIN reviews \subseteq DOMAIN reviews'
         /\ \A i \in DOMAIN reviews : reviews'[i].user = reviews[i].user
<1>1. CASE reviews' = reviews
  BY <1>1
<1>2. ASSUME NEW s \in Statuses, NEW i \in DOMAIN reviews, reviews' = [reviews EXCEPT ![i].status = s]
      PROVE  /\ reviews' \in Seq(Reviews) /\ DOMAIN reviews \subseteq DOMAIN reviews'
             /\ \A j \in DOMAIN reviews : reviews'[j].user = reviews[j].user
  <2>1. \A j \in DOMAIN reviews : reviews[j] \in Reviews
    BY ElementOfSeq, LenProperties
  <2>2. \A j \in DOMAIN reviews : reviews'[j] \in Reviews /\ reviews'[j].user = reviews[j].user
    BY <1>2, <2>1 DEF Reviews
  <2>3. reviews' = [j \in 1..Len(reviews) |-> reviews'[j]] /\ Len(reviews) \in Nat
    BY <1>2, LenProperties
  <2>4. reviews' \in Seq(Reviews)
    BY <2>2, <2>3, IsASeq, LenProperties
  <2> QED
    BY <1>2, <2>2, <2>4
<1>3. ASSUME NEW x \in Reviews, reviews' = Append(reviews, x)
      PROVE  /\ reviews' \in Seq(Reviews) /\ DOMAIN reviews \subseteq DOMAIN reviews'
             /\ \A i \in DOMAIN reviews : reviews'[i].user = reviews[i].user
  BY <1>3, AppendProperties, LenProperties
<1> QED
  BY <1>1, <1>2, <1>3

\* How the owners of the requests in hand are kept by any step.
LEMMA ReqOwners ==
  ASSUME ProfileInv, NEW r, r.kind = "review" => r.id \in DOMAIN reviews,
         DOMAIN reviews \subseteq DOMAIN reviews',
         \A i \in DOMAIN reviews : reviews'[i].user = reviews[i].user
  PROVE  OwnerIn(reviews', r) = OwnerIn(reviews, r)
BY DEF OwnerIn

\* A step of slot p that leaves the profiles alone.
LEMMA ProfileInvOf ==
  ASSUME ProfileInv, Handling', NEW p \in Slots, Only(p), met \subseteq met',
         \/ req'[p] = req[p] \/ req'[p].kind \notin {"review", "verify"} \union SavingKinds,
         reviews' \in Seq(Reviews), DOMAIN reviews \subseteq DOMAIN reviews',
         \A i \in DOMAIN reviews : reviews'[i].user = reviews[i].user,
         profiles' = profiles,
         NEW h, held' = [held EXCEPT ![p] = h], Kept(h),
         "profile" \notin met' /\ pc'[p] \in HoldSteps /\ req[p].kind \in SavingKinds
            /\ OwnerIn(reviews, req[p]) \in UserIds /\ req'[p] = req[p]
           => /\ h.profile = profiles[OwnerIn(reviews, req[p])]
              /\ profiles[OwnerIn(reviews, req[p])].there
  PROVE  ProfileInv'
<1>1. \A q \in Slots : q # p => pc'[q] = pc[q] /\ req'[q] = req[q] /\ held'[q] = held[q]
  BY DEF Only, ProfileInv
<1>2. held' = [q \in Slots |-> held'[q]] /\ held'[p] = h /\ \A q \in Slots : Kept(held'[q])
  BY DEF ProfileInv
<1>3. \A q \in Slots : req'[q].kind = "review" => req'[q].id \in DOMAIN reviews' /\ req'[q].word \in Statuses
  BY <1>1 DEF ProfileInv
<1>4. \A q \in Slots : req'[q].kind = "verify" => req'[q].user \in Nat
  BY <1>1 DEF ProfileInv
<1>5. ASSUME "profile" \notin met' PROVE Saving'
  <2>1. Saving
    BY <1>5 DEF ProfileInv
  <2>2. \A q \in Slots : req'[q].kind \in SavingKinds => req'[q] = req[q]
    BY <1>1
  <2>3. \A q \in Slots : req'[q].kind \in SavingKinds => OwnerIn(reviews', req'[q]) = OwnerIn(reviews, req[q])
    <3> SUFFICES ASSUME NEW q \in Slots, req'[q].kind \in SavingKinds
                 PROVE  OwnerIn(reviews', req'[q]) = OwnerIn(reviews, req[q])
      OBVIOUS
    <3>1. req'[q] = req[q] /\ (req[q].kind = "review" => req[q].id \in DOMAIN reviews)
      BY <2>2 DEF ProfileInv
    <3> QED
      BY <3>1, ReqOwners
  <2>4. ASSUME NEW a \in Slots, NEW b \in Slots, a # b, req'[a].kind \in SavingKinds, req'[b].kind \in SavingKinds
        PROVE  OwnerIn(reviews', req'[a]) # OwnerIn(reviews', req'[b])
    BY <2>1, <2>2, <2>3, <2>4 DEF Saving
  <2>5. ASSUME NEW a \in Slots, pc'[a] \in HoldSteps, req'[a].kind \in SavingKinds,
               OwnerIn(reviews', req'[a]) \in UserIds
        PROVE  /\ held'[a].profile = profiles'[OwnerIn(reviews', req'[a])]
               /\ profiles'[OwnerIn(reviews', req'[a])].there
    <3>1. req'[a] = req[a] /\ OwnerIn(reviews', req'[a]) = OwnerIn(reviews, req[a])
      BY <2>2, <2>3, <2>5
    <3>2. CASE a = p
      BY <1>2, <1>5, <2>5, <3>1, <3>2
    <3>3. CASE a # p
      BY <1>1, <2>1, <2>5, <3>1, <3>3 DEF Saving
    <3> QED
      BY <3>2, <3>3
  <2> QED
    BY <2>4, <2>5 DEF Saving
<1> QED
  BY <1>2, <1>3, <1>4, <1>5 DEF ProfileInv

\* What the handlers keep, one field changed.
LEMMA KeptChanged ==
  ASSUME NEW h, Kept(h)
  PROVE  /\ \A x : Kept([h EXCEPT !.profile = x]) /\ [h EXCEPT !.profile = x].profile = x
         /\ \A c : Kept([h EXCEPT !.cols = c]) /\ [h EXCEPT !.cols = c].profile = h.profile
         /\ \A i : Kept([h EXCEPT !.id = i]) /\ [h EXCEPT !.id = i].profile = h.profile
<1>1. h = [profile |-> h.profile, cols |-> h.cols, id |-> h.id]
  BY DEF Kept
<1>2. ASSUME NEW x PROVE Kept([h EXCEPT !.profile = x]) /\ [h EXCEPT !.profile = x].profile = x
  <2> DEFINE g == [h EXCEPT !.profile = x]
  <2>1. g.profile = x /\ g = [profile |-> g.profile, cols |-> g.cols, id |-> g.id]
    BY <1>1
  <2> HIDE DEF g
  <2>2. Kept(g) /\ g.profile = x
    BY <2>1 DEF Kept
  <2> USE DEF g
  <2> QED
    BY <2>2
<1>3. ASSUME NEW c PROVE Kept([h EXCEPT !.cols = c]) /\ [h EXCEPT !.cols = c].profile = h.profile
  <2> DEFINE g == [h EXCEPT !.cols = c]
  <2>1. g.profile = h.profile /\ g = [profile |-> g.profile, cols |-> g.cols, id |-> g.id]
    BY <1>1
  <2> HIDE DEF g
  <2>2. Kept(g) /\ g.profile = h.profile
    BY <1>1, <2>1 DEF Kept
  <2> USE DEF g
  <2> QED
    BY <2>2
<1>4. ASSUME NEW i PROVE Kept([h EXCEPT !.id = i]) /\ [h EXCEPT !.id = i].profile = h.profile
  <2> DEFINE g == [h EXCEPT !.id = i]
  <2>1. g.profile = h.profile /\ g = [profile |-> g.profile, cols |-> g.cols, id |-> g.id]
    BY <1>1
  <2> HIDE DEF g
  <2>2. Kept(g) /\ g.profile = h.profile
    BY <1>1, <2>1 DEF Kept
  <2> USE DEF g
  <2> QED
    BY <2>2
<1> QED
  BY <1>2, <1>3, <1>4

\* A step that changes at most the columns or the id slot p keeps.
LEMMA HeldChanged ==
  ASSUME ProfileInv, NEW p \in Slots,
         \/ held' = held
         \/ \E c : held' = [held EXCEPT ![p].cols = c]
         \/ \E i : held' = [held EXCEPT ![p].id = i]
  PROVE  \E h : held' = [held EXCEPT ![p] = h] /\ Kept(h) /\ h.profile = held[p].profile
<1>1. held = [q \in Slots |-> held[q]] /\ Kept(held[p])
  BY DEF ProfileInv
<1>2. CASE held' = held
  <2>1. held' = [held EXCEPT ![p] = held[p]]
    BY <1>1, <1>2
  <2> QED
    BY <1>1, <2>1
<1>4. ASSUME NEW c, held' = [held EXCEPT ![p].cols = c]
      PROVE  \E h : held' = [held EXCEPT ![p] = h] /\ Kept(h) /\ h.profile = held[p].profile
  <2> DEFINE h == [held[p] EXCEPT !.cols = c]
  <2>1. Kept(h) /\ h.profile = held[p].profile
    BY <1>1, KeptChanged
  <2>2. held' = [held EXCEPT ![p] = h]
    BY <1>4
  <2> HIDE DEF h
  <2> QED
    BY <2>1, <2>2
<1>5. ASSUME NEW i, held' = [held EXCEPT ![p].id = i]
      PROVE  \E h : held' = [held EXCEPT ![p] = h] /\ Kept(h) /\ h.profile = held[p].profile
  <2> DEFINE h == [held[p] EXCEPT !.id = i]
  <2>1. Kept(h) /\ h.profile = held[p].profile
    BY <1>1, KeptChanged
  <2>2. held' = [held EXCEPT ![p] = h]
    BY <1>5
  <2> HIDE DEF h
  <2> QED
    BY <2>1, <2>2
<1> QED
  BY <1>2, <1>4, <1>5

\* Steps of a handler that neither read a profile nor write one.
LEMMA ProfileInvPlain ==
  ASSUME ProfileInv, Handling, Handling', NEW p \in Slots, Only(p), met \subseteq met',
         \/ req'[p] = req[p] /\ (pc'[p] \in HoldSteps => pc[p] \in HoldSteps)
         \/ req'[p].kind \notin {"review", "verify"} \union SavingKinds,
         reviews' \in Seq(Reviews), DOMAIN reviews \subseteq DOMAIN reviews',
         \A i \in DOMAIN reviews : reviews'[i].user = reviews[i].user,
         profiles' = profiles,
         \/ held' = held
         \/ held' = [held EXCEPT ![p] = Nothing] /\ IsOver(p)
         \/ \E c : held' = [held EXCEPT ![p].cols = c]
         \/ \E i : held' = [held EXCEPT ![p].id = i]
  PROVE  ProfileInv'
<1>1. CASE held' = [held EXCEPT ![p] = Nothing] /\ IsOver(p)
  <2>1. pc'[p] \notin HoldSteps /\ req'[p].kind \notin {"review", "verify"} \union SavingKinds
    BY <1>1, NoReqIs DEF IsOver, HoldSteps, SavingKinds
  <2> QED
    BY <1>1, <2>1, NothingKept, ProfileInvOf
<1>2. CASE ~(held' = [held EXCEPT ![p] = Nothing] /\ IsOver(p))
  <2>1. PICK g : held' = [held EXCEPT ![p] = g] /\ Kept(g) /\ g.profile = held[p].profile
    BY <1>2, HeldChanged
  <2>2. ASSUME "profile" \notin met', pc'[p] \in HoldSteps, OwnerIn(reviews, req[p]) \in UserIds, req'[p] = req[p],
               req[p].kind \in SavingKinds
        PROVE  /\ g.profile = profiles[OwnerIn(reviews, req[p])]
               /\ profiles[OwnerIn(reviews, req[p])].there
    <3>1. Saving
      BY <2>2 DEF ProfileInv
    <3>2. pc[p] \in HoldSteps
      BY <2>2 DEF SavingKinds
    <3> QED
      BY <2>1, <2>2, <3>1, <3>2 DEF Saving
  <2>3. \/ req'[p] = req[p] \/ req'[p].kind \notin {"review", "verify"} \union SavingKinds
    OBVIOUS
  <2> QED
    BY <2>1, <2>2, <2>3, ProfileInvOf
<1> QED
  BY <1>1, <1>2

\* A handler that read a profile keeps it as it is.
LEMMA ProfileInvFind ==
  ASSUME ProfileInv, Handling, Handling', NEW p \in Slots, FindProfile(p)
  PROVE  ProfileInv'
<1> DEFINE row == profiles[Owner(req[p])]
<1>1. /\ Moved(p) /\ UNCHANGED accountTables
      /\ \/ row.there /\ req'[p] = req[p] /\ held' = [held EXCEPT ![p].profile = row]
         \/ req'[p] = req[p] /\ pc'[p] = "insertProfile" /\ held' = held
         \/ IsOver(p) /\ held' = [held EXCEPT ![p] = Nothing]
  BY FindProfileIt
<1>2. /\ Only(p) /\ met' = met /\ profiles' = profiles /\ reviews' = reviews /\ reviews' \in Seq(Reviews)
  BY <1>1 DEF Moved, accountTables, ProfileInv
<1>3. CASE ~(row.there /\ req'[p] = req[p] /\ held' = [held EXCEPT ![p].profile = row])
  <2>1. \/ req'[p] = req[p] /\ pc'[p] \notin HoldSteps /\ held' = held
        \/ IsOver(p) /\ held' = [held EXCEPT ![p] = Nothing]
    BY <1>1, <1>3 DEF HoldSteps
  <2>2. IsOver(p) => req'[p].kind \notin {"review", "verify"} \union SavingKinds
    BY NoReqIs DEF IsOver, SavingKinds
  <2> QED
    BY <1>2, <2>1, <2>2, ProfileInvPlain
<1>4. CASE row.there /\ req'[p] = req[p] /\ held' = [held EXCEPT ![p].profile = row]
  <2>1. Kept(held[p]) /\ held = [q \in Slots |-> held[q]]
    BY DEF ProfileInv
  <2> HIDE DEF row
  <2> DEFINE h == [held[p] EXCEPT !.profile = row]
  <2>2. Kept(h) /\ h.profile = row
    BY <2>1, KeptChanged
  <2>3. held' = [held EXCEPT ![p] = h]
    BY <1>4
  <2> HIDE DEF h
  <2>4. row = profiles[OwnerIn(reviews, req[p])]
    BY OwnerIs DEF row
  <2> QED
    BY <1>2, <1>4, <2>2, <2>3, <2>4, ProfileInvOf
<1> QED
  BY <1>3, <1>4

\* A profile is made for somebody who has none: nobody keeps it yet.
LEMMA ProfileInvInsert ==
  ASSUME ProfileInv, Handling, Handling', NEW p \in Slots, InsertProfile(p)
  PROVE  ProfileInv'
<1> DEFINE u == Inserts(p)
           row == Inserted(p)
<1>1. /\ Moved(p) /\ pc[p] = "insertProfile" /\ reviews' = reviews
      /\ \/ profiles' = profiles /\ IsOver(p) /\ held' = [held EXCEPT ![p] = Nothing]
         \/ /\ ~profiles[u].there /\ profiles' = [profiles EXCEPT ![u] = row]
            /\ \/ IsOver(p) /\ held' = [held EXCEPT ![p] = Nothing]
               \/ /\ req'[p] = req[p] /\ req[p].kind \in {"setPicture", "uploadPicture"}
                  /\ held' = [held EXCEPT ![p].profile = row]
  BY InsertProfileIt
<1>2. Shaped(row) /\ row.there = TRUE
  <2>1. Shaped(NewProfile) /\ NewProfile.there = TRUE
    BY NothingKept
  <2>2. NewProfile = [there |-> NewProfile.there, picture |-> NewProfile.picture, isVerified |-> NewProfile.isVerified,
                      text |-> NewProfile.text]
    BY <2>1 DEF Shaped
  <2>3. [NewProfile EXCEPT !.text = req[p].word].there = NewProfile.there
    BY <2>2
  <2> QED
    BY <2>1, <2>3, ShapedChanged DEF Inserted
<1>3. /\ Only(p) /\ met' = met /\ reviews' \in Seq(Reviews)
  BY <1>1 DEF Moved, ProfileInv
<1>4. Kept(held[p]) /\ held = [q \in Slots |-> held[q]] /\ profiles = [v \in UserIds |-> profiles[v]]
      /\ \A v \in UserIds : Shaped(profiles[v])
  BY DEF ProfileInv
<1>5. req[p].kind \in {"setPicture", "uploadPicture"} => u = OwnerIn(reviews, req[p])
  BY DEF Inserts, OwnerIn
<1> HIDE DEF u, row
<1>6. CASE profiles' = profiles /\ IsOver(p) /\ held' = [held EXCEPT ![p] = Nothing]
  <2>1. req'[p].kind \notin {"review", "verify"} \union SavingKinds
    BY <1>6, NoReqIs DEF IsOver, SavingKinds
  <2> QED
    BY <1>1, <1>3, <1>6, <2>1, ProfileInvPlain
<1>7. CASE /\ ~profiles[u].there /\ profiles' = [profiles EXCEPT ![u] = row]
           /\ \/ IsOver(p) /\ held' = [held EXCEPT ![p] = Nothing]
              \/ /\ req'[p] = req[p] /\ req[p].kind \in {"setPicture", "uploadPicture"}
                 /\ held' = [held EXCEPT ![p].profile = row]
  <2>1. /\ profiles' = [v \in UserIds |-> profiles'[v]] /\ \A v \in UserIds : Shaped(profiles'[v])
        /\ \A v \in UserIds : v # u => profiles'[v] = profiles[v]
        /\ u \in UserIds => profiles'[u] = row
    BY <1>2, <1>4, <1>7
  <2>2. \A q \in Slots : q # p => pc'[q] = pc[q] /\ req'[q] = req[q] /\ held'[q] = held[q]
    BY <1>3, <1>4, <1>7 DEF Only
  <2>3. held' = [q \in Slots |-> held'[q]] /\ \A q \in Slots : q # p => Kept(held'[q])
    <3>1. held' = [q \in Slots |-> held'[q]]
      <4>1. CASE held' = [held EXCEPT ![p] = Nothing]
        BY <1>4, <4>1
      <4>2. CASE held' = [held EXCEPT ![p].profile = row]
        BY <1>4, <4>2
      <4> QED
        BY <1>7, <4>1, <4>2
    <3>2. \A q \in Slots : Kept(held[q])
      BY DEF ProfileInv
    <3> QED
      BY <2>2, <3>1, <3>2
  <2>4. /\ Kept(held'[p])
        /\ held'[p].profile = row \/ pc'[p] \notin HoldSteps
    <3>1. CASE IsOver(p) /\ held' = [held EXCEPT ![p] = Nothing]
      BY <1>4, <3>1, NothingKept DEF IsOver, HoldSteps
    <3>2. CASE held' = [held EXCEPT ![p].profile = row]
      <4>1. held'[p] = [held[p] EXCEPT !.profile = row]
        BY <1>4, <3>2
      <4> QED
        BY <1>4, <4>1, KeptChanged
    <3> QED
      BY <1>7, <3>1, <3>2
  <2>5. \A q \in Slots : req'[q] = req[q] \/ (q = p /\ req'[q].kind = "none")
    BY <1>7, <2>2, NoReqIs DEF IsOver
  <2>6. /\ \A q \in Slots : req'[q].kind = "review" => req'[q].id \in DOMAIN reviews' /\ req'[q].word \in Statuses
        /\ \A q \in Slots : req'[q].kind = "verify" => req'[q].user \in Nat
    BY <1>1, <2>5 DEF ProfileInv
  <2>7. ASSUME "profile" \notin met' PROVE Saving'
    <3>1. Saving
      BY <1>3, <2>7 DEF ProfileInv
    <3>2. ASSUME NEW a \in Slots, NEW b \in Slots, a # b, req'[a].kind \in SavingKinds, req'[b].kind \in SavingKinds
          PROVE  OwnerIn(reviews', req'[a]) # OwnerIn(reviews', req'[b])
      BY <1>1, <2>5, <3>1, <3>2 DEF Saving, SavingKinds
    <3>3. ASSUME NEW a \in Slots, pc'[a] \in HoldSteps, req'[a].kind \in SavingKinds,
                 OwnerIn(reviews', req'[a]) \in UserIds
          PROVE  /\ held'[a].profile = profiles'[OwnerIn(reviews', req'[a])]
                 /\ profiles'[OwnerIn(reviews', req'[a])].there
      <4>0. req'[a] = req[a] /\ reviews' = reviews
        BY <1>1, <2>5, <3>3 DEF SavingKinds
      <4>1. CASE a = p
        <5>1. ~IsOver(p)
          BY <3>3, <4>1 DEF IsOver, HoldSteps
        <5>2. OwnerIn(reviews', req'[a]) = u
          BY <1>5, <1>7, <4>0, <4>1, <5>1
        <5> QED
          BY <1>2, <2>1, <2>4, <3>3, <4>1, <5>2
      <4>2. CASE a # p
        <5>1. /\ held[a].profile = profiles[OwnerIn(reviews, req[a])]
              /\ profiles[OwnerIn(reviews, req[a])].there
          BY <2>2, <3>1, <3>3, <4>0, <4>2 DEF Saving
        <5>2. OwnerIn(reviews, req[a]) # u
          BY <1>7, <5>1
        <5> QED
          BY <2>1, <2>2, <3>3, <4>0, <4>2, <5>1, <5>2
      <4> QED
        BY <4>1, <4>2
    <3> QED
      BY <3>2, <3>3 DEF Saving
  <2>8. \A q \in Slots : Kept(held'[q])
    BY <2>3, <2>4
  <2> QED
    BY <1>3, <2>1, <2>3, <2>6, <2>7, <2>8 DEF ProfileInv
<1> QED
  BY <1>1, <1>6, <1>7

\* What a request changes of the profile it keeps.
LEMMA ChangedIs ==
  ASSUME NEW p \in Slots, Shaped(held[p].profile), req[p].kind \in SavingKinds, NEW c \in Columns \ Saves(req[p].kind)
  PROVE  Changed(p)[c] = held[p].profile[c]
<1> DEFINE e == held[p].profile
<1>1. c \in {"picture", "isVerified", "text"}
  BY DEF Columns
<1>2. \A b : /\ [e EXCEPT !.picture = b].isVerified = e.isVerified /\ [e EXCEPT !.picture = b].text = e.text
             /\ [e EXCEPT !.isVerified = b].picture = e.picture /\ [e EXCEPT !.isVerified = b].text = e.text
             /\ [e EXCEPT !.text = b].picture = e.picture /\ [e EXCEPT !.text = b].isVerified = e.isVerified
  <2> HIDE DEF e
  <2>1. Shaped(e)
    BY DEF e
  <2> QED
    BY <2>1, ShapedChanged
<1> HIDE DEF e
<1>3. CASE req[p].kind = "edit"
  <2>1. Changed(p) = [e EXCEPT !.text = req[p].word] /\ c # "text"
    BY <1>3 DEF Changed, Saves, e
  <2> QED
    BY <1>1, <1>2, <2>1 DEF e
<1>4. CASE req[p].kind = "review"
  <2>1. Changed(p) = [e EXCEPT !.isVerified = TRUE] /\ c # "isVerified"
    BY <1>4 DEF Changed, Saves, e
  <2> QED
    BY <1>1, <1>2, <2>1 DEF e
<1>5. CASE req[p].kind \in {"setPicture", "uploadPicture"}
  <2>1. (\E b : Changed(p) = [e EXCEPT !.picture = b]) /\ c # "picture"
    BY <1>5 DEF Changed, Saves, e
  <2> QED
    BY <1>1, <1>2, <2>1 DEF e
<1> QED
  BY <1>3, <1>4, <1>5 DEF SavingKinds

\* What a save writes is the row with its own column changed.
LEMMA SavedIs ==
  ASSUME NEW row, Shaped(row), NEW entity, NEW cols
  PROVE  /\ Shaped(Saved(row, entity, cols))
         /\ Saved(row, entity, cols).there = IF "there" \in cols THEN entity.there ELSE row.there
         /\ \A c \in Columns : Saved(row, entity, cols)[c] = row[c] \/ Saved(row, entity, cols)[c] = entity[c]
<1>1. row = [there |-> row.there, picture |-> row.picture, isVerified |-> row.isVerified, text |-> row.text]
  BY DEF Shaped
<1>2. DOMAIN row = {"there", "picture", "isVerified", "text"}
  BY <1>1
<1> DEFINE s == Saved(row, entity, cols)
<1>3. s = [c \in {"there", "picture", "isVerified", "text"} |-> IF c \in cols THEN entity[c] ELSE row[c]]
  BY <1>2 DEF Saved
<1>4. s = [there |-> s.there, picture |-> s.picture, isVerified |-> s.isVerified, text |-> s.text]
  BY <1>3
<1>5. \A c \in Columns : s[c] = row[c] \/ s[c] = entity[c]
  BY <1>3 DEF Columns
<1>6. s.there = IF "there" \in cols THEN entity.there ELSE row.there
  BY <1>3
<1> HIDE DEF s
<1>7. Shaped(s)
  BY <1>4 DEF Shaped
<1> QED
  BY <1>5, <1>6, <1>7 DEF s

\* A save writes one profile, which no other handler keeps in order to save it.
LEMMA ProfileInvUpdate ==
  ASSUME ProfileInv, Handling, Handling', NEW p \in Slots, Update(p)
  PROVE  ProfileInv'
<1> DEFINE u == OwnerIn(reviews, req[p])
           row == Saved(profiles[u], Changed(p), held[p].cols)
<1>0. Owner(req[p]) = u
  BY OwnerIs
<1>1. /\ Moved(p) /\ pc[p] = "update" /\ reviews' = reviews
      /\ \/ profiles' = profiles
         \/ profiles' = [profiles EXCEPT ![u] = row]
      /\ IsOver(p) /\ held' = [held EXCEPT ![p] = Nothing]
  BY <1>0, UpdateIt
<1>2. /\ Only(p) /\ met' = met /\ reviews' \in Seq(Reviews) /\ Kept(held[p]) /\ held = [q \in Slots |-> held[q]]
      /\ profiles = [v \in UserIds |-> profiles[v]] /\ \A v \in UserIds : Shaped(profiles[v])
  BY <1>1 DEF Moved, ProfileInv
<1>3. u \in UserIds => Shaped(row)
  BY <1>2, SavedIs
<1>4. req[p].kind \in SavingKinds
  BY <1>1 DEF Handling, Stands, SavingKinds
<1> HIDE DEF u, row
<1>5. /\ profiles' = [v \in UserIds |-> profiles'[v]] /\ \A v \in UserIds : Shaped(profiles'[v])
      /\ \A v \in UserIds : v # u => profiles'[v] = profiles[v]
  BY <1>1, <1>2, <1>3
<1>6. \A q \in Slots : q # p => pc'[q] = pc[q] /\ req'[q] = req[q] /\ held'[q] = held[q]
  BY <1>1, <1>2 DEF Only
<1>7. held' = [q \in Slots |-> held'[q]] /\ \A q \in Slots : Kept(held'[q])
  <2>1. \A q \in Slots : Kept(held[q])
    BY DEF ProfileInv
  <2> QED
    BY <1>1, <1>2, <2>1, NothingKept
<1>8. \A q \in Slots : req'[q] = req[q] \/ (q = p /\ req'[q].kind = "none")
  BY <1>1, <1>6, NoReqIs DEF IsOver
<1>9. /\ \A q \in Slots : req'[q].kind = "review" => req'[q].id \in DOMAIN reviews' /\ req'[q].word \in Statuses
      /\ \A q \in Slots : req'[q].kind = "verify" => req'[q].user \in Nat
  BY <1>1, <1>8 DEF ProfileInv
<1>10. ASSUME "profile" \notin met' PROVE Saving'
  <2>1. Saving
    BY <1>2, <1>10 DEF ProfileInv
  <2>2. ASSUME NEW a \in Slots, NEW b \in Slots, a # b, req'[a].kind \in SavingKinds, req'[b].kind \in SavingKinds
        PROVE  OwnerIn(reviews', req'[a]) # OwnerIn(reviews', req'[b])
    BY <1>1, <1>8, <2>1, <2>2 DEF Saving, SavingKinds
  <2>3. ASSUME NEW a \in Slots, pc'[a] \in HoldSteps, req'[a].kind \in SavingKinds,
               OwnerIn(reviews', req'[a]) \in UserIds
        PROVE  /\ held'[a].profile = profiles'[OwnerIn(reviews', req'[a])]
               /\ profiles'[OwnerIn(reviews', req'[a])].there
    <3>1. a # p
      BY <1>1, <2>3 DEF HoldSteps, IsOver
    <3>2. /\ OwnerIn(reviews', req'[a]) = OwnerIn(reviews, req[a]) /\ OwnerIn(reviews, req[a]) \in UserIds
          /\ pc[a] \in HoldSteps /\ req[a].kind \in SavingKinds
      BY <1>1, <1>6, <2>3, <3>1
    <3>3. OwnerIn(reviews, req[a]) # u
      BY <1>4, <2>1, <3>1, <3>2 DEF Saving, u
    <3>4. /\ held[a].profile = profiles[OwnerIn(reviews, req[a])]
          /\ profiles[OwnerIn(reviews, req[a])].there
      BY <2>1, <3>2 DEF Saving
    <3> QED
      BY <1>5, <1>6, <3>1, <3>2, <3>3, <3>4
  <2> QED
    BY <2>2, <2>3 DEF Saving
<1> QED
  BY <1>2, <1>5, <1>7, <1>9, <1>10 DEF ProfileInv

\* A request arrives; it overlaps no other that saves the profile it is about.
LEMMA ProfileInvBegins ==
  ASSUME ProfileInv, AccountInv, Handling, Handling', NEW p \in Slots, Endpoint(p)
  PROVE  ProfileInv'
<1>1. PICK at, r : at \in FirstSteps /\ Asks(p, at, r) /\ r.kind \in AccountKinds /\ Stands(at, r.kind) /\ About(r)
  BY Endpoints
<1>2. PICK T : /\ Start(p, at, r, T) /\ UNCHANGED accountVars
               /\ \A q \in Slots : Busy(q) => Conflicts(r, req[q]) \subseteq T
  BY <1>1, AsksIs
<1>3. /\ Only(p) /\ req[p] = NoReq /\ pc'[p] = at /\ req'[p] = r /\ met' = met \union T
      /\ profiles' = profiles /\ reviews' = reviews /\ held' = held
  BY <1>2, StartIs DEF accountVars, accountTables
<1>4. \A q \in Slots : q # p => req'[q] = req[q] /\ pc'[q] = pc[q]
  BY <1>3 DEF Only
<1>5. r.kind = "review" => r.id \in DOMAIN reviews /\ r.word \in Statuses
  BY <1>1 DEF About, Statuses
<1>6. r.kind = "verify" => r.user \in Nat
  <2>1. DOMAIN users = 1..Len(users) /\ Len(users) \in Nat
    BY LenProperties DEF AccountInv
  <2> QED
    BY <1>1, <2>1 DEF About, AccountKinds
<1>7. ASSUME "profile" \notin met' PROVE Saving'
  <2>1. Saving /\ "profile" \notin T
    BY <1>3, <1>7 DEF ProfileInv
  <2>2. ASSUME NEW q \in Slots, q # p, r.kind \in SavingKinds, req[q].kind \in SavingKinds
        PROVE  OwnerIn(reviews, r) # OwnerIn(reviews, req[q])
    <3>1. Busy(q)
      BY <2>2 DEF Handling, Stands, Busy, SavingKinds
    <3>2. "profile" \notin Conflicts(r, req[q])
      BY <1>2, <2>1, <3>1
    <3>3. Saves(r.kind) # {} /\ Saves(req[q].kind) # {}
      BY <2>2, SavesIs
    <3>4. Owner(r) # Owner(req[q])
      <4> SUFFICES ASSUME Owner(r) = Owner(req[q]) PROVE FALSE
        OBVIOUS
      <4> QED
        BY <3>2, <3>3 DEF Conflicts
    <3> QED
      BY <3>4, OwnerIs
  <2>3. at \notin HoldSteps
    BY <1>1 DEF FirstSteps, HoldSteps
  <2>4. ASSUME NEW a \in Slots, NEW b \in Slots, a # b, req'[a].kind \in SavingKinds, req'[b].kind \in SavingKinds
        PROVE  OwnerIn(reviews', req'[a]) # OwnerIn(reviews', req'[b])
    <3>1. CASE a # p /\ b # p
      BY <1>3, <1>4, <2>1, <2>4, <3>1 DEF Saving
    <3>2. CASE a = p
      BY <1>3, <1>4, <2>2, <2>4, <3>2
    <3>3. CASE b = p
      BY <1>3, <1>4, <2>2, <2>4, <3>3
    <3> QED
      BY <3>1, <3>2, <3>3
  <2>5. ASSUME NEW a \in Slots, pc'[a] \in HoldSteps, req'[a].kind \in SavingKinds,
               OwnerIn(reviews', req'[a]) \in UserIds
        PROVE  /\ held'[a].profile = profiles'[OwnerIn(reviews', req'[a])]
               /\ profiles'[OwnerIn(reviews', req'[a])].there
    BY <1>3, <1>4, <2>1, <2>3, <2>5 DEF Saving
  <2> QED
    BY <2>4, <2>5 DEF Saving
<1> QED
  BY <1>3, <1>4, <1>5, <1>6, <1>7 DEF ProfileInv

\* A step that leaves the handlers of the accounts and the tables alone.
LEMMA ProfileInvAside ==
  ASSUME ProfileInv, Aside(AccountKinds), UNCHANGED <<profiles, reviews, held>>
  PROVE  ProfileInv'
<1>1. \A q \in Slots : req'[q].kind \in AccountKinds => pc'[q] = pc[q] /\ req'[q] = req[q]
  BY DEF Aside
<1>2. SavingKinds \subseteq AccountKinds /\ {"verify", "review"} \subseteq AccountKinds
  BY DEF SavingKinds, AccountKinds
<1>3. \A q \in Slots : req'[q].kind \in SavingKinds \union {"verify", "review"} => pc'[q] = pc[q] /\ req'[q] = req[q]
  BY <1>1, <1>2
<1>4. ASSUME Saving PROVE Saving'
  BY <1>3, <1>4 DEF Saving
<1> QED
  BY <1>3, <1>4 DEF ProfileInv, Aside

\* Every step of a handler keeps ProfileInv.
LEMMA ProfileInvHandles ==
  ASSUME ProfileInv, Handling, Handling', NEW p \in Slots, Handle(p)
  PROVE  ProfileInv'
<1>0. ASSUME Moved(p), profiles' = profiles,
             \/ reviews' = reviews
             \/ \E i, s : s \in Statuses /\ i \in DOMAIN reviews /\ reviews' = [reviews EXCEPT ![i].status = s]
             \/ \E x \in Reviews : reviews' = Append(reviews, x),
             \/ /\ req'[p] = req[p] /\ (pc'[p] \in HoldSteps => pc[p] \in HoldSteps)
                /\ \/ held' = held
                   \/ \E c : held' = [held EXCEPT ![p].cols = c]
                   \/ \E i : held' = [held EXCEPT ![p].id = i]
             \/ IsOver(p) /\ held' = [held EXCEPT ![p] = Nothing]
      PROVE  ProfileInv'
  <2>1. /\ reviews' \in Seq(Reviews) /\ DOMAIN reviews \subseteq DOMAIN reviews'
        /\ \A i \in DOMAIN reviews : reviews'[i].user = reviews[i].user
    BY <1>0, OwnersKept DEF ProfileInv
  <2>2. Only(p) /\ met \subseteq met'
    BY <1>0 DEF Moved
  <2>3. IsOver(p) => req'[p].kind \notin {"review", "verify"} \union SavingKinds
    BY NoReqIs DEF IsOver, SavingKinds
  <2> QED
    BY <1>0, <2>1, <2>2, <2>3, ProfileInvPlain
<1>1. CASE FindEmail(p)
  BY <1>0, <1>1, FindEmailIt DEF accountTables, HoldSteps
<1>2. CASE SaveUser(p)
  BY <1>0, <1>2, SaveUserIt DEF HoldSteps
<1>3. CASE SaveNames(p)
  BY <1>0, <1>3, SaveNamesIt DEF accountVars, accountTables, HoldSteps
<1>4. CASE FindPhoto(p) \/ FindOwned(p) \/ FindLiked(p) \/ FindLike(p) \/ FindUnliked(p)
  BY <1>0, <1>4, Lookers DEF accountTables, HoldSteps
<1>5. CASE FindOwnLike(p)
  BY <1>0, <1>5, FindOwnLikeIt DEF accountTables, HoldSteps
<1>6. CASE InsertPhoto(p)
  BY <1>0, <1>6, InsertPhotoIt DEF HoldSteps
<1>7. CASE Select(p)
  <2> DEFINE cols == Differing(Changed(p), profiles[Owner(req[p])])
  <2>1. /\ Moved(p) /\ pc[p] = "select" /\ UNCHANGED accountTables
        /\ \/ IsOver(p) /\ held' = [held EXCEPT ![p] = Nothing]
           \/ pc'[p] = "update" /\ req'[p] = req[p] /\ held' = [held EXCEPT ![p].cols = cols]
    BY <1>7, SelectIt
  <2> HIDE DEF cols
  <2> QED
    BY <1>0, <2>1 DEF accountTables, HoldSteps
<1>8. CASE DeletePhoto(p)
  BY <1>0, <1>8, DeletePhotoIt
<1>9. CASE InsertLike(p)
  BY <1>0, <1>9, InsertLikeIt DEF HoldSteps
<1>10. CASE CountUp(p) \/ CountDown(p)
  BY <1>0, <1>10, CountUpIt, CountDownIt
<1>11. CASE DeleteLike(p)
  BY <1>0, <1>11, DeleteLikeIt DEF HoldSteps
<1>12. CASE InsertReview(p)
  <2>1. /\ Moved(p) /\ IsOver(p) /\ pc[p] = "insertReview" /\ profiles' = profiles
        /\ held' = [held EXCEPT ![p] = Nothing]
        /\ reviews' = Append(reviews, [user |-> req[p].user, status |-> "pending"])
    BY <1>12, InsertReviewIt
  <2>2. req[p].kind = "verify"
    BY <2>1 DEF Handling, Stands
  <2>3. [user |-> req[p].user, status |-> "pending"] \in Reviews
    BY <2>2 DEF ProfileInv, Reviews, Statuses
  <2> QED
    BY <1>0, <2>1, <2>3
<1>13. CASE SaveReview(p)
  <2>1. /\ Moved(p) /\ pc[p] = "saveReview" /\ profiles' = profiles
        /\ reviews' = [reviews EXCEPT ![req[p].id].status = req[p].word]
        /\ \/ IsOver(p) /\ held' = [held EXCEPT ![p] = Nothing]
           \/ pc'[p] = "findProfile" /\ req'[p] = req[p] /\ held' = held
    BY <1>13, SaveReviewIt
  <2>2. req[p].kind = "review"
    BY <2>1 DEF Handling, Stands
  <2>3. req[p].id \in DOMAIN reviews /\ req[p].word \in Statuses
    BY <2>2 DEF ProfileInv
  <2> QED
    BY <1>0, <2>1, <2>3 DEF HoldSteps
<1> QED
  BY <1>1, <1>2, <1>3, <1>4, <1>5, <1>6, <1>7, <1>8, <1>9, <1>10, <1>11, <1>12, <1>13,
     ProfileInvFind, ProfileInvInsert, ProfileInvUpdate DEF Handle

\* Every step keeps ProfileInv.
LEMMA ProfileInvNext == ProfileInv /\ AccountInv /\ Handling /\ Handling' /\ [Next]_vars => ProfileInv'
<1> SUFFICES ASSUME ProfileInv, AccountInv, Handling, Handling', [Next]_vars PROVE ProfileInv'
  OBVIOUS
<1>1. ASSUME NEW p \in Slots, AccountFails(p) PROVE ProfileInv'
  <2>1. /\ Only(p) /\ IsOver(p) /\ met \subseteq met' /\ profiles' = profiles /\ reviews' = reviews
        /\ held' = [held EXCEPT ![p] = Nothing]
    BY <1>1, AccountFailsIt DEF accountTables
  <2>2. req'[p].kind \notin {"review", "verify"} \union SavingKinds
    BY <2>1, NoReqIs DEF IsOver, SavingKinds
  <2>3. reviews' \in Seq(Reviews)
    BY <2>1 DEF ProfileInv
  <2> QED
    BY <2>1, <2>2, <2>3, ProfileInvPlain
<1>2. CASE AccountsNext
  <2>1. \E p \in Slots : Endpoint(p) \/ Handle(p) \/ AccountFails(p)
    BY <1>2 DEF AccountsNext, Endpoint, Handle
  <2> QED
    BY <1>1, <2>1, ProfileInvBegins, ProfileInvHandles
<1>3. CASE StoriesNext /\ UNCHANGED accountVars
  <2>1. Aside(AccountKinds \union {"ask"})
    BY <1>3, StoriesMove
  <2>2. Aside(AccountKinds)
    BY <2>1 DEF Aside
  <2> QED
    BY <1>3, <2>2, ProfileInvAside DEF accountVars, accountTables
<1>4. CASE GrokNext /\ UNCHANGED accountVars
  <2>1. Aside(AccountKinds \union StoryKinds)
    BY <1>4, GrokMoves
  <2>2. Aside(AccountKinds)
    BY <2>1 DEF Aside
  <2> QED
    BY <1>4, <2>2, ProfileInvAside DEF accountVars, accountTables
<1>5. CASE Restart
  <2>1. /\ profiles' = profiles /\ reviews' = reviews /\ held' = [q \in Slots |-> Nothing]
        /\ \A q \in Slots : pc'[q] = "idle" /\ req'[q] = NoReq
    BY <1>5, RestartIs DEF accountTables, Restart
  <2>2. \A q \in Slots : req'[q].kind = "none" /\ pc'[q] \notin HoldSteps
    BY <2>1, NoReqIs DEF HoldSteps
  <2>3. Saving'
    BY <2>2 DEF Saving, SavingKinds
  <2>4. \A q \in Slots : Kept(held'[q])
    BY <2>1, NothingKept
  <2> QED
    BY <2>1, <2>2, <2>3, <2>4 DEF ProfileInv
<1>6. CASE UNCHANGED vars
  <2>1. UNCHANGED <<pc, req, met, profiles, reviews, held>>
    BY <1>6 DEF vars, accountVars, accountTables, handlerVars
  <2>2. Aside(AccountKinds)
    BY <2>1 DEF Aside
  <2> QED
    BY <2>1, <2>2, ProfileInvAside
<1> QED
  BY <1>2, <1>3, <1>4, <1>5, <1>6 DEF Next

\* What a step does to the profiles.
OwnColumn ==
  \A u \in UserIds :
    "profile" \notin met /\ profiles[u].there =>
      Differing(profiles'[u], profiles[u])
        \subseteq UNION {Saves(req[p].kind) : p \in {p \in Slots : Busy(p) /\ Owner(req[p]) = u}}

\* A step that writes to a profile writes the column of its request.
LEMMA OnlyItsColumn ==
  ASSUME ProfileInv, Handling, [Next]_<<handlerVars, accountVars>> \/ [Next]_vars
  PROVE  OwnColumn
<1> SUFFICES ASSUME NEW u \in UserIds, "profile" \notin met, profiles[u].there, NEW c \in Columns,
                    profiles'[u][c] # profiles[u][c]
             PROVE  \E p \in Slots : Busy(p) /\ Owner(req[p]) = u /\ c \in Saves(req[p].kind)
  BY DEF OwnColumn, Differing
<1>1. profiles' # profiles
  OBVIOUS
<1>2. PICK p \in Slots : Handle(p)
  <2>1. Next /\ ~UNCHANGED accountVars
    BY <1>1 DEF vars, accountVars, accountTables
  <2>2. AccountsNext
    BY <1>1, <2>1, RestartIs DEF Next, accountTables
  <2>3. PICK p \in Slots : Endpoint(p) \/ Handle(p) \/ AccountFails(p)
    BY <2>2 DEF AccountsNext, Endpoint, Handle
  <2>4. ~AccountFails(p)
    BY <1>1, AccountFailsIt DEF accountTables
  <2>5. ~Endpoint(p)
    <3> SUFFICES ASSUME Endpoint(p) PROVE FALSE
      OBVIOUS
    <3>1. UNCHANGED accountVars
      BY Endpoints, AsksIs
    <3> QED
      BY <2>1, <3>1
  <2> QED
    BY <2>3, <2>4, <2>5
<1>3. InsertProfile(p) \/ Update(p)
  <2>1. CASE FindEmail(p) \/ SaveUser(p) \/ SaveNames(p) \/ FindProfile(p)
    BY <1>1, <2>1, FindEmailIt, SaveUserIt, SaveNamesIt, FindProfileIt DEF accountVars, accountTables
  <2>2. CASE FindPhoto(p) \/ FindOwned(p) \/ FindLiked(p) \/ FindLike(p) \/ FindUnliked(p)
    BY <1>1, <2>2, Lookers DEF accountTables
  <2>3. CASE InsertPhoto(p) \/ Select(p) \/ DeletePhoto(p)
    BY <1>1, <2>3, InsertPhotoIt, SelectIt, DeletePhotoIt DEF accountTables
  <2>4. CASE InsertLike(p) \/ CountUp(p) \/ FindOwnLike(p) \/ DeleteLike(p) \/ CountDown(p)
    BY <1>1, <2>4, InsertLikeIt, CountUpIt, FindOwnLikeIt, DeleteLikeIt, CountDownIt DEF accountTables
  <2>5. CASE InsertReview(p) \/ SaveReview(p)
    BY <1>1, <2>5, InsertReviewIt, SaveReviewIt
  <2> QED
    BY <1>2, <2>1, <2>2, <2>3, <2>4, <2>5 DEF Handle
<1>4. profiles = [v \in UserIds |-> profiles[v]] /\ Shaped(profiles[u])
  BY DEF ProfileInv
<1>5. CASE InsertProfile(p)
  <2> DEFINE w == Inserts(p)
             row == Inserted(p)
  <2>1. ~profiles[w].there /\ profiles' = [profiles EXCEPT ![w] = row]
    BY <1>1, <1>5, InsertProfileIt
  <2> HIDE DEF w, row
  <2>2. profiles'[u] = profiles[u]
    BY <1>4, <2>1
  <2> QED
    BY <2>2
<1>6. CASE Update(p)
  <2> DEFINE w == OwnerIn(reviews, req[p])
  <2>0. Owner(req[p]) = w
    BY OwnerIs
  <2>1. /\ pc[p] = "update"
        /\ profiles' = [profiles EXCEPT ![w] = Saved(profiles[w], Changed(p), held[p].cols)]
    BY <1>1, <1>6, <2>0, UpdateIt
  <2>2. req[p].kind \in SavingKinds
    BY <2>1 DEF Handling, Stands, SavingKinds
  <2> HIDE DEF w
  <2>3. w = u /\ profiles'[u] = Saved(profiles[u], Changed(p), held[p].cols)
    BY <1>4, <2>1
  <2>4. held[p].profile = profiles[u]
    BY <2>1, <2>2, <2>3 DEF ProfileInv, Saving, HoldSteps, w
  <2>5. Changed(p)[c] # profiles[u][c]
    BY <1>4, <2>3, SavedIs
  <2>6. c \in Saves(req[p].kind)
    BY <1>4, <2>2, <2>4, <2>5, ChangedIs
  <2> QED
    BY <2>0, <2>1, <2>3, <2>6 DEF Busy
<1> QED
  BY <1>3, <1>5, <1>6

\* A save of a profile changes the column its request is about and no other,
\* unless requests of one user overlap (the saves of user.service.ts).
THEOREM SavesKeepToTheirColumn == Spec => CalmProfileSaves
<1> DEFINE I == Handling /\ AccountInv /\ ProfileInv
<1>1. Init => I
  <2>1. Init => Handling
    BY NoReqIs DEF Init, HandlersInit, Handling
  <2> QED
    BY <2>1, AccountInvInit, ProfileInvInit
<1>2. I /\ Handling' /\ [Next]_vars => I'
  BY AccountInvNext, ProfileInvNext
<1>3. I /\ [Next]_vars => [OwnColumn]_<<handlerVars, accountVars>>
  BY OnlyItsColumn
<1>4. CalmProfileSaves <=> [][OwnColumn]_<<handlerVars, accountVars>>
  BY PTL DEF CalmProfileSaves, OwnColumn
<1> QED
  BY <1>1, <1>2, <1>3, <1>4, HandlingKept, PTL DEF Spec
-----------------------------------------------------------------------------
(* Likes and their counts.                                                 *)

\* The handlers at a step about a photo, and the likes of the photo.
Between(ps, rs, i, at) == {p \in Slots : ps[p] = at /\ rs[p].id = i}
LikesOf(ls, i) == {l \in ls : l[2] = i}

\* The count of a photo is right, the handlers between two statements counted.
Exact(ps, rs, fs, ls, i) ==
  fs[i].likesCount + Cardinality(Between(ps, rs, i, "countLike")) - Cardinality(Between(ps, rs, i, "countUnlike"))
    = Cardinality(LikesOf(ls, i))

\* No like is taken back by two requests at once; one that is about to be
\* deleted is there, unless its photo has gone.
Liking ==
  /\ \A p, q \in Slots : p # q /\ req[p].kind = "unlike" => req[p] # req[q]
  /\ \A p \in Slots : pc[p] = "deleteLike" /\ photos[req[p].id].there => <<req[p].user, req[p].id>> \in likes
  /\ \A i \in DOMAIN photos : photos[i].there => Exact(pc, req, photos, likes, i)

PhotoRows == [owner : Nat, likesCount : Int, there : BOOLEAN]

\* What requests about photos name.
Naming ==
  \A p \in Slots :
    /\ req[p].kind \in {"uploadPhoto", "uploadPicture", "like", "unlike"} => req[p].user \in Nat
    /\ req[p].kind \in {"deletePhoto", "like", "unlike"} => req[p].id \in DOMAIN photos

LikeInv ==
  /\ photos \in Seq(PhotoRows)
  /\ IsFiniteSet(likes) /\ likes \subseteq Nat \X DOMAIN photos
  /\ Naming
  /\ met \intersect {"likes", "fault"} = {} => Liking

\* Finitely many handlers are between two statements.
LEMMA BetweenFinite ==
  ASSUME NEW ps, NEW rs, NEW i, NEW at
  PROVE  IsFiniteSet(Between(ps, rs, i, at)) /\ Cardinality(Between(ps, rs, i, at)) \in Nat
<1>1. Between(ps, rs, i, at) \subseteq Slots
  BY DEF Between
<1> QED
  BY <1>1, FS_Subset, FS_CardinalityType

\* A handler that is at no count before and after changes no set of them.
LEMMA BetweenKept ==
  ASSUME NEW ps, NEW rs, NEW ps2, NEW rs2, NEW p \in Slots, NEW i, NEW at,
         \A q \in Slots : q # p => ps2[q] = ps[q] /\ rs2[q] = rs[q],
         \/ ps[p] # at /\ ps2[p] # at
         \/ ps2[p] = ps[p] /\ rs2[p] = rs[p]
         \/ rs2[p] = rs[p] /\ rs[p].id # i
         \/ ps2[p] # at /\ rs[p].id # i
  PROVE  Between(ps2, rs2, i, at) = Between(ps, rs, i, at)
BY DEF Between

\* One that comes to a count joins one set.
LEMMA BetweenEnters ==
  ASSUME NEW ps, NEW rs, NEW ps2, NEW rs2, NEW p \in Slots, NEW i, NEW at,
         \A q \in Slots : q # p => ps2[q] = ps[q] /\ rs2[q] = rs[q],
         ps[p] # at, ps2[p] = at, rs2[p].id = i
  PROVE  Cardinality(Between(ps2, rs2, i, at)) = Cardinality(Between(ps, rs, i, at)) + 1
<1>1. Between(ps2, rs2, i, at) = Between(ps, rs, i, at) \union {p} /\ p \notin Between(ps, rs, i, at)
  BY DEF Between
<1> DEFINE S == Between(ps, rs, i, at)
<1>2. IsFiniteSet(S)
  BY BetweenFinite
<1>3. Between(ps2, rs2, i, at) = S \union {p} /\ p \notin S
  BY <1>1
<1> HIDE DEF S
<1>4. Cardinality(S \union {p}) = Cardinality(S) + 1
  BY <1>2, <1>3, FS_AddElement
<1> QED
  BY <1>3, <1>4 DEF S

\* One that has counted leaves it.
LEMMA BetweenLeaves ==
  ASSUME NEW ps, NEW rs, NEW ps2, NEW rs2, NEW p \in Slots, NEW i, NEW at,
         \A q \in Slots : q # p => ps2[q] = ps[q] /\ rs2[q] = rs[q],
         ps[p] = at, ps2[p] # at, rs[p].id = i
  PROVE  Cardinality(Between(ps2, rs2, i, at)) = Cardinality(Between(ps, rs, i, at)) - 1
<1>1. Between(ps2, rs2, i, at) = Between(ps, rs, i, at) \ {p} /\ p \in Between(ps, rs, i, at)
  BY DEF Between
<1> DEFINE S == Between(ps, rs, i, at)
<1>2. IsFiniteSet(S)
  BY BetweenFinite
<1>3. Between(ps2, rs2, i, at) = S \ {p} /\ p \in S
  BY <1>1
<1> HIDE DEF S
<1>4. Cardinality(S \ {p}) = Cardinality(S) - 1
  BY <1>2, <1>3, FS_RemoveElement
<1> QED
  BY <1>3, <1>4 DEF S

\* Exact, when nobody is between two statements about a photo without likes.
LEMMA ExactEmpty ==
  ASSUME NEW ps, NEW rs, NEW fs, NEW ls, NEW i, fs[i].likesCount = 0,
         Between(ps, rs, i, "countLike") = {}, Between(ps, rs, i, "countUnlike") = {}, LikesOf(ls, i) = {}
  PROVE  Exact(ps, rs, fs, ls, i)
<1>1. Cardinality({}) = 0
  BY FS_EmptySet
<1>2. 0 + Cardinality({}) - Cardinality({}) = Cardinality({})
  BY <1>1
<1> QED
  BY <1>2 DEF Exact

\* There are no photos.
LEMMA LikeInvInit == Init => LikeInv
<1> SUFFICES ASSUME Init PROVE LikeInv
  OBVIOUS
<1>1. /\ pc = [p \in Slots |-> "idle"] /\ req = [p \in Slots |-> NoReq] /\ likes = {}
      /\ photos = <<[owner |-> 1, likesCount |-> 0, there |-> TRUE]>>
  BY DEF Init, HandlersInit, AccountsInit
<1>2. [owner |-> 1, likesCount |-> 0, there |-> TRUE] \in PhotoRows
  BY DEF PhotoRows
<1>3. photos \in Seq(PhotoRows) /\ DOMAIN photos = {1} /\ photos[1].likesCount = 0
  BY <1>1, <1>2
<1>4. \A p \in Slots : pc[p] = "idle" /\ req[p].kind = "none"
  BY <1>1, NoReqIs
<1>5. Exact(pc, req, photos, likes, 1)
  <2>1. Between(pc, req, 1, "countLike") = {} /\ Between(pc, req, 1, "countUnlike") = {} /\ LikesOf(likes, 1) = {}
    BY <1>1, <1>4 DEF Between, LikesOf
  <2> QED
    BY <1>3, <2>1, ExactEmpty
<1>6. Liking
  BY <1>3, <1>4, <1>5 DEF Liking
<1>7. IsFiniteSet(likes)
  BY <1>1, FS_EmptySet
<1> QED
  BY <1>1, <1>3, <1>4, <1>6, <1>7 DEF LikeInv, Naming

\* A step of slot p that is about no like and no count.
LEMMA LikeInvPlain ==
  ASSUME LikeInv, Handling, NEW p \in Slots, Only(p), met \subseteq met',
         \/ req'[p] = req[p] \/ req'[p].kind = "none",
         photos' = photos, likes' = likes,
         pc[p] \notin {"countLike", "countUnlike"}, pc'[p] \notin {"countLike", "countUnlike"},
         pc'[p] = "deleteLike" => <<req'[p].user, req'[p].id>> \in likes
  PROVE  LikeInv'
<1>1. \A q \in Slots : q # p => pc'[q] = pc[q] /\ req'[q] = req[q]
  BY DEF Only
<1>2. Naming'
  BY <1>1 DEF LikeInv, Naming
<1>3. ASSUME met' \intersect {"likes", "fault"} = {} PROVE Liking'
  <2>1. Liking
    BY <1>3 DEF LikeInv
  <2>2. ASSUME NEW a \in Slots, NEW b \in Slots, a # b, req'[a].kind = "unlike" PROVE req'[a] # req'[b]
    BY <1>1, <2>1, <2>2 DEF Liking
  <2>3. ASSUME NEW q \in Slots, pc'[q] = "deleteLike", photos'[req'[q].id].there
        PROVE  <<req'[q].user, req'[q].id>> \in likes'
    BY <1>1, <2>1, <2>3 DEF Liking
  <2>4. ASSUME NEW i \in DOMAIN photos', photos'[i].there PROVE Exact(pc', req', photos', likes', i)
    <3>1. Exact(pc, req, photos, likes, i)
      BY <2>1, <2>4 DEF Liking
    <3>2. /\ Between(pc', req', i, "countLike") = Between(pc, req, i, "countLike")
          /\ Between(pc', req', i, "countUnlike") = Between(pc, req, i, "countUnlike")
      BY <1>1, BetweenKept
    <3> QED
      BY <3>1, <3>2 DEF Exact
  <2> QED
    BY <2>2, <2>3, <2>4 DEF Liking
<1> QED
  BY <1>2, <1>3 DEF LikeInv

\* A new photo has no likes and no count.
LEMMA LikeInvInsertPhoto ==
  ASSUME LikeInv, Handling, Handling', NEW p \in Slots, InsertPhoto(p)
  PROVE  LikeInv'
<1> DEFINE row == [owner |-> req[p].user, likesCount |-> 0, there |-> TRUE]
           n == Len(photos) + 1
<1>1. /\ Moved(p) /\ pc[p] = "insertPhoto" /\ photos' = Append(photos, row) /\ likes' = likes
      /\ IsOver(p) \/ (pc'[p] = "select" /\ req'[p] = req[p])
  BY InsertPhotoIt
<1>2. req[p].user \in Nat
  BY <1>1 DEF Handling, Stands, LikeInv, Naming
<1>3. row \in PhotoRows /\ row.likesCount = 0
  BY <1>2 DEF PhotoRows
<1>4. photos \in Seq(PhotoRows) /\ Naming /\ IsFiniteSet(likes) /\ likes \subseteq Nat \X DOMAIN photos
  BY DEF LikeInv
<1> HIDE DEF row
<1>5. /\ photos' \in Seq(PhotoRows) /\ DOMAIN photos = 1..Len(photos) /\ DOMAIN photos' = 1..n /\ Len(photos) \in Nat
      /\ photos'[n] = row /\ \A i \in DOMAIN photos : photos'[i] = photos[i]
  BY <1>1, <1>3, <1>4, AppendProperties, LenProperties
<1>6. n \notin DOMAIN photos /\ DOMAIN photos \subseteq DOMAIN photos' /\ DOMAIN photos' = DOMAIN photos \union {n}
  BY <1>5
<1> HIDE DEF n
<1>7. met' = met /\ \A q \in Slots : q # p => pc'[q] = pc[q] /\ req'[q] = req[q]
  BY <1>1 DEF Moved, Only
<1>8. \A q \in Slots : req'[q] = req[q] \/ req'[q].kind = "none"
  BY <1>1, <1>7, NoReqIs DEF IsOver
<1>9. Naming'
  BY <1>4, <1>6, <1>8 DEF Naming
<1>10. ASSUME met' \intersect {"likes", "fault"} = {} PROVE Liking'
  <2>1. Liking
    BY <1>7, <1>10 DEF LikeInv
  <2>2. ASSUME NEW a \in Slots, NEW b \in Slots, a # b, req'[a].kind = "unlike" PROVE req'[a] # req'[b]
    <3>1. req'[a] = req[a] /\ (req'[b] = req[b] \/ req'[b].kind = "none")
      BY <1>8, <2>2
    <3> QED
      BY <2>1, <2>2, <3>1 DEF Liking
  <2>3. ASSUME NEW q \in Slots, pc'[q] = "deleteLike", photos'[req'[q].id].there
        PROVE  <<req'[q].user, req'[q].id>> \in likes'
    <3>1. q # p
      BY <1>1, <2>3 DEF IsOver
    <3>2. pc[q] = "deleteLike" /\ req'[q] = req[q]
      BY <1>7, <2>3, <3>1
    <3>3. req[q].id \in DOMAIN photos
      BY <1>4, <3>2 DEF Handling, Stands, Naming
    <3> QED
      BY <1>1, <1>5, <2>1, <2>3, <3>2, <3>3 DEF Liking
  <2>4. ASSUME NEW i \in DOMAIN photos', photos'[i].there PROVE Exact(pc', req', photos', likes', i)
    <3>1. /\ Between(pc', req', i, "countLike") = Between(pc, req, i, "countLike")
          /\ Between(pc', req', i, "countUnlike") = Between(pc, req, i, "countUnlike")
      <4>1. pc[p] \notin {"countLike", "countUnlike"} /\ pc'[p] \notin {"countLike", "countUnlike"}
        BY <1>1 DEF IsOver
      <4>2. \A q \in Slots : q # p => pc'[q] = pc[q] /\ req'[q] = req[q]
        BY <1>7
      <4>3. Between(pc', req', i, "countLike") = Between(pc, req, i, "countLike")
        BY <4>1, <4>2 DEF Between
      <4>4. Between(pc', req', i, "countUnlike") = Between(pc, req, i, "countUnlike")
        BY <4>1, <4>2 DEF Between
      <4> QED
        BY <4>3, <4>4
    <3>2. CASE i \in DOMAIN photos
      BY <1>1, <1>5, <2>1, <2>4, <3>1, <3>2 DEF Liking, Exact
    <3>3. CASE i = n
      <4>1. \A q \in Slots : pc[q] \in {"countLike", "countUnlike"} => req[q].id # n
        BY <1>4, <1>6 DEF Handling, Stands, Naming
      <4>2. Between(pc, req, i, "countLike") = {} /\ Between(pc, req, i, "countUnlike") = {}
        BY <3>3, <4>1 DEF Between
      <4>3. LikesOf(likes, i) = {}
        BY <1>4, <1>6, <3>3 DEF LikesOf
      <4>4. photos'[i].likesCount = 0 /\ likes' = likes
        BY <1>1, <1>3, <1>5, <3>3
      <4> QED
        BY <3>1, <4>2, <4>3, <4>4, ExactEmpty
    <3> QED
      BY <1>6, <3>2, <3>3
  <2> QED
    BY <2>2, <2>3, <2>4 DEF Liking
<1>11. likes' \subseteq Nat \X DOMAIN photos'
  BY <1>1, <1>4, <1>6
<1> QED
  BY <1>1, <1>4, <1>5, <1>9, <1>10, <1>11 DEF LikeInv

\* A row of photos is a record.
LEMMA PhotoIs ==
  ASSUME photos \in Seq(PhotoRows), NEW i \in DOMAIN photos
  PROVE  /\ photos[i] \in PhotoRows /\ photos[i].likesCount \in Int
         /\ \A b \in BOOLEAN : [photos[i] EXCEPT !.there = b] \in PhotoRows /\ [photos[i] EXCEPT !.there = b].there = b
         /\ \A n \in Int : /\ [photos[i] EXCEPT !.likesCount = n] \in PhotoRows
                           /\ [photos[i] EXCEPT !.likesCount = n].likesCount = n
                           /\ [photos[i] EXCEPT !.likesCount = n].there = photos[i].there
<1> DEFINE x == photos[i]
<1>1. x \in PhotoRows
  BY ElementOfSeq, LenProperties
<1> HIDE DEF x
<1>2. x.likesCount \in Int
  BY <1>1 DEF PhotoRows
<1>3. \A b \in BOOLEAN : [x EXCEPT !.there = b] \in PhotoRows /\ [x EXCEPT !.there = b].there = b
  BY <1>1 DEF PhotoRows
<1>4. \A n \in Int : /\ [x EXCEPT !.likesCount = n] \in PhotoRows
                    /\ [x EXCEPT !.likesCount = n].likesCount = n
                    /\ [x EXCEPT !.likesCount = n].there = x.there
  BY <1>1 DEF PhotoRows
<1> QED
  BY <1>1, <1>2, <1>3, <1>4 DEF x

\* A photo is removed, its likes with it.
LEMMA LikeInvDeletePhoto ==
  ASSUME LikeInv, Handling, Handling', NEW p \in Slots, DeletePhoto(p)
  PROVE  LikeInv'
<1> DEFINE i == req[p].id
<1>1. /\ Moved(p) /\ IsOver(p) /\ pc[p] = "deletePhoto"
      /\ \/ photos' = photos /\ likes' = likes
         \/ photos' = [photos EXCEPT ![i].there = FALSE] /\ likes' = {l \in likes : l[2] # i}
  BY DeletePhotoIt
<1>2. met' = met /\ \A q \in Slots : q # p => pc'[q] = pc[q] /\ req'[q] = req[q]
  BY <1>1 DEF Moved, Only
<1>3. pc'[p] = "idle" /\ req'[p].kind = "none"
  BY <1>1, NoReqIs DEF IsOver
<1>4. photos \in Seq(PhotoRows) /\ Naming /\ IsFiniteSet(likes) /\ likes \subseteq Nat \X DOMAIN photos
  BY DEF LikeInv
<1>5. i \in DOMAIN photos
  BY <1>1, <1>4 DEF Handling, Stands, Naming
<1> HIDE DEF i
<1>6. CASE photos' = photos /\ likes' = likes
  BY <1>1, <1>2, <1>3, <1>6, LikeInvPlain DEF Moved
<1>7. CASE photos' = [photos EXCEPT ![i].there = FALSE] /\ likes' = {l \in likes : l[2] # i}
  <2>1. /\ DOMAIN photos' = DOMAIN photos /\ photos'[i].there = FALSE
        /\ \A k \in DOMAIN photos : k # i => photos'[k] = photos[k]
    <3>1. /\ DOMAIN photos' = DOMAIN photos /\ photos'[i] = [photos[i] EXCEPT !.there = FALSE]
          /\ \A k \in DOMAIN photos : k # i => photos'[k] = photos[k]
      BY <1>4, <1>5, <1>7, LenProperties
    <3>2. [photos[i] EXCEPT !.there = FALSE].there = FALSE
      BY <1>4, <1>5, PhotoIs
    <3> QED
      BY <3>1, <3>2
  <2>2. photos' \in Seq(PhotoRows)
    <3>1. \A k \in DOMAIN photos : photos[k] \in PhotoRows
      BY <1>4, ElementOfSeq, LenProperties
    <3>2. \A k \in DOMAIN photos : photos'[k] \in PhotoRows
      BY <1>5, <1>7, <3>1 DEF PhotoRows
    <3>3. photos' = [k \in 1..Len(photos) |-> photos'[k]] /\ Len(photos) \in Nat /\ DOMAIN photos = 1..Len(photos)
      BY <1>4, <1>7, LenProperties
    <3> QED
      BY <3>2, <3>3, IsASeq
  <2>3. IsFiniteSet(likes') /\ likes' \subseteq Nat \X DOMAIN photos'
    <3>1. likes' \subseteq likes
      BY <1>7
    <3> QED
      BY <1>4, <2>1, <3>1, FS_Subset
  <2>4. Naming'
    BY <1>2, <1>3, <1>4, <2>1 DEF Naming
  <2>5. ASSUME met' \intersect {"likes", "fault"} = {} PROVE Liking'
    <3>1. Liking
      BY <1>2, <2>5 DEF LikeInv
    <3>2. ASSUME NEW a \in Slots, NEW b \in Slots, a # b, req'[a].kind = "unlike" PROVE req'[a] # req'[b]
      <4>1. req'[a] = req[a] /\ (req'[b] = req[b] \/ req'[b].kind = "none")
        BY <1>2, <1>3, <3>2
      <4> QED
        BY <3>1, <3>2, <4>1 DEF Liking
    <3>3. ASSUME NEW q \in Slots, pc'[q] = "deleteLike", photos'[req'[q].id].there
          PROVE  <<req'[q].user, req'[q].id>> \in likes'
      <4>1. q # p
        BY <1>3, <3>3
      <4>2. pc[q] = "deleteLike" /\ req'[q] = req[q]
        BY <1>2, <3>3, <4>1
      <4>3. req[q].id \in DOMAIN photos
        BY <1>4, <4>2 DEF Handling, Stands, Naming
      <4>4. req[q].id # i /\ photos[req[q].id].there
        BY <2>1, <3>3, <4>2, <4>3
      <4>5. <<req[q].user, req[q].id>> \in likes
        BY <3>1, <4>2, <4>4 DEF Liking
      <4> QED
        BY <1>7, <4>2, <4>4, <4>5
    <3>4. ASSUME NEW k \in DOMAIN photos', photos'[k].there PROVE Exact(pc', req', photos', likes', k)
      <4>1. k # i /\ k \in DOMAIN photos /\ photos'[k] = photos[k]
        BY <2>1, <3>4
      <4>2. Exact(pc, req, photos, likes, k)
        BY <3>1, <3>4, <4>1 DEF Liking
      <4>3. Between(pc', req', k, "countLike") = Between(pc, req, k, "countLike")
        BY <1>1, <1>2, <1>3 DEF Between
      <4>4. Between(pc', req', k, "countUnlike") = Between(pc, req, k, "countUnlike")
        BY <1>1, <1>2, <1>3 DEF Between
      <4>5. LikesOf(likes', k) = LikesOf(likes, k)
        BY <1>7, <4>1 DEF LikesOf
      <4> QED
        BY <4>1, <4>2, <4>3, <4>4, <4>5 DEF Exact
    <3> QED
      BY <3>2, <3>3, <3>4 DEF Liking
  <2> QED
    BY <2>2, <2>3, <2>4, <2>5 DEF LikeInv
<1> QED
  BY <1>1, <1>6, <1>7

\* The step of a like or an unlike that leaves the photos alone.
LEMMA LikeInvLikes ==
  ASSUME LikeInv, Handling, Handling', NEW p \in Slots, Moved(p), req'[p] = req[p], photos' = photos,
         req[p].kind \in {"like", "unlike"}, NEW l, l = <<req[p].user, req[p].id>>,
         \/ /\ l \notin likes /\ likes' = likes \union {l} /\ photos[req[p].id].there
            /\ pc[p] = "insertLike" /\ pc'[p] = "countLike"
         \/ likes' = likes \ {l} /\ pc[p] = "deleteLike" /\ pc'[p] = "countUnlike"
  PROVE  LikeInv'
<1> DEFINE i == req[p].id
<1>1. met' = met /\ (\A q \in Slots : q # p => pc'[q] = pc[q] /\ req'[q] = req[q]) /\ \A q \in Slots : req'[q] = req[q]
  BY DEF Moved, Only
<1>2. photos \in Seq(PhotoRows) /\ Naming /\ IsFiniteSet(likes) /\ likes \subseteq Nat \X DOMAIN photos
  BY DEF LikeInv
<1>3. i \in DOMAIN photos /\ l \in Nat \X DOMAIN photos /\ l[2] = i
  BY <1>2 DEF Naming
<1>4. l = <<req[p].user, i>>
  OBVIOUS
<1>5. IsFiniteSet(likes') /\ likes' \subseteq Nat \X DOMAIN photos
  <2>1. CASE likes' = likes \union {l}
    <3>1. IsFiniteSet(likes \union {l})
      BY <1>2, FS_AddElement
    <3> QED
      BY <1>2, <1>3, <2>1, <3>1
  <2>2. CASE likes' = likes \ {l}
    <3>1. IsFiniteSet(likes \ {l})
      BY <1>2, FS_RemoveElement
    <3> QED
      BY <1>2, <1>3, <2>2, <3>1
  <2> QED
    BY <2>1, <2>2
<1>6. Naming'
  BY <1>1, <1>2 DEF Naming
<1>7. photos[i].likesCount \in Int
  BY <1>2, <1>3, PhotoIs
<1> HIDE DEF i
<1>8. ASSUME met' \intersect {"likes", "fault"} = {} PROVE Liking'
  <2>1. Liking
    BY <1>1, <1>8 DEF LikeInv
  <2>2. ASSUME NEW a \in Slots, NEW b \in Slots, a # b, req'[a].kind = "unlike" PROVE req'[a] # req'[b]
    BY <1>1, <2>1, <2>2 DEF Liking
  <2>3. ASSUME NEW q \in Slots, pc'[q] = "deleteLike", photos'[req'[q].id].there
        PROVE  <<req'[q].user, req'[q].id>> \in likes'
    <3>1. q # p
      BY <2>3
    <3>2. pc[q] = "deleteLike" /\ req'[q] = req[q]
      BY <1>1, <2>3, <3>1
    <3>3. <<req[q].user, req[q].id>> \in likes
      BY <2>1, <2>3, <3>2 DEF Liking
    <3>4. pc[p] = "deleteLike" => <<req[q].user, req[q].id>> # l
      <4> SUFFICES ASSUME pc[p] = "deleteLike", <<req[q].user, req[q].id>> = l PROVE FALSE
        OBVIOUS
      <4>1. req[p].kind = "unlike" /\ req[q].kind = "unlike"
        BY <3>2 DEF Handling, Stands
      <4>2. /\ req[p] = [NoReq EXCEPT !.kind = "unlike", !.user = req[p].user, !.id = req[p].id]
            /\ req[q] = [NoReq EXCEPT !.kind = "unlike", !.user = req[q].user, !.id = req[q].id]
        BY <4>1 DEF Handling, Asked
      <4>3. req[p].user = req[q].user /\ req[p].id = req[q].id
        OBVIOUS
      <4>4. req[p] = req[q]
        BY <4>2, <4>3, Zenon
      <4> QED
        BY <2>1, <3>1, <4>1, <4>4 DEF Liking
    <3> QED
      BY <3>2, <3>3, <3>4
  <2>4. ASSUME NEW k \in DOMAIN photos', photos'[k].there PROVE Exact(pc', req', photos', likes', k)
    <3>1. Exact(pc, req, photos, likes, k)
      BY <2>1, <2>4 DEF Liking
    <3>2. IsFiniteSet(LikesOf(likes, k)) /\ Cardinality(LikesOf(likes, k)) \in Nat
      <4>1. LikesOf(likes, k) \subseteq likes
        BY DEF LikesOf
      <4> QED
        BY <1>2, <4>1, FS_Subset, FS_CardinalityType
    <3> DEFINE up == Between(pc, req, k, "countLike")
               up2 == Between(pc', req', k, "countLike")
               down == Between(pc, req, k, "countUnlike")
               down2 == Between(pc', req', k, "countUnlike")
               ls == LikesOf(likes, k)
               ls2 == LikesOf(likes', k)
    <3>0. Cardinality(up) \in Nat /\ Cardinality(down) \in Nat /\ photos[k].likesCount \in Int
      <4>1. Cardinality(up) \in Nat /\ Cardinality(down) \in Nat
        BY BetweenFinite
      <4>2. photos[k].likesCount \in Int
        BY <1>2, <2>4, PhotoIs
      <4> QED
        BY <4>1, <4>2
    <3>3. CASE k # i
      <4>1. up2 = up /\ down2 = down
        BY <1>1, <3>3 DEF Between, i
      <4>2. ls2 = ls
        BY <1>3, <3>3 DEF LikesOf
      <4> QED
        BY <3>1, <4>1, <4>2 DEF Exact
    <3>4. CASE k = i /\ pc[p] = "insertLike"
      <4>1. Cardinality(up2) = Cardinality(up) + 1
        <5>1. (\A q \in Slots : q # p => pc'[q] = pc[q] /\ req'[q] = req[q]) /\ req'[p].id = k
          BY <1>1, <3>4 DEF i
        <5>2. pc[p] # "countLike" /\ pc'[p] = "countLike"
          BY <3>4
        <5>3. up2 = up \union {p} /\ p \notin up
          BY <5>1, <5>2 DEF Between
        <5>4. IsFiniteSet(up)
          BY BetweenFinite
        <5> HIDE DEF up, up2
        <5> QED
          BY <5>3, <5>4, FS_AddElement
      <4>2. down2 = down
        BY <1>1, <3>4 DEF Between
      <4>3. ls2 = ls \union {l} /\ l \notin ls
        BY <1>3, <3>4 DEF LikesOf
      <4>4. Cardinality(ls2) = Cardinality(ls) + 1
        <5> HIDE DEF ls, ls2
        <5>1. IsFiniteSet(ls)
          BY <3>2 DEF ls
        <5> QED
          BY <4>3, <5>1, FS_AddElement
      <4>5. photos[k].likesCount + Cardinality(up) - Cardinality(down) = Cardinality(ls)
        BY <3>1 DEF Exact
      <4> HIDE DEF up, up2, down, down2, ls, ls2
      <4>6. photos[k].likesCount + Cardinality(up2) - Cardinality(down2) = Cardinality(ls2)
        BY <3>0, <4>1, <4>2, <4>4, <4>5
      <4> QED
        BY <4>6 DEF Exact, up2, down2, ls2
    <3>5. CASE k = i /\ pc[p] = "deleteLike"
      <4>0. l \in likes
        BY <2>1, <2>4, <3>5 DEF Liking, i
      <4>1. Cardinality(down2) = Cardinality(down) + 1
        <5>1. (\A q \in Slots : q # p => pc'[q] = pc[q] /\ req'[q] = req[q]) /\ req'[p].id = k
          BY <1>1, <3>5 DEF i
        <5>2. pc[p] # "countUnlike" /\ pc'[p] = "countUnlike"
          BY <3>5
        <5>3. down2 = down \union {p} /\ p \notin down
          BY <5>1, <5>2 DEF Between
        <5>4. IsFiniteSet(down)
          BY BetweenFinite
        <5> HIDE DEF down, down2
        <5> QED
          BY <5>3, <5>4, FS_AddElement
      <4>2. up2 = up
        BY <1>1, <3>5 DEF Between
      <4>3. ls2 = ls \ {l} /\ l \in ls
        BY <1>3, <3>5, <4>0 DEF LikesOf
      <4>4. Cardinality(ls2) = Cardinality(ls) - 1
        <5> HIDE DEF ls, ls2
        <5>1. IsFiniteSet(ls)
          BY <3>2 DEF ls
        <5> QED
          BY <4>3, <5>1, FS_RemoveElement
      <4>5. photos[k].likesCount + Cardinality(up) - Cardinality(down) = Cardinality(ls)
        BY <3>1 DEF Exact
      <4> HIDE DEF up, up2, down, down2, ls, ls2
      <4>6. photos[k].likesCount + Cardinality(up2) - Cardinality(down2) = Cardinality(ls2)
        BY <3>0, <4>1, <4>2, <4>4, <4>5
      <4> QED
        BY <4>6 DEF Exact, up2, down2, ls2
    <3> QED
      BY <3>3, <3>4, <3>5
  <2> QED
    BY <2>2, <2>3, <2>4 DEF Liking
<1> QED
  BY <1>2, <1>5, <1>6, <1>8 DEF LikeInv

\* The count follows its like, or its unlike.
LEMMA LikeInvCount ==
  ASSUME LikeInv, Handling, Handling', NEW p \in Slots, Moved(p), IsOver(p), likes' = likes,
         NEW d, Recount(req[p].id, d),
         (pc[p] = "countLike" /\ d = 1) \/ (pc[p] = "countUnlike" /\ d = -1)
  PROVE  LikeInv'
<1> DEFINE i == req[p].id
<1>1. met' = met /\ (\A q \in Slots : q # p => pc'[q] = pc[q] /\ req'[q] = req[q])
      /\ pc'[p] = "idle" /\ req'[p].kind = "none"
  BY NoReqIs DEF Moved, Only, IsOver
<1>2. photos \in Seq(PhotoRows) /\ Naming /\ IsFiniteSet(likes) /\ likes \subseteq Nat \X DOMAIN photos
  BY DEF LikeInv
<1>3. i \in DOMAIN photos
  BY <1>2 DEF Handling, Stands, Naming
<1>4. photos' = IF photos[i].there THEN [photos EXCEPT ![i].likesCount = photos[i].likesCount + d] ELSE photos
  BY <1>3 DEF Recount, HasPhoto
<1> HIDE DEF i
<1> DEFINE n == photos[i].likesCount + d
<1>5. n \in Int /\ d \in Int /\ photos[i].likesCount \in Int
  BY <1>2, <1>3, PhotoIs
<1>6. n = photos[i].likesCount + d
  OBVIOUS
<1>7. photos' = IF photos[i].there THEN [photos EXCEPT ![i].likesCount = n] ELSE photos
  BY <1>4
<1> HIDE DEF n
<1>8. /\ [photos[i] EXCEPT !.likesCount = n] \in PhotoRows /\ [photos[i] EXCEPT !.likesCount = n].likesCount = n
      /\ [photos[i] EXCEPT !.likesCount = n].there = photos[i].there
  BY <1>2, <1>3, <1>5, PhotoIs
<1>9. /\ DOMAIN photos' = DOMAIN photos
      /\ \A k \in DOMAIN photos : photos'[k].there = photos[k].there
      /\ \A k \in DOMAIN photos : k # i => photos'[k] = photos[k]
      /\ photos[i].there => photos'[i].likesCount = n
  <2>1. CASE photos[i].there
    <3>1. /\ DOMAIN photos' = DOMAIN photos /\ photos'[i] = [photos[i] EXCEPT !.likesCount = n]
          /\ \A k \in DOMAIN photos : k # i => photos'[k] = photos[k]
      BY <1>2, <1>3, <1>7, <2>1, LenProperties
    <3> QED
      BY <1>8, <3>1
  <2>2. CASE ~photos[i].there
    BY <1>7, <2>2
  <2> QED
    BY <2>1, <2>2
<1>10. photos' \in Seq(PhotoRows)
  <2>1. \A k \in DOMAIN photos : photos[k] \in PhotoRows
    BY <1>2, ElementOfSeq, LenProperties
  <2>2. CASE photos[i].there
    <3>1. photos' = [photos EXCEPT ![i] = [photos[i] EXCEPT !.likesCount = n]]
      BY <1>7, <2>2
    <3>2. \A k \in DOMAIN photos : photos'[k] \in PhotoRows
      BY <1>3, <1>8, <2>1, <3>1
    <3>3. photos' = [k \in 1..Len(photos) |-> photos'[k]] /\ Len(photos) \in Nat /\ DOMAIN photos = 1..Len(photos)
      BY <1>2, <3>1, LenProperties
    <3> QED
      BY <3>2, <3>3, IsASeq
  <2>3. CASE ~photos[i].there
    BY <1>2, <1>7, <2>3
  <2> QED
    BY <2>2, <2>3
<1>11. Naming'
  BY <1>1, <1>2, <1>9 DEF Naming
<1>12. ASSUME met' \intersect {"likes", "fault"} = {} PROVE Liking'
  <2>1. Liking
    BY <1>1, <1>12 DEF LikeInv
  <2>2. ASSUME NEW a \in Slots, NEW b \in Slots, a # b, req'[a].kind = "unlike" PROVE req'[a] # req'[b]
    <3>1. req'[a] = req[a] /\ (req'[b] = req[b] \/ req'[b].kind = "none")
      BY <1>1, <2>2
    <3> QED
      BY <2>1, <2>2, <3>1 DEF Liking
  <2>3. ASSUME NEW q \in Slots, pc'[q] = "deleteLike", photos'[req'[q].id].there
        PROVE  <<req'[q].user, req'[q].id>> \in likes'
    <3>1. q # p
      BY <1>1, <2>3
    <3>2. pc[q] = "deleteLike" /\ req'[q] = req[q]
      BY <1>1, <2>3, <3>1
    <3>3. req[q].id \in DOMAIN photos
      BY <1>2, <3>2 DEF Handling, Stands, Naming
    <3>4. photos[req[q].id].there
      BY <1>9, <2>3, <3>2, <3>3
    <3> QED
      BY <2>1, <3>2, <3>4 DEF Liking
  <2>4. ASSUME NEW k \in DOMAIN photos', photos'[k].there PROVE Exact(pc', req', photos', likes', k)
    <3>0. k \in DOMAIN photos /\ photos[k].there
      BY <1>9, <2>4
    <3>1. Exact(pc, req, photos, likes, k)
      BY <2>1, <3>0 DEF Liking
    <3> DEFINE up == Between(pc, req, k, "countLike")
               up2 == Between(pc', req', k, "countLike")
               down == Between(pc, req, k, "countUnlike")
               down2 == Between(pc', req', k, "countUnlike")
               ls == LikesOf(likes, k)
    <3>2. IsFiniteSet(up) /\ IsFiniteSet(down) /\ Cardinality(up) \in Nat /\ Cardinality(down) \in Nat
      BY BetweenFinite
    <3>3. photos[k].likesCount + Cardinality(up) - Cardinality(down) = Cardinality(ls)
      BY <3>1 DEF Exact
    <3>4. CASE k # i
      <4>1. up2 = up /\ down2 = down
        BY <1>1, <3>4 DEF Between, i
      <4>2. photos'[k] = photos[k]
        BY <1>9, <3>0, <3>4
      <4> QED
        BY <3>1, <4>1, <4>2 DEF Exact
    <3>5. CASE k = i /\ pc[p] = "countLike"
      <4>1. up2 = up \ {p} /\ p \in up /\ down2 = down
        BY <1>1, <3>5 DEF Between, i
      <4>2. photos'[k].likesCount = photos[k].likesCount + 1
        BY <1>6, <1>9, <3>0, <3>5
      <4> HIDE DEF up, up2, down, down2, ls
      <4>3. Cardinality(up2) = Cardinality(up) - 1
        BY <3>2, <4>1, FS_RemoveElement
      <4>4. photos'[k].likesCount + Cardinality(up2) - Cardinality(down2) = Cardinality(ls)
        BY <1>5, <3>2, <3>3, <3>5, <4>1, <4>2, <4>3
      <4> QED
        BY <4>4 DEF Exact, up2, down2, ls
    <3>6. CASE k = i /\ pc[p] = "countUnlike"
      <4>1. down2 = down \ {p} /\ p \in down /\ up2 = up
        BY <1>1, <3>6 DEF Between, i
      <4>2. photos'[k].likesCount = photos[k].likesCount + (-1)
        BY <1>6, <1>9, <3>0, <3>6
      <4> HIDE DEF up, up2, down, down2, ls
      <4>3. Cardinality(down2) = Cardinality(down) - 1
        BY <3>2, <4>1, FS_RemoveElement
      <4>4. photos'[k].likesCount + Cardinality(up2) - Cardinality(down2) = Cardinality(ls)
        BY <1>5, <3>2, <3>3, <3>6, <4>1, <4>2, <4>3
      <4> QED
        BY <4>4 DEF Exact, up2, down2, ls
    <3> QED
      BY <3>4, <3>5, <3>6
  <2> QED
    BY <2>2, <2>3, <2>4 DEF Liking
<1> QED
  BY <1>2, <1>9, <1>10, <1>11, <1>12 DEF LikeInv

\* A request arrives; no other takes back the same like.
LEMMA LikeInvBegins ==
  ASSUME LikeInv, AccountInv, Handling, Handling', NEW p \in Slots, Endpoint(p)
  PROVE  LikeInv'
<1>1. PICK at, r : at \in FirstSteps /\ Asks(p, at, r) /\ r.kind \in AccountKinds /\ Stands(at, r.kind) /\ About(r)
  BY Endpoints
<1>2. PICK T : /\ Start(p, at, r, T) /\ UNCHANGED accountVars
               /\ \A q \in Slots : Busy(q) => Conflicts(r, req[q]) \subseteq T
  BY <1>1, AsksIs
<1>3. /\ Only(p) /\ req[p] = NoReq /\ pc[p] = "idle" /\ pc'[p] = at /\ req'[p] = r /\ met' = met \union T
      /\ photos' = photos /\ likes' = likes
  BY <1>2, StartIs DEF accountVars, accountTables
<1>4. \A q \in Slots : q # p => req'[q] = req[q] /\ pc'[q] = pc[q]
  BY <1>3 DEF Only
<1>5. at \notin {"countLike", "countUnlike", "deleteLike"}
  BY <1>1 DEF FirstSteps
<1>6. Naming'
  <2>1. DOMAIN users = 1..Len(users) /\ Len(users) \in Nat
    BY LenProperties DEF AccountInv
  <2>2. r.kind \in {"uploadPhoto", "uploadPicture", "like", "unlike"} => r.user \in Nat
    BY <1>1, <2>1 DEF About, AccountKinds
  <2>3. r.kind \in {"deletePhoto", "like", "unlike"} => r.id \in DOMAIN photos
    BY <1>1 DEF About
  <2> QED
    BY <1>3, <1>4, <2>2, <2>3 DEF LikeInv, Naming
<1>7. ASSUME met' \intersect {"likes", "fault"} = {} PROVE Liking'
  <2>1. Liking /\ "likes" \notin T
    BY <1>3, <1>7 DEF LikeInv
  <2>2. ASSUME NEW q \in Slots, q # p, r.kind = "unlike" PROVE r # req[q]
    <3> SUFFICES ASSUME r = req[q] PROVE FALSE
      OBVIOUS
    <3>1. Busy(q)
      BY <2>2 DEF Handling, Stands, Busy
    <3>2. "likes" \notin Conflicts(r, req[q])
      BY <1>2, <2>1, <3>1
    <3> QED
      BY <2>2, <3>2 DEF Conflicts
  <2>3. ASSUME NEW a \in Slots, NEW b \in Slots, a # b, req'[a].kind = "unlike" PROVE req'[a] # req'[b]
    <3>1. CASE a # p /\ b # p
      BY <1>4, <2>1, <2>3, <3>1 DEF Liking
    <3>2. CASE a = p
      BY <1>3, <1>4, <2>2, <2>3, <3>2
    <3>3. CASE b = p
      <4>1. CASE r.kind = "unlike"
        BY <1>3, <1>4, <2>2, <2>3, <3>3, <4>1
      <4>2. CASE r.kind # "unlike"
        BY <1>3, <2>3, <3>3, <4>2
      <4> QED
        BY <4>1, <4>2
    <3> QED
      BY <3>1, <3>2, <3>3
  <2>4. ASSUME NEW q \in Slots, pc'[q] = "deleteLike", photos'[req'[q].id].there
        PROVE  <<req'[q].user, req'[q].id>> \in likes'
    BY <1>3, <1>4, <1>5, <2>1, <2>4 DEF Liking
  <2>5. ASSUME NEW i \in DOMAIN photos', photos'[i].there PROVE Exact(pc', req', photos', likes', i)
    <3>1. Exact(pc, req, photos, likes, i)
      BY <1>3, <2>1, <2>5 DEF Liking
    <3>2. Between(pc', req', i, "countLike") = Between(pc, req, i, "countLike")
      BY <1>3, <1>4, <1>5 DEF Between
    <3>3. Between(pc', req', i, "countUnlike") = Between(pc, req, i, "countUnlike")
      BY <1>3, <1>4, <1>5 DEF Between
    <3> QED
      BY <1>3, <3>1, <3>2, <3>3 DEF Exact
  <2> QED
    BY <2>3, <2>4, <2>5 DEF Liking
<1> QED
  BY <1>3, <1>6, <1>7 DEF LikeInv

\* Every step of a handler keeps LikeInv.
LEMMA LikeInvHandles ==
  ASSUME LikeInv, Handling, Handling', NEW p \in Slots, Handle(p)
  PROVE  LikeInv'
<1>1. ASSUME ~InsertPhoto(p), ~DeletePhoto(p), ~InsertLike(p), ~DeleteLike(p), ~CountUp(p), ~CountDown(p), ~FindOwnLike(p)
      PROVE  LikeInv'
  <2>1. /\ Moved(p) /\ photos' = photos /\ likes' = likes
        /\ pc[p] \notin {"insertLike", "deleteLike", "countLike", "countUnlike", "findOwnLike"}
    <3>1. CASE FindEmail(p) \/ SaveUser(p) \/ SaveNames(p) \/ FindProfile(p) \/ InsertProfile(p)
      BY <3>1, FindEmailIt, SaveUserIt, SaveNamesIt, FindProfileIt, InsertProfileIt DEF accountVars, accountTables
    <3>2. CASE FindPhoto(p) \/ FindOwned(p) \/ FindLiked(p) \/ FindLike(p) \/ FindUnliked(p)
      BY <3>2, Lookers DEF accountTables
    <3>3. CASE Select(p) \/ Update(p) \/ InsertReview(p) \/ SaveReview(p)
      BY <3>3, SelectIt, UpdateIt, InsertReviewIt, SaveReviewIt DEF accountTables
    <3> QED
      BY <1>1, <3>1, <3>2, <3>3 DEF Handle
  <2>2. pc'[p] \notin {"countLike", "countUnlike", "deleteLike"}
    BY <2>1 DEF Moved, GoesOn, IsOver, Follows
  <2>3. req'[p] = req[p] \/ req'[p].kind = "none"
    BY <2>1, NoReqIs DEF Moved, GoesOn, IsOver
  <2> QED
    BY <2>1, <2>2, <2>3, LikeInvPlain DEF Moved
<1>2. CASE FindOwnLike(p)
  <2>1. /\ Moved(p) /\ photos' = photos /\ likes' = likes /\ pc[p] = "findOwnLike"
        /\ \/ <<req[p].user, req[p].id>> \in likes /\ req'[p] = req[p] /\ pc'[p] = "deleteLike"
           \/ IsOver(p)
    BY <1>2, FindOwnLikeIt DEF accountTables
  <2>2. pc'[p] \notin {"countLike", "countUnlike"} /\ (pc'[p] = "deleteLike" => <<req'[p].user, req'[p].id>> \in likes)
    BY <2>1 DEF IsOver
  <2>3. req'[p] = req[p] \/ req'[p].kind = "none"
    BY <2>1, NoReqIs DEF IsOver
  <2> QED
    BY <2>1, <2>2, <2>3, LikeInvPlain DEF Moved
<1>3. CASE InsertLike(p)
  <2> DEFINE l == <<req[p].user, req[p].id>>
  <2>1. /\ Moved(p) /\ pc[p] = "insertLike" /\ photos' = photos
        /\ \/ IsOver(p) /\ likes' = likes
           \/ /\ l \notin likes /\ HasPhoto(req[p].id) /\ likes' = likes \union {l}
              /\ pc'[p] = "countLike" /\ req'[p] = req[p]
    BY <1>3, InsertLikeIt
  <2>2. req[p].kind \in {"like", "unlike"}
    BY <2>1 DEF Handling, Stands
  <2>3. CASE IsOver(p) /\ likes' = likes
    <3>1. pc'[p] = "idle" /\ req'[p].kind = "none"
      BY <2>3, NoReqIs DEF IsOver
    <3> QED
      BY <2>1, <2>3, <3>1, LikeInvPlain DEF Moved
  <2>4. CASE /\ l \notin likes /\ HasPhoto(req[p].id) /\ likes' = likes \union {l}
             /\ pc'[p] = "countLike" /\ req'[p] = req[p]
    <3>1. photos[req[p].id].there
      BY <2>4 DEF HasPhoto
    <3> QED
      BY <2>1, <2>2, <2>4, <3>1, LikeInvLikes
  <2> QED
    BY <2>1, <2>3, <2>4
<1>4. CASE DeleteLike(p)
  <2>1. /\ Moved(p) /\ pc[p] = "deleteLike" /\ photos' = photos
        /\ likes' = likes \ {<<req[p].user, req[p].id>>} /\ pc'[p] = "countUnlike" /\ req'[p] = req[p]
    BY <1>4, DeleteLikeIt
  <2>2. req[p].kind \in {"like", "unlike"}
    BY <2>1 DEF Handling, Stands
  <2> QED
    BY <2>1, <2>2, LikeInvLikes
<1>5. CASE CountUp(p)
  <2>1. Moved(p) /\ IsOver(p) /\ likes' = likes /\ Recount(req[p].id, 1) /\ pc[p] = "countLike"
    BY <1>5, CountUpIt
  <2>2. PICK d : d = 1 /\ Recount(req[p].id, d)
    BY <2>1
  <2>3. (pc[p] = "countLike" /\ d = 1) \/ (pc[p] = "countUnlike" /\ d = -1)
    BY <2>1, <2>2
  <2> QED
    BY <2>1, <2>2, <2>3, LikeInvCount
<1>6. CASE CountDown(p)
  <2>1. Moved(p) /\ IsOver(p) /\ likes' = likes /\ Recount(req[p].id, -1) /\ pc[p] = "countUnlike"
    BY <1>6, CountDownIt
  <2>2. PICK d : d = -1 /\ Recount(req[p].id, d)
    BY <2>1
  <2>3. (pc[p] = "countLike" /\ d = 1) \/ (pc[p] = "countUnlike" /\ d = -1)
    BY <2>1, <2>2
  <2> QED
    BY <2>1, <2>2, <2>3, LikeInvCount
<1>7. CASE InsertPhoto(p)
  BY <1>7, LikeInvInsertPhoto
<1>8. CASE DeletePhoto(p)
  BY <1>8, LikeInvDeletePhoto
<1> QED
  BY <1>1, <1>2, <1>3, <1>4, <1>5, <1>6, <1>7, <1>8

\* Every step keeps LikeInv.
LEMMA LikeInvNext == LikeInv /\ AccountInv /\ Handling /\ Handling' /\ [Next]_vars => LikeInv'
<1> SUFFICES ASSUME LikeInv, AccountInv, Handling, Handling', [Next]_vars PROVE LikeInv'
  OBVIOUS
<1>1. ASSUME Aside(AccountKinds), photos' = photos, likes' = likes PROVE LikeInv'
  <2>1. met \subseteq met' /\ \A q \in Slots : req'[q].kind \in AccountKinds => pc'[q] = pc[q] /\ req'[q] = req[q]
    BY <1>1 DEF Aside
  <2>2. {"uploadPhoto", "uploadPicture", "like", "unlike", "deletePhoto"} \subseteq AccountKinds
    BY DEF AccountKinds
  <2>3. Naming'
    BY <1>1, <2>1, <2>2 DEF LikeInv, Naming
  <2>4. \A q \in Slots : pc'[q] \in {"deleteLike", "countLike", "countUnlike"} => pc'[q] = pc[q] /\ req'[q] = req[q]
    BY <2>1, <2>2 DEF Handling, Stands
  <2>5. \A q \in Slots : pc[q] \in {"countLike", "countUnlike"} => pc'[q] = pc[q] /\ req'[q] = req[q]
    BY <1>1, <2>2 DEF Aside, Handling, Stands
  <2>6. ASSUME met' \intersect {"likes", "fault"} = {} PROVE Liking'
    <3>1. Liking
      BY <2>1, <2>6 DEF LikeInv
    <3>2. ASSUME NEW a \in Slots, NEW b \in Slots, a # b, req'[a].kind = "unlike" PROVE req'[a] # req'[b]
      <4> SUFFICES ASSUME req'[a] = req'[b] PROVE FALSE
        OBVIOUS
      <4>1. req'[a] = req[a] /\ req'[b] = req[b]
        BY <2>1, <2>2, <3>2
      <4> QED
        BY <3>1, <3>2, <4>1 DEF Liking
    <3>3. ASSUME NEW q \in Slots, pc'[q] = "deleteLike", photos'[req'[q].id].there
          PROVE  <<req'[q].user, req'[q].id>> \in likes'
      BY <1>1, <2>4, <3>1, <3>3 DEF Liking
    <3>4. ASSUME NEW i \in DOMAIN photos', photos'[i].there PROVE Exact(pc', req', photos', likes', i)
      <4>1. Exact(pc, req, photos, likes, i)
        BY <1>1, <3>1, <3>4 DEF Liking
      <4>2. Between(pc', req', i, "countLike") = Between(pc, req, i, "countLike")
        BY <2>4, <2>5 DEF Between
      <4>3. Between(pc', req', i, "countUnlike") = Between(pc, req, i, "countUnlike")
        BY <2>4, <2>5 DEF Between
      <4> QED
        BY <1>1, <4>1, <4>2, <4>3 DEF Exact
    <3> QED
      BY <3>2, <3>3, <3>4 DEF Liking
  <2> QED
    BY <1>1, <2>3, <2>6 DEF LikeInv
<1>2. ASSUME NEW p \in Slots, AccountFails(p) PROVE LikeInv'
  <2>1. /\ Only(p) /\ IsOver(p) /\ met' = met \union {"fault"} /\ photos' = photos /\ likes' = likes
    BY <1>2, AccountFailsIt DEF accountTables
  <2>2. \A q \in Slots : req'[q] = req[q] \/ req'[q].kind = "none"
    BY <2>1, NoReqIs DEF Only, IsOver
  <2>3. Naming'
    BY <2>1, <2>2 DEF LikeInv, Naming
  <2> QED
    BY <2>1, <2>3 DEF LikeInv
<1>3. CASE AccountsNext
  <2>1. \E p \in Slots : Endpoint(p) \/ Handle(p) \/ AccountFails(p)
    BY <1>3 DEF AccountsNext, Endpoint, Handle
  <2> QED
    BY <1>2, <2>1, LikeInvBegins, LikeInvHandles
<1>4. CASE StoriesNext /\ UNCHANGED accountVars
  <2>1. Aside(AccountKinds \union {"ask"})
    BY <1>4, StoriesMove
  <2>2. Aside(AccountKinds)
    BY <2>1 DEF Aside
  <2> QED
    BY <1>1, <1>4, <2>2 DEF accountVars, accountTables
<1>5. CASE GrokNext /\ UNCHANGED accountVars
  <2>1. Aside(AccountKinds \union StoryKinds)
    BY <1>5, GrokMoves
  <2>2. Aside(AccountKinds)
    BY <2>1 DEF Aside
  <2> QED
    BY <1>1, <1>5, <2>2 DEF accountVars, accountTables
<1>6. CASE Restart
  <2>1. /\ photos' = photos /\ likes' = likes /\ "fault" \in met' /\ \A q \in Slots : req'[q].kind = "none"
    BY <1>6, RestartIs, NoReqIs DEF accountTables
  <2> QED
    BY <2>1 DEF LikeInv, Naming
<1>7. CASE UNCHANGED vars
  <2>1. UNCHANGED <<pc, req, met, photos, likes>>
    BY <1>7 DEF vars, accountVars, accountTables, handlerVars
  <2>2. Aside(AccountKinds)
    BY <2>1 DEF Aside
  <2> QED
    BY <1>1, <2>1, <2>2
<1> QED
  BY <1>3, <1>4, <1>5, <1>6, <1>7 DEF Next

\* The count of likes of a photo is the number of its likes whenever no request is
\* between the two statements of one, unless a query fails or the server restarts
\* there, or two unlikes by a user overlap (likePhoto, unlikePhoto).
THEOREM LikeCountsExact == Spec => []CalmLikesExact
<1> DEFINE I == AccountInv /\ LikeInv
<1>1. Init => I
  BY AccountInvInit, LikeInvInit
<1>2. I /\ Handling /\ Handling' /\ [Next]_vars => I'
  BY AccountInvNext, LikeInvNext
<1>3. I => CalmLikesExact
  BY DEF LikeInv, Liking, Exact, Between, LikesOf, CalmLikesExact
<1> QED
  BY <1>1, <1>2, <1>3, HandlingKept, PTL DEF Spec
-----------------------------------------------------------------------------
(* What Grok remembers.                                                    *)

\* The sequence s is the end of t: IsSuffix, without the reversed sequences.
Ending(s, t) ==
  /\ Len(s) <= Len(t)
  /\ \A i \in 1..Len(s) : s[i] = t[Len(t) - Len(s) + i]

\* Ending is IsSuffix of the library.
LEMMA EndingIsSuffix ==
  ASSUME NEW E, NEW s \in Seq(E), NEW t \in Seq(E), Ending(s, t)
  PROVE  IsSuffix(s, t)
<1> DEFINE m == Len(s)
           n == Len(t)
           rs == Reverse(s)
           rt == Reverse(t)
<1>1. m \in Nat /\ n \in Nat /\ m <= n /\ DOMAIN s = 1..m /\ DOMAIN t = 1..n
  BY LenProperties DEF Ending
<1>2. rs \in Seq(E) /\ Len(rs) = m /\ \A i \in 1..m : rs[i] = s[m - i + 1]
  <2>1. \A i \in 1..m : s[m - i + 1] \in E
    BY <1>1, ElementOfSeq
  <2>2. rs = [i \in 1..m |-> s[m - i + 1]]
    BY DEF Reverse
  <2>3. rs \in Seq(E)
    BY <1>1, <2>1, <2>2, IsASeq
  <2>4. DOMAIN rs = 1..m
    BY <2>2
  <2> QED
    BY <1>1, <2>2, <2>3, <2>4, LenProperties
<1>3. rt \in Seq(E) /\ Len(rt) = n /\ \A i \in 1..n : rt[i] = t[n - i + 1]
  <2>1. \A i \in 1..n : t[n - i + 1] \in E
    BY <1>1, ElementOfSeq
  <2>2. rt = [i \in 1..n |-> t[n - i + 1]]
    BY DEF Reverse
  <2>3. rt \in Seq(E)
    BY <1>1, <2>1, <2>2, IsASeq
  <2>4. DOMAIN rt = 1..n
    BY <2>2
  <2> QED
    BY <1>1, <2>2, <2>3, <2>4, LenProperties
<1>4. \A i \in 1..m : rs[i] = rt[i]
  <2> SUFFICES ASSUME NEW i \in 1..m PROVE rs[i] = rt[i]
    OBVIOUS
  <2> DEFINE j == m - i + 1
  <2>1. j \in 1..m /\ n - m + j = n - i + 1 /\ i \in 1..n
    BY <1>1
  <2>2. s[j] = t[n - m + j]
    BY <2>1 DEF Ending
  <2> QED
    BY <1>2, <1>3, <2>1, <2>2
<1>5. SubSeq(rs, 1, m) = SubSeq(rt, 1, m)
  <2> HIDE DEF m, n, rs, rt
  <2>1. /\ SubSeq(rs, 1, m) \in Seq(E) /\ Len(SubSeq(rs, 1, m)) = m
        /\ \A i \in 1..m : SubSeq(rs, 1, m)[i] = rs[i]
    BY <1>1, <1>2, SubSeqFull
  <2>2. /\ SubSeq(rt, 1, m) \in Seq(E) /\ Len(SubSeq(rt, 1, m)) = m
        /\ \A i \in 1..m : SubSeq(rt, 1, m)[i] = rt[i]
    <3>1. 1 \in 1..n+1 /\ m \in 0..n
      BY <1>1
    <3>2. /\ SubSeq(rt, 1, m) \in Seq(E)
          /\ Len(SubSeq(rt, 1, m)) = IF 1 <= m THEN m - 1 + 1 ELSE 0
          /\ \A i \in 1..m-1+1 : SubSeq(rt, 1, m)[i] = rt[1 + i - 1]
      BY <1>3, <3>1, SubSeqProperties
    <3>3. m - 1 + 1 = m /\ (1 <= m \/ m = 0) /\ \A i \in 1..m : 1 + i - 1 = i
      BY <1>1
    <3> QED
      BY <3>2, <3>3
  <2> QED
    BY <1>4, <2>1, <2>2, SeqEqual
<1> QED
  BY <1>1, <1>2, <1>3, <1>5 DEF IsSuffix, IsPrefix

\* An end stays one when both are told the same.
LEMMA EndingAppend ==
  ASSUME NEW E, NEW s \in Seq(E), NEW t \in Seq(E), NEW e \in E, Ending(s, t)
  PROVE  Ending(Append(s, e), Append(t, e))
<1>1. Len(s) \in Nat /\ Len(t) \in Nat /\ Len(s) <= Len(t)
  BY LenProperties DEF Ending
<1>2. /\ Len(Append(s, e)) = Len(s) + 1 /\ \A i \in 1..Len(s) : Append(s, e)[i] = s[i]
      /\ Append(s, e)[Len(s) + 1] = e
  BY AppendProperties
<1>3. /\ Len(Append(t, e)) = Len(t) + 1 /\ \A i \in 1..Len(t) : Append(t, e)[i] = t[i]
      /\ Append(t, e)[Len(t) + 1] = e
  BY AppendProperties
<1>4. ASSUME NEW i \in 1..(Len(s) + 1) PROVE Append(s, e)[i] = Append(t, e)[Len(t) + 1 - (Len(s) + 1) + i]
  <2>1. CASE i \in 1..Len(s)
    <3>1. s[i] = t[Len(t) - Len(s) + i]
      BY <2>1 DEF Ending
    <3>2. Len(t) + 1 - (Len(s) + 1) + i = Len(t) - Len(s) + i /\ Len(t) - Len(s) + i \in 1..Len(t)
      BY <1>1, <2>1
    <3> QED
      BY <1>2, <1>3, <2>1, <3>1, <3>2
  <2>2. CASE i = Len(s) + 1
    <3>1. Len(t) + 1 - (Len(s) + 1) + i = Len(t) + 1
      BY <1>1, <2>2
    <3> QED
      BY <1>2, <1>3, <2>2, <3>1
  <2> QED
    BY <1>1, <1>4, <2>1, <2>2
<1> QED
  BY <1>1, <1>2, <1>3, <1>4 DEF Ending

\* An end that is cut is still one.
LEMMA EndingRecent ==
  ASSUME NEW E, NEW s \in Seq(E), NEW t \in Seq(E), Ending(s, t), Len(s) > Remembered
  PROVE  Recent(s) \in Seq(E) /\ Len(Recent(s)) = Remembered /\ Ending(Recent(s), t)
<1> DEFINE k == Remembered
           m == Len(s) - k + 1
<1>1. k \in Nat \ {0} /\ Len(s) \in Nat /\ Len(t) \in Nat /\ Len(s) <= Len(t)
  BY LenProperties, GrokAssumption DEF Ending
<1>2. m \in 1..Len(s)+1 /\ m <= Len(s) /\ Len(s) \in m-1..Len(s) /\ Len(s) - m + 1 = k
  BY <1>1
<1>3. Recent(s) = SubSeq(s, m, Len(s))
  BY DEF Recent
<1> HIDE DEF k, m
<1>4. /\ SubSeq(s, m, Len(s)) \in Seq(E)
      /\ Len(SubSeq(s, m, Len(s))) = k
      /\ \A i \in 1..k : SubSeq(s, m, Len(s))[i] = s[m + i - 1]
  BY <1>2, SubSeqProperties
<1>5. ASSUME NEW i \in 1..k PROVE SubSeq(s, m, Len(s))[i] = t[Len(t) - k + i]
  <2>1. m + i - 1 \in 1..Len(s) /\ Len(t) - Len(s) + (m + i - 1) = Len(t) - k + i
    BY <1>1, <1>2
  <2>2. s[m + i - 1] = t[Len(t) - Len(s) + (m + i - 1)]
    BY <2>1 DEF Ending
  <2> QED
    BY <1>4, <2>1, <2>2
<1>6. k <= Len(t)
  BY <1>1, <1>2
<1> QED
  BY <1>3, <1>4, <1>5, <1>6 DEF Ending, k

\* What an array known of a talk must be.
Agrees(known, said) == Ending(known, said) /\ (Len(known) < Remembered => known = said)

\* A message of a context, and the array a user has.
Entry == [role : {"user", "assistant"}, nr : Nat]
\* The messages kept for a user.
Known(as, cs, u) == IF cs[u] = 0 THEN <<>> ELSE as[cs[u]]

\* Each user has an array of their own; unless a context was cut at a bad
\* moment, every call under way holds on to its user's array, and that array is
\* the end of the talk.
GrokInv ==
  /\ sent \in Nat
  /\ arrays \in Seq(Seq(Entry))
  /\ conversations = [u \in Askers |-> conversations[u]]
  /\ talk = [u \in Askers |-> talk[u]]
  /\ asking = [p \in Slots |-> asking[p]]
  /\ \A u \in Askers : talk[u] \in Seq(Entry) /\ conversations[u] \in 0..Len(arrays)
  /\ \A u, v \in Askers : u # v /\ conversations[u] # 0 => conversations[u] # conversations[v]
  /\ \A p \in Slots : req[p].kind = "ask" =>
       /\ req[p].user \in Askers /\ conversations[req[p].user] # 0
       /\ asking[p].array \in 1..Len(arrays) /\ asking[p].question \in Nat
  /\ "context" \notin met =>
       /\ \A p \in Slots : req[p].kind = "ask" => asking[p].array = conversations[req[p].user]
       /\ \A u \in Askers : Agrees(Known(arrays, conversations, u), talk[u])

\* Nothing is known of a talk that has not begun.
LEMMA EmptyAgrees == ASSUME NEW s, s = <<>> PROVE Agrees(s, <<>>)
BY DEF Agrees, Ending

\* Nobody has talked yet.
LEMMA GrokInvInit == ASSUME Init PROVE GrokInv
<1>1. /\ sent = 0 /\ arrays = <<>> /\ conversations = [u \in Askers |-> 0] /\ talk = [u \in Askers |-> <<>>]
      /\ asking = [p \in Slots |-> NoCall] /\ \A p \in Slots : req[p].kind = "none"
  BY NoReqIs DEF Init, HandlersInit, GrokInit
<1>2. <<>> \in Seq(Entry) /\ arrays \in Seq(Seq(Entry)) /\ Len(arrays) = 0
  BY <1>1
<1>3. \A u \in Askers : Agrees(Known(arrays, conversations, u), talk[u])
  BY <1>1, EmptyAgrees DEF Known
<1> QED
  BY <1>1, <1>2, <1>3 DEF GrokInv

\* The users' arrays are as they were, and no call begins.
LEMMA GrokInvStays ==
  ASSUME GrokInv, grokVars' = grokVars, sent' \in Nat, met \subseteq met',
         \A p \in Slots : req'[p].kind = "ask" => req[p].kind = "ask" /\ req'[p].user = req[p].user
  PROVE  GrokInv'
<1>1. arrays' = arrays /\ conversations' = conversations /\ asking' = asking /\ talk' = talk
  BY DEF grokVars
<1> QED
  BY <1>1 DEF GrokInv, Known

\* Something is said in a user's talk: it is the last entry of array c, which
\* is the user's then.
Says(u, c, e) ==
  /\ sent' \in Nat /\ met \subseteq met'
  /\ arrays' \in Seq(Seq(Entry)) /\ Len(arrays) <= Len(arrays') /\ c \in 1..Len(arrays')
  /\ \A v \in Askers : v # u => conversations[v] # c
  /\ conversations' = [conversations EXCEPT ![u] = c]
  /\ talk' = [talk EXCEPT ![u] = Append(talk[u], e)]
  /\ asking' = [p \in Slots |-> asking'[p]]
  /\ \A p \in Slots : req'[p].kind = "ask" =>
       \/ req[p].kind = "ask" /\ req'[p].user = req[p].user /\ asking'[p] = asking[p]
       \/ req'[p].user = u /\ asking'[p].array = c /\ asking'[p].question \in Nat
  /\ "context" \notin met' =>
       /\ Agrees(arrays'[c], Append(talk[u], e))
       /\ \A v \in Askers : v # u /\ conversations[v] # 0 => arrays'[conversations[v]] = arrays[conversations[v]]
       /\ \A p \in Slots : req'[p].kind = "ask" /\ req'[p].user = u => asking'[p].array = c

\* What is said is the last of the talk and of the array.
LEMMA GrokInvSays ==
  ASSUME GrokInv, NEW u \in Askers, NEW c, NEW e \in Entry, Says(u, c, e)
  PROVE  GrokInv'
<1>1. /\ conversations'[u] = c /\ \A v \in Askers : v # u => conversations'[v] = conversations[v]
      /\ conversations' = [v \in Askers |-> conversations'[v]]
  BY DEF GrokInv, Says
<1>2. /\ talk'[u] = Append(talk[u], e) /\ \A v \in Askers : v # u => talk'[v] = talk[v]
      /\ talk' = [v \in Askers |-> talk'[v]]
  BY DEF GrokInv, Says
<1>3. Append(talk[u], e) \in Seq(Entry)
  BY AppendProperties DEF GrokInv, Says
<1>4. Len(arrays) \in Nat /\ Len(arrays') \in Nat
  BY LenProperties DEF GrokInv, Says
<1>5. \A v \in Askers : talk'[v] \in Seq(Entry) /\ conversations'[v] \in 0..Len(arrays')
  BY <1>1, <1>2, <1>3, <1>4, SMTT(40) DEF GrokInv, Says
<1>6. \A v, w \in Askers : v # w /\ conversations'[v] # 0 => conversations'[v] # conversations'[w]
  BY <1>1 DEF GrokInv, Says
<1>7. ASSUME NEW p \in Slots, req'[p].kind = "ask"
      PROVE  /\ req'[p].user \in Askers /\ conversations'[req'[p].user] # 0
             /\ asking'[p].array \in 1..Len(arrays') /\ asking'[p].question \in Nat
  <2>1. CASE req[p].kind = "ask" /\ req'[p].user = req[p].user /\ asking'[p] = asking[p]
    <3>1. /\ req[p].user \in Askers /\ conversations[req[p].user] # 0
          /\ asking[p].array \in 1..Len(arrays) /\ asking[p].question \in Nat
      BY <2>1 DEF GrokInv
    <3>2. conversations'[req[p].user] # 0
      BY <1>1, <3>1 DEF Says
    <3>3. asking[p].array \in 1..Len(arrays')
      BY <1>4, <3>1 DEF Says
    <3> QED
      BY <2>1, <3>1, <3>2, <3>3
  <2>2. CASE req'[p].user = u /\ asking'[p].array = c /\ asking'[p].question \in Nat
    BY <1>1, <1>4, <2>2 DEF Says
  <2> QED
    BY <1>7, <2>1, <2>2 DEF Says
<1>8. ASSUME "context" \notin met', NEW p \in Slots, req'[p].kind = "ask"
      PROVE  asking'[p].array = conversations'[req'[p].user]
  <2>1. CASE req'[p].user = u
    BY <1>1, <1>8, <2>1 DEF Says
  <2>2. CASE req'[p].user # u
    <3>1. req[p].kind = "ask" /\ req'[p].user = req[p].user /\ asking'[p] = asking[p]
      BY <1>8, <2>2 DEF Says
    <3>2. asking[p].array = conversations[req[p].user] /\ req[p].user \in Askers
      BY <1>8, <3>1 DEF GrokInv, Says
    <3> QED
      BY <1>1, <2>2, <3>1, <3>2 DEF Says
  <2> QED
    BY <2>1, <2>2 DEF Says
<1>9. ASSUME "context" \notin met', NEW v \in Askers PROVE Agrees(Known(arrays', conversations', v), talk'[v])
  <2>1. CASE v = u
    <3>1. Known(arrays', conversations', v) = arrays'[c]
      BY <1>1, <2>1, <1>4 DEF Known, Says
    <3> QED
      BY <1>2, <1>9, <2>1, <3>1 DEF Says
  <2>2. CASE v # u
    <3>1. Known(arrays', conversations', v) = Known(arrays, conversations, v)
      BY <1>1, <1>9, <2>2 DEF Known, Says
    <3>2. Agrees(Known(arrays, conversations, v), talk[v])
      BY <1>9 DEF GrokInv, Says
    <3> QED
      BY <1>2, <2>2, <3>1, <3>2 DEF Says
  <2> QED
    BY <2>1, <2>2 DEF Says
<1> QED
  BY <1>1, <1>2, <1>5, <1>6, <1>7, <1>8, <1>9 DEF GrokInv, Says

\* A user asks: the question is the last entry of the user's array.
LEMMA GrokInvAsk ==
  ASSUME GrokInv, Handling, NEW p \in Slots, Ask(p)
  PROVE  GrokInv'
<1>1. PICK u \in Askers :
        LET context == GetConversationContext(u)
        IN  /\ Start(p, "fetch", [NoReq EXCEPT !.kind = "ask", !.user = u], {})
            /\ arrays' = [context.all EXCEPT ![context.array] = Append(context.all[context.array], Question(sent + 1))]
            /\ conversations' = [conversations EXCEPT ![u] = context.array]
            /\ asking' = [asking EXCEPT ![p] = [array |-> context.array, question |-> sent + 1]]
            /\ talk' = [talk EXCEPT ![u] = Append(talk[u], Question(sent + 1))]
  BY DEF Ask, GrokInv
<1>0. PICK c, all, e : /\ c = GetConversationContext(u).array /\ all = GetConversationContext(u).all
                       /\ e = Question(sent + 1)
  OBVIOUS
<1> DEFINE r == [NoReq EXCEPT !.kind = "ask", !.user = u]
<1>2. /\ r.kind = "ask" /\ r.user = u /\ e \in Entry /\ sent' = sent + 1 /\ sent \in Nat /\ met' = met
      /\ Only(p) /\ req'[p] = r
  <2>1. sent \in Nat
    BY DEF GrokInv
  <2>2. Start(p, "fetch", r, {})
    BY <1>1
  <2>3. sent' = sent + 1 /\ met' = met /\ Only(p) /\ req'[p] = r
    BY <2>2, StartIs
  <2> QED
    BY <1>0, <2>1, <2>3 DEF NoReq, Question, Entry
<1>3. Len(arrays) \in Nat /\ conversations[u] \in 0..Len(arrays) /\ <<>> \in Seq(Entry) /\ arrays \in Seq(Seq(Entry))
  BY LenProperties DEF GrokInv
<1>4. /\ c = (IF conversations[u] = 0 THEN Len(arrays) + 1 ELSE conversations[u])
      /\ all = (IF conversations[u] = 0 THEN Append(arrays, <<>>) ELSE arrays)
  BY <1>0 DEF GetConversationContext
<1>5. /\ all \in Seq(Seq(Entry)) /\ Len(arrays) <= Len(all) /\ Len(all) \in Nat /\ c \in 1..Len(all)
      /\ all[c] = Known(arrays, conversations, u)
      /\ \A i \in 1..Len(arrays) : all[i] = arrays[i]
  <2>1. CASE conversations[u] = 0
    <3>1. /\ Append(arrays, <<>>) \in Seq(Seq(Entry)) /\ Len(Append(arrays, <<>>)) = Len(arrays) + 1
          /\ \A i \in 1..Len(arrays) : Append(arrays, <<>>)[i] = arrays[i]
          /\ Append(arrays, <<>>)[Len(arrays) + 1] = <<>>
      BY <1>3, AppendProperties
    <3> QED
      BY <1>3, <1>4, <2>1, <3>1 DEF Known
  <2>2. CASE conversations[u] # 0
    BY <1>3, <1>4, <2>2 DEF Known
  <2> QED
    BY <2>1, <2>2
<1>6. /\ arrays' = [all EXCEPT ![c] = Append(all[c], e)]
      /\ conversations' = [conversations EXCEPT ![u] = c] /\ talk' = [talk EXCEPT ![u] = Append(talk[u], e)]
      /\ asking' = [asking EXCEPT ![p] = [array |-> c, question |-> sent + 1]]
  BY <1>0, <1>1
<1> HIDE DEF r
<1>7. \A v \in Askers : v # u => conversations[v] # c
  BY <1>3, <1>4 DEF GrokInv
<1>8. all[c] \in Seq(Entry) /\ DOMAIN all = 1..Len(all)
  BY <1>5, ElementOfSeq, LenProperties
<1>9. Append(all[c], e) \in Seq(Entry)
  BY <1>2, <1>8, AppendProperties
<1>10. /\ arrays' \in Seq(Seq(Entry)) /\ Len(arrays') = Len(all) /\ arrays'[c] = Append(all[c], e)
       /\ \A i \in 1..Len(all) : i # c => arrays'[i] = all[i]
  <2>1. DOMAIN arrays' = 1..Len(all) /\ arrays'[c] = Append(all[c], e) /\ \A i \in 1..Len(all) : i # c => arrays'[i] = all[i]
    BY <1>5, <1>6, <1>8
  <2>2. \A i \in 1..Len(all) : arrays'[i] \in Seq(Entry)
    BY <1>5, <1>8, <1>9, <2>1, ElementOfSeq
  <2>3. arrays' = [i \in 1..Len(all) |-> arrays'[i]]
    BY <1>6, <1>8
  <2>4. arrays' \in Seq(Seq(Entry))
    <3>1. PICK w : w = arrays'
      OBVIOUS
    <3>2. w = [i \in 1..Len(all) |-> w[i]] /\ \A i \in 1..Len(all) : w[i] \in Seq(Entry)
      BY <2>2, <2>3, <3>1
    <3>3. Len(all) \in Nat
      BY <1>5
    <3>4. w \in Seq(Seq(Entry))
      BY <3>2, <3>3, IsASeq
    <3> QED
      BY <3>1, <3>4
  <2>5. Len(arrays') = Len(all)
    BY <1>5, <2>1, <2>4, LenProperties
  <2> QED
    BY <2>1, <2>4, <2>5
<1>11. asking' = [q \in Slots |-> asking'[q]]
       /\ asking'[p].array = c /\ asking'[p].question = sent + 1
       /\ \A q \in Slots : q # p => asking'[q] = asking[q]
  BY <1>6 DEF GrokInv
<1>12. \A q \in Slots : req'[q].kind = "ask" =>
           \/ req[q].kind = "ask" /\ req'[q].user = req[q].user /\ asking'[q] = asking[q]
           \/ req'[q].user = u /\ asking'[q].array = c /\ asking'[q].question \in Nat
  BY <1>2, <1>11 DEF Only
<1>13. ASSUME "context" \notin met'
       PROVE  /\ Agrees(arrays'[c], Append(talk[u], e))
              /\ \A v \in Askers : v # u /\ conversations[v] # 0 => arrays'[conversations[v]] = arrays[conversations[v]]
              /\ \A q \in Slots : req'[q].kind = "ask" /\ req'[q].user = u => asking'[q].array = c
  <2>1. Agrees(all[c], talk[u]) /\ talk[u] \in Seq(Entry)
    BY <1>2, <1>5, <1>13 DEF GrokInv
  <2>2. Agrees(Append(all[c], e), Append(talk[u], e))
    <3>1. Ending(Append(all[c], e), Append(talk[u], e))
      BY <1>2, <1>8, <2>1, EndingAppend DEF Agrees
    <3>2. Len(Append(all[c], e)) = Len(all[c]) + 1 /\ Len(all[c]) \in Nat
      BY <1>2, <1>8, AppendProperties, LenProperties
    <3>3. Len(Append(all[c], e)) < Remembered => all[c] = talk[u]
      BY <2>1, <3>2, GrokAssumption DEF Agrees
    <3> QED
      BY <3>1, <3>3 DEF Agrees
  <2>3. ASSUME NEW v \in Askers, v # u, conversations[v] # 0 PROVE arrays'[conversations[v]] = arrays[conversations[v]]
    <3>1. conversations[v] \in 1..Len(arrays) /\ conversations[v] # c
      BY <1>3, <1>7, <2>3 DEF GrokInv
    <3>2. PICK k : k = conversations[v]
      OBVIOUS
    <3>3. k \in 1..Len(arrays) /\ k \in 1..Len(all) /\ k # c
      BY <1>3, <1>5, <3>1, <3>2
    <3>4. all[k] = arrays[k] /\ arrays'[k] = all[k]
      BY <1>5, <1>10, <3>3
    <3> QED
      BY <3>2, <3>4
  <2>4. ASSUME NEW q \in Slots, req'[q].kind = "ask", req'[q].user = u PROVE asking'[q].array = c
    <3>1. CASE q = p
      BY <1>11, <3>1
    <3>2. CASE q # p
      <4>1. req[q].kind = "ask" /\ req[q].user = u /\ asking'[q] = asking[q]
        BY <1>2, <1>11, <2>4, <3>2 DEF Only
      <4>2. asking[q].array = conversations[u] /\ asking[q].array \in 1..Len(arrays)
        BY <1>2, <1>13, <4>1 DEF GrokInv
      <4> QED
        BY <1>3, <1>4, <4>1, <4>2
    <3> QED
      BY <3>1, <3>2
  <2> QED
    BY <1>10, <2>2, <2>3, <2>4
<1>14. sent' \in Nat /\ Len(arrays) <= Len(arrays') /\ c \in 1..Len(arrays') /\ e \in Entry /\ met \subseteq met'
  BY <1>2, <1>5, <1>10
<1> QED
  <2>1. Says(u, c, e)
    BY <1>6, <1>7, <1>10, <1>11, <1>12, <1>13, <1>14 DEF Says
  <2> QED
    BY <1>14, <2>1, GrokInvSays

\* Grok answers: the answer is the last entry of the array the call holds on
\* to, and when the array is cut, of its end.
LEMMA GrokInvAnswered ==
  ASSUME GrokInv, Handling, NEW p \in Slots, Answered(p)
  PROVE  GrokInv'
<1>0. PICK u, a, e : u = req[p].user /\ a = asking[p].array /\ e = Answer(asking[p].question)
  OBVIOUS
<1>a. PICK longer : longer = Append(arrays[a], e)
  OBVIOUS
<1>b. PICK put : put = [arrays EXCEPT ![a] = longer]
  OBVIOUS
<1>c. PICK c : c = IF Len(longer) > Remembered THEN Len(arrays) + 1 ELSE conversations[u]
  OBVIOUS
<1> DEFINE cut == Len(longer) > Remembered
           others == {q \in Slots \ {p} : req[q].kind = "ask" /\ req[q].user = u}
<1>1. /\ pc[p] = "fetch" /\ Finish(p) /\ Forgets(p)
      /\ arrays' = put \o (IF cut THEN <<Recent(longer)>> ELSE <<>>)
      /\ conversations' = (IF cut THEN [conversations EXCEPT ![u] = Len(arrays) + 1] ELSE conversations)
      /\ met' = IF cut /\ others # {} THEN met \union {"context"} ELSE met
  BY <1>0, <1>a, <1>b DEF Answered
<1>2. talk' = [talk EXCEPT ![u] = Append(talk[u], e)]
  BY <1>0 DEF Answered, GrokInv
<1>3. req[p].kind = "ask" /\ Only(p) /\ req'[p] = NoReq /\ sent' = sent
  BY <1>1, FinishIs DEF Handling, Stands
<1>4. /\ u \in Askers /\ a \in 1..Len(arrays) /\ asking[p].question \in Nat /\ Len(arrays) \in Nat
      /\ arrays \in Seq(Seq(Entry)) /\ conversations[u] \in 0..Len(arrays) /\ talk[u] \in Seq(Entry)
      /\ conversations = [v \in Askers |-> conversations[v]] /\ DOMAIN arrays = 1..Len(arrays)
  BY <1>0, <1>3, LenProperties DEF GrokInv
<1>5. e \in Entry
  BY <1>0, <1>4 DEF Answer, Entry
<1>6. arrays[a] \in Seq(Entry)
  BY <1>4, ElementOfSeq
<1>7. longer \in Seq(Entry) /\ Len(longer) = Len(arrays[a]) + 1 /\ Len(arrays[a]) \in Nat
  BY <1>5, <1>6, <1>a, AppendProperties, LenProperties
<1>8. /\ put \in Seq(Seq(Entry)) /\ Len(put) = Len(arrays) /\ put[a] = longer
      /\ \A i \in 1..Len(arrays) : i # a => put[i] = arrays[i]
  <2>1. DOMAIN put = 1..Len(arrays) /\ put[a] = longer /\ \A i \in 1..Len(arrays) : i # a => put[i] = arrays[i]
    BY <1>4, <1>b
  <2>2. \A i \in 1..Len(arrays) : put[i] \in Seq(Entry)
    BY <1>4, <1>7, <2>1, ElementOfSeq
  <2>3. put = [i \in 1..Len(arrays) |-> put[i]]
    BY <1>4, <1>b
  <2>4. put \in Seq(Seq(Entry))
    BY <1>4, <2>2, <2>3, IsASeq
  <2>5. Len(put) = Len(arrays)
    BY <1>4, <2>1, <2>4, LenProperties
  <2> QED
    BY <2>1, <2>4, <2>5
<1>9. asking' = [q \in Slots |-> asking'[q]] /\ \A q \in Slots : q # p => asking'[q] = asking[q]
  BY <1>1 DEF GrokInv, Forgets
<1>10. \A q \in Slots : req'[q].kind = "ask" =>
         q # p /\ req[q].kind = "ask" /\ req'[q].user = req[q].user /\ asking'[q] = asking[q]
  BY <1>3, <1>9, NoReqIs DEF Only
<1>11. sent' \in Nat /\ met \subseteq met'
  BY <1>1, <1>3 DEF GrokInv
<1>12. others = {q \in Slots \ {p} : req[q].kind = "ask" /\ req[q].user = u}
  OBVIOUS
<1> HIDE DEF others
<1>13. CASE cut
  <2>1. /\ Len(longer) > Remembered /\ c = Len(arrays) + 1 /\ arrays' = put \o <<Recent(longer)>>
        /\ conversations' = [conversations EXCEPT ![u] = c]
    BY <1>1, <1>13, <1>c
  <2> HIDE DEF cut
  <2>2. Recent(longer) \in Seq(Entry) /\ Len(Recent(longer)) = Remembered
    <3>1. Ending(longer, longer)
      BY <1>7, LenProperties DEF Ending
    <3> QED
      BY <1>7, <2>1, <3>1, EndingRecent
  <2>3. /\ arrays' = Append(put, Recent(longer))
        /\ arrays' \in Seq(Seq(Entry)) /\ Len(arrays') = Len(arrays) + 1
        /\ \A i \in 1..Len(arrays) : arrays'[i] = put[i]
        /\ arrays'[c] = Recent(longer)
    <3>1. arrays' = Append(put, Recent(longer))
      BY <1>8, <2>1, <2>2, AppendIsConcat
    <3>2. /\ Append(put, Recent(longer)) \in Seq(Seq(Entry)) /\ Len(Append(put, Recent(longer))) = Len(put) + 1
          /\ \A i \in 1..Len(put) : Append(put, Recent(longer))[i] = put[i]
          /\ Append(put, Recent(longer))[Len(put) + 1] = Recent(longer)
      BY <1>8, <2>2, AppendProperties
    <3> QED
      BY <1>8, <2>1, <3>1, <3>2
  <2>4. \A v \in Askers : v # u => conversations[v] # c
    BY <1>4, <2>1 DEF GrokInv
  <2>5. ASSUME "context" \notin met'
        PROVE  /\ Agrees(arrays'[c], Append(talk[u], e))
               /\ \A v \in Askers : v # u /\ conversations[v] # 0 => arrays'[conversations[v]] = arrays[conversations[v]]
               /\ \A q \in Slots : req'[q].kind = "ask" /\ req'[q].user = u => asking'[q].array = c
    <3>1. others = {} /\ "context" \notin met
      BY <1>1, <1>13, <2>5
    <3>2. a = conversations[u] /\ Agrees(Known(arrays, conversations, u), talk[u])
      BY <1>0, <1>3, <1>4, <3>1 DEF GrokInv
    <3>3. Agrees(arrays[a], talk[u])
      BY <1>4, <3>2 DEF Known
    <3>4. Ending(longer, Append(talk[u], e)) /\ Append(talk[u], e) \in Seq(Entry)
      BY <1>4, <1>5, <1>6, <3>3, <1>a, EndingAppend, AppendProperties DEF Agrees
    <3>5. Ending(Recent(longer), Append(talk[u], e))
      BY <1>7, <2>1, <3>4, EndingRecent
    <3>6. Agrees(arrays'[c], Append(talk[u], e))
      BY <2>2, <2>3, <3>5, GrokAssumption DEF Agrees
    <3>7. ASSUME NEW v \in Askers, v # u, conversations[v] # 0 PROVE arrays'[conversations[v]] = arrays[conversations[v]]
      <4>1. conversations[v] \in 1..Len(arrays) /\ conversations[v] # a
        BY <1>4, <3>2, <3>7 DEF GrokInv
      <4> QED
        BY <1>8, <2>3, <4>1
    <3>8. ASSUME NEW q \in Slots, req'[q].kind = "ask", req'[q].user = u PROVE FALSE
      BY <1>10, <1>12, <3>1, <3>8
    <3> QED
      BY <3>6, <3>7, <3>8
  <2>6. Len(arrays) <= Len(arrays') /\ c \in 1..Len(arrays')
    BY <1>4, <2>1, <2>3
  <2> QED
    <3>1. Says(u, c, e)
      BY <1>2, <1>9, <1>10, <1>11, <2>1, <2>3, <2>4, <2>5, <2>6 DEF Says
    <3> QED
      BY <1>4, <1>5, <3>1, GrokInvSays
<1>14. CASE ~cut
  <2>1. ~(Len(longer) > Remembered) /\ conversations' = conversations /\ arrays' = put /\ met' = met
    <3>1. arrays' = put \o <<>>
      BY <1>1, <1>14
    <3>2. put \o <<>> = put
      BY <1>8, ConcatEmptySeq
    <3> QED
      BY <1>1, <1>14, <3>1, <3>2
  <2> HIDE DEF cut
  <2>2. /\ conversations'[u] = conversations[u]
        /\ conversations' = [conversations EXCEPT ![u] = conversations[u]]
    BY <1>4, <2>1
  <2>3. conversations[u] # 0
    BY <1>0, <1>3 DEF GrokInv
  <2> QED
    <3>1. \A v \in Askers : v # u => conversations[v] # conversations[u]
      BY <1>4, <2>3 DEF GrokInv
    <3>2. ASSUME "context" \notin met'
          PROVE  /\ Agrees(arrays'[conversations[u]], Append(talk[u], e))
                 /\ \A v \in Askers : v # u /\ conversations[v] # 0 => arrays'[conversations[v]] = arrays[conversations[v]]
                 /\ \A q \in Slots : req'[q].kind = "ask" /\ req'[q].user = u => asking'[q].array = conversations[u]
      <4>1. a = conversations[u] /\ Agrees(Known(arrays, conversations, u), talk[u])
        BY <1>0, <1>3, <1>4, <2>1, <3>2 DEF GrokInv
      <4>2. Agrees(arrays[a], talk[u])
        BY <1>4, <4>1 DEF Known
      <4>3. Ending(longer, Append(talk[u], e))
        BY <1>4, <1>5, <1>6, <4>2, <1>a, EndingAppend DEF Agrees
      <4>4. Len(longer) < Remembered => longer = Append(talk[u], e)
        BY <1>7, <4>2, <1>a, GrokAssumption DEF Agrees
      <4>5. Agrees(arrays'[conversations[u]], Append(talk[u], e))
        BY <1>8, <2>1, <4>1, <4>3, <4>4 DEF Agrees
      <4>6. ASSUME NEW v \in Askers, v # u, conversations[v] # 0 PROVE arrays'[conversations[v]] = arrays[conversations[v]]
        <5>1. conversations[v] \in 1..Len(arrays) /\ conversations[v] # a
          BY <1>4, <3>1, <4>1, <4>6 DEF GrokInv
        <5> QED
          BY <1>8, <2>1, <5>1
      <4>7. ASSUME NEW q \in Slots, req'[q].kind = "ask", req'[q].user = u PROVE asking'[q].array = conversations[u]
        BY <1>10, <2>1, <3>2, <4>7 DEF GrokInv
      <4> QED
        BY <4>5, <4>6, <4>7
    <3>3. arrays' \in Seq(Seq(Entry)) /\ Len(arrays) <= Len(arrays') /\ conversations[u] \in 1..Len(arrays')
      BY <1>4, <1>8, <2>1, <2>3, SMTT(40)
    <3> QED
      <4>1. PICK k : k = conversations[u]
        OBVIOUS
      <4>2. Says(u, k, e)
        BY <1>2, <1>9, <1>10, <1>11, <2>2, <3>1, <3>2, <3>3, <4>1 DEF Says
      <4> QED
        BY <1>4, <1>5, <4>2, GrokInvSays
<1> QED
  BY <1>13, <1>14

\* A step takes at most one request.
LEMMA RequestsCounted ==
  ASSUME Handling, [Next]_vars
  PROVE  sent' = sent \/ sent' = sent + 1
<1> DEFINE Counted == sent' = sent \/ sent' = sent + 1
<1>1. CASE AccountsNext
  <2>1. ASSUME NEW p \in Slots, Endpoint(p) PROVE Counted
    <3>1. PICK at, r : Asks(p, at, r)
      BY <2>1, Endpoints
    <3> QED
      BY <3>1, AsksIs, StartIs
  <2>2. ASSUME NEW p \in Slots, Handle(p) PROVE Counted
    BY <2>2, HandlersMove DEF Moved
  <2>3. ASSUME NEW p \in Slots, AccountFails(p) PROVE Counted
    BY <2>3, AccountFailsIt
  <2>4. \E p \in Slots : Endpoint(p) \/ Handle(p) \/ AccountFails(p)
    BY <1>1 DEF AccountsNext, Endpoint, Handle
  <2> QED
    BY <2>1, <2>2, <2>3, <2>4
<1>2. CASE StoriesNext
  <2>1. ASSUME NEW p \in Slots, Upload(p) \/ DeleteStory(p) \/ Sweep(p) PROVE Counted
    BY <2>1 DEF Upload, DeleteStory, Sweep, Start
  <2>2. ASSUME NEW p \in Slots, StoryHandle(p) PROVE Counted
    <3>1. Finish(p) \/ \E at : Goto(p, at)
      BY <2>2 DEF StoryHandle, Write, Thumbnail, SaveStory, Undo, FindStory, FindExpired, Unlink, UnlinkThumbnail,
                  DeleteRow, StoryFails, Moves, Ends, NextDoomed
    <3> QED
      BY <3>1 DEF Finish, Goto
  <2>3. ASSUME NEW s, \/ Expires(s) \/ Compress(s) \/ Encoded(s) \/ Stat(s) \/ UnlinkOriginal(s) \/ UnlinkCompressed(s)
                      \/ Point(s) \/ Processed(s) \/ TaskFails(s)
        PROVE  Counted
    BY <2>3 DEF Expires, Compress, Encoded, Stat, UnlinkOriginal, UnlinkCompressed, Point, Processed, TaskFails, Task,
                handlerVars
  <2> QED
    BY <1>2, <2>1, <2>2, <2>3 DEF StoriesNext, StoryHandle
<1>3. CASE GrokNext
  <2>1. ASSUME NEW p \in Slots, Ask(p) PROVE Counted
    BY <2>1 DEF Ask, Start
  <2>2. ASSUME NEW p \in Slots, Answered(p) \/ Unanswered(p) PROVE Counted
    BY <2>2 DEF Answered, Unanswered, Finish
  <2> QED
    BY <1>3, <2>1, <2>2 DEF GrokNext
<1>4. CASE Restart
  BY <1>4 DEF Restart, Dropped
<1>5. CASE UNCHANGED vars
  BY <1>5 DEF vars, handlerVars
<1> QED
  BY <1>1, <1>2, <1>3, <1>4, <1>5 DEF Next

\* Every step keeps GrokInv.
LEMMA GrokInvNext ==
  ASSUME GrokInv, Handling, [Next]_vars
  PROVE  GrokInv'
<1>0. sent' \in Nat
  BY RequestsCounted DEF GrokInv
<1>1. CASE AccountsNext /\ UNCHANGED <<storyVars, grokVars>>
  <2>1. Aside(StoryKinds \union {"ask"})
    BY <1>1, AccountsMove
  <2>2. \A q \in Slots : req'[q].kind = "ask" => req[q] = req'[q]
    BY <2>1 DEF Aside
  <2>3. met \subseteq met'
    BY <2>1 DEF Aside
  <2> QED
    BY <1>0, <1>1, <2>2, <2>3, GrokInvStays
<1>2. CASE StoriesNext /\ UNCHANGED <<accountVars, grokVars>>
  <2>1. Aside(AccountKinds \union {"ask"})
    BY <1>2, StoriesMove
  <2>2. \A q \in Slots : req'[q].kind = "ask" => req[q] = req'[q]
    BY <2>1 DEF Aside
  <2>3. met \subseteq met'
    BY <2>1 DEF Aside
  <2> QED
    BY <1>0, <1>2, <2>2, <2>3, GrokInvStays
<1>3. ASSUME NEW p \in Slots, Unanswered(p) PROVE GrokInv'
  <2>1. Finish(p) /\ Forgets(p) /\ met \subseteq met' /\ UNCHANGED <<arrays, conversations, talk>>
    BY <1>3 DEF Unanswered, Fault
  <2>2. Only(p) /\ req'[p].kind = "none"
    BY <2>1, FinishIs, NoReqIs
  <2>3. asking' = [q \in Slots |-> asking'[q]] /\ \A q \in Slots : q # p => asking'[q] = asking[q]
    BY <2>1 DEF Forgets, GrokInv
  <2>4. \A q \in Slots : req'[q].kind = "ask" => req[q].kind = "ask" /\ req'[q] = req[q] /\ asking'[q] = asking[q]
    BY <2>2, <2>3 DEF Only
  <2>5. \A q \in Slots : req'[q].kind = "ask" =>
          /\ req'[q].user \in Askers /\ conversations'[req'[q].user] # 0
          /\ asking'[q].array \in 1..Len(arrays') /\ asking'[q].question \in Nat
    BY <2>1, <2>4 DEF GrokInv
  <2>6. "context" \notin met' =>
          /\ \A q \in Slots : req'[q].kind = "ask" => asking'[q].array = conversations'[req'[q].user]
          /\ \A u \in Askers : Agrees(Known(arrays', conversations', u), talk'[u])
    BY <2>1, <2>4 DEF GrokInv
  <2> QED
    BY <1>0, <2>1, <2>3, <2>5, <2>6 DEF GrokInv
<1>4. CASE Restart
  <2>1. /\ arrays' = <<>> /\ conversations' = [u \in Askers |-> 0] /\ talk' = [u \in Askers |-> <<>>]
        /\ asking' = [p \in Slots |-> NoCall] /\ \A p \in Slots : req'[p].kind = "none"
    BY <1>4, NoReqIs DEF Restart, Dropped
  <2>2. <<>> \in Seq(Entry) /\ arrays' \in Seq(Seq(Entry)) /\ Len(arrays') = 0
    BY <2>1
  <2>3. \A u \in Askers : Agrees(Known(arrays', conversations', u), talk'[u])
    BY <2>1, EmptyAgrees DEF Known
  <2>4. /\ conversations' = [u \in Askers |-> conversations'[u]] /\ talk' = [u \in Askers |-> talk'[u]]
        /\ asking' = [p \in Slots |-> asking'[p]]
    BY <2>1
  <2>5. /\ \A u \in Askers : talk'[u] \in Seq(Entry) /\ conversations'[u] = 0 /\ conversations'[u] \in 0..Len(arrays')
        /\ \A p \in Slots : req'[p].kind # "ask"
    BY <2>1, <2>2
  <2> HIDE DEF GrokInv
  <2> QED
    BY <1>0, <2>2, <2>3, <2>4, <2>5 DEF GrokInv
<1>5. CASE UNCHANGED vars
  BY <1>0, <1>5, GrokInvStays DEF vars, handlerVars
<1> QED
  BY <1>1, <1>2, <1>3, <1>4, <1>5, GrokInvAsk, GrokInvAnswered DEF Next, GrokNext

\* What Grok is told with a question is the end of the user's talk, and not
\* less of it than the messages to be remembered, unless a context was cut while
\* another question of the user was being answered (services/grok.service.ts).
THEOREM GrokRemembers == Spec => []CalmRemembers
<1>1. Init => GrokInv
  BY GrokInvInit
<1>2. GrokInv /\ Handling /\ [Next]_vars => GrokInv'
  BY GrokInvNext
<1>3. GrokInv => CalmRemembers
  <2> SUFFICES ASSUME GrokInv, "context" \notin met, NEW u \in Askers
               PROVE  /\ IsSuffix(Known(arrays, conversations, u), talk[u])
                      /\ Len(Known(arrays, conversations, u)) < Remembered => Known(arrays, conversations, u) = talk[u]
    BY DEF CalmRemembers, Known
  <2>1. Agrees(Known(arrays, conversations, u), talk[u]) /\ talk[u] \in Seq(Entry)
        /\ conversations[u] \in 0..Len(arrays) /\ arrays \in Seq(Seq(Entry))
    BY DEF GrokInv
  <2>2. Known(arrays, conversations, u) \in Seq(Entry)
    <3>1. <<>> \in Seq(Entry) /\ Len(arrays) \in Nat
      BY <2>1, LenProperties
    <3>2. conversations[u] # 0 => arrays[conversations[u]] \in Seq(Entry)
      BY <2>1, <3>1, ElementOfSeq
    <3> QED
      BY <3>1, <3>2 DEF Known
  <2>3. PICK k : k = Known(arrays, conversations, u)
    OBVIOUS
  <2>4. PICK t : t = talk[u]
    OBVIOUS
  <2>5. IsSuffix(k, t)
    BY <2>1, <2>2, <2>3, <2>4, EndingIsSuffix DEF Agrees
  <2> QED
    BY <2>1, <2>3, <2>4, <2>5 DEF Agrees
<1> QED
  BY <1>1, <1>2, <1>3, HandlingKept, PTL DEF Spec
-----------------------------------------------------------------------------
(* Stories and their files.                                                *)

\* The files of a story that a disk holds.
On(d, s) == {f \in Files : <<s, f>> \in d}
\* The file of a thumbnail, when there is one.
Thumbs(x) == {x.thumb} \ {"none"}

\* The steps of a deletion.
Removing == {"unlink", "unlinkThumbnail", "deleteRow"}
At(rs) == CHOOSE r \in rs : TRUE

\* A deletion is at one of its stories.
LEMMA AtIs == ASSUME NEW rs, rs # {} PROVE At(rs) \in rs
BY DEF At

\* The thumbnail of a picture is the picture; a picture needs no processing.
Sound(x) ==
  /\ x.video => x.thumb # "original"
  /\ ~x.video => x.thumb = "original" /\ x.isProcessed

\* An upload at a step, a compression at a step, a story at rest and one that
\* is being deleted: row x and files d.
InUpload(at, x, d) ==
  /\ ~x.there /\ x.path = "original"
  /\ at = "write" => d = {} /\ (x.video => x.thumb = "none")
  /\ at = "thumbnail" => x.video /\ x.thumb = "none" /\ d = {"original"}
  /\ at = "saveStory" => d = {"original"} \union Thumbs(x)
  /\ at # "undo"
\* A compression at a step.
InTask(t, x, d) ==
  /\ x.there /\ x.video /\ x.path = "original" /\ t # "giveUp"
  /\ t \in {"start", "processed"} => d = {"original"} \union Thumbs(x)
  /\ t \in {"encode", "stat", "unlinkOriginal", "unlinkCompressed"} => d = {"original", "compressed"} \union Thumbs(x)
  /\ t = "point" => d = {"compressed"} \union Thumbs(x)
\* A story at rest.
Settled(x, d) ==
  /\ d = IF x.there THEN {x.path, x.thumb} \ {"none"} ELSE {}
  /\ x.there => x.isProcessed
\* A story that is being deleted.
Going(x, d) == d \subseteq {x.path, x.thumb} \ {"none"} /\ (~x.there => d = {})
\* What the deletion that is at the story has removed.
Gone(at, x, d) == (at = "unlinkThumbnail" => x.path \notin d) /\ (at = "deleteRow" => d = {})

\* Some deletion has the story on its list.
Doomed(ds, s) == \E q \in Slots : \E r \in ds[q] : r.id = s
\* Some request is uploading the story.
Uploaded(rs, s) == \E q \in Slots : rs[q].kind = "upload" /\ rs[q].id = s

\* What holds of the stories until something fails or a story is deleted while
\* it is compressed: each is in one of the four states.
Stored ==
  /\ stories \in Seq(Rows) /\ Len(stories) <= MaxStories
  /\ tasks = [s \in StoryIds |-> tasks[s]] /\ doomed = [p \in Slots |-> doomed[p]]
  /\ \A s \in DOMAIN stories : Sound(stories[s])
  /\ \A s \in Nat \ DOMAIN stories : On(disk, s) = {} /\ (s \in StoryIds => tasks[s] = "none")
\* Each upload has a story of its own, which has no row yet.
UploadsInv ==
  /\ \A p \in Slots : req[p].kind = "upload" =>
       /\ req[p].id \in DOMAIN stories /\ tasks[req[p].id] = "none" /\ ~Doomed(doomed, req[p].id)
       /\ InUpload(pc[p], stories[req[p].id], On(disk, req[p].id))
  /\ \A p, q \in Slots : p # q /\ req[p].kind = "upload" /\ req[q].kind = "upload" => req[p].id # req[q].id
\* A deletion knows its stories as they are, and none is compressed.
DoomedInv ==
  /\ \A p \in Slots : doomed[p] # {} <=> pc[p] \in Removing
  /\ \A p \in Slots : \A r \in doomed[p] :
       /\ r.id \in DOMAIN stories /\ tasks[r.id] = "none"
       /\ r = [id |-> r.id, path |-> stories[r.id].path, thumb |-> stories[r.id].thumb]
       /\ Going(stories[r.id], On(disk, r.id))
  /\ \A p \in Slots : \A r \in doomed[p] : r = At(doomed[p]) => Gone(pc[p], stories[r.id], On(disk, r.id))
\* A compression finds the files it expects.
TasksInv == \A s \in DOMAIN stories : tasks[s] # "none" => InTask(tasks[s], stories[s], On(disk, s))
\* A story nobody is at is at rest.
RestInv ==
  \A s \in DOMAIN stories : tasks[s] = "none" /\ ~Uploaded(req, s) /\ ~Doomed(doomed, s) => Settled(stories[s], On(disk, s))

\* All of them.
StoryInv == Stored /\ UploadsInv /\ DoomedInv /\ TasksInv /\ RestInv

\* A deletion is asked for a story there was.
DeletesInv == \A p \in Slots : req[p].kind = "deleteStory" => req[p].id \in DOMAIN stories

\* The histories CalmDiskMatches is about.
CalmDisk == met \intersect {"disk", "fault"} = {}

\* Nothing is done to a story, and no upload begins or ends.
LEMMA StoryInvStays ==
  ASSUME StoryInv, UNCHANGED storyVars,
         \A q \in Slots : req'[q].kind = "upload" \/ req[q].kind = "upload" => req'[q] = req[q] /\ pc'[q] = pc[q],
         \A q \in Slots : pc'[q] \in Removing \/ pc[q] \in Removing => pc'[q] = pc[q]
  PROVE  StoryInv'
<1>1. stories' = stories /\ disk' = disk /\ tasks' = tasks /\ doomed' = doomed
  BY DEF storyVars
<1>2. \A s : Uploaded(req', s) <=> Uploaded(req, s)
  BY DEF Uploaded
<1>3. Stored'
  BY <1>1 DEF StoryInv, Stored
<1>4. UploadsInv'
  BY <1>1, <1>2 DEF StoryInv, UploadsInv
<1>5. DoomedInv'
  <2>1. \A p \in Slots : doomed[p] # {} => pc'[p] = pc[p]
    BY DEF StoryInv, DoomedInv
  <2> QED
    BY <1>1, <2>1 DEF StoryInv, DoomedInv
<1>6. TasksInv' /\ RestInv'
  BY <1>1, <1>2 DEF StoryInv, TasksInv, RestInv
<1> QED
  BY <1>3, <1>4, <1>5, <1>6 DEF StoryInv

\* A step on story s alone, which starts no upload and leaves the deletions
\* their lists.
Touches(s) ==
  /\ stories' \in Seq(Rows) /\ DOMAIN stories' = DOMAIN stories /\ Len(stories') = Len(stories)
  /\ tasks' = [k \in StoryIds |-> tasks'[k]] /\ doomed' = doomed
  /\ \A k \in DOMAIN stories : k # s => stories'[k] = stories[k]
  /\ \A k \in Nat : k # s => On(disk', k) = On(disk, k) /\ tasks'[k] = tasks[k]
  /\ \A q \in Slots : req'[q].kind = "upload" => req'[q] = req[q]
  /\ \A q \in Slots : req[q].kind = "upload" /\ req[q].id # s => req'[q] = req[q] /\ pc'[q] = pc[q]
  /\ \A q \in Slots : pc'[q] \in Removing <=> pc[q] \in Removing
  /\ \A q \in Slots : doomed[q] # {} /\ At(doomed[q]).id # s => pc'[q] = pc[q]

\* What it makes of the story.
Leaves(s) ==
  /\ Sound(stories'[s])
  /\ \A q \in Slots : req'[q].kind = "upload" /\ req'[q].id = s =>
       tasks'[s] = "none" /\ InUpload(pc'[q], stories'[s], On(disk', s))
  /\ Doomed(doomed, s) => /\ stories'[s].path = stories[s].path /\ stories'[s].thumb = stories[s].thumb
                  /\ tasks'[s] = "none" /\ Going(stories'[s], On(disk', s))
  /\ \A q \in Slots : doomed[q] # {} /\ At(doomed[q]).id = s => Gone(pc'[q], stories'[s], On(disk', s))
  /\ tasks'[s] # "none" => InTask(tasks'[s], stories'[s], On(disk', s))
  /\ tasks'[s] = "none" /\ ~Uploaded(req', s) /\ ~Doomed(doomed, s) => Settled(stories'[s], On(disk', s))

\* A step on one story keeps the invariant if it leaves that story right.
LEMMA StoryInvTouched ==
  ASSUME StoryInv, NEW s \in DOMAIN stories, Touches(s), Leaves(s)
  PROVE  StoryInv'
<1>1. DOMAIN stories \subseteq Nat /\ s \in Nat
  BY LenProperties DEF StoryInv, Stored
<1>2. doomed' = doomed
  BY DEF Touches
<1>3. \A k \in DOMAIN stories : k # s => stories'[k] = stories[k] /\ On(disk', k) = On(disk, k) /\ tasks'[k] = tasks[k]
  BY <1>1 DEF Touches
<1>4. Stored'
  <2>1. \A k \in DOMAIN stories' : Sound(stories'[k])
    BY <1>3 DEF StoryInv, Stored, Touches, Leaves
  <2>2. \A k \in Nat \ DOMAIN stories' : On(disk', k) = {} /\ (k \in StoryIds => tasks'[k] = "none")
    BY DEF StoryInv, Stored, Touches
  <2> QED
    BY <2>1, <2>2 DEF StoryInv, Stored, Touches
<1>5. UploadsInv'
  <2>1. ASSUME NEW q \in Slots, req'[q].kind = "upload"
        PROVE  /\ req'[q].id \in DOMAIN stories' /\ tasks'[req'[q].id] = "none" /\ ~Doomed(doomed', req'[q].id)
               /\ InUpload(pc'[q], stories'[req'[q].id], On(disk', req'[q].id))
    <3>1. PICK k : k = req[q].id
      OBVIOUS
    <3>2. req'[q] = req[q] /\ req'[q].id = k /\ req[q].kind = "upload"
      BY <2>1, <3>1 DEF Touches
    <3>3. k \in DOMAIN stories /\ tasks[k] = "none" /\ ~Doomed(doomed, k) /\ InUpload(pc[q], stories[k], On(disk, k))
      BY <3>1, <3>2 DEF StoryInv, UploadsInv
    <3>4. tasks'[k] = "none" /\ InUpload(pc'[q], stories'[k], On(disk', k))
      <4>1. CASE k = s
        BY <2>1, <3>2, <4>1 DEF Leaves
      <4>2. CASE k # s
        BY <1>3, <3>1, <3>2, <3>3, <4>2 DEF Touches
      <4> QED
        BY <4>1, <4>2
    <3>5. k \in DOMAIN stories'
      BY <3>3 DEF Touches
    <3>6. ~Doomed(doomed', k)
      BY <3>3 DEF Touches
    <3> QED
      BY <3>2, <3>4, <3>5, <3>6
  <2>2. ASSUME NEW p \in Slots, NEW q \in Slots, p # q, req'[p].kind = "upload", req'[q].kind = "upload"
        PROVE  req'[p].id # req'[q].id
    BY <2>2 DEF StoryInv, UploadsInv, Touches
  <2> QED
    BY <2>1, <2>2 DEF UploadsInv
<1>6. DoomedInv'
  <2>0. doomed' = doomed
    BY DEF Touches
  <2>1. \A q \in Slots : doomed'[q] # {} <=> pc'[q] \in Removing
    BY DEF StoryInv, DoomedInv, Touches
  <2>2. ASSUME NEW q \in Slots, NEW r \in doomed[q]
        PROVE  /\ r.id \in DOMAIN stories' /\ tasks'[r.id] = "none"
               /\ r = [id |-> r.id, path |-> stories'[r.id].path, thumb |-> stories'[r.id].thumb]
               /\ Going(stories'[r.id], On(disk', r.id))
    <3>1. /\ r.id \in DOMAIN stories /\ tasks[r.id] = "none"
          /\ r = [id |-> r.id, path |-> stories[r.id].path, thumb |-> stories[r.id].thumb]
          /\ Going(stories[r.id], On(disk, r.id))
      BY DEF StoryInv, DoomedInv
    <3>2. r.id \in DOMAIN stories'
      BY <3>1 DEF Touches
    <3>3. CASE r.id = s
      <4>1. Doomed(doomed, s)
        BY <3>3 DEF Doomed
      <4>2. /\ stories'[s].path = stories[s].path /\ stories'[s].thumb = stories[s].thumb
            /\ tasks'[s] = "none" /\ Going(stories'[s], On(disk', s))
        BY <4>1 DEF Leaves
      <4> QED
        BY <3>1, <3>2, <3>3, <4>2
    <3>4. CASE r.id # s
      BY <1>3, <3>1, <3>2, <3>4
    <3> QED
      BY <3>3, <3>4
  <2>3. ASSUME NEW q \in Slots, NEW r \in doomed[q], r = At(doomed[q])
        PROVE  Gone(pc'[q], stories'[r.id], On(disk', r.id))
    <3>1. r.id \in DOMAIN stories /\ doomed[q] # {}
      BY DEF StoryInv, DoomedInv
    <3>2. CASE r.id = s
      BY <2>3, <3>1, <3>2 DEF Leaves
    <3>3. CASE r.id # s
      <4>1. Gone(pc[q], stories[r.id], On(disk, r.id))
        BY <2>3 DEF StoryInv, DoomedInv
      <4>2. pc'[q] = pc[q]
        BY <2>3, <3>1, <3>3 DEF Touches
      <4> QED
        BY <1>3, <3>1, <3>3, <4>1, <4>2
    <3> QED
      BY <3>2, <3>3
  <2> QED
    BY <2>0, <2>1, <2>2, <2>3 DEF DoomedInv
<1>7. TasksInv'
  <2>1. ASSUME NEW k \in DOMAIN stories, tasks'[k] # "none" PROVE InTask(tasks'[k], stories'[k], On(disk', k))
    <3>1. CASE k = s
      BY <2>1, <3>1 DEF Leaves
    <3>2. CASE k # s
      BY <1>3, <2>1, <3>2 DEF StoryInv, TasksInv
    <3> QED
      BY <3>1, <3>2
  <2> QED
    BY <2>1 DEF TasksInv, Touches
<1>8. RestInv'
  <2>1. ASSUME NEW k \in DOMAIN stories, tasks'[k] = "none", ~Uploaded(req', k), ~Doomed(doomed, k)
        PROVE  Settled(stories'[k], On(disk', k))
    <3>1. CASE k = s
      BY <2>1, <3>1 DEF Leaves
    <3>2. CASE k # s
      <4>1. ~Uploaded(req, k)
        BY <2>1, <3>2 DEF Uploaded, Touches
      <4> QED
        BY <1>3, <2>1, <3>2, <4>1 DEF StoryInv, RestInv
    <3> QED
      BY <3>1, <3>2
  <2> QED
    BY <1>2, <2>1 DEF RestInv, Touches
<1> QED
  BY <1>4, <1>5, <1>6, <1>7, <1>8 DEF StoryInv

\* The table of stories is a sequence of rows.
LEMMA StoredIs ==
  ASSUME StoryInv
  PROVE  /\ Len(stories) \in Nat /\ DOMAIN stories = 1..Len(stories) /\ DOMAIN stories \subseteq StoryIds /\ StoryIds \subseteq Nat
         /\ \A s \in DOMAIN stories : stories[s] \in Rows
         /\ stories \in Seq(Rows)
BY LenProperties, ElementOfSeq, StoriesAssumption DEF StoryInv, Stored, StoryIds

\* A story's row changes, and nothing else of the table.
LEMMA RowChanges ==
  ASSUME StoryInv, NEW s \in DOMAIN stories, NEW x \in Rows, stories' = [stories EXCEPT ![s] = x]
  PROVE  /\ stories' \in Seq(Rows) /\ DOMAIN stories' = DOMAIN stories /\ Len(stories') = Len(stories)
         /\ stories'[s] = x /\ \A k \in DOMAIN stories : k # s => stories'[k] = stories[k]
<1>1. Len(stories) \in Nat /\ DOMAIN stories = 1..Len(stories) /\ stories \in Seq(Rows)
  BY StoredIs
<1>2. DOMAIN stories' = DOMAIN stories /\ stories'[s] = x /\ \A k \in DOMAIN stories : k # s => stories'[k] = stories[k]
  BY <1>1
<1>3. \A k \in DOMAIN stories : stories'[k] \in Rows
  BY <1>2, StoredIs
<1>4. PICK n : n = Len(stories)
  OBVIOUS
<1>5. PICK w : w = stories'
  OBVIOUS
<1>6. w = [k \in 1..n |-> w[k]] /\ \A k \in 1..n : w[k] \in Rows
  BY <1>1, <1>2, <1>3, <1>4, <1>5
<1>7. w \in Seq(Rows)
  BY <1>1, <1>4, <1>6, IsASeq
<1>8. Len(w) = n
  BY <1>1, <1>2, <1>4, <1>5, <1>7, LenProperties
<1> QED
  BY <1>2, <1>4, <1>5, <1>7, <1>8

\* A step of an upload.
LEMMA UploadTouches ==
  ASSUME StoryInv, Handling, NEW p \in Slots, NEW s, req[p].kind = "upload", s = req[p].id, Only(p),
         req'[p] = req[p] \/ req'[p].kind = "none", pc'[p] \notin Removing,
         UNCHANGED doomed, stories' \in Seq(Rows), DOMAIN stories' = DOMAIN stories, Len(stories') = Len(stories),
         \A k \in DOMAIN stories : k # s => stories'[k] = stories[k],
         tasks' = [k \in StoryIds |-> tasks'[k]], \A k \in Nat : k # s => tasks'[k] = tasks[k],
         \A k : k # s => On(disk', k) = On(disk, k)
  PROVE  /\ Touches(s) /\ s \in DOMAIN stories /\ ~Doomed(doomed, s) /\ tasks[s] = "none"
         /\ InUpload(pc[p], stories[s], On(disk, s))
         /\ \A q \in Slots : req'[q].kind = "upload" /\ req'[q].id = s => q = p /\ req'[p] = req[p]
         /\ \A q \in Slots : doomed[q] # {} => At(doomed[q]).id # s
<1>1. /\ s \in DOMAIN stories /\ ~Doomed(doomed, s) /\ tasks[s] = "none"
      /\ InUpload(pc[p], stories[s], On(disk, s))
  BY DEF StoryInv, UploadsInv
<1>2. \A q \in Slots : q # p /\ req[q].kind = "upload" => req[q].id # s
  BY DEF StoryInv, UploadsInv
<1>3. \A q \in Slots : q # p => pc'[q] = pc[q] /\ req'[q] = req[q]
  BY DEF Only
<1>4. pc[p] \notin Removing
  BY DEF Handling, Stands, Removing
<1>5. \A q \in Slots : doomed[q] # {} => At(doomed[q]).id # s /\ q # p
  BY <1>1, <1>4, AtIs DEF Doomed, StoryInv, DoomedInv
<1>6. Touches(s)
  BY <1>2, <1>3, <1>4, <1>5 DEF Touches
<1> QED
  BY <1>1, <1>2, <1>3, <1>5, <1>6

\* An upload writes its file, gets its thumbnail and stores its row.
LEMMA StoryInvUploads ==
  ASSUME StoryInv, Handling, NEW p \in Slots, Write(p) \/ Thumbnail(p) \/ SaveStory(p)
  PROVE  StoryInv'
<1>1. PICK s : s = req[p].id
  OBVIOUS
<1>2. pc[p] \in {"write", "thumbnail", "saveStory"} /\ req[p].kind = "upload"
  BY DEF Write, Thumbnail, SaveStory, Handling, Stands
<1>3. s \in DOMAIN stories /\ stories[s] \in Rows /\ InUpload(pc[p], stories[s], On(disk, s)) /\ Sound(stories[s])
      /\ tasks[s] = "none" /\ ~Doomed(doomed, s) /\ s \in StoryIds
  BY <1>1, <1>2, StoredIs DEF StoryInv, Stored, UploadsInv
<1>4. stories \in Seq(Rows) /\ tasks = [k \in StoryIds |-> tasks[k]]
  BY DEF StoryInv, Stored
<1>5. UNCHANGED doomed
  BY DEF Write, Thumbnail, SaveStory
<1>6. CASE Write(p)
  <2>1. /\ pc[p] = "write" /\ disk' = disk \union {<<s, "original">>}
        /\ Goto(p, IF stories[s].video THEN "thumbnail" ELSE "saveStory") /\ UNCHANGED <<stories, tasks>>
    BY <1>1, <1>6 DEF Write, Moves
  <2>2. /\ Only(p) /\ req'[p] = req[p]
        /\ pc'[p] = IF stories[s].video THEN "thumbnail" ELSE "saveStory"
    BY <2>1, GotoIs
  <2>3. On(disk', s) = On(disk, s) \union {"original"} /\ \A k : k # s => On(disk', k) = On(disk, k)
    BY <2>1 DEF On, Files
  <2>a. /\ stories' \in Seq(Rows) /\ DOMAIN stories' = DOMAIN stories /\ Len(stories') = Len(stories)
        /\ \A k \in DOMAIN stories : k # s => stories'[k] = stories[k]
        /\ tasks' = [k \in StoryIds |-> tasks'[k]] /\ \A k \in Nat : k # s => tasks'[k] = tasks[k]
    BY <1>4, <2>1
  <2>b. pc'[p] \notin Removing
    BY <2>2 DEF Removing
  <2>4. /\ Touches(s)
        /\ \A q \in Slots : req'[q].kind = "upload" /\ req'[q].id = s => q = p /\ req'[p] = req[p]
        /\ \A q \in Slots : doomed[q] # {} => At(doomed[q]).id # s
    BY <1>1, <1>2, <1>5, <2>2, <2>3, <2>a, <2>b, UploadTouches
  <2>5. InUpload(pc'[p], stories'[s], On(disk', s))
    BY <1>3, <2>1, <2>2, <2>3 DEF InUpload, Thumbs, Sound
  <2>6. Uploaded(req', s) /\ tasks'[s] = "none" /\ stories'[s] = stories[s]
    BY <1>1, <1>2, <1>3, <2>1, <2>2 DEF Uploaded
  <2>7. Leaves(s)
    BY <1>3, <2>4, <2>5, <2>6 DEF Leaves
  <2> QED
    BY <1>3, <2>4, <2>7, StoryInvTouched
<1>7. CASE Thumbnail(p)
  <2>1. /\ pc[p] = "thumbnail" /\ Goto(p, "saveStory") /\ UNCHANGED tasks
        /\ \/ /\ disk' = disk \union {<<s, "thumbnail">>}
              /\ stories' = [stories EXCEPT ![s].thumb = "thumbnail"]
           \/ UNCHANGED <<disk, stories>>
    BY <1>1, <1>7 DEF Thumbnail, Moves
  <2>2. Only(p) /\ req'[p] = req[p] /\ pc'[p] = "saveStory"
    BY <2>1, GotoIs
  <2>3. PICK x : x = [stories[s] EXCEPT !.thumb = "thumbnail"]
    OBVIOUS
  <2>4. /\ x \in Rows /\ x.thumb = "thumbnail" /\ x.there = stories[s].there /\ x.path = stories[s].path
        /\ x.video = stories[s].video /\ Sound(x)
    BY <1>2, <1>3, <2>1, <2>3 DEF Rows, InUpload, Sound
  <2>5. /\ stories' \in Seq(Rows) /\ DOMAIN stories' = DOMAIN stories /\ Len(stories') = Len(stories)
        /\ \A k \in DOMAIN stories : k # s => stories'[k] = stories[k]
        /\ \A k : k # s => On(disk', k) = On(disk, k)
        /\ \/ stories'[s] = x /\ On(disk', s) = On(disk, s) \union {"thumbnail"}
           \/ stories'[s] = stories[s] /\ On(disk', s) = On(disk, s)
    <3>1. CASE UNCHANGED <<disk, stories>>
      BY <1>4, <3>1
    <3>2. CASE /\ disk' = disk \union {<<s, "thumbnail">>}
               /\ stories' = [stories EXCEPT ![s].thumb = "thumbnail"]
      <4>1. stories' = [stories EXCEPT ![s] = x]
        BY <2>3, <3>2
      <4>2. On(disk', s) = On(disk, s) \union {"thumbnail"} /\ \A k : k # s => On(disk', k) = On(disk, k)
        BY <3>2 DEF On, Files
      <4> QED
        BY <1>3, <2>4, <4>1, <4>2, RowChanges
    <3> QED
      BY <2>1, <3>1, <3>2
  <2>6. /\ Touches(s)
        /\ \A q \in Slots : req'[q].kind = "upload" /\ req'[q].id = s => q = p /\ req'[p] = req[p]
        /\ \A q \in Slots : doomed[q] # {} => At(doomed[q]).id # s
    BY <1>1, <1>2, <1>4, <1>5, <2>1, <2>2, <2>5, UploadTouches DEF Removing
  <2>7. InUpload(pc'[p], stories'[s], On(disk', s)) /\ Sound(stories'[s])
    BY <1>3, <2>1, <2>2, <2>4, <2>5 DEF InUpload, Thumbs
  <2>8. Uploaded(req', s) /\ tasks'[s] = "none"
    BY <1>1, <1>2, <1>3, <2>1, <2>2 DEF Uploaded
  <2>9. Leaves(s)
    BY <1>3, <2>6, <2>7, <2>8 DEF Leaves
  <2> QED
    BY <1>3, <2>6, <2>9, StoryInvTouched
<1>8. CASE SaveStory(p)
  <2>1. /\ pc[p] = "saveStory" /\ Finish(p) /\ UNCHANGED disk
        /\ stories' = [stories EXCEPT ![s].there = TRUE]
        /\ tasks' = [tasks EXCEPT ![s] = IF stories[s].video THEN "start" ELSE "none"]
    BY <1>1, <1>8 DEF SaveStory, Ends
  <2>2. Only(p) /\ req'[p].kind = "none" /\ pc'[p] = "idle"
    BY <2>1, FinishIs, NoReqIs
  <2>3. PICK x : x = [stories[s] EXCEPT !.there = TRUE]
    OBVIOUS
  <2>4. /\ x \in Rows /\ x.there /\ x.thumb = stories[s].thumb /\ x.path = "original"
        /\ x.video = stories[s].video /\ x.isProcessed = stories[s].isProcessed /\ Sound(x)
    BY <1>3, <2>3 DEF Rows, InUpload, Sound
  <2>5. /\ stories' \in Seq(Rows) /\ DOMAIN stories' = DOMAIN stories /\ Len(stories') = Len(stories)
        /\ \A k \in DOMAIN stories : k # s => stories'[k] = stories[k]
        /\ stories'[s] = x
    <3>1. stories' = [stories EXCEPT ![s] = x]
      BY <2>1, <2>3
    <3> QED
      BY <1>3, <2>4, <3>1, RowChanges
  <2>6. /\ tasks' = [k \in StoryIds |-> tasks'[k]] /\ tasks'[s] = (IF stories[s].video THEN "start" ELSE "none")
        /\ \A k \in Nat : k # s => tasks'[k] = tasks[k]
    <3>1. PICK t : t = IF stories[s].video THEN "start" ELSE "none"
      OBVIOUS
    <3>2. tasks' = [tasks EXCEPT ![s] = t] /\ s \in StoryIds /\ tasks = [k \in StoryIds |-> tasks[k]]
      BY <1>3, <1>4, <2>1, <3>1
    <3>3. tasks' = [k \in StoryIds |-> tasks'[k]] /\ tasks'[s] = t
          /\ \A k \in Nat : k # s => tasks'[k] = tasks[k]
      BY <3>2
    <3> QED
      BY <3>1, <3>3
  <2>a. pc'[p] \notin Removing /\ \A k : k # s => On(disk', k) = On(disk, k)
    BY <2>1, <2>2 DEF Removing
  <2>7. /\ Touches(s)
        /\ \A q \in Slots : req'[q].kind = "upload" /\ req'[q].id = s => q = p /\ req'[p] = req[p]
        /\ \A q \in Slots : doomed[q] # {} => At(doomed[q]).id # s
    BY <1>1, <1>2, <1>5, <2>2, <2>5, <2>6, <2>a, UploadTouches
  <2>8. On(disk', s) = {"original"} \union Thumbs(x)
    BY <1>3, <2>1, <2>4 DEF InUpload, Thumbs
  <2>9. stories[s].video => InTask(tasks'[s], stories'[s], On(disk', s))
    BY <2>4, <2>5, <2>6, <2>8 DEF InTask
  <2>10. ~stories[s].video => Settled(stories'[s], On(disk', s)) /\ tasks'[s] = "none"
    BY <2>4, <2>5, <2>6, <2>8 DEF Settled, Sound, Thumbs
  <2>11. \A q \in Slots : req'[q].kind = "upload" => req'[q].id # s
    BY <1>2, <2>2, <2>7
  <2>12. Leaves(s)
    BY <1>3, <2>4, <2>5, <2>6, <2>7, <2>9, <2>10, <2>11 DEF Leaves
  <2> QED
    BY <1>3, <2>7, <2>12, StoryInvTouched
<1> QED
  BY <1>6, <1>7, <1>8

\* A step of no handler, on story s.
LEMMA TaskTouches ==
  ASSUME StoryInv, NEW s \in DOMAIN stories, UNCHANGED <<doomed, pc, req>>,
         stories' \in Seq(Rows), DOMAIN stories' = DOMAIN stories, Len(stories') = Len(stories),
         \A k \in DOMAIN stories : k # s => stories'[k] = stories[k],
         tasks' = [k \in StoryIds |-> tasks'[k]], \A k \in Nat : k # s => tasks'[k] = tasks[k],
         \A k : k # s => On(disk', k) = On(disk, k)
  PROVE  Touches(s)
BY DEF Touches

\* A story expires.
LEMMA StoryInvExpires ==
  ASSUME StoryInv, NEW s \in DOMAIN stories, Expires(s)
  PROVE  StoryInv'
<1>1. stories[s].there /\ stories' = [stories EXCEPT ![s].expired = TRUE] /\ UNCHANGED <<disk, tasks, doomed, pc, req>>
  BY DEF Expires, handlerVars
<1>2. stories[s] \in Rows /\ Sound(stories[s]) /\ tasks = [k \in StoryIds |-> tasks[k]]
  BY StoredIs DEF StoryInv, Stored
<1>3. PICK x : x = [stories[s] EXCEPT !.expired = TRUE]
  OBVIOUS
<1>4. /\ x \in Rows /\ x.there = stories[s].there /\ x.path = stories[s].path /\ x.thumb = stories[s].thumb
      /\ x.video = stories[s].video /\ x.isProcessed = stories[s].isProcessed
  BY <1>2, <1>3 DEF Rows
<1>5. /\ stories' \in Seq(Rows) /\ DOMAIN stories' = DOMAIN stories /\ Len(stories') = Len(stories)
      /\ \A k \in DOMAIN stories : k # s => stories'[k] = stories[k]
      /\ stories'[s] = x
  <2>1. stories' = [stories EXCEPT ![s] = x]
    BY <1>1, <1>3
  <2> QED
    BY <1>4, <2>1, RowChanges
<1>6. Touches(s)
  BY <1>1, <1>2, <1>5, TaskTouches
<1>7. Leaves(s)
  <2>1. Sound(x)
    BY <1>2, <1>4 DEF Sound
  <2>2. \A at, d : InUpload(at, stories[s], d) => InUpload(at, x, d)
    BY <1>4 DEF InUpload, Thumbs
  <2>3. \A d : Going(stories[s], d) => Going(x, d)
    BY <1>4 DEF Going
  <2>4. \A at, d : Gone(at, stories[s], d) => Gone(at, x, d)
    BY <1>4 DEF Gone
  <2>5. \A t, d : InTask(t, stories[s], d) => InTask(t, x, d)
    BY <1>4 DEF InTask, Thumbs
  <2>6. \A d : Settled(stories[s], d) => Settled(x, d)
    BY <1>4 DEF Settled
  <2>7. \A q \in Slots : req[q].kind = "upload" /\ req[q].id = s =>
          tasks[s] = "none" /\ InUpload(pc[q], x, On(disk, s))
    BY <2>2 DEF StoryInv, UploadsInv
  <2>8. Doomed(doomed, s) => tasks[s] = "none" /\ Going(x, On(disk, s))
    BY <2>3 DEF Doomed, StoryInv, DoomedInv
  <2>9. \A q \in Slots : doomed[q] # {} /\ At(doomed[q]).id = s => Gone(pc[q], x, On(disk, s))
    BY <2>4, AtIs DEF StoryInv, DoomedInv
  <2>10. tasks[s] # "none" => InTask(tasks[s], x, On(disk, s))
    BY <2>5 DEF StoryInv, TasksInv
  <2>11. tasks[s] = "none" /\ ~Uploaded(req, s) /\ ~Doomed(doomed, s) => Settled(x, On(disk, s))
    BY <2>6 DEF StoryInv, RestInv
  <2> QED
    BY <1>1, <1>4, <1>5, <2>1, <2>7, <2>8, <2>9, <2>10, <2>11 DEF Leaves
<1> QED
  BY <1>6, <1>7, StoryInvTouched

\* The steps of a compression.
Compresses(s) ==
  \/ Compress(s) \/ Encoded(s) \/ Stat(s) \/ UnlinkOriginal(s) \/ UnlinkCompressed(s) \/ Point(s) \/ Processed(s)

\* One that leaves the row as it is and goes on.
LEMMA StoryInvTask ==
  ASSUME StoryInv, NEW s \in DOMAIN stories, NEW t, t # "none", tasks[s] # "none", UNCHANGED <<stories, doomed, pc, req>>,
         tasks' = [tasks EXCEPT ![s] = t],
         \A k : k # s => On(disk', k) = On(disk, k),
         InTask(t, stories[s], On(disk', s))
  PROVE  StoryInv'
<1>1. stories \in Seq(Rows) /\ tasks = [k \in StoryIds |-> tasks[k]] /\ s \in StoryIds /\ Sound(stories[s])
  BY StoredIs DEF StoryInv, Stored
<1>2. /\ tasks' = [k \in StoryIds |-> tasks'[k]] /\ tasks'[s] = t
      /\ \A k \in Nat : k # s => tasks'[k] = tasks[k]
  BY <1>1, SMTT(40)
<1>3. Touches(s)
  BY <1>1, <1>2, TaskTouches
<1>4. /\ \A q \in Slots : ~(req[q].kind = "upload" /\ req[q].id = s)
      /\ ~Doomed(doomed, s) /\ \A q \in Slots : ~(doomed[q] # {} /\ At(doomed[q]).id = s)
  BY AtIs DEF StoryInv, UploadsInv, DoomedInv, Doomed
<1>5. Leaves(s)
  BY <1>1, <1>2, <1>4 DEF Leaves
<1> QED
  BY <1>3, <1>5, StoryInvTouched

\* Every step of a compression keeps the invariant.
LEMMA StoryInvCompresses ==
  ASSUME StoryInv, NEW s \in DOMAIN stories, Compresses(s)
  PROVE  StoryInv'
<1>1. /\ stories[s] \in Rows /\ Sound(stories[s]) /\ tasks = [k \in StoryIds |-> tasks[k]] /\ s \in StoryIds
      /\ tasks[s] # "none" => InTask(tasks[s], stories[s], On(disk, s))
  BY StoredIs DEF StoryInv, Stored, TasksInv
<1>2. UNCHANGED <<doomed, pc, req>> /\ tasks[s] # "none"
  BY DEF Compresses, Compress, Encoded, Stat, UnlinkOriginal, UnlinkCompressed, Point, Processed, Task, handlerVars
<1>3. /\ stories[s].there /\ stories[s].video /\ stories[s].path = "original" /\ tasks[s] # "giveUp"
      /\ stories[s].thumb \in {"none", "thumbnail"} /\ Thumbs(stories[s]) \subseteq {"thumbnail"}
  BY <1>1, <1>2 DEF InTask, Sound, Rows, Thumbs
<1>4. ASSUME \/ Compress(s) \/ Encoded(s) \/ Stat(s) \/ UnlinkOriginal(s) \/ UnlinkCompressed(s) PROVE StoryInv'
  <2>1. UNCHANGED stories /\ \A k : k # s => On(disk', k) = On(disk, k)
    BY <1>4 DEF Compress, Encoded, Stat, UnlinkOriginal, UnlinkCompressed, On
  <2>2. <<s, "original">> \in disk <=> "original" \in On(disk, s)
    BY DEF On, Files
  <2>3. \E t : /\ t \in {"encode", "stat", "unlinkOriginal", "unlinkCompressed", "point", "processed"}
               /\ tasks' = [tasks EXCEPT ![s] = t] /\ InTask(t, stories[s], On(disk', s))
    <3>1. CASE Compress(s)
      <4>1. tasks[s] = "start"
        BY <3>1 DEF Compress, Task
      <4>2. <<s, "original">> \in disk
        BY <1>1, <2>2, <4>1 DEF InTask
      <4>3. tasks' = [tasks EXCEPT ![s] = "encode"] /\ disk' = disk \union {<<s, "compressed">>}
        BY <3>1, <4>2 DEF Compress, Task
      <4>4. On(disk', s) = On(disk, s) \union {"compressed"}
        BY <4>3 DEF On, Files
      <4>5. InTask("encode", stories[s], On(disk', s))
        BY <1>1, <1>3, <4>1, <4>4 DEF InTask
      <4> QED
        BY <4>3, <4>5
    <3>2. CASE Encoded(s)
      BY <1>1, <1>3, <3>2 DEF Encoded, Task, InTask
    <3>3. CASE Stat(s)
      <4>1. tasks[s] = "stat" /\ UNCHANGED disk
        BY <3>3 DEF Stat, Task
      <4>2. <<s, "original">> \in disk
        BY <1>1, <2>2, <4>1 DEF InTask
      <4>3. PICK t \in {"unlinkOriginal", "unlinkCompressed"} : tasks' = [tasks EXCEPT ![s] = t]
        BY <3>3, <4>2 DEF Stat, Task
      <4>4. InTask(t, stories[s], On(disk', s))
        BY <1>1, <1>3, <4>1 DEF InTask
      <4> QED
        BY <4>3, <4>4
    <3>4. CASE UnlinkOriginal(s)
      <4>1. tasks[s] = "unlinkOriginal"
        BY <3>4 DEF UnlinkOriginal, Task
      <4>2. <<s, "original">> \in disk
        BY <1>1, <2>2, <4>1 DEF InTask
      <4>3. tasks' = [tasks EXCEPT ![s] = "point"] /\ disk' = disk \ {<<s, "original">>}
        BY <3>4, <4>2 DEF UnlinkOriginal, Task
      <4>4. On(disk', s) = On(disk, s) \ {"original"}
        BY <4>3 DEF On
      <4>5. On(disk', s) = {"compressed"} \union Thumbs(stories[s])
        BY <1>1, <1>3, <4>1, <4>4 DEF InTask
      <4>6. InTask("point", stories[s], On(disk', s))
        BY <1>3, <4>5 DEF InTask
      <4> QED
        BY <4>3, <4>6
    <3>5. CASE UnlinkCompressed(s)
      <4>1. /\ tasks[s] = "unlinkCompressed" /\ tasks' = [tasks EXCEPT ![s] = "processed"]
            /\ disk' = disk \ {<<s, "compressed">>}
        BY <3>5 DEF UnlinkCompressed, Task
      <4>2. On(disk', s) = On(disk, s) \ {"compressed"}
        BY <4>1 DEF On
      <4>3. On(disk', s) = {"original"} \union Thumbs(stories[s])
        BY <1>1, <1>3, <4>1, <4>2 DEF InTask
      <4>4. InTask("processed", stories[s], On(disk', s))
        BY <1>3, <4>3 DEF InTask
      <4> QED
        BY <4>1, <4>4
    <3> QED
      BY <1>4, <3>1, <3>2, <3>3, <3>4, <3>5
  <2> QED
    BY <1>2, <2>1, <2>3, StoryInvTask
<1>5. ASSUME Point(s) \/ Processed(s) PROVE StoryInv'
  <2>1. UNCHANGED disk /\ tasks' = [tasks EXCEPT ![s] = "none"] /\ tasks[s] \in {"point", "processed"}
    BY <1>3, <1>5 DEF Point, Processed, Task
  <2>2. PICK x : /\ x = [stories[s] EXCEPT !.path = IF tasks[s] = "point" THEN "compressed" ELSE "original", !.isProcessed = TRUE]
    OBVIOUS
  <2>3. /\ x \in Rows /\ x.there /\ x.video /\ x.isProcessed /\ x.thumb = stories[s].thumb /\ Sound(x)
        /\ x.path = (IF tasks[s] = "point" THEN "compressed" ELSE "original")
    BY <1>1, <1>3, <2>2 DEF Rows, Sound
  <2>4. stories' = [stories EXCEPT ![s] = x]
    <3>1. CASE Point(s)
      BY <1>3, <2>2, <3>1 DEF Point, Task
    <3>2. CASE Processed(s)
      <4>1. /\ tasks[s] = "processed"
            /\ stories' = [stories EXCEPT ![s].isProcessed = stories[s].isProcessed \/ stories[s].there]
        BY <1>3, <3>2 DEF Processed, Task
      <4>2. x = [stories[s] EXCEPT !.isProcessed = stories[s].isProcessed \/ stories[s].there]
        BY <1>1, <1>3, <2>2, <4>1 DEF Rows
      <4> QED
        BY <4>1, <4>2
    <3> QED
      BY <1>5, <3>1, <3>2
  <2>5. /\ stories' \in Seq(Rows) /\ DOMAIN stories' = DOMAIN stories /\ Len(stories') = Len(stories)
        /\ \A k \in DOMAIN stories : k # s => stories'[k] = stories[k]
        /\ stories'[s] = x
    BY <2>3, <2>4, RowChanges
  <2>6. /\ tasks' = [k \in StoryIds |-> tasks'[k]] /\ tasks'[s] = "none"
        /\ \A k \in Nat : k # s => tasks'[k] = tasks[k]
    BY <1>1, <2>1
  <2>7. Touches(s)
    BY <1>2, <2>1, <2>5, <2>6, TaskTouches
  <2>8. /\ \A q \in Slots : ~(req[q].kind = "upload" /\ req[q].id = s)
        /\ ~Doomed(doomed, s) /\ \A q \in Slots : ~(doomed[q] # {} /\ At(doomed[q]).id = s)
    BY <1>2, AtIs DEF StoryInv, UploadsInv, DoomedInv, Doomed
  <2>9. Settled(x, On(disk, s))
    BY <1>1, <1>3, <2>1, <2>3 DEF InTask, Thumbs, Settled
  <2>10. Leaves(s)
    BY <1>2, <2>1, <2>3, <2>5, <2>6, <2>8, <2>9 DEF Leaves
  <2> QED
    BY <2>7, <2>10, StoryInvTouched
<1> QED
  BY <1>4, <1>5 DEF Compresses

\* A deletion removes a file of the story it is at.
LEMMA StoryInvUnlinks ==
  ASSUME StoryInv, Handling, NEW p \in Slots, Unlink(p) \/ UnlinkThumbnail(p)
  PROVE  StoryInv'
<1>1. PICK r : r = At(doomed[p])
  OBVIOUS
<1>2. AtHand(p) = r
  BY <1>1 DEF AtHand, At
<1>3. pc[p] \in {"unlink", "unlinkThumbnail"} /\ UNCHANGED <<stories, tasks, doomed>>
  BY DEF Unlink, UnlinkThumbnail
<1>4. doomed[p] # {}
  BY <1>3 DEF StoryInv, DoomedInv, Removing
<1>5. r \in doomed[p]
  BY <1>1, <1>4, AtIs
<1>6. PICK s : s = r.id
  OBVIOUS
<1>7. /\ s \in DOMAIN stories /\ tasks[s] = "none" /\ r.path = stories[s].path /\ r.thumb = stories[s].thumb
      /\ Going(stories[s], On(disk, s)) /\ Gone(pc[p], stories[s], On(disk, s))
  BY <1>1, <1>5, <1>6 DEF StoryInv, DoomedInv
<1>8. Doomed(doomed, s)
  BY <1>5, <1>6 DEF Doomed
<1>9. PICK f, at : /\ disk' = disk \ {<<s, f>>} /\ Goto(p, at)
                   /\ \/ pc[p] = "unlink" /\ f = r.path /\ at = IF r.thumb = "none" THEN "deleteRow" ELSE "unlinkThumbnail"
                      \/ pc[p] = "unlinkThumbnail" /\ f = r.thumb /\ at = "deleteRow"
  BY <1>2, <1>6 DEF Unlink, UnlinkThumbnail, Moves
<1>10. Only(p) /\ pc'[p] = at /\ req'[p] = req[p] /\ at \in {"unlinkThumbnail", "deleteRow"}
  BY <1>9, GotoIs
<1>11. On(disk', s) = On(disk, s) \ {f} /\ \A k : k # s => On(disk', k) = On(disk, k)
  BY <1>9 DEF On
<1>12. req[p].kind # "upload"
  BY <1>3 DEF Handling, Stands
<1>13. Touches(s)
  <2>1. /\ stories \in Seq(Rows) /\ tasks = [k \in StoryIds |-> tasks[k]]
    BY DEF StoryInv, Stored
  <2>2. \A q \in Slots : req'[q] = req[q] /\ (q # p => pc'[q] = pc[q])
    BY <1>10 DEF Only
  <2>3. pc[p] \in Removing /\ pc'[p] \in Removing
    BY <1>3, <1>10 DEF Removing
  <2>4. \A q \in Slots : doomed[q] # {} /\ At(doomed[q]).id # s => q # p
    BY <1>1, <1>6
  <2> QED
    BY <1>3, <1>11, <1>12, <2>1, <2>2, <2>3, <2>4 DEF Touches
<1>14. Going(stories[s], On(disk', s))
  BY <1>7, <1>11 DEF Going
<1>15. Gone(at, stories[s], On(disk', s))
  BY <1>7, <1>9, <1>11 DEF Going, Gone
<1>16. ASSUME NEW q \in Slots, doomed[q] # {}, At(doomed[q]).id = s PROVE Gone(pc'[q], stories[s], On(disk', s))
  <2>1. CASE q = p
    BY <1>10, <1>15, <2>1
  <2>2. CASE q # p
    <3>1. Gone(pc[q], stories[s], On(disk, s))
      BY <1>16, AtIs DEF StoryInv, DoomedInv
    <3>2. pc'[q] = pc[q]
      BY <1>10, <2>2 DEF Only
    <3> QED
      BY <1>11, <3>1, <3>2 DEF Gone
  <2> QED
    BY <2>1, <2>2
<1>17. \A q \in Slots : ~(req'[q].kind = "upload" /\ req'[q].id = s)
  BY <1>8, <1>10, <1>12 DEF StoryInv, UploadsInv, Only
<1>18. Sound(stories[s])
  BY <1>7 DEF StoryInv, Stored
<1>19. Leaves(s)
  BY <1>3, <1>7, <1>8, <1>14, <1>16, <1>17, <1>18 DEF Leaves
<1> QED
  BY <1>7, <1>13, <1>19, StoryInvTouched

\* A deletion begins: none of its stories is being uploaded or compressed.
LEMMA StoryInvDooms ==
  ASSUME StoryInv, Handling, CalmDisk', NEW p \in Slots, NEW ids \in SUBSET DOMAIN stories, ids # {},
         \A s \in ids : stories[s].there,
         pc[p] \in {"findStory", "findExpired"}, Goto(p, "unlink"), Dooms(p, ids)
  PROVE  StoryInv'
<1>1. /\ doomed' = [doomed EXCEPT ![p] = {Named(s) : s \in ids}] /\ UNCHANGED <<stories, disk, tasks>>
  BY DEF Dooms
<1>2. Only(p) /\ pc'[p] = "unlink" /\ req'[p] = req[p] /\ req[p].kind # "upload"
  BY GotoIs DEF Handling, Stands
<1>3. \A s \in ids : tasks[s] = "none"
  BY DEF Dooms, CalmDisk
<1>4. /\ doomed'[p] = {Named(s) : s \in ids} /\ \A q \in Slots : q # p => doomed'[q] = doomed[q]
      /\ doomed' = [q \in Slots |-> doomed'[q]]
  BY <1>1 DEF StoryInv, Stored
<1>5. \A s \in ids : /\ Named(s).id = s
                     /\ Named(s) = [id |-> s, path |-> stories[s].path, thumb |-> stories[s].thumb]
  BY DEF Named
<1>6. \A r \in doomed'[p] : r.id \in ids /\ r = [id |-> r.id, path |-> stories[r.id].path, thumb |-> stories[r.id].thumb]
  BY <1>4, <1>5
<1>7. \A s \in ids : ~Uploaded(req, s)
  BY DEF StoryInv, UploadsInv, InUpload, Uploaded
<1>8. ASSUME NEW s \in ids PROVE Going(stories[s], On(disk, s))
  <2>1. CASE Doomed(doomed, s)
    BY <2>1 DEF Doomed, StoryInv, DoomedInv
  <2>2. CASE ~Doomed(doomed, s)
    BY <1>3, <1>7, <2>2 DEF StoryInv, RestInv, Settled, Going
  <2> QED
    BY <2>1, <2>2
<1>9. \A s : Doomed(doomed', s) => Doomed(doomed, s) \/ s \in ids
  BY <1>4, <1>6 DEF Doomed
<1>10. \A s : Doomed(doomed, s) => Doomed(doomed', s)
  <2>1. doomed[p] = {}
    BY DEF StoryInv, DoomedInv, Removing
  <2> QED
    BY <1>4, <2>1 DEF Doomed
<1>11. \A q \in Slots : req'[q] = req[q] /\ (q # p => pc'[q] = pc[q])
  BY <1>2 DEF Only
<1>12. Stored'
  BY <1>1, <1>4 DEF StoryInv, Stored
<1>13. UploadsInv'
  <2>1. ASSUME NEW q \in Slots, req[q].kind = "upload" PROVE q # p /\ ~Doomed(doomed', req[q].id)
    <3>1. ~Doomed(doomed, req[q].id) /\ req[q].id \notin ids
      BY <1>7, <2>1 DEF StoryInv, UploadsInv, Uploaded
    <3> QED
      BY <1>2, <1>9, <2>1, <3>1
  <2> QED
    BY <1>1, <1>11, <2>1 DEF StoryInv, UploadsInv
<1>14. DoomedInv'
  <2>1. \A q \in Slots : doomed'[q] # {} <=> pc'[q] \in Removing
    <3>1. doomed'[p] # {} /\ pc'[p] \in Removing
      BY <1>2, <1>4 DEF Removing
    <3> QED
      BY <1>4, <1>11, <3>1 DEF StoryInv, DoomedInv
  <2>2. ASSUME NEW q \in Slots, NEW r \in doomed'[q]
        PROVE  /\ r.id \in DOMAIN stories /\ tasks[r.id] = "none"
               /\ r = [id |-> r.id, path |-> stories[r.id].path, thumb |-> stories[r.id].thumb]
               /\ Going(stories[r.id], On(disk, r.id))
    <3>1. CASE q = p
      BY <1>3, <1>6, <1>8, <3>1
    <3>2. CASE q # p
      BY <1>4, <3>2 DEF StoryInv, DoomedInv
    <3> QED
      BY <3>1, <3>2
  <2>3. ASSUME NEW q \in Slots, NEW r \in doomed'[q], r = At(doomed'[q])
        PROVE  Gone(pc'[q], stories[r.id], On(disk, r.id))
    <3>1. CASE q = p
      BY <1>2, <3>1 DEF Gone
    <3>2. CASE q # p
      BY <1>4, <1>11, <2>3, <3>2 DEF StoryInv, DoomedInv
    <3> QED
      BY <3>1, <3>2
  <2> QED
    BY <1>1, <2>1, <2>2, <2>3 DEF DoomedInv
<1>15. TasksInv'
  BY <1>1 DEF StoryInv, TasksInv
<1>16. RestInv'
  <2>1. \A s : Uploaded(req', s) <=> Uploaded(req, s)
    BY <1>11 DEF Uploaded
  <2> QED
    BY <1>1, <1>10, <2>1 DEF StoryInv, RestInv
<1> QED
  BY <1>12, <1>13, <1>14, <1>15, <1>16 DEF StoryInv

\* A deletion or the sweep finds its stories, or none.
LEMMA StoryInvFinds ==
  ASSUME StoryInv, DeletesInv, Handling, CalmDisk', NEW p \in Slots, FindStory(p) \/ FindExpired(p)
  PROVE  StoryInv'
<1>1. pc[p] \in {"findStory", "findExpired"}
  BY DEF FindStory, FindExpired
<1>2. \/ Finish(p) /\ UNCHANGED storyVars
      \/ \E ids \in SUBSET DOMAIN stories :
           ids # {} /\ (\A s \in ids : stories[s].there) /\ Goto(p, "unlink") /\ Dooms(p, ids)
  <2>1. CASE FindStory(p)
    <3>1. PICK s : s = req[p].id
      OBVIOUS
    <3>2. CASE stories[s].there /\ stories[s].user = req[p].user
      <4>1. Goto(p, "unlink") /\ Dooms(p, {s})
        BY <2>1, <3>1, <3>2 DEF FindStory
      <4>2. s \in DOMAIN stories
        BY <1>1, <2>1, <3>1 DEF DeletesInv, Handling, Stands, FindStory
      <4> QED
        BY <3>2, <4>1, <4>2
    <3>3. CASE ~(stories[s].there /\ stories[s].user = req[p].user)
      BY <2>1, <3>1, <3>3 DEF FindStory, Ends
    <3> QED
      BY <3>2, <3>3
  <2>2. CASE FindExpired(p)
    <3>1. PICK old : old = {s \in DOMAIN stories : stories[s].there /\ stories[s].expired}
      OBVIOUS
    <3>2. CASE old # {}
      <4>1. Goto(p, "unlink") /\ Dooms(p, old)
        BY <2>2, <3>1, <3>2 DEF FindExpired
      <4> QED
        BY <3>1, <3>2, <4>1
    <3>3. CASE old = {}
      BY <2>2, <3>1, <3>3 DEF FindExpired, Ends
    <3> QED
      BY <3>2, <3>3
  <2> QED
    BY <2>1, <2>2
<1>3. CASE Finish(p) /\ UNCHANGED storyVars
  <2>1. Only(p) /\ pc'[p] = "idle" /\ req'[p].kind = "none" /\ req[p].kind # "upload"
    BY <1>1, <1>3, FinishIs, NoReqIs DEF Handling, Stands
  <2>2. pc[p] \notin Removing /\ pc'[p] \notin Removing
    BY <1>1, <2>1 DEF Removing
  <2> QED
    BY <1>3, <2>1, <2>2, StoryInvStays DEF Only
<1> QED
  BY <1>1, <1>2, <1>3, StoryInvDooms

\* A deletion removes the row it is at, and goes on with the next.
LEMMA StoryInvDeleteRow ==
  ASSUME StoryInv, Handling, NEW p \in Slots, DeleteRow(p)
  PROVE  StoryInv'
<1>1. PICK r : r = At(doomed[p])
  OBVIOUS
<1>2. /\ AtHand(p) = r /\ pc[p] = "deleteRow" /\ UNCHANGED <<disk, tasks>>
      /\ stories' = [stories EXCEPT ![r.id].there = FALSE]
      /\ doomed' = [doomed EXCEPT ![p] = doomed[p] \ {r}]
      /\ IF doomed[p] # {r} THEN Goto(p, "unlink") ELSE Finish(p)
  <2>1. AtHand(p) = r
    BY <1>1 DEF AtHand, At
  <2> QED
    BY <2>1 DEF DeleteRow, NextDoomed, StoryInv, Stored
<1>3. r \in doomed[p]
  BY <1>1, <1>2, AtIs DEF StoryInv, DoomedInv, Removing
<1>4. PICK s : s = r.id
  OBVIOUS
<1>5. /\ s \in DOMAIN stories /\ tasks[s] = "none" /\ Sound(stories[s]) /\ stories[s] \in Rows
      /\ Gone(pc[p], stories[s], On(disk, s))
  BY <1>1, <1>3, <1>4, StoredIs DEF StoryInv, DoomedInv, Stored
<1>6. On(disk, s) = {}
  BY <1>2, <1>5 DEF Gone
<1>7. PICK x : x = [stories[s] EXCEPT !.there = FALSE]
  OBVIOUS
<1>8. x \in Rows /\ ~x.there /\ x.path = stories[s].path /\ x.thumb = stories[s].thumb /\ Sound(x)
  BY <1>5, <1>7 DEF Rows, Sound
<1>9. /\ stories' \in Seq(Rows) /\ DOMAIN stories' = DOMAIN stories /\ Len(stories') = Len(stories)
      /\ \A k \in DOMAIN stories : k # s => stories'[k] = stories[k]
      /\ stories'[s] = x
  <2>1. stories' = [stories EXCEPT ![s] = x]
    BY <1>2, <1>4, <1>7
  <2> QED
    BY <1>5, <1>8, <2>1, RowChanges
<1>10. /\ doomed'[p] = doomed[p] \ {r} /\ \A q \in Slots : q # p => doomed'[q] = doomed[q]
       /\ doomed' = [q \in Slots |-> doomed'[q]]
  BY <1>2 DEF StoryInv, Stored
<1>11. /\ Only(p) /\ req[p].kind # "upload" /\ req'[p].kind # "upload"
       /\ IF doomed'[p] # {} THEN pc'[p] = "unlink" ELSE pc'[p] = "idle"
  <2>1. req[p].kind # "upload"
    BY <1>2 DEF Handling, Stands
  <2>2. doomed'[p] # {} <=> doomed[p] # {r}
    BY <1>3, <1>10
  <2>3. CASE doomed[p] # {r}
    BY <1>2, <2>1, <2>2, <2>3, GotoIs
  <2>4. CASE doomed[p] = {r}
    BY <1>2, <2>1, <2>2, <2>4, FinishIs, NoReqIs
  <2> QED
    BY <2>3, <2>4
<1>12. \A q \in Slots : \A t \in doomed'[q] : t \in doomed[q]
  BY <1>10
<1>13. \A k : Doomed(doomed', k) => Doomed(doomed, k)
  BY <1>12 DEF Doomed
<1>14. \A k : k # s /\ Doomed(doomed, k) => Doomed(doomed', k)
  BY <1>4, <1>10 DEF Doomed
<1>15. \A k : Uploaded(req', k) <=> Uploaded(req, k)
  BY <1>11 DEF Uploaded, Only
<1>16. Stored'
  <2>1. \A k \in DOMAIN stories' : Sound(stories'[k])
    BY <1>8, <1>9 DEF StoryInv, Stored
  <2> QED
    BY <1>2, <1>9, <1>10, <2>1 DEF StoryInv, Stored
<1>17. UploadsInv'
  <2>1. ASSUME NEW q \in Slots, req'[q].kind = "upload"
        PROVE  /\ req[q] = req'[q] /\ pc'[q] = pc[q] /\ req[q].id # s /\ req[q].id \in DOMAIN stories
               /\ ~Doomed(doomed', req[q].id)
    <3>1. q # p /\ req[q] = req'[q] /\ pc'[q] = pc[q]
      BY <1>11, <2>1 DEF Only
    <3>2. ~Doomed(doomed, req[q].id) /\ req[q].id \in DOMAIN stories
      BY <2>1, <3>1 DEF StoryInv, UploadsInv
    <3>3. Doomed(doomed, s)
      BY <1>3, <1>4 DEF Doomed
    <3> QED
      BY <1>13, <3>1, <3>2, <3>3
  <2>2. ASSUME NEW q \in Slots, req'[q].kind = "upload"
        PROVE  /\ req'[q].id \in DOMAIN stories' /\ tasks'[req'[q].id] = "none" /\ ~Doomed(doomed', req'[q].id)
               /\ InUpload(pc'[q], stories'[req'[q].id], On(disk', req'[q].id))
    <3>1. PICK k : k = req[q].id
      OBVIOUS
    <3>2. req'[q].id = k /\ pc'[q] = pc[q] /\ k # s /\ k \in DOMAIN stories /\ ~Doomed(doomed', k)
      BY <2>1, <2>2, <3>1
    <3>3. tasks[k] = "none" /\ InUpload(pc[q], stories[k], On(disk, k))
      BY <2>1, <2>2, <3>1 DEF StoryInv, UploadsInv
    <3> QED
      BY <1>2, <1>9, <3>2, <3>3
  <2>3. ASSUME NEW a \in Slots, NEW b \in Slots, a # b, req'[a].kind = "upload", req'[b].kind = "upload"
        PROVE  req'[a].id # req'[b].id
    BY <2>1, <2>3 DEF StoryInv, UploadsInv
  <2> QED
    BY <2>2, <2>3 DEF UploadsInv
<1>18. DoomedInv'
  <2>1. \A q \in Slots : doomed'[q] # {} <=> pc'[q] \in Removing
    <3>1. doomed'[p] # {} <=> pc'[p] \in Removing
      BY <1>11 DEF Removing
    <3>2. \A q \in Slots : q # p => pc'[q] = pc[q]
      BY <1>11 DEF Only
    <3> QED
      BY <1>10, <3>1, <3>2 DEF StoryInv, DoomedInv
  <2>2. ASSUME NEW q \in Slots, NEW t \in doomed'[q]
        PROVE  /\ t.id \in DOMAIN stories' /\ tasks[t.id] = "none"
               /\ t = [id |-> t.id, path |-> stories'[t.id].path, thumb |-> stories'[t.id].thumb]
               /\ Going(stories'[t.id], On(disk, t.id))
    <3>1. /\ t.id \in DOMAIN stories /\ tasks[t.id] = "none"
          /\ t = [id |-> t.id, path |-> stories[t.id].path, thumb |-> stories[t.id].thumb]
          /\ Going(stories[t.id], On(disk, t.id))
      BY <1>12 DEF StoryInv, DoomedInv
    <3>2. CASE t.id = s
      <4>1. Going(x, On(disk, s))
        BY <1>6 DEF Going
      <4> QED
        BY <1>8, <1>9, <3>1, <3>2, <4>1
    <3>3. CASE t.id # s
      BY <1>9, <3>1, <3>3
    <3> QED
      BY <3>2, <3>3
  <2>3. ASSUME NEW q \in Slots, NEW t \in doomed'[q], t = At(doomed'[q])
        PROVE  Gone(pc'[q], stories'[t.id], On(disk, t.id))
    <3>1. CASE q = p
      <4>1. pc'[p] = "unlink"
        BY <1>11, <3>1
      <4> QED
        BY <3>1, <4>1 DEF Gone
    <3>2. CASE q # p
      <4>1. doomed'[q] = doomed[q] /\ pc'[q] = pc[q]
        BY <1>10, <1>11, <3>2 DEF Only
      <4>2. Gone(pc[q], stories[t.id], On(disk, t.id)) /\ t.id \in DOMAIN stories
        BY <2>3, <4>1 DEF StoryInv, DoomedInv
      <4>3. CASE t.id = s
        BY <1>6, <4>3 DEF Gone
      <4>4. CASE t.id # s
        BY <1>9, <4>1, <4>2, <4>4
      <4> QED
        BY <4>3, <4>4
    <3> QED
      BY <3>1, <3>2
  <2> QED
    BY <1>2, <2>1, <2>2, <2>3 DEF DoomedInv
<1>19. TasksInv'
  <2>1. ASSUME NEW k \in DOMAIN stories, tasks[k] # "none" PROVE InTask(tasks[k], stories'[k], On(disk, k))
    BY <1>5, <1>9, <2>1 DEF StoryInv, TasksInv
  <2> QED
    BY <1>2, <1>9, <2>1 DEF TasksInv
<1>20. RestInv'
  <2>1. ASSUME NEW k \in DOMAIN stories, tasks[k] = "none", ~Uploaded(req', k), ~Doomed(doomed', k)
        PROVE  Settled(stories'[k], On(disk, k))
    <3>1. CASE k = s
      BY <1>6, <1>8, <1>9, <3>1 DEF Settled
    <3>2. CASE k # s
      BY <1>9, <1>14, <1>15, <2>1, <3>2 DEF StoryInv, RestInv
    <3> QED
      BY <3>1, <3>2
  <2> QED
    BY <1>2, <1>9, <2>1 DEF RestInv
<1> QED
  BY <1>16, <1>17, <1>18, <1>19, <1>20 DEF StoryInv

\* An upload begins: the story has no file and no task yet.
LEMMA StoryInvUpload ==
  ASSUME StoryInv, Handling, NEW p \in Slots, Upload(p)
  PROVE  StoryInv' /\ DOMAIN stories \subseteq DOMAIN stories'
<1>1. PICK u \in Authors, video \in BOOLEAN : stories' = Append(stories, Accepted(u, video))
  BY DEF Upload
<1>2. PICK x, s, r : x = Accepted(u, video) /\ s = Len(stories) + 1 /\ r = [NoReq EXCEPT !.kind = "upload", !.id = Len(stories) + 1]
  OBVIOUS
<1>3. /\ Len(stories) < MaxStories /\ Start(p, "write", r, {}) /\ UNCHANGED <<disk, tasks, doomed>>
      /\ stories' = Append(stories, x)
  BY <1>1, <1>2 DEF Upload
<1>4. r.kind = "upload" /\ r.id = s
  BY <1>2 DEF NoReq
<1>5. Only(p) /\ req[p] = NoReq /\ pc[p] = "idle" /\ pc'[p] = "write" /\ req'[p] = r
  BY <1>3, StartIs
<1>6. /\ x \in Rows /\ Sound(x) /\ InUpload("write", x, {})
  BY <1>2 DEF Accepted, Rows, Sound, InUpload
<1>7. /\ Len(stories) \in Nat /\ DOMAIN stories = 1..Len(stories) /\ stories \in Seq(Rows)
      /\ s \in StoryIds /\ s \in Nat \ DOMAIN stories /\ Len(stories) + 1 <= MaxStories
  BY <1>2, <1>3, StoredIs, StoriesAssumption DEF StoryIds
<1>8. On(disk, s) = {} /\ tasks[s] = "none"
  BY <1>7 DEF StoryInv, Stored
<1>9. /\ stories' \in Seq(Rows) /\ Len(stories') = Len(stories) + 1 /\ DOMAIN stories' = 1..(Len(stories) + 1)
      /\ \A k \in DOMAIN stories : stories'[k] = stories[k]
      /\ stories'[s] = x
  <2>1. stories' \in Seq(Rows)
    BY <1>3, <1>6, <1>7, AppendProperties
  <2> QED
    BY <1>2, <1>3, <1>6, <1>7, <2>1, AppendProperties, LenProperties
<1>10. DOMAIN stories' = DOMAIN stories \union {s}
  BY <1>2, <1>7, <1>9
<1>11. ~Doomed(doomed, s)
  BY <1>7 DEF Doomed, StoryInv, DoomedInv
<1>12. \A q \in Slots : q # p => req'[q] = req[q] /\ pc'[q] = pc[q]
  BY <1>5 DEF Only
<1>13. Stored'
  <2>1. \A k \in DOMAIN stories' : Sound(stories'[k])
    BY <1>6, <1>9, <1>10 DEF StoryInv, Stored
  <2>2. \A k \in Nat \ DOMAIN stories' : On(disk, k) = {} /\ (k \in StoryIds => tasks[k] = "none")
    BY <1>10 DEF StoryInv, Stored
  <2> QED
    BY <1>3, <1>7, <1>9, <2>1, <2>2 DEF StoryInv, Stored
<1>14. UploadsInv'
  <2>1. ASSUME NEW q \in Slots, req'[q].kind = "upload"
        PROVE  /\ req'[q].id \in DOMAIN stories' /\ tasks'[req'[q].id] = "none" /\ ~Doomed(doomed', req'[q].id)
               /\ InUpload(pc'[q], stories'[req'[q].id], On(disk', req'[q].id))
    <3>1. CASE q = p
      BY <1>3, <1>4, <1>5, <1>6, <1>8, <1>9, <1>10, <1>11, <3>1
    <3>2. CASE q # p
      <4>1. PICK k : k = req[q].id
        OBVIOUS
      <4>2. req'[q].id = k /\ pc'[q] = pc[q] /\ req[q].kind = "upload"
        BY <1>12, <2>1, <3>2, <4>1
      <4>3. k \in DOMAIN stories /\ tasks[k] = "none" /\ ~Doomed(doomed, k) /\ InUpload(pc[q], stories[k], On(disk, k))
        BY <4>1, <4>2 DEF StoryInv, UploadsInv
      <4> QED
        BY <1>3, <1>9, <1>10, <4>2, <4>3
    <3> QED
      BY <3>1, <3>2
  <2>2. ASSUME NEW a \in Slots, NEW b \in Slots, a # b, req'[a].kind = "upload", req'[b].kind = "upload"
        PROVE  req'[a].id # req'[b].id
    <3>1. \A q \in Slots : q # p /\ req'[q].kind = "upload" => req[q].kind = "upload" /\ req'[q].id = req[q].id /\ req[q].id # s
      BY <1>7, <1>12 DEF StoryInv, UploadsInv
    <3> QED
      BY <1>4, <1>5, <2>2, <3>1 DEF StoryInv, UploadsInv
  <2> QED
    BY <2>1, <2>2 DEF UploadsInv
<1>15. DoomedInv'
  <2>1. \A q \in Slots : doomed[q] # {} => q # p /\ pc'[q] = pc[q]
    BY <1>5, <1>12 DEF StoryInv, DoomedInv, Removing
  <2>2. \A q \in Slots : doomed[q] # {} <=> pc'[q] \in Removing
    BY <1>5, <1>12 DEF StoryInv, DoomedInv, Removing
  <2>3. \A q \in Slots : \A t \in doomed[q] : t.id \in DOMAIN stories /\ t.id \in DOMAIN stories' /\ stories'[t.id] = stories[t.id]
    BY <1>9, <1>10 DEF StoryInv, DoomedInv
  <2> QED
    BY <1>3, <2>1, <2>2, <2>3 DEF StoryInv, DoomedInv
<1>16. TasksInv'
  BY <1>3, <1>8, <1>9, <1>10 DEF StoryInv, TasksInv
<1>17. RestInv'
  <2>1. ASSUME NEW k \in DOMAIN stories', tasks[k] = "none", ~Uploaded(req', k), ~Doomed(doomed, k)
        PROVE  Settled(stories'[k], On(disk, k))
    <3>1. k # s
      BY <1>4, <1>5, <2>1 DEF Uploaded
    <3>2. k \in DOMAIN stories
      BY <1>10, <3>1
    <3>3. ~Uploaded(req, k)
      BY <1>5, <1>12, <2>1, NoReqIs DEF Uploaded
    <3> QED
      BY <1>9, <2>1, <3>2, <3>3 DEF StoryInv, RestInv
  <2> QED
    BY <1>3, <2>1 DEF RestInv
<1> QED
  BY <1>10, <1>13, <1>14, <1>15, <1>16, <1>17 DEF StoryInv

\* A deletion or the sweep is asked for.
LEMMA StoryInvAsked ==
  ASSUME StoryInv, Handling, NEW p \in Slots, DeleteStory(p) \/ Sweep(p)
  PROVE  StoryInv' /\ UNCHANGED stories
<1>1. UNCHANGED storyVars
  BY DEF DeleteStory, Sweep
<1>2. PICK at \in {"findStory", "findExpired"}, k \in {"deleteStory", "sweep"} :
        \E r : Start(p, at, r, {}) /\ r.kind = k
  <2>1. CASE DeleteStory(p)
    <3>1. PICK u \in Authors, s \in DOMAIN stories :
            Start(p, "findStory", [NoReq EXCEPT !.kind = "deleteStory", !.user = u, !.id = s], {})
      BY <2>1 DEF DeleteStory
    <3>2. PICK r : r = [NoReq EXCEPT !.kind = "deleteStory", !.user = u, !.id = s]
      OBVIOUS
    <3>3. Start(p, "findStory", r, {}) /\ r.kind = "deleteStory"
      BY <3>1, <3>2 DEF NoReq
    <3> QED
      BY <3>3
  <2>2. CASE Sweep(p)
    <3>1. PICK r : r = [NoReq EXCEPT !.kind = "sweep"]
      OBVIOUS
    <3>2. Start(p, "findExpired", r, {}) /\ r.kind = "sweep"
      BY <2>2, <3>1 DEF Sweep, NoReq
    <3> QED
      BY <3>2
  <2> QED
    BY <2>1, <2>2
<1>3. Only(p) /\ req[p] = NoReq /\ pc[p] = "idle" /\ pc'[p] = at /\ req'[p].kind = k
  BY <1>2, StartIs
<1>4. req[p].kind # "upload" /\ req'[p].kind # "upload" /\ pc[p] \notin Removing /\ pc'[p] \notin Removing
  BY <1>3, NoReqIs DEF Removing
<1> QED
  BY <1>1, <1>3, <1>4, StoryInvStays DEF Only, storyVars

\* What has happened stays in the history.
LEMMA CalmBack == ASSUME met \subseteq met', CalmDisk' PROVE CalmDisk
BY DEF CalmDisk

\* After a fault nothing is claimed.
LEMMA NoFault == ASSUME Fault PROVE ~CalmDisk'
BY DEF Fault, CalmDisk

\* What a step of the stories' handlers and tasks does to the table.
LEMMA StoriesStay ==
  ASSUME stories \in Seq(Rows), StoriesNext, CalmDisk', \A p \in Slots : ~Upload(p)
  PROVE  DOMAIN stories' = DOMAIN stories
<1>1. ASSUME NEW p \in Slots, DeleteStory(p) \/ Sweep(p) \/ Write(p) \/ Undo(p) \/ Unlink(p) \/ UnlinkThumbnail(p)
                              \/ FindStory(p) \/ FindExpired(p)
      PROVE  stories' = stories
  BY <1>1 DEF DeleteStory, Sweep, Write, Undo, Unlink, UnlinkThumbnail, FindStory, FindExpired, Dooms, storyVars
<1>2. ASSUME NEW p \in Slots, Thumbnail(p) \/ SaveStory(p) \/ DeleteRow(p)
      PROVE  DOMAIN stories' = DOMAIN stories
  BY <1>2 DEF Thumbnail, SaveStory, DeleteRow
<1>3. ASSUME NEW p \in Slots, StoryFails(p) PROVE FALSE
  BY <1>3, NoFault DEF StoryFails
<1>4. ASSUME NEW s, Expires(s) \/ Compresses(s) PROVE DOMAIN stories' = DOMAIN stories
  BY <1>4 DEF Expires, Compresses, Compress, Encoded, Stat, UnlinkOriginal, UnlinkCompressed, Point, Processed
<1>5. ASSUME NEW s, TaskFails(s) PROVE FALSE
  BY <1>5, NoFault DEF TaskFails
<1> QED
  BY <1>1, <1>2, <1>3, <1>4, <1>5 DEF StoriesNext, Compresses

\* The invariant of the stories.
DiskInv == CalmDisk => StoryInv /\ DeletesInv

\* There are no stories and no files.
LEMMA DiskInvInit == ASSUME Init PROVE DiskInv
<1>1. /\ stories = <<>> /\ disk = {} /\ tasks = [s \in StoryIds |-> "none"] /\ doomed = [p \in Slots |-> {}]
      /\ \A p \in Slots : pc[p] = "idle" /\ req[p].kind = "none"
  BY NoReqIs DEF Init, HandlersInit, StoriesInit
<1>2. stories \in Seq(Rows) /\ Len(stories) = 0 /\ DOMAIN stories = {}
  BY <1>1
<1>3. Stored
  BY <1>1, <1>2, StoriesAssumption DEF Stored, On
<1>4. UploadsInv /\ DoomedInv /\ TasksInv /\ RestInv /\ DeletesInv
  BY <1>1, <1>2 DEF UploadsInv, DoomedInv, TasksInv, RestInv, DeletesInv, Removing
<1> QED
  BY <1>3, <1>4 DEF DiskInv, StoryInv

\* Steps of the accounts and of Grok leave the stories alone.
LEMMA DiskInvAside ==
  ASSUME DiskInv, Handling, Handling', NEW K, Aside(K), StoryKinds \subseteq K, UNCHANGED storyVars
  PROVE  DiskInv'
<1> SUFFICES ASSUME CalmDisk' PROVE StoryInv' /\ DeletesInv'
  BY DEF DiskInv
<1>1. StoryInv /\ DeletesInv
  BY CalmBack DEF DiskInv, Aside
<1>2. \A q \in Slots : req'[q].kind \in StoryKinds \/ req[q].kind \in StoryKinds => req'[q] = req[q] /\ pc'[q] = pc[q]
  BY DEF Aside
<1>3. \A q \in Slots : /\ pc[q] \in Removing => req[q].kind \in StoryKinds
                       /\ pc'[q] \in Removing => req'[q].kind \in StoryKinds
  BY DEF Handling, Stands, Removing, StoryKinds
<1>4. StoryInv'
  BY <1>1, <1>2, <1>3, StoryInvStays DEF StoryKinds
<1>5. DeletesInv'
  BY <1>1, <1>2 DEF DeletesInv, storyVars, StoryKinds
<1> QED
  BY <1>4, <1>5

\* Every step keeps DiskInv.
LEMMA DiskInvNext ==
  ASSUME DiskInv, Handling, Handling', [Next]_vars
  PROVE  DiskInv'
<1>1. CASE AccountsNext /\ UNCHANGED <<storyVars, grokVars>>
  <2>1. Aside(StoryKinds \union {"ask"})
    BY <1>1, AccountsMove
  <2> QED
    BY <1>1, <2>1, DiskInvAside
<1>2. CASE GrokNext /\ UNCHANGED <<accountVars, storyVars>>
  <2>1. Aside(AccountKinds \union StoryKinds)
    BY <1>2, GrokMoves
  <2> QED
    BY <1>2, <2>1, DiskInvAside
<1>3. CASE Restart
  BY <1>3, NoFault DEF Restart, DiskInv
<1>4. CASE UNCHANGED vars
  <2>1. UNCHANGED storyVars /\ UNCHANGED <<pc, req, met>>
    BY <1>4 DEF vars, handlerVars
  <2>2. Aside(StoryKinds)
    BY <2>1 DEF Aside
  <2> QED
    BY <2>1, <2>2, DiskInvAside
<1>5. CASE StoriesNext
  <2> SUFFICES ASSUME CalmDisk' PROVE StoryInv' /\ DeletesInv'
    BY DEF DiskInv
  <2>0. met \subseteq met' /\ StoryInv /\ DeletesInv
    <3>1. met \subseteq met'
      BY <1>5, StoriesMove DEF Aside
    <3> QED
      BY <3>1, CalmBack DEF DiskInv
  <2>1. ASSUME NEW p \in Slots, StoryFails(p) PROVE FALSE
    BY <2>1, NoFault DEF StoryFails
  <2>2. ASSUME NEW s, TaskFails(s) PROVE FALSE
    BY <2>2, NoFault DEF TaskFails
  <2>3. ASSUME NEW p \in Slots, Undo(p) PROVE FALSE
    BY <2>0, <2>3 DEF Undo, Handling, Stands, StoryInv, UploadsInv, InUpload
  <2>4. StoryInv'
    <3>1. ASSUME NEW p \in Slots, Upload(p) \/ DeleteStory(p) \/ Sweep(p) PROVE StoryInv'
      BY <2>0, <3>1, StoryInvUpload, StoryInvAsked
    <3>2. ASSUME NEW p \in Slots, StoryHandle(p) PROVE StoryInv'
      BY <2>0, <2>1, <2>3, <3>2, StoryInvUploads, StoryInvFinds, StoryInvUnlinks, StoryInvDeleteRow DEF StoryHandle
    <3>3. ASSUME NEW s \in DOMAIN stories, Expires(s) \/ Compresses(s) PROVE StoryInv'
      BY <2>0, <3>3, StoryInvExpires, StoryInvCompresses
    <3> QED
      BY <1>5, <2>2, <3>1, <3>2, <3>3 DEF StoriesNext, StoryHandle, Compresses
  <2>5. DOMAIN stories \subseteq DOMAIN stories'
    <3>1. CASE \E p \in Slots : Upload(p)
      BY <2>0, <3>1, StoryInvUpload
    <3>2. CASE \A p \in Slots : ~Upload(p)
      <4>1. stories \in Seq(Rows)
        BY <2>0, StoredIs
      <4> QED
        BY <1>5, <3>2, <4>1, StoriesStay
    <3> QED
      BY <3>1, <3>2
  <2>6. ASSUME NEW q \in Slots, req'[q].kind = "deleteStory" PROVE req'[q].id \in DOMAIN stories
    <3>1. ASSUME NEW p \in Slots, DeleteStory(p) PROVE req'[q].id \in DOMAIN stories
      <4>1. PICK u \in Authors, s \in DOMAIN stories :
              Start(p, "findStory", [NoReq EXCEPT !.kind = "deleteStory", !.user = u, !.id = s], {})
        BY <3>1 DEF DeleteStory
      <4>2. PICK r : r = [NoReq EXCEPT !.kind = "deleteStory", !.user = u, !.id = s]
        OBVIOUS
      <4>3. Only(p) /\ req'[p] = r /\ r.id = s
        BY <4>1, <4>2, StartIs DEF NoReq
      <4>4. q # p => req'[q] = req[q]
        BY <4>3 DEF Only
      <4> QED
        BY <2>0, <2>6, <4>3, <4>4 DEF DeletesInv
    <3>2. ASSUME NEW p \in Slots, Upload(p) \/ Sweep(p) PROVE req'[q].id \in DOMAIN stories
      <4>1. \E at, r : Start(p, at, r, {}) /\ r.kind # "deleteStory"
        <5>1. CASE Upload(p)
          <6>1. PICK r : r = [NoReq EXCEPT !.kind = "upload", !.id = Len(stories) + 1]
            OBVIOUS
          <6>2. Start(p, "write", r, {}) /\ r.kind = "upload"
            BY <5>1, <6>1 DEF Upload, NoReq
          <6> QED
            BY <6>2
        <5>2. CASE Sweep(p)
          <6>1. PICK r : r = [NoReq EXCEPT !.kind = "sweep"]
            OBVIOUS
          <6>2. Start(p, "findExpired", r, {}) /\ r.kind = "sweep"
            BY <5>2, <6>1 DEF Sweep, NoReq
          <6> QED
            BY <6>2
        <5> QED
          BY <3>2, <5>1, <5>2
      <4>2. Only(p) /\ req'[p].kind # "deleteStory"
        BY <4>1, StartIs
      <4> QED
        BY <2>0, <2>6, <4>2 DEF DeletesInv, Only
    <3>3. ASSUME NEW p \in Slots, StoryHandle(p) PROVE req'[q].id \in DOMAIN stories
      BY <2>0, <2>6, <3>3, StoryHandles, NoReqIs DEF DeletesInv, Only
    <3>4. ASSUME NEW s, Expires(s) \/ Compresses(s) PROVE req' = req
      BY <3>4 DEF Expires, Compresses, Compress, Encoded, Stat, UnlinkOriginal, UnlinkCompressed, Point, Processed, Task,
                  handlerVars
    <3> QED
      BY <1>5, <2>0, <2>2, <2>6, <3>1, <3>2, <3>3, <3>4 DEF StoriesNext, StoryHandle, Compresses, DeletesInv
  <2>7. DeletesInv'
    BY <2>5, <2>6 DEF DeletesInv
  <2> QED
    BY <2>4, <2>7
<1> QED
  BY <1>1, <1>2, <1>3, <1>4, <1>5 DEF Next

\* The files of a story and its row agree whenever nothing is done to it,
\* until something fails or a story is deleted while it is compressed
\* (services/story.service.ts).
THEOREM FilesMatchRows == Spec => []CalmDiskMatches
<1>1. Init => DiskInv
  BY DiskInvInit
<1>2. DiskInv /\ Handling /\ Handling' /\ [Next]_vars => DiskInv'
  BY DiskInvNext
<1>3. DiskInv => CalmDiskMatches
  BY DEF DiskInv, CalmDisk, StoryInv, RestInv, Settled, On, Uploaded, Doomed, CalmDiskMatches, Uploading, Deleting
<1> QED
  BY <1>1, <1>2, <1>3, HandlingKept, PTL DEF Spec
=============================================================================
