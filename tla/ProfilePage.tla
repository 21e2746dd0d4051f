------------------------------ MODULE ProfilePage ------------------------------
(***************************************************************************)
(* The page of a profile, profile/profile.component of the front end: the  *)
(* user's own at /profile and somebody else's at /profile/:userId, which   *)
(* are two routes and so never the same component.                         *)
(*                                                                         *)
(* accounts is what the server holds of the two people.  A call is sent,   *)
(* served and answered, each served in one step here (Accounts has the     *)
(* steps inside).  When a read was served only matters when accounts has   *)
(* changed since: every change lets any of the reads under way be served   *)
(* just before it, and the others are served when they are answered.  The  *)
(* fields of the edit form are bio, which stands for all the user can type *)
(* in, and city, which has no input and is written all the same.  Left     *)
(* out: the files of the photos, the other people's likes, the amounts of  *)
(* deposits, friends, gifts, interests, and the links to chat and calls.   *)
(***************************************************************************)
EXTENDS Browser

CONSTANT
  MaxPhotos  \* bound: photos ever made by an account, the first of them at the start

ASSUME ProfilePageAssumption == MaxPhotos \in Nat \ {0}

VARIABLES
  accounts,      \* the server: photos, picture, likes, text, tokens, verification
  profile,       \* the fields of ProfileComponent
  profileCalls,  \* the calls of the page
  profileMet,    \* history: what an accident has put out of date
  wanted         \* history: the text of the profile as the user wrote it

profileVars == <<accounts, profile, profileCalls, profileMet, wanted>>

Fields == {"bio", "city"}

Blank == [f \in Fields |-> ""]

OldText == [f \in Fields |-> "old"]

Unrequested == [request |-> "none", verified |-> FALSE]

\* user: currentUser is there, badge and city of it; known: userProfile is
\* there; open: the edit dialog, early: opened on what is not the profile.
NoProfile ==
  [user |-> FALSE, badge |-> 0, city |-> "", known |-> FALSE, text |-> Blank,
   photos |-> <<>>, liked |-> {}, picture |-> 0, tokens |-> 0,
   status |-> [Unrequested EXCEPT !.request = "unknown"],
   loading |-> FALSE, uploading |-> FALSE, depositing |-> FALSE, verifying |-> FALSE,
   open |-> FALSE, early |-> FALSE, form |-> Blank, dirty |-> FALSE]

\* Only the other one may have chosen not to appear in searches.
ProfileInit ==
  /\ accounts \in {a \in [{"profile", "visit"} ->
                            [made : {1}, photos : {{1}}, picture : {1}, liked : {{}}, text : {OldText},
                             tokens : {0}, status : {Unrequested}, hidden : BOOLEAN]] : ~a["profile"].hidden}
  /\ profile = NoProfile
  /\ profileCalls = <<>>
  /\ profileMet = {}
  /\ wanted = OldText

-----------------------------------------------------------------------------
(***************************************************************************)
(* Calls, and what of the page is out of date when it does not hear of one. *)
(***************************************************************************)
ProfileReads == {"user", "text", "photos", "picture", "status", "visit"}

ProfileWrites ==
  {"upload", "portrait", "setPicture", "deletePhoto", "like", "unlike", "name", "save", "deposit",
   "verify"}

ProfileMisses(kind) ==
  CASE kind = "user" -> {"user", "tokens"}
    [] kind \in {"text", "photos", "picture", "status", "visit"} -> {kind}
    [] kind = "upload" -> {"photos"}
    [] kind = "portrait" -> {"photos", "picture", "user"}
    [] kind = "setPicture" -> {"picture", "user"}
    [] kind = "deletePhoto" -> {"photos", "liked"}
    [] kind \in {"like", "unlike"} -> {"liked"}
    [] kind \in {"name", "save"} -> {"text", "user"}
    [] kind = "deposit" -> {"tokens"}
    [] kind = "verify" -> {"status"}

\* After n of the calls were served there is news of these things, and what the
\* ones that are not answered yet say of them is old.
ProfileOutdated(calls, n, things) ==
  [i \in 1..Len(calls) |->
     IF i <= n /\ calls[i].at = "served"
     THEN [calls[i] EXCEPT !.late = @ \union (ProfileMisses(calls[i].kind) \intersect things)]
     ELSE calls[i]]

Ask(kind, arg) == Call(kind, [whose |-> route.page, what |-> arg])

LoadCurrentUser == <<Ask("user", 0)>>

LoadUserProfile == <<Ask("text", 0)>>

LoadUserPhotos == <<Ask("photos", 0)>>

LoadProfilePicture == <<Ask("picture", 0)>>

LoadVerificationStatus == <<Ask("status", 0)>>

LoadOtherUserProfile == <<Ask("visit", 0)>>

OnProfile == Shows("profile") \/ Shows("visit")

Awaits(kinds) == \E j \in 1..Len(profileCalls) : ~profileCalls[j].deaf /\ profileCalls[j].kind \in kinds

\* A save whose two calls are not both over may stay half done.
Abandoned == IF Awaits({"name", "save"}) THEN {"edit"} ELSE profileMet \intersect {"edit"}

\* ngOnInit, at a place the router is going to.
EnterProfile(page) ==
  LET asked == IF page = "visit" THEN LoadOtherUserProfile
               ELSE LoadCurrentUser \o LoadUserProfile \o LoadUserPhotos \o LoadProfilePicture
  IN  /\ profile' = [NoProfile EXCEPT !.loading = TRUE]
      /\ profileCalls' = Unheard(profileCalls, ProfileWrites)
                           \o [i \in 1..Len(asked) |-> [asked[i] EXCEPT !.arg.whose = page]]
      /\ profileMet' = Abandoned
      /\ UNCHANGED <<accounts, wanted>>

LeaveProfile ==
  /\ profile' = NoProfile
  /\ profileCalls' = Unheard(profileCalls, ProfileWrites)
  /\ profileMet' = Abandoned
  /\ UNCHANGED <<accounts, wanted>>

-----------------------------------------------------------------------------
(***************************************************************************)
(* Clicks.  The edit dialog covers the page.                               *)
(***************************************************************************)
AsksFor(calls) ==
  /\ Len(profileCalls) + Len(calls) <= MaxCalls
  /\ profileCalls' = Sent(profileCalls, calls)

ClicksOn(page) == Shows(page) /\ ~profile.open /\ Click

OnPhotoUpload ==
  /\ ClicksOn("profile")
  /\ AsksFor(<<Ask("upload", 0)>>)
  /\ profile' = [profile EXCEPT !.uploading = TRUE]
  /\ UNCHANGED <<accounts, profileMet, wanted>>

OnProfilePictureUpload ==
  /\ ClicksOn("profile")
  /\ AsksFor(<<Ask("portrait", 0)>>)
  /\ profile' = [profile EXCEPT !.uploading = TRUE]
  /\ UNCHANGED <<accounts, profileMet, wanted>>

\* The button of the photo that is the picture is not shown.
SetPhotoAsProfilePicture(i) ==
  /\ ClicksOn("profile")
  /\ i \in ToSet(profile.photos) /\ profile.badge # i
  /\ AsksFor(<<Ask("setPicture", i)>>)
  /\ UNCHANGED <<accounts, profile, profileMet, wanted>>

DeletePhoto(i) ==
  /\ ClicksOn("profile")
  /\ i \in ToSet(profile.photos)
  /\ AsksFor(<<Ask("deletePhoto", i)>>)
  /\ UNCHANGED <<accounts, profile, profileMet, wanted>>

TogglePhotoLike(i) ==
  /\ ClicksOn(route.page) /\ OnProfile
  /\ i \in ToSet(profile.photos)
  /\ AsksFor(<<Ask(IF i \in profile.liked THEN "unlike" ELSE "like", i)>>)
  /\ UNCHANGED <<accounts, profile, profileMet, wanted>>

\* Mutant: the city, which has no input, is not copied to the form.
FormOfInputs == [Blank EXCEPT !["bio"] = profile.text["bio"]]

\* What the form is filled with: what the page knows of the profile by then.
FormFilled == profile.text

OpenEditDialog ==
  /\ ClicksOn("profile")
  /\ AsksFor(LoadVerificationStatus)
  /\ profile' = [profile EXCEPT !.open = TRUE, !.form = FormFilled, !.dirty = FALSE,
                                !.early = ~profile.known \/ Awaits({"text", "name", "save"})
                                            \/ "text" \in profileMet]
  /\ UNCHANGED <<accounts, profileMet, wanted>>

Types ==
  /\ profile.open /\ ~profile.dirty
  /\ profile' = [profile EXCEPT !.form["bio"] = "new", !.dirty = TRUE]
  /\ Unprompted
  /\ UNCHANGED <<accounts, profileCalls, profileMet, wanted>>

\* Nothing happens before the user is there. The dialog stays open until both
\* calls are done, its button enabled.
SaveProfile ==
  /\ profile.open /\ profile.dirty /\ profile.user /\ Click
  /\ AsksFor(<<Ask("name", [city |-> profile.city, form |-> profile.form])>>)
  /\ profileMet' = profileMet \union IF profile.early THEN {"edit"} ELSE {}
  /\ UNCHANGED <<accounts, profile, wanted>>

CancelEdit ==
  /\ profile.open /\ Click
  /\ profile' = [profile EXCEPT !.open = FALSE]
  /\ UNCHANGED <<accounts, profileCalls, profileMet, wanted>>

SubmitDeposit ==
  /\ ClicksOn("profile") /\ ~profile.depositing
  /\ AsksFor(<<Ask("deposit", 0)>>)
  /\ profile' = [profile EXCEPT !.depositing = TRUE]
  /\ UNCHANGED <<accounts, profileMet, wanted>>

\* Not while a request is pending or the user is verified, as far as is known.
UploadVerificationPhoto ==
  /\ profile.open /\ ~profile.status.verified /\ profile.status.request # "pending"
  /\ ~profile.verifying /\ Click
  /\ AsksFor(<<Ask("verify", 0)>>)
  /\ profile' = [profile EXCEPT !.verifying = TRUE]
  /\ UNCHANGED <<accounts, profileMet, wanted>>

-----------------------------------------------------------------------------
(***************************************************************************)
(* The server.                                                             *)
(***************************************************************************)
\* What a write does to the account it is about.
ProfileDoes(a, kind, what) ==
  CASE kind = "upload" -> [a EXCEPT !.photos = @ \union {a.made + 1}, !.made = @ + 1]
    [] kind = "portrait" -> [a EXCEPT !.photos = @ \union {a.made + 1}, !.made = @ + 1,
                                      !.picture = a.made + 1]
    [] kind = "setPicture" -> [a EXCEPT !.picture = what]
    [] kind = "deletePhoto" -> [a EXCEPT !.photos = @ \ {what}, !.liked = @ \ {what}]
    [] kind = "like" -> [a EXCEPT !.liked = @ \union {what}]
    [] kind = "unlike" -> [a EXCEPT !.liked = @ \ {what}]
    [] kind = "name" -> [a EXCEPT !.text["city"] = IF what.city = "unsent" THEN @ ELSE what.city]
    [] kind = "save" -> [a EXCEPT !.text = what]
    [] kind = "deposit" -> [a EXCEPT !.tokens = @ + 1]
    [] kind = "verify" -> [a EXCEPT !.status.request = "pending"]

\* The photo that is the picture is never let go: deletePhoto looks for it by a
\* text where the profile has a number, and the tables refuse.
Allows(a, kind, what) ==
  CASE kind = "setPicture" -> what \in a.photos
    [] kind = "deletePhoto" -> what \in a.photos \ {a.picture}
    [] kind = "like" -> what \in a.photos \ a.liked
    [] kind = "unlike" -> what \in a.liked
    [] OTHER -> TRUE

Newest(set) ==
  [k \in 1..Cardinality(set) |-> CHOOSE i \in set : Cardinality({j \in set : j >= i}) = k]

\* What the reads find, put in the fields of the page they are for.
GetUser(page, a) ==
  [page EXCEPT !.user = TRUE, !.badge = a.picture, !.city = a.text["city"], !.tokens = a.tokens]

GetUserProfile(page, a) == [page EXCEPT !.known = TRUE, !.text = a.text]

\* Somebody who does not appear in searches has no profile for others.
GetUserProfileByUserId(page, a) == IF a.hidden THEN {} ELSE {GetUserProfile(page, a)}

\* The view of the profile is recorded and told meanwhile, and changes nothing
\* here.
GetUserById(page, a) == {GetUser(other, a) : other \in GetUserProfileByUserId(page, a)}

\* Everybody's photos, with the likes of the one who asks. The friends check of
\* another one's photos is a comment.
GetUserPhotos(page, a) == [page EXCEPT !.photos = Newest(a.photos)]

MapPhotosToDTO(page, a) == [GetUserPhotos(page, a) EXCEPT !.liked = a.liked]

\* The photo whose id the profile has; without one a drawing, so that an old
\* picture never stays on the screen.
GetProfilePicture(page, a) == [page EXCEPT !.picture = a.picture]

GetVerificationStatus(page, a) == [page EXCEPT !.status = a.status]

\* What a read finds: what it found, or what there is.
Found(call) == IF call.at = "served" THEN call.got ELSE accounts[call.arg.whose]

\* The reads of these things that may have been served by now.
Unserved(calls, whose, things) ==
  {i \in 1..Len(calls) :
     /\ calls[i].at = "sent" /\ calls[i].kind \in ProfileReads /\ calls[i].arg.whose = whose
     /\ ProfileMisses(calls[i].kind) \intersect things # {}}

\* The calls when these were, each after the ones served before.
ServedFirst(calls, early) ==
  Part(calls, (1..Len(calls)) \ early)
    \o Part([i \in 1..Len(calls) |-> [calls[i] EXCEPT !.at = "served", !.got = Found(calls[i])]], early)

ServeProfile(j) ==
  LET c == profileCalls[j]
      old == accounts[c.arg.whose]
      new == ProfileDoes(old, c.kind, c.arg.what)
      others == RemoveAt(profileCalls, j)
      things == ProfileMisses(c.kind)
  IN  /\ c.at = "sent" /\ c.kind \in ProfileWrites
      /\ Allows(old, c.kind, c.arg.what) /\ new.made <= MaxPhotos
      /\ accounts' = [accounts EXCEPT ![c.arg.whose] = new]
      /\ \E early \in SUBSET Unserved(others, c.arg.whose, things) :
           LET calls == ServedFirst(others, early)
           IN  profileCalls' = IF c.deaf THEN ProfileOutdated(calls, Len(calls), things)
                               ELSE Append(calls, [c EXCEPT !.at = "served", !.got = new])
      /\ profileMet' = IF c.deaf THEN profileMet \union things ELSE profileMet
      /\ wanted' = IF c.kind = "save" THEN [wanted EXCEPT !["bio"] = "new"] ELSE wanted
      /\ Unprompted
      /\ UNCHANGED profile

\* Somebody who was not heard asks for what cannot be done any more.
Ignored(j) ==
  LET c == profileCalls[j]
  IN  /\ c.deaf /\ ~Allows(accounts[c.arg.whose], c.kind, c.arg.what)
      /\ profileCalls' = RemoveAt(profileCalls, j)
      /\ Unprompted
      /\ UNCHANGED <<accounts, profile, profileMet, wanted>>

\* An administrator answers the verification request, while the page is shown;
\* the room of the user is told.
AdminReviews(status) ==
  /\ Shows("profile") /\ accounts["profile"].status.request = "pending"
  /\ accounts' = [accounts EXCEPT !["profile"].status =
                    [request |-> status, verified |-> @.verified \/ status = "verified"]]
  /\ \E early \in SUBSET Unserved(profileCalls, "profile", {"status"}) :
       LET calls == ServedFirst(profileCalls, early)
       IN  IF Online
           THEN /\ Len(calls) < MaxCalls
                /\ profileCalls' = Sent(calls, LoadVerificationStatus)
                /\ UNCHANGED profileMet
           ELSE /\ profileCalls' = ProfileOutdated(calls, Len(calls), {"status"})
                /\ profileMet' = profileMet \union {"status"}
  /\ Happens
  /\ UNCHANGED <<profile, wanted>>

-----------------------------------------------------------------------------
(***************************************************************************)
(* Answers.                                                                *)
(***************************************************************************)
\* A read that was not served yet is served after all that were.
ServedBefore(j) == IF profileCalls[j].at = "served" THEN j - 1 ELSE Len(profileCalls)

Hears(j, kinds, more) ==
  LET c == profileCalls[j]
  IN  /\ c.kind \in kinds
      /\ c.kind \in ProfileReads \/ c.at = "served"
      /\ profileCalls' =
           Sent(RemoveAt(ProfileOutdated(profileCalls, ServedBefore(j), ProfileMisses(c.kind)), j), more)
      /\ Unprompted
      /\ UNCHANGED <<accounts, wanted>>

\* What the answer says of these things is new, or old.
Refreshed(j, things) == (profileMet \ things) \union profileCalls[j].late

CurrentUserLoaded(j) ==
  /\ Hears(j, {"user"}, <<>>)
  /\ profile' = GetUser(profile, Found(profileCalls[j]))
  /\ profileMet' = Refreshed(j, {"user", "tokens"})

UserProfileLoaded(j) ==
  /\ Hears(j, {"text"}, <<>>)
  /\ profile' = GetUserProfile(profile, Found(profileCalls[j]))
  /\ profileMet' = Refreshed(j, {"text"})

UserPhotosLoaded(j) ==
  /\ Hears(j, {"photos"}, <<>>)
  /\ profile' = [MapPhotosToDTO(profile, Found(profileCalls[j])) EXCEPT !.loading = FALSE]
  /\ profileMet' = Refreshed(j, {"photos", "liked"})

ProfilePictureLoaded(j) ==
  /\ Hears(j, {"picture"}, <<>>)
  /\ profile' = GetProfilePicture(profile, Found(profileCalls[j]))
  /\ profileMet' = Refreshed(j, {"picture"})

\* Without a profile the page goes on loading.
OtherUserLoaded(j) ==
  LET found == GetUserById(profile, Found(profileCalls[j]))
  IN  /\ Hears(j, {"visit"}, IF found = {} THEN <<>> ELSE LoadUserPhotos \o LoadProfilePicture)
      /\ profile' \in IF found = {} THEN {profile}
                      ELSE {[other EXCEPT !.loading = FALSE] : other \in found}
      /\ UNCHANGED profileMet

\* When a list it is in was answered before, it is there twice.
PhotoUploaded(j) ==
  /\ Hears(j, {"upload"}, <<>>)
  /\ profile' = [profile EXCEPT !.photos = <<profileCalls[j].got.made>> \o @, !.uploading = FALSE]
  /\ profileMet' = profileMet \union profileCalls[j].late

\* The user these two calls return comes without its profile: no city, and no
\* photo is marked as the picture. A new picture is not put among the photos.
ProfilePictureUploaded(j) ==
  /\ Hears(j, {"portrait"}, LoadProfilePicture)
  /\ profile' = [profile EXCEPT !.badge = 0, !.city = "", !.uploading = FALSE]
  /\ profileMet' = profileMet \union {"user", "photos"}

ProfilePictureSet(j) ==
  /\ Hears(j, {"setPicture"}, LoadProfilePicture)
  /\ profile' = [profile EXCEPT !.badge = 0, !.city = ""]
  /\ profileMet' = profileMet \union {"user"}


PhotoDeleted(j) ==
  LET i == profileCalls[j].arg.what
  IN  /\ Hears(j, {"deletePhoto"}, LoadCurrentUser)
      /\ profile' = [profile EXCEPT !.photos = Without(@, i), !.liked = @ \ {i}]
      /\ UNCHANGED profileMet

\* The photo may be gone from the list.
LikeToggled(j) ==
  LET i == profileCalls[j].arg.what
  IN  /\ Hears(j, {"like", "unlike"}, <<>>)
      /\ profile' = [profile EXCEPT !.liked = IF profileCalls[j].kind = "unlike" THEN @ \ {i}
                                              ELSE @ \union ({i} \intersect ToSet(profile.photos))]
      /\ profileMet' = profileMet \union profileCalls[j].late

\* The second half of a save, with the form as it was.
ProfileNamed(j) ==
  /\ Hears(j, {"name"}, <<Ask("save", profileCalls[j].arg.what.form)>>)
  /\ UNCHANGED <<profile, profileMet>>

ProfileSaved(j) ==
  /\ Hears(j, {"save"}, LoadCurrentUser \o LoadUserProfile)
  /\ profile' = [profile EXCEPT !.open = FALSE]
  /\ UNCHANGED profileMet

Deposited(j) ==
  /\ Hears(j, {"deposit"}, LoadCurrentUser)
  /\ profile' = [profile EXCEPT !.tokens = profileCalls[j].got.tokens, !.depositing = FALSE]
  /\ UNCHANGED profileMet

VerificationUploaded(j) ==
  /\ Hears(j, {"verify"}, LoadVerificationStatus)
  /\ profile' = [profile EXCEPT !.verifying = FALSE]
  /\ UNCHANGED profileMet

VerificationStatusLoaded(j) ==
  /\ Hears(j, {"status"}, <<>>)
  /\ profile' = GetVerificationStatus(profile, Found(profileCalls[j]))
  /\ profileMet' = Refreshed(j, {"status"})

\* The call is refused, or breaks on its way there or back.
ProfileErrs(j) ==
  LET c == profileCalls[j]
  IN  \/ /\ c.at = "sent" /\ ~Allows(accounts[c.arg.whose], c.kind, c.arg.what)
         /\ Unprompted
      \/ Failing

\* What was done and not heard of, and what is left half done: of a save its
\* first call is over when the second one breaks.
Lost(call) ==
  (IF call.at = "served" \/ call.kind \in ProfileReads \union {"save"} THEN ProfileMisses(call.kind) ELSE {})
    \union (IF call.kind = "verify" THEN {"verifying"} ELSE {})
    \union (IF <<call.kind, call.at>> \in {<<"name", "served">>, <<"save", "sent">>} THEN {"edit"} ELSE {})

ProfileFails(j, kinds) ==
  /\ profileCalls[j].kind \in kinds /\ ~profileCalls[j].deaf
  /\ ProfileErrs(j)
  /\ profileCalls' = RemoveAt(ProfileOutdated(profileCalls, Len(profileCalls), Lost(profileCalls[j])), j)
  /\ profileMet' = profileMet \union Lost(profileCalls[j])
  /\ UNCHANGED <<accounts, wanted>>

\* The user of the token stands in for the one that could not be loaded.
CurrentUserFailed(j) ==
  /\ ProfileFails(j, {"user"})
  /\ profile' = [profile EXCEPT !.user = TRUE, !.badge = 0, !.city = "unsent"]

PhotosFailed(j) ==
  /\ ProfileFails(j, {"photos"})
  /\ profile' = [profile EXCEPT !.loading = FALSE]

PhotoUploadFailed(j) ==
  /\ ProfileFails(j, {"upload"})
  /\ profile' = [profile EXCEPT !.uploading = FALSE]

PictureUploadFailed(j) ==
  /\ ProfileFails(j, {"portrait"})
  /\ profile' = [profile EXCEPT !.uploading = FALSE]

DepositFailed(j) ==
  /\ ProfileFails(j, {"deposit"})
  /\ profile' = [profile EXCEPT !.depositing = FALSE]

\* The dialog stays open, whichever of the two calls it was.
SaveFailed(j) ==
  /\ ProfileFails(j, {"name", "save"})
  /\ UNCHANGED profile

\* Its button goes on waiting.
VerificationFailed(j) ==
  /\ ProfileFails(j, {"verify"})
  /\ UNCHANGED profile

PhotoCallFailed(j) ==
  /\ ProfileFails(j, {"setPicture", "deletePhoto", "like", "unlike"})
  /\ UNCHANGED profile

\* Nothing but a line on the console.
ReadFailed(j) ==
  /\ ProfileFails(j, {"text", "picture", "status"})
  /\ UNCHANGED profile

\* The page gives way to the user's own.
OtherUserFailed(j) ==
  /\ profileCalls[j].kind = "visit"
  /\ FailingTo(At("profile", 0))
  /\ EnterProfile("profile")

ProfileNext ==
  \/ OnPhotoUpload \/ OnProfilePictureUpload
  \/ \E i \in 1..MaxPhotos : SetPhotoAsProfilePicture(i) \/ DeletePhoto(i) \/ TogglePhotoLike(i)
  \/ OpenEditDialog \/ Types \/ SaveProfile \/ CancelEdit \/ SubmitDeposit \/ UploadVerificationPhoto
  \/ \E status \in {"verified", "rejected"} : AdminReviews(status)
  \/ \E j \in 1..Len(profileCalls) :
       \/ ServeProfile(j) \/ Ignored(j)
       \/ CurrentUserLoaded(j) \/ UserProfileLoaded(j) \/ UserPhotosLoaded(j) \/ ProfilePictureLoaded(j)
       \/ OtherUserLoaded(j)
       \/ PhotoUploaded(j) \/ ProfilePictureUploaded(j) \/ ProfilePictureSet(j) \/ PhotoDeleted(j)
       \/ LikeToggled(j) \/ ProfileNamed(j) \/ ProfileSaved(j) \/ Deposited(j)
       \/ VerificationUploaded(j) \/ VerificationStatusLoaded(j)
       \/ CurrentUserFailed(j) \/ PhotosFailed(j) \/ PhotoUploadFailed(j) \/ PictureUploadFailed(j)
       \/ DepositFailed(j) \/ SaveFailed(j) \/ VerificationFailed(j) \/ PhotoCallFailed(j)
       \/ ReadFailed(j) \/ OtherUserFailed(j)

-----------------------------------------------------------------------------

\* The profile on the server is as the user wrote it: a save that is over has
\* changed what was typed and nothing else. It fails when the form was opened
\* before the profile was there or on an old one, and when a save was left or
\* failed between its two calls.
EditsKept ==
  "edit" \in profileMet \/ Awaits({"name", "save"}) \/ accounts["profile"].text = wanted
=============================================================================
