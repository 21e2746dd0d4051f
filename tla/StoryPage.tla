------------------------------ MODULE StoryPage ------------------------------
(***************************************************************************)
(* Stories in the front end: story.service, which outlives the pages, and  *)
(* story-home, story-viewer and story-upload.component.                    *)
(*                                                                         *)
(* All stories are of the user of the tab, so the viewer goes through them *)
(* newest first: story k is the k-th uploaded.  Nothing cancels the delays *)
(* of 500 ms after which a video is played, an ended picture gives way to  *)
(* the next story and an uploader goes home: they find the tab where it is *)
(* by then.  A picture is shown for many seconds, so one such delay is     *)
(* over before another begins.  Left out: view counts, thumbnails,         *)
(* sorting, expiry, and the end of a video, which never comes (the element *)
(* has the attribute loop).                                                *)
(***************************************************************************)
EXTENDS Browser

CONSTANTS
  Media,      \* of each story, "image" or "video"
  FirstStory  \* stories there are at the start

ASSUME StoryPageAssumption ==
  Media \in Seq({"image", "video"}) /\ FirstStory \in 1..Len(Media)

VARIABLES
  stored,      \* the server: stories 1..stored
  stories,     \* the fields of StoryService and of StoryUploadComponent
  player,      \* the fields of StoryViewerComponent
  storyCalls,  \* the calls of the service and of the pages
  due,         \* timeouts not run yet, the one of a viewer that was left in pull
  storyMet     \* history: accidents

storyVars == <<stored, stories, player, storyCalls, due, storyMet>>

\* clock: the image timer is running, for this story; list: the number of
\* stories there were when this one was opened.
NoPlayer == [story |-> 0, list |-> 0, media |-> 0, playing |-> FALSE, clock |-> 0]

Stays == At("nowhere", 0)

NoneDue == [play |-> FALSE, next |-> FALSE, home |-> FALSE, pull |-> Stays]

StoryInit ==
  /\ stored = FirstStory
  /\ stories = [made |-> FALSE, known |-> 0, uploading |-> FALSE]
  /\ player = NoPlayer
  /\ storyCalls = <<>>
  /\ due = NoneDue
  /\ storyMet = {}

-----------------------------------------------------------------------------
StoryTells == {<<"list", "list">>, <<"media", "media">>}

StoryWrites == {"upload"}

LoadStories == <<Call("list", 0)>>

IsImage(p) == p.story # 0 /\ Media[p.story] = "image"

IsVideo(p) == p.story # 0 /\ Media[p.story] = "video"

\* Older stories come later.
NextPlace == IF player.story > 1 THEN At("viewer", player.story - 1) ELSE At("stories", 0)

\* The viewer finds the story in the list of the service, or goes back.
Landing(place) ==
  IF place.page = "viewer" /\ place.story > stories.known THEN At("stories", 0) ELSE place

\* The service loads the list when it is made.
Constructor == IF stories.made THEN <<>> ELSE LoadStories

\* loadStory in a viewer: what the last story played, and its clock, go on.
LoadStory(p, k) == [p EXCEPT !.story = k, !.list = stories.known, !.media = 0]

\* What a page left does not hear any more: the service hears of its list.
StoryCallsKept == Part(storyCalls, {i \in 1..Len(storyCalls) : storyCalls[i].kind = "list"})

StoryCallsUnheard == Unheard(storyCalls, StoryWrites)

\* The tab goes from its route to this place: from story to story in the same
\* viewer, in which nothing is stopped, or to another page; pending are the
\* timeouts that have not run.
StoryArrives(place, pending) ==
  /\ stories' = [stories EXCEPT !.made = @ \/ place.page \in {"stories", "viewer", "upload"},
                                !.uploading = FALSE]
  /\ IF Shows("viewer") /\ place.page = "viewer"
     THEN /\ player' = LoadStory(player, place.story)
          /\ storyCalls' = Sent(storyCalls, <<Call("media", place.story)>>)
          /\ due' = pending
     ELSE /\ player' = IF place.page = "viewer" THEN LoadStory(NoPlayer, place.story) ELSE NoPlayer
          /\ storyCalls' =
               StoryCallsKept \o StoryCallsUnheard
                 \o (IF place.page \in {"stories", "viewer", "upload"} THEN Constructor ELSE <<>>)
                 \o (IF place.page = "viewer" THEN <<Call("media", place.story)>> ELSE <<>>)
          /\ due' = [pending EXCEPT !.play = FALSE, !.next = FALSE,
                                    !.pull = IF pending.next THEN NextPlace ELSE @]
  /\ UNCHANGED stored

\* What is left of the accidents: a new viewer, or a story loaded in peace,
\* starts afresh; the answer to an upload goes unheard.
MetAfter(place) ==
  (IF Shows("viewer") /\ place.page = "viewer" THEN storyMet \ {"media"}
   ELSE storyMet \ {"media", "hurried"})
    \union {"list" : j \in {i \in 1..Len(storyCalls) : storyCalls[i].kind = "upload"
                                                  /\ storyCalls[i].at = "served"}}

-----------------------------------------------------------------------------
(***************************************************************************)
(* The viewer.                                                             *)
(***************************************************************************)
\* The user moves on before the story is there, while it runs or ends.
Hurries ==
  Shows("viewer") /\ (player.clock # 0 \/ due.next
                      \/ \E j \in 1..Len(storyCalls) : storyCalls[j].kind = "media")

HurriedTo(place) ==
  IF Hurries /\ place.page = "viewer" THEN MetAfter(place) \union {"hurried"}
  ELSE MetAfter(place) \ {"hurried"}

NextStory ==
  /\ Shows("viewer")
  /\ Len(storyCalls) < MaxCalls
  /\ ClickTo(NextPlace)
  /\ StoryArrives(NextPlace, due)
  /\ storyMet' = HurriedTo(NextPlace)

PreviousStory ==
  /\ Shows("viewer") /\ player.story < player.list
  /\ Len(storyCalls) < MaxCalls
  /\ LET newer == Landing(At("viewer", player.story + 1))
     IN  /\ ClickTo(newer)
         /\ StoryArrives(newer, due)
         /\ storyMet' = HurriedTo(newer)

\* A picture is paused by stopping its clock, and starts over. A video whose
\* file is not there yet plays as soon as it is.
TogglePlayPause ==
  /\ Shows("viewer") /\ Click
  /\ player' = [player EXCEPT !.playing = ~@,
                              !.clock = IF IsVideo(player) THEN @
                                        ELSE IF player.playing THEN 0 ELSE player.story]
  /\ storyMet' = IF player.media # player.story \/ due.next THEN storyMet \union {"hurried"} ELSE storyMet
  /\ UNCHANGED <<stored, stories, storyCalls, due>>

\* The clock stands while a video is shown.
ImageTimerEnds ==
  /\ Shows("viewer") /\ player.clock # 0 /\ player.playing /\ IsImage(player)
  /\ ~due.next /\ due.pull = Stays
  /\ player' = [player EXCEPT !.clock = 0, !.playing = FALSE]
  /\ due' = [due EXCEPT !.next = TRUE]
  /\ Unprompted
  /\ UNCHANGED <<stored, stories, storyCalls, storyMet>>

OnImageTimerEnd ==
  /\ due.next
  /\ UnpromptedTo(NextPlace)
  /\ StoryArrives(NextPlace, [due EXCEPT !.next = FALSE])
  /\ storyMet' = MetAfter(NextPlace)

PlayVideo ==
  /\ due.play
  /\ due' = [due EXCEPT !.play = FALSE]
  /\ player' = [player EXCEPT !.playing = @ \/ IsVideo(player)]
  /\ Unprompted
  /\ UNCHANGED <<stored, stories, storyCalls, storyMet>>

-----------------------------------------------------------------------------
(***************************************************************************)
(* Uploads.                                                                *)
(***************************************************************************)
UploadStory ==
  /\ Shows("upload") /\ ~stories.uploading
  /\ Len(storyCalls) < MaxCalls
  /\ Click
  /\ stories' = [stories EXCEPT !.uploading = TRUE]
  /\ storyCalls' = Sent(storyCalls, <<Call("upload", 0)>>)
  /\ UNCHANGED <<stored, player, due, storyMet>>

\* Nobody hears of an upload whose page was left: the list is not loaded.
ServeUpload(j) ==
  /\ storyCalls[j].kind = "upload" /\ storyCalls[j].at = "sent"
  /\ stored < Len(Media)
  /\ stored' = stored + 1
  /\ storyCalls' = IF storyCalls[j].deaf THEN RemoveAt(storyCalls, j) ELSE Served(storyCalls, j, stored + 1)
  /\ storyMet' = IF storyCalls[j].deaf THEN storyMet \union {"list"} ELSE storyMet
  /\ Unprompted
  /\ UNCHANGED <<stories, player, due>>

ServeList(j) ==
  /\ storyCalls[j].kind = "list" /\ storyCalls[j].at = "sent"
  /\ storyCalls' = Served(storyCalls, j, stored)
  /\ Unprompted
  /\ UNCHANGED <<stored, stories, player, due, storyMet>>

\* Mutant: the list is not loaded again.
UploadedOnly(j) ==
  /\ storyCalls[j].kind = "upload" /\ storyCalls[j].at = "served"
  /\ storyCalls' = RemoveAt(storyCalls, j)
  /\ due' = [due EXCEPT !.home = TRUE]
  /\ Unprompted
  /\ UNCHANGED <<stored, stories, player, storyMet>>

Uploaded(j) ==
  /\ storyCalls[j].kind = "upload" /\ storyCalls[j].at = "served"
  /\ storyCalls' = Sent(RemoveAt(storyCalls, j), LoadStories)
  /\ due' = [due EXCEPT !.home = TRUE]
  /\ Unprompted
  /\ UNCHANGED <<stored, stories, player, storyMet>>

\* From the page of the upload, if the tab still shows it: see Pages.
UploadGoesHome ==
  /\ due.home /\ Shows("upload")
  /\ UnpromptedTo(At("stories", 0))
  /\ StoryArrives(At("stories", 0), [due EXCEPT !.home = FALSE])
  /\ storyMet' = MetAfter(At("stories", 0))

-----------------------------------------------------------------------------
ListLoaded(j) ==
  /\ storyCalls[j].kind = "list" /\ storyCalls[j].at = "served"
  /\ stories' = [stories EXCEPT !.known = storyCalls[j].got]
  /\ storyCalls' = Answered(storyCalls, j, StoryTells)
  /\ storyMet' = IF storyCalls[j].late = {} THEN storyMet ELSE storyMet \union {"list"}
  /\ Unprompted
  /\ UNCHANGED <<stored, player, due>>

\* The file of a story is shown in whatever story the viewer is at, and if
\* that is a picture its clock starts.
Arrived(p, file) ==
  IF IsImage(p) THEN [p EXCEPT !.media = file, !.playing = TRUE, !.clock = p.story]
  ELSE [p EXCEPT !.media = file]

MediaLoaded(j) ==
  /\ storyCalls[j].kind = "media"
  /\ player' = Arrived(player, storyCalls[j].arg)
  /\ due' = [due EXCEPT !.play = @ \/ IsVideo(player)]
  /\ storyCalls' = Answered(storyCalls, j, StoryTells)
  /\ storyMet' = IF storyCalls[j].late = {} THEN storyMet ELSE storyMet \union {"media"}
  /\ Unprompted
  /\ UNCHANGED <<stored, stories>>

\* A file that cannot be loaded counts as an empty one.
MediaFailed(j) ==
  /\ storyCalls[j].kind = "media"
  /\ Failing
  /\ player' = Arrived(player, 0)
  /\ due' = [due EXCEPT !.play = @ \/ IsVideo(player)]
  /\ storyCalls' = RemoveAt(storyCalls, j)
  /\ storyMet' = storyMet \union {"media", "hurried"}
  /\ UNCHANGED <<stored, stories>>

ListFailed(j) ==
  /\ storyCalls[j].kind = "list"
  /\ Failing
  /\ storyCalls' = RemoveAt(storyCalls, j)
  /\ storyMet' = storyMet \union {"list"}
  /\ UNCHANGED <<stored, stories, player, due>>

UploadFailed(j) ==
  /\ storyCalls[j].kind = "upload" /\ ~storyCalls[j].deaf
  /\ Failing
  /\ stories' = [stories EXCEPT !.uploading = FALSE]
  /\ storyCalls' = RemoveAt(storyCalls, j)
  /\ storyMet' = storyMet \union {"list"}
  /\ UNCHANGED <<stored, player, due>>

StoryNext ==
  \/ NextStory \/ PreviousStory \/ TogglePlayPause
  \/ ImageTimerEnds \/ OnImageTimerEnd \/ PlayVideo
  \/ UploadStory \/ UploadGoesHome
  \/ \E j \in 1..Len(storyCalls) :
       \/ ServeUpload(j) \/ ServeList(j)
       \/ Uploaded(j) \/ ListLoaded(j) \/ MediaLoaded(j)
       \/ MediaFailed(j) \/ ListFailed(j) \/ UploadFailed(j)

-----------------------------------------------------------------------------
StoryTypeOK ==
  /\ stored \in FirstStory..Len(Media)
  /\ stories.known \in 0..stored
  /\ player.story \in 0..stored /\ player.media \in 0..stored
  /\ Shows("viewer") <=> player.story # 0
  /\ ~Shows("viewer") => player = NoPlayer

\* At rest the viewer shows the file of its story, and the list of the service
\* has every story; unless an answer was overtaken or missing, or nobody heard
\* of an upload. And a story gives way to the next one by itself only after its
\* own picture was on the screen, unless the user was in a hurry.
StoriesShown ==
  /\ Shows("viewer") /\ "media" \notin storyMet
       /\ ~(\E j \in 1..Len(storyCalls) : storyCalls[j].kind = "media")
     => player.media = player.story
  /\ stories.made /\ storyCalls = <<>> /\ "list" \notin storyMet => stories.known = stored
  /\ due.next /\ "hurried" \notin storyMet => player.media = player.story
=============================================================================
