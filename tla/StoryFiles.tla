----------------------------- MODULE StoryFiles -----------------------------
(***************************************************************************)
(* Stories and their files: services/story.service.ts over the table       *)
(* stories and the directory uploads/stories.                              *)
(*                                                                         *)
(* An upload writes the file, asks for a thumbnail and then stores the     *)
(* row; a video is compressed afterwards by a task nobody waits for, which *)
(* replaces the file and tells the row.  A deletion, or the hourly sweep   *)
(* of expired stories, removes the files the row named when it was read    *)
(* and then the row.  Files and rows have no common transaction, and       *)
(* nothing looks for leftovers.                                            *)
(*                                                                         *)
(* A story's files are called by what they are; sizes, durations and view  *)
(* counts are left out.                                                    *)
(***************************************************************************)
EXTENDS Handlers

CONSTANTS
  Authors,       \* the users who upload stories
  MaxStories     \* bound: uploads

ASSUME StoriesAssumption == MaxStories \in Nat

VARIABLES
  stories,       \* table stories, in the order of the uploads
  disk,          \* the files there are: <<story, file>>
  tasks,         \* the compression of each story
  doomed         \* the rows a deletion or sweep has still to remove: a set

storyVars == <<stories, disk, tasks, doomed>>

StoryIds == 1..MaxStories
Files == {"original", "thumbnail", "compressed"}
Tasks == {"none", "start", "encode", "stat", "unlinkOriginal", "unlinkCompressed", "point",
          "processed", "giveUp"}
Rows == [user : Authors, video : BOOLEAN, there : BOOLEAN, path : {"original", "compressed"},
         thumb : {"none", "original", "thumbnail"}, isProcessed : BOOLEAN, expired : BOOLEAN]

StoryKinds == {"upload", "deleteStory", "sweep"}

-----------------------------------------------------------------------------
(* Requests, and the clock.                                                *)

\* What a file that is let in will be: a picture is its own thumbnail.
Accepted(u, video) ==
  [user |-> u, video |-> video, there |-> FALSE, path |-> "original",
   thumb |-> IF video THEN "none" ELSE "original", isProcessed |-> ~video, expired |-> FALSE]

Upload(p) ==
  /\ Len(stories) < MaxStories
  /\ \E u \in Authors, video \in BOOLEAN : stories' = Append(stories, Accepted(u, video))
  /\ Start(p, "write", [NoReq EXCEPT !.kind = "upload", !.id = Len(stories) + 1], {})
  /\ UNCHANGED <<disk, tasks, doomed>>

DeleteStory(p) ==
  /\ \E u \in Authors, s \in DOMAIN stories :
       Start(p, "findStory", [NoReq EXCEPT !.kind = "deleteStory", !.user = u, !.id = s], {})
  /\ UNCHANGED storyVars

\* The cron job runs every hour and is done within it.
Sweep(p) ==
  /\ \A q \in Slots : req[q].kind # "sweep"
  /\ Start(p, "findExpired", [NoReq EXCEPT !.kind = "sweep"], {})
  /\ UNCHANGED storyVars

Expires(s) ==
  /\ stories[s].there /\ ~stories[s].expired
  /\ stories' = [stories EXCEPT ![s].expired = TRUE]
  /\ UNCHANGED <<disk, tasks, doomed, handlerVars>>

-----------------------------------------------------------------------------
(* uploadStory                                                             *)

Moves(p, at) == Goto(p, at) /\ UNCHANGED <<faults, met>>
Ends(p) == Finish(p) /\ UNCHANGED <<faults, met>>

Write(p) ==
  LET s == req[p].id
  IN /\ pc[p] = "write"
     /\ disk' = disk \union {<<s, "original">>}
     /\ Moves(p, IF stories[s].video THEN "thumbnail" ELSE "saveStory")
     /\ UNCHANGED <<stories, tasks, doomed>>

\* generateThumbnail never fails: the file is there afterwards or it is not.
Thumbnail(p) ==
  LET s == req[p].id
  IN /\ pc[p] = "thumbnail"
     /\ \/ /\ disk' = disk \union {<<s, "thumbnail">>}
           /\ stories' = [stories EXCEPT ![s].thumb = "thumbnail"]
        \/ UNCHANGED <<disk, stories>>
     /\ Moves(p, "saveStory")
     /\ UNCHANGED <<tasks, doomed>>

SaveStory(p) ==
  LET s == req[p].id
  IN /\ pc[p] = "saveStory"
     /\ stories' = [stories EXCEPT ![s].there = TRUE]
     /\ tasks' = [tasks EXCEPT ![s] = IF stories[s].video THEN "start" ELSE "none"]
     /\ Ends(p)
     /\ UNCHANGED <<disk, doomed>>

\* The catch around the row's insert.
Undo(p) ==
  /\ pc[p] = "undo"
  /\ disk' = disk \ {<<req[p].id, "original">>}
  /\ Ends(p)
  /\ UNCHANGED <<stories, tasks, doomed>>

-----------------------------------------------------------------------------
(* compressVideoAsync                                                      *)

Task(s, from, to) ==
  /\ tasks[s] = from
  /\ tasks' = [tasks EXCEPT ![s] = to]
  /\ UNCHANGED <<doomed, handlerVars>>

\* ffmpeg opens the original and begins to write the compressed file.
Compress(s) ==
  /\ IF <<s, "original">> \in disk
     THEN Task(s, "start", "encode") /\ disk' = disk \union {<<s, "compressed">>}
     ELSE Task(s, "start", "giveUp") /\ UNCHANGED disk
  /\ UNCHANGED stories

Encoded(s) == Task(s, "encode", "stat") /\ UNCHANGED <<stories, disk>>

\* The sizes of both files: the original may be gone, and the compressed one
\* may not be worth it.
Stat(s) ==
  /\ IF <<s, "original">> \in disk
     THEN \E at \in {"unlinkOriginal", "unlinkCompressed"} : Task(s, "stat", at)
     ELSE Task(s, "stat", "giveUp")
  /\ UNCHANGED <<stories, disk>>

UnlinkOriginal(s) ==
  /\ IF <<s, "original">> \in disk
     THEN Task(s, "unlinkOriginal", "point") /\ disk' = disk \ {<<s, "original">>}
     ELSE Task(s, "unlinkOriginal", "giveUp") /\ UNCHANGED disk
  /\ UNCHANGED stories

UnlinkCompressed(s) ==
  /\ Task(s, "unlinkCompressed", "processed")
  /\ disk' = disk \ {<<s, "compressed">>}
  /\ UNCHANGED stories

\* Mutant: the row is told that it is processed, not where the file is.
PointNowhere(s) ==
  /\ Task(s, "point", "none")
  /\ stories' = [stories EXCEPT ![s].isProcessed = TRUE]
  /\ UNCHANGED disk

\* update(Story, id): nothing when the row is gone.
Point(s) ==
  /\ Task(s, "point", "none")
  /\ stories' = [stories EXCEPT ![s] =
                   IF @.there THEN [@ EXCEPT !.path = "compressed", !.isProcessed = TRUE] ELSE @]
  /\ UNCHANGED disk

Processed(s) ==
  /\ Task(s, "processed", "none") \/ Task(s, "giveUp", "none")
  /\ stories' = [stories EXCEPT ![s].isProcessed = @ \/ stories[s].there]
  /\ UNCHANGED disk

-----------------------------------------------------------------------------
(* deleteStory and deleteExpiredStories                                    *)

\* What a deletion remembers of a row.
Named(s) == [id |-> s, path |-> stories[s].path, thumb |-> stories[s].thumb]

\* The deletion of these stories begins; a compression under way does not
\* learn of it.
Dooms(p, ids) ==
  /\ doomed' = [doomed EXCEPT ![p] = {Named(s) : s \in ids}]
  /\ met' = IF \E s \in ids : tasks[s] # "none" THEN met \union {"disk"} ELSE met
  /\ UNCHANGED <<stories, disk, tasks, faults>>

FindStory(p) ==
  LET s == req[p].id
  IN /\ pc[p] = "findStory"
     /\ IF stories[s].there /\ stories[s].user = req[p].user
        THEN Goto(p, "unlink") /\ Dooms(p, {s})
        ELSE Ends(p) /\ UNCHANGED storyVars

FindExpired(p) ==
  LET old == {s \in DOMAIN stories : stories[s].there /\ stories[s].expired}
  IN /\ pc[p] = "findExpired"
     /\ IF old # {}
        THEN Goto(p, "unlink") /\ Dooms(p, old)
        ELSE Ends(p) /\ UNCHANGED storyVars

\* The story a deletion is at: the query asks for no order.
AtHand(p) == CHOOSE r \in doomed[p] : TRUE

\* deleteStoryFiles: a file that is gone is no error.
Unlink(p) ==
  LET r == AtHand(p)
  IN /\ pc[p] = "unlink"
     /\ disk' = disk \ {<<r.id, r.path>>}
     /\ Moves(p, IF r.thumb = "none" THEN "deleteRow" ELSE "unlinkThumbnail")
     /\ UNCHANGED <<stories, tasks, doomed>>

UnlinkThumbnail(p) ==
  LET r == AtHand(p)
  IN /\ pc[p] = "unlinkThumbnail"
     /\ disk' = disk \ {<<r.id, r.thumb>>}
     /\ Moves(p, "deleteRow")
     /\ UNCHANGED <<stories, tasks, doomed>>

\* The next story of the sweep, or the end.
NextDoomed(p) ==
  /\ doomed' = [doomed EXCEPT ![p] = @ \ {AtHand(p)}]
  /\ IF doomed[p] # {AtHand(p)} THEN Goto(p, "unlink") ELSE Finish(p)

DeleteRow(p) ==
  /\ pc[p] = "deleteRow"
  /\ stories' = [stories EXCEPT ![AtHand(p).id].there = FALSE]
  /\ NextDoomed(p)
  /\ UNCHANGED <<disk, tasks, faults, met>>

-----------------------------------------------------------------------------
(* Failures.                                                               *)

\* A query or a write of a handler fails: an upload removes its file, the
\* sweep goes on with the next story.
StoryFails(p) ==
  /\ Fault
  /\ UNCHANGED <<stories, disk, tasks>>
  /\ \/ pc[p] \in {"write", "findStory", "findExpired"} /\ Finish(p) /\ UNCHANGED doomed
     \/ pc[p] = "saveStory" /\ Goto(p, "undo") /\ UNCHANGED doomed
     \/ pc[p] = "deleteRow" /\ NextDoomed(p)

\* ffmpeg fails, perhaps after it has written something, or a query does.
TaskFails(s) ==
  /\ Fault
  /\ UNCHANGED <<stories, doomed, pc, req, sent>>
  /\ \/ /\ tasks[s] \in {"encode", "point", "processed"}
        /\ tasks' = [tasks EXCEPT ![s] = "giveUp"]
        /\ disk' \in IF tasks[s] = "encode" THEN {disk, disk \ {<<s, "compressed">>}} ELSE {disk}
     \/ /\ tasks[s] = "giveUp"
        /\ tasks' = [tasks EXCEPT ![s] = "none"]
        /\ UNCHANGED disk

-----------------------------------------------------------------------------

StoriesInit ==
  /\ stories = <<>>
  /\ disk = {}
  /\ tasks = [s \in StoryIds |-> "none"]
  /\ doomed = [p \in Slots |-> {}]

StoriesNext ==
  \/ \E p \in Slots :
       \/ Upload(p) \/ DeleteStory(p) \/ Sweep(p)
       \/ Write(p) \/ Thumbnail(p) \/ SaveStory(p) \/ Undo(p)
       \/ FindStory(p) \/ FindExpired(p) \/ Unlink(p) \/ UnlinkThumbnail(p) \/ DeleteRow(p)
       \/ StoryFails(p)
  \/ \E s \in DOMAIN stories :
       \/ Expires(s)
       \/ Compress(s) \/ Encoded(s) \/ Stat(s) \/ UnlinkOriginal(s) \/ UnlinkCompressed(s)
       \/ Point(s) \/ Processed(s)
       \/ TaskFails(s)

-----------------------------------------------------------------------------
(* Properties.                                                             *)

StoriesTypeOK ==
  /\ stories \in Seq(Rows)
  /\ disk \subseteq (DOMAIN stories) \X Files
  /\ tasks \in [StoryIds -> Tasks]
  /\ \A p \in Slots : \A r \in doomed[p] : r.id \in DOMAIN stories

Uploading(s) == \E p \in Slots : req[p].kind = "upload" /\ req[p].id = s
Deleting(s) == \E p \in Slots : \E r \in doomed[p] : r.id = s

\* Files and rows agree whenever no job is on a story: each file is named by
\* a row, each row's files are there, and a video is shown as processed.  It
\* holds unless a story was deleted, or swept, while it was compressed, or
\* something failed or the server was restarted: those leave files behind.
CalmDiskMatches ==
  met \intersect {"disk", "fault"} = {} =>
    \A s \in DOMAIN stories :
      \/ Uploading(s) \/ Deleting(s) \/ tasks[s] # "none"
      \/ {f \in Files : <<s, f>> \in disk}
           = (IF stories[s].there THEN {stories[s].path, stories[s].thumb} \ {"none"} ELSE {})
         /\ (stories[s].there => stories[s].isProcessed)
=============================================================================
