--------------------------------- MODULE Pages ---------------------------------
(***************************************************************************)
(* The tab: the pages of RoomPage, PeoplePage and StoryPage behind one     *)
(* router.  The user goes from page to page; a delay that outlives its     *)
(* page takes the tab away from whatever it shows by then.                 *)
(***************************************************************************)
EXTENDS RoomPage, PeoplePage, StoryPage

pagesVars == <<browserVars, roomVars, peopleVars, storyVars>>

PagesInit == BrowserInit /\ RoomInit /\ PeopleInit /\ StoryInit

-----------------------------------------------------------------------------
\* The router leaves one page and makes the other; pending are the timeouts
\* that have not run.
Arrives(place, pending) ==
  /\ route.page # place.page \/ place.page = "viewer"
  /\ IF place.page = "room" THEN EnterRoom
     ELSE IF Shows("room") THEN LeaveRoom ELSE UNCHANGED roomVars
  /\ IF place.page \in {"home", "search"} THEN EnterPeople ELSE UNCHANGED peopleVars
  /\ StoryArrives(place, pending)
  /\ storyMet' = HurriedTo(place)

\* A viewer is opened from the stories; by a link, before the list of stories
\* is there, it only leads to them.
Places ==
  {At(page, 0) : page \in {"room", "home", "search", "stories", "upload"}}
    \union (IF Shows("stories") /\ stories.known > 0 THEN {At("viewer", stories.known)} ELSE {})

Go ==
  \E place \in Places :
    /\ route.page # place.page
    /\ ClickTo(place)
    /\ Arrives(place, due)

\* A timeout takes the tab to a place, unless it is there.
Pulled(place, pending) ==
  IF route = place
  THEN /\ due' = pending
       /\ Unprompted
       /\ UNCHANGED <<roomVars, peopleVars, stored, stories, player, storyCalls, storyMet>>
  ELSE UnpromptedTo(place) /\ Arrives(place, pending)

\* A picture had ended when its viewer was left.
PulledToNextStory ==
  /\ due.pull # Stays
  /\ Pulled(Landing(due.pull), [due EXCEPT !.pull = Stays])

\* An upload had ended when its page was left.
PulledToStories ==
  /\ due.home /\ ~Shows("upload")
  /\ Pulled(At("stories", 0), [due EXCEPT !.home = FALSE])

PagesNext ==
  \/ RoomNext /\ UNCHANGED <<peopleVars, storyVars>>
  \/ PeopleNext /\ UNCHANGED <<roomVars, storyVars>>
  \/ StoryNext /\ UNCHANGED <<roomVars, peopleVars>>
  \/ Go \/ PulledToNextStory \/ PulledToStories

PagesSpec == PagesInit /\ [][PagesNext]_pagesVars
=============================================================================
