---------------------------- MODULE SessionTable ----------------------------
(***************************************************************************)
(* The rows of live_stream_session and what                                *)
(* services/live-stream-session.service.ts computes on them.  A row is a   *)
(* call between two users or a live-stream room of one.                    *)
(*                                                                         *)
(* updateSessionStatus loads a row, computes the new one and saves it; the *)
(* save reads the row again and writes the columns in which the entity     *)
(* differs.  The modules that extend this one make each query an action.   *)
(* Times are only set or not set: the time an update takes differs from    *)
(* every time the row may hold.  endReason, a text, is left out.           *)
(***************************************************************************)
EXTENDS Integers, FiniteSets

CONSTANTS
  Users,    \* registered users
  Nobody    \* no user

VARIABLES
  rows,    \* the sessions, by id
  crossed  \* history: the sessions of which two updates overlapped

ASSUME UsersAssumption == Nobody \notin Users

\* MISSED, FAILED and SCHEDULED are declared, and never written.
Statuses == {"pending", "ringing", "active", "ended", "rejected"}

Final == {"ended", "rejected"}

Sessions == [initiator : Users, recipient : Users \union {Nobody}, isLiveStream : BOOLEAN,
             status : Statuses, startedAt : BOOLEAN, endedAt : BOOLEAN, duration : BOOLEAN]

NoSession == [initiator |-> Nobody, recipient |-> Nobody, isLiveStream |-> FALSE,
              status |-> "pending", startedAt |-> FALSE, endedAt |-> FALSE, duration |-> FALSE]

Columns == {"status", "startedAt", "endedAt", "duration"}

\* What startSession and createLiveStreamRoom insert; a room has no recipient.
NewSession(from, to, live) ==
  [NoSession EXCEPT !.initiator = from, !.recipient = to, !.isLiveStream = live,
                    !.status = IF live THEN "active" ELSE "pending"]

\* startSession refuses a second call only while one is active or ringing.
Busy(sessions, from, to) ==
  \E s \in sessions : {s.initiator, s.recipient} = {from, to} /\ s.status \in {"active", "ringing"}

Starting(s, status) == status = "active" /\ ~s.startedAt

Ending(s, status) == status \in Final /\ ~s.endedAt

\* Mutant: an end forgets when the call began.
WithStatusAlone(s, status) ==
  [s EXCEPT !.status = status,
            !.startedAt = status = "active",
            !.endedAt = @ \/ Ending(s, status),
            !.duration = @ \/ (Ending(s, status) /\ s.startedAt)]

\* The entity updateSessionStatus saves: the old status is not looked at, and
\* what a session has got is never taken from it.
WithStatus(s, status) ==
  [s EXCEPT !.status = status,
            !.startedAt = @ \/ Starting(s, status),
            !.endedAt = @ \/ Ending(s, status),
            !.duration = @ \/ (Ending(s, status) /\ s.startedAt)]

\* The columns the save writes: those in which the entity differs from the
\* row it reads again, and the times the update has just taken.
Differing(row, s, status) ==
  {c \in Columns : row[c] # WithStatus(s, status)[c]}
    \union (IF Starting(s, status) THEN {"startedAt"} ELSE {})
    \union (IF Ending(s, status) THEN {"endedAt"} ELSE {})
    \union (IF Ending(s, status) /\ s.startedAt THEN {"duration"} ELSE {})

Saved(row, s, status, cols) ==
  [f \in DOMAIN row |-> IF f \in cols THEN WithStatus(s, status)[f] ELSE row[f]]

Parties(s) == {s.initiator, s.recipient} \ {Nobody}

\* Mutant: the side that dialled is always told.
OtherSideInitiator(s, u) == IF u \in Parties(s) THEN s.initiator ELSE s.recipient

\* Whom the handlers of a call take for the other side.
OtherSide(s, u) == IF s.initiator = u THEN s.recipient ELSE s.initiator

\* Mutant: the sessions a user was called into are not looked for.
OnForInitiator(s, u) == s.initiator = u /\ s.status \in {"active", "ringing"}

\* getActiveSessionByUserId: any one of the user's sessions that are on.
OnFor(s, u) == u \in Parties(s) /\ s.status \in {"active", "ringing"}

=============================================================================
