----------------------------- MODULE ForumRoom -----------------------------
(***************************************************************************)
(* Membership of a forum room: services/forum-room.service.ts over the     *)
(* tables forum_room and forum_room_member.                                *)
(*                                                                         *)
(* Every query of the service names one roomId and no operation touches    *)
(* two rooms, so the module follows one room.  A handler runs alone        *)
(* between two awaits: an action is one query, with the checks the handler *)
(* makes on its result.  A transaction is one action: it first touches the *)
(* row of one (user, status), then the row of the room, so transactions    *)
(* that meet only wait, in the same order, and nobody reads what is not    *)
(* committed.                                                              *)
(*                                                                         *)
(* Repository.save(entity), used for the roles, reads the row again and    *)
(* then writes the columns in which the entity differs from what it read:  *)
(* two actions, RoleSelect and RoleUpdate.                                 *)
(*                                                                         *)
(* unreadCount, written by posts and comments, is left out, and so is the  *)
(* lookup of the caller in "user": no code deletes a user.                 *)
(***************************************************************************)
EXTENDS Integers, FiniteSets, Sequences

CONSTANTS
  Users,         \* registered users
  Nobody,        \* no user
  Slots,         \* requests the server has in hand at once
  NewRooms,      \* what creators ask for: [maxMembers, visibility]
  NewRoles,      \* the roles admins give
  MaxRows,       \* bound: rows of forum_room_member in a behaviour
  LowestCount    \* bound: no leave is sent while memberCount is this low

Roles      == {"admin", "moderator", "member"}
Visibility == {"public", "private", "restricted"}

ASSUME UsersAssumption == Nobody \notin Users
ASSUME SlotsAssumption == IsFiniteSet(Slots) /\ Slots # {}
\* A maxMembers of 0 is stored as null: unlimited.
ASSUME InputsAssumption ==
  /\ NewRooms \subseteq [maxMembers : Nat, visibility : Visibility]
  /\ NewRoles \subseteq Roles
ASSUME BoundsAssumption ==
  /\ MaxRows \in Nat \ {0}
  /\ LowestCount \in Int

VARIABLES
  room,    \* the row of forum_room, NoRoom before it is created
  rows,    \* the rows of forum_room_member, by id
  pc,      \* where each slot's handler stands
  req,     \* what it was asked: [user, target, role]
  seen,    \* what it keeps of its reads: [full, row, cols]
  answer,  \* what the last step answered, "none" when it answered nothing
  calm     \* history: no two requests that leave or change roles overlapped

vars == <<room, rows, pc, req, seen, answer, calm>>

Rooms == [createdBy : Users \union {Nobody}, memberCount : Int, maxMembers : Nat,
          visibility : Visibility, status : {"none", "active", "deleted"}]
Rows  == [user : Users, role : Roles, status : {"joined", "left"}]

Leaving  == {"leave", "leaveMember", "leaveAdmins", "leaveTx"}
Changing == {"role", "roleTarget", "roleAdmins", "roleSelect", "roleUpdate"}
Joining  == {"join", "joinExisting", "joinTx"}
PCs == {"idle", "delete", "deleteAdmin", "deleteTx"}
         \union Joining \union Leaving \union Changing

NoRoom == [createdBy |-> Nobody, memberCount |-> 0, maxMembers |-> 0,
           visibility |-> "public", status |-> "none"]
NoReq  == [user |-> Nobody, target |-> Nobody, role |-> "member"]
Unseen == [full |-> FALSE, row |-> 0, cols |-> {}]

TypeOK ==
  /\ room \in Rooms
  /\ rows \in Seq(Rows) /\ Len(rows) =< MaxRows
  /\ pc \in [Slots -> PCs]
  /\ req \in [Slots -> [user : Users \union {Nobody},
                        target : Users \union {Nobody}, role : Roles]]
  /\ seen \in [Slots -> [full : BOOLEAN, row : 0..MaxRows,
                         cols : SUBSET {"role", "status"}]]
  /\ answer \in {"none", "done", "refused", "conflict", "error"}
  /\ calm \in BOOLEAN

-----------------------------------------------------------------------------
(* The tables.                                                             *)

Created == room.status # "none"

\* The membership rows of user u with status st (at most one: the table is
\* UNIQUE on roomId, userId, status).
RowsOf(u, st) == {i \in DOMAIN rows : rows[i].user = u /\ rows[i].status = st}

Joined == {i \in DOMAIN rows : rows[i].status = "joined"}
Admins == {i \in Joined : rows[i].role = "admin"}

\* The rows findOne({roomId, userId, status: "joined", role: "admin"}) can find.
AdminRowOf(u) == RowsOf(u, "joined") \intersect Admins

-----------------------------------------------------------------------------
(* A handler.                                                              *)

Busy == {p \in Slots : pc[p] \in Leaving \union Changing}

\* A request arrives in slot p.
Start(p, at, r) ==
  /\ pc[p] = "idle"
  /\ pc' = [pc EXCEPT ![p] = at]
  /\ req' = [req EXCEPT ![p] = r]
  /\ answer' = "none"
  /\ calm' = (calm /\ (at \in Leaving \union Changing => Busy = {}))
  /\ UNCHANGED <<room, rows, seen>>

\* The handler of slot p returns or throws.
Answer(p, a) ==
  /\ pc' = [pc EXCEPT ![p] = "idle"]
  /\ req' = [req EXCEPT ![p] = NoReq]
  /\ seen' = [seen EXCEPT ![p] = Unseen]
  /\ answer' = a
  /\ UNCHANGED calm

Goto(p, at) ==
  /\ pc' = [pc EXCEPT ![p] = at]
  /\ answer' = "none"
  /\ UNCHANGED <<req, calm>>

Refuse(p) == Answer(p, "refused") /\ UNCHANGED <<room, rows>>

Read(p, at) == Goto(p, at) /\ UNCHANGED <<room, rows, seen>>

\* createRoom: the room and the membership of its creator, in a transaction.
CreateRoom(u, new) ==
  /\ ~Created
  /\ room' = [createdBy |-> u, memberCount |-> 1, maxMembers |-> new.maxMembers,
               visibility |-> new.visibility, status |-> "active"]
  /\ rows' = <<[user |-> u, role |-> "admin", status |-> "joined"]>>
  /\ answer' = "done"
  /\ UNCHANGED <<pc, req, seen, calm>>

-----------------------------------------------------------------------------
(* joinRoom                                                                *)

Join(p, u) == Start(p, "join", [NoReq EXCEPT !.user = u])

RoomFull == Created /\ room.maxMembers # 0
                    /\ room.memberCount >= room.maxMembers

\* The room is read once: the capacity checked at the end is the one seen now.
JoinRoom(p) ==
  /\ pc[p] = "join"
  /\ IF Created /\ room.status = "active"
     THEN /\ Goto(p, "joinExisting")
          /\ seen' = [seen EXCEPT ![p].full = RoomFull]
          /\ UNCHANGED <<room, rows>>
     ELSE Refuse(p)

\* Mutant: the capacity is not looked at.
JoinExistingUnlimited(p) ==
  /\ pc[p] = "joinExisting"
  /\ IF RowsOf(req[p].user, "joined") # {} \/ room.visibility = "private"
     THEN Refuse(p)
     ELSE Read(p, "joinTx")

\* No code bans a member, so the lookup of a ban finds nothing and is one
\* with the lookup of the membership.
JoinExisting(p) ==
  /\ pc[p] = "joinExisting"
  /\ IF RowsOf(req[p].user, "joined") # {} \/ room.visibility = "private"
          \/ seen[p].full
     THEN Refuse(p)
     ELSE Read(p, "joinTx")

\* Mutant: the count is incremented outside the transaction.
JoinTxCountsFirst(p) ==
  /\ pc[p] = "joinTx"
  /\ Len(rows) < MaxRows
  /\ IF RowsOf(req[p].user, "joined") # {}
     THEN Answer(p, "conflict") /\ UNCHANGED rows
     ELSE /\ rows' = Append(rows, [user |-> req[p].user, role |-> "member",
                                   status |-> "joined"])
          /\ Answer(p, "done")
  /\ room' = [room EXCEPT !.memberCount = @ + 1]

\* The membership and the increment of memberCount, or neither.
JoinTx(p) ==
  /\ pc[p] = "joinTx"
  /\ IF RowsOf(req[p].user, "joined") # {}
     THEN Answer(p, "conflict") /\ UNCHANGED <<room, rows>>
     ELSE /\ Len(rows) < MaxRows
          /\ rows' = Append(rows, [user |-> req[p].user, role |-> "member",
                                   status |-> "joined"])
          /\ room' = [room EXCEPT !.memberCount = @ + 1]
          /\ Answer(p, "done")

-----------------------------------------------------------------------------
(* leaveRoom                                                               *)

Leave(p, u) ==
  /\ Created => room.memberCount > LowestCount
  /\ Start(p, "leave", [NoReq EXCEPT !.user = u])

LeaveRoom(p) ==
  /\ pc[p] = "leave"
  /\ IF Created THEN Read(p, "leaveMember") ELSE Refuse(p)

\* Mutant: the membership is looked up whatever its status.
LeaveMemberAnyStatus(p) ==
  /\ pc[p] = "leaveMember"
  /\ \E st \in {"joined", "left"} : \E i \in RowsOf(req[p].user, st) :
       /\ Goto(p, IF rows[i].role = "admin" THEN "leaveAdmins" ELSE "leaveTx")
       /\ seen' = [seen EXCEPT ![p].row = i]
       /\ UNCHANGED <<room, rows>>

LeaveMember(p) ==
  /\ pc[p] = "leaveMember"
  /\ \/ /\ RowsOf(req[p].user, "joined") = {}
        /\ Refuse(p)
     \/ \E i \in RowsOf(req[p].user, "joined") :
          /\ Goto(p, IF rows[i].role = "admin" THEN "leaveAdmins" ELSE "leaveTx")
          /\ seen' = [seen EXCEPT ![p].row = i]
          /\ UNCHANGED <<room, rows>>

\* Mutant: off by one.
LeaveAdminsNone(p) ==
  /\ pc[p] = "leaveAdmins"
  /\ IF Cardinality(Admins) = 0 THEN Refuse(p) ELSE Read(p, "leaveTx")

\* The last admin may not leave.
LeaveAdmins(p) ==
  /\ pc[p] = "leaveAdmins"
  /\ IF Cardinality(Admins) = 1 THEN Refuse(p) ELSE Read(p, "leaveTx")

\* The row is updated by its id, whatever its status has become.  When the
\* user has an older row with status "left" the table refuses the second one,
\* and the transaction is rolled back.
LeaveTx(p) ==
  /\ pc[p] = "leaveTx"
  /\ IF RowsOf(req[p].user, "left") \subseteq {seen[p].row}
     THEN /\ rows' = [rows EXCEPT ![seen[p].row].status = "left"]
          /\ room' = [room EXCEPT !.memberCount = @ - 1]
          /\ Answer(p, "done")
     ELSE Answer(p, "conflict") /\ UNCHANGED <<room, rows>>

-----------------------------------------------------------------------------
(* updateRoomMemberRole                                                    *)

UpdateRole(p, u, t, r) ==
  Start(p, "role", [user |-> u, target |-> t, role |-> r])

\* Mutant: any member may change roles.
RoleAdminAnyone(p) ==
  /\ pc[p] = "role"
  /\ IF RowsOf(req[p].user, "joined") # {} THEN Read(p, "roleTarget") ELSE Refuse(p)

RoleAdmin(p) ==
  /\ pc[p] = "role"
  /\ IF AdminRowOf(req[p].user) # {} THEN Read(p, "roleTarget") ELSE Refuse(p)

\* Mutant: the target's membership is looked up whatever its status.
RoleTargetAnyStatus(p) ==
  /\ pc[p] = "roleTarget"
  /\ \E st \in {"joined", "left"} : \E i \in RowsOf(req[p].target, st) :
       /\ Goto(p, IF req[p].target = req[p].user /\ req[p].role # "admin"
                  THEN "roleAdmins" ELSE "roleSelect")
       /\ seen' = [seen EXCEPT ![p].row = i]
       /\ UNCHANGED <<room, rows>>

\* Only a request on one's own role counts the admins.
RoleTarget(p) ==
  /\ pc[p] = "roleTarget"
  /\ \/ /\ RowsOf(req[p].target, "joined") = {}
        /\ Refuse(p)
     \/ \E i \in RowsOf(req[p].target, "joined") :
          /\ Goto(p, IF req[p].target = req[p].user /\ req[p].role # "admin"
                     THEN "roleAdmins" ELSE "roleSelect")
          /\ seen' = [seen EXCEPT ![p].row = i]
          /\ UNCHANGED <<room, rows>>

RoleAdmins(p) ==
  /\ pc[p] = "roleAdmins"
  /\ IF Cardinality(Admins) = 1 THEN Refuse(p) ELSE Read(p, "roleSelect")

\* The columns in which the entity (status as it was read, role as asked)
\* differs from the row as it is now.
Changed(row, role) ==
  {c \in {"role", "status"} : \/ c = "role" /\ row.role # role
                              \/ c = "status" /\ row.status # "joined"}

RoleSelect(p) ==
  /\ pc[p] = "roleSelect"
  /\ LET cols == Changed(rows[seen[p].row], req[p].role)
     IN IF cols = {}
        THEN Answer(p, "done") /\ UNCHANGED <<room, rows>>
        ELSE /\ Goto(p, "roleUpdate")
             /\ seen' = [seen EXCEPT ![p].cols = cols]
             /\ UNCHANGED <<room, rows>>

Written(row, cols, role) ==
  [user |-> row.user,
   role |-> IF "role" \in cols THEN role ELSE row.role,
   status |-> IF "status" \in cols THEN "joined" ELSE row.status]

\* A row whose member left meanwhile is joined again, unless the member
\* already has a new one.
RoleUpdate(p) ==
  /\ pc[p] = "roleUpdate"
  /\ LET i == seen[p].row
         w == Written(rows[i], seen[p].cols, req[p].role)
     IN IF RowsOf(w.user, w.status) \subseteq {i}
        THEN /\ rows' = [rows EXCEPT ![i] = w]
             /\ Answer(p, "done")
             /\ UNCHANGED room
        ELSE Answer(p, "conflict") /\ UNCHANGED <<room, rows>>

-----------------------------------------------------------------------------
(* deleteRoom                                                              *)

Delete(p, u) == Start(p, "delete", [NoReq EXCEPT !.user = u])

DeleteRoom(p) ==
  /\ pc[p] = "delete"
  /\ IF Created THEN Read(p, "deleteAdmin") ELSE Refuse(p)

DeleteAdmin(p) ==
  /\ pc[p] = "deleteAdmin"
  /\ IF AdminRowOf(req[p].user) # {} \/ room.createdBy = req[p].user
     THEN Read(p, "deleteTx") ELSE Refuse(p)

DeleteTx(p) ==
  /\ pc[p] = "deleteTx"
  /\ room' = [room EXCEPT !.status = "deleted"]
  /\ Answer(p, "done")
  /\ UNCHANGED rows

-----------------------------------------------------------------------------

\* A database error, or the server stops: what was not committed is undone.
Abort(p) ==
  /\ pc[p] # "idle"
  /\ Answer(p, "error")
  /\ UNCHANGED <<room, rows>>

Request(p) ==
  \E u \in Users : \/ Join(p, u)
                   \/ Leave(p, u)
                   \/ Delete(p, u)
                   \/ \E t \in Users, r \in NewRoles : UpdateRole(p, u, t, r)

Query(p) ==
  \/ JoinRoom(p) \/ JoinExisting(p) \/ JoinTx(p)
  \/ LeaveRoom(p) \/ LeaveMember(p) \/ LeaveAdmins(p) \/ LeaveTx(p)
  \/ RoleAdmin(p) \/ RoleTarget(p) \/ RoleAdmins(p) \/ RoleSelect(p)
  \/ RoleUpdate(p)
  \/ DeleteRoom(p) \/ DeleteAdmin(p) \/ DeleteTx(p)

Init ==
  /\ room = NoRoom
  /\ rows = <<>>
  /\ pc = [p \in Slots |-> "idle"]
  /\ req = [p \in Slots |-> NoReq]
  /\ seen = [p \in Slots |-> Unseen]
  /\ answer = "none"
  /\ calm = TRUE

Next ==
  \/ \E u \in Users, new \in NewRooms : CreateRoom(u, new)
  \/ \E p \in Slots : Request(p) \/ Query(p) \/ Abort(p)

Spec == Init /\ [][Next]_vars

-----------------------------------------------------------------------------
(* Properties.                                                             *)

\* No user is in the room twice, however joins, leaves and stale saves of a
\* role meet (joinRoom looks for a membership before its transaction).
OneMembership ==
  \A i, j \in DOMAIN rows :
    rows[i].user = rows[j].user /\ rows[i].status = rows[j].status => i = j

\* memberCount never says more than there are members: whatever overlaps, a
\* count that drifts drifts down (a leave sent twice, a stale save of a role).
CountNeverOverstates == Created => room.memberCount =< Cardinality(Joined)

\* While no two requests to leave or to change roles overlap, memberCount is
\* the number of members; joins and deletions may overlap with everything.
CalmCountExact ==
  Created /\ calm => room.memberCount = Cardinality(Joined)

\* joinRoom checks the capacity on a room it read before; the room exceeds
\* maxMembers by less than the number of requests in hand at once.
OverrunBounded ==
  Created /\ room.maxMembers # 0 =>
    room.memberCount < room.maxMembers + Cardinality(Slots)

\* While no two requests to leave or to change roles overlap, the room keeps
\* an admin (the checks of leaveRoom and updateRoomMemberRole).
CalmAdminRemains == Created /\ calm => Admins # {}

\* While no two such requests overlap, who left comes back by joining only:
\* no save of a role revives a row.
CalmLeaversStayOut ==
  [][calm' => \A i \in DOMAIN rows :
                rows[i].status = "left" => rows'[i].status = "left"]_vars

\* While no two such requests overlap, a role changes at the hands of someone
\* who is an admin of the room at that moment.
CalmRolesByAdmins ==
  [][calm' => \A i \in DOMAIN rows :
       rows'[i].role # rows[i].role =>
         \E p \in Slots : pc[p] = "roleUpdate" /\ AdminRowOf(req[p].user) # {}]_vars
=============================================================================
