-------------------------- MODULE ForumRoomProofs --------------------------
(***************************************************************************)
(* Proofs about ForumRoom, for any users, rooms, bounds and number of      *)
(* requests in hand at once.                                               *)
(***************************************************************************)
EXTENDS ForumRoom, FiniteSetTheorems, SequenceTheorems, TLAPS

-----------------------------------------------------------------------------
(* The inductive invariant.                                                *)

\* A handler that keeps the row of a membership it read.
Holding == {"leaveAdmins", "leaveTx", "roleAdmins", "roleSelect", "roleUpdate"}

\* What a handler knows where it stands.
Standing ==
  /\ ~Created => rows = <<>>
  /\ \A p \in Slots :
       /\ pc[p] \notin {"idle", "join", "leave", "role", "delete"} => Created
       /\ pc[p] # "idle" => req[p].user \in Users
       /\ pc[p] \in Changing => req[p].target \in Users
       /\ pc[p] \in Holding => seen[p].row \in DOMAIN rows
       /\ pc[p] \in {"leaveAdmins", "leaveTx"} =>
            rows[seen[p].row].user = req[p].user
       /\ pc[p] \in {"roleAdmins", "roleSelect", "roleUpdate"} =>
            rows[seen[p].row].user = req[p].target

\* The join requests that saw room for one more.
Admitted == {p \in Slots : pc[p] \in {"joinExisting", "joinTx"} /\ ~seen[p].full}

\* Every admitted request counts as a member who is already there.
Overrun ==
  /\ \A p \in Slots : pc[p] = "joinTx" => ~seen[p].full
  /\ Created /\ room.maxMembers # 0 =>
       room.memberCount + Cardinality(Admitted)
         < room.maxMembers + Cardinality(Slots)

\* One leave or change of role at a time works on rows that stay as it read
\* them, and keeps an admin other than the one it removes.
Steady ==
  /\ \A p, q \in Busy : p = q
  /\ \A p \in Slots :
       /\ pc[p] \in Holding => rows[seen[p].row].status = "joined"
       /\ pc[p] = "leaveAdmins" => rows[seen[p].row].role = "admin"
       /\ pc[p] = "roleAdmins" => req[p].target = req[p].user
       /\ pc[p] = "leaveTx" \/ (pc[p] \in {"roleSelect", "roleUpdate"}
                                /\ req[p].role # "admin") =>
            \E j \in Admins : j # seen[p].row
       /\ pc[p] \in Changing \ {"role"} =>
            \E i \in Admins : rows[i].user = req[p].user
       /\ pc[p] = "roleUpdate" => "status" \notin seen[p].cols

Inv == /\ TypeOK
       /\ Standing
       /\ OneMembership
       /\ CountNeverOverstates
       /\ Overrun
       /\ calm => Steady
       /\ CalmCountExact
       /\ CalmAdminRemains

-----------------------------------------------------------------------------
(* The rows of memberships.                                                *)

\* What appending a row, or replacing one, does to the table.
LEMMA AppendFacts ==
  ASSUME rows \in Seq(Rows), NEW r \in Rows, rows' = Append(rows, r)
  PROVE  /\ rows' \in Seq(Rows)
         /\ Len(rows) \in Nat
         /\ Len(rows') = Len(rows) + 1
         /\ DOMAIN rows = 1..Len(rows)
         /\ DOMAIN rows' = 1..(Len(rows) + 1)
         /\ \A j \in 1..Len(rows) : rows[j] \in Rows /\ rows'[j] = rows[j]
         /\ rows'[Len(rows) + 1] = r
  BY LenProperties, SMT

LEMMA ReplaceFacts ==
  ASSUME rows \in Seq(Rows), NEW i \in DOMAIN rows, NEW w \in Rows,
         rows' = [rows EXCEPT ![i] = w]
  PROVE  /\ rows' \in Seq(Rows)
         /\ Len(rows') = Len(rows)
         /\ DOMAIN rows' = DOMAIN rows
         /\ \A j \in DOMAIN rows :
              rows[j] \in Rows /\ rows'[j] = IF j = i THEN w ELSE rows[j]
<1>1. DOMAIN rows = 1..Len(rows) /\ Len(rows) \in Nat
  BY LenProperties
<1>2. /\ rows' \in Seq(Rows)
      /\ Len(rows') = Len(rows)
      /\ \A j \in 1..Len(rows) : rows'[j] = IF j = i THEN w ELSE rows[j]
  BY <1>1, ExceptSeq
<1>3. DOMAIN rows' = 1..Len(rows')
  BY <1>2, LenProperties
<1>4. \A j \in 1..Len(rows) : rows[j] \in Rows
  BY <1>1, ElementOfSeq
<1> QED BY <1>1, <1>2, <1>3, <1>4

\* The table is finite, and so is every set of its rows.
LEMMA RowsFinite ==
  ASSUME rows \in Seq(Rows)
  PROVE  /\ IsFiniteSet(DOMAIN rows)
         /\ IsFiniteSet(Joined) /\ Cardinality(Joined) \in Nat
         /\ IsFiniteSet(Admins) /\ Cardinality(Admins) \in Nat
<1>1. DOMAIN rows = 1..Len(rows) /\ Len(rows) \in Nat
  BY LenProperties
<1>2. IsFiniteSet(DOMAIN rows)
  BY <1>1, FS_Interval
<1>3. Joined \in SUBSET DOMAIN rows /\ Admins \in SUBSET DOMAIN rows
  BY DEF Joined, Admins
<1>4. IsFiniteSet(Joined) /\ IsFiniteSet(Admins)
  BY <1>2, <1>3, FS_Subset
<1> QED BY <1>2, <1>4, FS_CardinalityType

-----------------------------------------------------------------------------
(* The steps that write.                                                   *)

Writes(p) == JoinTx(p) \/ LeaveTx(p) \/ RoleUpdate(p) \/ DeleteTx(p)

\* Every other step of a slot only moves its handler.
LEMMA QuietSteps ==
  ASSUME NEW p \in Slots, Request(p) \/ Query(p) \/ Abort(p), ~Writes(p)
  PROVE  UNCHANGED <<room, rows>>
  BY DEF Request, Query, Abort, Writes, Join, Leave, UpdateRole, Delete, Start,
         Answer, Goto, Refuse, Read, JoinRoom, JoinExisting, LeaveRoom,
         LeaveMember, LeaveAdmins, RoleAdmin, RoleTarget, RoleAdmins,
         RoleSelect, DeleteRoom, DeleteAdmin

\* What JoinTx, LeaveTx and RoleUpdate write when they write.
LEMMA JoinEffect ==
  ASSUME Inv, NEW p \in Slots, JoinTx(p), ~UNCHANGED <<room, rows>>
  PROVE  /\ RowsOf(req[p].user, "joined") = {}
         /\ Len(rows) < MaxRows
         /\ [user |-> req[p].user, role |-> "member", status |-> "joined"] \in Rows
         /\ rows' = Append(rows, [user |-> req[p].user, role |-> "member",
                                  status |-> "joined"])
         /\ room' = [room EXCEPT !.memberCount = @ + 1]
         /\ pc[p] = "joinTx"
         /\ Answer(p, "done")
<1>1. pc[p] = "joinTx" /\ req[p].user \in Users
  BY DEF Inv, Standing, JoinTx
<1> QED BY <1>1 DEF JoinTx, Rows, Roles

LEMMA LeaveEffect ==
  ASSUME Inv, NEW p \in Slots, LeaveTx(p), ~UNCHANGED <<room, rows>>
  PROVE  /\ seen[p].row \in DOMAIN rows
         /\ RowsOf(req[p].user, "left") \subseteq {seen[p].row}
         /\ [rows[seen[p].row] EXCEPT !.status = "left"] \in Rows
         /\ rows' = [rows EXCEPT ![seen[p].row] =
                       [rows[seen[p].row] EXCEPT !.status = "left"]]
         /\ room' = [room EXCEPT !.memberCount = @ - 1]
         /\ pc[p] = "leaveTx"
         /\ Answer(p, "done")
<1>1. pc[p] = "leaveTx" /\ seen[p].row \in DOMAIN rows
  BY DEF Inv, Standing, LeaveTx, Holding
<1>2. rows[seen[p].row] \in Rows
  BY <1>1, LenProperties, ElementOfSeq DEF Inv, TypeOK
<1>3. [rows[seen[p].row] EXCEPT !.status = "left"] \in Rows
  BY <1>2 DEF Rows
<1> QED BY <1>1, <1>3 DEF LeaveTx

LEMMA RoleEffect ==
  ASSUME Inv, NEW p \in Slots, RoleUpdate(p), ~UNCHANGED <<room, rows>>
  PROVE  LET i == seen[p].row
             w == Written(rows[i], seen[p].cols, req[p].role)
         IN /\ i \in DOMAIN rows
            /\ w \in Rows
            /\ RowsOf(w.user, w.status) \subseteq {i}
            /\ rows' = [rows EXCEPT ![i] = w]
            /\ room' = room
            /\ pc[p] = "roleUpdate"
            /\ Answer(p, "done")
<1>1. pc[p] = "roleUpdate" /\ seen[p].row \in DOMAIN rows
  BY DEF Inv, Standing, RoleUpdate, Holding
<1>2. rows[seen[p].row] \in Rows
  BY <1>1, LenProperties, ElementOfSeq DEF Inv, TypeOK
<1>3. req[p].role \in Roles
  BY DEF Inv, TypeOK
<1>4. Written(rows[seen[p].row], seen[p].cols, req[p].role) \in Rows
  BY <1>2, <1>3 DEF Rows, Written
<1> QED BY <1>1, <1>4 DEF RoleUpdate

\* Writing memberCount leaves the rest of the room alone.
LEMMA CountEffect ==
  ASSUME room \in Rooms
  PROVE  /\ room.memberCount \in Int
         /\ \A n \in Int : room' = [room EXCEPT !.memberCount = n] =>
              /\ room' \in Rooms
              /\ room'.memberCount = n
              /\ room'.status = room.status
              /\ room'.maxMembers = room.maxMembers
         /\ room' = [room EXCEPT !.memberCount = @ + 1] =>
              /\ room' \in Rooms
              /\ room'.memberCount = room.memberCount + 1
              /\ room'.status = room.status
              /\ room'.maxMembers = room.maxMembers
         /\ room' = [room EXCEPT !.memberCount = @ - 1] =>
              /\ room' \in Rooms
              /\ room'.memberCount = room.memberCount - 1
              /\ room'.status = room.status
              /\ room'.maxMembers = room.maxMembers
<1>1. room.memberCount \in Int
  BY DEF Rooms
<1>2. ASSUME NEW n \in Int, room' = [room EXCEPT !.memberCount = n]
      PROVE  /\ room' \in Rooms
             /\ room'.memberCount = n
             /\ room'.status = room.status
             /\ room'.maxMembers = room.maxMembers
  BY <1>2 DEF Rooms
<1> DEFINE up == room.memberCount + 1
           down == room.memberCount - 1
<1>3. up \in Int /\ down \in Int
  BY <1>1
<1> HIDE DEF up, down
<1>4. room' = [room EXCEPT !.memberCount = up] =>
        /\ room' \in Rooms
        /\ room'.memberCount = up
        /\ room'.status = room.status
        /\ room'.maxMembers = room.maxMembers
  BY <1>2, <1>3
<1>5. room' = [room EXCEPT !.memberCount = down] =>
        /\ room' \in Rooms
        /\ room'.memberCount = down
        /\ room'.status = room.status
        /\ room'.maxMembers = room.maxMembers
  BY <1>2, <1>3
<1> QED BY <1>1, <1>2, <1>4, <1>5, Zenon DEF up, down

-----------------------------------------------------------------------------
(* Type correctness.                                                       *)

\* Answering, moving on and starting keep the private state well formed.
LEMMA AnswerTyped ==
  ASSUME TypeOK, NEW p \in Slots,
         NEW a \in {"none", "done", "refused", "conflict", "error"}, Answer(p, a)
  PROVE  /\ pc' \in [Slots -> PCs]
         /\ req' \in [Slots -> [user : Users \union {Nobody},
                                target : Users \union {Nobody}, role : Roles]]
         /\ seen' \in [Slots -> [full : BOOLEAN, row : 0..MaxRows,
                                 cols : SUBSET {"role", "status"}]]
         /\ answer' \in {"none", "done", "refused", "conflict", "error"}
         /\ calm' \in BOOLEAN
<1>1. NoReq \in [user : Users \union {Nobody},
                 target : Users \union {Nobody}, role : Roles]
  BY DEF NoReq, Roles
<1>2. Unseen \in [full : BOOLEAN, row : 0..MaxRows, cols : SUBSET {"role", "status"}]
  BY BoundsAssumption DEF Unseen
<1>3. "idle" \in PCs
  BY DEF PCs
<1>4. pc' \in [Slots -> PCs]
  BY <1>3, Zenon DEF Answer, TypeOK
<1>5. req' \in [Slots -> [user : Users \union {Nobody},
                          target : Users \union {Nobody}, role : Roles]]
  BY <1>1, Zenon DEF Answer, TypeOK
<1>6. seen' \in [Slots -> [full : BOOLEAN, row : 0..MaxRows,
                           cols : SUBSET {"role", "status"}]]
  BY <1>2, Zenon DEF Answer, TypeOK
<1> QED BY <1>4, <1>5, <1>6 DEF Answer, TypeOK

LEMMA GotoTyped ==
  ASSUME TypeOK, NEW p \in Slots, NEW at \in PCs, Goto(p, at)
  PROVE  /\ pc' \in [Slots -> PCs]
         /\ req' \in [Slots -> [user : Users \union {Nobody},
                                target : Users \union {Nobody}, role : Roles]]
         /\ answer' \in {"none", "done", "refused", "conflict", "error"}
         /\ calm' \in BOOLEAN
<1>1. pc' \in [Slots -> PCs]
  BY Zenon DEF Goto, TypeOK
<1> QED BY <1>1 DEF Goto, TypeOK

LEMMA SeenTyped ==
  ASSUME TypeOK, NEW p \in Slots,
         NEW s \in [full : BOOLEAN, row : 0..MaxRows, cols : SUBSET {"role", "status"}],
         seen' = [seen EXCEPT ![p] = s]
  PROVE  seen' \in [Slots -> [full : BOOLEAN, row : 0..MaxRows,
                              cols : SUBSET {"role", "status"}]]
  BY Zenon DEF TypeOK

LEMMA StartTyped ==
  ASSUME TypeOK, NEW p \in Slots, NEW at \in PCs,
         NEW r \in [user : Users \union {Nobody},
                    target : Users \union {Nobody}, role : Roles],
         Start(p, at, r)
  PROVE  TypeOK'
<1>1. pc' \in [Slots -> PCs]
  BY Zenon DEF Start, TypeOK
<1>2. req' \in [Slots -> [user : Users \union {Nobody},
                          target : Users \union {Nobody}, role : Roles]]
  BY Zenon DEF Start, TypeOK
<1> QED BY <1>1, <1>2 DEF Start, TypeOK

LEMMA RefuseTyped ==
  ASSUME TypeOK, NEW p \in Slots, Refuse(p)
  PROVE  TypeOK'
<1>1. Answer(p, "refused") /\ UNCHANGED <<room, rows>>
  BY DEF Refuse
<1> QED BY <1>1, AnswerTyped DEF TypeOK

LEMMA ReadTyped ==
  ASSUME TypeOK, NEW p \in Slots, NEW at \in PCs, Read(p, at)
  PROVE  TypeOK'
<1>1. Goto(p, at) /\ UNCHANGED <<room, rows, seen>>
  BY DEF Read
<1> QED BY <1>1, GotoTyped DEF TypeOK

\* The rows of RowsOf have ids, and ids are bounded by MaxRows.
LEMMA RowIds ==
  ASSUME TypeOK, NEW i \in DOMAIN rows
  PROVE  i \in 0..MaxRows /\ rows[i] \in Rows /\ i \in 1..Len(rows)
  BY LenProperties, ElementOfSeq, BoundsAssumption DEF TypeOK

\* A request starts at the first query of its operation.
LEMMA RequestStarts ==
  ASSUME NEW p \in Slots, Request(p)
  PROVE  \E at \in {"join", "leave", "delete", "role"}, u \in Users,
            t \in Users \union {Nobody}, r \in Roles :
           Start(p, at, [user |-> u, target |-> t, role |-> r])
<1>1. \A u \in Users : [NoReq EXCEPT !.user = u]
                         = [user |-> u, target |-> Nobody, role |-> "member"]
  BY DEF NoReq
<1>2. "member" \in Roles /\ NewRoles \subseteq Roles
  BY InputsAssumption DEF Roles
<1>3. CASE \E u \in Users : Join(p, u) \/ Leave(p, u) \/ Delete(p, u)
  BY <1>1, <1>2, <1>3 DEF Join, Leave, Delete
<1>4. CASE \E u \in Users, t \in Users, r \in NewRoles : UpdateRole(p, u, t, r)
  <2>1. PICK u \in Users, t \in Users, r \in NewRoles : UpdateRole(p, u, t, r)
    BY <1>4
  <2>2. Start(p, "role", [user |-> u, target |-> t, role |-> r])
    BY <2>1 DEF UpdateRole
  <2> QED BY <1>2, <2>2
<1> QED BY <1>3, <1>4 DEF Request

\* Every step keeps the tables and the handlers well formed.
LEMMA TypeStep ==
  ASSUME Inv, [Next]_vars
  PROVE  TypeOK'
<1>0. TypeOK
  BY DEF Inv
<1>1. CASE UNCHANGED vars
  BY <1>0, <1>1 DEF vars, TypeOK
<1>2. ASSUME NEW u \in Users, NEW new \in NewRooms, CreateRoom(u, new)
      PROVE  TypeOK'
  <2>1. room' \in Rooms
    BY <1>2, InputsAssumption DEF CreateRoom, Rooms
  <2>2. [user |-> u, role |-> "admin", status |-> "joined"] \in Rows
    BY DEF Rows, Roles
  <2>3. rows' \in Seq(Rows) /\ Len(rows') = 1
    BY <1>2, <2>2 DEF CreateRoom
  <2>4. UNCHANGED <<pc, req, seen, calm>> /\ answer' = "done"
    BY <1>2 DEF CreateRoom
  <2>5. Len(rows') =< MaxRows
    BY <2>3, BoundsAssumption
  <2> QED BY <1>0, <2>1, <2>3, <2>4, <2>5 DEF TypeOK
<1>3. ASSUME NEW p \in Slots, Request(p)
      PROVE  TypeOK'
  <2>1. PICK at \in {"join", "leave", "delete", "role"}, u \in Users,
             t \in Users \union {Nobody}, r \in Roles :
               Start(p, at, [user |-> u, target |-> t, role |-> r])
    BY <1>3, RequestStarts
  <2>2. at \in PCs
    BY DEF PCs, Joining, Leaving, Changing
  <2>3. [user |-> u, target |-> t, role |-> r] \in
          [user : Users \union {Nobody}, target : Users \union {Nobody}, role : Roles]
    OBVIOUS
  <2> QED BY <1>0, <2>1, <2>2, <2>3, StartTyped
<1>4. ASSUME NEW p \in Slots, JoinRoom(p) PROVE TypeOK'
  <2>1. CASE Refuse(p)
    BY <1>0, <2>1, RefuseTyped
  <2>2. CASE ~Refuse(p)
    <3>1. /\ Goto(p, "joinExisting") /\ UNCHANGED <<room, rows>>
          /\ seen' = [seen EXCEPT ![p] = [seen[p] EXCEPT !.full = RoomFull]]
      BY <1>4, <2>2 DEF JoinRoom
    <3>2. [seen[p] EXCEPT !.full = RoomFull] \in
             [full : BOOLEAN, row : 0..MaxRows, cols : SUBSET {"role", "status"}]
      <4>1. seen[p] \in [full : BOOLEAN, row : 0..MaxRows, cols : SUBSET {"role", "status"}]
        BY <1>0 DEF TypeOK
      <4>2. RoomFull \in BOOLEAN
        BY DEF RoomFull
      <4> QED BY <4>1, <4>2, Zenon
    <3>3. "joinExisting" \in PCs
      BY DEF PCs, Joining
    <3> QED BY <1>0, <3>1, <3>2, <3>3, GotoTyped, SeenTyped DEF TypeOK
  <2> QED BY <2>1, <2>2
<1>5. ASSUME NEW p \in Slots, NEW at \in PCs, Refuse(p) \/ Read(p, at)
      PROVE  TypeOK'
  BY <1>0, <1>5, RefuseTyped, ReadTyped
<1>6. ASSUME NEW p \in Slots,
             JoinExisting(p) \/ LeaveRoom(p) \/ LeaveAdmins(p) \/ RoleAdmin(p)
               \/ RoleAdmins(p) \/ DeleteRoom(p) \/ DeleteAdmin(p)
      PROVE  TypeOK'
  <2>1. \E at \in PCs : Refuse(p) \/ Read(p, at)
    BY <1>6 DEF JoinExisting, LeaveRoom, LeaveAdmins, RoleAdmin, RoleAdmins,
         DeleteRoom, DeleteAdmin, PCs, Joining, Leaving, Changing
  <2> QED BY <2>1, <1>5
<1>7. ASSUME NEW p \in Slots, LeaveMember(p) \/ RoleTarget(p) PROVE TypeOK'
  <2>1. CASE Refuse(p)
    BY <1>0, <2>1, RefuseTyped
  <2>2. CASE ~Refuse(p)
    <3>1. PICK i \in DOMAIN rows, at \in Holding :
            /\ Goto(p, at) /\ UNCHANGED <<room, rows>>
            /\ seen' = [seen EXCEPT ![p] = [seen[p] EXCEPT !.row = i]]
      BY <1>7, <2>2 DEF LeaveMember, RoleTarget, RowsOf, Holding
    <3>2. [seen[p] EXCEPT !.row = i] \in
             [full : BOOLEAN, row : 0..MaxRows, cols : SUBSET {"role", "status"}]
      <4>1. seen[p] \in [full : BOOLEAN, row : 0..MaxRows, cols : SUBSET {"role", "status"}]
        BY <1>0 DEF TypeOK
      <4>2. i \in 0..MaxRows
        BY <1>0, RowIds
      <4> QED BY <4>1, <4>2
    <3>3. at \in PCs
      BY DEF PCs, Holding, Leaving, Changing
    <3> QED BY <1>0, <3>1, <3>2, <3>3, GotoTyped, SeenTyped DEF TypeOK
  <2> QED BY <2>1, <2>2
<1>8. ASSUME NEW p \in Slots, RoleSelect(p) PROVE TypeOK'
  <2> DEFINE cols == Changed(rows[seen[p].row], req[p].role)
  <2>1. CASE Answer(p, "done") /\ UNCHANGED <<room, rows>>
    BY <1>0, <2>1, AnswerTyped DEF TypeOK
  <2>2. CASE /\ Goto(p, "roleUpdate") /\ UNCHANGED <<room, rows>>
             /\ seen' = [seen EXCEPT ![p] = [seen[p] EXCEPT !.cols = cols]]
    <3>1. [seen[p] EXCEPT !.cols = cols] \in
             [full : BOOLEAN, row : 0..MaxRows, cols : SUBSET {"role", "status"}]
      <4>1. seen[p] \in [full : BOOLEAN, row : 0..MaxRows, cols : SUBSET {"role", "status"}]
        BY <1>0 DEF TypeOK
      <4>2. cols \in SUBSET {"role", "status"}
        BY DEF Changed
      <4> QED BY <4>1, <4>2, Zenon
    <3>2. "roleUpdate" \in PCs
      BY DEF PCs, Changing
    <3> QED BY <1>0, <2>2, <3>1, <3>2, GotoTyped, SeenTyped DEF TypeOK
  <2> QED BY <1>8, <2>1, <2>2 DEF RoleSelect
<1>9. ASSUME NEW p \in Slots, Abort(p) PROVE TypeOK'
  BY <1>0, <1>9, AnswerTyped DEF Abort, TypeOK
<1>10. ASSUME NEW p \in Slots, DeleteTx(p) PROVE TypeOK'
  <2>1. room' \in Rooms
    BY <1>0, <1>10 DEF DeleteTx, TypeOK, Rooms
  <2> QED BY <1>0, <1>10, <2>1, AnswerTyped DEF DeleteTx, TypeOK
<1>11. ASSUME NEW p \in Slots, JoinTx(p) \/ LeaveTx(p) \/ RoleUpdate(p),
              UNCHANGED <<room, rows>>
       PROVE  TypeOK'
  <2>1. \E a \in {"done", "conflict"} : Answer(p, a)
    BY <1>11 DEF JoinTx, LeaveTx, RoleUpdate
  <2> QED BY <1>0, <1>11, <2>1, AnswerTyped DEF TypeOK
<1>12. ASSUME NEW p \in Slots, JoinTx(p), ~UNCHANGED <<room, rows>> PROVE TypeOK'
  <2> DEFINE new == [user |-> req[p].user, role |-> "member", status |-> "joined"]
  <2>0. /\ Len(rows) < MaxRows /\ new \in Rows /\ rows' = Append(rows, new)
        /\ room' = [room EXCEPT !.memberCount = @ + 1]
    BY <1>12, JoinEffect
  <2>1. rows' \in Seq(Rows) /\ Len(rows') =< MaxRows
    <3> HIDE DEF new
    <3>1. rows \in Seq(Rows) /\ Len(rows) \in Nat
      BY <1>0, LenProperties DEF TypeOK
    <3>2. rows' \in Seq(Rows) /\ Len(rows') = Len(rows) + 1
      BY <2>0, <3>1, AppendFacts
    <3> QED BY <2>0, <3>1, <3>2, BoundsAssumption
  <2>2. room' \in Rooms
    BY <1>0, <2>0, CountEffect DEF TypeOK
  <2> QED BY <1>0, <1>12, <2>1, <2>2, JoinEffect, AnswerTyped DEF TypeOK
<1>13. ASSUME NEW p \in Slots, LeaveTx(p), ~UNCHANGED <<room, rows>> PROVE TypeOK'
  <2>1. rows' \in Seq(Rows) /\ Len(rows') =< MaxRows
    BY <1>0, <1>13, LeaveEffect, ReplaceFacts DEF TypeOK
  <2>0. room' = [room EXCEPT !.memberCount = @ - 1]
    BY <1>13, LeaveEffect
  <2>2. room' \in Rooms
    BY <1>0, <2>0, CountEffect DEF TypeOK
  <2> QED BY <1>0, <1>13, <2>1, <2>2, LeaveEffect, AnswerTyped DEF TypeOK
<1>14. ASSUME NEW p \in Slots, RoleUpdate(p), ~UNCHANGED <<room, rows>> PROVE TypeOK'
  <2>1. rows' \in Seq(Rows) /\ Len(rows') =< MaxRows
    BY <1>0, <1>14, RoleEffect, ReplaceFacts DEF TypeOK
  <2> QED BY <1>0, <1>14, <2>1, RoleEffect, AnswerTyped DEF TypeOK
<1> QED BY <1>1, <1>2, <1>3, <1>4, <1>6, <1>7, <1>8, <1>9, <1>10, <1>11, <1>12,
           <1>13, <1>14 DEF Next, Query

-----------------------------------------------------------------------------
(* What a step leaves alone.                                               *)

Acts(p) == Request(p) \/ Query(p) \/ Abort(p)

\* A step of one slot leaves the handlers of the others where they are, and
\* nothing brings the calm back.
LEMMA OthersKept ==
  ASSUME TypeOK, NEW p \in Slots, Acts(p)
  PROVE  /\ \A q \in Slots : q # p =>
              pc'[q] = pc[q] /\ req'[q] = req[q] /\ seen'[q] = seen[q]
         /\ calm' => calm
<1>1. ASSUME NEW at, NEW r, Start(p, at, r)
      PROVE  /\ \A q \in Slots : q # p =>
                  pc'[q] = pc[q] /\ req'[q] = req[q] /\ seen'[q] = seen[q]
             /\ calm' => calm
  BY <1>1 DEF Start, TypeOK
<1>2. ASSUME NEW a, Answer(p, a)
      PROVE  /\ \A q \in Slots : q # p =>
                  pc'[q] = pc[q] /\ req'[q] = req[q] /\ seen'[q] = seen[q]
             /\ calm' => calm
  BY <1>2 DEF Answer, TypeOK
<1>3. ASSUME NEW at, Goto(p, at), \/ seen' = seen
                                  \/ \E s : seen' = [seen EXCEPT ![p] = s]
      PROVE  /\ \A q \in Slots : q # p =>
                  pc'[q] = pc[q] /\ req'[q] = req[q] /\ seen'[q] = seen[q]
             /\ calm' => calm
  BY <1>3 DEF Goto, TypeOK
<1>4. CASE Request(p)
  BY <1>4, <1>1 DEF Request, Join, Leave, Delete, UpdateRole
<1>5. CASE Abort(p)
  BY <1>5, <1>2 DEF Abort
<1>6. CASE JoinRoom(p)
  BY <1>6, <1>2, <1>3 DEF JoinRoom, Refuse
<1>7. CASE LeaveMember(p) \/ RoleTarget(p)
  BY <1>7, <1>2, <1>3 DEF LeaveMember, RoleTarget, Refuse
<1>8. CASE RoleSelect(p)
  BY <1>8, <1>2, <1>3 DEF RoleSelect
<1>9. CASE JoinTx(p) \/ LeaveTx(p) \/ RoleUpdate(p) \/ DeleteTx(p)
  BY <1>9, <1>2 DEF JoinTx, LeaveTx, RoleUpdate, DeleteTx
<1>10. CASE JoinExisting(p) \/ LeaveRoom(p) \/ LeaveAdmins(p) \/ RoleAdmin(p)
              \/ RoleAdmins(p) \/ DeleteRoom(p) \/ DeleteAdmin(p)
  BY <1>10, <1>2, <1>3 DEF JoinExisting, LeaveRoom, LeaveAdmins, RoleAdmin,
       RoleAdmins, DeleteRoom, DeleteAdmin, Refuse, Read
<1> QED BY <1>4, <1>5, <1>6, <1>7, <1>8, <1>9, <1>10 DEF Acts, Query

\* A room stays created, and a row stays the row of its user.
LEMMA RowsKept ==
  ASSUME Inv, NEW p \in Slots, Acts(p)
  PROVE  /\ DOMAIN rows \subseteq DOMAIN rows'
         /\ \A i \in DOMAIN rows : rows'[i].user = rows[i].user
         /\ room'.maxMembers = room.maxMembers
         /\ Created' = Created
<1>0. room \in Rooms /\ rows \in Seq(Rows)
  BY DEF Inv, TypeOK
<1>1. CASE UNCHANGED <<room, rows>>
  BY <1>1 DEF Created
<1>2. CASE JoinTx(p) /\ ~UNCHANGED <<room, rows>>
  <2> DEFINE new == [user |-> req[p].user, role |-> "member", status |-> "joined"]
  <2>1. /\ new \in Rows /\ rows' = Append(rows, new)
        /\ room' = [room EXCEPT !.memberCount = @ + 1]
    BY <1>2, JoinEffect
  <2> HIDE DEF new
  <2>2. /\ Len(rows) \in Nat
        /\ DOMAIN rows = 1..Len(rows)
        /\ DOMAIN rows' = 1..(Len(rows) + 1)
        /\ \A j \in 1..Len(rows) : rows'[j] = rows[j]
    BY <1>0, <2>1, AppendFacts
  <2>3. room'.maxMembers = room.maxMembers /\ room'.status = room.status
    BY <1>0, <2>1, CountEffect
  <2> QED BY <2>2, <2>3 DEF Created
<1>3. CASE LeaveTx(p) /\ ~UNCHANGED <<room, rows>>
  <2> DEFINE i == seen[p].row
             w == [rows[i] EXCEPT !.status = "left"]
  <2>1. /\ i \in DOMAIN rows /\ w \in Rows /\ rows' = [rows EXCEPT ![i] = w]
        /\ room' = [room EXCEPT !.memberCount = @ - 1]
    BY <1>3, LeaveEffect
  <2>2. w.user = rows[i].user
    BY <1>0, <2>1, ElementOfSeq, LenProperties DEF Rows
  <2> HIDE DEF w
  <2>3. /\ DOMAIN rows' = DOMAIN rows
        /\ \A j \in DOMAIN rows : rows'[j] = IF j = i THEN w ELSE rows[j]
    BY <1>0, <2>1, ReplaceFacts
  <2>4. room'.maxMembers = room.maxMembers /\ room'.status = room.status
    BY <1>0, <2>1, CountEffect
  <2> QED BY <2>2, <2>3, <2>4 DEF Created
<1>4. CASE RoleUpdate(p) /\ ~UNCHANGED <<room, rows>>
  <2> DEFINE i == seen[p].row
             w == Written(rows[i], seen[p].cols, req[p].role)
  <2>1. i \in DOMAIN rows /\ w \in Rows /\ rows' = [rows EXCEPT ![i] = w] /\ room' = room
    BY <1>4, RoleEffect
  <2>2. w.user = rows[i].user
    BY DEF Written
  <2> HIDE DEF w
  <2>3. /\ DOMAIN rows' = DOMAIN rows
        /\ \A j \in DOMAIN rows : rows'[j] = IF j = i THEN w ELSE rows[j]
    BY <1>0, <2>1, ReplaceFacts
  <2> QED BY <2>1, <2>2, <2>3 DEF Created
<1>5. CASE DeleteTx(p)
  <2>1. Created
    BY <1>5 DEF DeleteTx, Inv, Standing
  <2> QED BY <1>0, <1>5, <2>1 DEF DeleteTx, Created, Rooms
<1> QED BY <1>1, <1>2, <1>3, <1>4, <1>5, QuietSteps DEF Acts, Writes

\* Where a handler that stands in a room already created gets to.
LEMMA StandingStep ==
  ASSUME Inv, [Next]_vars
  PROVE  Standing'
<1>0. TypeOK /\ Standing
  BY DEF Inv
<1>1. CASE UNCHANGED vars
  <2>1. UNCHANGED <<room, rows, pc, req, seen>>
    BY <1>1 DEF vars
  <2> QED BY <1>0, <2>1 DEF Standing, Created
<1>2. ASSUME NEW u \in Users, NEW new \in NewRooms, CreateRoom(u, new)
      PROVE  Standing'
  <2>1. ~Created /\ room'.status = "active" /\ UNCHANGED <<pc, req, seen>>
    BY <1>2 DEF CreateRoom
  <2>2. \A p \in Slots : pc[p] \notin Holding
    BY <1>0, <2>1 DEF Standing, Holding
  <2> QED BY <1>0, <2>1, <2>2 DEF Standing, Created
<1>3. ASSUME NEW p \in Slots, Acts(p)
      PROVE  Standing'
  <2>1. /\ \A q \in Slots : q # p =>
             pc'[q] = pc[q] /\ req'[q] = req[q] /\ seen'[q] = seen[q]
        /\ DOMAIN rows \subseteq DOMAIN rows'
        /\ \A i \in DOMAIN rows : rows'[i].user = rows[i].user
        /\ Created' = Created
    BY <1>0, <1>3, OthersKept, RowsKept
  <2>2. ~Created' => rows' = <<>>
    <3>1. SUFFICES ASSUME ~Created PROVE UNCHANGED rows
      BY <1>0, <2>1, <3>1 DEF Standing
    <3>2. ~Writes(p)
      BY <1>0, <3>1 DEF Writes, JoinTx, LeaveTx, RoleUpdate, DeleteTx, Standing
    <3> QED BY <1>3, <3>2, QuietSteps DEF Acts
  <2>3. /\ pc'[p] \notin {"idle", "join", "leave", "role", "delete"} => Created
        /\ pc'[p] # "idle" => req'[p].user \in Users
        /\ pc'[p] \in Changing => req'[p].target \in Users
        /\ pc'[p] \in Holding => seen'[p].row \in DOMAIN rows
        /\ pc'[p] \in {"leaveAdmins", "leaveTx"} =>
             rows[seen'[p].row].user = req'[p].user
        /\ pc'[p] \in {"roleAdmins", "roleSelect", "roleUpdate"} =>
             rows[seen'[p].row].user = req'[p].target
    <3>1. CASE pc'[p] = "idle"
      BY <3>1 DEF Changing, Holding
    <3>2. CASE Request(p)
      <4>1. CASE \E u \in Users : Join(p, u) \/ Leave(p, u) \/ Delete(p, u)
        BY <1>0, <4>1 DEF Join, Leave, Delete, Start, NoReq, TypeOK, Changing, Holding
      <4>2. CASE \E u \in Users, t \in Users, r \in NewRoles : UpdateRole(p, u, t, r)
        BY <1>0, <4>2 DEF UpdateRole, Start, TypeOK, Changing, Holding
      <4> QED BY <3>2, <4>1, <4>2 DEF Request
    <3>3. ASSUME NEW a, Answer(p, a) PROVE pc'[p] = "idle"
      BY <1>0, <3>3 DEF Answer, TypeOK
    <3>4. ASSUME NEW at, Goto(p, at) PROVE pc'[p] = at /\ req'[p] = req[p]
      BY <1>0, <3>4 DEF Goto, TypeOK
    <3>5. CASE JoinRoom(p) /\ pc'[p] # "idle"
      BY <1>0, <3>3, <3>4, <3>5 DEF JoinRoom, Refuse, Standing, Changing, Holding
    <3>6. CASE JoinExisting(p) /\ pc'[p] # "idle"
      BY <1>0, <3>3, <3>4, <3>6 DEF JoinExisting, Refuse, Read, Standing, Changing, Holding
    <3>7. CASE (LeaveRoom(p) \/ DeleteRoom(p) \/ DeleteAdmin(p)) /\ pc'[p] # "idle"
      BY <1>0, <3>3, <3>4, <3>7 DEF LeaveRoom, DeleteRoom, DeleteAdmin, Refuse, Read,
           Standing, Changing, Holding
    <3>8. CASE LeaveMember(p) /\ pc'[p] # "idle"
      <4>1. PICK i \in DOMAIN rows, at \in {"leaveAdmins", "leaveTx"} :
              /\ Goto(p, at) /\ seen' = [seen EXCEPT ![p].row = i]
              /\ pc[p] = "leaveMember" /\ rows[i].user = req[p].user
        BY <3>3, <3>8 DEF LeaveMember, Refuse, RowsOf
      <4>2. seen'[p].row = i
        BY <1>0, <4>1 DEF TypeOK
      <4> QED BY <1>0, <3>4, <4>1, <4>2 DEF Standing, Changing
    <3>9. CASE RoleAdmin(p) /\ pc'[p] # "idle"
      <4>1. Goto(p, "roleTarget") /\ pc[p] = "role" /\ rows # <<>>
        BY <3>3, <3>9 DEF RoleAdmin, Refuse, Read, AdminRowOf, Admins, Joined, RowsOf
      <4> QED BY <1>0, <3>4, <4>1 DEF Standing, Changing, Holding
    <3>10. CASE RoleTarget(p) /\ pc'[p] # "idle"
      <4>1. PICK i \in DOMAIN rows, at \in {"roleAdmins", "roleSelect"} :
              /\ Goto(p, at) /\ seen' = [seen EXCEPT ![p].row = i]
              /\ pc[p] = "roleTarget" /\ rows[i].user = req[p].target
        BY <3>3, <3>10 DEF RoleTarget, Refuse, RowsOf
      <4>2. seen'[p].row = i
        BY <1>0, <4>1 DEF TypeOK
      <4> QED BY <1>0, <3>4, <4>1, <4>2 DEF Standing, Changing
    <3>11. CASE (LeaveAdmins(p) \/ RoleAdmins(p)) /\ pc'[p] # "idle"
      BY <1>0, <3>3, <3>4, <3>11 DEF LeaveAdmins, RoleAdmins, Refuse, Read, Standing,
           Changing, Holding
    <3>12. CASE RoleSelect(p) /\ pc'[p] # "idle"
      <4> DEFINE cols == Changed(rows[seen[p].row], req[p].role)
      <4>1. Goto(p, "roleUpdate") /\ seen' = [seen EXCEPT ![p].cols = cols] /\ pc[p] = "roleSelect"
        BY <3>3, <3>12 DEF RoleSelect
      <4>2. seen'[p].row = seen[p].row
        BY <1>0, <4>1 DEF TypeOK
      <4> QED BY <1>0, <3>4, <4>1, <4>2 DEF Standing, Changing, Holding
    <3>13. CASE JoinTx(p) \/ LeaveTx(p) \/ RoleUpdate(p) \/ DeleteTx(p) \/ Abort(p)
      BY <3>1, <3>3, <3>13 DEF JoinTx, LeaveTx, RoleUpdate, DeleteTx, Abort
    <3> QED BY <1>3, <3>1, <3>2, <3>5, <3>6, <3>7, <3>8, <3>9, <3>10, <3>11, <3>12,
               <3>13 DEF Acts, Query
  <2>4. ASSUME NEW q \in Slots
        PROVE  /\ pc'[q] \notin {"idle", "join", "leave", "role", "delete"} => Created
               /\ pc'[q] # "idle" => req'[q].user \in Users
               /\ pc'[q] \in Changing => req'[q].target \in Users
               /\ pc'[q] \in Holding => seen'[q].row \in DOMAIN rows
               /\ pc'[q] \in {"leaveAdmins", "leaveTx"} =>
                    rows[seen'[q].row].user = req'[q].user
               /\ pc'[q] \in {"roleAdmins", "roleSelect", "roleUpdate"} =>
                    rows[seen'[q].row].user = req'[q].target
    <3>1. CASE q = p
      BY <2>3, <3>1
    <3>2. CASE q # p
      <4>1. pc'[q] = pc[q] /\ req'[q] = req[q] /\ seen'[q] = seen[q]
        BY <2>1, <3>2
      <4> QED BY <1>0, <4>1 DEF Standing
    <3> QED BY <3>1, <3>2
  <2>5. \A q \in Slots :
          /\ pc'[q] \in {"leaveAdmins", "leaveTx"} =>
               rows'[seen'[q].row].user = req'[q].user
          /\ pc'[q] \in {"roleAdmins", "roleSelect", "roleUpdate"} =>
               rows'[seen'[q].row].user = req'[q].target
    BY <2>1, <2>4 DEF Holding
  <2> QED BY <2>1, <2>2, <2>4, <2>5 DEF Standing
<1> QED BY <1>1, <1>2, <1>3 DEF Next, Acts

-----------------------------------------------------------------------------
(* The members, and how many they are.                                     *)

\* A join adds one row, and one member.
LEMMA JoinedByJoin ==
  ASSUME Inv, NEW p \in Slots, JoinTx(p), ~UNCHANGED <<room, rows>>
  PROVE  LET n == Len(rows) + 1
         IN /\ n \notin DOMAIN rows /\ DOMAIN rows' = DOMAIN rows \union {n}
            /\ \A j \in DOMAIN rows : rows'[j] = rows[j]
            /\ rows'[n] = [user |-> req[p].user, role |-> "member", status |-> "joined"]
            /\ Joined' = Joined \union {n} /\ Admins' = Admins
            /\ Cardinality(Joined') = Cardinality(Joined) + 1
            /\ room'.memberCount = room.memberCount + 1
<1>0. room \in Rooms /\ rows \in Seq(Rows)
  BY DEF Inv, TypeOK
<1> DEFINE n == Len(rows) + 1
           new == [user |-> req[p].user, role |-> "member", status |-> "joined"]
<1>1. /\ new \in Rows /\ rows' = Append(rows, new)
      /\ room' = [room EXCEPT !.memberCount = @ + 1]
  BY JoinEffect
<1>2. new.status = "joined" /\ new.role = "member"
  OBVIOUS
<1> HIDE DEF new
<1>3. /\ Len(rows) \in Nat
      /\ DOMAIN rows = 1..Len(rows)
      /\ DOMAIN rows' = 1..(Len(rows) + 1)
      /\ \A j \in 1..Len(rows) : rows'[j] = rows[j]
      /\ rows'[n] = new
  BY <1>0, <1>1, AppendFacts
<1>4. n \notin DOMAIN rows /\ DOMAIN rows' = DOMAIN rows \union {n}
  BY <1>3
<1>5. Joined' = Joined \union {n}
  BY <1>2, <1>3, <1>4 DEF Joined
<1>6. Admins' = Admins
  BY <1>2, <1>3, <1>4, <1>5 DEF Admins, Joined
<1>7. n \notin Joined
  BY <1>4 DEF Joined
<1>8. Cardinality(Joined') = Cardinality(Joined) + 1
  BY <1>0, <1>5, <1>7, RowsFinite, FS_AddElement
<1>9. room'.memberCount = room.memberCount + 1
  BY <1>0, <1>1, CountEffect
<1> QED BY <1>3, <1>4, <1>5, <1>6, <1>8, <1>9, Zenon DEF new

\* A leave takes its row out of the members, if it is still there.
LEMMA JoinedByLeave ==
  ASSUME Inv, NEW p \in Slots, LeaveTx(p), ~UNCHANGED <<room, rows>>
  PROVE  LET i == seen[p].row
         IN /\ i \in DOMAIN rows /\ DOMAIN rows' = DOMAIN rows
            /\ \A j \in DOMAIN rows : j # i => rows'[j] = rows[j]
            /\ rows'[i].user = rows[i].user /\ rows'[i].role = rows[i].role
            /\ rows'[i].status = "left"
            /\ Joined' = Joined \ {i} /\ Admins' = Admins \ {i}
            /\ Cardinality(Joined') =
                 IF i \in Joined THEN Cardinality(Joined) - 1 ELSE Cardinality(Joined)
            /\ room'.memberCount = room.memberCount - 1
<1>0. room \in Rooms /\ rows \in Seq(Rows)
  BY DEF Inv, TypeOK
<1> DEFINE i == seen[p].row
           w == [rows[i] EXCEPT !.status = "left"]
<1>1. /\ i \in DOMAIN rows /\ w \in Rows /\ rows' = [rows EXCEPT ![i] = w]
      /\ room' = [room EXCEPT !.memberCount = @ - 1]
  BY LeaveEffect
<1>2. w.user = rows[i].user /\ w.role = rows[i].role /\ w.status = "left"
  BY <1>0, <1>1, ElementOfSeq, LenProperties DEF Rows
<1> HIDE DEF w, i
<1>3. /\ DOMAIN rows' = DOMAIN rows
      /\ \A j \in DOMAIN rows : rows'[j] = IF j = i THEN w ELSE rows[j]
  BY <1>0, <1>1, ReplaceFacts
<1>4. Joined' = Joined \ {i}
  BY <1>1, <1>2, <1>3 DEF Joined
<1>5. Admins' = Admins \ {i}
  BY <1>1, <1>2, <1>3, <1>4 DEF Admins, Joined
<1>6. Cardinality(Joined') =
        IF i \in Joined THEN Cardinality(Joined) - 1 ELSE Cardinality(Joined)
  BY <1>0, <1>4, RowsFinite, FS_RemoveElement
<1>7. room'.memberCount = room.memberCount - 1
  BY <1>0, <1>1, CountEffect
<1>8. /\ \A j \in DOMAIN rows : j # i => rows'[j] = rows[j]
      /\ rows'[i] = w
  BY <1>1, <1>3
<1> QED BY <1>1, <1>2, <1>3, <1>4, <1>5, <1>6, <1>7, <1>8 DEF i

\* A save of a role changes the role of one row, and may join it again.
LEMMA JoinedByRole ==
  ASSUME Inv, NEW p \in Slots, RoleUpdate(p), ~UNCHANGED <<room, rows>>
  PROVE  LET i == seen[p].row
         IN /\ i \in DOMAIN rows /\ DOMAIN rows' = DOMAIN rows
            /\ \A j \in DOMAIN rows : j # i => rows'[j] = rows[j]
            /\ rows'[i].user = rows[i].user
            /\ rows'[i].role \in {rows[i].role, req[p].role}
            /\ rows'[i].status =
                 IF "status" \in seen[p].cols THEN "joined" ELSE rows[i].status
            /\ RowsOf(rows'[i].user, rows'[i].status) \subseteq {i}
            /\ Joined' \in {Joined, Joined \union {i}}
            /\ Cardinality(Joined) =< Cardinality(Joined')
            /\ Cardinality(Joined') \in Nat
            /\ room' = room
<1>0. rows \in Seq(Rows)
  BY DEF Inv, TypeOK
<1> DEFINE i == seen[p].row
           w == Written(rows[i], seen[p].cols, req[p].role)
<1>1. /\ i \in DOMAIN rows /\ w \in Rows /\ rows' = [rows EXCEPT ![i] = w]
      /\ RowsOf(w.user, w.status) \subseteq {i} /\ room' = room
  BY RoleEffect
<1>2. /\ w.user = rows[i].user /\ w.role \in {rows[i].role, req[p].role}
      /\ w.status = IF "status" \in seen[p].cols THEN "joined" ELSE rows[i].status
  BY DEF Written
<1> HIDE DEF w, i
<1>3. /\ DOMAIN rows' = DOMAIN rows
      /\ \A j \in DOMAIN rows : rows'[j] = IF j = i THEN w ELSE rows[j]
  BY <1>0, <1>1, ReplaceFacts
<1>4. Joined' \in {Joined, Joined \union {i}}
  <2>1. CASE w.status = "joined"
    <3>1. Joined' = Joined \union {i}
      BY <1>1, <1>3, <2>1 DEF Joined
    <3> QED BY <3>1
  <2>2. CASE w.status # "joined"
    <3>1. w.status = rows[i].status
      BY <1>2, <2>2
    <3>2. Joined' = Joined
      BY <1>1, <1>3, <2>2, <3>1 DEF Joined
    <3> QED BY <3>2
  <2> QED BY <2>1, <2>2
<1>5. Cardinality(Joined) =< Cardinality(Joined') /\ Cardinality(Joined') \in Nat
  <2>1. IsFiniteSet(Joined) /\ Cardinality(Joined) \in Nat
    BY <1>0, RowsFinite
  <2>2. IsFiniteSet(Joined \union {i})
        /\ Cardinality(Joined \union {i}) \in {Cardinality(Joined), Cardinality(Joined) + 1}
    BY <2>1, FS_AddElement
  <2>3. \A k, l \in Nat : l \in {k, k + 1} => k =< l
    OBVIOUS
  <2>4. CASE Joined' = Joined
    BY <2>1, <2>4
  <2>5. CASE Joined' = Joined \union {i}
    <3>1. Cardinality(Joined') = Cardinality(Joined \union {i})
      BY <2>5
    <3> QED BY <2>1, <2>2, <2>3, <3>1
  <2> QED BY <1>4, <2>4, <2>5
<1>6. /\ \A j \in DOMAIN rows : j # i => rows'[j] = rows[j]
      /\ rows'[i] = w
  BY <1>1, <1>3
<1> QED BY <1>1, <1>2, <1>3, <1>4, <1>5, <1>6 DEF i

\* What a created room starts with.
LEMMA JoinedByCreation ==
  ASSUME Inv, NEW u \in Users, NEW new \in NewRooms, CreateRoom(u, new)
  PROVE  /\ DOMAIN rows' = {1} /\ rows'[1].status = "joined"
         /\ Joined' = {1} /\ Admins' = {1}
         /\ Cardinality(Joined') = 1
         /\ room'.memberCount = 1 /\ room'.maxMembers = new.maxMembers
<1> DEFINE r == [user |-> u, role |-> "admin", status |-> "joined"]
<1>1. r.role = "admin" /\ r.status = "joined"
  OBVIOUS
<1>2. rows' = <<r>>
  BY DEF CreateRoom
<1> HIDE DEF r
<1>3. DOMAIN rows' = {1} /\ rows'[1] = r
  BY <1>2
<1>4. Joined' = {1}
  BY <1>1, <1>3 DEF Joined
<1>5. Admins' = {1}
  BY <1>1, <1>3, <1>4 DEF Admins
<1> QED BY <1>1, <1>3, <1>4, <1>5, FS_Singleton DEF CreateRoom

\* The table keeps its UNIQUE constraint.
LEMMA OneMembershipStep ==
  ASSUME Inv, [Next]_vars
  PROVE  OneMembership'
<1>0. OneMembership
  BY DEF Inv
<1>1. CASE UNCHANGED rows
  BY <1>0, <1>1 DEF OneMembership
<1>2. ASSUME NEW u \in Users, NEW new \in NewRooms, CreateRoom(u, new)
      PROVE  OneMembership'
  <2>1. DOMAIN rows' = {1}
    BY <1>2, JoinedByCreation
  <2> QED BY <2>1 DEF OneMembership
<1>3. ASSUME NEW p \in Slots, JoinTx(p), ~UNCHANGED <<room, rows>>
      PROVE  OneMembership'
  <2> DEFINE n == Len(rows) + 1
  <2>1. /\ DOMAIN rows' = DOMAIN rows \union {n}
        /\ \A j \in DOMAIN rows : rows'[j] = rows[j]
        /\ rows'[n] = [user |-> req[p].user, role |-> "member", status |-> "joined"]
    BY <1>3, JoinedByJoin
  <2>2. RowsOf(req[p].user, "joined") = {}
    BY <1>3, JoinEffect
  <2>3. \A j \in DOMAIN rows :
          ~(rows[j].user = req[p].user /\ rows[j].status = "joined")
    BY <2>2 DEF RowsOf
  <2> HIDE DEF n
  <2>4. rows'[n].user = req[p].user /\ rows'[n].status = "joined"
    BY <2>1
  <2> QED BY <1>0, <2>1, <2>3, <2>4 DEF OneMembership
<1>4. ASSUME NEW p \in Slots, LeaveTx(p), ~UNCHANGED <<room, rows>>
      PROVE  OneMembership'
  <2> DEFINE i == seen[p].row
  <2>1. /\ i \in DOMAIN rows /\ DOMAIN rows' = DOMAIN rows
        /\ \A j \in DOMAIN rows : j # i => rows'[j] = rows[j]
        /\ rows'[i].user = rows[i].user /\ rows'[i].status = "left"
    BY <1>4, JoinedByLeave
  <2>2. RowsOf(req[p].user, "left") \subseteq {i}
    BY <1>4, LeaveEffect
  <2>3. PICK u : u = rows[i].user
    OBVIOUS
  <2>4. \A j \in DOMAIN rows : rows[j].user = u /\ rows[j].status = "left" => j = i
    <3>1. pc[p] = "leaveTx"
      BY <1>4, LeaveEffect
    <3>2. u = req[p].user
      BY <2>3, <3>1 DEF Inv, Standing
    <3> QED BY <2>2, <3>2 DEF RowsOf
  <2> HIDE DEF i
  <2> QED BY <1>0, <2>1, <2>3, <2>4 DEF OneMembership
<1>5. ASSUME NEW p \in Slots, RoleUpdate(p), ~UNCHANGED <<room, rows>>
      PROVE  OneMembership'
  <2> DEFINE i == seen[p].row
  <2>1. /\ i \in DOMAIN rows /\ DOMAIN rows' = DOMAIN rows
        /\ \A j \in DOMAIN rows : j # i => rows'[j] = rows[j]
        /\ RowsOf(rows'[i].user, rows'[i].status) \subseteq {i}
    BY <1>5, JoinedByRole
  <2>2. \A j \in DOMAIN rows :
          rows[j].user = rows'[i].user /\ rows[j].status = rows'[i].status => j = i
    BY <2>1 DEF RowsOf
  <2> HIDE DEF i
  <2> QED BY <1>0, <2>1, <2>2 DEF OneMembership
<1>6. ASSUME NEW p \in Slots, DeleteTx(p)
      PROVE  UNCHANGED rows
  BY <1>6 DEF DeleteTx
<1> QED BY <1>1, <1>2, <1>3, <1>4, <1>5, <1>6, QuietSteps DEF Next, Acts, Writes, vars

\* memberCount never overtakes the members.
LEMMA CountStep ==
  ASSUME Inv, [Next]_vars
  PROVE  CountNeverOverstates'
<1>0. /\ CountNeverOverstates /\ rows \in Seq(Rows)
      /\ room.memberCount \in Int /\ Cardinality(Joined) \in Nat
  BY RowsFinite, CountEffect DEF Inv, TypeOK
<1>1. CASE UNCHANGED <<room, rows>>
  BY <1>0, <1>1 DEF CountNeverOverstates, Created, Joined
<1>2. ASSUME NEW u \in Users, NEW new \in NewRooms, CreateRoom(u, new)
      PROVE  CountNeverOverstates'
  BY <1>2, JoinedByCreation DEF CountNeverOverstates
<1>3. ASSUME NEW p \in Slots, Acts(p), JoinTx(p) \/ LeaveTx(p) \/ RoleUpdate(p),
             ~UNCHANGED <<room, rows>>
      PROVE  CountNeverOverstates'
  <2>1. Created' = Created
    BY <1>3, RowsKept
  <2>2. \/ /\ Cardinality(Joined') = Cardinality(Joined) + 1
           /\ room'.memberCount = room.memberCount + 1
        \/ /\ Cardinality(Joined') \in {Cardinality(Joined), Cardinality(Joined) - 1}
           /\ room'.memberCount = room.memberCount - 1
        \/ /\ Cardinality(Joined) =< Cardinality(Joined') /\ Cardinality(Joined') \in Nat
           /\ room'.memberCount = room.memberCount
    BY <1>3, JoinedByJoin, JoinedByLeave, JoinedByRole
  <2> QED BY <1>0, <2>1, <2>2 DEF CountNeverOverstates
<1>4. ASSUME NEW p \in Slots, DeleteTx(p)
      PROVE  CountNeverOverstates'
  <2>1. Created /\ rows' = rows /\ room'.memberCount = room.memberCount
    BY <1>4 DEF DeleteTx, Inv, Standing, TypeOK, Rooms
  <2>2. Joined' = Joined
    BY <2>1 DEF Joined
  <2> QED BY <1>0, <2>1, <2>2 DEF CountNeverOverstates
<1> QED BY <1>1, <1>2, <1>3, <1>4, QuietSteps DEF Next, Acts, Writes, vars

-----------------------------------------------------------------------------
(* The capacity.                                                           *)

\* What a handler that answers, or moves on, does to its own state.
LEMMA OwnEffect ==
  ASSUME TypeOK, NEW p \in Slots
  PROVE  /\ \A a : Answer(p, a) => pc'[p] = "idle"
         /\ \A at : Goto(p, at) => pc'[p] = at /\ req'[p] = req[p]
         /\ \A at, r : Start(p, at, r) => pc'[p] = at /\ req'[p] = r
  BY DEF Answer, Goto, Start, TypeOK

\* Only JoinRoom admits.
LEMMA AdmittedKept ==
  ASSUME Inv, NEW p \in Slots, Acts(p), ~JoinRoom(p)
  PROVE  /\ Admitted' \subseteq Admitted
         /\ pc'[p] = "joinTx" => ~seen'[p].full
<1>0. TypeOK
  BY DEF Inv
<1>1. \A q \in Slots : q # p => pc'[q] = pc[q] /\ seen'[q] = seen[q]
  BY <1>0, OthersKept
<1>2. pc'[p] \in {"joinExisting", "joinTx"} =>
        /\ pc'[p] = "joinTx" /\ pc[p] = "joinExisting"
        /\ seen'[p] = seen[p] /\ ~seen[p].full
  <2>1. CASE Request(p)
    <3>1. PICK at \in {"join", "leave", "delete", "role"}, u \in Users,
               t \in Users \union {Nobody}, r \in Roles :
                 Start(p, at, [user |-> u, target |-> t, role |-> r])
      BY <2>1, RequestStarts
    <3> QED BY <1>0, <3>1, OwnEffect
  <2>2. CASE JoinExisting(p)
    BY <1>0, <2>2, OwnEffect DEF JoinExisting, Refuse, Read
  <2>3. CASE JoinTx(p) \/ LeaveTx(p) \/ RoleUpdate(p) \/ DeleteTx(p) \/ Abort(p)
    BY <1>0, <2>3, OwnEffect DEF JoinTx, LeaveTx, RoleUpdate, DeleteTx, Abort
  <2>4. CASE LeaveRoom(p) \/ LeaveAdmins(p) \/ RoleAdmin(p) \/ RoleAdmins(p)
               \/ DeleteRoom(p) \/ DeleteAdmin(p)
    BY <1>0, <2>4, OwnEffect DEF LeaveRoom, LeaveAdmins, RoleAdmin, RoleAdmins,
         DeleteRoom, DeleteAdmin, Refuse, Read
  <2>5. CASE LeaveMember(p) \/ RoleTarget(p) \/ RoleSelect(p)
    BY <1>0, <2>5, OwnEffect DEF LeaveMember, RoleTarget, RoleSelect, Refuse
  <2> QED BY <2>1, <2>2, <2>3, <2>4, <2>5 DEF Acts, Query
<1> QED BY <1>1, <1>2 DEF Admitted

\* The slots, and the admitted requests, are finitely many.
LEMMA AdmittedFinite ==
  /\ IsFiniteSet(Admitted) /\ Cardinality(Admitted) \in Nat
  /\ Cardinality(Admitted) =< Cardinality(Slots)
  /\ Cardinality(Slots) \in Nat \ {0}
<1>1. Cardinality(Slots) \in Nat \ {0}
  BY SlotsAssumption, FS_EmptySet, FS_CardinalityType
<1>2. Admitted \in SUBSET Slots
  BY DEF Admitted
<1> QED BY <1>1, <1>2, SlotsAssumption, FS_Subset, FS_CardinalityType

LEMMA OverrunStep ==
  ASSUME Inv, [Next]_vars
  PROVE  Overrun'
<1>0. /\ TypeOK /\ Standing /\ Overrun
      /\ room.memberCount \in Int /\ room.maxMembers \in Nat
  BY DEF Inv, TypeOK, Rooms
<1> DEFINE S == Cardinality(Slots)
           A == Cardinality(Admitted)
<1>a. A \in Nat /\ S \in Nat \ {0} /\ IsFiniteSet(Admitted)
  BY AdmittedFinite
<1>b. ASSUME Admitted' \subseteq Slots
      PROVE  Cardinality(Admitted') \in Nat /\ Cardinality(Admitted') =< S
  BY <1>b, SlotsAssumption, FS_Subset, FS_CardinalityType
<1>c. ASSUME Admitted' \subseteq Admitted
      PROVE  Cardinality(Admitted') \in Nat /\ Cardinality(Admitted') =< A
  BY <1>a, <1>c, FS_Subset, FS_CardinalityType
<1>1. CASE UNCHANGED vars
  BY <1>0, <1>1 DEF vars, Overrun, Admitted, Created
<1>2. ASSUME NEW u \in Users, NEW new \in NewRooms, CreateRoom(u, new)
      PROVE  Overrun'
  <2>1. UNCHANGED <<pc, seen>> /\ ~Created
    BY <1>2 DEF CreateRoom
  <2>2. Admitted' = {} /\ \A p \in Slots : pc'[p] # "joinTx"
    BY <1>0, <2>1 DEF Admitted, Standing
  <2>3. Cardinality(Admitted') = 0
    BY <2>2, FS_EmptySet
  <2>4. room'.memberCount = 1 /\ room'.maxMembers \in Nat
    BY <1>2, JoinedByCreation, InputsAssumption
  <2> QED BY <1>a, <2>2, <2>3, <2>4 DEF Overrun
<1>3. ASSUME NEW p \in Slots, Acts(p)
      PROVE  Overrun'
  <2>0. /\ \A q \in Slots : q # p => pc'[q] = pc[q] /\ seen'[q] = seen[q]
        /\ room'.maxMembers = room.maxMembers /\ Created' = Created
    BY <1>0, <1>3, OthersKept, RowsKept
  <2>1. pc'[p] = "joinTx" => ~seen'[p].full
    <3>1. CASE JoinRoom(p)
      BY <1>0, <3>1, OwnEffect DEF JoinRoom, Refuse
    <3> QED BY <1>3, <3>1, AdmittedKept
  <2>2. \A q \in Slots : pc'[q] = "joinTx" => ~seen'[q].full
    BY <1>0, <2>0, <2>1 DEF Overrun
  <2>3. ASSUME Created, room.maxMembers # 0
        PROVE  room'.memberCount + Cardinality(Admitted') < room.maxMembers + S
    <3>0. room.memberCount + A < room.maxMembers + S
      BY <1>0, <2>3 DEF Overrun
    <3>1. CASE JoinRoom(p) /\ ~RoomFull
      <4>1. room' = room /\ room.memberCount < room.maxMembers
        BY <1>0, <2>3, <3>1 DEF JoinRoom, RoomFull, Refuse
      <4>2. Cardinality(Admitted') \in Nat /\ Cardinality(Admitted') =< S
        BY <1>b DEF Admitted
      <4> HIDE DEF S
      <4> QED BY <1>0, <1>a, <4>1, <4>2
    <3>2. CASE JoinRoom(p) /\ RoomFull
      <4>1. room' = room
        BY <3>2 DEF JoinRoom, Refuse
      <4>2. pc'[p] # "idle" => seen'[p].full
        <5>1. CASE seen' = [seen EXCEPT ![p].full = RoomFull]
          BY <1>0, <3>2, <5>1 DEF TypeOK
        <5> QED BY <1>0, <3>2, <5>1, OwnEffect DEF JoinRoom, Refuse
      <4>3. Admitted' \subseteq Admitted
        BY <2>0, <4>2 DEF Admitted
      <4> HIDE DEF S, A
      <4> QED BY <1>0, <1>a, <1>c, <3>0, <4>1, <4>3
    <3>3. CASE JoinTx(p) /\ ~UNCHANGED <<room, rows>>
      <4>1. room'.memberCount = room.memberCount + 1 /\ pc[p] = "joinTx" /\ Answer(p, "done")
        BY <3>3, JoinedByJoin, JoinEffect
      <4>2. p \in Admitted
        BY <1>0, <4>1 DEF Admitted, Overrun
      <4>3. Admitted' = Admitted \ {p}
        BY <1>0, <2>0, <4>1, OwnEffect DEF Admitted
      <4>4. Cardinality(Admitted') = A - 1
        BY <1>a, <4>2, <4>3, FS_RemoveElement
      <4> HIDE DEF S, A
      <4> QED BY <1>0, <1>a, <3>0, <4>1, <4>4
    <3>4. CASE ~JoinRoom(p) /\ ~(JoinTx(p) /\ ~UNCHANGED <<room, rows>>)
      <4>1. Admitted' \subseteq Admitted
        BY <1>3, <3>4, AdmittedKept
      <4>2. room'.memberCount \in {room.memberCount, room.memberCount - 1}
        <5>1. CASE LeaveTx(p) /\ ~UNCHANGED <<room, rows>>
          BY <5>1, JoinedByLeave
        <5>2. CASE RoleUpdate(p) /\ ~UNCHANGED <<room, rows>>
          BY <5>2, JoinedByRole
        <5>3. CASE DeleteTx(p)
          BY <1>0, <5>3 DEF DeleteTx, TypeOK, Rooms
        <5>4. CASE UNCHANGED <<room, rows>>
          BY <5>4
        <5> QED BY <1>3, <3>4, <5>1, <5>2, <5>3, <5>4, QuietSteps DEF Acts, Writes
      <4> HIDE DEF S, A
      <4> QED BY <1>0, <1>a, <1>c, <3>0, <4>1, <4>2
    <3> QED BY <3>1, <3>2, <3>3, <3>4
  <2> QED BY <2>0, <2>2, <2>3 DEF Overrun
<1> QED BY <1>1, <1>2, <1>3 DEF Next, Acts
-----------------------------------------------------------------------------
(* One leave, or one change of role, at a time.                            *)

\* A request that leaves or changes roles while the calm lasts is the only one.
LEMMA BusyStep ==
  ASSUME TypeOK, NEW p \in Slots, Acts(p), calm', pc'[p] \in Leaving \union Changing
  PROVE  p \in Busy \/ Busy = {}
<1>1. CASE Request(p)
  <2>1. PICK at \in {"join", "leave", "delete", "role"}, u \in Users,
             t \in Users \union {Nobody}, r \in Roles :
               Start(p, at, [user |-> u, target |-> t, role |-> r])
    BY <1>1, RequestStarts
  <2>2. pc'[p] = at
    BY <2>1, OwnEffect
  <2> QED BY <2>1, <2>2 DEF Start
<1>2. CASE Abort(p) \/ JoinTx(p) \/ LeaveTx(p) \/ RoleUpdate(p) \/ DeleteTx(p)
  <2>1. pc'[p] = "idle"
    BY <1>2, OwnEffect DEF Abort, JoinTx, LeaveTx, RoleUpdate, DeleteTx
  <2> QED BY <2>1 DEF Leaving, Changing
<1>3. CASE JoinRoom(p) \/ JoinExisting(p) \/ DeleteRoom(p) \/ DeleteAdmin(p)
  <2>1. pc'[p] \in {"idle", "joinExisting", "joinTx", "deleteAdmin", "deleteTx"}
    BY <1>3, OwnEffect DEF JoinRoom, JoinExisting, DeleteRoom, DeleteAdmin, Refuse, Read
  <2> QED BY <2>1 DEF Leaving, Changing
<1>4. CASE LeaveRoom(p) \/ LeaveMember(p) \/ LeaveAdmins(p) \/ RoleAdmin(p)
             \/ RoleTarget(p) \/ RoleAdmins(p) \/ RoleSelect(p)
  BY <1>4 DEF LeaveRoom, LeaveMember, LeaveAdmins, RoleAdmin, RoleTarget,
       RoleAdmins, RoleSelect, Busy, Leaving, Changing
<1> QED BY <1>1, <1>2, <1>3, <1>4 DEF Acts, Query

\* What such a request read stays as it is while others join and delete.
LEMMA RowsSteady ==
  ASSUME Inv, NEW p \in Slots, Acts(p), p \notin Busy
  PROVE  /\ \A j \in DOMAIN rows : rows'[j] = rows[j]
         /\ Admins' = Admins
<1>1. ~LeaveTx(p) /\ ~RoleUpdate(p)
  BY DEF LeaveTx, RoleUpdate, Busy, Leaving, Changing
<1>2. CASE UNCHANGED <<room, rows>>
  BY <1>2 DEF Admins, Joined
<1>3. CASE JoinTx(p) /\ ~UNCHANGED <<room, rows>>
  BY <1>3, JoinedByJoin
<1>4. CASE DeleteTx(p)
  <2>1. rows' = rows
    BY <1>4 DEF DeleteTx
  <2> QED BY <2>1 DEF Admins, Joined
<1> QED BY <1>1, <1>2, <1>3, <1>4, QuietSteps DEF Acts, Writes

\* More than one admin: there is one besides any of them.
LEMMA OtherAdmin ==
  ASSUME NEW i \in Admins, Cardinality(Admins) # 1
  PROVE  \E j \in Admins : j # i
<1>1. SUFFICES ASSUME Admins = {i} PROVE FALSE
  OBVIOUS
<1> QED BY <1>1, FS_Singleton

\* What the request that acts knows of the rows after its step.
LEMMA SteadyOwn ==
  ASSUME Inv, calm, NEW p \in Slots, Acts(p)
  PROVE  /\ pc'[p] \in Holding => rows'[seen'[p].row].status = "joined"
         /\ pc'[p] = "leaveAdmins" => rows'[seen'[p].row].role = "admin"
         /\ pc'[p] = "roleAdmins" => req'[p].target = req'[p].user
         /\ pc'[p] = "leaveTx" \/ (pc'[p] \in {"roleSelect", "roleUpdate"}
                                   /\ req'[p].role # "admin") =>
              \E j \in Admins' : j # seen'[p].row
         /\ pc'[p] \in Changing \ {"role"} =>
              \E j \in Admins' : rows'[j].user = req'[p].user
         /\ pc'[p] = "roleUpdate" => "status" \notin seen'[p].cols
<1>0. TypeOK /\ Standing /\ OneMembership /\ Steady /\ CalmAdminRemains
  BY DEF Inv
<1>1. CASE pc'[p] \notin Holding /\ pc'[p] \notin Changing \ {"role"}
  BY <1>1 DEF Holding
<1>2. ASSUME ~Writes(p)
      PROVE  rows' = rows /\ Admins' = Admins
  BY <1>2, QuietSteps DEF Acts, Admins, Joined
<1>3. CASE Request(p)
  <2>1. PICK at \in {"join", "leave", "delete", "role"}, u \in Users,
             t \in Users \union {Nobody}, r \in Roles :
               Start(p, at, [user |-> u, target |-> t, role |-> r])
    BY <1>3, RequestStarts
  <2>2. pc'[p] = at
    BY <1>0, <2>1, OwnEffect
  <2> QED BY <1>1, <2>2 DEF Holding, Changing
<1>4. CASE Abort(p) \/ JoinTx(p) \/ LeaveTx(p) \/ RoleUpdate(p) \/ DeleteTx(p)
  <2>1. pc'[p] = "idle"
    BY <1>0, <1>4, OwnEffect DEF Abort, JoinTx, LeaveTx, RoleUpdate, DeleteTx
  <2> QED BY <1>1, <2>1 DEF Holding, Changing
<1>5. CASE JoinRoom(p) \/ JoinExisting(p) \/ DeleteRoom(p) \/ DeleteAdmin(p) \/ LeaveRoom(p)
  <2>1. pc'[p] \in {"idle", "joinExisting", "joinTx", "deleteAdmin", "deleteTx",
                    "leaveMember"}
    BY <1>0, <1>5, OwnEffect DEF JoinRoom, JoinExisting, DeleteRoom, DeleteAdmin,
         LeaveRoom, Refuse, Read
  <2> QED BY <1>1, <2>1 DEF Holding, Changing
<1>6. ASSUME Refuse(p)
      PROVE  pc'[p] \notin Holding /\ pc'[p] \notin Changing \ {"role"}
  BY <1>0, <1>6, OwnEffect DEF Refuse, Holding, Changing
<1>7. CASE LeaveMember(p) /\ ~Refuse(p)
  <2>1. PICK i \in RowsOf(req[p].user, "joined") :
          /\ Goto(p, IF rows[i].role = "admin" THEN "leaveAdmins" ELSE "leaveTx")
          /\ seen' = [seen EXCEPT ![p].row = i]
          /\ pc[p] = "leaveMember" /\ rows' = rows
    BY <1>7 DEF LeaveMember
  <2>2. /\ seen'[p].row = i /\ i \in DOMAIN rows /\ rows[i].status = "joined"
        /\ pc'[p] = IF rows[i].role = "admin" THEN "leaveAdmins" ELSE "leaveTx"
    BY <1>0, <2>1, OwnEffect DEF TypeOK, RowsOf
  <2>3. Admins' = Admins
    BY <2>1 DEF Admins, Joined
  <2>4. ASSUME rows[i].role # "admin" PROVE \E j \in Admins : j # i
    <3>1. Admins # {}
      BY <1>0, <2>1 DEF CalmAdminRemains, Standing
    <3>2. i \notin Admins
      BY <2>4 DEF Admins
    <3> QED BY <3>1, <3>2
  <2> QED BY <2>1, <2>2, <2>3, <2>4 DEF Changing
<1>8. CASE LeaveAdmins(p) /\ ~Refuse(p)
  <2>1. /\ Read(p, "leaveTx") /\ pc[p] = "leaveAdmins" /\ Cardinality(Admins) # 1
        /\ rows' = rows /\ seen' = seen
    BY <1>8 DEF LeaveAdmins, Read
  <2>2. pc'[p] = "leaveTx"
    BY <1>0, <2>1, OwnEffect DEF Read
  <2>3. Admins' = Admins
    BY <2>1 DEF Admins, Joined
  <2>4. /\ rows[seen[p].row].status = "joined" /\ rows[seen[p].row].role = "admin"
        /\ seen[p].row \in DOMAIN rows
    BY <1>0, <2>1 DEF Steady, Standing, Holding
  <2>5. \E j \in Admins : j # seen[p].row
    BY <2>1, <2>4, OtherAdmin DEF Admins, Joined
  <2> QED BY <2>1, <2>2, <2>3, <2>4, <2>5 DEF Changing
<1>9. CASE RoleAdmin(p) /\ ~Refuse(p)
  <2>1. Read(p, "roleTarget") /\ AdminRowOf(req[p].user) # {} /\ rows' = rows
    BY <1>9 DEF RoleAdmin, Read
  <2>2. pc'[p] = "roleTarget" /\ req'[p] = req[p]
    BY <1>0, <2>1, OwnEffect DEF Read
  <2>3. Admins' = Admins
    BY <2>1 DEF Admins, Joined
  <2>4. \E j \in Admins : rows[j].user = req[p].user
    BY <2>1 DEF AdminRowOf, RowsOf
  <2> QED BY <2>1, <2>2, <2>3, <2>4 DEF Holding
<1>10. CASE RoleTarget(p) /\ ~Refuse(p)
  <2>1. PICK i \in RowsOf(req[p].target, "joined") :
          /\ Goto(p, IF req[p].target = req[p].user /\ req[p].role # "admin"
                     THEN "roleAdmins" ELSE "roleSelect")
          /\ seen' = [seen EXCEPT ![p].row = i]
          /\ pc[p] = "roleTarget" /\ rows' = rows
    BY <1>10 DEF RoleTarget
  <2>2. /\ seen'[p].row = i /\ i \in DOMAIN rows /\ rows[i].status = "joined"
        /\ rows[i].user = req[p].target /\ req'[p] = req[p]
        /\ pc'[p] = IF req[p].target = req[p].user /\ req[p].role # "admin"
                    THEN "roleAdmins" ELSE "roleSelect"
    BY <1>0, <2>1, OwnEffect DEF TypeOK, RowsOf
  <2>3. Admins' = Admins
    BY <2>1 DEF Admins, Joined
  <2>4. PICK j \in Admins : rows[j].user = req[p].user
    BY <1>0, <2>1 DEF Steady, Changing
  <2>5. req[p].target # req[p].user => j # i
    BY <2>2, <2>4
  <2> QED BY <2>1, <2>2, <2>3, <2>4, <2>5
<1>11. CASE RoleAdmins(p) /\ ~Refuse(p)
  <2>1. /\ Read(p, "roleSelect") /\ pc[p] = "roleAdmins" /\ Cardinality(Admins) # 1
        /\ rows' = rows /\ seen' = seen
    BY <1>11 DEF RoleAdmins, Read
  <2>2. pc'[p] = "roleSelect" /\ req'[p] = req[p]
    BY <1>0, <2>1, OwnEffect DEF Read
  <2>3. Admins' = Admins
    BY <2>1 DEF Admins, Joined
  <2>4. /\ rows[seen[p].row].status = "joined" /\ seen[p].row \in DOMAIN rows
        /\ rows[seen[p].row].user = req[p].user
    BY <1>0, <2>1 DEF Steady, Standing, Holding
  <2>5. PICK k \in Admins : rows[k].user = req[p].user
    BY <1>0, <2>1 DEF Steady, Changing
  <2>6. seen[p].row = k
    BY <1>0, <2>4, <2>5 DEF OneMembership, Admins, Joined
  <2>7. \E j \in Admins : j # seen[p].row
    BY <2>1, <2>6, OtherAdmin
  <2> QED BY <2>1, <2>2, <2>3, <2>4, <2>5, <2>7
<1>12. CASE RoleSelect(p)
  <2> DEFINE cols == Changed(rows[seen[p].row], req[p].role)
  <2>1. CASE Answer(p, "done")
    <3>1. pc'[p] = "idle"
      BY <1>0, <2>1, OwnEffect
    <3> QED BY <1>1, <3>1 DEF Holding, Changing
  <2>2. CASE ~Answer(p, "done")
    <3>1. /\ Goto(p, "roleUpdate") /\ seen' = [seen EXCEPT ![p].cols = cols]
          /\ pc[p] = "roleSelect" /\ rows' = rows
      BY <1>12, <2>2 DEF RoleSelect
    <3>2. pc'[p] = "roleUpdate" /\ req'[p] = req[p]
      BY <1>0, <3>1, OwnEffect
    <3>3. seen'[p].row = seen[p].row /\ seen'[p].cols = cols
      BY <1>0, <3>1 DEF TypeOK
    <3>4. Admins' = Admins
      BY <3>1 DEF Admins, Joined
    <3>5. rows[seen[p].row].status = "joined"
      BY <1>0, <3>1 DEF Steady, Holding
    <3>6. "status" \notin cols
      BY <3>5 DEF Changed
    <3> HIDE DEF cols
    <3>7. /\ \E j \in Admins : rows[j].user = req[p].user
          /\ req[p].role # "admin" => \E j \in Admins : j # seen[p].row
      BY <1>0, <3>1 DEF Steady, Changing
    <3> QED BY <3>1, <3>2, <3>3, <3>4, <3>5, <3>6, <3>7
  <2> QED BY <2>1, <2>2
<1> QED BY <1>1, <1>3, <1>4, <1>5, <1>6, <1>7, <1>8, <1>9, <1>10, <1>11, <1>12
        DEF Acts, Query
\* What the calm keeps: the steady rows, the exact count and an admin.
LEMMA SteadyStep ==
  ASSUME Inv, NEW p \in Slots, Acts(p), calm'
  PROVE  Steady' /\ CalmCountExact' /\ CalmAdminRemains'
<1>0. /\ TypeOK /\ Standing /\ Steady /\ CalmAdminRemains /\ CalmCountExact
      /\ calm /\ Created' = Created
      /\ \A q \in Slots : q # p =>
           pc'[q] = pc[q] /\ req'[q] = req[q] /\ seen'[q] = seen[q]
  BY OthersKept, RowsKept DEF Inv
<1>1. \A q, r \in Busy' : q = r
  <2>1. \A q \in Slots : q # p => (q \in Busy' <=> q \in Busy)
    BY <1>0 DEF Busy
  <2>2. p \in Busy' => p \in Busy \/ Busy = {}
    BY <1>0, BusyStep DEF Busy
  <2>3. \A q, r \in Busy : q = r
    BY <1>0 DEF Steady
  <2> QED BY <2>1, <2>2, <2>3 DEF Busy
<1>2. ASSUME NEW q \in Slots
      PROVE  /\ pc'[q] \in Holding => rows'[seen'[q].row].status = "joined"
             /\ pc'[q] = "leaveAdmins" => rows'[seen'[q].row].role = "admin"
             /\ pc'[q] = "roleAdmins" => req'[q].target = req'[q].user
             /\ pc'[q] = "leaveTx" \/ (pc'[q] \in {"roleSelect", "roleUpdate"}
                                       /\ req'[q].role # "admin") =>
                  \E j \in Admins' : j # seen'[q].row
             /\ pc'[q] \in Changing \ {"role"} =>
                  \E j \in Admins' : rows'[j].user = req'[q].user
             /\ pc'[q] = "roleUpdate" => "status" \notin seen'[q].cols
  <2>1. CASE q = p
    BY <1>0, <2>1, SteadyOwn
  <2>2. CASE q # p /\ q \in Busy
    <3>1. p \notin Busy
      BY <1>0, <2>2 DEF Steady
    <3>2. (\A j \in DOMAIN rows : rows'[j] = rows[j]) /\ Admins' = Admins
      BY <3>1, RowsSteady
    <3>3. pc'[q] = pc[q] /\ req'[q] = req[q] /\ seen'[q] = seen[q]
      BY <1>0, <2>2
    <3>4. pc[q] \in Holding => seen[q].row \in DOMAIN rows
      BY <1>0 DEF Standing
    <3>5. Admins \subseteq DOMAIN rows
      BY DEF Admins, Joined
    <3>6. /\ pc[q] \in Holding => rows[seen[q].row].status = "joined"
          /\ pc[q] = "leaveAdmins" => rows[seen[q].row].role = "admin"
          /\ pc[q] = "roleAdmins" => req[q].target = req[q].user
          /\ pc[q] = "leaveTx" \/ (pc[q] \in {"roleSelect", "roleUpdate"}
                                   /\ req[q].role # "admin") =>
               \E j \in Admins : j # seen[q].row
          /\ pc[q] \in Changing \ {"role"} =>
               \E j \in Admins : rows[j].user = req[q].user
          /\ pc[q] = "roleUpdate" => "status" \notin seen[q].cols
      BY <1>0 DEF Steady
    <3>7. pc[q] = "leaveAdmins" => pc[q] \in Holding
      BY DEF Holding
    <3> QED BY <3>2, <3>3, <3>4, <3>5, <3>6, <3>7
  <2>3. CASE q # p /\ q \notin Busy
    <3>1. pc'[q] \notin Leaving \union Changing
      BY <1>0, <2>3 DEF Busy
    <3> QED BY <3>1 DEF Leaving, Changing, Holding
  <2> QED BY <2>1, <2>2, <2>3
<1>3. Steady'
  <2>1. \A q \in Slots :
          /\ pc'[q] \in Holding => rows'[seen'[q].row].status = "joined"
          /\ pc'[q] = "leaveAdmins" => rows'[seen'[q].row].role = "admin"
          /\ pc'[q] = "roleAdmins" => req'[q].target = req'[q].user
          /\ pc'[q] = "leaveTx" \/ (pc'[q] \in {"roleSelect", "roleUpdate"}
                                    /\ req'[q].role # "admin") =>
               \E j \in Admins' : j # seen'[q].row
          /\ pc'[q] \in Changing \ {"role"} =>
               \E j \in Admins' : rows'[j].user = req'[q].user
          /\ pc'[q] = "roleUpdate" => "status" \notin seen'[q].cols
    BY <1>2
  <2> QED BY <1>1, <2>1 DEF Steady
<1>4. CalmCountExact' /\ CalmAdminRemains'
  <2>0. room.memberCount \in Int /\ Cardinality(Joined) \in Nat /\ rows \in Seq(Rows)
    BY <1>0, RowsFinite DEF TypeOK, Rooms
  <2>1. CASE UNCHANGED <<room, rows>>
    <3>1. Joined' = Joined /\ Admins' = Admins
      BY <2>1 DEF Joined, Admins
    <3> QED BY <1>0, <2>1, <3>1 DEF CalmCountExact, CalmAdminRemains
  <2>2. CASE JoinTx(p) /\ ~UNCHANGED <<room, rows>>
    <3>1. /\ Cardinality(Joined') = Cardinality(Joined) + 1
          /\ room'.memberCount = room.memberCount + 1 /\ Admins' = Admins
      BY <2>2, JoinedByJoin
    <3> QED BY <1>0, <2>0, <3>1 DEF CalmCountExact, CalmAdminRemains
  <2>3. CASE LeaveTx(p) /\ ~UNCHANGED <<room, rows>>
    <3>1. /\ rows[seen[p].row].status = "joined" /\ seen[p].row \in DOMAIN rows
          /\ \E j \in Admins : j # seen[p].row
      BY <1>0, <2>3 DEF LeaveTx, Steady, Standing, Holding
    <3>2. /\ Admins' = Admins \ {seen[p].row}
          /\ Cardinality(Joined') = IF seen[p].row \in Joined
                                    THEN Cardinality(Joined) - 1 ELSE Cardinality(Joined)
          /\ room'.memberCount = room.memberCount - 1
      BY <2>3, JoinedByLeave
    <3>3. seen[p].row \in Joined
      BY <3>1 DEF Joined
    <3>4. Admins' # {}
      BY <3>1, <3>2
    <3> QED BY <1>0, <2>0, <3>2, <3>3, <3>4 DEF CalmCountExact, CalmAdminRemains
  <2>4. CASE RoleUpdate(p) /\ ~UNCHANGED <<room, rows>>
    <3> DEFINE i == seen[p].row
    <3>1. /\ rows[i].status = "joined" /\ "status" \notin seen[p].cols
          /\ req[p].role # "admin" => \E j \in Admins : j # i
      BY <1>0, <2>4 DEF RoleUpdate, Steady, Holding
    <3>2. /\ i \in DOMAIN rows /\ DOMAIN rows' = DOMAIN rows
          /\ \A j \in DOMAIN rows : j # i => rows'[j] = rows[j]
          /\ rows'[i].role \in {rows[i].role, req[p].role}
          /\ rows'[i].status = "joined" /\ room' = room
      BY <2>4, <3>1, JoinedByRole
    <3> HIDE DEF i
    <3>3. Joined' = Joined
      BY <3>1, <3>2 DEF Joined
    <3>4. PICK k \in Admins : k # i \/ req[p].role = "admin"
      BY <1>0, <2>4, <3>1 DEF CalmAdminRemains, Standing, RoleUpdate
    <3>5. k \in Joined /\ k \in DOMAIN rows /\ rows[k].role = "admin"
      BY DEF Admins, Joined
    <3>6. rows'[k].role = "admin"
      BY <3>2, <3>4, <3>5
    <3>7. Admins' # {}
      BY <3>3, <3>5, <3>6 DEF Admins
    <3> QED BY <1>0, <2>0, <3>2, <3>3, <3>7 DEF CalmCountExact, CalmAdminRemains
  <2>5. CASE DeleteTx(p)
    <3>1. rows' = rows /\ room'.memberCount = room.memberCount
      BY <1>0, <2>5 DEF DeleteTx, TypeOK, Rooms
    <3>2. Joined' = Joined /\ Admins' = Admins
      BY <3>1 DEF Joined, Admins
    <3> QED BY <1>0, <3>1, <3>2 DEF CalmCountExact, CalmAdminRemains
  <2> QED BY <2>1, <2>2, <2>3, <2>4, <2>5, QuietSteps DEF Acts, Writes
<1> QED BY <1>3, <1>4

-----------------------------------------------------------------------------
(* The invariant is inductive.                                             *)

LEMMA InitInv == Init => Inv
<1> SUFFICES ASSUME Init PROVE Inv
  OBVIOUS
<1>1. TypeOK
  BY BoundsAssumption
     DEF Init, TypeOK, NoRoom, NoReq, Unseen, Rooms, Visibility, PCs, Roles
<1>2. ~Created
  BY DEF Init, Created, NoRoom
<1>3. \A p \in Slots : pc[p] = "idle"
  BY DEF Init
<1>4. Standing
  BY <1>2, <1>3 DEF Init, Standing, Changing, Holding
<1>5. OneMembership
  BY DEF Init, OneMembership
<1>6. Overrun
  BY <1>2, <1>3 DEF Overrun
<1>7. Steady
  BY <1>3 DEF Steady, Busy, Leaving, Changing, Holding
<1> QED BY <1>1, <1>2, <1>4, <1>5, <1>6, <1>7
        DEF Inv, CountNeverOverstates, CalmCountExact, CalmAdminRemains

LEMMA NextInv ==
  ASSUME Inv, [Next]_vars
  PROVE  Inv'
<1>1. TypeOK' /\ Standing' /\ OneMembership' /\ CountNeverOverstates' /\ Overrun'
  BY TypeStep, StandingStep, OneMembershipStep, CountStep, OverrunStep
<1>2. ASSUME calm' PROVE Steady' /\ CalmCountExact' /\ CalmAdminRemains'
  <2>1. CASE UNCHANGED vars
    <3>1. UNCHANGED <<room, rows, pc, req, seen, calm>>
      BY <2>1 DEF vars
    <3>2. Joined' = Joined /\ Admins' = Admins /\ Busy' = Busy /\ Created' = Created
      BY <3>1 DEF Joined, Admins, Busy, Created
    <3>3. Steady /\ CalmCountExact /\ CalmAdminRemains
      BY <1>2, <3>1 DEF Inv
    <3>4. CalmCountExact' /\ CalmAdminRemains'
      BY <3>1, <3>2, <3>3 DEF CalmCountExact, CalmAdminRemains
    <3>5. Steady'
      BY <3>1, <3>2, <3>3 DEF Steady
    <3> QED BY <3>4, <3>5
  <2>2. ASSUME NEW u \in Users, NEW new \in NewRooms, CreateRoom(u, new)
        PROVE  Steady' /\ CalmCountExact' /\ CalmAdminRemains'
    <3>1. ~Created /\ UNCHANGED <<pc, req, seen, calm>>
      BY <2>2 DEF CreateRoom
    <3>2. \A p \in Slots : pc[p] \notin Holding /\ pc[p] \notin Changing \ {"role"}
      BY <3>1 DEF Inv, Standing, Holding, Changing
    <3>3. Busy' = Busy /\ Steady
      BY <1>2, <3>1 DEF Busy, Inv
    <3>4. Steady'
      BY <3>1, <3>2, <3>3 DEF Steady, Holding
    <3>5. Cardinality(Joined') = 1 /\ Admins' = {1} /\ room'.memberCount = 1
      BY <2>2, JoinedByCreation
    <3> QED BY <3>4, <3>5 DEF CalmCountExact, CalmAdminRemains
  <2> QED BY <1>2, <2>1, <2>2, SteadyStep DEF Next, Acts
<1>3. ~calm' => CalmCountExact' /\ CalmAdminRemains'
  BY DEF CalmCountExact, CalmAdminRemains
<1> QED BY <1>1, <1>2, <1>3 DEF Inv

THEOREM Invariant == Spec => []Inv
<1>1. Inv /\ [Next]_vars => Inv'
  BY NextInv
<1> QED BY InitInv, <1>1, PTL DEF Spec
-----------------------------------------------------------------------------
(* The theorems.                                                           *)

\* The tables and the handlers stay well formed.
THEOREM RoomTypeCorrect == Spec => []TypeOK
<1>1. Inv => TypeOK
  BY DEF Inv
<1> QED BY Invariant, <1>1, PTL

\* However many joins, leaves and changes of role overlap, no user is in the
\* room twice, nor has left it twice (the table's UNIQUE constraint never stops
\* a transaction half-way).
THEOREM UniqueMembership == Spec => []OneMembership
<1>1. Inv => OneMembership
  BY DEF Inv
<1> QED BY Invariant, <1>1, PTL

\* However many requests overlap, memberCount never says more than there are
\* members in the room.
THEOREM CountBounded == Spec => []CountNeverOverstates
<1>1. Inv => CountNeverOverstates
  BY DEF Inv
<1> QED BY Invariant, <1>1, PTL

\* memberCount is exact as long as requests to leave and to change roles come
\* one at a time, whatever joins and deletions overlap with them.
THEOREM CountExactWhenCalm == Spec => []CalmCountExact
<1>1. Inv => CalmCountExact
  BY DEF Inv
<1> QED BY Invariant, <1>1, PTL

\* joinRoom overruns maxMembers by less than the number of requests in hand.
THEOREM Capacity == Spec => []OverrunBounded
<1>1. Inv => OverrunBounded
  <2>1. SUFFICES ASSUME Inv, Created, room.maxMembers # 0
                 PROVE  room.memberCount < room.maxMembers + Cardinality(Slots)
    BY DEF OverrunBounded
  <2>2. room.memberCount + Cardinality(Admitted) < room.maxMembers + Cardinality(Slots)
    BY <2>1 DEF Inv, Overrun
  <2>3. /\ room.memberCount \in Int /\ room.maxMembers \in Nat
        /\ Cardinality(Admitted) \in Nat /\ Cardinality(Slots) \in Nat
    BY <2>1, AdmittedFinite DEF Inv, TypeOK, Rooms
  <2> QED BY <2>2, <2>3
<1> QED BY Invariant, <1>1, PTL

\* A room keeps an admin as long as requests to leave and to change roles come
\* one at a time.
THEOREM AdminRemains == Spec => []CalmAdminRemains
<1>1. Inv => CalmAdminRemains
  BY DEF Inv
<1> QED BY Invariant, <1>1, PTL

\* One at a time, such requests never bring back a member who left.
THEOREM LeaversStayOut == Spec => CalmLeaversStayOut
<1>1. ASSUME Inv, [Next]_vars
      PROVE  [calm' => \A i \in DOMAIN rows :
                rows[i].status = "left" => rows'[i].status = "left"]_vars
  <2>1. SUFFICES ASSUME calm', NEW i \in DOMAIN rows, rows[i].status = "left",
                        ~UNCHANGED rows, Next
                 PROVE  rows'[i].status = "left"
    BY <1>1 DEF vars
  <2>2. PICK p \in Slots : Acts(p)
    <3>1. ASSUME NEW u \in Users, NEW new \in NewRooms, CreateRoom(u, new)
          PROVE  FALSE
      BY <1>1, <2>1, <3>1 DEF CreateRoom, Inv, Standing
    <3> QED BY <2>1, <3>1 DEF Next, Acts
  <2>3. Steady
    BY <1>1, <2>1, <2>2, OthersKept DEF Inv
  <2>4. CASE JoinTx(p)
    BY <1>1, <2>1, <2>4, JoinedByJoin
  <2>5. CASE LeaveTx(p)
    BY <1>1, <2>1, <2>5, JoinedByLeave
  <2>6. CASE RoleUpdate(p)
    <3>1. rows[seen[p].row].status = "joined"
      BY <2>3, <2>6 DEF RoleUpdate, Steady, Holding
    <3>2. i # seen[p].row
      BY <2>1, <3>1
    <3> QED BY <1>1, <2>1, <2>6, <3>2, JoinedByRole
  <2>7. ~DeleteTx(p)
    BY <2>1 DEF DeleteTx
  <2> QED BY <2>1, <2>2, <2>4, <2>5, <2>6, <2>7, QuietSteps DEF Acts, Writes
<1> QED BY Invariant, <1>1, PTL DEF Spec, CalmLeaversStayOut

\* One at a time, such requests change a role only for an admin of the moment.
THEOREM RolesByAdmins == Spec => CalmRolesByAdmins
<1>1. ASSUME Inv, [Next]_vars
      PROVE  [calm' => \A i \in DOMAIN rows :
                rows'[i].role # rows[i].role =>
                  \E p \in Slots : pc[p] = "roleUpdate" /\ AdminRowOf(req[p].user) # {}]_vars
  <2>1. SUFFICES ASSUME calm', NEW i \in DOMAIN rows, rows'[i].role # rows[i].role, Next
                 PROVE  \E p \in Slots : pc[p] = "roleUpdate" /\ AdminRowOf(req[p].user) # {}
    BY <1>1 DEF vars
  <2>2. PICK p \in Slots : Acts(p)
    <3>1. ASSUME NEW u \in Users, NEW new \in NewRooms, CreateRoom(u, new)
          PROVE  FALSE
      BY <1>1, <2>1, <3>1 DEF CreateRoom, Inv, Standing
    <3> QED BY <2>1, <3>1 DEF Next, Acts
  <2>3. Steady
    BY <1>1, <2>1, <2>2, OthersKept DEF Inv
  <2>4. rows' # rows
    BY <2>1
  <2>5. ~JoinTx(p)
    BY <1>1, <2>1, <2>4, JoinedByJoin
  <2>6. ~LeaveTx(p)
    BY <1>1, <2>1, <2>4, JoinedByLeave
  <2>7. ~DeleteTx(p)
    BY <2>4 DEF DeleteTx
  <2>8. RoleUpdate(p)
    BY <2>2, <2>4, <2>5, <2>6, <2>7, QuietSteps DEF Acts, Writes
  <2>9. PICK j \in Admins : pc[p] = "roleUpdate" /\ rows[j].user = req[p].user
    BY <2>3, <2>8 DEF RoleUpdate, Steady, Changing
  <2>10. j \in AdminRowOf(req[p].user)
    BY <2>9 DEF AdminRowOf, RowsOf, Admins, Joined
  <2> QED BY <2>9, <2>10
<1> QED BY Invariant, <1>1, PTL DEF Spec, CalmRolesByAdmins
=============================================================================
