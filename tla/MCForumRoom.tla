---------------------------- MODULE MCForumRoom ----------------------------
(***************************************************************************)
(* Small instances of ForumRoom for TLC.                                   *)
(***************************************************************************)
EXTENDS ForumRoom, TLC

Room(max, vis) == [maxMembers |-> max, visibility |-> vis]
AnyRoom  == {Room(0, "private"), Room(1, "restricted"), Room(2, "public")}
Alike == Permutations(Users) \union Permutations(Slots)
=============================================================================
