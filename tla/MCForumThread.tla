--------------------------- MODULE MCForumThread ---------------------------
(***************************************************************************)
(* Small instances of ForumThread for TLC.                                 *)
(***************************************************************************)
EXTENDS ForumThread, TLC

Alike == Permutations(Users) \union Permutations(Slots) \union Permutations(Texts)
=============================================================================
