----------------------------- MODULE MCPrivatePages -----------------------------
(***************************************************************************)
(* A tab, three clicks, a call that fails or a connection that is lost, and *)
(* one thing other people do; an account with a photo, two letters, three  *)
(* conversations.  Whether the other person is to be found and whether     *)
(* anything was said have nothing to do with each other: two of the four   *)
(* cases are enough.                                                       *)
(***************************************************************************)
EXTENDS PrivatePages

MCInit == PrivateInit /\ (accounts["visit"].hidden <=> said = <<>>)

MCSpec == MCInit /\ [][PrivateNext]_privateVars
=============================================================================
