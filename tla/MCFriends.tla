------------------------------ MODULE MCFriends ------------------------------
(* A small instance of Friends.                                             *)
EXTENDS Friends, TLC

CONSTANTS ann, bob, p1, p2, p3

Each == <<bob, bob>>

\* The places for requests are all alike.
Swaps == Permutations(Places)
=============================================================================
