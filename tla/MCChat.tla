------------------------------- MODULE MCChat -------------------------------
(* A small instance of Chat: two people and Grok; ann turns to a second     *)
(* conversation while bob opens one.                                        *)
EXTENDS Chat

CONSTANTS ann, bob

AnnTurns == <<ann, bob, ann>>
=============================================================================
