---------------------------- MODULE MCLiveStream ----------------------------
(* A small instance of LiveStream: one session and three sockets.          *)
EXTENDS LiveStream

CONSTANTS ann, bob

TwoTabs == <<ann, bob, ann>>

AnnStarts == <<ann>>
=============================================================================
