---------------------------- MODULE MCVideoCall ----------------------------
(***************************************************************************)
(* Small instances of VideoCall for TLC.                                   *)
(***************************************************************************)
EXTENDS VideoCall

CONSTANTS ann, bob

\* Two users are alike, so the first call is ann's.
AnnFirst == <<{ann}, {bob}>>

\* Two messages at once around one call, one at a time around two.
Lighter == <<2, 1>>
=============================================================================
