-------------------------------- MODULE MCPages --------------------------------
(***************************************************************************)
(* A tab, three clicks, a call that fails or a connection that is lost;    *)
(* three people a page each, a room with a post and a comment, two stories *)
(* and a third to upload.                                                  *)
(***************************************************************************)
EXTENDS Pages

CONSTANTS ann, bob, cat

ThreePeople == <<cat, bob, ann>>

VideoAndPictures == <<"video", "image", "image">>
=============================================================================
