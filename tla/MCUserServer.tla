--------------------------- MODULE MCUserServer ---------------------------
(***************************************************************************)
(* Small instances of UserServer for TLC: one account, and a person who    *)
(* registers, perhaps twice and perhaps with a capital letter.             *)
(***************************************************************************)
EXTENDS UserServer, TLC

OneAccount == <<"ann">>
Typed == [cat |-> "cat", Cat |-> "cat", ann |-> "ann"]
Alike == Permutations(Slots)
=============================================================================
