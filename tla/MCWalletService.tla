-------------------------- MODULE MCWalletService --------------------------
(***************************************************************************)
(* Small instances of WalletService for TLC.                               *)
(***************************************************************************)
EXTENDS WalletService, TLC

MCAmounts == {-2, 2, 4}
OddAmounts == {1, 2}
AnyWallets == SUBSET Users
OneMissing == {{2, 3}}
Alike == Permutations(Requests)
=============================================================================
