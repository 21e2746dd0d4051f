---------------------------- MODULE TokenLedger ----------------------------
(***************************************************************************)
(* What the wallets promise, with no database, lock or connection in       *)
(* sight: a request settles at most once and in one step, and that step    *)
(* either credits one account or moves an amount the sender has to a       *)
(* different account, all of it or, for a super like, half of it.          *)
(* WalletService implements this specification.                            *)
(***************************************************************************)
EXTENDS Integers

CONSTANTS
  Accounts,     \* user ids
  Clients,      \* the requests that may settle
  Prices,       \* the positive amounts a request can name
  HalfPrice     \* the price of which the receiver gets half (super like)

VARIABLES
  balance,      \* tokens of each account, in ticks
  settled       \* requests that have taken effect

ledgerVars == <<balance, settled>>

Credit(p, to, amount) ==
  /\ balance' = [balance EXCEPT ![to] = @ + amount]
  /\ settled' = settled \union {p}

Move(p, from, to, amount, received) ==
  /\ from # to
  /\ balance[from] >= amount
  /\ balance' = [balance EXCEPT ![from] = @ - amount, ![to] = @ + received]
  /\ settled' = settled \union {p}

Init ==
  /\ balance \in [Accounts -> Nat]
  /\ settled = {}

\* TLC starts the abstract machine from the detailed one's balances, so it
\* only tests that those are in the set Init names.
Next ==
  \E p \in Clients \ settled, to \in Accounts :
    \/ \E amount \in Prices : Credit(p, to, amount)
    \/ \E from \in Accounts, amount \in Prices :
         Move(p, from, to, amount, amount)
    \/ \E from \in Accounts :
         Move(p, from, to, HalfPrice, HalfPrice \div 2)

Spec == Init /\ [][Next]_ledgerVars
=============================================================================
