----------------------------- MODULE PrivateProofs -----------------------------
(***************************************************************************)
(* Proofs about what is one user's own: the wallet, on the server          *)
(* (WalletService), for any users, requests, amounts and bounds.           *)
(***************************************************************************)
EXTENDS WalletService, TLAPS, FiniteSetTheorems

-----------------------------------------------------------------------------
(* The inductive invariant.                                                  *)

\* A handler past its look-ups names registered users only, and only their
\* rows are ever locked.
Registered ==
  /\ \A u \in Ids : holder[u] # NoRequest => u \in Users
  /\ \A p \in Requests :
    /\ pc[p] = "pay" => req[p].kind = "deposit"
    /\ pc[p] \in {"connect", "insert", "inserting", "lock", "create", "check",
                  "move", "commit"} \/ (pc[p] = "find" /\ req[p].kind # "balance") =>
         req[p].from \in Users /\ req[p].to \in Users

\* A handler past its synchronous head works on a valid request, and only
\* the handlers that can be suspended at a point are suspended there.
Paths ==
  \A p \in Requests :
    /\ InFlight(p) => Valid(req[p])
    /\ pc[p] = "lookup" => req[p].kind \notin {"deposit", "balance"}
    /\ pc[p] = "check" => req[p].kind \in Presents
    /\ pc[p] \in {"find", "insert", "inserting"} =>
         req[p].kind \in Presents \union {"balance"}
    /\ pc[p] \in {"connect", "lock", "create", "check", "move", "commit",
                  "chat", "notify", "count"} => req[p].kind # "balance"
    /\ pc[p] = "commit" => req[p].kind # "adminTransfer"

\* A request holds only rows it names, only inside its transaction; it has
\* them both when it computes the balances.
Holding ==
  /\ \A u \in Ids : holder[u] # NoRequest =>
       /\ InTransaction(holder[u])
       /\ u \in {req[holder[u]].from, req[holder[u]].to}
  /\ \A u \in dirty : holder[u] # NoRequest
  /\ \A u \in Ids \ wallets : holder[u] # NoRequest => u \in dirty
  /\ \A p \in Requests :
       /\ pc[p] = "check" => holder[req[p].from] = p
       /\ pc[p] \in {"move", "commit"} =>
            holder[req[p].from] = p /\ holder[req[p].to] = p

\* Until it computes the new balances, the entity a request loaded agrees
\* with the row it holds.
Fresh ==
  /\ \A u \in Ids \ wallets : balance[u] = 0
  /\ \A p \in Requests, u \in Ids :
       holder[u] = p /\ pc[p] # "commit" => own[p][u] = balance[u]

\* What a request is about to publish.
Computed ==
  \A p \in Requests : pc[p] = "commit" =>
    LET r == req[p] IN
    /\ own[p][r.to] = AddDecimals(balance[r.to],
                        IF r.kind \in Moves THEN Received(r) ELSE r.amount)
    /\ r.kind \in Moves =>
         /\ balance[r.from] >= r.amount
         /\ own[p][r.from] = SubtractDecimals(balance[r.from], r.amount)

\* The sender of a gift had enough when its row was locked, and still has.
CoveredAt(p) ==
  /\ req[p].kind \in Presents
  /\ pc[p] \in {"find", "insert", "inserting", "lock", "create", "move"}
  /\ holder[req[p].from] = p
  => own[p][req[p].from] >= req[p].amount
Covered == \A p \in Requests : CoveredAt(p)

\* Only a request that ended its transaction has committed, and only a
\* deposit past the provider has been charged.
Settled ==
  \A p \in Requests :
    /\ p \in committed => pc[p] \in {"chat", "notify", "count", "ok", "failed", "lost"}
    /\ pc[p] \in {"chat", "notify", "count"} => p \in committed
    /\ pc[p] = "ok" /\ req[p].kind # "balance" => p \in committed
    /\ p \in charged => req[p].kind = "deposit" /\ pc[p] \notin {"new", "pay", "refused"}
    /\ req[p].kind = "deposit" =>
         /\ pc[p] \notin Answers \union {"new", "pay"} => p \in charged
         /\ p \in committed => p \in charged

Inv ==
  TypeOK /\ Registered /\ Paths /\ Holding /\ Fresh /\ Computed /\ Covered /\ Settled /\ NoOverdraft

-----------------------------------------------------------------------------
(* What the assumptions say of a request.                                    *)

LEMMA InputFacts ==
  ASSUME NEW r \in Inputs
  PROVE  /\ r.kind \in AllKinds
         /\ r.from \in Ids /\ r.to \in Ids /\ r.amount \in Int
         /\ r.kind \in {"deposit", "adminDeposit", "balance"} => r.from = r.to
         /\ r.kind = "superLike" => r.amount = SuperLikeCost
         /\ r.kind \in {"transfer", "gift", "superLike", "deposit"} => r.from \in Users
<1>1. \/ r \in Input({"transfer", "gift"}, Users, Ids, Amounts)
      \/ r \in Input({"adminTransfer"}, Ids, Ids, Amounts)
      \/ r \in Input({"superLike"}, Users, Ids, {SuperLikeCost})
      \/ r \in Input({"deposit"}, Users, Users, Amounts) /\ r.from = r.to
      \/ r \in Input({"adminDeposit"}, Ids, Ids, Amounts) /\ r.from = r.to
      \/ r \in Input({"balance"}, Ids, Ids, {0}) /\ r.from = r.to
  BY DEF Inputs
<1>2. Kinds \subseteq AllKinds /\ Amounts \subseteq Int /\ SuperLikeCost \in Int /\ Users \subseteq Ids
  BY RequestsAssumption, AmountsAssumption DEF Ids
<1>3. ASSUME NEW ks, NEW F, NEW S, NEW A, r \in Input(ks, F, S, A)
      PROVE r.kind \in Kinds /\ r.kind \in ks /\ r.from \in F /\ r.to \in S /\ r.amount \in A
  BY <1>3 DEF Input
<1>4. r.kind \in AllKinds
  BY <1>1, <1>2, <1>3
<1>5. r.from \in Ids /\ r.to \in Ids
  BY <1>1, <1>2, <1>3
<1>5a. r.amount \in Amounts \/ r.amount = SuperLikeCost \/ r.amount = 0
  BY <1>1, <1>3
<1>5b. r.amount \in Int
  <2>1. Amounts \subseteq Int /\ SuperLikeCost \in Int /\ 0 \in Int
    BY <1>2
  <2>2. QED
    BY <1>5a, <2>1, Zenon
<1>6. r.kind \in {"deposit", "adminDeposit", "balance"} => r.from = r.to
  BY <1>1, <1>3
<1>7. r.kind = "superLike" => r.amount = SuperLikeCost
  BY <1>1, <1>3
<1>8. r.kind \in {"transfer", "gift", "superLike", "deposit"} => r.from \in Users
  BY <1>1, <1>3
<1>9. QED
  BY <1>4, <1>5, <1>5b, <1>6, <1>7, <1>8

LEMMA Rounding ==
  ASSUME NEW x \in Int, NEW y \in Int
  PROVE  /\ ToFixed(x) \in Int
         /\ AddDecimals(x, y) \in Int /\ SubtractDecimals(x, y) \in Int
         /\ x >= 0 => ToFixed(x) >= 0
         /\ x % 2 = 0 => ToFixed(x) = x
  BY DEF ToFixed, AddDecimals, SubtractDecimals

LEMMA Wallets ==
  ASSUME NEW r \in Inputs
  PROVE  /\ FirstWallet(r) \in {r.from, r.to} /\ SecondWallet(r) \in {r.from, r.to}
         /\ FirstWallet(r) \in Ids /\ SecondWallet(r) \in Ids
         /\ {FirstWallet(r), SecondWallet(r)} = {r.from, r.to}
         /\ r.kind \notin {"transfer", "adminTransfer"} =>
              FirstWallet(r) = r.from /\ SecondWallet(r) = r.to
  BY InputFacts DEF FirstWallet, SecondWallet

LEMMA TargetFacts ==
  ASSUME TypeOK, NEW p \in Requests
  PROVE  /\ Target(p) \in Ids
         /\ Target(p) \in {req[p].from, req[p].to}
         /\ Target(p) = FirstWallet(req[p]) \/ holder[FirstWallet(req[p])] = p
         /\ holder[Target(p)] = p => holder[req[p].from] = p /\ holder[req[p].to] = p
<1> DEFINE r == req[p]
<1>1. r \in Inputs
  BY DEF TypeOK
<1>2. /\ FirstWallet(r) \in Ids /\ SecondWallet(r) \in Ids
      /\ FirstWallet(r) \in {r.from, r.to} /\ SecondWallet(r) \in {r.from, r.to}
      /\ {FirstWallet(r), SecondWallet(r)} = {r.from, r.to}
  BY <1>1, Wallets
<1>3. \/ holder[FirstWallet(r)] = p /\ Target(p) = SecondWallet(r)
      \/ holder[FirstWallet(r)] # p /\ Target(p) = FirstWallet(r)
  BY DEF Target
<1>4. QED
  BY <1>2, <1>3

LEMMA Unlocking ==
  ASSUME TypeOK, NEW p, Unlock(p)
  PROVE  /\ holder' \in [Ids -> Requests \union {NoRequest}]
         /\ dirty' \in SUBSET Users
         /\ \A u \in Ids : holder'[u] = IF holder[u] = p THEN NoRequest ELSE holder[u]
         /\ \A u \in Ids : holder'[u] # NoRequest => holder'[u] = holder[u] /\ holder[u] # p
         /\ dirty' = {u \in dirty : holder[u] # p}
  BY DEF TypeOK, Unlock

LEMMA ReceivedFacts ==
  ASSUME NEW r \in Inputs
  PROVE  Received(r) \in Int /\ RecordedFee(r) \in Int /\ Recorded(r) \in Int
<1>1. r.amount \in Int
  BY InputFacts
<1>2. SuperLikeCost \div 2 \in Int
  BY AmountsAssumption
<1>3. Recorded(r) \in Int
  BY <1>1, 0 \in Int, Rounding DEF Recorded
<1>4. Received(r) \in Int /\ RecordedFee(r) \in Int
  <2>1. 0 \in Int
    OBVIOUS
  <2>2. QED
    BY <1>1, <1>2, <2>1, Zenon DEF Received, RecordedFee
<1>5. QED
  BY <1>3, <1>4

LEMMA PublishTypes ==
  ASSUME TypeOK, Registered, NEW p \in Requests, pc[p] = "commit", Publish(p)
  PROVE  /\ wallets' \in SUBSET Users /\ balance' \in [Ids -> Int]
         /\ credited' \in [Ids -> Int] /\ debited' \in [Ids -> Int]
         /\ committed' \in SUBSET Requests
         /\ holder' \in [Ids -> Requests \union {NoRequest}] /\ dirty' \in SUBSET Users
         /\ \A u \in Ids : holder'[u] # NoRequest => u \in Users
<1>1. req[p] \in Inputs /\ req[p].from \in Users /\ req[p].to \in Users
  BY DEF TypeOK, Registered
<1>2. wallets' \in SUBSET Users
  BY <1>1, RequestsAssumption DEF TypeOK, Publish, Registered
<1>3. balance' \in [Ids -> Int]
  BY DEF TypeOK, Publish
<1>4. credited' \in [Ids -> Int] /\ debited' \in [Ids -> Int]
  <2>1. req[p].from \in Ids /\ req[p].to \in Ids
    BY <1>1, InputFacts
  <2>2. /\ credited \in [Ids -> Int] /\ debited \in [Ids -> Int]
        /\ Recorded(req[p]) \in Int /\ RecordedFee(req[p]) \in Int
    BY <1>1, ReceivedFacts DEF TypeOK
  <2>3. /\ credited' = [credited EXCEPT ![req[p].to] =
                          @ + Recorded(req[p]) - RecordedFee(req[p])]
        /\ \/ debited' = [debited EXCEPT ![req[p].from] = @ + Recorded(req[p])]
           \/ debited' = debited
    BY DEF Publish
  <2>4. credited[req[p].to] + Recorded(req[p]) - RecordedFee(req[p]) \in Int
    BY <2>1, <2>2
  <2>5. debited[req[p].from] + Recorded(req[p]) \in Int
    BY <2>1, <2>2
  <2>6. QED
    BY <2>2, <2>3, <2>4, <2>5, Zenon
<1>5. Unlock(p) /\ committed' = committed \union {p}
  BY DEF Publish
<1>6. QED
  BY <1>2, <1>3, <1>4, <1>5, Unlocking DEF TypeOK, Registered

-----------------------------------------------------------------------------
(* Types.                                                                    *)

\* Types alone are not inductive: only a registered user's wallet may be
\* written, and it takes the look-ups to know that.
LEMMA TypeStep ==
  ASSUME TypeOK, Registered, [Next]_vars
  PROVE  TypeOK' /\ Registered'
<1> USE DEF Goto, tables, locks, bounds, PCs, Answers, Moves, Presents
<1>1. ASSUME NEW p \in Requests, Receive(p) PROVE TypeOK' /\ Registered'
  BY <1>1, InputFacts DEF TypeOK, Registered, Receive
<1>2. ASSUME NEW p \in Requests, Lookup(p) PROVE TypeOK' /\ Registered'
  BY <1>2, InputFacts DEF TypeOK, Registered, Lookup, LookedUp, AllKinds
<1>3. ASSUME NEW p \in Requests, Pay(p) PROVE TypeOK' /\ Registered'
  BY <1>3, InputFacts DEF TypeOK, Registered, Pay
<1>4. ASSUME NEW p \in Requests, Connect(p) PROVE TypeOK' /\ Registered'
  BY <1>4 DEF TypeOK, Registered, Connect
<1>5. ASSUME NEW p \in Requests, Find(p) PROVE TypeOK' /\ Registered'
  <2>1. Target(p) \in {req[p].from, req[p].to} /\ req[p] \in Inputs
    BY TargetFacts DEF TypeOK
  <2>2. req[p].kind = "balance" => req[p].from = req[p].to
    BY <2>1, InputFacts
  <2>3. QED
    BY <1>5, <2>1, <2>2 DEF TypeOK, Registered, Find
<1>6. ASSUME NEW p \in Requests, InsertWait(p) PROVE TypeOK' /\ Registered'
  BY <1>6 DEF TypeOK, Registered, InsertWait
<1>7. ASSUME NEW p \in Requests, Insert(p) PROVE TypeOK' /\ Registered'
  <2>1. Target(p) \in Users
    BY <1>7, TargetFacts DEF TypeOK, Registered, Insert
  <2>2. /\ holder' \in [Ids -> Requests \union {NoRequest}] /\ dirty' \in SUBSET Users
        /\ \A u \in Ids : holder'[u] # NoRequest => u \in Users
    BY <1>7, Unlocking DEF TypeOK, Insert, Registered
  <2>3. QED
    BY <1>7, <2>1, <2>2 DEF TypeOK, Registered, Insert
<1>8. ASSUME NEW p \in Requests, Lock(p) PROVE TypeOK' /\ Registered'
  <2>1. Target(p) \in Ids
    BY TargetFacts
  <2>2. AfterLock(p, Target(p)) \in {"lock", "check", "move"}
    BY DEF AfterLock
  <2>3. holder' \in [Ids -> Requests \union {NoRequest}]
    BY <1>8, <2>1 DEF TypeOK, Lock
  <2>4. own' \in [Requests -> [Ids -> Int]]
    BY <1>8, <2>1 DEF TypeOK, Lock
  <2>5. QED
    BY <1>8, <2>2, <2>3, <2>4 DEF TypeOK, Registered, Lock
<1>9. ASSUME NEW p \in Requests, Create(p) PROVE TypeOK' /\ Registered'
  <2>1. Target(p) \in Ids /\ Target(p) \in Users
    BY <1>9, TargetFacts DEF TypeOK, Registered, Create
  <2>2. AfterLock(p, Target(p)) \in {"lock", "check", "move"}
    BY DEF AfterLock
  <2>3. /\ holder' \in [Ids -> Requests \union {NoRequest}] /\ dirty' \in SUBSET Users
        /\ \A u \in Ids : holder'[u] # NoRequest => u \in Users
    BY <1>9, <2>1, Unlocking DEF TypeOK, Create, Registered
  <2>4. own' \in [Requests -> [Ids -> Int]]
    BY <1>9, <2>1 DEF TypeOK, Create
  <2>5. QED
    BY <1>9, <2>2, <2>3, <2>4 DEF TypeOK, Registered, Create
<1>10. ASSUME NEW p \in Requests, CheckSender(p) PROVE TypeOK' /\ Registered'
  BY <1>10, Unlocking DEF TypeOK, Registered, CheckSender
<1>11. ASSUME NEW p \in Requests, TransferShort(p) PROVE TypeOK' /\ Registered'
  BY <1>11, Unlocking DEF TypeOK, Registered, TransferShort
<1>12. ASSUME NEW p \in Requests, AdminTransferThrows(p) PROVE TypeOK' /\ Registered'
  BY <1>12, Unlocking DEF TypeOK, Registered, AdminTransferThrows
<1>13. ASSUME NEW p \in Requests, SaveMove(p) PROVE TypeOK' /\ Registered'
  <2>1. req[p] \in Inputs /\ req[p].from \in Users /\ req[p].to \in Users
    BY <1>13 DEF TypeOK, Registered, SaveMove
  <2>2. own' \in [Requests -> [Ids -> Int]]
    <3>1. /\ own \in [Requests -> [Ids -> Int]] /\ req[p].from \in Ids /\ req[p].to \in Ids
          /\ req[p].amount \in Int /\ Received(req[p]) \in Int
      BY <2>1, InputFacts, ReceivedFacts DEF TypeOK
    <3> DEFINE less == SubtractDecimals(own[p][req[p].from], req[p].amount)
               more == AddDecimals(own[p][req[p].to], Received(req[p]))
    <3>2. own[p] \in [Ids -> Int] /\ own[p][req[p].from] \in Int /\ own[p][req[p].to] \in Int
      BY <3>1
    <3>3. less \in Int
      BY <3>1, <3>2, Rounding
    <3>4. more \in Int
      BY <3>1, <3>2, Rounding
    <3>5. own' = [own EXCEPT ![p] = [own[p] EXCEPT ![req[p].from] = less, ![req[p].to] = more]]
      BY <1>13 DEF SaveMove
    <3> HIDE DEF less, more
    <3>6. QED
      BY <3>1, <3>2, <3>3, <3>4, <3>5
  <2>3. dirty' \in SUBSET Users
    BY <1>13, <2>1 DEF TypeOK, SaveMove
  <2>4. QED
    BY <1>13, <2>2, <2>3 DEF TypeOK, Registered, SaveMove
<1>14. ASSUME NEW p \in Requests, SaveDeposit(p) PROVE TypeOK' /\ Registered'
  <2>1. req[p] \in Inputs /\ req[p].to \in Users
    BY <1>14 DEF TypeOK, Registered, SaveDeposit
  <2>2. own' \in [Requests -> [Ids -> Int]]
    <3>1. /\ own \in [Requests -> [Ids -> Int]] /\ req[p].to \in Ids /\ req[p].amount \in Int
      BY <2>1, InputFacts DEF TypeOK
    <3>2. AddDecimals(own[p][req[p].to], req[p].amount) \in Int
      BY <3>1, Rounding
    <3>3. own' = [own EXCEPT ![p] = [own[p] EXCEPT ![req[p].to] =
                                       AddDecimals(@, req[p].amount)]]
      BY <1>14, <3>1 DEF SaveDeposit
    <3>4. QED
      BY <3>1, <3>2, <3>3, Zenon
  <2>3. dirty' \in SUBSET Users
    BY <1>14, <2>1 DEF TypeOK, SaveDeposit
  <2>4. QED
    BY <1>14, <2>2, <2>3 DEF TypeOK, Registered, SaveDeposit
<1>15. ASSUME NEW p \in Requests, Commit(p) PROVE TypeOK' /\ Registered'
  <2>1. /\ wallets' \in SUBSET Users /\ balance' \in [Ids -> Int]
        /\ credited' \in [Ids -> Int] /\ debited' \in [Ids -> Int]
        /\ committed' \in SUBSET Requests
        /\ holder' \in [Ids -> Requests \union {NoRequest}] /\ dirty' \in SUBSET Users
        /\ \A u \in Ids : holder'[u] # NoRequest => u \in Users
    BY <1>15, PublishTypes DEF Commit
  <2>2. QED
    BY <1>15, <2>1 DEF TypeOK, Registered, Commit
<1>16. ASSUME NEW p \in Requests, Chat(p) PROVE TypeOK' /\ Registered'
  BY <1>16 DEF TypeOK, Registered, Chat
<1>17. ASSUME NEW p \in Requests, Notify(p) PROVE TypeOK' /\ Registered'
  BY <1>17 DEF TypeOK, Registered, Notify
<1>18. ASSUME NEW p \in Requests, CountSuperLikes(p) PROVE TypeOK' /\ Registered'
  BY <1>18 DEF TypeOK, Registered, CountSuperLikes
<1>19. ASSUME NEW p \in Requests, DeadlockVictim(p) PROVE TypeOK' /\ Registered'
  BY <1>19, Unlocking DEF TypeOK, Registered, DeadlockVictim, Throw
<1>20. ASSUME NEW p \in Requests, DbError(p) PROVE TypeOK' /\ Registered'
  BY <1>20, Unlocking, BoundsAssumption DEF TypeOK, Registered, DbError, Throw
<1>21. ASSUME NEW p \in Requests, CommitUnanswered(p) PROVE TypeOK' /\ Registered'
  <2>1. /\ wallets' \in SUBSET Users /\ balance' \in [Ids -> Int]
        /\ credited' \in [Ids -> Int] /\ debited' \in [Ids -> Int]
        /\ committed' \in SUBSET Requests
        /\ holder' \in [Ids -> Requests \union {NoRequest}] /\ dirty' \in SUBSET Users
        /\ \A u \in Ids : holder'[u] # NoRequest => u \in Users
    BY <1>21, PublishTypes DEF CommitUnanswered
  <2>2. QED
    BY <1>21, <2>1, BoundsAssumption DEF TypeOK, Registered, CommitUnanswered
<1>22. ASSUME Restart PROVE TypeOK' /\ Registered'
  BY <1>22, BoundsAssumption DEF TypeOK, Registered, Restart, InFlight
<1>23. CASE UNCHANGED vars
  BY <1>23 DEF TypeOK, Registered, vars
<1>24. QED
  BY <1>1, <1>2, <1>3, <1>4, <1>5, <1>6, <1>7, <1>8, <1>9, <1>10, <1>11, <1>12, <1>13, <1>14, <1>15, <1>16, <1>17, <1>18, <1>19, <1>20, <1>21, <1>22, <1>23 DEF Next, Step, AllAnswered

LEMMA TypeInv == Spec => [](TypeOK /\ Registered)
<1>1. Init => TypeOK /\ Registered
  BY AmountsAssumption, UsersAssumption, BoundsAssumption
     DEF Init, TypeOK, Registered, PCs, Ids
<1>2. TypeOK /\ Registered /\ [Next]_vars => TypeOK' /\ Registered'
  BY TypeStep
<1>3. QED
  BY <1>1, <1>2, PTL DEF Spec

\* Every handler of wallet.service.ts, gift.service.ts and
\* super-like.service.ts keeps the rows, locks and entities well formed, and
\* only registered users ever have a wallet.
THEOREM TypeCorrect == Spec => []TypeOK
  BY TypeInv, PTL
-----------------------------------------------------------------------------
(* Who holds what.                                                           *)

\* Where a handler that just got its target's row goes on, and what it holds.
LEMMA AfterLockFacts ==
  ASSUME TypeOK, NEW p \in Requests, Valid(req[p]),
         holder' = [holder EXCEPT ![Target(p)] = p]
  PROVE  /\ AfterLock(p, Target(p)) \in {"lock", "check", "move"}
         /\ AfterLock(p, Target(p)) = "check" =>
              /\ req[p].kind \in Presents
              /\ Target(p) = req[p].from /\ holder'[req[p].from] = p
         /\ AfterLock(p, Target(p)) = "move" =>
              holder'[req[p].from] = p /\ holder'[req[p].to] = p
<1> DEFINE r == req[p]
<1>1. r \in Inputs /\ holder \in [Ids -> Requests \union {NoRequest}]
  BY DEF TypeOK
<1>2. r.from \in Ids /\ r.to \in Ids /\ r.kind \in AllKinds
  BY <1>1, InputFacts
<1>3. r.kind \notin Moves => r.from = r.to
  BY <1>1, <1>2, InputFacts DEF Moves, AllKinds
<1>4. /\ FirstWallet(r) \in Ids /\ SecondWallet(r) \in Ids
      /\ {FirstWallet(r), SecondWallet(r)} = {r.from, r.to}
      /\ r.kind \in Presents => FirstWallet(r) = r.from
  BY <1>1, Wallets DEF Presents
<1>5. \/ holder[FirstWallet(r)] = p /\ Target(p) = SecondWallet(r)
      \/ holder[FirstWallet(r)] # p /\ Target(p) = FirstWallet(r)
  BY DEF Target
<1>6. AfterLock(p, Target(p)) \in {"lock", "check", "move"}
  BY DEF AfterLock
<1>7. AfterLock(p, Target(p)) = "check" => r.kind \in Presents /\ Target(p) = FirstWallet(r)
  BY DEF AfterLock
<1>8. AfterLock(p, Target(p)) = "move" => r.kind \notin Moves \/ Target(p) # FirstWallet(r)
  BY DEF AfterLock
<1>9. holder'[Target(p)] = p /\ \A u \in Ids : holder[u] = p => holder'[u] = p
  BY <1>1, <1>4, <1>5
<1>10. QED
  BY <1>2, <1>3, <1>4, <1>5, <1>6, <1>7, <1>8, <1>9

LEMMA PathsStep ==
  ASSUME TypeOK, Registered, Paths, [Next]_vars
  PROVE  Paths'
<1> USE DEF Goto, Answers, Moves, Presents, InFlight
<1>1. ASSUME NEW p \in Requests, Receive(p) PROVE Paths'
  BY <1>1 DEF TypeOK, Paths, Receive
<1>2. ASSUME NEW p \in Requests, Lookup(p) PROVE Paths'
  BY <1>2 DEF TypeOK, Paths, Lookup
<1>3. ASSUME NEW p \in Requests, Pay(p) PROVE Paths'
  BY <1>3 DEF TypeOK, Paths, Registered, Pay
<1>4. ASSUME NEW p \in Requests, Connect(p) PROVE Paths'
  BY <1>4 DEF TypeOK, Paths, Connect
<1>5. ASSUME NEW p \in Requests, Find(p) PROVE Paths'
  BY <1>5 DEF TypeOK, Paths, Find
<1>6. ASSUME NEW p \in Requests, InsertWait(p) PROVE Paths'
  BY <1>6 DEF TypeOK, Paths, InsertWait
<1>7. ASSUME NEW p \in Requests, Insert(p) PROVE Paths'
  BY <1>7 DEF TypeOK, Paths, Insert
<1>8. ASSUME NEW p \in Requests, Lock(p) PROVE Paths'
  BY <1>8 DEF TypeOK, Paths, Lock, AfterLock
<1>9. ASSUME NEW p \in Requests, Create(p) PROVE Paths'
  BY <1>9 DEF TypeOK, Paths, Create, AfterLock
<1>10. ASSUME NEW p \in Requests, CheckSender(p) PROVE Paths'
  BY <1>10 DEF TypeOK, Paths, CheckSender
<1>11. ASSUME NEW p \in Requests, TransferShort(p) \/ AdminTransferThrows(p) PROVE Paths'
  BY <1>11 DEF TypeOK, Paths, TransferShort, AdminTransferThrows
<1>12. ASSUME NEW p \in Requests, SaveMove(p) \/ SaveDeposit(p) PROVE Paths'
  BY <1>12 DEF TypeOK, Paths, SaveMove, SaveDeposit
<1>13. ASSUME NEW p \in Requests, Commit(p) PROVE Paths'
  BY <1>13 DEF TypeOK, Paths, Commit
<1>14. ASSUME NEW p \in Requests, Chat(p) \/ Notify(p) \/ CountSuperLikes(p) PROVE Paths'
  BY <1>14 DEF TypeOK, Paths, Chat, Notify, CountSuperLikes
<1>15. ASSUME NEW p \in Requests, DeadlockVictim(p) \/ DbError(p) PROVE Paths'
  BY <1>15 DEF TypeOK, Paths, DeadlockVictim, DbError, Throw
<1>16. ASSUME NEW p \in Requests, CommitUnanswered(p) PROVE Paths'
  BY <1>16 DEF TypeOK, Paths, CommitUnanswered
<1>17. ASSUME Restart PROVE Paths'
  BY <1>17 DEF TypeOK, Paths, Restart
<1>18. CASE UNCHANGED vars
  BY <1>18 DEF Paths, vars
<1>19. QED
  BY <1>1, <1>2, <1>3, <1>4, <1>5, <1>6, <1>7, <1>8, <1>9, <1>10, <1>11, <1>12, <1>13,
     <1>14, <1>15, <1>16, <1>17, <1>18 DEF Next, Step, AllAnswered

\* Ending a transaction keeps the other requests' hold on their rows.
LEMMA HoldingUnlock ==
  ASSUME TypeOK, Holding, NEW p \in Requests, NEW l \in Answers \union {"chat", "notify"},
         Unlock(p), Goto(p, l), req' = req, wallets \subseteq wallets',
         \A u \in wallets' \ wallets : holder[u] = p
  PROVE  Holding'
<1>1. /\ \A u \in Ids : holder'[u] # NoRequest => holder'[u] = holder[u] /\ holder[u] # p
      /\ dirty' = {u \in dirty : holder[u] # p} /\ dirty \subseteq Ids
  BY Unlocking DEF TypeOK, Ids
<1>2. \A q \in Requests : q # p => pc'[q] = pc[q] /\ (InTransaction(q)' <=> InTransaction(q))
  BY DEF Goto, InTransaction, TypeOK
<1>3. pc'[p] \notin {"check", "move", "commit"}
  BY DEF Goto, TypeOK, Answers
<1>4. \A u \in Ids, q \in Requests : q # p /\ holder[u] = q => holder'[u] = q
  BY Unlocking
<1>5. \A u \in Ids : holder[u] \in Requests \union {NoRequest}
  BY DEF TypeOK
<1>6. \A u \in Ids : holder'[u] # NoRequest =>
        /\ InTransaction(holder[u])'
        /\ u \in {req'[holder'[u]].from, req'[holder'[u]].to}
  <2> SUFFICES ASSUME NEW u \in Ids, holder'[u] # NoRequest
               PROVE  /\ InTransaction(holder[u])'
                      /\ u \in {req'[holder'[u]].from, req'[holder'[u]].to}
    OBVIOUS
  <2> DEFINE q == holder[u]
  <2>1. holder'[u] = q /\ q # p /\ q # NoRequest /\ q \in Requests
    BY <1>1, <1>5
  <2>2. InTransaction(q) /\ u \in {req[q].from, req[q].to}
    BY <2>1 DEF Holding
  <2>3. pc'[q] = pc[q]
    BY <2>1, <1>2
  <2>4. QED
    BY <2>1, <2>2, <2>3 DEF InTransaction
<1>7. \A u \in dirty' : holder'[u] # NoRequest
  BY <1>1, <1>4, <1>5 DEF Holding
<1>8. \A u \in Ids \ wallets' : holder'[u] # NoRequest => u \in dirty'
  BY <1>1 DEF Holding
<1>9. \A q \in Requests :
        /\ pc'[q] = "check" => holder'[req'[q].from] = q
        /\ pc'[q] \in {"move", "commit"} => holder'[req'[q].from] = q /\ holder'[req'[q].to] = q
  <2>1. \A q \in Requests : req[q].from \in Ids /\ req[q].to \in Ids
    BY InputFacts DEF TypeOK
  <2>2. QED
    BY <1>2, <1>3, <1>4, <2>1 DEF Holding
<1>10. QED
  BY <1>6, <1>7, <1>8, <1>9 DEF Holding
\* Locking a free row, or inserting one, adds to what the request holds.
LEMMA HoldingLock ==
  ASSUME TypeOK, Paths, Holding, NEW p \in Requests, pc[p] \in {"lock", "create"},
         ~HeldByOther(Target(p), p), holder' = [holder EXCEPT ![Target(p)] = p],
         Goto(p, AfterLock(p, Target(p))), req' = req, wallets' = wallets,
         dirty' = dirty \/ dirty' = dirty \union {Target(p)},
         Target(p) \in wallets \union dirty'
  PROVE  Holding'
<1> DEFINE t == Target(p)
<1>1. /\ t \in Ids /\ t \in {req[p].from, req[p].to}
      /\ holder[t] \in {NoRequest, p}
      /\ req[p].kind # "balance" /\ Valid(req[p])
  BY TargetFacts DEF HeldByOther, Paths, InFlight, Answers
<1>2. /\ AfterLock(p, t) \in {"lock", "check", "move"}
      /\ AfterLock(p, t) = "check" => holder'[req[p].from] = p
      /\ AfterLock(p, t) = "move" => holder'[req[p].from] = p /\ holder'[req[p].to] = p
  BY <1>1, AfterLockFacts
<1>3. /\ pc' = [pc EXCEPT ![p] = AfterLock(p, t)] /\ pc \in [Requests -> PCs]
      /\ holder \in [Ids -> Requests \union {NoRequest}] /\ p # NoRequest
  BY RequestsAssumption DEF Goto, TypeOK
<1>4. /\ \A u \in Ids : holder'[u] = IF u = t THEN p ELSE holder[u]
      /\ \A q \in Requests, u \in Ids : q # p /\ holder[u] = q => holder'[u] = q
  BY <1>1, <1>3, RequestsAssumption
<1>5. \A u \in Ids : holder'[u] # NoRequest =>
        /\ InTransaction(holder[u])'
        /\ u \in {req'[holder'[u]].from, req'[holder'[u]].to}
  <2> SUFFICES ASSUME NEW u \in Ids, holder'[u] # NoRequest
               PROVE  /\ InTransaction(holder[u])'
                      /\ u \in {req'[holder'[u]].from, req'[holder'[u]].to}
    OBVIOUS
  <2>1. CASE holder'[u] = p
    <3>1. u = t \/ holder[u] = p
      BY <2>1, <1>4
    <3>2. u \in {req[p].from, req[p].to}
      BY <3>1, <1>1, <1>3 DEF Holding
    <3>3. QED
      BY <2>1, <3>2, <1>1, <1>2, <1>3 DEF InTransaction
  <2>2. CASE holder'[u] # p
    <3> DEFINE q == holder[u]
    <3>1. holder'[u] = q /\ q # p /\ q # NoRequest /\ q \in Requests
      BY <2>2, <1>3, <1>4
    <3>2. InTransaction(q) /\ u \in {req[q].from, req[q].to} /\ pc'[q] = pc[q]
      BY <3>1, <1>3 DEF Holding
    <3>3. QED
      BY <3>1, <3>2 DEF InTransaction
  <2>3. QED
    BY <2>1, <2>2
<1>6. \A u \in dirty' : holder'[u] # NoRequest
  <2>1. dirty' \subseteq Ids
    BY <1>1 DEF TypeOK, Ids
  <2>2. QED
    BY <2>1, <1>1, <1>3, <1>4 DEF Holding
<1>7. \A u \in Ids \ wallets' : holder'[u] # NoRequest => u \in dirty'
  BY <1>4 DEF Holding
<1>8. \A q \in Requests :
        /\ pc'[q] = "check" => holder'[req'[q].from] = q
        /\ pc'[q] \in {"move", "commit"} => holder'[req'[q].from] = q /\ holder'[req'[q].to] = q
  <2>1. \A q \in Requests : req[q].from \in Ids /\ req[q].to \in Ids
    BY InputFacts DEF TypeOK
  <2>2. ASSUME NEW q \in Requests, q # p
        PROVE  /\ pc'[q] = "check" => holder'[req'[q].from] = q
               /\ pc'[q] \in {"move", "commit"} =>
                    holder'[req'[q].from] = q /\ holder'[req'[q].to] = q
    BY <2>1, <2>2, <1>3, <1>4 DEF Holding
  <2>3. pc'[p] = AfterLock(p, t)
    BY <1>3
  <2>4. QED
    BY <2>2, <2>3, <1>2
<1>9. QED
  BY <1>5, <1>6, <1>7, <1>8 DEF Holding

\* A step that takes and gives up no lock.
LEMMA HoldingQuiet ==
  ASSUME TypeOK, Holding, NEW p \in Requests, NEW l \in PCs, Goto(p, l),
         holder' = holder, req' = req, wallets \subseteq wallets',
         dirty \subseteq dirty',
         \A u \in dirty' \ dirty : u \in Ids /\ holder[u] = p,
         InTransaction(p) => InTransaction(p)',
         l = "check" => pc[p] = "check",
         l \in {"move", "commit"} => pc[p] = "move"
  PROVE  Holding'
<1>1. pc' = [pc EXCEPT ![p] = l] /\ pc \in [Requests -> PCs] /\ p # NoRequest
  BY RequestsAssumption DEF Goto, TypeOK
<1>2. \A q \in Requests : InTransaction(q) => InTransaction(q)'
  BY <1>1 DEF InTransaction
<1>3. \A u \in Ids : holder'[u] # NoRequest =>
        /\ InTransaction(holder[u])'
        /\ u \in {req'[holder'[u]].from, req'[holder'[u]].to}
  <2> SUFFICES ASSUME NEW u \in Ids, holder'[u] # NoRequest
               PROVE  /\ InTransaction(holder[u])'
                      /\ u \in {req'[holder'[u]].from, req'[holder'[u]].to}
    OBVIOUS
  <2> DEFINE q == holder[u]
  <2>1. holder'[u] = q /\ q # NoRequest /\ q \in Requests
    BY DEF TypeOK
  <2>2. InTransaction(q) /\ u \in {req[q].from, req[q].to}
    BY <2>1 DEF Holding
  <2>3. (q = p /\ InTransaction(p)') \/ (q # p /\ pc'[q] = pc[q])
    BY <2>1, <2>2, <1>1
  <2>4. QED
    BY <2>1, <2>2, <2>3 DEF InTransaction
<1>4. \A u \in dirty' : holder'[u] # NoRequest
  BY <1>1 DEF Holding
<1>5. \A u \in Ids \ wallets' : holder'[u] # NoRequest => u \in dirty'
  BY DEF Holding
<1>6. \A q \in Requests :
        /\ pc'[q] = "check" => holder'[req'[q].from] = q
        /\ pc'[q] \in {"move", "commit"} => holder'[req'[q].from] = q /\ holder'[req'[q].to] = q
  BY <1>1 DEF Holding
<1>7. QED
  BY <1>3, <1>4, <1>5, <1>6 DEF Holding

LEMMA HoldingStep ==
  ASSUME TypeOK, Registered, Paths, Holding, [Next]_vars
  PROVE  Holding'
<1> USE DEF tables, locks, bounds
<1>1. ASSUME NEW p \in Requests, Receive(p) PROVE Holding'
  <2>1. \E l \in PCs : Goto(p, l) /\ l \notin {"check", "move", "commit"}
    BY <1>1 DEF Receive, PCs, Answers
  <2>2. QED
    BY <1>1, <2>1, HoldingQuiet DEF Receive, InTransaction
<1>2. ASSUME NEW p \in Requests, Lookup(p) PROVE Holding'
  <2>1. \E l \in PCs : Goto(p, l) /\ l \notin {"check", "move", "commit"}
    BY <1>2 DEF Lookup, PCs, Answers
  <2>2. QED
    BY <1>2, <2>1, HoldingQuiet DEF Lookup, InTransaction
<1>3. ASSUME NEW p \in Requests, Pay(p) PROVE Holding'
  <2>1. \E l \in PCs : Goto(p, l) /\ l \notin {"check", "move", "commit"}
    BY <1>3 DEF Pay, PCs, Answers
  <2>2. QED
    BY <1>3, <2>1, HoldingQuiet DEF Pay, InTransaction
<1>4. ASSUME NEW p \in Requests, Connect(p) PROVE Holding'
  <2>1. \E l \in PCs : Goto(p, l) /\ l \notin {"check", "move", "commit"}
    BY <1>4 DEF Connect, PCs, Answers
  <2>2. QED
    BY <1>4, <2>1, HoldingQuiet DEF Connect, InTransaction
<1>5. ASSUME NEW p \in Requests, Find(p) PROVE Holding'
  <2>1. CASE Target(p) \in Users
    <3>1. \E l \in {"insert", "ok", "lock"} :
            Goto(p, l) /\ (l = "ok" => req[p].kind = "balance")
      BY <1>5, <2>1 DEF Find
    <3>2. \A l \in {"insert", "ok", "lock"} : l \in PCs
      BY DEF PCs, Answers
    <3>3. \A l : Goto(p, l) => pc'[p] = l
      BY DEF Goto, TypeOK
    <3>4. QED
      BY <1>5, <3>1, <3>2, <3>3, HoldingQuiet DEF Find, InTransaction
  <2>2. CASE Target(p) \notin Users
    \* A gift has looked its recipient up: only a balance is refused here.
    <3>1. Target(p) \in {req[p].from, req[p].to} /\ req[p] \in Inputs
      BY TargetFacts DEF TypeOK
    <3>2. req[p].kind = "balance"
      BY <1>5, <2>2, <3>1 DEF Registered, Find
    <3>3. Goto(p, "refused") /\ "refused" \in PCs
      BY <1>5, <2>2 DEF Find, PCs, Answers
    <3>4. QED
      BY <1>5, <3>2, <3>3, HoldingQuiet DEF Find, InTransaction
  <2>3. QED
    BY <2>1, <2>2
<1>6. ASSUME NEW p \in Requests, InsertWait(p) PROVE Holding'
  <2>1. Goto(p, "inserting") /\ "inserting" \in PCs /\ pc'[p] = "inserting"
    BY <1>6 DEF InsertWait, PCs, Goto, TypeOK
  <2>2. QED
    BY <1>6, <2>1, HoldingQuiet DEF InsertWait, InTransaction
<1>7. ASSUME NEW p \in Requests, Insert(p) PROVE Holding'
  <2>1. CASE Target(p) \in wallets
    BY <1>7, <2>1, HoldingUnlock DEF Insert, Answers
  <2>2. CASE Target(p) \notin wallets
    <3>1. \E l \in {"ok", "lock"} : Goto(p, l) /\ (l = "ok" => req[p].kind = "balance")
      BY <1>7, <2>2 DEF Insert
    <3>2. \A l \in {"ok", "lock"} : l \in PCs
      BY DEF PCs, Answers
    <3>3. \A l : Goto(p, l) => pc'[p] = l
      BY DEF Goto, TypeOK
    <3>4. QED
      BY <1>7, <2>2, <3>1, <3>2, <3>3, HoldingQuiet DEF Insert, InTransaction
  <2>3. QED
    BY <2>1, <2>2
<1>8. ASSUME NEW p \in Requests, Lock(p) PROVE Holding'
  <2>1. CASE Target(p) \in wallets
    BY <1>8, <2>1, HoldingLock DEF Lock
  <2>2. CASE Target(p) \notin wallets
    <3>1. Goto(p, "create") /\ "create" \in PCs /\ pc'[p] = "create"
      BY <1>8, <2>2 DEF Lock, PCs, Goto, TypeOK
    <3>2. QED
      BY <1>8, <2>2, <3>1, HoldingQuiet DEF Lock, InTransaction
  <2>3. QED
    BY <2>1, <2>2
<1>9. ASSUME NEW p \in Requests, Create(p) PROVE Holding'
  <2>1. CASE Target(p) \in wallets
    BY <1>9, <2>1, HoldingUnlock DEF Create, Answers
  <2>2. CASE Target(p) \notin wallets
    \* Nobody else holds a row that does not exist, or the insert would wait.
    <3>1. ~HeldByOther(Target(p), p)
      BY <1>9, <2>2, TargetFacts DEF Create, PendingByOther, HeldByOther, Holding
    <3>2. QED
      BY <1>9, <2>2, <3>1, HoldingLock DEF Create
  <2>3. QED
    BY <2>1, <2>2
<1>10. ASSUME NEW p \in Requests, CheckSender(p) PROVE Holding'
  <2>1. CASE own[p][req[p].from] < req[p].amount
    BY <1>10, <2>1, HoldingUnlock DEF CheckSender, Answers
  <2>2. CASE ~(own[p][req[p].from] < req[p].amount)
    <3>1. Goto(p, "find") /\ "find" \in PCs /\ pc'[p] = "find"
      BY <1>10, <2>2 DEF CheckSender, PCs, Goto, TypeOK
    <3>2. QED
      BY <1>10, <2>2, <3>1, HoldingQuiet DEF CheckSender, InTransaction
  <2>3. QED
    BY <2>1, <2>2
<1>11. ASSUME NEW p \in Requests, TransferShort(p) \/ AdminTransferThrows(p) PROVE Holding'
  BY <1>11, HoldingUnlock DEF TransferShort, AdminTransferThrows, Answers
<1>12. ASSUME NEW p \in Requests, SaveMove(p) PROVE Holding'
  <2>1. Goto(p, "commit") /\ "commit" \in PCs /\ pc'[p] = "commit" /\ pc[p] = "move"
    BY <1>12 DEF SaveMove, PCs, Goto, TypeOK
  <2>2. /\ holder[req[p].from] = p /\ holder[req[p].to] = p
        /\ req[p].from \in Ids /\ req[p].to \in Ids
    BY <2>1, InputFacts DEF Holding, TypeOK
  <2>3. QED
    BY <1>12, <2>1, <2>2, HoldingQuiet DEF SaveMove, InTransaction
<1>13. ASSUME NEW p \in Requests, SaveDeposit(p) PROVE Holding'
  <2>1. Goto(p, "commit") /\ "commit" \in PCs /\ pc'[p] = "commit" /\ pc[p] = "move"
    BY <1>13 DEF SaveDeposit, PCs, Goto, TypeOK
  <2>2. holder[req[p].to] = p /\ req[p].to \in Ids
    BY <2>1, InputFacts DEF Holding, TypeOK
  <2>3. QED
    BY <1>13, <2>1, <2>2, HoldingQuiet DEF SaveDeposit, InTransaction
<1>14. ASSUME NEW p \in Requests, Commit(p) PROVE Holding'
  <2>1. \E l \in Answers \union {"chat", "notify"} : Goto(p, l)
    BY <1>14 DEF Commit, Answers
  <2>2. QED
    BY <1>14, <2>1, HoldingUnlock DEF Commit, Publish
<1>15. ASSUME NEW p \in Requests, Chat(p) \/ Notify(p) \/ CountSuperLikes(p) PROVE Holding'
  <2>1. \E l \in PCs : Goto(p, l) /\ l \notin {"check", "move", "commit"}
    BY <1>15 DEF Chat, Notify, CountSuperLikes, PCs, Answers
  <2>2. QED
    BY <1>15, <2>1, HoldingQuiet DEF Chat, Notify, CountSuperLikes, InTransaction
<1>16. ASSUME NEW p \in Requests, DeadlockVictim(p) \/ DbError(p) PROVE Holding'
  BY <1>16, HoldingUnlock DEF DeadlockVictim, DbError, Throw, Answers
<1>17. ASSUME NEW p \in Requests, CommitUnanswered(p) PROVE Holding'
  BY <1>17, HoldingUnlock DEF CommitUnanswered, Publish, Answers
<1>18. ASSUME Restart PROVE Holding'
  <2>1. \A q \in Requests : pc'[q] \notin {"check", "move", "commit"}
    BY <1>18 DEF Restart, InFlight, Answers
  <2>2. QED
    BY <1>18, <2>1 DEF Restart, Holding
<1>19. CASE UNCHANGED vars
  BY <1>19 DEF Holding, vars, InTransaction
<1>20. QED
  BY <1>1, <1>2, <1>3, <1>4, <1>5, <1>6, <1>7, <1>8, <1>9, <1>10, <1>11, <1>12, <1>13,
     <1>14, <1>15, <1>16, <1>17, <1>18, <1>19 DEF Next, Step, AllAnswered
-----------------------------------------------------------------------------
(* What a loaded entity is worth.                                            *)

LEMMA FreshKept ==
  ASSUME Fresh, own' = own, balance' = balance, wallets \subseteq wallets',
         \A q \in Requests, u \in Ids :
           holder'[u] = q /\ pc'[q] # "commit" => holder[u] = q /\ pc[q] # "commit"
  PROVE  Fresh'
  BY DEF Fresh

\* A request that commits or gives up leaves no entity anybody relies on.
LEMMA FreshUnlock ==
  ASSUME TypeOK, Fresh, NEW p \in Requests, NEW l, Unlock(p), Goto(p, l),
         own' = own, balance' = balance, wallets' = wallets
  PROVE  Fresh'
<1>1. \A q \in Requests, u \in Ids : holder'[u] = q => holder[u] = q /\ q # p
  BY Unlocking, RequestsAssumption
<1>2. \A q \in Requests : q # p => pc'[q] = pc[q]
  BY DEF Goto, TypeOK
<1>3. QED
  BY <1>1, <1>2, FreshKept

LEMMA FreshQuiet ==
  ASSUME TypeOK, Fresh, NEW p \in Requests, NEW l, Goto(p, l), pc[p] # "commit",
         holder' = holder, own' = own, balance' = balance, wallets \subseteq wallets'
  PROVE  Fresh'
<1>1. \A q \in Requests : q # p => pc'[q] = pc[q]
  BY DEF Goto, TypeOK
<1>2. QED
  BY <1>1, FreshKept

\* A row that is locked is read; a row that is created holds nothing.
LEMMA FreshLock ==
  ASSUME TypeOK, Fresh, NEW p \in Requests, pc[p] # "commit", NEW l, Goto(p, l),
         NEW t \in Ids, holder' = [holder EXCEPT ![t] = p],
         own' = [own EXCEPT ![p][t] = balance[t]],
         balance' = balance, wallets' = wallets
  PROVE  Fresh'
<1>1. \A q \in Requests : q # p => pc'[q] = pc[q]
  BY DEF Goto, TypeOK
<1>2. \A q \in Requests, u \in Ids :
        own'[q][u] = IF q = p /\ u = t THEN balance[t] ELSE own[q][u]
  BY DEF TypeOK
<1>3. \A u \in Ids : holder'[u] = IF u = t THEN p ELSE holder[u]
  BY DEF TypeOK
<1>4. \A q \in Requests, u \in Ids :
        holder'[u] = q /\ pc'[q] # "commit" => own'[q][u] = balance'[u]
  BY <1>1, <1>2, <1>3 DEF Fresh
<1>5. QED
  BY <1>4 DEF Fresh

\* The publisher's rows are no longer held; nobody else held them.
LEMMA FreshPublish ==
  ASSUME TypeOK, Fresh, NEW p \in Requests, NEW l, Goto(p, l), Publish(p), own' = own
  PROVE  Fresh'
<1>1. \A q \in Requests, u \in Ids : holder'[u] = q => holder[u] = q /\ q # p
  BY Unlocking, RequestsAssumption DEF Publish
<1>2. \A q \in Requests : q # p => pc'[q] = pc[q]
  BY DEF Goto, TypeOK
<1>3. \A u \in Ids : holder[u] # p => balance'[u] = balance[u]
  BY DEF Publish
<1>4. \A u \in Ids \ wallets' : holder[u] # p /\ u \notin wallets
  BY DEF Publish
<1>5. QED
  BY <1>1, <1>2, <1>3, <1>4 DEF Fresh

LEMMA FreshStep ==
  ASSUME TypeOK, Fresh, [Next]_vars
  PROVE  Fresh'
<1> USE DEF tables, locks, bounds
<1>1. ASSUME NEW p \in Requests,
             Receive(p) \/ Lookup(p) \/ Pay(p) \/ Connect(p) \/ Find(p) \/ InsertWait(p)
      PROVE Fresh'
  <2>1. \E l : Goto(p, l)
    BY <1>1 DEF Receive, Lookup, Pay, Connect, Find, InsertWait
  <2>2. QED
    BY <1>1, <2>1, FreshQuiet DEF Receive, Lookup, Pay, Connect, Find, InsertWait
<1>2. ASSUME NEW p \in Requests, Insert(p) PROVE Fresh'
  <2>1. CASE Target(p) \in wallets
    BY <1>2, <2>1, FreshUnlock DEF Insert
  <2>2. CASE Target(p) \notin wallets
    <3>1. \E l : Goto(p, l)
      BY <1>2, <2>2 DEF Insert
    <3>2. QED
      BY <1>2, <2>2, <3>1, FreshQuiet DEF Insert
  <2>3. QED
    BY <2>1, <2>2
<1>3. ASSUME NEW p \in Requests, Lock(p) PROVE Fresh'
  <2>1. CASE Target(p) \in wallets
    BY <1>3, <2>1, TargetFacts, FreshLock DEF Lock
  <2>2. CASE Target(p) \notin wallets
    BY <1>3, <2>2, FreshQuiet DEF Lock
  <2>3. QED
    BY <2>1, <2>2
<1>4. ASSUME NEW p \in Requests, Create(p) PROVE Fresh'
  <2>1. CASE Target(p) \in wallets
    BY <1>4, <2>1, FreshUnlock DEF Create
  <2>2. CASE Target(p) \notin wallets
    <3>1. Target(p) \in Ids /\ balance[Target(p)] = 0
      BY <2>2, TargetFacts DEF Fresh
    <3>2. QED
      BY <1>4, <2>2, <3>1, FreshLock DEF Create
  <2>3. QED
    BY <2>1, <2>2
<1>5. ASSUME NEW p \in Requests, CheckSender(p) PROVE Fresh'
  <2>1. CASE own[p][req[p].from] < req[p].amount
    BY <1>5, <2>1, FreshUnlock DEF CheckSender
  <2>2. CASE ~(own[p][req[p].from] < req[p].amount)
    BY <1>5, <2>2, FreshQuiet DEF CheckSender
  <2>3. QED
    BY <2>1, <2>2
<1>6. ASSUME NEW p \in Requests, TransferShort(p) \/ AdminTransferThrows(p) PROVE Fresh'
  BY <1>6, FreshUnlock DEF TransferShort, AdminTransferThrows
<1>7. ASSUME NEW p \in Requests, SaveMove(p) \/ SaveDeposit(p) PROVE Fresh'
  <2>1. /\ pc'[p] = "commit" /\ holder' = holder /\ balance' = balance /\ wallets' = wallets
        /\ \A q \in Requests : q # p => pc'[q] = pc[q] /\ own'[q] = own[q]
    BY <1>7 DEF SaveMove, SaveDeposit, Goto, TypeOK
  <2>2. QED
    BY <2>1 DEF Fresh
<1>8. ASSUME NEW p \in Requests, Commit(p) \/ CommitUnanswered(p) PROVE Fresh'
  <2>1. \E l : Goto(p, l)
    BY <1>8 DEF Commit, CommitUnanswered
  <2>2. QED
    BY <1>8, <2>1, FreshPublish DEF Commit, CommitUnanswered
<1>9. ASSUME NEW p \in Requests, Chat(p) \/ Notify(p) \/ CountSuperLikes(p) PROVE Fresh'
  <2>1. \E l : Goto(p, l)
    BY <1>9 DEF Chat, Notify, CountSuperLikes
  <2>2. QED
    BY <1>9, <2>1, FreshQuiet DEF Chat, Notify, CountSuperLikes
<1>10. ASSUME NEW p \in Requests, DeadlockVictim(p) \/ DbError(p) PROVE Fresh'
  BY <1>10, FreshUnlock DEF DeadlockVictim, DbError, Throw
<1>11. ASSUME Restart PROVE Fresh'
  BY <1>11, RequestsAssumption, FreshKept DEF Restart
<1>12. CASE UNCHANGED vars
  BY <1>12, FreshKept DEF vars
<1>13. QED
  BY <1>1, <1>2, <1>3, <1>4, <1>5, <1>6, <1>7, <1>8, <1>9, <1>10, <1>11, <1>12
     DEF Next, Step, AllAnswered
-----------------------------------------------------------------------------
(* Gifts and super likes stay covered.                                       *)

LEMMA CoveredKept ==
  ASSUME TypeOK, Covered, NEW p \in Requests, req' = req, CoveredAt(p)',
         \A q \in Requests : q # p => pc'[q] = pc[q] /\ own'[q] = own[q],
         \A q \in Requests, u \in Ids : q # p /\ holder'[u] = q => holder[u] = q
  PROVE  Covered'
<1>1. \A q \in Requests : req[q].from \in Ids
  BY InputFacts DEF TypeOK
<1>2. QED
  BY <1>1 DEF Covered, CoveredAt

LEMMA CoveredUnlock ==
  ASSUME TypeOK, Covered, NEW p \in Requests, NEW l, Unlock(p), Goto(p, l),
         own' = own, req' = req
  PROVE  Covered'
<1>1. req[p].from \in Ids /\ holder'[req[p].from] # p
  BY Unlocking, InputFacts, RequestsAssumption DEF TypeOK
<1>2. \A q \in Requests, u \in Ids : q # p /\ holder'[u] = q => holder[u] = q
  BY Unlocking, RequestsAssumption
<1>3. QED
  BY <1>1, <1>2, CoveredKept DEF CoveredAt, Goto, TypeOK

LEMMA CoveredQuiet ==
  ASSUME TypeOK, Covered, NEW p \in Requests, NEW l, Goto(p, l),
         holder' = holder, own' = own, req' = req,
         \/ l \notin {"find", "insert", "inserting", "lock", "create", "move"}
         \/ pc[p] \in {"find", "insert", "inserting", "lock", "create", "move"}
         \/ holder[req[p].from] # p
         \/ own[p][req[p].from] >= req[p].amount
  PROVE  Covered'
<1>1. pc'[p] = l /\ \A q \in Requests : q # p => pc'[q] = pc[q]
  BY DEF Goto, TypeOK
<1>2. CoveredAt(p)'
  BY <1>1 DEF Covered, CoveredAt
<1>3. QED
  BY <1>1, <1>2, CoveredKept

LEMMA CoveredLock ==
  ASSUME TypeOK, Paths, Covered, NEW p \in Requests, pc[p] \in {"lock", "create"},
         Goto(p, AfterLock(p, Target(p))), req' = req,
         holder' = [holder EXCEPT ![Target(p)] = p],
         NEW b \in Int, own' = [own EXCEPT ![p][Target(p)] = b]
  PROVE  Covered'
<1> DEFINE t == Target(p)
<1>1. /\ pc'[p] = AfterLock(p, t)
      /\ \A q \in Requests : q # p => pc'[q] = pc[q] /\ own'[q] = own[q]
  BY DEF Goto, TypeOK
<1>2. t \in Ids /\ \A u \in Ids : holder'[u] = IF u = t THEN p ELSE holder[u]
  BY TargetFacts DEF TypeOK
<1>3. \A u \in Ids : u # t => own'[p][u] = own[p][u]
  BY DEF TypeOK
<1>4. req[p] \in Inputs /\ req[p].from \in Ids
  BY InputFacts DEF TypeOK
<1>5. CASE t = req[p].from /\ req[p].kind \in Presents
  \* A gift locks its sender first, and goes on to check it.
  <2>1. FirstWallet(req[p]) = req[p].from
    BY <1>4, <1>5, Wallets DEF Presents
  <2>2. pc'[p] = "check"
    BY <2>1, <1>1, <1>5 DEF AfterLock, Moves, Presents
  <2>3. QED
    BY <2>2, <1>1, <1>2, CoveredKept DEF CoveredAt
<1>6. CASE ~(t = req[p].from /\ req[p].kind \in Presents)
  <2>1. CoveredAt(p)'
    BY <1>2, <1>3, <1>4, <1>6 DEF Covered, CoveredAt
  <2>2. QED
    BY <2>1, <1>1, <1>2, CoveredKept
<1>7. QED
  BY <1>5, <1>6

LEMMA CoveredStep ==
  ASSUME TypeOK, Paths, Holding, Covered, [Next]_vars
  PROVE  Covered'
<1> USE DEF tables, locks, bounds
<1>1. ASSUME NEW p \in Requests, Receive(p) \/ Lookup(p) \/ Pay(p) \/ Connect(p) PROVE Covered'
  <2>1. \E l : Goto(p, l)
    BY <1>1 DEF Receive, Lookup, Pay, Connect
  <2>2. holder[req[p].from] # p
    <3>1. req[p].from \in Ids /\ p # NoRequest
      BY InputFacts, RequestsAssumption DEF TypeOK
    <3>2. ~InTransaction(p)
      BY <1>1 DEF Receive, Lookup, Pay, Connect, InTransaction
    <3>3. QED
      BY <3>1, <3>2 DEF Holding
  <2>3. QED
    BY <1>1, <2>1, <2>2, CoveredQuiet DEF Receive, Lookup, Pay, Connect
<1>2. ASSUME NEW p \in Requests, Find(p) \/ InsertWait(p) PROVE Covered'
  <2>1. \E l : Goto(p, l)
    BY <1>2 DEF Find, InsertWait
  <2>2. QED
    BY <1>2, <2>1, CoveredQuiet DEF Find, InsertWait
<1>3. ASSUME NEW p \in Requests, Insert(p) PROVE Covered'
  <2>1. CASE Target(p) \in wallets
    BY <1>3, <2>1, CoveredUnlock DEF Insert
  <2>2. CASE Target(p) \notin wallets
    <3>1. \E l : Goto(p, l)
      BY <1>3, <2>2 DEF Insert
    <3>2. QED
      BY <1>3, <2>2, <3>1, CoveredQuiet DEF Insert
  <2>3. QED
    BY <2>1, <2>2
<1>4. ASSUME NEW p \in Requests, Lock(p) PROVE Covered'
  <2>1. CASE Target(p) \in wallets
    <3>1. balance[Target(p)] \in Int
      BY TargetFacts DEF TypeOK
    <3>2. QED
      BY <1>4, <2>1, <3>1, CoveredLock DEF Lock
  <2>2. CASE Target(p) \notin wallets
    BY <1>4, <2>2, CoveredQuiet DEF Lock
  <2>3. QED
    BY <2>1, <2>2
<1>5. ASSUME NEW p \in Requests, Create(p) PROVE Covered'
  <2>1. CASE Target(p) \in wallets
    BY <1>5, <2>1, CoveredUnlock DEF Create
  <2>2. CASE Target(p) \notin wallets
    BY <1>5, <2>2, CoveredLock DEF Create
  <2>3. QED
    BY <2>1, <2>2
<1>6. ASSUME NEW p \in Requests, CheckSender(p) PROVE Covered'
  <2>1. CASE own[p][req[p].from] < req[p].amount
    BY <1>6, <2>1, CoveredUnlock DEF CheckSender
  <2>2. CASE ~(own[p][req[p].from] < req[p].amount)
    <3>1. own[p][req[p].from] \in Int /\ req[p].amount \in Int
      BY InputFacts DEF TypeOK
    <3>2. own[p][req[p].from] >= req[p].amount
      BY <2>2, <3>1
    <3>3. QED
      BY <1>6, <2>2, <3>2, CoveredQuiet DEF CheckSender
  <2>3. QED
    BY <2>1, <2>2
<1>7. ASSUME NEW p \in Requests, TransferShort(p) \/ AdminTransferThrows(p) PROVE Covered'
  BY <1>7, CoveredUnlock DEF TransferShort, AdminTransferThrows
<1>8. ASSUME NEW p \in Requests, SaveMove(p) \/ SaveDeposit(p) PROVE Covered'
  <2>1. /\ pc'[p] = "commit" /\ holder' = holder /\ req' = req
        /\ \A q \in Requests : q # p => pc'[q] = pc[q] /\ own'[q] = own[q]
    BY <1>8 DEF SaveMove, SaveDeposit, Goto, TypeOK
  <2>2. QED
    BY <2>1, CoveredKept DEF CoveredAt
<1>9. ASSUME NEW p \in Requests, Commit(p) \/ CommitUnanswered(p) PROVE Covered'
  <2>1. \E l : Goto(p, l)
    BY <1>9 DEF Commit, CommitUnanswered
  <2>2. QED
    BY <1>9, <2>1, CoveredUnlock DEF Commit, CommitUnanswered, Publish
<1>10. ASSUME NEW p \in Requests, Chat(p) \/ Notify(p) \/ CountSuperLikes(p) PROVE Covered'
  BY <1>10, CoveredQuiet DEF Chat, Notify, CountSuperLikes
<1>11. ASSUME NEW p \in Requests, DeadlockVictim(p) \/ DbError(p) PROVE Covered'
  BY <1>11, CoveredUnlock DEF DeadlockVictim, DbError, Throw
<1>12. ASSUME Restart PROVE Covered'
  BY <1>12, InputFacts, RequestsAssumption DEF Restart, Covered, CoveredAt, TypeOK
<1>13. CASE UNCHANGED vars
  BY <1>13 DEF vars, Covered, CoveredAt
<1>14. QED
  BY <1>1, <1>2, <1>3, <1>4, <1>5, <1>6, <1>7, <1>8, <1>9, <1>10, <1>11, <1>12, <1>13
     DEF Next, Step, AllAnswered

-----------------------------------------------------------------------------
(* What a request is about to publish.                                       *)

LEMMA ComputedKept ==
  ASSUME TypeOK, Holding, Computed, NEW p \in Requests, req' = req, pc'[p] # "commit",
         \A q \in Requests : q # p => pc'[q] = pc[q] /\ own'[q] = own[q],
         \A u \in Ids : holder[u] # p => balance'[u] = balance[u]
  PROVE  Computed'
<1> SUFFICES ASSUME NEW q \in Requests, q # p, pc[q] = "commit"
             PROVE  balance'[req[q].from] = balance[req[q].from]
                    /\ balance'[req[q].to] = balance[req[q].to]
  BY DEF Computed
<1>1. req[q].from \in Ids /\ req[q].to \in Ids
  BY InputFacts DEF TypeOK
<1>2. QED
  BY <1>1 DEF Holding

LEMMA ComputedQuiet ==
  ASSUME TypeOK, Holding, Computed, NEW p \in Requests, NEW l, Goto(p, l), l # "commit",
         req' = req, \A q \in Requests : q # p => own'[q] = own[q], balance' = balance
  PROVE  Computed'
<1>1. pc'[p] = l /\ \A q \in Requests : q # p => pc'[q] = pc[q]
  BY DEF Goto, TypeOK
<1>2. QED
  BY <1>1, ComputedKept

LEMMA ComputedSave ==
  ASSUME TypeOK, Paths, Holding, Fresh, Covered, Computed, NEW p \in Requests,
         SaveMove(p) \/ SaveDeposit(p)
  PROVE  Computed'
<1> DEFINE r == req[p]
<1>1. /\ r \in Inputs /\ r.from \in Ids /\ r.to \in Ids /\ r.amount \in Int
      /\ own \in [Requests -> [Ids -> Int]]
  BY InputFacts DEF TypeOK
<1>2. holder[r.from] = p /\ holder[r.to] = p /\ Valid(r)
  BY DEF Holding, SaveMove, SaveDeposit, Paths, InFlight, Answers
<1>3. own[p][r.from] = balance[r.from] /\ own[p][r.to] = balance[r.to]
  BY <1>1, <1>2 DEF Fresh, SaveMove, SaveDeposit
<1>4. /\ balance' = balance /\ req' = req
      /\ \A q \in Requests : q # p => pc'[q] = pc[q] /\ own'[q] = own[q]
  BY DEF SaveMove, SaveDeposit, tables, Goto, TypeOK
<1>5. CASE SaveMove(p)
  <2>1. r.kind \in Moves /\ r.from # r.to /\ r.kind # "adminTransfer"
    BY <1>2, <1>5 DEF SaveMove, Valid
  <2>2. balance[r.from] >= r.amount
    <3>1. CASE r.kind = "transfer"
      BY <3>1, <1>3, <1>5 DEF SaveMove
    <3>2. CASE r.kind \in Presents
      BY <3>2, <1>2, <1>3, <1>5 DEF SaveMove, Covered, CoveredAt
    <3>3. QED
      BY <2>1, <3>1, <3>2 DEF Moves, Presents
  <2>3. /\ own'[p][r.from] = SubtractDecimals(own[p][r.from], r.amount)
        /\ own'[p][r.to] = AddDecimals(own[p][r.to], Received(r))
    <3> DEFINE less == SubtractDecimals(own[p][r.from], r.amount)
               more == AddDecimals(own[p][r.to], Received(r))
    <3>1. own' = [own EXCEPT ![p] = [own[p] EXCEPT ![r.from] = less, ![r.to] = more]]
      BY <1>5 DEF SaveMove
    <3> HIDE DEF less, more
    <3>2. own'[p] = [own[p] EXCEPT ![r.from] = less, ![r.to] = more]
      BY <3>1, <1>1
    <3>3. own[p] \in [Ids -> Int]
      BY <1>1
    <3>4. own'[p][r.from] = less /\ own'[p][r.to] = more
      BY <3>2, <3>3, <1>1, <2>1
    <3>5. QED
      BY <3>4 DEF less, more
  <2>4. QED
    BY <1>3, <1>4, <2>1, <2>2, <2>3 DEF Computed
<1>6. CASE SaveDeposit(p)
  <2>1. r.kind \notin Moves
    BY <1>6 DEF SaveDeposit, Moves
  <2>2. own'[p][r.to] = AddDecimals(own[p][r.to], r.amount)
    BY <1>1, <1>6 DEF SaveDeposit
  <2>3. QED
    BY <1>3, <1>4, <2>1, <2>2 DEF Computed
<1>7. QED
  BY <1>5, <1>6

LEMMA ComputedStep ==
  ASSUME TypeOK, Paths, Holding, Fresh, Covered, Computed, [Next]_vars
  PROVE  Computed'
<1> USE DEF tables, locks, bounds
<1>1. ASSUME NEW p \in Requests,
             Receive(p) \/ Lookup(p) \/ Pay(p) \/ Connect(p) \/ Find(p) \/ InsertWait(p)
      PROVE Computed'
  <2>1. \E l : Goto(p, l) /\ l # "commit"
    BY <1>1 DEF Receive, Lookup, Pay, Connect, Find, InsertWait
  <2>2. QED
    BY <1>1, <2>1, ComputedQuiet DEF Receive, Lookup, Pay, Connect, Find, InsertWait
<1>2. ASSUME NEW p \in Requests, Insert(p) PROVE Computed'
  <2>1. \E l : Goto(p, l) /\ l # "commit"
    BY <1>2 DEF Insert
  <2>2. QED
    BY <1>2, <2>1, ComputedQuiet DEF Insert
<1>3. ASSUME NEW p \in Requests, Lock(p) \/ Create(p) PROVE Computed'
  <2>1. \E l : Goto(p, l) /\ l # "commit"
    BY <1>3 DEF Lock, Create, AfterLock
  <2>2. \A q \in Requests : q # p => own'[q] = own[q]
    BY <1>3 DEF Lock, Create, TypeOK
  <2>3. QED
    BY <1>3, <2>1, <2>2, ComputedQuiet DEF Lock, Create
<1>4. ASSUME NEW p \in Requests,
             CheckSender(p) \/ TransferShort(p) \/ AdminTransferThrows(p)
      PROVE Computed'
  <2>1. \E l : Goto(p, l) /\ l # "commit"
    BY <1>4 DEF CheckSender, TransferShort, AdminTransferThrows
  <2>2. QED
    BY <1>4, <2>1, ComputedQuiet DEF CheckSender, TransferShort, AdminTransferThrows
<1>5. ASSUME NEW p \in Requests, SaveMove(p) \/ SaveDeposit(p) PROVE Computed'
  BY <1>5, ComputedSave
<1>6. ASSUME NEW p \in Requests, Commit(p) \/ CommitUnanswered(p) PROVE Computed'
  <2>1. pc'[p] # "commit" /\ \A q \in Requests : q # p => pc'[q] = pc[q]
    BY <1>6 DEF Commit, CommitUnanswered, Goto, TypeOK
  <2>2. \A u \in Ids : holder[u] # p => balance'[u] = balance[u]
    BY <1>6 DEF Commit, CommitUnanswered, Publish
  <2>3. QED
    BY <1>6, <2>1, <2>2, ComputedKept DEF Commit, CommitUnanswered
<1>7. ASSUME NEW p \in Requests, Chat(p) \/ Notify(p) \/ CountSuperLikes(p) PROVE Computed'
  <2>1. \E l : Goto(p, l) /\ l # "commit"
    BY <1>7 DEF Chat, Notify, CountSuperLikes
  <2>2. QED
    BY <1>7, <2>1, ComputedQuiet DEF Chat, Notify, CountSuperLikes
<1>8. ASSUME NEW p \in Requests, DeadlockVictim(p) \/ DbError(p) PROVE Computed'
  BY <1>8, ComputedQuiet DEF DeadlockVictim, DbError, Throw
<1>9. ASSUME Restart PROVE Computed'
  BY <1>9 DEF Restart, InFlight, Answers, Computed
<1>10. CASE UNCHANGED vars
  BY <1>10 DEF vars, Computed
<1>11. QED
  BY <1>1, <1>2, <1>3, <1>4, <1>5, <1>6, <1>7, <1>8, <1>9, <1>10 DEF Next, Step, AllAnswered
-----------------------------------------------------------------------------
(* Answers and payments.                                                     *)

LEMMA SettledStep ==
  ASSUME TypeOK, Registered, Paths, Settled, [Next]_vars
  PROVE  Settled'
<1> USE DEF Goto, tables, locks, bounds, Answers, Moves, Presents
<1>1. ASSUME NEW p \in Requests, Receive(p) PROVE Settled'
  BY <1>1 DEF TypeOK, Settled, Receive
<1>2. ASSUME NEW p \in Requests, Lookup(p) PROVE Settled'
  BY <1>2 DEF TypeOK, Paths, Settled, Lookup
<1>3. ASSUME NEW p \in Requests, Pay(p) PROVE Settled'
  BY <1>3 DEF TypeOK, Registered, Settled, Pay
<1>4. ASSUME NEW p \in Requests, Connect(p) PROVE Settled'
  BY <1>4 DEF TypeOK, Settled, Connect
<1>5. ASSUME NEW p \in Requests, Find(p) PROVE Settled'
  BY <1>5 DEF TypeOK, Paths, Settled, Find
<1>6. ASSUME NEW p \in Requests, InsertWait(p) PROVE Settled'
  BY <1>6 DEF TypeOK, Settled, InsertWait
<1>7. ASSUME NEW p \in Requests, Insert(p) PROVE Settled'
  BY <1>7 DEF TypeOK, Paths, Settled, Insert
<1>8. ASSUME NEW p \in Requests, Lock(p) PROVE Settled'
  BY <1>8 DEF TypeOK, Settled, Lock, AfterLock
<1>9. ASSUME NEW p \in Requests, Create(p) PROVE Settled'
  BY <1>9 DEF TypeOK, Settled, Create, AfterLock
<1>10. ASSUME NEW p \in Requests, CheckSender(p) PROVE Settled'
  BY <1>10 DEF TypeOK, Paths, Settled, CheckSender
<1>11. ASSUME NEW p \in Requests, TransferShort(p) \/ AdminTransferThrows(p) PROVE Settled'
  BY <1>11 DEF TypeOK, Settled, TransferShort, AdminTransferThrows
<1>12. ASSUME NEW p \in Requests, SaveMove(p) \/ SaveDeposit(p) PROVE Settled'
  BY <1>12 DEF TypeOK, Settled, SaveMove, SaveDeposit
<1>13. ASSUME NEW p \in Requests, Commit(p) PROVE Settled'
  BY <1>13 DEF TypeOK, Paths, Settled, Commit, Publish
<1>14. ASSUME NEW p \in Requests, Chat(p) \/ Notify(p) \/ CountSuperLikes(p) PROVE Settled'
  BY <1>14 DEF TypeOK, Settled, Chat, Notify, CountSuperLikes
<1>15. ASSUME NEW p \in Requests, DeadlockVictim(p) \/ DbError(p) PROVE Settled'
  BY <1>15 DEF TypeOK, Settled, DeadlockVictim, DbError, Throw, InFlight
<1>16. ASSUME NEW p \in Requests, CommitUnanswered(p) PROVE Settled'
  BY <1>16 DEF TypeOK, Settled, CommitUnanswered, Publish
<1>17. ASSUME Restart PROVE Settled'
  BY <1>17 DEF TypeOK, Settled, Restart, InFlight
<1>18. CASE UNCHANGED vars
  BY <1>18 DEF Settled, vars
<1>19. QED
  BY <1>1, <1>2, <1>3, <1>4, <1>5, <1>6, <1>7, <1>8, <1>9, <1>10, <1>11, <1>12, <1>13,
     <1>14, <1>15, <1>16, <1>17, <1>18 DEF Next, Step, AllAnswered

-----------------------------------------------------------------------------
(* Balances.                                                                 *)

\* Only a COMMIT changes what the tables say.
LEMMA TablesKept ==
  ASSUME [Next]_vars, \/ balance' # balance \/ credited' # credited
                      \/ debited' # debited \/ committed' # committed
  PROVE  \E p \in Requests : pc[p] = "commit" /\ Publish(p)
<1> USE DEF tables
<1>1. ASSUME NEW p \in Requests, Step(p), ~Commit(p)
      PROVE  balance' = balance /\ credited' = credited /\ debited' = debited
             /\ committed' = committed
  BY <1>1 DEF Step, Lookup, Pay, Connect, Find, InsertWait, Insert, Lock, Create,
     CheckSender, TransferShort, AdminTransferThrows, SaveMove, SaveDeposit, Chat,
     Notify, CountSuperLikes, DeadlockVictim, Throw
<1>2. ASSUME NEW p \in Requests, Receive(p) \/ DbError(p)
      PROVE  balance' = balance /\ credited' = credited /\ debited' = debited
             /\ committed' = committed
  BY <1>2 DEF Receive, DbError, Throw
<1>3. ASSUME Restart \/ AllAnswered \/ UNCHANGED vars
      PROVE  balance' = balance /\ credited' = credited /\ debited' = debited
             /\ committed' = committed
  BY <1>3 DEF Restart, AllAnswered, vars
<1>4. \E p \in Requests : Commit(p) \/ CommitUnanswered(p)
  BY <1>1, <1>2, <1>3 DEF Next
<1>5. QED
  BY <1>4 DEF Commit, CommitUnanswered

LEMMA ReceivedPositive ==
  ASSUME NEW r \in Inputs, Valid(r), r.kind # "balance"
  PROVE  Received(r) \in Int /\ Received(r) >= 0 /\ r.amount \in Int /\ r.amount > 0
<1>1. r.amount \in Int /\ Received(r) \in Int /\ r.amount > 0
  BY InputFacts, ReceivedFacts DEF Valid
<1>2. SuperLikeCost \div 2 >= 0
  BY AmountsAssumption
<1>3. QED
  BY <1>1, <1>2 DEF Received

LEMMA OverdraftStep ==
  ASSUME TypeOK, Paths, Holding, Computed, NoOverdraft, [Next]_vars
  PROVE  NoOverdraft'
<1>1. CASE balance' = balance
  BY <1>1 DEF NoOverdraft
<1>2. ASSUME NEW p \in Requests, pc[p] = "commit", Publish(p)
      PROVE  NoOverdraft'
  <2> DEFINE r == req[p]
  <2>1. /\ r \in Inputs /\ r.from \in Ids /\ r.to \in Ids
        /\ balance[r.from] \in Int /\ balance[r.to] \in Int
    BY InputFacts DEF TypeOK
  <2>2. Valid(r) /\ r.kind # "balance"
    BY <1>2 DEF Paths, InFlight, Answers
  <2>3. Received(r) \in Int /\ Received(r) >= 0 /\ r.amount \in Int /\ r.amount > 0
    BY <2>1, <2>2, ReceivedPositive
  <2>4. balance[r.to] >= 0
    BY <2>1 DEF NoOverdraft
  <2>5. own[p][r.to] >= 0
    <3>1. \/ own[p][r.to] = AddDecimals(balance[r.to], Received(r))
          \/ own[p][r.to] = AddDecimals(balance[r.to], r.amount)
      BY <1>2 DEF Computed
    <3>2. balance[r.to] + Received(r) \in Int /\ balance[r.to] + Received(r) >= 0
      BY <2>1, <2>3, <2>4
    <3>3. balance[r.to] + r.amount \in Int /\ balance[r.to] + r.amount >= 0
      BY <2>1, <2>3, <2>4
    <3>4. QED
      BY <3>1, <3>2, <3>3, Rounding DEF AddDecimals
  <2>6. r.kind \in Moves => own[p][r.from] >= 0
    <3> SUFFICES ASSUME r.kind \in Moves PROVE own[p][r.from] >= 0
      OBVIOUS
    <3>1. balance[r.from] >= r.amount
      BY <1>2 DEF Computed
    <3>2. own[p][r.from] = SubtractDecimals(balance[r.from], r.amount)
      BY <1>2 DEF Computed
    <3>3. balance[r.from] - r.amount \in Int /\ balance[r.from] - r.amount >= 0
      BY <2>1, <2>3, <3>1
    <3>4. QED
      BY <3>2, <3>3, Rounding DEF SubtractDecimals
  <2>7. r.kind \notin Moves => r.from = r.to
    BY <2>1, InputFacts DEF Moves, AllKinds
  <2>8. \A u \in Ids : holder[u] = p => own[p][u] >= 0
    BY <2>5, <2>6, <2>7, RequestsAssumption DEF Holding
  <2>9. \A u \in Ids : balance'[u] = IF holder[u] = p THEN own[p][u] ELSE balance[u]
    BY <1>2 DEF Publish
  <2>10. QED
    BY <2>8, <2>9 DEF NoOverdraft
<1>3. QED
  BY <1>1, <1>2, TablesKept

-----------------------------------------------------------------------------
(* The invariant, and what follows from it.                                  *)

LEMMA InvHolds == Spec => []Inv
<1>1. Init => Inv
  <2> SUFFICES ASSUME Init PROVE Inv
    OBVIOUS
  <2>1. TypeOK /\ Registered
    BY AmountsAssumption, UsersAssumption, BoundsAssumption
       DEF Init, TypeOK, Registered, PCs, Ids
  <2>2. Paths /\ Holding /\ Computed /\ Covered /\ Settled
    BY DEF Init, Paths, Holding, Computed, Covered, CoveredAt, Settled, InFlight, Answers
  <2>3. Fresh
    BY RequestsAssumption DEF Init, Fresh
  <2>4. NoOverdraft
    BY AmountsAssumption DEF Init, NoOverdraft
  <2>5. QED
    BY <2>1, <2>2, <2>3, <2>4 DEF Inv
<1>2. Inv /\ [Next]_vars => Inv'
  BY TypeStep, PathsStep, HoldingStep, FreshStep, ComputedStep, CoveredStep, SettledStep,
     OverdraftStep DEF Inv
<1>3. QED
  BY <1>1, <1>2, PTL DEF Spec

\* No interleaving of transfers, gifts, super likes, deposits, failures and
\* restarts overdraws a wallet (wallet.service.ts 168-183, gift.service.ts
\* 92-131, super-like.service.ts 87-146).
THEOREM NeverOverdrawn == Spec => []NoOverdraft
<1>1. Inv => NoOverdraft
  BY DEF Inv
<1>2. QED
  BY <1>1, InvHolds, PTL

\* Every return, throw and catch of the three services leaves no row locked
\* and nothing uncommitted behind it (wallet.service.ts 218-223).
THEOREM NothingStaysLocked == Spec => []NothingLeftLocked
<1>1. Inv => NothingLeftLocked
  BY DEF Inv, Holding, NothingLeftLocked
<1>2. QED
  BY <1>1, InvHolds, PTL

\* A 200 means the money moved and a 4xx that it did not.
THEOREM AnswersAreTrue == Spec => []AnswersAreTruthful
<1>1. Inv => AnswersAreTruthful
  BY DEF Inv, Settled, AnswersAreTruthful
<1>2. QED
  BY <1>1, InvHolds, PTL

\* A deposit credited was paid for (wallet.service.ts 246-257).
THEOREM CreditedDepositsArePaid == Spec => []DepositsArePaid
<1>1. Inv => DepositsArePaid
  BY DEF Inv, Settled, DepositsArePaid, TypeOK
<1>2. QED
  BY <1>1, InvHolds, PTL
-----------------------------------------------------------------------------
(* Amounts the balance column can represent: the ledger is exact.            *)

Representable == \A a \in Amounts : a % 2 = 0

Exact == \A u \in Ids : balance[u] % 2 = 0 /\ balance[u] = credited[u] - debited[u]

LEMMA AmountFacts ==
  ASSUME NEW r \in Inputs, r.kind # "balance"
  PROVE  /\ r.amount \in Amounts \union {SuperLikeCost}
         /\ r.kind = "superLike" => r.amount = SuperLikeCost
         /\ r.kind # "superLike" => r.amount \in Amounts
<1>1. \/ r \in Input({"transfer", "gift"}, Users, Ids, Amounts)
      \/ r \in Input({"adminTransfer"}, Ids, Ids, Amounts)
      \/ r \in Input({"superLike"}, Users, Ids, {SuperLikeCost})
      \/ r \in Input({"deposit"}, Users, Users, Amounts)
      \/ r \in Input({"adminDeposit"}, Ids, Ids, Amounts)
      \/ r \in Input({"balance"}, Ids, Ids, {0})
  BY DEF Inputs
<1>2. ASSUME NEW ks, NEW F, NEW S, NEW A, r \in Input(ks, F, S, A)
      PROVE r.kind \in ks /\ r.amount \in A
  BY <1>2 DEF Input
<1>3. QED
  BY <1>1, <1>2

LEMMA ExactAmounts ==
  ASSUME Representable, NEW r \in Inputs, Valid(r), r.kind # "balance"
  PROVE  /\ r.amount \in Int /\ r.amount > 0 /\ r.amount % 2 = 0
         /\ Received(r) \in Int /\ Received(r) % 2 = 0
         /\ Recorded(r) = r.amount
         /\ r.kind \in Moves => Recorded(r) - RecordedFee(r) = Received(r)
         /\ r.kind \notin Moves => RecordedFee(r) = 0
<1>1. r.amount \in Int /\ r.amount > 0 /\ Received(r) \in Int
  BY ReceivedPositive
<1>2. /\ SuperLikeCost \in Int /\ SuperLikeCost % 2 = 0 /\ SuperLikeCost \div 2 \in Int
      /\ (SuperLikeCost \div 2) % 2 = 0
      /\ SuperLikeCost - (SuperLikeCost \div 2) = SuperLikeCost \div 2
  BY AmountsAssumption
<1>3. r.amount % 2 = 0
  BY <1>2, AmountFacts DEF Representable
<1>4. Recorded(r) = r.amount
  <2>1. 0 \in Int
    OBVIOUS
  <2>2. QED
    BY <1>1, <1>3, <2>1, Rounding DEF Recorded
<1>5. CASE r.kind = "superLike"
  <2>1. /\ Received(r) = SuperLikeCost \div 2 /\ RecordedFee(r) = SuperLikeCost \div 2
        /\ r.amount = SuperLikeCost /\ r.kind \in Moves
    BY <1>5, AmountFacts DEF Received, RecordedFee, Moves
  <2>2. QED
    BY <2>1, <1>1, <1>2, <1>3, <1>4
<1>6. CASE r.kind # "superLike"
  <2>1. Received(r) = r.amount /\ RecordedFee(r) = 0
    BY <1>6 DEF Received, RecordedFee
  <2>2. QED
    BY <2>1, <1>1, <1>3, <1>4
<1>7. QED
  BY <1>5, <1>6

LEMMA ExactDecimals ==
  ASSUME NEW x \in Int, NEW y \in Int, x % 2 = 0, y % 2 = 0
  PROVE  AddDecimals(x, y) = x + y /\ SubtractDecimals(x, y) = x - y
<1>1. x + y \in Int /\ (x + y) % 2 = 0
  OBVIOUS
<1>2. x - y \in Int /\ (x - y) % 2 = 0
  OBVIOUS
<1>3. ToFixed(x + y) = x + y
  BY <1>1, Rounding
<1>4. ToFixed(x - y) = x - y
  BY <1>2, Rounding
<1>5. QED
  BY <1>3, <1>4 DEF AddDecimals, SubtractDecimals

\* What one COMMIT does to the balances.
LEMMA PublishEffect ==
  ASSUME Representable, Inv, Exact, NEW p \in Requests, pc[p] = "commit", Publish(p)
  PROVE  /\ req[p].kind \in Moves =>
              /\ req[p].from # req[p].to /\ balance[req[p].from] >= req[p].amount
              /\ balance' = [balance EXCEPT ![req[p].from] = @ - req[p].amount,
                                            ![req[p].to] = @ + Received(req[p])]
         /\ req[p].kind \notin Moves =>
              balance' = [balance EXCEPT ![req[p].to] = @ + req[p].amount]
<1> DEFINE r == req[p]
<1> USE DEF Inv
<1>1. /\ r \in Inputs /\ r.from \in Ids /\ r.to \in Ids
      /\ balance \in [Ids -> Int] /\ balance[r.from] \in Int /\ balance[r.to] \in Int
  BY InputFacts DEF TypeOK
<1>2. Valid(r) /\ r.kind # "balance"
  BY DEF Paths, InFlight, Answers
<1>3. r.amount \in Int /\ r.amount % 2 = 0 /\ Received(r) \in Int /\ Received(r) % 2 = 0
  BY <1>1, <1>2, ExactAmounts
<1>4. balance[r.from] % 2 = 0 /\ balance[r.to] % 2 = 0
  BY <1>1 DEF Exact
<1>5. \A u \in Ids : balance'[u] = IF holder[u] = p THEN own[p][u] ELSE balance[u]
  BY DEF Publish
<1>6. balance' \in [Ids -> Int]
  BY PublishTypes
<1>7. holder[r.from] = p /\ holder[r.to] = p
      /\ \A u \in Ids : holder[u] = p => u \in {r.from, r.to}
  BY RequestsAssumption DEF Holding
<1>8. \A u \in Ids \ {r.from, r.to} : balance'[u] = balance[u]
  BY <1>5, <1>7
<1>9. balance'[r.from] = own[p][r.from] /\ balance'[r.to] = own[p][r.to]
  BY <1>1, <1>5, <1>7
<1>10. ASSUME r.kind \in Moves
       PROVE  /\ r.from # r.to /\ balance[r.from] >= r.amount
              /\ balance' = [balance EXCEPT ![r.from] = @ - r.amount,
                                            ![r.to] = @ + Received(r)]
  <2>1. r.from # r.to
    BY <1>2, <1>10 DEF Valid
  <2>2. /\ own[p][r.to] = AddDecimals(balance[r.to], Received(r))
        /\ own[p][r.from] = SubtractDecimals(balance[r.from], r.amount)
        /\ balance[r.from] >= r.amount
    BY <1>10 DEF Computed
  <2>3. AddDecimals(balance[r.to], Received(r)) = balance[r.to] + Received(r)
    BY <1>1, <1>3, <1>4, ExactDecimals
  <2>4. SubtractDecimals(balance[r.from], r.amount) = balance[r.from] - r.amount
    BY <1>1, <1>3, <1>4, ExactDecimals
  <2> DEFINE less == balance[r.from] - r.amount
             more == balance[r.to] + Received(r)
  <2>5. balance'[r.from] = less /\ balance'[r.to] = more
    BY <2>2, <2>3, <2>4, <1>9
  <2> HIDE DEF less, more
  <2>6. balance' = [balance EXCEPT ![r.from] = less, ![r.to] = more]
    BY <2>1, <2>5, <1>1, <1>6, <1>8
  <2>7. QED
    BY <2>1, <2>2, <2>6 DEF less, more
<1>11. ASSUME r.kind \notin Moves
       PROVE  balance' = [balance EXCEPT ![r.to] = @ + r.amount]
  <2>1. own[p][r.to] = AddDecimals(balance[r.to], r.amount) /\ r.from = r.to
    BY <1>1, <1>11, InputFacts DEF Computed, Moves, AllKinds
  <2>2. AddDecimals(balance[r.to], r.amount) = balance[r.to] + r.amount
    BY <1>1, <1>3, <1>4, ExactDecimals
  <2>3. QED
    BY <2>1, <2>2, <1>1, <1>6, <1>8, <1>9
<1>12. QED
  BY <1>10, <1>11

LEMMA ExactStep ==
  ASSUME Representable, Inv, Exact, [Next]_vars
  PROVE  Exact'
<1>1. CASE balance' = balance /\ credited' = credited /\ debited' = debited
  BY <1>1 DEF Exact
<1>2. ASSUME NEW p \in Requests, pc[p] = "commit", Publish(p)
      PROVE  Exact'
  <2> DEFINE r == req[p]
  <2>1. /\ r \in Inputs /\ r.from \in Ids /\ r.to \in Ids
        /\ balance \in [Ids -> Int] /\ credited \in [Ids -> Int] /\ debited \in [Ids -> Int]
    BY InputFacts DEF Inv, TypeOK
  <2>2. Valid(r) /\ r.kind # "balance"
    BY <1>2 DEF Inv, Paths, InFlight, Answers
  <2>3. /\ r.amount \in Int /\ r.amount % 2 = 0 /\ Received(r) \in Int /\ Received(r) % 2 = 0
        /\ Recorded(r) = r.amount
    BY <2>1, <2>2, ExactAmounts
  <2>4. RecordedFee(r) \in Int
    BY <2>1, ReceivedFacts
  <2>5. /\ credited' = [credited EXCEPT ![r.to] = @ + r.amount - RecordedFee(r)]
        /\ debited' = IF r.kind \in Moves THEN [debited EXCEPT ![r.from] = @ + r.amount]
                      ELSE debited
    BY <1>2, <2>3 DEF Publish
  <2>6. CASE r.kind \in Moves
    <3>1. /\ balance' = [balance EXCEPT ![r.from] = @ - r.amount, ![r.to] = @ + Received(r)]
          /\ r.from # r.to
      BY <1>2, <2>6, PublishEffect
    <3>2. r.amount - RecordedFee(r) = Received(r)
      BY <2>1, <2>2, <2>3, <2>6, ExactAmounts
    <3>3. debited' = [debited EXCEPT ![r.from] = @ + r.amount]
      BY <2>5, <2>6
    <3> SUFFICES ASSUME NEW u \in Ids
                 PROVE  balance'[u] % 2 = 0 /\ balance'[u] = credited'[u] - debited'[u]
      BY DEF Exact
    <3>4. balance[u] % 2 = 0 /\ balance[u] = credited[u] - debited[u]
      BY DEF Exact
    <3>5. balance[u] \in Int /\ credited[u] \in Int /\ debited[u] \in Int
      BY <2>1
    <3>6. CASE u = r.from
      <4>1. /\ balance'[u] = balance[u] - r.amount /\ credited'[u] = credited[u]
            /\ debited'[u] = debited[u] + r.amount
        BY <3>1, <3>3, <3>6, <2>1, <2>5
      <4>2. QED
        BY <4>1, <3>4, <3>5, <2>3
    <3>7. CASE u = r.to
      <4>1. /\ balance'[u] = balance[u] + Received(r) /\ debited'[u] = debited[u]
            /\ credited'[u] = credited[u] + r.amount - RecordedFee(r)
        BY <3>1, <3>3, <3>7, <2>1, <2>5
      <4>2. credited'[u] = credited[u] + Received(r)
        BY <4>1, <3>2, <3>5, <2>3, <2>4
      <4>3. QED
        BY <4>1, <4>2, <3>4, <3>5, <2>3
    <3>8. CASE u \notin {r.from, r.to}
      BY <3>1, <3>3, <3>4, <3>8, <2>1, <2>5
    <3>9. QED
      BY <3>6, <3>7, <3>8
  <2>7. CASE r.kind \notin Moves
    <3>1. balance' = [balance EXCEPT ![r.to] = @ + r.amount] /\ debited' = debited
      BY <1>2, <2>5, <2>7, PublishEffect
    <3>2. RecordedFee(r) = 0
      BY <2>1, <2>2, <2>7, ExactAmounts
    <3>3. credited' = [credited EXCEPT ![r.to] = @ + r.amount]
      <4>1. credited[r.to] + r.amount - RecordedFee(r) = credited[r.to] + r.amount
        BY <3>2, <2>1, <2>3
      <4>2. QED
        BY <4>1, <2>5
    <3> SUFFICES ASSUME NEW u \in Ids
                 PROVE  balance'[u] % 2 = 0 /\ balance'[u] = credited'[u] - debited'[u]
      BY DEF Exact
    <3>4. /\ balance[u] % 2 = 0 /\ balance[u] = credited[u] - debited[u]
          /\ balance[u] \in Int /\ credited[u] \in Int /\ debited[u] \in Int
      BY <2>1 DEF Exact
    <3>5. \/ u = r.to /\ balance'[u] = balance[u] + r.amount
             /\ credited'[u] = credited[u] + r.amount
          \/ u # r.to /\ balance'[u] = balance[u] /\ credited'[u] = credited[u]
      BY <3>1, <3>3, <2>1
    <3>6. QED
      BY <3>1, <3>4, <3>5, <2>3
  <2>8. QED
    BY <2>6, <2>7
<1>3. QED
  BY <1>1, <1>2, TablesKept

LEMMA ExactHolds ==
  ASSUME Representable
  PROVE  Spec => []Exact
<1>1. Init => Exact
  <2> SUFFICES ASSUME Init PROVE Exact
    OBVIOUS
  <2>1. Opening \in Int /\ Opening % 2 = 0
    BY AmountsAssumption
  <2>2. \A u \in Ids : /\ balance[u] \in {Opening, 0}
                       /\ credited[u] = balance[u] /\ debited[u] = 0
    BY DEF Init
  <2>3. QED
    BY <2>1, <2>2 DEF Exact
<1>2. Inv /\ Exact /\ [Next]_vars => Exact'
  BY ExactStep
<1>3. QED
  BY <1>1, <1>2, InvHolds, PTL DEF Spec

\* The Transaction table explains every balance, as long as clients ask for
\* whole units of the balance column (wallet.service.ts 176-194).
THEOREM BalancesMatch ==
  ASSUME Representable
  PROVE  Spec => []BalanceMatchesLedger
<1>1. Exact => BalanceMatchesLedger
  BY DEF Exact, BalanceMatchesLedger
<1>2. QED
  BY <1>1, ExactHolds, PTL
-----------------------------------------------------------------------------
(* The wallets implement the ledger.                                         *)

\* A COMMIT settles its request against the ledger's balances; no other step
\* touches them.
LEMMA LedgerStep ==
  ASSUME Representable, Inv, Exact, [Next]_vars
  PROVE  [Ledger!Next]_(Ledger!ledgerVars)
<1>1. CASE balance' = balance /\ committed' = committed
  BY <1>1 DEF Ledger!ledgerVars
<1>2. ASSUME NEW p \in Requests, pc[p] = "commit", Publish(p)
      PROVE  Ledger!Next
  <2> DEFINE r == req[p]
  <2>1. r \in Inputs /\ r.from \in Ids /\ r.to \in Ids
    BY InputFacts DEF Inv, TypeOK
  <2>2. Valid(r) /\ r.kind # "balance"
    BY <1>2 DEF Inv, Paths, InFlight, Answers
  <2>3. /\ r.amount > 0
        /\ r.kind = "superLike" => r.amount = SuperLikeCost
        /\ r.kind # "superLike" => r.amount \in {a \in Amounts : a > 0}
    BY <2>1, <2>2, AmountFacts, ExactAmounts
  <2>4. p \in Requests \ committed /\ committed' = committed \union {p}
    BY <1>2 DEF Inv, Settled, Publish
  <2>5. CASE r.kind \in Moves
    <3>1. /\ r.from # r.to /\ balance[r.from] >= r.amount
          /\ balance' = [balance EXCEPT ![r.from] = @ - r.amount,
                                        ![r.to] = @ + Received(r)]
      BY <1>2, <2>5, PublishEffect
    <3>2. Ledger!Move(p, r.from, r.to, r.amount, Received(r))
      BY <3>1, <2>4 DEF Ledger!Move
    <3>3. CASE r.kind = "superLike"
      <4>1. r.amount = SuperLikeCost /\ Received(r) = SuperLikeCost \div 2
        BY <3>3, <2>3 DEF Received
      <4>2. QED
        BY <4>1, <3>2, <2>1, <2>4 DEF Ledger!Next
    <3>4. CASE r.kind # "superLike"
      <4>1. Received(r) = r.amount
        BY <3>4 DEF Received
      <4>2. QED
        BY <4>1, <3>2, <3>4, <2>1, <2>3, <2>4 DEF Ledger!Next
    <3>5. QED
      BY <3>3, <3>4
  <2>6. CASE r.kind \notin Moves
    <3>1. balance' = [balance EXCEPT ![r.to] = @ + r.amount]
      BY <1>2, <2>6, PublishEffect
    <3>2. Ledger!Credit(p, r.to, r.amount)
      BY <3>1, <2>4 DEF Ledger!Credit
    <3>3. r.amount \in {a \in Amounts : a > 0}
      BY <2>3, <2>6 DEF Moves
    <3>4. QED
      BY <3>2, <3>3, <2>1, <2>4 DEF Ledger!Next
  <2>7. QED
    BY <2>5, <2>6
<1>3. QED
  BY <1>1, <1>2, TablesKept

\* However the handlers interleave, fail and restart, each request takes
\* effect at most once, all at once, against the balances of that moment.
THEOREM WalletsImplementLedger ==
  ASSUME Representable
  PROVE  Spec => ImplementsLedger
<1>1. Init => Ledger!Init
  BY AmountsAssumption DEF Init, Ledger!Init
<1>2. Inv /\ Exact /\ [Next]_vars => [Ledger!Next]_(Ledger!ledgerVars)
  BY LedgerStep
<1>3. QED
  BY <1>1, <1>2, InvHolds, ExactHolds, PTL DEF Spec, ImplementsLedger, Ledger!Spec
-----------------------------------------------------------------------------
(* What the screens show.                                                    *)

\* Every balance pushed to a screen is one its request committed
\* (wallet.service.ts 196-211).
THEOREM ScreensAreTrue == Spec => ScreensShowCommitted
<1> DEFINE Pushed == \A u \in Ids : shown'[u] # shown[u] =>
             \E p \in committed : u \in {req[p].from, req[p].to} /\ shown'[u] = own[p][u]
<1>1. ASSUME Inv, [Next]_vars PROVE [Pushed]_vars
  <2>1. CASE shown' = shown
    BY <2>1
  <2>2. ASSUME NEW p \in Requests, Notify(p) PROVE Pushed
    <3>1. p \in committed
      BY <1>1, <2>2 DEF Inv, Settled, Notify
    <3>2. QED
      BY <3>1, <2>2 DEF Notify
  <2>3. ASSUME NEW p \in Requests, Step(p), ~Notify(p) PROVE shown' = shown
    BY <2>3 DEF Step, Lookup, Pay, Connect, Find, InsertWait, Insert, Lock, Create,
       CheckSender, TransferShort, AdminTransferThrows, SaveMove, SaveDeposit, Commit,
       Chat, CountSuperLikes, DeadlockVictim, Throw
  <2>4. ASSUME NEW p \in Requests, Receive(p) \/ DbError(p) \/ CommitUnanswered(p)
        PROVE  shown' = shown
    BY <2>4 DEF Receive, DbError, CommitUnanswered, Throw
  <2>5. ASSUME Restart \/ AllAnswered PROVE shown' = shown
    BY <2>5 DEF Restart, AllAnswered, vars
  <2>6. QED
    BY <1>1, <2>1, <2>2, <2>3, <2>4, <2>5 DEF Next, vars
<1>2. QED
  BY <1>1, InvHolds, PTL DEF Spec, ScreensShowCommitted

-----------------------------------------------------------------------------
(* Locking by user id.                                                       *)

\* A request holds the second of its two rows only with the first.
InTurn ==
  \A p \in Requests : holder[SecondWallet(req[p])] = p => holder[FirstWallet(req[p])] = p

\* A step gives the locks of one request or of all up, or one request takes the
\* row it is working on, which nobody else holds; or it touches no lock.
LEMMA HolderStep ==
  ASSUME Inv, [Next]_vars
  PROVE  /\ req' = req
         /\ \/ holder' = holder
            \/ \A u \in Ids : holder'[u] = NoRequest
            \/ \E p \in Requests : Unlock(p)
            \/ \E p \in Requests : holder[Target(p)] \in {NoRequest, p} /\ holder' = [holder EXCEPT ![Target(p)] = p]
<1> USE DEF tables, locks, bounds
<1> DEFINE Held == /\ req' = req
         /\ \/ holder' = holder
            \/ \A u \in Ids : holder'[u] = NoRequest
            \/ \E p \in Requests : Unlock(p)
            \/ \E p \in Requests : holder[Target(p)] \in {NoRequest, p} /\ holder' = [holder EXCEPT ![Target(p)] = p]
<1>1. ASSUME NEW p \in Requests, Lock(p) PROVE Held
  BY <1>1 DEF Lock, HeldByOther
<1>2. ASSUME NEW p \in Requests, Create(p) PROVE Held
  <2>1. CASE Target(p) \in wallets
    BY <1>2, <2>1 DEF Create
  <2>2. CASE Target(p) \notin wallets
    <3>1. Target(p) \in Ids
      BY TargetFacts DEF Inv
    <3>2. holder[Target(p)] # NoRequest => Target(p) \in dirty
      BY <2>2, <3>1 DEF Inv, Holding
    <3> QED
      BY <1>2, <2>2, <3>2 DEF Create, PendingByOther, HeldByOther
  <2> QED
    BY <2>1, <2>2
<1>3. ASSUME NEW p \in Requests,
             \/ Receive(p) \/ Lookup(p) \/ Pay(p) \/ Connect(p) \/ Find(p) \/ InsertWait(p)
             \/ SaveMove(p) \/ SaveDeposit(p) \/ Chat(p) \/ Notify(p) \/ CountSuperLikes(p)
      PROVE  req' = req /\ holder' = holder
  BY <1>3 DEF Receive, Lookup, Pay, Connect, Find, InsertWait, SaveMove, SaveDeposit, Chat, Notify, CountSuperLikes
<1>4. ASSUME NEW p \in Requests,
             \/ Insert(p) \/ CheckSender(p) \/ TransferShort(p) \/ AdminTransferThrows(p) \/ Commit(p)
             \/ DeadlockVictim(p) \/ DbError(p) \/ CommitUnanswered(p)
      PROVE  req' = req /\ (holder' = holder \/ Unlock(p))
  BY <1>4 DEF Insert, CheckSender, TransferShort, AdminTransferThrows, Commit, DeadlockVictim, DbError,
              CommitUnanswered, Publish, Throw
<1>5. CASE Restart
  BY <1>5 DEF Restart
<1>6. CASE UNCHANGED vars
  BY <1>6 DEF vars
<1> QED
  BY <1>1, <1>2, <1>3, <1>4, <1>5, <1>6 DEF Next, Step, AllAnswered

\* Rows are taken in turn and given up together.
LEMMA InTurnStep ==
  ASSUME Inv, InTurn, [Next]_vars
  PROVE  InTurn'
<1>1. TypeOK
  BY DEF Inv
<1> SUFFICES ASSUME NEW p \in Requests, holder'[SecondWallet(req'[p])] = p
             PROVE  holder'[FirstWallet(req'[p])] = p
  BY DEF InTurn
<1>2. req' = req /\ NoRequest \notin Requests
  BY HolderStep, RequestsAssumption
<1> DEFINE a == FirstWallet(req[p])
           b == SecondWallet(req[p])
<1>3. a \in Ids /\ b \in Ids
  BY <1>1, Wallets DEF TypeOK
<1>4. holder'[b] = p /\ (holder[b] = p => holder[a] = p)
  BY <1>2 DEF InTurn
<1>t. ASSUME NEW q \in Requests, q # p PROVE Target(q) \in Ids
  BY <1>1, TargetFacts
<1>5. CASE holder' = holder
  BY <1>2, <1>4, <1>5
<1>6. CASE \A u \in Ids : holder'[u] = NoRequest
  BY <1>2, <1>3, <1>4, <1>6
<1>7. ASSUME NEW q \in Requests, Unlock(q) PROVE holder'[a] = p
  <2>1. /\ holder'[b] # NoRequest => holder'[b] = holder[b] /\ holder[b] # q
        /\ holder'[a] = IF holder[a] = q THEN NoRequest ELSE holder[a]
    BY <1>1, <1>3, <1>7, Unlocking
  <2> QED
    BY <1>2, <1>4, <2>1
<1>8. ASSUME NEW q \in Requests, holder[Target(q)] \in {NoRequest, q}, holder' = [holder EXCEPT ![Target(q)] = q]
      PROVE  holder'[a] = p
  <2>1. Target(q) \in Ids /\ holder \in [Ids -> Requests \union {NoRequest}]
    BY <1>1, TargetFacts DEF TypeOK
  <2>2. CASE q = p
    <3>1. Target(p) = IF holder[a] = p THEN b ELSE a
      BY DEF Target
    <3> HIDE DEF a, b
    <3> QED
      BY <1>3, <1>4, <1>8, <2>1, <2>2, <3>1
  <2>3. CASE q # p
    <3> HIDE DEF a, b
    <3>1. holder[b] = p
      BY <1>3, <1>4, <1>8, <2>1, <2>3
    <3>2. holder[a] = p
      BY <1>4, <3>1
    <3> QED
      BY <1>2, <1>3, <1>8, <2>1, <2>3, <3>2
  <2> QED
    BY <2>2, <2>3
<1> QED
  BY <1>2, <1>5, <1>6, <1>7, <1>8, HolderStep

\* Where nobody sends presents, whoever waits for a row holds lower ones only.
LEMMA WaitsUpwards ==
  ASSUME Inv, InTurn, Kinds \intersect Presents = {},
         NEW p \in Requests, WaitsForRow(p), NEW u \in Ids, holder[u] = p
  PROVE  u < Target(p)
<1> DEFINE r == req[p]
           a == FirstWallet(r)
           b == SecondWallet(r)
<1>1. r \in Inputs /\ NoRequest \notin Requests
  BY RequestsAssumption DEF Inv, TypeOK
<1>2. /\ {a, b} = {r.from, r.to} /\ a \in Ids /\ b \in Ids
  BY <1>1, Wallets
<1>3. u \in {r.from, r.to}
  BY <1>1 DEF Inv, Holding
<1>4. holder[Target(p)] # p
  BY DEF WaitsForRow, PendingByOther, HeldByOther
<1>5. Target(p) = IF holder[a] = p THEN b ELSE a
  BY DEF Target
<1>6. holder[b] = p => holder[a] = p
  BY DEF InTurn
<1>7. u = a /\ Target(p) = b /\ a # b
  BY <1>2, <1>3, <1>4, <1>5, <1>6
<1>8. r.kind \in Kinds
  BY <1>1 DEF Inputs, Input
<1>9. r.kind \in AllKinds /\ (r.kind \in {"deposit", "adminDeposit", "balance"} => r.from = r.to)
      /\ r.from \in Nat /\ r.to \in Nat
  BY <1>1, InputFacts, UsersAssumption DEF Ids
<1>10. r.kind \in {"transfer", "adminTransfer"}
  BY <1>2, <1>7, <1>8, <1>9 DEF AllKinds, Presents
<1> QED
  BY <1>7, <1>9, <1>10 DEF FirstWallet, SecondWallet

\* A set of numbers has a lowest: the ranks of its members below one of them
\* are all there, so one of them is of rank 1.
LEMMA Lowest ==
  ASSUME NEW T \in SUBSET Nat, T # {}
  PROVE  \E t \in T : \A s \in T : t <= s
<1>n. \A x \in T : x \in Nat
  OBVIOUS
<1>0. PICK top \in T : TRUE
  OBVIOUS
<1> DEFINE S == {x \in T : x <= top}
           n == Cardinality(S)
           Below(m) == {x \in S : x < m}
           r == [m \in S |-> Cardinality(Below(m)) + 1]
<1>t. top \in Nat
  BY <1>n
<1>s. \A x : x \in S <=> x \in T /\ x <= top
  OBVIOUS
<1>1. S \subseteq Nat /\ top \in S /\ S \subseteq 0..top
  <2> HIDE DEF S
  <2>1. ASSUME NEW x \in S PROVE x \in Nat /\ x \in 0..top
    <3>1. x \in T /\ x <= top
      BY <1>s
    <3>2. x \in Nat
      BY <1>n, <3>1
    <3> QED
      BY <1>t, <3>1, <3>2
  <2> QED
    BY <1>0, <1>s, <1>t, <2>1
<1>2. IsFiniteSet(S) /\ n \in Nat
  <2>1. top \in Int /\ IsFiniteSet(0..top)
    BY <1>0, FS_Interval
  <2> HIDE DEF S
  <2>2. IsFiniteSet(S)
    BY <1>1, <2>1, FS_Subset
  <2> QED
    BY <2>2, FS_CardinalityType
<1>3. ASSUME NEW m \in S
      PROVE  /\ IsFiniteSet(Below(m)) /\ Cardinality(Below(m)) \in Nat
             /\ IsFiniteSet(Below(m) \union {m})
             /\ Cardinality(Below(m) \union {m}) = Cardinality(Below(m)) + 1
             /\ Below(m) \union {m} \in SUBSET S
  <2>1. Below(m) \in SUBSET S /\ m \notin Below(m)
    BY <1>1
  <2> HIDE DEF Below, S
  <2>2. IsFiniteSet(Below(m))
    BY <1>2, <2>1, FS_Subset
  <2> QED
    BY <2>1, <2>2, FS_CardinalityType, FS_AddElement
<1>4. \A l, m \in S : l < m => \A x \in Below(l) \union {l} : x \in Below(m)
  BY <1>1
<1>5. \A t \in S : Below(t) = {} => t \in T /\ \A s \in T : t <= s
  BY <1>0, <1>1
<1>r. r = [m \in S |-> Cardinality(Below(m)) + 1]
  OBVIOUS
<1> HIDE DEF S, n, Below, r
<1>6. ASSUME NEW m \in S PROVE r[m] \in 1..n
  <2>1. Cardinality(Below(m) \union {m}) <= n
    BY <1>2, <1>3, FS_Subset DEF n
  <2> QED
    BY <1>2, <1>3, <1>r, <2>1
<1>7. ASSUME NEW l \in S, NEW m \in S, l < m PROVE r[l] < r[m]
  <2>1. Below(l) \union {l} \in SUBSET Below(m)
    BY <1>4, <1>7
  <2>2. Cardinality(Below(l) \union {l}) <= Cardinality(Below(m))
    BY <1>3, <2>1, FS_Subset
  <2>3. r[l] = Cardinality(Below(l)) + 1 /\ r[m] = Cardinality(Below(m)) + 1
    BY <1>r
  <2>4. /\ Cardinality(Below(l)) \in Nat /\ Cardinality(Below(m)) \in Nat
        /\ Cardinality(Below(l) \union {l}) = Cardinality(Below(l)) + 1
    BY <1>3
  <2> QED
    BY <2>2, <2>3, <2>4
<1>8. r \in Injection(S, 1..n)
  <2>1. r \in [S -> 1..n]
    BY <1>6, <1>r
  <2>2. \A l, m \in S : r[l] = r[m] => l = m
    BY <1>1, <1>2, <1>6, <1>7
  <2> QED
    BY <2>1, <2>2 DEF Injection, IsInjective
<1>9. r \in Surjection(S, 1..n)
  BY <1>2, <1>8, FS_Injection, FS_Interval DEF n
<1>10. n >= 1
  BY <1>1, <1>2, <1>6
<1>11. PICK t \in S : r[t] = 1
  BY <1>2, <1>9, <1>10 DEF Surjection
<1>12. Cardinality(Below(t)) = 0
  <2>1. r[t] = Cardinality(Below(t)) + 1 /\ Cardinality(Below(t)) \in Nat
    BY <1>3, <1>r
  <2> QED
    BY <1>11, <2>1
<1>13. Below(t) = {}
  BY <1>3, <1>12, FS_EmptySet
<1> QED
  BY <1>5, <1>13

\* So nobody waits in a circle: the lowest row waited for is held by somebody
\* who waits for a row, and holds a lower one.
LEMMA NoCycle ==
  ASSUME Inv, InTurn, Kinds \intersect Presents = {}
  PROVE  NoDeadlock
<1> SUFFICES ASSUME NEW p \in Requests, NEW S \in SUBSET Requests, p \in S,
                    \A q \in S : WaitsForRow(q), {holder[Target(q)] : q \in S} = S
             PROVE  FALSE
  BY DEF NoDeadlock, InDeadlock
<1> DEFINE T == {Target(q) : q \in S}
<1>1. \A q \in S : Target(q) \in Ids
  BY TargetFacts DEF Inv
<1>2. T \in SUBSET Nat /\ T # {} /\ (\A t \in T : \E q \in S : t = Target(q)) /\ \A q \in S : Target(q) \in T
  BY <1>1, UsersAssumption DEF Ids
<1> HIDE DEF T
<1>3. PICK t \in T : \A s \in T : t <= s
  BY <1>2, Lowest
<1>4. \A s \in T : ~(s < t)
  BY <1>2, <1>3
<1>5. PICK q \in S : t = Target(q)
  BY <1>2
<1>6. PICK o \in S : holder[Target(o)] = q
  BY <1>5
<1>7. Target(o) < Target(q)
  BY <1>1, <1>5, <1>6, WaitsUpwards
<1> QED
  BY <1>2, <1>4, <1>5, <1>6, <1>7

\* Transfers and deposits among themselves never deadlock, whoever has no
\* wallet yet (wallet.service.ts 99-110).
THEOREM TransfersNeverDeadlock ==
  ASSUME Kinds \intersect Presents = {}
  PROVE  Spec => []NoDeadlock
<1>1. Init => InTurn
  <2> SUFFICES ASSUME Init PROVE InTurn
    OBVIOUS
  <2>1. \A p \in Requests : req[p] \in Inputs
    BY DEF Init
  <2>2. \A p \in Requests : SecondWallet(req[p]) \in Ids
    BY <2>1, Wallets
  <2> QED
    BY <2>2, RequestsAssumption DEF Init, InTurn
<1>2. Inv /\ InTurn /\ [Next]_vars => InTurn'
  BY InTurnStep
<1>3. Inv /\ InTurn => NoDeadlock
  BY NoCycle
<1> QED
  BY <1>1, <1>2, <1>3, InvHolds, PTL DEF Spec
===============================================================================
