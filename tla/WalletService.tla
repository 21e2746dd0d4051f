--------------------------- MODULE WalletService ---------------------------
(***************************************************************************)
(* The token wallets of the back end: services/wallet.service.ts,          *)
(* gift.service.ts, super-like.service.ts and payment-provider.service.ts, *)
(* as concurrent HTTP requests over the rows of one Postgres table.        *)
(*                                                                         *)
(* A request runs alone between two awaits, so every action below is what  *)
(* a handler does from one await to the next.  The database is modelled    *)
(* from how the code uses it (READ COMMITTED, one row per wallet):         *)
(*   - SELECT ... FOR UPDATE sees committed rows only, waits for the       *)
(*     transaction that holds the row, then reads its newest version;      *)
(*   - an INSERT of a wallet whose userId another open transaction has     *)
(*     written waits for that transaction, and fails on the UNIQUE userId  *)
(*     when a committed row is there;                                      *)
(*   - a cycle of sessions that wait for each other's rows is broken by    *)
(*     an error to one of them;                                            *)
(*   - sessions come from a pool of PoolSize connections; asking an empty  *)
(*     pool waits, with no limit.                                          *)
(*                                                                         *)
(* Amounts are counted in ticks, half of the 1e-8 the balance column       *)
(* keeps: the amount of a request is a string nobody validates, and half   *)
(* a unit is what tells rounding up from rounding down.                    *)
(***************************************************************************)
EXTENDS Integers, FiniteSets

CONSTANTS
  Users,          \* ids of registered users (numbers: locks are taken by id)
  Strangers,      \* ids that no row of "user" has
  Requests,       \* the HTTP requests of a behaviour, each sent at most once
  NoRequest,      \* nobody
  Kinds,          \* the endpoints in use: a subset of AllKinds
  Amounts,        \* the amounts clients ask for, in ticks
  SuperLikeCost,  \* SUPER_LIKE_COST
  PaymentLimit,   \* what the payment provider accepts at most
  StartWallets,   \* the sets of users that may have a wallet at the start
  Opening,        \* balance of the wallets that exist at the start
  PoolSize,       \* connections of the pool
  MaxDbErrors,    \* bound: spontaneous database errors in a behaviour
  MaxRestarts     \* bound: restarts of the server in a behaviour

Ids == Users \union Strangers

AllKinds == {"transfer", "adminTransfer", "gift", "superLike",
             "deposit", "adminDeposit", "balance"}

ASSUME UsersAssumption ==
  /\ Users \subseteq Nat /\ Strangers \subseteq Nat
  /\ Users \intersect Strangers = {}
  /\ StartWallets \subseteq SUBSET Users
ASSUME RequestsAssumption == NoRequest \notin Requests /\ Kinds \subseteq AllKinds
ASSUME AmountsAssumption ==
  /\ Amounts \subseteq Int
  /\ SuperLikeCost \in Nat /\ SuperLikeCost > 0 /\ SuperLikeCost % 4 = 0
  /\ Opening \in Nat /\ Opening % 2 = 0
  /\ PaymentLimit \in Nat
ASSUME BoundsAssumption ==
  PoolSize \in Nat /\ MaxDbErrors \in Nat /\ MaxRestarts \in Nat

VARIABLES
  req,        \* what each request asks: [kind, from, to, amount]
  pc,         \* where its handler is suspended, or how it was answered
  own,        \* own[p][u]: the balance in the entity p loaded for u's wallet
  wallets,    \* users with a committed wallet row
  balance,    \* committed balance of each user, 0 without a row
  holder,     \* holder[u]: the request whose transaction holds u's row
  dirty,      \* users whose row has a version not yet committed
  credited,   \* per user, what committed Transaction rows paid in ...
  debited,    \* ... and took out
  committed,  \* requests whose database transaction committed
  charged,    \* requests whose payment the provider executed
  shown,      \* last balance pushed to each user's screen
  dbErrors, restarts

tables == <<wallets, balance, credited, debited, committed>>
locks  == <<holder, dirty>>
bounds == <<dbErrors, restarts>>
vars == <<req, pc, own, tables, locks, charged, shown, bounds>>

-----------------------------------------------------------------------------
(* Decimal strings: parseFloat, then toFixed(8) (ties go up; values are      *)
(* exact here), and the numeric(20,8) columns, which round ties up as well.  *)

ToFixed(x) == ((x + 1) \div 2) * 2
AddDecimals(a, b) == ToFixed(a + b)
SubtractDecimals(a, b) == ToFixed(a - b)

\* What a Transaction row holds, and what the receiver is paid.
Recorded(r) == ToFixed(r.amount)
Received(r) == IF r.kind = "superLike" THEN SuperLikeCost \div 2 ELSE r.amount
RecordedFee(r) == IF r.kind = "superLike" THEN SuperLikeCost \div 2 ELSE 0

-----------------------------------------------------------------------------
(* Requests.                                                                 *)

Moves == {"transfer", "adminTransfer", "gift", "superLike"}
Presents == {"gift", "superLike"}

Input(kinds, froms, tos, amounts) ==
  [kind : Kinds \intersect kinds, from : froms, to : tos, amount : amounts]

\* The sender of a transfer, gift or super like is the authenticated user;
\* the ids of the admin endpoints and every recipient come from the client.
Inputs ==
  Input({"transfer", "gift"}, Users, Ids, Amounts)
    \union Input({"adminTransfer"}, Ids, Ids, Amounts)
    \union Input({"superLike"}, Users, Ids, {SuperLikeCost})
    \union {r \in Input({"deposit"}, Users, Users, Amounts) : r.from = r.to}
    \union {r \in Input({"adminDeposit"}, Ids, Ids, Amounts) : r.from = r.to}
    \union {r \in Input({"balance"}, Ids, Ids, {0}) : r.from = r.to}

Valid(r) ==
  /\ r.kind # "balance" => r.amount > 0
  /\ r.kind \in Moves => r.from # r.to

\* The users whose rows a handler looks up before its transaction.
LookedUp(r) == IF r.kind = "adminTransfer" THEN {r.from, r.to} ELSE {r.to}

Answers == {"ok", "refused", "failed", "lost"}
PCs == {"new", "lookup", "pay", "connect", "find", "insert", "inserting",
        "lock", "create", "check", "move", "commit", "chat", "notify",
        "count"} \union Answers

InFlight(p) == pc[p] \notin Answers \union {"new"}

\* queryRunner.startTransaction() has run and the transaction is still open.
InTransaction(p) ==
  /\ pc[p] \in {"find", "insert", "inserting", "lock", "create", "check",
                "move", "commit"}
  /\ req[p].kind # "balance"

\* The query runner keeps its connection until release(), after the answer's
\* last await; getOrCreateWallet's INSERT runs on a connection of its own.
HoldsConnection(p) ==
  InTransaction(p) \/ pc[p] \in {"chat", "notify", "count"}

FreeConnection ==
  Cardinality({p \in Requests : HoldsConnection(p)})
    + Cardinality({p \in Requests : pc[p] = "inserting"}) < PoolSize

-----------------------------------------------------------------------------
(* Locks.                                                                    *)

\* Mutated FirstWallet: no sort.
FirstUnsorted(r) == r.from

\* transfer and adminTransfer sort the two ids; gifts lock the sender first.
FirstWallet(r) ==
  IF r.kind \in {"transfer", "adminTransfer"} /\ r.to < r.from THEN r.to ELSE r.from
SecondWallet(r) == IF FirstWallet(r) = r.from THEN r.to ELSE r.from

\* The wallet the handler is working on: the first of the two it does not hold.
Target(p) ==
  IF holder[FirstWallet(req[p])] = p THEN SecondWallet(req[p]) ELSE FirstWallet(req[p])

HeldByOther(u, p) == holder[u] \notin {NoRequest, p}
PendingByOther(u, p) == HeldByOther(u, p) /\ u \in dirty

\* COMMIT, ROLLBACK and a dropped session all give the locks up.
Unlock(p) ==
  /\ holder' = [u \in Ids |-> IF holder[u] = p THEN NoRequest ELSE holder[u]]
  /\ dirty' = {u \in dirty : holder[u] # p}

Goto(p, l) == pc' = [pc EXCEPT ![p] = l]

-----------------------------------------------------------------------------
(* Before the transaction.                                                   *)

\* The synchronous head of each handler: amount > 0, not to oneself.
Receive(p) ==
  /\ pc[p] = "new"
  /\ Goto(p, IF ~Valid(req[p]) THEN "refused"
             ELSE IF req[p].kind = "deposit" THEN "pay"
             ELSE IF req[p].kind = "balance" THEN "find" ELSE "lookup")
  /\ UNCHANGED <<req, own, tables, locks, charged, shown, bounds>>

\* findOne(User) on a pooled connection; 404 for an id nobody has.
Lookup(p) ==
  /\ pc[p] = "lookup"
  /\ FreeConnection
  /\ Goto(p, IF LookedUp(req[p]) \subseteq Users THEN "connect" ELSE "refused")
  /\ UNCHANGED <<req, own, tables, locks, charged, shown, bounds>>

\* Mutated Pay: charges before it checks the limit.
PayFirst(p) ==
  /\ pc[p] = "pay"
  /\ charged' = charged \union {p}
  /\ Goto(p, IF req[p].amount <= PaymentLimit THEN "connect" ELSE "refused")
  /\ UNCHANGED <<req, own, tables, locks, shown, bounds>>

\* deposit calls the provider before it has a transaction.
Pay(p) ==
  /\ pc[p] = "pay"
  /\ IF req[p].amount <= PaymentLimit
     THEN charged' = charged \union {p} /\ Goto(p, "connect")
     ELSE charged' = charged /\ Goto(p, "refused")
  /\ UNCHANGED <<req, own, tables, locks, shown, bounds>>

\* createQueryRunner(), connect(), startTransaction().
Connect(p) ==
  /\ pc[p] = "connect"
  /\ FreeConnection
  /\ Goto(p, IF req[p].kind \in Presents THEN "find" ELSE "lock")
  /\ UNCHANGED <<req, own, tables, locks, charged, shown, bounds>>

-----------------------------------------------------------------------------
(* getOrCreateWallet: on its own connection and committed at once, even when *)
(* the caller has a transaction open.                                        *)

Find(p) ==
  LET u == Target(p) IN
  /\ pc[p] = "find"
  /\ FreeConnection
  /\ Goto(p, IF u \notin Users THEN "refused"
             ELSE IF u \notin wallets THEN "insert"
             ELSE IF req[p].kind = "balance" THEN "ok" ELSE "lock")
  /\ UNCHANGED <<req, own, tables, locks, charged, shown, bounds>>

\* The INSERT waits for the transaction that has written this userId.
InsertWait(p) ==
  /\ pc[p] = "insert"
  /\ FreeConnection
  /\ PendingByOther(Target(p), p)
  /\ Goto(p, "inserting")
  /\ UNCHANGED <<req, own, tables, locks, charged, shown, bounds>>

\* The INSERT ends: a row, or a violation of the UNIQUE userId, which a gift
\* answers by rolling its transaction back.
Insert(p) ==
  LET u == Target(p) IN
  /\ pc[p] = "inserting" \/ (pc[p] = "insert" /\ FreeConnection)
  /\ ~PendingByOther(u, p)
  /\ IF u \in wallets
     THEN /\ wallets' = wallets
          /\ Unlock(p)
          /\ Goto(p, "failed")
     ELSE /\ wallets' = wallets \union {u}
          /\ Goto(p, IF req[p].kind = "balance" THEN "ok" ELSE "lock")
          /\ UNCHANGED locks
  /\ UNCHANGED <<req, own, balance, credited, debited, committed, charged, shown, bounds>>

-----------------------------------------------------------------------------
(* Inside the transaction.                                                   *)

\* Where a handler goes when the row of u is locked and loaded.
AfterLock(p, u) ==
  IF req[p].kind \notin Moves \/ u # FirstWallet(req[p]) THEN "move"
  ELSE IF req[p].kind \in Presents THEN "check" ELSE "lock"

\* Mutated Lock: reads the row without FOR UPDATE.
LockUnlocked(p) ==
  LET u == Target(p) IN
  /\ pc[p] = "lock"
  /\ u \in wallets
  /\ holder' = [holder EXCEPT ![u] = p]
  /\ own' = [own EXCEPT ![p][u] = balance[u]]
  /\ Goto(p, AfterLock(p, u))
  /\ UNCHANGED <<req, tables, dirty, charged, shown, bounds>>

\* SELECT ... FOR UPDATE: the row is free, or there is no committed row.
Lock(p) ==
  LET u == Target(p) IN
  /\ pc[p] = "lock"
  /\ IF u \in wallets
     THEN /\ ~HeldByOther(u, p)
          /\ holder' = [holder EXCEPT ![u] = p]
          /\ own' = [own EXCEPT ![p][u] = balance[u]]
          /\ Goto(p, AfterLock(p, u))
     ELSE /\ Goto(p, "create")
          /\ UNCHANGED <<holder, own>>
  /\ UNCHANGED <<req, tables, dirty, charged, shown, bounds>>

\* save(new Wallet) in the transaction itself, and its reload FOR UPDATE.
Create(p) ==
  LET u == Target(p) IN
  /\ pc[p] = "create"
  /\ ~PendingByOther(u, p)
  /\ IF u \in wallets
     THEN /\ Unlock(p)
          /\ Goto(p, "failed")
          /\ UNCHANGED own
     ELSE /\ holder' = [holder EXCEPT ![u] = p]
          /\ dirty' = dirty \union {u}
          /\ own' = [own EXCEPT ![p][u] = 0]
          /\ Goto(p, AfterLock(p, u))
  /\ UNCHANGED <<req, tables, charged, shown, bounds>>

\* Mutated CheckSender: returns without a rollback.
CheckSenderKeeps(p) ==
  /\ pc[p] = "check"
  /\ Goto(p, IF own[p][req[p].from] < req[p].amount THEN "refused" ELSE "find")
  /\ UNCHANGED <<req, own, tables, locks, charged, shown, bounds>>

\* Mutated CheckSender: no balance check.
CheckSenderNever(p) ==
  /\ pc[p] = "check"
  /\ Goto(p, "find")
  /\ UNCHANGED <<req, own, tables, locks, charged, shown, bounds>>

\* A gift checks the sender's balance before it looks for the receiver's wallet.
CheckSender(p) ==
  /\ pc[p] = "check"
  /\ IF own[p][req[p].from] < req[p].amount
     THEN Unlock(p) /\ Goto(p, "refused")
     ELSE UNCHANGED locks /\ Goto(p, "find")
  /\ UNCHANGED <<req, own, tables, charged, shown, bounds>>

\* Mutated TransferShort: no release in finally.
TransferShortKeeps(p) ==
  /\ pc[p] = "move"
  /\ req[p].kind = "transfer"
  /\ own[p][req[p].from] < req[p].amount
  /\ Goto(p, "failed")
  /\ UNCHANGED <<req, own, tables, locks, charged, shown, bounds>>

\* transfer checks it with both wallets locked.  Its 400 never leaves: it
\* rolls back, throws, and the catch rolls back again, which throws a 500.
TransferShort(p) ==
  /\ pc[p] = "move"
  /\ req[p].kind = "transfer"
  /\ own[p][req[p].from] < req[p].amount
  /\ Unlock(p)
  /\ Goto(p, "failed")
  /\ UNCHANGED <<req, own, tables, charged, shown, bounds>>

\* adminTransfer reads w.user.id of wallets loaded without their user: a
\* TypeError, whatever the balances.
AdminTransferThrows(p) ==
  /\ pc[p] = "move"
  /\ req[p].kind = "adminTransfer"
  /\ Unlock(p)
  /\ Goto(p, "failed")
  /\ UNCHANGED <<req, own, tables, charged, shown, bounds>>

\* Compute both balances and save both rows, still uncommitted.
SaveMove(p) ==
  LET r == req[p]
      loaded == own[p] IN
  /\ pc[p] = "move"
  /\ r.kind \in Moves \ {"adminTransfer"}
  /\ r.kind = "transfer" => own[p][r.from] >= r.amount
  /\ own' = [own EXCEPT ![p] =
       [loaded EXCEPT ![r.from] = SubtractDecimals(loaded[r.from], r.amount),
                      ![r.to] = AddDecimals(loaded[r.to], Received(r))]]
  /\ dirty' = dirty \union {r.from, r.to}
  /\ Goto(p, "commit")
  /\ UNCHANGED <<req, tables, holder, charged, shown, bounds>>

SaveDeposit(p) ==
  LET r == req[p] IN
  /\ pc[p] = "move"
  /\ r.kind \in {"deposit", "adminDeposit"}
  /\ own' = [own EXCEPT ![p][r.to] = AddDecimals(@, r.amount)]
  /\ dirty' = dirty \union {r.to}
  /\ Goto(p, "commit")
  /\ UNCHANGED <<req, tables, holder, charged, shown, bounds>>

\* The Transaction row (and the Gift or SuperLike row) is saved, COMMIT
\* publishes every row the transaction wrote.
Publish(p) ==
  LET r == req[p] IN
  /\ wallets' = wallets \union {u \in Ids : holder[u] = p}
  /\ balance' = [u \in Ids |-> IF holder[u] = p THEN own[p][u] ELSE balance[u]]
  /\ credited' = [credited EXCEPT ![r.to] = @ + Recorded(r) - RecordedFee(r)]
  /\ debited' = IF r.kind \in Moves
                THEN [debited EXCEPT ![r.from] = @ + Recorded(r)]
                ELSE debited
  /\ committed' = committed \union {p}
  /\ Unlock(p)

Commit(p) ==
  /\ pc[p] = "commit"
  /\ Publish(p)
  /\ Goto(p, IF req[p].kind = "gift" THEN "chat"
             ELSE IF req[p].kind = "adminDeposit" THEN "ok" ELSE "notify")
  /\ UNCHANGED <<req, own, charged, shown, bounds>>

-----------------------------------------------------------------------------
(* After the commit.                                                         *)

\* The gift's chat message: errors are swallowed, but the queries need a
\* second connection.
Chat(p) ==
  /\ pc[p] = "chat"
  /\ FreeConnection
  /\ Goto(p, "notify")
  /\ UNCHANGED <<req, own, tables, locks, charged, shown, bounds>>

\* notifyBalanceUpdate pushes the balances this request computed.
Notify(p) ==
  /\ pc[p] = "notify"
  /\ shown' = [u \in Ids |-> IF u \in {req[p].from, req[p].to} THEN own[p][u]
                               ELSE shown[u]]
  /\ Goto(p, IF req[p].kind = "superLike" THEN "count" ELSE "ok")
  /\ UNCHANGED <<req, own, tables, locks, charged, bounds>>

\* getSuperLikesCount, for the notification.
CountSuperLikes(p) ==
  /\ pc[p] = "count"
  /\ FreeConnection
  /\ Goto(p, "ok")
  /\ UNCHANGED <<req, own, tables, locks, charged, shown, bounds>>

-----------------------------------------------------------------------------
(* What goes wrong.                                                          *)

\* The session p's transaction waits for, as Postgres sees it.  A request
\* suspended in getOrCreateWallet waits on another session: its transaction
\* is idle, and no cycle through it is visible to the database.
WaitsForRow(p) ==
  \/ pc[p] = "lock" /\ Target(p) \in wallets /\ HeldByOther(Target(p), p)
  \/ pc[p] = "create" /\ PendingByOther(Target(p), p)

InDeadlock(p) ==
  \E S \in SUBSET Requests :
    /\ p \in S
    /\ \A q \in S : WaitsForRow(q)
    /\ {holder[Target(q)] : q \in S} = S

\* A query throws: catch, rollback, 500.  getSuperLikesCount may throw too,
\* after the commit.
Throw(p) ==
  /\ InFlight(p) /\ pc[p] \notin {"pay", "chat", "notify"}
  /\ Unlock(p)
  /\ Goto(p, "failed")
  /\ UNCHANGED <<req, own, tables, charged, shown>>

\* deadlock_timeout: the database aborts a session of the cycle.
DeadlockVictim(p) ==
  /\ InDeadlock(p)
  /\ Throw(p)
  /\ UNCHANGED bounds

\* A lost connection, a statement error.
DbError(p) ==
  /\ dbErrors < MaxDbErrors
  /\ Throw(p)
  /\ dbErrors' = dbErrors + 1
  /\ UNCHANGED restarts

\* Mutated CommitUnanswered: runs the transaction again.
CommitRetried(p) ==
  /\ dbErrors < MaxDbErrors
  /\ pc[p] = "commit"
  /\ Publish(p)
  /\ Goto(p, "connect")
  /\ dbErrors' = dbErrors + 1
  /\ UNCHANGED <<req, own, charged, shown, restarts>>

\* The connection is lost after COMMIT took effect, before its answer.
CommitUnanswered(p) ==
  /\ dbErrors < MaxDbErrors
  /\ pc[p] = "commit"
  /\ Publish(p)
  /\ Goto(p, "failed")
  /\ dbErrors' = dbErrors + 1
  /\ UNCHANGED <<req, own, charged, shown, restarts>>

\* The server stops: every handler is gone, the database rolls back.
Restart ==
  /\ restarts < MaxRestarts
  /\ restarts' = restarts + 1
  /\ pc' = [p \in Requests |-> IF InFlight(p) THEN "lost" ELSE pc[p]]
  /\ holder' = [u \in Ids |-> NoRequest]
  /\ dirty' = {}
  /\ UNCHANGED <<req, own, tables, charged, shown, dbErrors>>

-----------------------------------------------------------------------------
Init ==
  /\ req \in [Requests -> Inputs]
  /\ pc = [p \in Requests |-> "new"]
  /\ own = [p \in Requests |-> [u \in Ids |-> 0]]
  /\ wallets \in StartWallets
  /\ balance = [u \in Ids |-> IF u \in wallets THEN Opening ELSE 0]
  /\ holder = [u \in Ids |-> NoRequest]
  /\ dirty = {}
  /\ credited = balance
  /\ debited = [u \in Ids |-> 0]
  /\ committed = {}
  /\ charged = {}
  /\ shown = balance
  /\ dbErrors = 0
  /\ restarts = 0

\* What the event loop and the database do for p unless something fails.
Step(p) ==
  \/ Lookup(p) \/ Pay(p) \/ Connect(p)
  \/ Find(p) \/ InsertWait(p) \/ Insert(p)
  \/ Lock(p) \/ Create(p) \/ CheckSender(p)
  \/ TransferShort(p) \/ AdminTransferThrows(p) \/ SaveMove(p) \/ SaveDeposit(p)
  \/ Commit(p) \/ Chat(p) \/ Notify(p) \/ CountSuperLikes(p)
  \/ DeadlockVictim(p)

\* Every request sent has been answered, and no more are sent.
AllAnswered ==
  /\ \A p \in Requests : ~InFlight(p)
  /\ UNCHANGED vars

Next ==
  \/ \E p \in Requests : Receive(p) \/ Step(p) \/ DbError(p) \/ CommitUnanswered(p)
  \/ Restart
  \/ AllAnswered

Spec == Init /\ [][Next]_vars

\* Clients need not send anything; once a request is in, nothing in the
\* server stops its next step from being scheduled.
FairSpec == Spec /\ \A p \in Requests : WF_vars(Step(p))

-----------------------------------------------------------------------------
(* Properties.                                                               *)

TypeOK ==
  /\ req \in [Requests -> Inputs]
  /\ pc \in [Requests -> PCs]
  /\ own \in [Requests -> [Ids -> Int]]
  /\ wallets \in SUBSET Users
  /\ balance \in [Ids -> Int]
  /\ holder \in [Ids -> Requests \union {NoRequest}]
  /\ dirty \in SUBSET Users
  /\ credited \in [Ids -> Int]
  /\ debited \in [Ids -> Int]
  /\ committed \in SUBSET Requests
  /\ charged \in SUBSET Requests
  /\ shown \in [Ids -> Int]
  /\ dbErrors \in 0..MaxDbErrors
  /\ restarts \in 0..MaxRestarts

\* The Transaction table explains every balance: what it paid into a wallet
\* minus what it took out is what the wallet holds (wallet.service.ts
\* 176-194).  A lost update, a write of a stale entity, a row saved without
\* its balances or the reverse, and an amount that rounds one way in the
\* wallet and another in the table all break it.
BalanceMatchesLedger ==
  \A u \in Ids : balance[u] = credited[u] - debited[u]

\* No interleaving of transfers, gifts and super likes overdraws a wallet:
\* the balance checked is the balance written (wallet.service.ts 168-183,
\* gift.service.ts 92-131).
NoOverdraft == \A u \in Ids : balance[u] >= 0

\* 200 means the money moved, and a 4xx means it did not; only a 5xx or a
\* lost answer leaves the client in doubt.
AnswersAreTruthful ==
  \A p \in Requests :
    /\ pc[p] = "ok" /\ req[p].kind # "balance" => p \in committed
    /\ pc[p] = "refused" => p \notin committed \union charged

\* A deposit reaches a wallet only if the provider was paid, and a client
\* told 200 has been charged (wallet.service.ts 246-257).
DepositsArePaid ==
  \A p \in committed : req[p].kind = "deposit" => p \in charged

\* No screen shows a balance that was rolled back: every balance pushed is
\* one its request committed (wallet.service.ts 196-211).
ScreensShowCommitted ==
  [][\A u \in Ids : shown'[u] # shown[u] =>
       \E p \in committed : u \in {req[p].from, req[p].to} /\ shown'[u] = own[p][u]]_vars

\* Whatever way a handler ends, it leaves no row locked and nothing
\* uncommitted: every early return, throw and catch gives its locks up.
NothingLeftLocked ==
  /\ \A u \in Ids : holder[u] # NoRequest => InTransaction(holder[u])
  /\ \A u \in dirty : holder[u] # NoRequest

\* Locking by user id: transfers among themselves never need the database to
\* break a deadlock (wallet.service.ts 99-110), whoever has no wallet yet.
NoDeadlock == \A p \in Requests : ~InDeadlock(p)

\* Every request the server accepted is answered.
EveryRequestAnswered == \A p \in Requests : InFlight(p) ~> pc[p] \in Answers

\* Suspended on something only another request can give: a connection or a row.
Blocked(p) ==
  \/ pc[p] \in {"lookup", "connect", "find", "insert", "chat", "count"} /\ ~FreeConnection
  \/ WaitsForRow(p)
  \/ pc[p] = "inserting" /\ PendingByOther(Target(p), p)

\* The handlers never all wait for each other where nobody breaks the wait.
NoHang ==
  \/ \A p \in Requests : ~InFlight(p)
  \/ \E p \in Requests : InFlight(p) /\ (~Blocked(p) \/ InDeadlock(p))

Ledger == INSTANCE TokenLedger WITH
  Accounts <- Ids,
  Clients <- Requests,
  Prices <- {a \in Amounts : a > 0} \union {SuperLikeCost},
  HalfPrice <- SuperLikeCost,
  settled <- committed

\* The wallets implement the ledger: however the handlers interleave and
\* fail, each request takes effect at most once, all at once, against the
\* balances of that moment.
ImplementsLedger == Ledger!Spec
=============================================================================
