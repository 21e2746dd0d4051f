\* Every endpoint, two requests, a database error and a restart.
SPECIFICATION Spec
CONSTANTS
  Users = {1, 2}
  Strangers = {9}
  Requests = {p, q}
  NoRequest = NoRequest
  Kinds = {"transfer", "adminTransfer", "gift", "superLike", "deposit", "adminDeposit", "balance"}
  Amounts <- MCAmounts
  SuperLikeCost = 4
  PaymentLimit = 2
  StartWallets <- AnyWallets
  Opening = 4
  PoolSize = 3
  MaxDbErrors = 1
  MaxRestarts = 1
SYMMETRY Alike
INVARIANTS BalanceMatchesLedger NoOverdraft AnswersAreTruthful NothingLeftLocked
PROPERTY ImplementsLedger
\* Requests are finitely many, and gifts can hang (see wallet_hang).
CHECK_DEADLOCK FALSE
