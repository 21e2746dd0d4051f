\* Three transfers at once over three wallets, one of them still to be created.
SPECIFICATION FairSpec
CONSTANTS
  Users = {1, 2, 3}
  Strangers = {}
  Requests = {p, q, r}
  NoRequest = NoRequest
  Kinds = {"transfer"}
  Amounts = {4}
  SuperLikeCost = 4
  PaymentLimit = 4
  StartWallets <- OneMissing
  Opening = 4
  PoolSize = 2
  MaxDbErrors = 0
  MaxRestarts = 0
INVARIANT NoDeadlock
PROPERTY EveryRequestAnswered
