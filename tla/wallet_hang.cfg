\* A transfer and a gift between the same two users.
SPECIFICATION Spec
CONSTANTS
  Users = {1, 2}
  Strangers = {}
  Requests = {p, q}
  NoRequest = NoRequest
  Kinds = {"transfer", "gift"}
  Amounts = {2}
  SuperLikeCost = 4
  PaymentLimit = 2
  StartWallets <- AnyWallets
  Opening = 4
  PoolSize = 4
  MaxDbErrors = 0
  MaxRestarts = 0
INVARIANT NoHang

CHECK_DEADLOCK FALSE
