SPECIFICATION Spec
CONSTANTS
  Requests = {r1, r2}
  NoRequest = NoRequest
  Kinds = {"create", "repay", "refresh", "webhook", "patch", "deliver"}
  PastReaders = {"create", "patch"}
  Prices = {1, 2}
  MaxPayments = 2
  MaxCrashes = 1
SYMMETRY Slots
INVARIANTS TypeOK PendingIsRegistered
PROPERTIES ConfirmedIsFinal AdvanceOnlyWhenPaid
