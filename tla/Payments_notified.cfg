SPECIFICATION NotifiedSpec
CONSTANTS
  Requests = {r1, r2}
  NoRequest = NoRequest
  Kinds = {"create", "webhook", "patch"}
  PastReaders = {"create", "patch"}
  Prices = {1}
  MaxPayments = 2
  MaxCrashes = 0
PROPERTY PaidIsApplied

