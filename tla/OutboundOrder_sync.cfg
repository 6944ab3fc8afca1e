SPECIFICATION TrackedSpec
CONSTANTS
  Requests = {r1, r2}
  NoRequest = NoRequest
  Kinds = {"create", "edit", "sync", "poll", "deliver", "finish"}
  Details = {1, 2}
  MaxFaults = 2
  MaxOps = 1
INVARIANTS OneOrder PaymentHasOrder
PROPERTIES EditReachesMoySklad PaidReachesMoySklad
CHECK_DEADLOCK FALSE
