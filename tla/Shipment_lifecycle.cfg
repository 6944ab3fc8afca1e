SPECIFICATION PollingSpec
CONSTANTS
  Requests = {r1, r2}
  NoRequest = NoRequest
  Kinds = {"create", "retry", "refresh", "deliver", "waybill", "document", "patch", "pay", "finish"}
  PastReaders = {"create", "refresh", "webhook"}
  MaxVersion = 1
  MaxEdits = 0
  MaxFaults = 1
INVARIANTS TypeOK OneOrder
PROPERTIES OnlyPatchTakesBack DeliveredIsFinished
