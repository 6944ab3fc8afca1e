SPECIFICATION PollingSpec
CONSTANTS
  Requests = {r1, r2}
  NoRequest = NoRequest
  Kinds = {"create", "save", "refresh"}
  PastReaders = {"webhook"}
  MaxVersion = 2
  MaxEdits = 1
  MaxFaults = 1
PROPERTY EditIsReconciled
