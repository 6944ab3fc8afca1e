\* No handler of these kinds is a past reader: Spec is AllReadLatest here.
SPECIFICATION Spec
CONSTANTS
  Requests = {r1, r2}
  NoRequest = NoRequest
  Kinds = {"create", "save", "refresh", "cancel"}
  PastReaders = {"webhook"}
  MaxVersion = 2
  MaxEdits = 1
  MaxFaults = 1
SYMMETRY Slots
INVARIANT DetailsAreConfirmed
PROPERTIES NoCancelDuringEdit NoEditDuringCancel
