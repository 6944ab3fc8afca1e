SPECIFICATION AllReadLatest
CONSTANTS
  Requests = {r1, r2}
  NoRequest = NoRequest
  Kinds = {"create", "refresh", "webhook", "patch"}
  PastReaders = {"create", "patch"}
  Prices = {1, 2}
  MaxPayments = 2
  MaxCrashes = 1
SYMMETRY Slots
INVARIANTS ChargedAtMostOnce OfferMatchesPrice
