SPECIFICATION Spec
CONSTANTS
  Products = {1, 2}
  Names <- NamesOf
  FirstPrices <- TwoPrices
  Prices = {2, 3, 4}
  Unit = 2
  Contacts = {1, 2}
  MaxQuantity = 2
  ShipLimit = 1
  MaxPayments = 2
  MaxChanges = 2
INVARIANTS OfferIsForOrder DeclaredIsPaid PaidIsDeclarable
CHECK_DEADLOCK FALSE
