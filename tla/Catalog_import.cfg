SPECIFICATION Spec
CONSTANTS
  Products = {1, 2}
  Variants = {1, 2, 3}
  Owner <- OwnerOf
  Codes = {1, 2, 3, 4}
  Categories = {c1, c2}
  Looks <- SomeLooks
  Changes = {"code", "archive", "delete", "create", "look", "category"}
  MaxChanges = 3
  Facets = {"cuts", "color"}
  Narrowing = {"cuts"}
  Unset = Unset
  Limits = {1, 2}
INVARIANTS QuietIsMirror ArchivedIsNotSold RowsAreApart FacetsAreReachable PagesPartition
PROPERTIES ImportMirrors
CHECK_DEADLOCK FALSE
