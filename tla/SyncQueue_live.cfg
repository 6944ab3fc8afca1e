SPECIFICATION FairSpec
CONSTANTS
  NoTask = NoTask
  Catalog = {product}
  Stock = {stock}
  Scope <- MCScope
  Poison = {stock}
  BatchSize = 1
  MaxVersion = 2
  MaxDuplicates = 0
  MaxImports = 1
  MaxFaults = 1
PROPERTIES EventuallyCurrent NotificationServed
