SPECIFICATION Spec
CONSTANTS
  NoTask = NoTask
  Catalog = {product, variant}
  Stock = {stock}
  Scope <- MCScope
  Poison = {}
  BatchSize = 2
  MaxVersion = 2
  MaxDuplicates = 1
  MaxImports = 0
  MaxFaults = 1
SYMMETRY Alike
INVARIANTS TypeOK QuietIsCurrent NoOrphan
PROPERTY CatalogIsMirror
