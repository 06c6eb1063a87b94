\* Every table of up to five rows, and walks with pages of one or two rows while
\* it grows.
SPECIFICATION Spec
CONSTANTS
  Ids = {1, 2, 3, 4, 5}
  Times = {1, 2}
  MaxPageSize = 2
  Null = Null
  SeedRows <- MCSeedRows
INVARIANTS
  TypeOK
  PagesDescend
  NothingSkipped
  PageInfoHolds
  ListsAgree
  BatchesAgree
CHECK_DEADLOCK FALSE
