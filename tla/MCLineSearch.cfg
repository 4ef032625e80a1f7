SPECIFICATION ListingSpec
CONSTANTS
  Rows <- TangledRows
  Addrs = {1, 2, 3, 5, 8, 9, 11, 15, 20}
  Files <- SomeFiles
  UserLinenos <- SomeLinenos
  UserRanges <- SomeRanges
INVARIANTS
  SearchTypeOK
  FindsClosestRow
  ListsWindow
