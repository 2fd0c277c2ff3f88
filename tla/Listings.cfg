CONSTANTS
  Refs = {1, 2, 3, 4, 5}
  Ingestible = {1, 2, 4, 5}
  PageSize = 2
  MaxItems = 3
  MaxChanges = 3
  OffsetRefs = {r1, r2, r3, r4, r5}
  OffsetPageSize = 3
  OffsetMaxItems = 4
  OffsetMaxChanges = 2
  WalkRefs = {1, 2, 3, 4, 5}
  WalkDirs = {"a", "b"}
  WalkDirOf <- TwoDirs
  WalkAllowed = {1, 2, 3, 4}
  WalkTooLarge = {4}
  WalkMaxItems = 2
  WalkMaxChanges = 2
  WalkMaxErrors = 1
SPECIFICATION MCSpec
CHECK_DEADLOCK FALSE
INVARIANTS
  ListingTypes
  MissesFew
  
PROPERTIES
  Authoritative
  ListingsEnd
