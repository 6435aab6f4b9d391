CONSTANTS
  root = root
  sub = sub
  long = long
  other = other
  twin = twin
  blob1 = blob1
  blob2 = blob2
  blob3 = blob3
  blob4 = blob4
  archive1 = archive1
  archive2 = archive2
  pack1 = pack1
  pack2 = pack2
  None = None
  Dir = {root}
  File = {long, other, twin}
  Root = root
  Target = root
  Children <- FlatTree
  Blob = {blob1, blob2, blob3, blob4}
  Archive = {archive1, pack1, pack2}
  Pack = {pack1, pack2}
  ArchiveOf <- LostWhere
  Data <- FlatContents
  Attr <- FlatAttributes
  Symlink = {}
  PerRound = 2
  AboveMinimum = TRUE
  CanCancel = TRUE
  Expires = TRUE
  MaxRead = 2
  MaxTrouble = 0

SPECIFICATION FairSpec

INVARIANTS
  PackedIsCached
  SuccessIsSettled


CHECK_DEADLOCK FALSE
