CONSTANTS
  root = root
  sub = sub
  long = long
  other = other
  twin = twin
  blob1 = blob1
  blob2 = blob2
  blob3 = blob3
  blob4 = blob4
  archive1 = archive1
  archive2 = archive2
  pack1 = pack1
  pack2 = pack2
  None = None
  Dir = {root, sub}
  File = {long, other}
  Root = root
  Target = root
  Children <- Tree
  Blob = {blob1, blob2, blob3, blob4}
  Archive = {archive1, archive2, pack1}
  Pack = {pack1}
  ArchiveOf <- Where
  Data <- Contents
  Attr <- Attributes
  Symlink = {other}
  PerRound = 1
  AboveMinimum = TRUE
  CanCancel = FALSE
  Expires = FALSE
  MaxRead = 2
  MaxTrouble = 1

SPECIFICATION FairSpec

INVARIANTS
  TypeOK
  OneJobPerArchive
  NotificationKept
  WaitsForRequested
  SuccessIsSettled
  NothingLeftBehind

PROPERTIES
  Termination

CHECK_DEADLOCK FALSE
