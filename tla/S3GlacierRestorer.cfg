CONSTANTS
  root = root
  sub = sub
  long = long
  other = other
  twin = twin
  link = link
  pipe = pipe
  hollow = hollow
  socket = socket
  blob1 = blob1
  blob2 = blob2
  blob3 = blob3
  blob4 = blob4
  pack1 = pack1
  pack2 = pack2
  object3 = object3
  None = None
  Dir = {root, sub}
  File = {long, other, twin}
  Root = root
  Target = root
  Children <- Tree
  Blob = {blob1, blob2, blob3, blob4}
  Object = {pack1, pack2, object3}
  ObjectOf <- Where
  Data <- LinkedData
  Attr <- LinkedAttr
  Kind <- LinkedKind
  Ino <- LinkedIno
  Linked = {long, twin}
  PerRound = 1
  Minimum = 0
  CanCancel = TRUE
  LeavesPartial = FALSE
  Expires = FALSE

SPECIFICATION FairSpec

INVARIANTS
  TypeOK
  ContentInOrder
  SuccessIsSettled
  WaitsForRequested
  OneFileOpen
  TransferredOnce

PROPERTIES
  Termination

CHECK_DEADLOCK FALSE
