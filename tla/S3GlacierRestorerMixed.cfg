CONSTANTS
  root = root
  sub = sub
  long = long
  other = other
  twin = twin
  link = link
  pipe = pipe
  hollow = hollow
  socket = socket
  blob1 = blob1
  blob2 = blob2
  blob3 = blob3
  blob4 = blob4
  pack1 = pack1
  pack2 = pack2
  object3 = object3
  None = None
  Dir = {root, sub}
  File = {link, pipe, hollow, socket, other}
  Root = root
  Target = root
  Children <- MixedTree
  Blob = {blob1, blob2, blob3, blob4}
  Object = {pack1, pack2}
  ObjectOf <- TwoPacks
  Data <- MixedData
  Attr <- MixedAttr
  Kind <- MixedKind
  Ino <- MixedIno
  Linked = {}
  PerRound = 2
  Minimum = 0
  CanCancel = FALSE
  LeavesPartial = TRUE
  Expires = TRUE

SPECIFICATION Spec

INVARIANTS
  ContentInOrder

CHECK_DEADLOCK FALSE
