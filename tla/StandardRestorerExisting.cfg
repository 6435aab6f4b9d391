CONSTANTS
  root = root
  sub = sub
  fileA = fileA
  fileB = fileB
  fileC = fileC
  w1 = w1
  w2 = w2
  None = None
  Worker = {w1, w2}
  Dir = {root, sub}
  File = {fileA, fileB, fileC}
  Root = root
  Target = root
  Children <- Tree
  Kind <- Mixed
  StIno <- NoIno
  FileId <- AllDistinct
  CanCancel = FALSE
  Preexisting = {"absent", "older", "same", "newer"}

SPECIFICATION Spec

INVARIANTS
  LinksAreOneFile

CHECK_DEADLOCK FALSE
