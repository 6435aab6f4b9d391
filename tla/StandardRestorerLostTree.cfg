CONSTANTS
  root = root
  sub = sub
  fileA = fileA
  fileB = fileB
  fileC = fileC
  w1 = w1
  w2 = w2
  None = None
  Worker = {w1, w2}
  Dir = {root, sub}
  File = {fileA, fileB, fileC}
  Root = root
  Target = root
  Children <- Tree
  Kind <- Regular
  StIno <- LinkedIno
  FileId <- LinkedFile
  CanCancel = FALSE
  Preexisting = {"absent"}

SPECIFICATION Spec

INVARIANTS
  EveryFileRestored

CHECK_DEADLOCK FALSE
