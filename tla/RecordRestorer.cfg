CONSTANTS
  root = root
  sub = sub
  bottom = bottom
  fileA = fileA
  fileB = fileB
  gone = gone
  missing = missing
  beneath = beneath
  r1 = r1
  r2 = r2
  r3 = r3
  r4 = r4
  None = None
  Record = {r1, r2, r3, r4}
  Folders <- MCFolders
  Complete = {r1, r2, r3}
  RootKind <- MCRootKind
  Dir = {root, sub, bottom}
  File = {fileA, fileB, gone}
  Nowhere = {missing, beneath}
  Root = root
  Parent <- MCParent
  Deleted = {gone}
  Blobs <- MCBlobs
  Has <- MCHas
  Immutable = {fileB, sub}
  ClearsSetId = {fileA}
  Asked = {root, sub, bottom, fileA, fileB, gone, missing, beneath}
  MaxTrouble = 2

SPECIFICATION FairSpec

INVARIANTS
  TypeOK
  NewestRecord
  SuccessIsComplete
  ErrorIsExplained

PROPERTIES
  AttributesStay
  Termination

CHECK_DEADLOCK FALSE
