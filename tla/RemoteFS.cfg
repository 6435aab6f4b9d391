CONSTANTS
  dir = dir
  subdir = subdir
  twin = twin
  file = file
  note = note
  None = None
  Process = {p1, p2}
  p1 = p1
  p2 = p2
  Top = top
  Dir = {top, dir, subdir, twin}
  File = {file, note}
  Parent <- Parents
  Alike <- Matches
  Calls <- Uses
  Locality = {TRUE, FALSE}
  Stored = {file, note}
  MaxTrouble = 1

SPECIFICATION Spec

INVARIANTS
  TypeOK
  ListingsAreTrue


  

CHECK_DEADLOCK FALSE
