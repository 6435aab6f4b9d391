------------------------- MODULE MCStandardRestorer -------------------------
(***************************************************************************)
(* Small backups for StandardRestorer.  The folder root holds the files    *)
(* fileA and fileB and the folder sub, which holds the file fileC.         *)
(***************************************************************************)
EXTENDS StandardRestorer

CONSTANTS root, sub, fileA, fileB, fileC, w1, w2

Tree == root :> <<fileA, sub, fileB>> @@ sub :> <<fileC>>
Regular == [x \in File |-> "regular"]
Mixed == fileA :> "special" @@ fileB :> "empty" @@ fileC :> "symlink"

\* fileA and fileC are one file with two names.
LinkedIno == root :> 1 @@ sub :> 2 @@ fileA :> 3 @@ fileB :> 4 @@ fileC :> 3
LinkedFile == fileA :> 1 @@ fileB :> 2 @@ fileC :> 1

\* Records made on Windows have no inodes.
NoIno == [p \in Path |-> 0]
AllDistinct == fileA :> 1 @@ fileB :> 2 @@ fileC :> 3
=============================================================================
