--------------------------- MODULE MCRecordRestorer ---------------------------
(***************************************************************************)
(* A small folder for RecordRestorer: root holds the files fileA and gone  *)
(* and the folder sub, which holds the file fileB and the folder bottom;   *)
(* gone is marked as deleted, and fileB and sub are immutable.  Of four    *)
(* records the newest is not complete, and the two oldest do not have the  *)
(* folder.                                                                 *)
(***************************************************************************)
EXTENDS RecordRestorer, TLC

CONSTANTS root, sub, bottom, fileA, fileB, gone, missing, beneath,
          r1, r2, r3, r4

MCFolders == <<<<r4, r3>>, <<>>, <<r2, r1>>>>
MCRootKind == r4 :> "tree" @@ r3 :> "tree" @@ r2 :> "file" @@ r1 :> "none"

\* missing is not in sub, and beneath would be below a file.
MCParent == sub :> root @@ fileA :> root @@ gone :> root @@ bottom :> sub
              @@ fileB :> sub @@ missing :> sub @@ beneath :> fileA
MCBlobs == fileA :> 2 @@ fileB :> 1 @@ gone :> 0
MCHas == root :> {"mtime"} @@ sub :> {"flags", "mtime"} @@ bottom :> {"mtime"}
           @@ fileA :> {"xattrs", "mode", "owner"} @@ fileB :> {"flags", "mtime"}
           @@ gone :> {}
=============================================================================
