-------------------------- MODULE MCGlacierRestorer --------------------------
(***************************************************************************)
(* Small backups for GlacierRestorer.  The folder root holds the file      *)
(* long, which is in two archives, and the folder sub, which holds the     *)
(* file or symbolic link other, whose archive is one of these, and has     *)
(* attributes in a pack.                                                   *)
(***************************************************************************)
EXTENDS GlacierRestorer

CONSTANTS root, sub, long, other, twin,
          blob1, blob2, blob3, blob4, archive1, archive2, pack1, pack2

Tree == root :> <<long, sub>> @@ sub :> <<other>>

Where == blob1 :> pack1 @@ blob2 :> archive1 @@ blob3 :> archive2 @@ blob4 :> pack1
Contents == long :> <<blob2, blob3>> @@ other :> <<blob2>>
Attributes == root :> None @@ sub :> blob4 @@ long :> None @@ other :> None

\* One folder: only the attributes of its empty file are in the second pack, and
\* no index has the second blob of other.
FlatTree == root :> <<long, other, twin>>
LostWhere == blob1 :> archive1 @@ blob2 :> None @@ blob3 :> pack1 @@ blob4 :> pack2
FlatContents == long :> <<blob1, blob3>> @@ other :> <<blob1, blob2>> @@ twin :> <<>>
FlatAttributes == root :> blob1 @@ long :> None @@ other :> None @@ twin :> blob4
=============================================================================
