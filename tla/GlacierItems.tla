---------------------------- MODULE GlacierItems ----------------------------
(***************************************************************************)
(* The items of a restore from Glacier, which S3GlacierRestorer and        *)
(* GlacierRestorer share: GlacierRequestItem (what is requested) and       *)
(* RestoreItem (what is restored, a file blob by blob).                    *)
(***************************************************************************)
EXTENDS Backup

CONSTANTS
  Blob,  \* the blobs of the backup
  Data,  \* Data[f]: the dataBlobKeys of f
  Attr   \* Attr[p]: the blob of the attributes and ACL of p, or None

ASSUME BlobAssumption ==
  /\ None \notin Blob
  /\ Data \in [File -> Seq(Blob)]
  /\ Attr \in [Path -> Blob \cup {None}]

\* The paths that are restored.
Restored == IF Target = Root THEN Path ELSE {Target}

AttrBlobs(p) == {Attr[p]} \ {None}
InData(f) == {Data[f][i] : i \in DOMAIN Data[f]}
BlobsOf(p) == AttrBlobs(p) \cup (IF p \in File THEN InData(p) ELSE {})

-----------------------------------------------------------------------------
\* The index of an item counts the data blobs done before it.
DataItem(f, i) == [action |-> "data", path |-> f, index |-> i]
RestoreItem == Item \cup [action : {"data"}, path : File, index : Nat]

\* The paths an item stands for: the item of a tree stands for everything below
\* it, the one that applies its attributes for the tree itself.
Below(d) == {p \in Path : d \in Above[p]}
Within(p) == {p} \cup Below(p)
Covers(i) == IF i.action = "tree" THEN Within(i.path) ELSE {i.path}

\* A directory is requested in two steps: 0 loads its tree, 1 requests its
\* attributes.
RequestItem(p, i) == [path |-> p, index |-> i]
FirstRequestItem == RequestItem(Target, IF Target = Root THEN 1 ELSE 0)

BlobsToRequest(item) ==
  LET p == item.path
      i == item.index IN
  IF p \in Dir
    THEN IF i = 1 THEN AttrBlobs(p) ELSE {}
    ELSE (IF i = 0 THEN AttrBlobs(p) ELSE {})
           \cup {Data[p][k] : k \in DOMAIN Data[p] \cap {i + 1}}

\* MUTANT: the last blob of a file is never requested.
NextRequestItemsButLast(item) ==
  LET p == item.path
      i == item.index IN
  CASE p \in Dir /\ i = 0 -> <<RequestItem(p, 1)>>
    [] p \in Dir /\ i = 1 -> [k \in 1..Len(Children[p]) |-> RequestItem(Children[p][k], 0)]
    [] p \in File /\ Len(Data[p]) > i + 2 -> <<RequestItem(p, i + 1)>>
    [] OTHER -> <<>>

NextRequestItems(item) ==
  LET p == item.path
      i == item.index IN
  CASE p \in Dir /\ i = 0 -> <<RequestItem(p, 1)>>
    [] p \in Dir /\ i = 1 -> [k \in 1..Len(Children[p]) |-> RequestItem(Children[p][k], 0)]
    [] p \in File /\ Len(Data[p]) > i + 1 -> <<RequestItem(p, i + 1)>>
    [] OTHER -> <<>>
=============================================================================
