------------------------------- MODULE Backup -------------------------------
(***************************************************************************)
(* What is restored: the trees and nodes of one backup record of a folder. *)
(***************************************************************************)
EXTENDS Integers, SequencesExt, Tree

CONSTANTS
  Dir, File,   \* the paths of the backup: its trees and its other nodes
  Root,        \* the tree of the folder
  Children,    \* Children[d]: the paths in d, in the order of childNodeNames
  Target,      \* what is restored: Root, or one file (paramSet.nodeName)
  None

Path == Dir \cup File
InSeq(d) == {Children[d][i] : i \in DOMAIN Children[d]}

\* A folder is a tree: no path is in two places.
ASSUME BackupAssumption ==
  /\ Dir \cap File = {}
  /\ Root \in Dir
  /\ Target \in {Root} \cup File
  /\ None \notin Path
  /\ Children \in [Dir -> Seq(Path \ {Root})]
  /\ \A d \in Dir : \A i, j \in 1..Len(Children[d]) :
       Children[d][i] = Children[d][j] => i = j
  /\ \A d, e \in Dir : d # e => InSeq(d) \cap InSeq(e) = {}

\* Going down from its root one comes to every path of the folder.
ASSUME ReachAssumption ==
  \A seen \in SUBSET Path :
    Root \in seen /\ (\A d \in seen \cap Dir : InSeq(d) \subseteq seen) => seen = Path

ParentOf(p) == CHOOSE d \in Dir : p \in InSeq(d)
Parent == [p \in Path \ {Root} |-> ParentOf(p)]
Above == [p \in Path |-> Ancestors(Parent, p)]

(***************************************************************************)
(* The items of work of a restore: an action on a path.                    *)
(***************************************************************************)
TreeItem(d) == [action |-> "tree", path |-> d]
ApplyItem(d) == [action |-> "apply", path |-> d]
NodeItem(f) == [action |-> "node", path |-> f]
ItemFor(p) == IF p \in Dir THEN TreeItem(p) ELSE NodeItem(p)
Item == [action : {"tree", "apply"}, path : Dir]
          \cup [action : {"node"}, path : File]

FirstItem == ItemFor(Target)

\* MUTANT: a tree's own attributes are applied before its children are made.
NextItemsApplyFirst(d) ==
  <<ApplyItem(d)>> \o [i \in 1..Len(Children[d]) |-> ItemFor(Children[d][i])]

\* nextItemsForTree: the children in order, then the item that applies the
\* tree's own attributes.
NextItems(d) ==
  Append([i \in 1..Len(Children[d]) |-> ItemFor(Children[d][i])], ApplyItem(d))
=============================================================================
