----------------------- MODULE StandardRestorer_proofs -----------------------
(***************************************************************************)
(* Proofs about StandardRestorer, for every backup and every set of        *)
(* workers: the work that is shared out, that no item is taken twice, that *)
(* the abstract pool is implemented, and, from "What is on disk" on, what  *)
(* is left on disk: the paths offered for hard links, the links made, and  *)
(* what a success promises.                                                *)
(***************************************************************************)
EXTENDS StandardRestorer, SequenceTheorems, FiniteSetTheorems, TLAPS

(***************************************************************************)
(* Sequences without repetitions.                                          *)
(***************************************************************************)

\* What is left of a stack after its last element was popped.
LEMMA FrontOfInjective ==
  ASSUME NEW S, NEW s \in Seq(S), s # <<>>, IsInjective(s)
  PROVE  /\ Front(s) \in Seq(S)
         /\ IsInjective(Front(s))
         /\ Last(s) \in S
         /\ Last(s) \in Range(s)
         /\ Range(Front(s)) = Range(s) \ {Last(s)}
<1>1. /\ Len(s) \in Nat \ {0}
      /\ DOMAIN s = 1..Len(s)
      /\ \A k \in 1..Len(s) : s[k] \in S
  BY EmptySeq, LenProperties, ElementOfSeq
<1>2. /\ Front(s) \in Seq(S)
      /\ Len(Front(s)) = Len(s) - 1
      /\ \A k \in 1..(Len(s) - 1) : Front(s)[k] = s[k]
  BY <1>1, SubSeqProperties DEF Front
<1>3. DOMAIN Front(s) = 1..(Len(s) - 1)
  BY <1>1, <1>2, LenProperties
<1>4. IsInjective(Front(s))
  BY <1>1, <1>2, <1>3 DEF IsInjective
<1>5. Last(s) \in S /\ Last(s) \in Range(s)
  BY <1>1 DEF Last, Range
<1>6. Range(Front(s)) = Range(s) \ {Last(s)}
  BY <1>1, <1>2, <1>3 DEF Last, Range, IsInjective
<1>. QED  BY <1>2, <1>4, <1>5, <1>6

\* Pushing new elements on a stack.
LEMMA ConcatOfInjective ==
  ASSUME NEW S, NEW s \in Seq(S), NEW t \in Seq(S),
         IsInjective(s), IsInjective(t), Range(s) \cap Range(t) = {}
  PROVE  /\ s \o t \in Seq(S)
         /\ IsInjective(s \o t)
         /\ Range(s \o t) = Range(s) \cup Range(t)
<1>1. /\ s \o t \in Seq(S)
      /\ Len(s) \in Nat /\ Len(t) \in Nat
      /\ Len(s \o t) = Len(s) + Len(t)
      /\ DOMAIN s = 1..Len(s) /\ DOMAIN t = 1..Len(t)
      /\ DOMAIN (s \o t) = 1..(Len(s) + Len(t))
      /\ \A k \in 1..(Len(s) + Len(t)) :
           (s \o t)[k] = IF k <= Len(s) THEN s[k] ELSE t[k - Len(s)]
  BY ConcatProperties, LenProperties
<1>2. ASSUME NEW a \in DOMAIN (s \o t), NEW b \in DOMAIN (s \o t),
             (s \o t)[a] = (s \o t)[b]
      PROVE  a = b
  <2>1. CASE a <= Len(s) /\ b <= Len(s)
    BY <1>1, <1>2, <2>1 DEF IsInjective
  <2>2. CASE ~(a <= Len(s)) /\ ~(b <= Len(s))
    <3>1. t[a - Len(s)] = t[b - Len(s)]
      BY <1>1, <1>2, <2>2
    <3>2. a - Len(s) \in DOMAIN t /\ b - Len(s) \in DOMAIN t
      BY <1>1, <2>2
    <3>. QED  BY <1>1, <3>1, <3>2 DEF IsInjective
  <2>3. CASE a <= Len(s) /\ ~(b <= Len(s))
    <3>1. s[a] \in Range(s) /\ t[b - Len(s)] \in Range(t)
      BY <1>1, <2>3 DEF Range
    <3>. QED  BY <1>1, <1>2, <2>3, <3>1
  <2>4. CASE ~(a <= Len(s)) /\ b <= Len(s)
    <3>1. s[b] \in Range(s) /\ t[a - Len(s)] \in Range(t)
      BY <1>1, <2>4 DEF Range
    <3>. QED  BY <1>1, <1>2, <2>4, <3>1
  <2>. QED  BY <2>1, <2>2, <2>3, <2>4
<1>. QED  BY <1>1, <1>2, RangeConcatenation DEF IsInjective

(***************************************************************************)
(* The items below a tree.                                                 *)
(***************************************************************************)

LEMMA ItemTypes ==
  /\ FirstItem \in Item
  /\ \A d \in Dir : TreeItem(d) \in Item /\ ApplyItem(d) \in Item
  /\ \A p \in Path : ItemFor(p) \in Item /\ ItemFor(p).path = p
  /\ \A i \in Item : i.path \in Path /\ (i.action = "tree" => i.path \in Dir)
  /\ \A i \in Item : i.action = "tree" => i = TreeItem(i.path)
  /\ \A d \in Dir, p \in Path : ApplyItem(d) # ItemFor(p)
<1>1. Target \in Path
  BY BackupAssumption DEF Path
<1>. QED
  BY <1>1, BackupAssumption
     DEF FirstItem, ItemFor, TreeItem, ApplyItem, NodeItem, Item, Path

\* nextItemsForTree lists every child once, and the tree's own attributes.
LEMMA NextItemsOf ==
  ASSUME NEW d \in Dir
  PROVE  /\ NextItems(d) \in Seq(Item)
         /\ IsInjective(NextItems(d))
         /\ Range(NextItems(d)) = {ItemFor(p) : p \in InSeq(d)} \cup {ApplyItem(d)}
         /\ InSeq(d) \subseteq Path \ {Root}
<1>. DEFINE kids == [k \in 1..Len(Children[d]) |-> ItemFor(Children[d][k])]
<1>1. /\ Len(Children[d]) \in Nat
      /\ DOMAIN Children[d] = 1..Len(Children[d])
      /\ \A k \in 1..Len(Children[d]) : Children[d][k] \in Path \ {Root}
  <2>1. Children[d] \in Seq(Path \ {Root})
    BY BackupAssumption
  <2>. QED  BY <2>1, LenProperties, ElementOfSeq
<1>2. InSeq(d) \subseteq Path \ {Root}
  BY <1>1 DEF InSeq
<1>3. \A k \in 1..Len(Children[d]) : ItemFor(Children[d][k]) \in Item
  BY <1>1, ItemTypes
<1>4. /\ kids \in Seq(Item)
      /\ Len(kids) = Len(Children[d])
      /\ DOMAIN kids = 1..Len(Children[d])
  <2>1. kids \in [1..Len(Children[d]) -> Item]
    BY <1>3
  <2>. QED  BY <1>1, <2>1, SeqDef, LenProperties
<1>5. IsInjective(kids)
  <2>. SUFFICES ASSUME NEW a \in 1..Len(Children[d]), NEW b \in 1..Len(Children[d]),
                       kids[a] = kids[b]
                PROVE  a = b
    BY <1>4 DEF IsInjective
  <2>1. Children[d][a] = Children[d][b]
    BY <1>1, ItemTypes
  <2>. QED  BY <2>1, BackupAssumption
<1>6. Range(kids) = {ItemFor(p) : p \in InSeq(d)}
  BY <1>1, <1>4 DEF Range, InSeq
<1>7. ApplyItem(d) \in Item /\ ApplyItem(d) \notin Range(kids)
  BY <1>2, <1>6, ItemTypes
<1>8. /\ <<ApplyItem(d)>> \in Seq(Item)
      /\ IsInjective(<<ApplyItem(d)>>)
      /\ Range(<<ApplyItem(d)>>) = {ApplyItem(d)}
  BY <1>7 DEF IsInjective, Range
<1>9. NextItems(d) = kids \o <<ApplyItem(d)>>
  BY <1>4, <1>7, AppendIsConcat DEF NextItems
<1>10. Range(kids) \cap Range(<<ApplyItem(d)>>) = {}
  BY <1>7, <1>8
<1>. HIDE DEF kids
<1>11. /\ kids \o <<ApplyItem(d)>> \in Seq(Item)
       /\ IsInjective(kids \o <<ApplyItem(d)>>)
       /\ Range(kids \o <<ApplyItem(d)>>) = Range(kids) \cup Range(<<ApplyItem(d)>>)
  BY <1>4, <1>5, <1>8, <1>10, ConcatOfInjective
<1>. QED  BY <1>2, <1>6, <1>8, <1>9, <1>11

\* Every path is in one directory only, and the root of the folder in none.
LEMMA NextItemsApart ==
  /\ \A d, e \in Dir : Range(NextItems(d)) \cap Range(NextItems(e)) # {} => d = e
  /\ \A d \in Dir : TreeItem(Root) \notin Range(NextItems(d))
<1>1. ASSUME NEW d \in Dir, NEW e \in Dir, NEW i,
             i \in Range(NextItems(d)), i \in Range(NextItems(e))
      PROVE  d = e
  <2>1. CASE i = ApplyItem(d)
    <3>1. i \notin {ItemFor(p) : p \in InSeq(e)}
      BY <2>1, NextItemsOf, ItemTypes
    <3>2. ApplyItem(d) = ApplyItem(e)
      BY <1>1, <2>1, <3>1, NextItemsOf
    <3>. QED  BY <3>2 DEF ApplyItem
  <2>2. CASE i # ApplyItem(d)
    <3>1. PICK p \in InSeq(d) : i = ItemFor(p)
      BY <1>1, <2>2, NextItemsOf
    <3>2. i # ApplyItem(e)
      BY <3>1, NextItemsOf, ItemTypes
    <3>3. PICK q \in InSeq(e) : i = ItemFor(q)
      BY <1>1, <3>2, NextItemsOf
    <3>4. p = q
      BY <3>1, <3>3, NextItemsOf, ItemTypes
    <3>. QED  BY <3>1, <3>3, <3>4, BackupAssumption
  <2>. QED  BY <2>1, <2>2
<1>2. ASSUME NEW d \in Dir
      PROVE  TreeItem(Root) \notin Range(NextItems(d))
  <2>1. TreeItem(Root) = ItemFor(Root) /\ Root \in Path
    BY BackupAssumption DEF ItemFor, Path
  <2>. QED  BY <2>1, NextItemsOf, ItemTypes
<1>. QED  BY <1>1, <1>2

(***************************************************************************)
(* The inductive invariant.                                                *)
(***************************************************************************)

LEMMA InitWorkInv == Init => WorkInv
<1>. SUFFICES ASSUME Init PROVE WorkInv
  OBVIOUS
<1>1. TypeOK
  <2>1. disk \in [File -> {"absent", "older", "same", "newer", "partial", "whole"}]
    BY RecordAssumption DEF Init
  <2>2. standardRestoreItems \in Seq(Item)
    BY EmptySeq DEF Init
  <2>3. dirs \subseteq Dir
    BY DEF Init
  <2>4. hardlinkPathsByInode \in [Inos -> Path \cup {None}]
    BY DEF Init
  <2>. QED  BY <2>1, <2>2, <2>3, <2>4 DEF Init, TypeOK
<1>2. Known = {}
  BY DEF Init, Known, Range
<1>3. \A w \in Worker : ~Busy(w)
  BY DEF Init, Busy
<1>4. UniqueWork
  BY <1>2, <1>3 DEF Init, UniqueWork, Known, IsInjective
<1>5. LockGuardsExpansion
  BY WorkerAssumption DEF Init, LockGuardsExpansion
<1>6. Uncovered
  BY <1>2 DEF Uncovered
<1>. QED
  BY <1>1, <1>2, <1>3, <1>4, <1>5, <1>6
     DEF WorkInv, NoStrandedWork, ItemFits, Unstarted, Init

\* Steps that leave the stack, the claims and the workers' places of work alone.
LEMMA WorkUnchanged ==
  ASSUME WorkInv, TypeOK',
         UNCHANGED <<standardRestoreItems, lock, claimed, pc, item>>,
         main' = main \/ {main, main'} \cap {"waiting", "succeeded"} = {}
                      \/ {main, main'} \subseteq {"waiting", "succeeded"},
         cancelRequested => cancelRequested' \/ \A w \in Worker : pc[w] = "unborn"
  PROVE  WorkInv'
<1>1. UniqueWork'
  BY DEF WorkInv, UniqueWork, Busy
<1>2. NoStrandedWork'
  BY DEF WorkInv, NoStrandedWork
<1>3. LockGuardsExpansion' /\ ItemFits'
  BY DEF WorkInv, LockGuardsExpansion, ItemFits, Busy
<1>4. Known' = Known /\ Expanding' = Expanding
  BY DEF Known, Expanding
<1>5. Uncovered' /\ Unstarted'
  BY <1>4 DEF WorkInv, Uncovered, Unstarted
<1>. QED  BY <1>1, <1>2, <1>3, <1>5 DEF WorkInv

\* Steps of one worker between two calls of nextItem.
LEMMA WorkerMoves ==
  ASSUME WorkInv, TypeOK', NEW w \in Worker, NEW step,
         UNCHANGED <<main, standardRestoreItems, lock, claimed, item>>,
         Busy(w), pc[w] # "nextItems",
         step \notin {"unborn", "nextItems", "finishing", "exited"},
         pc' = [pc EXCEPT ![w] = step],
         cancelRequested => cancelRequested'
  PROVE  WorkInv'
<1>1. /\ pc'[w] = step
      /\ \A v \in Worker \ {w} : pc'[v] = pc[v]
      /\ \A v \in Worker : pc'[v] = "nextItems" <=> pc[v] = "nextItems"
      /\ \A v \in Worker : Busy(v)' => Busy(v)
  BY DEF WorkInv, TypeOK, Busy
<1>2. UniqueWork'
  BY <1>1 DEF WorkInv, UniqueWork
<1>3. NoStrandedWork'
  BY <1>1 DEF WorkInv, NoStrandedWork
<1>4. LockGuardsExpansion' /\ ItemFits'
  BY <1>1 DEF WorkInv, LockGuardsExpansion, ItemFits
<1>5. Known' = Known /\ Expanding' = Expanding
  BY <1>1 DEF Known, Expanding
<1>6. Uncovered'
  BY <1>5 DEF WorkInv, Uncovered
<1>7. Unstarted'
  <2>1. main \in {"waiting", "succeeded"}
    BY DEF WorkInv, Unstarted, Busy
  <2>. QED  BY <1>1, <2>1 DEF WorkInv, Unstarted
<1>. QED  BY <1>2, <1>3, <1>4, <1>6, <1>7 DEF WorkInv

\* A busy worker's item is one of the backup's.
LEMMA BusyItem ==
  ASSUME WorkInv, NEW w \in Worker, Busy(w)
  PROVE  /\ item[w] \in Item
         /\ item[w].path \in Path
         /\ pc[w] = "nextItems" => /\ item[w].path \in Dir
                                   /\ item[w] = TreeItem(item[w].path)
BY ItemTypes DEF WorkInv, ItemFits, TypeOK

\* Types, for the steps of the worker threads that restore an item.
LEMMA RestoreTypes ==
  ASSUME WorkInv, NEW w \in Worker,
         RestoreNode(w) \/ ApplyTree(w) \/ ReportError(w)
  PROVE  TypeOK'
<1>. USE DEF WorkInv, TypeOK, Goto, work, files, delegate
<1>1. CASE KeepNewer(w)
  BY <1>1 DEF KeepNewer
<1>2. CASE KeepSame(w)
  BY <1>2 DEF KeepSame
<1>3. CASE HardlinkedPathForInode(w)
  <2>1. item[w].path \in Path
    BY <1>3, BusyItem DEF Busy, HardlinkedPathForInode
  <2>2. hardlinkPathsByInode[StIno[item[w].path]] \in Path \cup {None}
    BY <2>1 DEF Inos
  <2>. QED  BY <1>3, <2>2 DEF HardlinkedPathForInode
<1>4. CASE Link(w)
  <2>1. existingPath[w] \in File
    BY <1>4 DEF Link
  <2>2. disk' \in [File -> {"absent", "older", "same", "newer", "partial", "whole"}]
    BY <1>4, <2>1 DEF Link
  <2>3. holds' \in [File -> File]
    BY <1>4, <2>1 DEF Link
  <2>4. attrs' \in [Dir -> {"unset", "restored", "skipped", "stale"}]
    BY <1>4 DEF Link, TouchParentOf
  <2>. QED  BY <1>4, <2>2, <2>3, <2>4 DEF Link
<1>5. CASE OpenFile(w)
  <2>1. attrs' \in [Dir -> {"unset", "restored", "skipped", "stale"}]
    BY <1>5 DEF OpenFile, TouchParentOf
  <2>2. disk' \in [File -> {"absent", "older", "same", "newer", "partial", "whole"}]
    BY <1>5 DEF OpenFile
  <2>. QED  BY <1>5, <2>1, <2>2 DEF OpenFile
<1>6. CASE WriteFile(w)
  BY <1>6, BusyItem DEF Busy, WriteFile
<1>7. CASE CreateWhole(w)
  BY <1>7, BusyItem DEF Busy, CreateWhole, TouchParentOf
<1>8. CASE SkipSpecial(w)
  BY <1>8 DEF SkipSpecial
<1>9. CASE FailToCreate(w)
  BY <1>9 DEF FailToCreate
<1>10. CASE FailToWrite(w)
  BY <1>10 DEF FailToWrite, TouchParentOf
<1>11. CASE ApplyNode(w)
  BY <1>11 DEF ApplyNode
<1>12. CASE SetHardlinkedPath(w)
  BY <1>12, BusyItem DEF Busy, SetHardlinkedPath
<1>13. CASE ApplyTree(w)
  BY <1>13 DEF ApplyTree
<1>14. CASE ReportError(w)
  BY <1>14, BusyItem DEF Busy, ReportError
<1>. QED
  BY <1>1, <1>2, <1>3, <1>4, <1>5, <1>6, <1>7, <1>8, <1>9, <1>10, <1>11, <1>12, <1>13, <1>14
     DEF RestoreNode

\* nextItem pops under the lock what UniqueWork says is there once.
LEMMA ClaimItemWork ==
  ASSUME WorkInv, NEW w \in Worker, ClaimItem(w)
  PROVE  WorkInv'
<1>. DEFINE next == Last(standardRestoreItems)
            step == IF next.action = "tree" THEN "nextItems" ELSE next.action
<1>1. /\ standardRestoreItems' \in Seq(Item)
      /\ IsInjective(standardRestoreItems')
      /\ next \in Item
      /\ next \in Range(standardRestoreItems)
      /\ Range(standardRestoreItems') = Range(standardRestoreItems) \ {next}
  BY FrontOfInjective DEF WorkInv, TypeOK, UniqueWork, ClaimItem
<1>2. /\ next \notin claimed
      /\ claimed' = claimed \cup {next}
      /\ Known' = Known
  BY <1>1 DEF WorkInv, UniqueWork, ClaimItem, Known
<1>3. /\ next.action \in {"tree", "apply", "node"}
      /\ step \in {"nextItems", "apply", "node"}
      /\ step = "nextItems" <=> next.action = "tree"
  BY <1>1 DEF Item
<1>4. /\ pc[w] = "nextItem" /\ lock = None /\ ~cancelRequested
      /\ UNCHANGED <<main, cancelRequested>>
      /\ pc' = [pc EXCEPT ![w] = step]
      /\ item' = [item EXCEPT ![w] = next]
      /\ lock' = IF next.action = "tree" THEN w ELSE None
  BY DEF ClaimItem, Goto, delegate
<1>5. TypeOK'
  BY <1>1, <1>2, <1>3, <1>4 DEF WorkInv, TypeOK, ClaimItem, files, delegate
<1>. HIDE DEF next, step
<1>6. /\ pc'[w] = step /\ item'[w] = next
      /\ \A v \in Worker \ {w} : pc'[v] = pc[v] /\ item'[v] = item[v]
  BY <1>4 DEF WorkInv, TypeOK
<1>7. \A v \in Worker : lock # v /\ pc[v] # "nextItems"
  BY <1>4, WorkerAssumption DEF WorkInv, LockGuardsExpansion, Path
<1>8. UniqueWork'
  <2>1. \A v \in Worker \ {w} : Busy(v)' => item'[v] \in claimed /\ Busy(v)
    BY <1>6 DEF WorkInv, ItemFits, Busy
  <2>2. \A u, v \in Worker : u # v /\ Busy(u)' /\ Busy(v)' => item'[u] # item'[v]
    BY <1>2, <1>6, <2>1 DEF WorkInv, UniqueWork
  <2>3. Range(standardRestoreItems') \cap claimed' = {}
    BY <1>1, <1>2 DEF WorkInv, UniqueWork
  <2>. QED  BY <1>1, <2>2, <2>3 DEF UniqueWork
<1>9. NoStrandedWork'
  <2>1. \A v \in Worker : pc[v] \notin {"finishing", "exited"}
    BY <1>1, <1>4, EmptySeq DEF WorkInv, NoStrandedWork, Range, ClaimItem
  <2>. QED  BY <1>3, <1>6, <2>1 DEF NoStrandedWork
<1>10. LockGuardsExpansion'
  BY <1>3, <1>4, <1>6, <1>7, WorkerAssumption DEF LockGuardsExpansion, Path
<1>11. ItemFits'
  BY <1>2, <1>3, <1>6 DEF WorkInv, ItemFits, Busy
<1>12. Uncovered'
  <2>1. Expanding' \subseteq {next} /\ Expanding = {}
    BY <1>6, <1>7 DEF Expanding
  <2>2. claimed \ Expanding \subseteq claimed' \ Expanding'
    BY <1>2, <2>1
  <2>. QED  BY <1>2, <2>2 DEF WorkInv, Uncovered
<1>13. Unstarted'
  <2>1. main \in {"waiting", "succeeded"}
    BY <1>4 DEF WorkInv, Unstarted
  <2>. QED  BY <1>3, <1>4, <1>6, <2>1 DEF WorkInv, Unstarted
<1>. QED  BY <1>5, <1>8, <1>9, <1>10, <1>11, <1>12, <1>13 DEF WorkInv

\* What a worker pushes is new: its tree has not been expanded before, and no
\* other tree holds the same items.
LEMMA NextItemsNew ==
  ASSUME WorkInv, NEW w \in Worker, pc[w] = "nextItems"
  PROVE  Range(NextItems(item[w].path)) \cap Known = {}
<1>. DEFINE d == item[w].path
<1>1. d \in Dir /\ item[w] = TreeItem(d) /\ TreeItem(d) \in Expanding
  BY BusyItem DEF Busy, Expanding
<1>2. SUFFICES ASSUME NEW i \in Known, i \in Range(NextItems(d)) PROVE FALSE
  OBVIOUS
<1>3. i # FirstItem
  <2>1. CASE Target = Root
    BY <1>1, <1>2, <2>1, NextItemsApart, BackupAssumption DEF FirstItem, ItemFor
  <2>2. CASE Target \in File
    <3>1. TreeItem(d) \in claimed
      BY <1>1 DEF WorkInv, ItemFits, Busy
    <3>2. TreeItem(d) = FirstItem
      BY <2>2, <3>1 DEF WorkInv, Uncovered, Known
    <3>. QED
      BY <2>2, <3>2, BackupAssumption DEF FirstItem, ItemFor, TreeItem, NodeItem
  <2>. QED  BY <2>1, <2>2, BackupAssumption
<1>4. PICK e \in Dir : /\ TreeItem(e) \in claimed \ Expanding
                       /\ i \in Range(NextItems(e))
  BY <1>2, <1>3 DEF WorkInv, Uncovered
<1>5. d = e
  BY <1>1, <1>2, <1>4, NextItemsApart
<1>. QED  BY <1>1, <1>4, <1>5

\* The worker that expands a tree gives the lock back.
LEMMA ExpansionEnds ==
  ASSUME WorkInv, TypeOK', NEW w \in Worker, pc[w] = "nextItems",
         UNCHANGED <<main, item, claimed, cancelRequested>>,
         pc' = [pc EXCEPT ![w] = "nextItem"], lock' = None,
         IsInjective(standardRestoreItems'),
         \/ UNCHANGED standardRestoreItems
         \/ Range(standardRestoreItems') =
              Range(standardRestoreItems) \cup Range(NextItems(item[w].path))
  PROVE  WorkInv'
<1>1. /\ pc'[w] = "nextItem"
      /\ \A v \in Worker \ {w} : pc'[v] = pc[v]
      /\ \A v \in Worker \ {w} : pc[v] # "nextItems"
  BY DEF WorkInv, TypeOK, LockGuardsExpansion
<1>2. /\ \A v \in Worker : Busy(v)' => Busy(v)
      /\ Expanding = {item[w]} /\ Expanding' = {}
  BY <1>1 DEF Busy, Expanding
<1>3. item[w] \in claimed /\ item[w].path \in Dir /\ item[w] = TreeItem(item[w].path)
  BY BusyItem DEF WorkInv, ItemFits, Busy
<1>4. UniqueWork'
  BY <1>2, NextItemsNew DEF WorkInv, UniqueWork, Known
<1>5. NoStrandedWork'
  BY <1>1 DEF WorkInv, NoStrandedWork
<1>6. LockGuardsExpansion' /\ ItemFits'
  BY <1>1, <1>2, WorkerAssumption DEF WorkInv, LockGuardsExpansion, ItemFits, Path
<1>7. Uncovered'
  <2>1. Target \notin File
    <3>1. Target \in File => item[w] = FirstItem
      BY <1>3 DEF WorkInv, Uncovered, Known
    <3>. QED
      BY <1>3, <3>1, BackupAssumption DEF FirstItem, ItemFor, TreeItem, NodeItem
  <2>2. Known' = Known \/ Known' = Known \cup Range(NextItems(item[w].path))
    BY DEF Known
  <2>3. TreeItem(item[w].path) \in claimed' \ Expanding'
    BY <1>2, <1>3
  <2>4. claimed \ Expanding \subseteq claimed' \ Expanding'
    BY <1>2
  <2>. QED  BY <1>3, <2>1, <2>2, <2>3, <2>4 DEF WorkInv, Uncovered
<1>8. Unstarted'
  BY <1>1 DEF WorkInv, Unstarted
<1>. QED  BY <1>4, <1>5, <1>6, <1>7, <1>8 DEF WorkInv

LEMMA AddNextItemsWork ==
  ASSUME WorkInv, NEW w \in Worker, AddNextItems(w)
  PROVE  WorkInv'
<1>. DEFINE added == NextItems(item[w].path)
<1>1. /\ pc[w] = "nextItems"
      /\ UNCHANGED <<main, item, claimed, cancelRequested>>
      /\ pc' = [pc EXCEPT ![w] = "nextItem"] /\ lock' = None
      /\ standardRestoreItems' = standardRestoreItems \o added
  BY DEF AddNextItems, Goto, delegate
<1>2. added \in Seq(Item) /\ IsInjective(added)
  BY <1>1, BusyItem, NextItemsOf DEF Busy
<1>3. Range(standardRestoreItems) \cap Range(added) = {}
  BY <1>1, NextItemsNew DEF Known
<1>. HIDE DEF added
<1>4. /\ standardRestoreItems' \in Seq(Item)
      /\ IsInjective(standardRestoreItems')
      /\ Range(standardRestoreItems') = Range(standardRestoreItems) \cup Range(added)
  BY <1>1, <1>2, <1>3, ConcatOfInjective DEF WorkInv, TypeOK, UniqueWork
<1>5. TypeOK'
  BY <1>1, <1>4 DEF WorkInv, TypeOK, AddNextItems, files, delegate
<1>. QED  BY <1>1, <1>4, <1>5, ExpansionEnds DEF added

LEMMA LoseNextItemsWork ==
  ASSUME WorkInv, NEW w \in Worker, LoseNextItems(w)
  PROVE  WorkInv'
<1>1. /\ pc[w] = "nextItems"
      /\ UNCHANGED <<main, item, claimed, cancelRequested, standardRestoreItems>>
      /\ pc' = [pc EXCEPT ![w] = "nextItem"] /\ lock' = None
  BY DEF LoseNextItems, Goto, delegate
<1>2. item[w].path \in Dir
  BY <1>1, BusyItem DEF Busy
<1>3. TypeOK'
  BY <1>1, <1>2 DEF WorkInv, TypeOK, LoseNextItems, files, delegate
<1>4. IsInjective(standardRestoreItems')
  BY <1>1 DEF WorkInv, UniqueWork
<1>. QED  BY <1>1, <1>3, <1>4, ExpansionEnds

\* A worker that finds nothing holds no lock, and nobody else does.
LEMMA FindNothingWork ==
  ASSUME WorkInv, NEW w \in Worker, FindNothing(w) \/ WorkerDidFinish(w)
  PROVE  WorkInv'
<1>1. /\ UNCHANGED <<main, item, claimed, cancelRequested, standardRestoreItems, lock>>
      /\ \/ /\ pc[w] = "nextItem" /\ pc' = [pc EXCEPT ![w] = "finishing"]
            /\ lock = None
            /\ cancelRequested \/ standardRestoreItems = <<>>
         \/ pc[w] = "finishing" /\ pc' = [pc EXCEPT ![w] = "exited"]
  BY DEF FindNothing, WorkerDidFinish, Goto, work, delegate
<1>2. TypeOK'
  BY <1>1 DEF WorkInv, TypeOK, FindNothing, WorkerDidFinish, work, files, delegate
<1>3. /\ pc'[w] \in {"finishing", "exited"}
      /\ \A v \in Worker \ {w} : pc'[v] = pc[v]
      /\ \A v \in Worker : pc'[v] = "nextItems" <=> pc[v] = "nextItems"
      /\ \A v \in Worker : Busy(v)' <=> Busy(v)
  BY <1>1 DEF WorkInv, TypeOK, Busy
<1>4. UniqueWork'
  BY <1>1, <1>3 DEF WorkInv, UniqueWork
<1>5. NoStrandedWork'
  <2>1. CASE lock = None /\ (cancelRequested \/ standardRestoreItems = <<>>)
    <3>1. \A v \in Worker : pc[v] # "nextItems"
      BY <2>1, WorkerAssumption DEF WorkInv, LockGuardsExpansion, Path
    <3>. QED  BY <1>1, <1>3, <2>1, <3>1 DEF NoStrandedWork
  <2>2. CASE pc[w] = "finishing"
    BY <1>1, <1>3, <2>2 DEF WorkInv, NoStrandedWork
  <2>. QED  BY <1>1, <2>1, <2>2
<1>6. LockGuardsExpansion' /\ ItemFits'
  BY <1>1, <1>3 DEF WorkInv, LockGuardsExpansion, ItemFits
<1>7. Known' = Known /\ Expanding' = Expanding
  BY <1>1, <1>3 DEF Known, Expanding
<1>8. Uncovered'
  BY <1>1, <1>7 DEF WorkInv, Uncovered
<1>9. Unstarted'
  BY <1>1, <1>3 DEF WorkInv, Unstarted
<1>. QED  BY <1>2, <1>4, <1>5, <1>6, <1>8, <1>9 DEF WorkInv

\* The steps of the worker threads that restore an item.
LEMMA RestoreWork ==
  ASSUME WorkInv, NEW w \in Worker,
         RestoreNode(w) \/ ApplyTree(w) \/ ReportError(w)
  PROVE  WorkInv'
<1>1. TypeOK'
  BY RestoreTypes
<1>2. /\ UNCHANGED <<main, standardRestoreItems, lock, claimed, item>>
      /\ Busy(w) /\ pc[w] # "nextItems"
      /\ cancelRequested => cancelRequested'
      /\ \E step \in {"nextItem", "node", "link", "create", "write", "attributes",
                      "register", "report"} : pc' = [pc EXCEPT ![w] = step]
  <2>. USE DEF Busy, Goto, work, delegate
  <2>1. CASE KeepNewer(w) \/ HardlinkedPathForInode(w) \/ Link(w) \/ OpenFile(w)
    BY <2>1 DEF KeepNewer, HardlinkedPathForInode, Link, OpenFile
  <2>2. CASE KeepSame(w)
    BY <2>2 DEF KeepSame, WorkInv, TypeOK
  <2>3. CASE WriteFile(w) \/ CreateWhole(w) \/ SkipSpecial(w) \/ FailToCreate(w)
    BY <2>3 DEF WriteFile, CreateWhole, SkipSpecial, FailToCreate
  <2>4. CASE FailToWrite(w) \/ ApplyNode(w) \/ SetHardlinkedPath(w)
    BY <2>4 DEF FailToWrite, ApplyNode, SetHardlinkedPath
  <2>5. CASE ApplyTree(w) \/ ReportError(w)
    BY <2>5 DEF ApplyTree, ReportError
  <2>. QED  BY <2>1, <2>2, <2>3, <2>4, <2>5 DEF RestoreNode
<1>. QED  BY <1>1, <1>2, WorkerMoves

\* Directories that are made are offered for links, files are not.
LEMMA DirectoriesAreMade ==
  ASSUME TypeOK, NEW made \in SUBSET Dir, CreateDirectoryTree(made)
  PROVE  /\ dirs' \subseteq Dir
         /\ hardlinkPathsByInode' \in [Inos -> Path \cup {None}]
         /\ \A n \in Inos : hardlinkPathsByInode'[n] \in File
              => hardlinkPathsByInode'[n] = hardlinkPathsByInode[n]
<1>1. dirs' \subseteq Dir
  BY DEF CreateDirectoryTree, TypeOK
<1>2. CASE Target = Root
  <2>1. \A n \in Inos :
          (\E d \in made \ dirs : StIno[d] = n)
            => /\ (CHOOSE d \in made \ dirs : StIno[d] = n) \in Path
               /\ (CHOOSE d \in made \ dirs : StIno[d] = n) \notin File
    <3>1. \A d \in Dir : d \in Path /\ d \notin File
      BY BackupAssumption DEF Path
    <3>. QED  BY <3>1
  <2>. DEFINE offered(n) == n # 0 /\ \E d \in made \ dirs : StIno[d] = n
              chosen(n) == CHOOSE d \in made \ dirs : StIno[d] = n
  <2>2. hardlinkPathsByInode' =
          [n \in Inos |-> IF offered(n) THEN chosen(n) ELSE hardlinkPathsByInode[n]]
    BY <1>2 DEF CreateDirectoryTree
  <2>3. \A n \in Inos : offered(n) => chosen(n) \in Path /\ chosen(n) \notin File
    BY <2>1
  <2>4. hardlinkPathsByInode \in [Inos -> Path \cup {None}]
    BY DEF TypeOK
  <2>. HIDE DEF offered, chosen
  <2>. QED  BY <1>1, <2>2, <2>3, <2>4
<1>3. CASE Target # Root
  BY <1>1, <1>3 DEF CreateDirectoryTree, TypeOK
<1>. QED  BY <1>2, <1>3

LEMMA StartWorkersWork ==
  ASSUME WorkInv, StartWorkers
  PROVE  WorkInv'
<1>1. /\ main = "directories" /\ main' = "waiting"
      /\ standardRestoreItems' = <<FirstItem>>
      /\ pc' = [w \in Worker |-> "nextItem"]
      /\ UNCHANGED <<item, lock, claimed, lost>>
  BY DEF StartWorkers
<1>2. claimed = {} /\ \A w \in Worker : pc[w] = "unborn"
  BY <1>1 DEF WorkInv, Unstarted, Known
<1>3. /\ <<FirstItem>> \in Seq(Item)
      /\ IsInjective(<<FirstItem>>)
      /\ Range(<<FirstItem>>) = {FirstItem}
  BY ItemTypes DEF IsInjective, Range
<1>4. TypeOK'
  <2>1. dirs' \subseteq Dir /\ hardlinkPathsByInode' \in [Inos -> Path \cup {None}]
    BY DirectoriesAreMade DEF StartWorkers, WorkInv
  <2>. QED
    BY <1>1, <1>3, <2>1 DEF StartWorkers, WorkInv, TypeOK, delegate
<1>5. \A w \in Worker : pc'[w] = "nextItem"
  BY <1>1
<1>6. Known' = {FirstItem}
  BY <1>1, <1>2, <1>3 DEF Known
<1>7. UniqueWork' /\ NoStrandedWork' /\ ItemFits'
  BY <1>1, <1>2, <1>3, <1>5 DEF UniqueWork, NoStrandedWork, ItemFits, Busy
<1>8. LockGuardsExpansion'
  BY <1>1, <1>2, <1>5 DEF WorkInv, LockGuardsExpansion
<1>9. Uncovered' /\ Unstarted'
  BY <1>1, <1>5, <1>6 DEF Uncovered, Unstarted
<1>. QED  BY <1>4, <1>7, <1>8, <1>9 DEF WorkInv

LEMMA MainThreadWork ==
  ASSUME WorkInv, SetUp \/ DidFail \/ DidSucceed \/ RequestCancel
  PROVE  WorkInv'
<1>1. CASE SetUp
  <2>1. TypeOK'
    BY <1>1 DEF SetUp, WorkInv, TypeOK, work, files, delegate
  <2>. QED
    BY <1>1, <2>1, WorkUnchanged DEF SetUp, work, delegate
<1>2. CASE DidFail
  <2>0. dirs' \subseteq Dir /\ hardlinkPathsByInode' \in [Inos -> Path \cup {None}]
    BY <1>2, DirectoriesAreMade DEF DidFail, WorkInv, TypeOK
  <2>1. TypeOK'
    BY <1>2, <2>0, RecordAssumption DEF DidFail, WorkInv, TypeOK, work
  <2>2. \A w \in Worker : pc[w] = "unborn"
    BY <1>2 DEF DidFail, WorkInv, Unstarted
  <2>. QED
    BY <1>2, <2>1, <2>2, WorkUnchanged DEF DidFail, work
<1>3. CASE DidSucceed
  <2>1. Cardinality(Worker) \in Nat
    BY WorkerAssumption, FS_CardinalityType
  <2>2. workerThreadSemaphore' \in Nat
    BY <1>3, <2>1 DEF DidSucceed, WorkInv, TypeOK
  <2>3. TypeOK'
    BY <1>3, <2>2 DEF DidSucceed, WorkInv, TypeOK, work, files, delegate
  <2>. QED
    BY <1>3, <2>3, WorkUnchanged DEF DidSucceed, work, delegate
<1>4. CASE RequestCancel
  <2>1. TypeOK'
    BY <1>4 DEF RequestCancel, WorkInv, TypeOK, work, files
  <2>. QED
    BY <1>4, <2>1, WorkUnchanged DEF RequestCancel, work
<1>. QED  BY <1>1, <1>2, <1>3, <1>4

\* WorkInv is inductive.
LEMMA NextWorkInv == WorkInv /\ [Next]_vars => WorkInv'
<1>. SUFFICES ASSUME WorkInv, [Next]_vars PROVE WorkInv'
  OBVIOUS
<1>1. CASE MainThread
  BY <1>1, StartWorkersWork, MainThreadWork DEF MainThread
<1>2. CASE \E w \in Worker : Run(w)
  <2>1. PICK w \in Worker : Run(w)
    BY <1>2
  <2>. QED
    BY <2>1, ClaimItemWork, AddNextItemsWork, LoseNextItemsWork, FindNothingWork,
       RestoreWork DEF Run
<1>3. CASE RequestCancel
  BY <1>3, MainThreadWork
<1>4. CASE UNCHANGED vars
  <2>. USE <1>4 DEF vars, work, files, delegate
  <2>1. TypeOK'
    BY DEF WorkInv, TypeOK
  <2>. QED  BY <2>1, WorkUnchanged
<1>. QED  BY <1>1, <1>2, <1>3, <1>4 DEF Next

LEMMA WorkInvariant == Spec => []WorkInv
BY InitWorkInv, NextWorkInv, PTL DEF Spec

-----------------------------------------------------------------------------
\* Every variable of the restorer keeps its type, for every backup and every
\* finite set of workers (StandardRestorer.m, the ivars).
THEOREM TypeCorrect == Spec => []TypeOK
<1>1. WorkInv => TypeOK
  BY DEF WorkInv
<1>. QED  BY <1>1, WorkInvariant, PTL

\* No piece of work is restored twice, whatever the number of worker threads
\* and the interleaving of their calls of nextItem.
THEOREM NoItemRestoredTwice == Spec => []UniqueWork
<1>1. WorkInv => UniqueWork
  BY DEF WorkInv
<1>. QED  BY <1>1, WorkInvariant, PTL

\* No worker leaves while another one can still bring work.
THEOREM WorkersStayForWork == Spec => []NoStrandedWork
<1>1. WorkInv => NoStrandedWork
  BY DEF WorkInv
<1>. QED  BY <1>1, WorkInvariant, PTL

-----------------------------------------------------------------------------
(***************************************************************************)
(* The end of a restore.                                                   *)
(***************************************************************************)
Exited == {w \in Worker : pc[w] = "exited"}

\* Each worker that ended has signalled the semaphore once.
EndInv ==
  /\ workerThreadSemaphore = IF main = "waiting" THEN Cardinality(Exited) ELSE 0
  /\ main = "succeeded" => Exited = Worker

\* A step of a worker leads from one place of its loop to another.
LEMMA WorkerSteps ==
  ASSUME WorkInv, NEW w \in Worker, Run(w)
  PROVE  /\ UNCHANGED main
         /\ pc[w] \notin {"unborn", "exited"}
         /\ \/ WorkerDidFinish(w)
            \/ /\ UNCHANGED workerThreadSemaphore
               /\ \E step \in {"nextItem", "nextItems", "node", "link", "create", "write",
                               "attributes", "register", "apply", "report", "finishing"} :
                    pc' = [pc EXCEPT ![w] = step]
<1>. USE DEF Goto, work, files, delegate
<1>1. CASE ClaimItem(w)
  <2>1. Last(standardRestoreItems) \in Item
    BY <1>1, FrontOfInjective DEF WorkInv, TypeOK, UniqueWork, ClaimItem
  <2>2. Last(standardRestoreItems).action \in {"tree", "apply", "node"}
    BY <2>1 DEF Item
  <2>. QED  BY <1>1, <2>2 DEF ClaimItem
<1>2. CASE AddNextItems(w) \/ LoseNextItems(w) \/ FindNothing(w)
  BY <1>2 DEF AddNextItems, LoseNextItems, FindNothing
<1>3. CASE WorkerDidFinish(w)
  BY <1>3 DEF WorkerDidFinish
<1>4. CASE KeepNewer(w) \/ KeepSame(w) \/ HardlinkedPathForInode(w) \/ Link(w)
  BY <1>4 DEF KeepNewer, KeepSame, HardlinkedPathForInode, Link
<1>5. CASE OpenFile(w) \/ WriteFile(w) \/ CreateWhole(w) \/ SkipSpecial(w)
  BY <1>5 DEF OpenFile, WriteFile, CreateWhole, SkipSpecial
<1>6. CASE FailToCreate(w) \/ FailToWrite(w) \/ ApplyNode(w) \/ SetHardlinkedPath(w)
  BY <1>6 DEF FailToCreate, FailToWrite, ApplyNode, SetHardlinkedPath
<1>7. CASE ApplyTree(w) \/ ReportError(w)
  BY <1>7 DEF ApplyTree, ReportError
<1>. QED  BY <1>1, <1>2, <1>3, <1>4, <1>5, <1>6, <1>7 DEF Run, RestoreNode

LEMMA ExitedIsFinite ==
  /\ IsFiniteSet(Exited) /\ Cardinality(Exited) \in Nat
  /\ Cardinality(Exited) <= Cardinality(Worker)
  /\ Cardinality(Exited) = Cardinality(Worker) => Exited = Worker
<1>1. Exited \in SUBSET Worker
  BY DEF Exited
<1>. QED  BY <1>1, WorkerAssumption, FS_Subset, FS_CardinalityType

LEMMA NextEnd == WorkInv /\ EndInv /\ [Next]_vars => EndInv'
<1>. SUFFICES ASSUME WorkInv, EndInv, [Next]_vars PROVE EndInv'
  OBVIOUS
<1>1. Cardinality(Worker) \in Nat /\ workerThreadSemaphore \in Nat
  BY WorkerAssumption, FS_CardinalityType DEF WorkInv, TypeOK
<1>2. CASE SetUp \/ DidFail
  BY <1>2 DEF SetUp, DidFail, EndInv
<1>3. CASE StartWorkers
  <2>1. Exited' = {}
    BY <1>3 DEF StartWorkers, Exited
  <2>. QED  BY <1>3, <2>1, FS_EmptySet DEF StartWorkers, EndInv
<1>4. CASE DidSucceed
  <2>1. Exited = Worker /\ Cardinality(Exited) = Cardinality(Worker)
    BY <1>1, <1>4, ExitedIsFinite DEF DidSucceed, EndInv
  <2>2. Exited' = Exited
    BY <1>4 DEF DidSucceed, Exited
  <2>. QED  BY <1>1, <1>4, <2>1, <2>2 DEF DidSucceed, EndInv
<1>5. ASSUME NEW w \in Worker, Run(w)
      PROVE  EndInv'
  <2>1. main = "waiting" /\ main' = "waiting"
    BY <1>5, WorkerSteps DEF WorkInv, Unstarted, EndInv, Exited
  <2>2. CASE WorkerDidFinish(w)
    <3>1. w \notin Exited /\ Exited' = Exited \cup {w}
      BY <2>2 DEF WorkerDidFinish, Goto, Exited, WorkInv, TypeOK
    <3>2. Cardinality(Exited') = Cardinality(Exited) + 1
      BY <3>1, ExitedIsFinite, FS_AddElement
    <3>. QED  BY <2>1, <2>2, <3>2 DEF WorkerDidFinish, EndInv
  <2>3. CASE ~WorkerDidFinish(w)
    <3>1. Exited' = Exited /\ UNCHANGED workerThreadSemaphore
      BY <1>5, <2>3, WorkerSteps DEF Exited, WorkInv, TypeOK
    <3>. QED  BY <2>1, <3>1 DEF EndInv
  <2>. QED  BY <2>2, <2>3
<1>6. CASE RequestCancel \/ UNCHANGED vars
  <2>1. Exited' = Exited /\ UNCHANGED <<main, workerThreadSemaphore>>
    BY <1>6 DEF RequestCancel, vars, Exited
  <2>. QED  BY <2>1 DEF EndInv
<1>. QED  BY <1>2, <1>3, <1>4, <1>5, <1>6 DEF Next, MainThread

LEMMA EndInvariant == Spec => []EndInv
<1>1. Init => EndInv
  BY DEF Init, EndInv
<1>. QED  BY <1>1, NextEnd, WorkInvariant, PTL DEF Spec

\* Once the outcome is announced no worker takes a step.
LEMMA WorkersAreGone ==
  ASSUME WorkInv, EndInv, main \in {"succeeded", "failed"}
  PROVE  \A w \in Worker : pc[w] \in {"unborn", "exited"} /\ ~Run(w)
<1>1. \A w \in Worker : pc[w] \in {"unborn", "exited"}
  BY DEF WorkInv, Unstarted, EndInv, Exited
<1>. QED  BY <1>1, WorkerSteps

\* After DidSucceed or DidFail nothing changes on disk and no error is reported,
\* however many workers there were and whatever they were doing.
THEOREM NothingAfterOutcome == Spec => QuietAfterOutcome
<1>1. ASSUME WorkInv, EndInv, Next, main \in {"succeeded", "failed"}
      PROVE  UNCHANGED <<files, reported>>
  <2>1. RequestCancel
    BY <1>1, WorkersAreGone
       DEF Next, MainThread, SetUp, StartWorkers, DidFail, DidSucceed
  <2>. QED  BY <2>1 DEF RequestCancel
<1>2. WorkInv /\ EndInv /\ [Next]_vars
        => [(main \in {"succeeded", "failed"}) => UNCHANGED <<files, reported>>]_vars
  BY <1>1
<1>. QED  BY <1>2, WorkInvariant, EndInvariant, PTL DEF Spec, QuietAfterOutcome

-----------------------------------------------------------------------------
(***************************************************************************)
(* The workers implement the abstract pool.                                *)
(***************************************************************************)
Unborn == [w \in Worker |-> "unborn"]
poolBar == IF pc = Unborn THEN {FirstItem} ELSE Range(standardRestoreItems) \cup Expanding
takenBar == claimed \ Expanding
stoppedBar == cancelRequested \/ main = "failed"
closedBar == main \in {"succeeded", "failed"}
belowBar == [i \in Item |-> IF i.action = "tree" THEN Range(NextItems(i.path)) ELSE {}]

\* Once a worker was started the pool is what is on the stack or held.
LEMMA PoolOfWork ==
  ASSUME WorkInv, WorkInv', main = "waiting", UNCHANGED main
  PROVE  /\ poolBar = Range(standardRestoreItems) \cup Expanding
         /\ poolBar' = Range(standardRestoreItems') \cup Expanding'
<1>1. pc # Unborn
  BY WorkerAssumption DEF WorkInv, Unstarted, Unborn
<1>2. pc' # Unborn
  BY WorkerAssumption DEF WorkInv, Unstarted, Unborn
<1>. QED  BY <1>1, <1>2 DEF poolBar, Unborn

\* Nobody reads what is below a tree while the lock is free.
LEMMA FreeLock ==
  ASSUME WorkInv, WorkInv'
  PROVE  /\ lock = None => Expanding = {}
         /\ lock' = None => Expanding' = {}
BY WorkerAssumption DEF WorkInv, LockGuardsExpansion, Expanding, Path

\* The step of a worker that takes a piece of work to restore it.
LEMMA ClaimTakes ==
  ASSUME WorkInv, NEW w \in Worker, ClaimItem(w), main = "waiting", WorkInv'
  PROVE  \/ UNCHANGED <<poolBar, takenBar>>
         \/ \E i \in Item : /\ i \in poolBar \ takenBar
                            /\ takenBar' = takenBar \cup {i}
                            /\ poolBar' = poolBar \ {i}
<1>. DEFINE next == Last(standardRestoreItems)
<1>1. /\ next \in Item /\ next \in Range(standardRestoreItems)
      /\ Range(standardRestoreItems') = Range(standardRestoreItems) \ {next}
  BY FrontOfInjective DEF WorkInv, TypeOK, UniqueWork, ClaimItem
<1>2. next \notin claimed /\ claimed' = claimed \cup {next} /\ UNCHANGED main
  BY <1>1 DEF WorkInv, UniqueWork, ClaimItem
<1>3. /\ poolBar = Range(standardRestoreItems) /\ takenBar = claimed
      /\ poolBar' = Range(standardRestoreItems') \cup Expanding' /\ takenBar' = claimed' \ Expanding'
  BY <1>2, FreeLock, PoolOfWork DEF takenBar, ClaimItem
<1>4. Expanding' = IF next.action = "tree" THEN {next} ELSE {}
  <2>1. \A v \in Worker : pc[v] # "nextItems"
    BY WorkerAssumption DEF WorkInv, LockGuardsExpansion, ClaimItem, Path
  <2>2. next.action # "tree" => next.action # "nextItems"
    BY <1>1 DEF Item
  <2>. HIDE DEF next
  <2>3. /\ \A v \in Worker \ {w} : pc'[v] = pc[v]
        /\ item'[w] = next
        /\ pc'[w] = "nextItems" <=> next.action = "tree"
    BY <2>2 DEF ClaimItem, Goto, WorkInv, TypeOK, next
  <2>. QED  BY <2>1, <2>3 DEF Expanding
<1>. HIDE DEF next
<1>5. CASE next.action = "tree"
  BY <1>1, <1>2, <1>3, <1>4, <1>5
<1>6. CASE next.action # "tree"
  BY <1>1, <1>2, <1>3, <1>4, <1>6
<1>. QED  BY <1>5, <1>6

\* The end of the expansion of a tree takes it.
LEMMA ExpansionTakes ==
  ASSUME WorkInv, NEW w \in Worker, AddNextItems(w) \/ LoseNextItems(w),
         main = "waiting", WorkInv'
  PROVE  \E i \in Item : /\ i \in poolBar \ takenBar
                         /\ takenBar' = takenBar \cup {i}
                         /\ poolBar' \in {poolBar \ {i}, (poolBar \ {i}) \cup belowBar[i]}
<1>. DEFINE i == item[w]
            below == Range(NextItems(i.path))
<1>1. pc[w] = "nextItems" /\ lock' = None /\ UNCHANGED <<main, claimed, item>>
  BY DEF AddNextItems, LoseNextItems
<1>2. /\ i \in Item /\ i.path \in Dir /\ i = TreeItem(i.path) /\ i \in claimed
      /\ i \notin Range(standardRestoreItems)
  BY <1>1, BusyItem DEF Busy, WorkInv, ItemFits, UniqueWork
<1>3. Expanding = {i}
  BY <1>1 DEF WorkInv, LockGuardsExpansion, Expanding
<1>4. Expanding' = {}
  BY <1>1, FreeLock
<1>5. \/ Range(standardRestoreItems') = Range(standardRestoreItems)
      \/ Range(standardRestoreItems') = Range(standardRestoreItems) \cup below
  <2>1. CASE AddNextItems(w)
    <3>1. NextItems(i.path) \in Seq(Item) /\ standardRestoreItems \in Seq(Item)
      BY <1>2, NextItemsOf DEF WorkInv, TypeOK
    <3>. QED  BY <2>1, <3>1, RangeConcatenation DEF AddNextItems
  <2>2. CASE LoseNextItems(w)
    BY <2>2 DEF LoseNextItems
  <2>. QED  BY <2>1, <2>2
<1>6. belowBar[i] = below
  BY <1>2 DEF belowBar, TreeItem
<1>. HIDE DEF i, below
<1>7. /\ poolBar = Range(standardRestoreItems) \cup {i}
      /\ takenBar = claimed \ {i} /\ takenBar' = claimed
      /\ poolBar' = Range(standardRestoreItems')
  BY <1>1, <1>3, <1>4, PoolOfWork DEF takenBar
<1>. QED  BY <1>2, <1>5, <1>6, <1>7

\* The other steps of a worker.
LEMMA OtherStepsKeepPool ==
  ASSUME WorkInv, NEW w \in Worker, main = "waiting", WorkInv',
         \/ FindNothing(w) \/ WorkerDidFinish(w)
         \/ RestoreNode(w) \/ ApplyTree(w) \/ ReportError(w)
  PROVE  UNCHANGED <<poolBar, takenBar>>
<1>. USE DEF work
<1>1. UNCHANGED <<main, standardRestoreItems, item, claimed, lock>>
  <2>1. CASE FindNothing(w) \/ WorkerDidFinish(w) \/ ApplyTree(w) \/ ReportError(w)
    BY <2>1 DEF FindNothing, WorkerDidFinish, ApplyTree, ReportError
  <2>2. CASE KeepNewer(w) \/ KeepSame(w) \/ HardlinkedPathForInode(w) \/ Link(w)
    BY <2>2 DEF KeepNewer, KeepSame, HardlinkedPathForInode, Link
  <2>3. CASE OpenFile(w) \/ WriteFile(w) \/ CreateWhole(w) \/ SkipSpecial(w)
    BY <2>3 DEF OpenFile, WriteFile, CreateWhole, SkipSpecial
  <2>4. CASE FailToCreate(w) \/ FailToWrite(w) \/ ApplyNode(w) \/ SetHardlinkedPath(w)
    BY <2>4 DEF FailToCreate, FailToWrite, ApplyNode, SetHardlinkedPath
  <2>. QED  BY <2>1, <2>2, <2>3, <2>4 DEF RestoreNode
<1>2. Expanding' = Expanding
  BY <1>1 DEF WorkInv, LockGuardsExpansion, Expanding
<1>. QED  BY <1>1, <1>2, PoolOfWork DEF takenBar

\* Init and Next of the restorer are those of the pool, under the mapping.
LEMMA InitImplements == Init => Pool!Init
<1>. SUFFICES ASSUME Init PROVE Pool!Init
  OBVIOUS
<1>1. pc = [w \in Worker |-> "unborn"] /\ claimed = {}
  BY DEF Init
<1>2. (cancelRequested \/ main = "failed") = FALSE /\ (main \in {"succeeded", "failed"}) = FALSE
  BY DEF Init
<1>. QED  BY <1>1, <1>2 DEF Pool!Init

LEMMA NextImplements ==
  WorkInv /\ EndInv /\ WorkInv' /\ [Next]_vars => [Pool!Next]_(Pool!vars)
<1>. SUFFICES ASSUME WorkInv, EndInv, WorkInv', [Next]_vars
              PROVE  [Pool!Next]_(Pool!vars)
  OBVIOUS
\* The steps of the pool, in terms of the mapped variables.
<1>1. ASSUME NEW i \in Item, ~closedBar, i \in poolBar \ takenBar,
             takenBar' = takenBar \cup {i},
             poolBar' \in {poolBar \ {i}, (poolBar \ {i}) \cup belowBar[i]},
             stoppedBar' = stoppedBar, closedBar' = closedBar
      PROVE  Pool!Next
  BY <1>1 DEF Pool!Next, Pool!Take, poolBar, takenBar, stoppedBar, closedBar, belowBar, Unborn
<1>2. ASSUME ~closedBar, stoppedBar' = TRUE, poolBar' = poolBar, takenBar' = takenBar,
             closedBar' = closedBar
      PROVE  Pool!Next
  BY <1>2 DEF Pool!Next, Pool!Stop, poolBar, takenBar, stoppedBar, closedBar, Unborn
<1>3. ASSUME ~closedBar, stoppedBar' \in {stoppedBar, TRUE}, poolBar = {} \/ stoppedBar',
             closedBar' = TRUE, poolBar' = poolBar, takenBar' = takenBar
      PROVE  Pool!Next
  BY <1>3 DEF Pool!Next, Pool!Close, poolBar, takenBar, stoppedBar, closedBar, Unborn
<1>4. ASSUME poolBar' = poolBar, takenBar' = takenBar, stoppedBar' = stoppedBar,
             closedBar' = closedBar
      PROVE  UNCHANGED Pool!vars
  BY <1>4 DEF Pool!vars, poolBar, takenBar, stoppedBar, closedBar, Unborn
<1>5. CASE SetUp
  <2>1. poolBar' = poolBar /\ takenBar' = takenBar
    BY <1>5 DEF SetUp, work, poolBar, takenBar, Expanding
  <2>2. stoppedBar' = stoppedBar /\ closedBar' = closedBar
    BY <1>5 DEF SetUp, delegate, stoppedBar, closedBar
  <2>. QED  BY <1>4, <2>1, <2>2
<1>6. CASE StartWorkers
  <2>1. /\ pc = Unborn /\ pc' # Unborn /\ Expanding = {} /\ Expanding' = {}
        /\ Range(<<FirstItem>>) = {FirstItem}
    BY <1>6, WorkerAssumption DEF StartWorkers, WorkInv, TypeOK, Unstarted, Unborn, Expanding, Range
  <2>2. poolBar' = poolBar /\ takenBar' = takenBar
    BY <1>6, <2>1 DEF StartWorkers, poolBar, takenBar, Unborn
  <2>3. stoppedBar' = stoppedBar /\ closedBar' = closedBar
    BY <1>6 DEF StartWorkers, delegate, stoppedBar, closedBar
  <2>. QED  BY <1>4, <2>2, <2>3
<1>7. CASE DidFail
  <2>1. poolBar' = poolBar /\ takenBar' = takenBar
    BY <1>7 DEF DidFail, work, poolBar, takenBar, Expanding
  <2>2. ~closedBar /\ closedBar' = TRUE /\ stoppedBar' = TRUE
    BY <1>7 DEF DidFail, stoppedBar, closedBar
  <2>. QED  BY <1>3, <2>1, <2>2
<1>8. CASE DidSucceed
  <2>1. /\ main = "waiting" /\ main' = "succeeded"
        /\ UNCHANGED <<pc, item, standardRestoreItems, claimed, cancelRequested>>
    BY <1>8 DEF DidSucceed, work, delegate
  <2>2. poolBar' = poolBar /\ takenBar' = takenBar
    BY <2>1 DEF poolBar, takenBar, Expanding
  <2>3. ~closedBar /\ closedBar' = TRUE /\ stoppedBar' = stoppedBar
    BY <2>1 DEF stoppedBar, closedBar
  <2>4. poolBar = {} \/ stoppedBar'
    <3>1. Exited = Worker
      BY <1>8, WorkerAssumption, FS_CardinalityType, ExitedIsFinite DEF DidSucceed, EndInv
    <3>2. pc # Unborn /\ Expanding = {} /\ (cancelRequested \/ standardRestoreItems = <<>>)
      BY <3>1, WorkerAssumption DEF WorkInv, NoStrandedWork, Exited, Expanding, Unborn
    <3>. QED  BY <2>1, <3>2 DEF poolBar, stoppedBar, Range
  <2>. QED  BY <1>3, <2>2, <2>3, <2>4
<1>9. ASSUME NEW w \in Worker, Run(w)
      PROVE  [Pool!Next]_(Pool!vars)
  <2>1. main = "waiting" /\ main' = "waiting"
    BY <1>9, WorkerSteps DEF WorkInv, Unstarted, EndInv, Exited
  <2>2. ~closedBar /\ closedBar' = closedBar
    BY <2>1 DEF closedBar
  <2>3. CASE ClaimItem(w)
    <3>1. stoppedBar' = stoppedBar
      BY <2>1, <2>3 DEF ClaimItem, delegate, stoppedBar
    <3>. QED  BY <1>1, <1>4, <2>1, <2>2, <2>3, <3>1, ClaimTakes
  <2>4. CASE AddNextItems(w) \/ LoseNextItems(w)
    <3>1. stoppedBar' = stoppedBar
      BY <2>1, <2>4 DEF AddNextItems, LoseNextItems, delegate, stoppedBar
    <3>. QED  BY <1>1, <2>1, <2>2, <2>4, <3>1, ExpansionTakes
  <2>5. CASE ~(ClaimItem(w) \/ AddNextItems(w) \/ LoseNextItems(w))
    <3>1. poolBar' = poolBar /\ takenBar' = takenBar
      BY <1>9, <2>1, <2>5, OtherStepsKeepPool DEF Run
    <3>2. stoppedBar' = stoppedBar \/ stoppedBar' = TRUE
      <4>. USE DEF delegate
      <4>1. CASE FindNothing(w) \/ WorkerDidFinish(w) \/ ApplyTree(w) \/ ReportError(w)
        BY <2>1, <4>1 DEF FindNothing, WorkerDidFinish, ApplyTree, ReportError, stoppedBar
      <4>2. CASE KeepNewer(w) \/ HardlinkedPathForInode(w) \/ Link(w)
        BY <2>1, <4>2 DEF KeepNewer, HardlinkedPathForInode, Link, stoppedBar
      <4>3. CASE KeepSame(w)
        BY <2>1, <4>3, RecordAssumption DEF KeepSame, stoppedBar, WorkInv, TypeOK
      <4>4. CASE OpenFile(w) \/ WriteFile(w) \/ CreateWhole(w) \/ SkipSpecial(w)
        BY <2>1, <4>4 DEF OpenFile, WriteFile, CreateWhole, SkipSpecial, stoppedBar
      <4>5. CASE FailToCreate(w) \/ FailToWrite(w) \/ ApplyNode(w) \/ SetHardlinkedPath(w)
        BY <2>1, <4>5 DEF FailToCreate, FailToWrite, ApplyNode, SetHardlinkedPath, stoppedBar
      <4>. QED  BY <1>9, <2>5, <4>1, <4>2, <4>3, <4>4, <4>5 DEF Run, RestoreNode
    <3>. QED  BY <1>2, <1>4, <2>2, <3>1, <3>2
  <2>. QED  BY <2>3, <2>4, <2>5
<1>10. CASE RequestCancel
  <2>1. \/ main \in {"setUp", "directories"}
        \/ \E w \in Worker : pc[w] \notin {"unborn", "exited"}
    BY <1>10 DEF RequestCancel
  <2>2. main \in {"setUp", "directories", "waiting"} /\ main' = main
    BY <1>10, <2>1 DEF RequestCancel, WorkInv, TypeOK, Unstarted, EndInv, Exited
  <2>3. ~closedBar /\ closedBar' = closedBar /\ stoppedBar' = TRUE
    BY <1>10, <2>2 DEF RequestCancel, closedBar, stoppedBar
  <2>4. poolBar' = poolBar /\ takenBar' = takenBar
    BY <1>10 DEF RequestCancel, work, poolBar, takenBar, Expanding
  <2>. QED  BY <1>2, <2>3, <2>4
<1>11. CASE UNCHANGED vars
  <2>1. poolBar' = poolBar /\ takenBar' = takenBar /\ stoppedBar' = stoppedBar /\ closedBar' = closedBar
    BY <1>11 DEF vars, work, delegate, poolBar, takenBar, stoppedBar, closedBar, Expanding
  <2>. QED  BY <1>4, <2>1
<1>. QED  BY <1>5, <1>6, <1>7, <1>8, <1>9, <1>10, <1>11 DEF Next, MainThread

\* The main thread and the workers implement the abstract pool: work is taken
\* once, below what was taken, and the restore is closed when none is left.
THEOREM RestoreImplementsPool == Spec => ImplementsPool
<1>. QED
  BY InitImplements, NextImplements, WorkInvariant, EndInvariant, PTL
     DEF Spec, ImplementsPool, Pool!Spec

(***************************************************************************)
(* What is on disk.                                                        *)
(***************************************************************************)

\* What a worker does goes with its item and with what it made of it.
StepFits ==
  \A w \in Worker :
    /\ pc[w] \in {"node", "link", "create", "write", "attributes", "register"} =>
         item[w].action = "node"
    /\ pc[w] = "apply" => item[w].action = "apply"
    /\ pc[w] = "report" => item[w].action # "tree"
    /\ pc[w] = "attributes" => disk[item[w].path] = "whole"
    /\ pc[w] = "register" => \/ disk[item[w].path] = "whole"
                             \/ Kind[item[w].path] = "special"

\* What one step of a worker does to the file f of its item.
LinkStep(w, f) ==
  /\ pc[w] = "link" /\ existingPath[w] \in File
  /\ disk'[f] = disk[existingPath[w]] /\ holds'[f] = holds[existingPath[w]]
RegisterStep(w, f) ==
  /\ pc[w] = "register" /\ StIno[f] # 0
  /\ hardlinkPathsByInode' = [hardlinkPathsByInode EXCEPT ![StIno[f]] = f]
  /\ UNCHANGED disk
OnlyFileChanges(w, f) ==
  /\ \A g \in File \ {f} : disk'[g] = disk[g] /\ holds'[g] = holds[g]
  /\ \A v \in Worker \ {w} : pc'[v] = pc[v] /\ existingPath'[v] = existingPath[v]
  /\ \A d \in Dir : attrs[d] # "unset" => attrs'[d] # "unset"
PlaceAfter(w, f) ==
  /\ pc'[w] \in {"nextItem", "link", "create", "write", "attributes", "register", "report"}
  /\ pc'[w] = "attributes" => disk'[f] = "whole"
  /\ pc'[w] = "register" => disk'[f] = "whole" \/ Kind[f] = "special"
  /\ pc'[w] = "link" => /\ UNCHANGED disk
                        /\ existingPath'[w] = hardlinkPathsByInode[StIno[f]]
  /\ pc'[w] = "nextItem" => \/ disk'[f] \in {"whole", "same"} \/ Kind[f] = "special"
                            \/ LinkStep(w, f)
ContentsAfter(w, f) ==
  /\ disk'[f] = "whole" => \/ holds'[f] = f
                           \/ disk[f] = "whole" /\ holds'[f] = holds[f]
                           \/ LinkStep(w, f)
  /\ UNCHANGED hardlinkPathsByInode \/ (pc'[w] = "nextItem" /\ RegisterStep(w, f))
NodeStep(w, f) == OnlyFileChanges(w, f) /\ PlaceAfter(w, f) /\ ContentsAfter(w, f)

LEMMA FileItem ==
  ASSUME WorkInv, StepFits, NEW w \in Worker,
         pc[w] \in {"node", "link", "create", "write", "attributes", "register"}
  PROVE  /\ item[w].path \in File /\ item[w].path \in Path
         /\ item[w] = NodeItem(item[w].path)
         /\ item[w] \in claimed
<1>1. item[w] \in Item /\ item[w] \in claimed /\ item[w].action = "node"
  BY BusyItem DEF Busy, StepFits, WorkInv, ItemFits
<1>. QED  BY <1>1 DEF Item, NodeItem, Path

LEMMA RestoreNodeStep ==
  ASSUME WorkInv, StepFits, NEW w \in Worker, RestoreNode(w)
  PROVE  /\ pc[w] \in {"node", "link", "create", "write", "attributes", "register"}
         /\ UNCHANGED <<main, work, item, reported>>
         /\ NodeStep(w, item[w].path)
<1>1. pc[w] \in {"node", "link", "create", "write", "attributes", "register"}
  BY DEF RestoreNode, KeepNewer, KeepSame, HardlinkedPathForInode, Link, OpenFile, WriteFile,
         CreateWhole, SkipSpecial, FailToCreate, FailToWrite, ApplyNode, SetHardlinkedPath
<1>2. UNCHANGED <<main, work, item, reported>>
  BY DEF RestoreNode, KeepNewer, KeepSame, HardlinkedPathForInode, Link, OpenFile, WriteFile,
         CreateWhole, SkipSpecial, FailToCreate, FailToWrite, ApplyNode, SetHardlinkedPath,
         delegate
<1>. DEFINE f == item[w].path
<1>3. f \in File /\ f \in Path
  BY <1>1, FileItem
<1>4. /\ StepFits
      /\ pc \in [Worker -> {"unborn", "nextItem", "nextItems", "node", "link",
                        "create", "write", "attributes", "register", "apply",
                        "report", "finishing", "exited"}]
      /\ existingPath \in [Worker -> Path \cup {None}]
      /\ attrs \in [Dir -> {"unset", "restored", "skipped", "stale"}]
      /\ disk \in [File -> {"absent", "older", "same", "newer", "partial", "whole"}]
      /\ holds \in [File -> File]
  BY DEF WorkInv, TypeOK
<1>. USE DEF Goto, files
<1>. HIDE DEF f
<1>5. ASSUME KeepNewer(w)
      PROVE  NodeStep(w, f)
  <2>. USE <1>5 DEF KeepNewer
  <2>1. OnlyFileChanges(w, f)
    BY <1>3, <1>4 DEF f, TouchParentOf, OnlyFileChanges
  <2>2. PlaceAfter(w, f)
    BY <1>3, <1>4 DEF f, PlaceAfter, LinkStep, StepFits
  <2>3. ContentsAfter(w, f)
    BY <1>3, <1>4 DEF f, ContentsAfter, LinkStep, RegisterStep
  <2>. QED  BY <2>1, <2>2, <2>3 DEF NodeStep
<1>6. ASSUME KeepSame(w)
      PROVE  NodeStep(w, f)
  <2>. USE <1>6 DEF KeepSame
  <2>1. OnlyFileChanges(w, f)
    BY <1>3, <1>4 DEF f, TouchParentOf, OnlyFileChanges
  <2>2. PlaceAfter(w, f)
    BY <1>3, <1>4 DEF f, PlaceAfter, LinkStep, StepFits
  <2>3. ContentsAfter(w, f)
    BY <1>3, <1>4 DEF f, ContentsAfter, LinkStep, RegisterStep
  <2>. QED  BY <2>1, <2>2, <2>3 DEF NodeStep
<1>7. ASSUME HardlinkedPathForInode(w)
      PROVE  NodeStep(w, f)
  <2>. USE <1>7 DEF HardlinkedPathForInode
  <2>1. OnlyFileChanges(w, f)
    BY <1>3, <1>4 DEF f, TouchParentOf, OnlyFileChanges
  <2>2. PlaceAfter(w, f)
    BY <1>3, <1>4 DEF f, PlaceAfter, LinkStep, StepFits
  <2>3. ContentsAfter(w, f)
    BY <1>3, <1>4 DEF f, ContentsAfter, LinkStep, RegisterStep
  <2>. QED  BY <2>1, <2>2, <2>3 DEF NodeStep
<1>8. ASSUME Link(w)
      PROVE  NodeStep(w, f)
  <2>. USE <1>8 DEF Link
  <2>1. OnlyFileChanges(w, f)
    BY <1>3, <1>4 DEF f, TouchParentOf, OnlyFileChanges
  <2>2. PlaceAfter(w, f)
    BY <1>3, <1>4 DEF f, PlaceAfter, LinkStep, StepFits
  <2>3. ContentsAfter(w, f)
    BY <1>3, <1>4 DEF f, ContentsAfter, LinkStep, RegisterStep
  <2>. QED  BY <2>1, <2>2, <2>3 DEF NodeStep
<1>9. ASSUME OpenFile(w)
      PROVE  NodeStep(w, f)
  <2>. USE <1>9 DEF OpenFile
  <2>1. OnlyFileChanges(w, f)
    BY <1>3, <1>4 DEF f, TouchParentOf, OnlyFileChanges
  <2>2. PlaceAfter(w, f)
    BY <1>3, <1>4 DEF f, PlaceAfter, LinkStep, StepFits
  <2>3. ContentsAfter(w, f)
    BY <1>3, <1>4 DEF f, ContentsAfter, LinkStep, RegisterStep
  <2>. QED  BY <2>1, <2>2, <2>3 DEF NodeStep
<1>10. ASSUME WriteFile(w)
      PROVE  NodeStep(w, f)
  <2>. USE <1>10 DEF WriteFile
  <2>1. OnlyFileChanges(w, f)
    BY <1>3, <1>4 DEF f, TouchParentOf, OnlyFileChanges
  <2>2. PlaceAfter(w, f)
    BY <1>3, <1>4 DEF f, PlaceAfter, LinkStep, StepFits
  <2>3. ContentsAfter(w, f)
    BY <1>3, <1>4 DEF f, ContentsAfter, LinkStep, RegisterStep
  <2>. QED  BY <2>1, <2>2, <2>3 DEF NodeStep
<1>11. ASSUME CreateWhole(w)
      PROVE  NodeStep(w, f)
  <2>. USE <1>11 DEF CreateWhole
  <2>1. OnlyFileChanges(w, f)
    BY <1>3, <1>4 DEF f, TouchParentOf, OnlyFileChanges
  <2>2. PlaceAfter(w, f)
    BY <1>3, <1>4 DEF f, PlaceAfter, LinkStep, StepFits
  <2>3. ContentsAfter(w, f)
    BY <1>3, <1>4 DEF f, ContentsAfter, LinkStep, RegisterStep
  <2>. QED  BY <2>1, <2>2, <2>3 DEF NodeStep
<1>12. ASSUME SkipSpecial(w) \/ FailToCreate(w)
      PROVE  NodeStep(w, f)
  <2>. USE <1>12 DEF SkipSpecial, FailToCreate
  <2>1. OnlyFileChanges(w, f)
    BY <1>3, <1>4 DEF f, TouchParentOf, OnlyFileChanges
  <2>2. PlaceAfter(w, f)
    BY <1>3, <1>4 DEF f, PlaceAfter, LinkStep, StepFits
  <2>3. ContentsAfter(w, f)
    BY <1>3, <1>4 DEF f, ContentsAfter, LinkStep, RegisterStep
  <2>. QED  BY <2>1, <2>2, <2>3 DEF NodeStep
<1>13. ASSUME FailToWrite(w)
      PROVE  NodeStep(w, f)
  <2>. USE <1>13 DEF FailToWrite
  <2>1. OnlyFileChanges(w, f)
    BY <1>3, <1>4 DEF f, TouchParentOf, OnlyFileChanges
  <2>2. PlaceAfter(w, f)
    BY <1>3, <1>4 DEF f, PlaceAfter, LinkStep, StepFits
  <2>3. ContentsAfter(w, f)
    BY <1>3, <1>4 DEF f, ContentsAfter, LinkStep, RegisterStep
  <2>. QED  BY <2>1, <2>2, <2>3 DEF NodeStep
<1>14. ASSUME ApplyNode(w)
      PROVE  NodeStep(w, f)
  <2>. USE <1>14 DEF ApplyNode
  <2>1. OnlyFileChanges(w, f)
    BY <1>3, <1>4 DEF f, TouchParentOf, OnlyFileChanges
  <2>2. PlaceAfter(w, f)
    BY <1>3, <1>4 DEF f, PlaceAfter, LinkStep, StepFits
  <2>3. ContentsAfter(w, f)
    BY <1>3, <1>4 DEF f, ContentsAfter, LinkStep, RegisterStep
  <2>. QED  BY <2>1, <2>2, <2>3 DEF NodeStep
<1>15. ASSUME SetHardlinkedPath(w)
      PROVE  NodeStep(w, f)
  <2>. USE <1>15 DEF SetHardlinkedPath
  <2>1. OnlyFileChanges(w, f)
    BY <1>3, <1>4 DEF f, TouchParentOf, OnlyFileChanges
  <2>2. PlaceAfter(w, f)
    BY <1>3, <1>4 DEF f, PlaceAfter, LinkStep, StepFits
  <2>3. ContentsAfter(w, f)
    BY <1>3, <1>4 DEF f, ContentsAfter, LinkStep, RegisterStep
  <2>. QED  BY <2>1, <2>2, <2>3 DEF NodeStep
<1>16. NodeStep(w, f)
  BY <1>5, <1>6, <1>7, <1>8, <1>9, <1>10, <1>11, <1>12, <1>13, <1>14, <1>15 DEF RestoreNode
<1>. QED  BY <1>1, <1>2, <1>16 DEF f

\* Steps that leave the files alone.
FilesKept ==
  /\ UNCHANGED <<disk, holds, existingPath>>
  /\ \A n \in Inos : hardlinkPathsByInode'[n] \in File
       => hardlinkPathsByInode'[n] = hardlinkPathsByInode[n]
  /\ \A i \in claimed : i \in claimed'

LEMMA OtherSteps ==
  ASSUME WorkInv, [Next]_vars, ~\E w \in Worker : RestoreNode(w), ~StartWorkers
  PROVE  FilesKept
<1>. USE DEF FilesKept, work, files
<1>1. CASE SetUp \/ DidSucceed \/ RequestCancel \/ UNCHANGED vars
  BY <1>1 DEF SetUp, DidSucceed, RequestCancel, vars
<1>3. CASE DidFail
  <2>1. \A n \in Inos : hardlinkPathsByInode'[n] \in File
          => hardlinkPathsByInode'[n] = hardlinkPathsByInode[n]
    BY <1>3, DirectoriesAreMade DEF DidFail, WorkInv
  <2>. QED  BY <1>3, <2>1 DEF DidFail
<1>2. ASSUME NEW w \in Worker, Run(w), ~RestoreNode(w)
      PROVE  FilesKept
  <2>1. CASE ClaimItem(w) \/ AddNextItems(w) \/ LoseNextItems(w)
    BY <2>1 DEF ClaimItem, AddNextItems, LoseNextItems
  <2>2. CASE FindNothing(w) \/ WorkerDidFinish(w) \/ ApplyTree(w) \/ ReportError(w)
    BY <2>2 DEF FindNothing, WorkerDidFinish, ApplyTree, ReportError
  <2>. QED  BY <1>2, <2>1, <2>2 DEF Run
<1>. QED  BY <1>1, <1>2, <1>3 DEF Next, MainThread

\* A path that is offered for links to names with inode n, in the map or in the
\* hands of a worker that asked: nobody works on it any more.
Offered(f, n) ==
  /\ n # 0 /\ StIno[f] = n
  /\ NodeItem(f) \in claimed
  /\ \A w \in Worker : Busy(w) => item[w] # NodeItem(f)
  /\ Kind[f] # "special" => disk[f] = "whole"

OfferInv ==
  \A f \in File, n \in Inos :
    /\ hardlinkPathsByInode[n] = f => Offered(f, n)
    /\ \A w \in Worker :
         pc[w] = "link" /\ existingPath[w] = f /\ StIno[item[w].path] = n => Offered(f, n)

FileInv == StepFits /\ OfferInv

\* Where a worker may be after a step that does not restore a node.
OtherPlace(v) ==
  \/ pc'[v] = pc[v] /\ item'[v] = item[v]
  \/ pc'[v] \in {"nextItem", "finishing", "exited"} /\ item'[v] = item[v]
  \/ pc[v] = "apply" /\ pc'[v] = "report" /\ item'[v] = item[v]
  \/ /\ item'[v] \in claimed' \ claimed
     /\ item'[v].action \in {"tree", "apply", "node"}
     /\ pc'[v] = IF item'[v].action = "tree" THEN "nextItems" ELSE item'[v].action

LEMMA OtherPlaces ==
  ASSUME WorkInv, [Next]_vars, ~\E w \in Worker : RestoreNode(w), NEW v \in Worker
  PROVE  OtherPlace(v)
<1>. USE DEF OtherPlace, Goto, work
<1>0. /\ pc \in [Worker -> {"unborn", "nextItem", "nextItems", "node", "link",
                        "create", "write", "attributes", "register", "apply",
                        "report", "finishing", "exited"}]
      /\ item \in [Worker -> Item \cup {None}]
  BY DEF WorkInv, TypeOK
<1>1. CASE SetUp \/ DidFail \/ DidSucceed \/ RequestCancel \/ UNCHANGED vars
  BY <1>1 DEF SetUp, DidFail, DidSucceed, RequestCancel, vars
<1>2. CASE StartWorkers
  BY <1>2 DEF StartWorkers, Busy
<1>3. ASSUME NEW w \in Worker, Run(w), ~RestoreNode(w)
      PROVE  OtherPlace(v)
  <2>1. CASE ClaimItem(w)
    <3>. DEFINE next == Last(standardRestoreItems)
    <3>1. next \in Item /\ next \notin claimed
      BY <2>1, FrontOfInjective DEF WorkInv, TypeOK, UniqueWork, ClaimItem
    <3>2. next.action \in {"tree", "apply", "node"}
      BY <3>1 DEF Item
    <3>. QED  BY <1>0, <2>1, <3>1, <3>2 DEF ClaimItem
  <2>2. CASE AddNextItems(w) \/ LoseNextItems(w)
    BY <1>0, <2>2 DEF AddNextItems, LoseNextItems, Busy
  <2>3. CASE FindNothing(w) \/ WorkerDidFinish(w)
    BY <1>0, <2>3 DEF FindNothing, WorkerDidFinish, Busy
  <2>4. CASE ApplyTree(w) \/ ReportError(w)
    BY <1>0, <2>4 DEF ApplyTree, ReportError, Busy
  <2>. QED  BY <1>3, <2>1, <2>2, <2>3, <2>4 DEF Run
<1>. QED  BY <1>1, <1>2, <1>3 DEF Next, MainThread

\* An offered path stays as it is: its item was restored and is not claimed again.
LEMMA OfferedStays ==
  ASSUME WorkInv, StepFits, [Next]_vars, ~StartWorkers, NEW f \in File, NEW n, Offered(f, n)
  PROVE  Offered(f, n)'
<1>1. ASSUME NEW w \in Worker, RestoreNode(w)
      PROVE  Offered(f, n)'
  <2>. DEFINE g == item[w].path
  <2>1. /\ g \in File /\ item[w] = NodeItem(g) /\ Busy(w)
        /\ UNCHANGED <<claimed, item>> /\ NodeStep(w, g)
    BY <1>1, RestoreNodeStep, FileItem DEF Busy, work
  <2>. HIDE DEF g
  <2>2. f # g
    BY <2>1 DEF Offered
  <2>3. disk'[f] = disk[f]
    BY <2>1, <2>2 DEF NodeStep, OnlyFileChanges
  <2>4. \A v \in Worker : Busy(v)' => item'[v] # NodeItem(f)
    BY <2>1, <2>2 DEF NodeStep, OnlyFileChanges, Busy, Offered, NodeItem
  <2>. QED  BY <2>1, <2>3, <2>4 DEF Offered
<1>2. CASE ~\E w \in Worker : RestoreNode(w)
  <2>1. FilesKept
    BY <1>2, OtherSteps
  <2>2. ASSUME NEW v \in Worker, Busy(v)'
        PROVE  item'[v] # NodeItem(f)
    <3>1. OtherPlace(v)
      BY <1>2, OtherPlaces
    <3>. QED  BY <2>2, <3>1 DEF OtherPlace, Offered, Busy
  <2>. QED  BY <2>1, <2>2 DEF Offered, FilesKept
<1>. QED  BY <1>1, <1>2

LEMMA NextStepFits ==
  ASSUME WorkInv, StepFits, [Next]_vars
  PROVE  StepFits'
<1>1. ASSUME NEW w \in Worker, RestoreNode(w)
      PROVE  StepFits'
  <2>. DEFINE f == item[w].path
  <2>1. /\ f \in File /\ item[w] = NodeItem(f) /\ Busy(w)
        /\ UNCHANGED item /\ NodeStep(w, f)
    BY <1>1, RestoreNodeStep, FileItem DEF Busy
  <2>2. /\ pc'[w] \in {"nextItem", "link", "create", "write", "attributes", "register", "report"}
        /\ pc'[w] = "attributes" => disk'[f] = "whole"
        /\ pc'[w] = "register" => disk'[f] = "whole" \/ Kind[f] = "special"
        /\ item[w].action = "node"
    BY <2>1 DEF NodeStep, PlaceAfter, NodeItem
  <2>3. ASSUME NEW v \in Worker \ {w}
        PROVE  /\ pc'[v] = pc[v]
               /\ pc[v] \in {"attributes", "register"} => disk'[item[v].path] = disk[item[v].path]
    <3>1. pc'[v] = pc[v]
      BY <2>1 DEF NodeStep, OnlyFileChanges
    <3>2. CASE pc[v] \in {"attributes", "register"}
      <4>1. item[v].path \in File /\ item[v] = NodeItem(item[v].path) /\ item[v] # item[w]
        BY <2>1, <3>2, FileItem DEF WorkInv, UniqueWork, Busy
      <4>2. item[v].path # f
        BY <2>1, <4>1
      <4>. QED  BY <2>1, <3>1, <4>1, <4>2 DEF NodeStep, OnlyFileChanges
    <3>. QED  BY <3>1, <3>2
  <2>. QED  BY <2>1, <2>2, <2>3 DEF StepFits
<1>2. CASE ~(\E w \in Worker : RestoreNode(w)) /\ ~StartWorkers
  <2>1. UNCHANGED disk
    BY <1>2, OtherSteps DEF FilesKept
  <2>2. \A v \in Worker : OtherPlace(v)
    BY <1>2, OtherPlaces
  <2>. QED  BY <2>1, <2>2 DEF StepFits, OtherPlace
<1>3. CASE StartWorkers
  BY <1>3 DEF StartWorkers, StepFits
<1>. QED  BY <1>1, <1>2, <1>3

LEMMA NextOffer ==
  ASSUME WorkInv, FileInv, [Next]_vars
  PROVE  OfferInv'
<1>. USE DEF FileInv
<1>0. hardlinkPathsByInode \in [Inos -> Path \cup {None}]
  BY DEF WorkInv, TypeOK
<1>1. ASSUME NEW w \in Worker, RestoreNode(w)
      PROVE  OfferInv'
  <2>. DEFINE f == item[w].path
  <2>1. /\ f \in File /\ f \in Path /\ item[w] = NodeItem(f) /\ Busy(w) /\ item[w] \in claimed
        /\ UNCHANGED <<item, claimed>> /\ NodeStep(w, f) /\ ~StartWorkers
    BY <1>1, RestoreNodeStep, FileItem DEF Busy, StartWorkers, work, WorkInv, Unstarted
  <2>. HIDE DEF f
  <2>2. StIno[f] \in Inos
    BY <2>1 DEF Inos
  <2>3. \A g \in File, n \in Inos : Offered(g, n) => Offered(g, n)'
    BY <2>1, OfferedStays
  <2>4. ASSUME NEW g \in File, NEW n \in Inos, hardlinkPathsByInode'[n] = g
        PROVE  Offered(g, n)'
    <3>1. CASE hardlinkPathsByInode'[n] = hardlinkPathsByInode[n]
      BY <2>3, <2>4, <3>1 DEF OfferInv
    <3>2. CASE hardlinkPathsByInode'[n] # hardlinkPathsByInode[n]
      <4>1. pc'[w] = "nextItem" /\ RegisterStep(w, f)
        BY <3>2, <2>1 DEF NodeStep, ContentsAfter
      <4>2. n = StIno[f] /\ g = f /\ n # 0
        BY <1>0, <2>2, <2>4, <3>2, <4>1 DEF RegisterStep
      <4>3. \A v \in Worker : Busy(v)' => item'[v] # NodeItem(f)
        BY <2>1, <4>1 DEF NodeStep, OnlyFileChanges, Busy, WorkInv, UniqueWork
      <4>4. Kind[f] # "special" => disk'[f] = "whole"
        BY <4>1 DEF RegisterStep, StepFits, f
      <4>. QED  BY <2>1, <4>2, <4>3, <4>4 DEF Offered
    <3>. QED  BY <3>1, <3>2
  <2>5. ASSUME NEW g \in File, NEW n \in Inos, NEW v \in Worker,
               pc'[v] = "link", existingPath'[v] = g, StIno[item'[v].path] = n
        PROVE  Offered(g, n)'
    <3>1. CASE v = w
      <4>1. hardlinkPathsByInode[n] = g
        BY <2>1, <2>5, <3>1 DEF NodeStep, PlaceAfter, f
      <4>. QED  BY <2>3, <4>1 DEF OfferInv
    <3>2. CASE v # w
      BY <2>1, <2>3, <2>5, <3>2 DEF OfferInv, NodeStep, OnlyFileChanges
    <3>. QED  BY <3>1, <3>2
  <2>. QED  BY <2>4, <2>5 DEF OfferInv
<1>2. CASE ~(\E w \in Worker : RestoreNode(w)) /\ ~StartWorkers
  <2>1. FilesKept
    BY <1>2, OtherSteps
  <2>2. \A v \in Worker : OtherPlace(v)
    BY <1>2, OtherPlaces
  <2>3. \A v \in Worker : pc'[v] = "link" => pc[v] = "link" /\ item'[v] = item[v]
    BY <2>2 DEF OtherPlace
  <2>4. \A g \in File, n \in Inos : Offered(g, n) => Offered(g, n)'
    BY <1>2, OfferedStays
  <2>. QED  BY <2>1, <2>3, <2>4 DEF OfferInv, FilesKept
<1>3. CASE StartWorkers
  <2>1. claimed = {}
    BY <1>3 DEF StartWorkers, WorkInv, Unstarted, Known
  <2>2. \A n \in Inos : hardlinkPathsByInode[n] \notin File
    BY <2>1 DEF OfferInv, Offered
  <2>3. \A n \in Inos : hardlinkPathsByInode'[n] \notin File
    <3>1. PICK made \in SUBSET Dir : CreateDirectoryTree(made)
      BY <1>3 DEF StartWorkers
    <3>2. \A n \in Inos :
            (\E d \in made \ dirs : StIno[d] = n)
              => (CHOOSE d \in made \ dirs : StIno[d] = n) \in Dir
      BY <3>1
    <3>. QED  BY <2>2, <3>1, <3>2, BackupAssumption DEF CreateDirectoryTree
  <2>. QED  BY <1>3, <2>3 DEF StartWorkers, OfferInv
<1>. QED  BY <1>1, <1>2, <1>3

LEMMA FileInvariant == Spec => []FileInv
<1>1. Init => FileInv
  <2>. SUFFICES ASSUME Init PROVE FileInv
    OBVIOUS
  <2>1. \A n \in Inos : hardlinkPathsByInode[n] \notin File
    BY BackupAssumption DEF Init, Path
  <2>. QED  BY <2>1 DEF Init, FileInv, StepFits, OfferInv
<1>2. WorkInv /\ FileInv /\ [Next]_vars => FileInv'
  BY NextStepFits, NextOffer DEF FileInv
<1>. QED  BY <1>1, <1>2, WorkInvariant, PTL DEF Spec

\* A path is offered for hard links only when its data is complete, and stays
\* so, whatever other workers write, give up or remove.
THEOREM OfferedIsWhole == Spec => []RegisteredIsComplete
<1>1. FileInv => RegisteredIsComplete
  BY DEF FileInv, OfferInv, Offered, RegisteredIsComplete
<1>. QED  BY <1>1, FileInvariant, PTL

\* An inode number of the record stands for one file, as it does where all of
\* the folder was on one volume.
OneVolume ==
  \A f, g \in File :
    StIno[f] = StIno[g] /\ StIno[f] # 0 => FileId[f] = FileId[g] /\ Kind[f] = Kind[g]

\* A link is made to a path with the same inode number.
LEMMA LinkedTo ==
  ASSUME WorkInv, FileInv, NEW w \in Worker, RestoreNode(w), LinkStep(w, item[w].path)
  PROVE  \E g \in File : /\ Offered(g, StIno[item[w].path])
                         /\ disk'[item[w].path] = disk[g]
                         /\ holds'[item[w].path] = holds[g]
<1>. DEFINE f == item[w].path
<1>1. f \in File /\ StIno[f] \in Inos
  BY RestoreNodeStep, FileItem DEF FileInv, Inos
<1>2. Offered(existingPath[w], StIno[f])
  BY <1>1 DEF FileInv, OfferInv, LinkStep
<1>. QED  BY <1>2 DEF LinkStep

LEMMA NextLinks ==
  ASSUME OneVolume, WorkInv, FileInv, LinksAreOneFile, [Next]_vars
  PROVE  LinksAreOneFile'
<1>1. ASSUME NEW w \in Worker, RestoreNode(w)
      PROVE  LinksAreOneFile'
  <2>. DEFINE f == item[w].path
  <2>1. f \in File /\ NodeStep(w, f)
    BY <1>1, RestoreNodeStep, FileItem DEF FileInv
  <2>2. LinkStep(w, f) => \E g \in File : /\ Offered(g, StIno[f])
                                          /\ disk'[f] = disk[g] /\ holds'[f] = holds[g]
    BY <1>1, LinkedTo
  <2>. HIDE DEF f
  <2>3. disk'[f] = "whole" => FileId[holds'[f]] = FileId[f]
    BY <2>1, <2>2 DEF NodeStep, ContentsAfter, LinksAreOneFile, Offered, OneVolume
  <2>. QED  BY <2>1, <2>3 DEF NodeStep, OnlyFileChanges, LinksAreOneFile
<1>2. CASE ~(\E w \in Worker : RestoreNode(w)) /\ ~StartWorkers
  BY <1>2, OtherSteps DEF FilesKept, LinksAreOneFile
<1>3. CASE StartWorkers
  BY <1>3 DEF StartWorkers, LinksAreOneFile
<1>. QED  BY <1>1, <1>2, <1>3

\* Where inode numbers identify files, paths share contents on disk only when
\* they were one file, however the workers' steps interleave.
THEOREM LinkedPathsWereOne == OneVolume /\ Spec => []LinksAreOneFile
<1>1. Init => LinksAreOneFile
  BY RecordAssumption DEF Init, LinksAreOneFile
<1>. DEFINE Inv == OneVolume /\ LinksAreOneFile
<1>2. OneVolume /\ Init => Inv
  BY <1>1
<1>3. WorkInv /\ FileInv /\ Inv /\ [Next]_vars => Inv'
  BY NextLinks
<1>4. Inv => LinksAreOneFile
  OBVIOUS
<1>. HIDE DEF Inv
<1>. QED  BY <1>2, <1>3, <1>4, WorkInvariant, FileInvariant, PTL DEF Spec

(***************************************************************************)
(* A restore that succeeds.                                                *)
(***************************************************************************)

\* Settled, but for what is below a tree and was not taken up yet.
SettledSoFar(i) ==
  \/ i.action = "tree" /\ (i.path \in lost \/ Range(NextItems(i.path)) \subseteq Known)
  \/ i.action = "node" /\ \/ i.path \in reported
                          \/ Kind[i.path] = "special"
                          \/ disk[i.path] \in {"whole", "same"}
  \/ i.action = "apply" /\ (i.path \in reported \/ attrs[i.path] # "unset")

SettledInv ==
  /\ \A i \in claimed : SettledSoFar(i) \/ \E w \in Worker : Busy(w) /\ item[w] = i
  /\ main \in {"waiting", "succeeded"} => FirstItem \in Known

LEMMA RestoreNodeSettles ==
  ASSUME OneVolume, WorkInv, FileInv, SettledInv, NEW w \in Worker, RestoreNode(w)
  PROVE  SettledInv'
<1>. DEFINE f == item[w].path
<1>1. /\ f \in File /\ item[w] = NodeItem(f) /\ Busy(w) /\ NodeStep(w, f)
      /\ UNCHANGED <<main, standardRestoreItems, claimed, lost, item, reported>>
  BY RestoreNodeStep, FileItem DEF FileInv, Busy, work
<1>2. LinkStep(w, f) => \E g \in File : Offered(g, StIno[f]) /\ disk'[f] = disk[g]
  BY LinkedTo
<1>. HIDE DEF f
<1>3. Known' = Known
  BY <1>1 DEF Known
<1>4. ASSUME NEW i \in claimed
      PROVE  SettledSoFar(i)' \/ \E v \in Worker : Busy(v)' /\ item'[v] = i
  <2>0. i \in Item
    BY DEF WorkInv, TypeOK
  <2>1. CASE i = NodeItem(f)
    <3>1. CASE pc'[w] = "nextItem"
      <4>1. Kind[f] = "special" \/ disk'[f] \in {"whole", "same"}
        <5>1. LinkStep(w, f) => Kind[f] = "special" \/ disk'[f] = "whole"
          BY <1>1, <1>2 DEF Offered, OneVolume
        <5>. QED  BY <1>1, <3>1, <5>1 DEF NodeStep, PlaceAfter
      <4>. QED  BY <2>1, <4>1 DEF SettledSoFar, NodeItem
    <3>2. CASE pc'[w] # "nextItem"
      BY <1>1, <2>1, <3>2 DEF NodeStep, PlaceAfter, Busy
    <3>. QED  BY <3>1, <3>2
  <2>2. CASE i # NodeItem(f) /\ \E v \in Worker : Busy(v) /\ item[v] = i
    BY <1>1, <2>2 DEF NodeStep, OnlyFileChanges, Busy
  <2>3. CASE i # NodeItem(f) /\ SettledSoFar(i)
    <3>1. i.action = "node" => i.path \in File /\ i.path # f
      BY <2>0, <2>3 DEF Item, NodeItem
    <3>2. i.action = "apply" => i.path \in Dir
      BY <2>0 DEF Item
    <3>. QED  BY <1>1, <1>3, <2>3, <3>1, <3>2 DEF SettledSoFar, NodeStep, OnlyFileChanges
  <2>. QED  BY <2>1, <2>2, <2>3 DEF SettledInv
<1>. QED  BY <1>1, <1>3, <1>4 DEF SettledInv

\* A step that does not restore a node undoes nothing that was settled.
LEMMA SettledStays ==
  ASSUME WorkInv, FileInv, [Next]_vars, ~\E w \in Worker : RestoreNode(w), ~StartWorkers
  PROVE  /\ Known \subseteq Known' /\ lost \subseteq lost' /\ reported \subseteq reported'
         /\ \A i \in claimed : SettledSoFar(i) => SettledSoFar(i)'
<1>1. UNCHANGED disk
  BY OtherSteps DEF FilesKept
<1>2. /\ Known \subseteq Known' /\ lost \subseteq lost' /\ reported \subseteq reported'
      /\ \A d \in Dir : attrs[d] # "unset" => attrs'[d] # "unset"
  <2>. USE DEF work, files, delegate, Known
  <2>1. CASE SetUp \/ DidFail \/ DidSucceed \/ RequestCancel \/ UNCHANGED vars
    BY <2>1 DEF SetUp, DidFail, DidSucceed, RequestCancel, vars
  <2>2. ASSUME NEW w \in Worker, Run(w), ~RestoreNode(w)
        PROVE  <1>2
    <3>1. CASE ClaimItem(w)
      <4>1. Range(standardRestoreItems') = Range(standardRestoreItems) \ {Last(standardRestoreItems)}
        BY <3>1, FrontOfInjective DEF WorkInv, TypeOK, UniqueWork, ClaimItem
      <4>. QED  BY <3>1, <4>1 DEF ClaimItem
    <3>2. CASE AddNextItems(w)
      <4>1. item[w].path \in Dir
        BY <3>2, BusyItem DEF Busy, AddNextItems
      <4>2. NextItems(item[w].path) \in Seq(Item) /\ standardRestoreItems \in Seq(Item)
        BY <4>1, NextItemsOf DEF WorkInv, TypeOK
      <4>3. Range(standardRestoreItems') = Range(standardRestoreItems) \cup Range(NextItems(item[w].path))
        BY <3>2, <4>2, RangeConcatenation DEF AddNextItems
      <4>. QED  BY <3>2, <4>3 DEF AddNextItems
    <3>3. CASE LoseNextItems(w) \/ FindNothing(w) \/ WorkerDidFinish(w) \/ ReportError(w)
      BY <3>3 DEF LoseNextItems, FindNothing, WorkerDidFinish, ReportError
    <3>4. CASE ApplyTree(w)
      BY <3>4 DEF ApplyTree, WorkInv, TypeOK
    <3>. QED  BY <2>2, <3>1, <3>2, <3>3, <3>4 DEF Run
  <2>. QED  BY <2>1, <2>2 DEF Next, MainThread
<1>3. \A i \in claimed : i \in Item /\ (i.action = "apply" => i.path \in Dir)
  BY DEF WorkInv, TypeOK, Item
<1>. QED  BY <1>1, <1>2, <1>3 DEF SettledSoFar

\* A worker that is done with an item has settled it.
LEMMA DoneIsSettled ==
  ASSUME WorkInv, FileInv, NEW w \in Worker, Run(w), ~RestoreNode(w), Busy(w), ~Busy(w)'
  PROVE  SettledSoFar(item[w])'
<1>. USE DEF Goto
<1>1. CASE AddNextItems(w) \/ LoseNextItems(w)
  <2>1. item[w].path \in Dir /\ item[w].action = "tree"
    <3>1. pc[w] = "nextItems"
      BY <1>1 DEF AddNextItems, LoseNextItems
    <3>. QED  BY <3>1, BusyItem DEF Busy, WorkInv, ItemFits
  <2>2. UNCHANGED item
    BY <1>1 DEF AddNextItems, LoseNextItems
  <2>3. CASE AddNextItems(w)
    <3>1. NextItems(item[w].path) \in Seq(Item) /\ standardRestoreItems \in Seq(Item)
      BY <2>1, NextItemsOf DEF WorkInv, TypeOK
    <3>2. Range(NextItems(item[w].path)) \subseteq Range(standardRestoreItems')
      BY <2>3, <3>1, RangeConcatenation DEF AddNextItems
    <3>. QED  BY <2>1, <2>2, <3>2 DEF SettledSoFar, Known
  <2>4. CASE LoseNextItems(w)
    BY <2>1, <2>2, <2>4 DEF LoseNextItems, SettledSoFar
  <2>. QED  BY <1>1, <2>3, <2>4
<1>2. CASE ApplyTree(w)
  <2>1. item[w].action = "apply" /\ UNCHANGED item
    BY <1>2 DEF ApplyTree, FileInv, StepFits
  <2>2. pc'[w] = "nextItem"
    BY <1>2 DEF ApplyTree, Busy, WorkInv, TypeOK
  <2>3. dirs \subseteq Dir /\ attrs \in [Dir -> {"unset", "restored", "skipped", "stale"}]
    BY DEF WorkInv, TypeOK
  <2>4. attrs'[item[w].path] \in {"restored", "skipped"}
    <3>1. CASE UNCHANGED attrs /\ Goto(w, "report")
      BY <1>2, <2>2, <3>1 DEF WorkInv, TypeOK
    <3>2. CASE /\ item[w].path \in dirs
               /\ \E done \in {"restored", "skipped"} : attrs' = [attrs EXCEPT ![item[w].path] = done]
      BY <2>3, <3>2
    <3>. QED  BY <1>2, <3>1, <3>2 DEF ApplyTree
  <2>. QED  BY <2>1, <2>4 DEF SettledSoFar
<1>3. CASE ReportError(w)
  <2>1. item[w] \in Item /\ item[w].action # "tree" /\ UNCHANGED item
    BY <1>3, BusyItem DEF ReportError, FileInv, StepFits
  <2>2. item[w].action \in {"node", "apply"}
    BY <2>1 DEF Item
  <2>. QED  BY <1>3, <2>1, <2>2 DEF ReportError, SettledSoFar
<1>4. CASE ClaimItem(w) \/ FindNothing(w) \/ WorkerDidFinish(w)
  BY <1>4 DEF ClaimItem, FindNothing, WorkerDidFinish, Busy
<1>. QED  BY <1>1, <1>2, <1>3, <1>4 DEF Run

\* Only ClaimItem gives a worker an item, and no worker moves another one.
LEMMA ItemStays ==
  ASSUME WorkInv, FileInv, [Next]_vars, ~StartWorkers, NEW v \in Worker
  PROVE  /\ ~Run(v) => pc'[v] = pc[v]
         /\ ~ClaimItem(v) => item'[v] = item[v]
<1>1. CASE SetUp \/ DidFail \/ DidSucceed \/ RequestCancel \/ UNCHANGED vars
  BY <1>1 DEF SetUp, DidFail, DidSucceed, RequestCancel, vars
<1>2. ASSUME NEW w \in Worker, Run(w)
      PROVE  /\ v # w => pc'[v] = pc[v]
             /\ ~ClaimItem(v) => item'[v] = item[v]
  <2>. USE DEF Goto
  <2>1. v # w => pc'[v] = pc[v]
    BY <1>2, WorkerSteps DEF WorkerDidFinish, WorkInv, TypeOK
  <2>2. CASE ClaimItem(w)
    BY <2>1, <2>2 DEF ClaimItem, WorkInv, TypeOK
  <2>3. CASE RestoreNode(w)
    BY <2>1, <2>3, RestoreNodeStep DEF FileInv
  <2>4. CASE AddNextItems(w) \/ LoseNextItems(w) \/ FindNothing(w) \/ WorkerDidFinish(w)
             \/ ApplyTree(w) \/ ReportError(w)
    BY <2>1, <2>4 DEF AddNextItems, LoseNextItems, FindNothing, WorkerDidFinish,
                      ApplyTree, ReportError
  <2>. QED  BY <1>2, <2>1, <2>2, <2>3, <2>4 DEF Run
<1>. QED  BY <1>1, <1>2 DEF Next, MainThread

\* An item that is claimed is in the hands of the worker that claimed it.
LEMMA NewlyClaimed ==
  ASSUME WorkInv, [Next]_vars, NEW i \in claimed', i \notin claimed
  PROVE  \E w \in Worker : Busy(w)' /\ item'[w] = i
<1>1. CASE SetUp \/ StartWorkers \/ DidFail \/ DidSucceed \/ RequestCancel \/ UNCHANGED vars
  BY <1>1 DEF SetUp, StartWorkers, DidFail, DidSucceed, RequestCancel, vars, work
<1>2. ASSUME NEW w \in Worker, Run(w)
      PROVE  \E v \in Worker : Busy(v)' /\ item'[v] = i
  <2>. USE DEF work
  <2>1. CASE ClaimItem(w)
    <3>1. i = Last(standardRestoreItems) /\ i \in Item
      BY <2>1, FrontOfInjective DEF ClaimItem, WorkInv, TypeOK, UniqueWork
    <3>2. i.action \in {"tree", "apply", "node"}
      BY <3>1 DEF Item
    <3>. QED  BY <2>1, <3>1, <3>2 DEF ClaimItem, Goto, Busy, WorkInv, TypeOK
  <2>2. CASE AddNextItems(w) \/ LoseNextItems(w) \/ FindNothing(w) \/ WorkerDidFinish(w)
             \/ ApplyTree(w) \/ ReportError(w)
    BY <2>2 DEF AddNextItems, LoseNextItems, FindNothing, WorkerDidFinish,
                ApplyTree, ReportError
  <2>3. CASE KeepNewer(w) \/ KeepSame(w) \/ HardlinkedPathForInode(w) \/ Link(w)
    BY <2>3 DEF KeepNewer, KeepSame, HardlinkedPathForInode, Link
  <2>4. CASE OpenFile(w) \/ WriteFile(w) \/ CreateWhole(w) \/ SkipSpecial(w)
    BY <2>4 DEF OpenFile, WriteFile, CreateWhole, SkipSpecial
  <2>5. CASE FailToCreate(w) \/ FailToWrite(w) \/ ApplyNode(w) \/ SetHardlinkedPath(w)
    BY <2>5 DEF FailToCreate, FailToWrite, ApplyNode, SetHardlinkedPath
  <2>. QED  BY <1>2, <2>1, <2>2, <2>3, <2>4, <2>5 DEF Run, RestoreNode
<1>. QED  BY <1>1, <1>2 DEF Next, MainThread

LEMMA NextSettled ==
  ASSUME OneVolume, WorkInv, FileInv, SettledInv, [Next]_vars
  PROVE  SettledInv'
<1>1. CASE \E w \in Worker : RestoreNode(w)
  BY <1>1, RestoreNodeSettles
<1>2. CASE StartWorkers
  <2>1. claimed' = {}
    BY <1>2 DEF StartWorkers, WorkInv, Unstarted, Known
  <2>2. FirstItem \in Known'
    BY <1>2 DEF StartWorkers, Known, Range
  <2>. QED  BY <2>1, <2>2 DEF SettledInv
<1>3. CASE ~(\E w \in Worker : RestoreNode(w)) /\ ~StartWorkers
  <2>1. /\ Known \subseteq Known'
        /\ \A i \in claimed : SettledSoFar(i) => SettledSoFar(i)'
    BY <1>3, SettledStays
  <2>2. main' \in {"waiting", "succeeded"} => main \in {"waiting", "succeeded"}
    <3>1. CASE SetUp \/ DidFail \/ DidSucceed \/ RequestCancel \/ UNCHANGED vars
      BY <3>1 DEF SetUp, DidFail, DidSucceed, RequestCancel, vars
    <3>. QED  BY <1>3, <3>1, WorkerSteps DEF Next, MainThread
  <2>3. ASSUME NEW i \in claimed, NEW v \in Worker, Busy(v), item[v] = i
        PROVE  SettledSoFar(i)' \/ (Busy(v)' /\ item'[v] = i)
    <3>1. ~ClaimItem(v)
      BY <2>3 DEF ClaimItem, Busy
    <3>2. item'[v] = i
      BY <1>3, <2>3, <3>1, ItemStays
    <3>3. CASE ~Run(v)
      BY <1>3, <2>3, <3>2, <3>3, ItemStays DEF Busy
    <3>4. CASE Run(v) /\ ~Busy(v)'
      <4>1. SettledSoFar(item[v])'
        BY <1>3, <2>3, <3>4, DoneIsSettled
      <4>. QED  BY <2>3, <3>2, <4>1
    <3>. QED  BY <3>2, <3>3, <3>4
  <2>4. ASSUME NEW i \in claimed', i \notin claimed
        PROVE  \E w \in Worker : Busy(w)' /\ item'[w] = i
    BY <2>4, NewlyClaimed
  <2>5. \A i \in claimed' : SettledSoFar(i)' \/ \E w \in Worker : Busy(w)' /\ item'[w] = i
    BY <2>1, <2>3, <2>4 DEF SettledInv
  <2>. QED  BY <2>1, <2>2, <2>5 DEF SettledInv
<1>. QED  BY <1>1, <1>2, <1>3

\* When the restore succeeds no worker has an item in hand and none is left.
LEMMA SuccessIsComplete ==
  ASSUME WorkInv, EndInv, SettledInv
  PROVE  SuccessIsSettled
<1>. SUFFICES ASSUME main = "succeeded", ~cancelRequested
              PROVE  /\ FirstItem \in claimed
                     /\ \A i \in claimed : Settled(i)
                     /\ \A w \in Worker : pc[w] = "exited"
  BY DEF SuccessIsSettled
<1>1. \A w \in Worker : pc[w] = "exited"
  BY DEF EndInv, Exited
<1>2. Known = claimed
  BY <1>1, WorkerAssumption DEF WorkInv, NoStrandedWork, Known, Range
<1>3. ASSUME NEW i \in claimed
      PROVE  Settled(i)
  <2>1. i \in Item /\ SettledSoFar(i)
    BY <1>1 DEF SettledInv, Busy, WorkInv, TypeOK
  <2>2. i.action \in {"tree", "apply", "node"}
    BY <2>1 DEF Item
  <2>3. CASE i.action = "tree"
    <3>1. i.path \in lost \/ Range(NextItems(i.path)) \subseteq claimed
      BY <1>2, <2>1, <2>3 DEF SettledSoFar
    <3>. QED  BY <2>3, <3>1 DEF Settled
  <2>4. CASE i.action = "node"
    BY <2>1, <2>4 DEF Settled, SettledSoFar
  <2>5. CASE i.action = "apply"
    BY <2>1, <2>5 DEF Settled, SettledSoFar
  <2>. QED  BY <2>2, <2>3, <2>4, <2>5
<1>. QED  BY <1>1, <1>2, <1>3 DEF SettledInv

\* Where inode numbers identify files, standardRestorerDidSucceed is sent only
\* when every item was taken up and is on disk or has its error reported.
THEOREM SuccessLeavesNothing == OneVolume /\ Spec => []SuccessIsSettled
<1>1. Init => SettledInv
  BY DEF Init, SettledInv
<1>. DEFINE Inv == OneVolume /\ SettledInv
<1>2. OneVolume /\ Init => Inv
  BY <1>1
<1>3. WorkInv /\ FileInv /\ Inv /\ [Next]_vars => Inv'
  BY NextSettled
<1>4. WorkInv /\ EndInv /\ Inv => SuccessIsSettled
  BY SuccessIsComplete
<1>. HIDE DEF Inv
<1>. QED  BY <1>2, <1>3, <1>4, WorkInvariant, FileInvariant, EndInvariant, PTL DEF Spec
===================================================================================
