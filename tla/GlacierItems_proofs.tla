------------------------- MODULE GlacierItems_proofs -------------------------
(***************************************************************************)
(* What the items of a restore from Glacier stand for, for every backup:   *)
(* the lemmas that the proofs about S3GlacierRestorer and GlacierRestorer  *)
(* share.                                                                  *)
(***************************************************************************)
EXTENDS GlacierItems, Tree_proofs, SequenceTheorems, FiniteSetTheorems

RequestItems == [path : Path, index : Nat]

\* An item of a file's data is about a blob that the file has.
InRange(i) == i.action = "data" => i.index < Len(Data[i.path])
GoodItem == {i \in RestoreItem : InRange(i)}

Pending(s, p) == \E k \in 1..Len(s) : p \in Covers(s[k])

\* No path is stood for twice.
CoverOnce(s) ==
  \A j, k \in 1..Len(s) : j # k => Covers(s[j]) \cap Covers(s[k]) = {}

\* Nothing below a tree comes after the item that applies its attributes.
AppliedLast(s) ==
  \A j, k \in 1..Len(s) :
    j < k /\ s[j].action = "apply" => Covers(s[k]) \cap Below(s[j].path) = {}

\* Only the first item continues a file.
OneOpen(s) == \A k \in 2..Len(s) : s[k].action # "data"

InOrder(s) == s \in Seq(GoodItem) /\ CoverOnce(s) /\ AppliedLast(s) /\ OneOpen(s)

\* What may come in the place of an item: items in order, about nothing that
\* the item did not stand for.
Follows(next, item) ==
  /\ InOrder(next)
  /\ \A k \in 1..Len(next) :
       /\ Covers(next[k]) \subseteq Covers(item)
       /\ next[k].action = "apply" => Below(next[k].path) \subseteq Covers(item)

\* The blobs that a request item leads to.
Asks(i) ==
  IF i.path \in Dir
    THEN IF i.index <= 1 THEN UNION {BlobsOf(p) : p \in Within(i.path)} ELSE {}
    ELSE (IF i.index = 0 THEN AttrBlobs(i.path) ELSE {})
           \cup {Data[i.path][k] : k \in {n \in DOMAIN Data[i.path] : n > i.index}}
Asked(s, b) == \E k \in 1..Len(s) : b \in Asks(s[k])

(***************************************************************************)
(* Sequences.                                                              *)
(***************************************************************************)

\* The elements of a list whose head was replaced: the new ones, then those
\* that came after the head.
LEMMA Replaced ==
  ASSUME NEW S, NEW s \in Seq(S), s # <<>>, NEW next \in Seq(S)
  PROVE  LET t == next \o Tail(s) IN
         /\ Head(s) \in S /\ Head(s) = s[1] /\ 1 \in 1..Len(s)
         /\ Tail(s) \in Seq(S)
         /\ t \in Seq(S)
         /\ Len(next) \in Nat /\ Len(s) \in Nat
         /\ Len(t) = Len(next) + Len(s) - 1
         /\ \A k \in 1..Len(next) : k \in 1..Len(t) /\ t[k] = next[k]
         /\ \A k \in 2..Len(s) : k + Len(next) - 1 \in 1..Len(t) /\ t[k + Len(next) - 1] = s[k]
         /\ \A k \in 1..Len(t) :
              k \notin 1..Len(next) =>
                k - Len(next) + 1 \in 2..Len(s) /\ t[k] = s[k - Len(next) + 1]
<1>. DEFINE t == next \o Tail(s)
<1>1. /\ Head(s) \in S /\ Head(s) = s[1]
      /\ Tail(s) \in Seq(S) /\ Len(Tail(s)) = Len(s) - 1
      /\ \A k \in 1..Len(Tail(s)) : Tail(s)[k] = s[k + 1]
  BY HeadTailProperties
<1>2. Len(next) \in Nat /\ Len(s) \in Nat /\ Len(s) > 0
  BY LenProperties, EmptySeq
<1>3. /\ t \in Seq(S)
      /\ Len(t) = Len(next) + Len(Tail(s))
      /\ \A k \in 1..Len(next) + Len(Tail(s)) :
           t[k] = IF k <= Len(next) THEN next[k] ELSE Tail(s)[k - Len(next)]
  BY <1>1, ConcatProperties
<1>. HIDE DEF t
<1>4. \A k \in 1..Len(next) : k \in 1..Len(t) /\ t[k] = next[k]
  BY <1>1, <1>2, <1>3
<1>5. ASSUME NEW k \in 2..Len(s)
      PROVE  k + Len(next) - 1 \in 1..Len(t) /\ t[k + Len(next) - 1] = s[k]
  <2>1. k - 1 \in 1..Len(Tail(s)) /\ Tail(s)[k - 1] = s[(k - 1) + 1] /\ (k - 1) + 1 = k
    BY <1>1, <1>2
  <2>2. /\ k + Len(next) - 1 \in 1..Len(next) + Len(Tail(s))
        /\ ~(k + Len(next) - 1 <= Len(next))
        /\ (k + Len(next) - 1) - Len(next) = k - 1
    BY <1>1, <1>2
  <2>. QED  BY <1>3, <2>1, <2>2
<1>6. \A k \in 1..Len(t) :
        k \notin 1..Len(next) =>
          k - Len(next) + 1 \in 2..Len(s) /\ t[k] = s[k - Len(next) + 1]
  BY <1>1, <1>2, <1>3
<1>7. Len(t) = Len(next) + Len(s) - 1
  BY <1>1, <1>2, <1>3
<1>8. 1 \in 1..Len(s)
  BY <1>2
<1>. QED  BY <1>1, <1>2, <1>3, <1>4, <1>5, <1>6, <1>7, <1>8 DEF t

(***************************************************************************)
(* The tree.                                                               *)
(***************************************************************************)
LEMMA Targets == Target \in Path /\ Root \in Path
  BY BackupAssumption DEF Path

LEMMA ChildrenOfDir ==
  ASSUME NEW d \in Dir
  PROVE  /\ Children[d] \in Seq(Path)
         /\ Len(Children[d]) \in Nat
         /\ InSeq(d) \subseteq Path \ {Root}
         /\ InSeq(d) = {Children[d][k] : k \in 1..Len(Children[d])}
         /\ \A k \in 1..Len(Children[d]) : Children[d][k] \in Path /\ Children[d][k] \in InSeq(d)
<1>1. Children[d] \in Seq(Path \ {Root})
  BY BackupAssumption
<1>2. Children[d] \in Seq(Path)
  BY <1>1, SeqMonotonic
<1>3. Len(Children[d]) \in Nat /\ DOMAIN Children[d] = 1..Len(Children[d])
  BY <1>1, LenProperties
<1>4. \A k \in 1..Len(Children[d]) : Children[d][k] \in Path \ {Root}
  BY <1>1, ElementOfSeq
<1>. QED  BY <1>2, <1>3, <1>4 DEF InSeq

\* A path is in one place, its parent.
LEMMA ParentOfChild ==
  ASSUME NEW d \in Dir, NEW c \in InSeq(d)
  PROVE  c \in Path \ {Root} /\ ParentOf(c) = d /\ Parent[c] = d
<1>1. \A e \in Dir : c \in InSeq(e) => e = d
  BY BackupAssumption
<1>2. ParentOf(c) = d
  BY <1>1 DEF ParentOf
<1>. QED  BY <1>2, ChildrenOfDir DEF Parent

LEMMA ParentIsDir ==
  ASSUME NEW p \in Path \ {Root}
  PROVE  Parent[p] = ParentOf(p) /\ ParentOf(p) \in Dir /\ p \in InSeq(ParentOf(p))
<1>. DEFINE seen == {q \in Path : q = Root \/ \E d \in Dir : q \in InSeq(d)}
<1>1. Root \in seen
  BY Targets
<1>2. \A d \in seen \cap Dir : InSeq(d) \subseteq seen
  BY ChildrenOfDir
<1>3. seen = Path
  BY <1>1, <1>2, ReachAssumption
<1>4. \E d \in Dir : p \in InSeq(d)
  BY <1>3
<1>. QED  BY <1>4 DEF ParentOf, Parent

LEMMA BackupIsTree == IsTree(Parent, Root)
<1>1. DOMAIN Parent = Path \ {Root}
  BY DEF Parent
<1>2. DOMAIN Parent \cup {Root} = Path
  BY <1>1, Targets
<1>3. ASSUME NEW seen \in SUBSET Path, Root \in seen,
             \A p \in DOMAIN Parent : Parent[p] \in seen => p \in seen
      PROVE  DOMAIN Parent \subseteq seen
  <2>1. \A d \in seen \cap Dir : InSeq(d) \subseteq seen
    BY <1>1, <1>3, ParentOfChild
  <2>2. seen = Path
    BY <1>3, <2>1, ReachAssumption
  <2>. QED  BY <1>1, <2>2
<1>. QED  BY <1>1, <1>2, <1>3 DEF IsTree

\* What is above a path are directories, the path itself not among them.
LEMMA AboveOf ==
  ASSUME NEW p \in Path
  PROVE  /\ Above[p] = Ancestors(Parent, p)
         /\ Above[p] \subseteq Dir
         /\ p \notin Above[p]
         /\ p # Root => ParentOf(p) \in Above[p] /\ Root \in Above[p]
<1>1. Above[p] = Ancestors(Parent, p)
  BY DEF Above
<1>2. Inner(Parent) \subseteq Dir
  BY ParentIsDir DEF Inner, Parent
<1>3. DOMAIN Parent = Path \ {Root}
  BY DEF Parent
<1>4. p \notin Above[p]
  BY <1>1, <1>3, BackupIsTree, NoCycle, NothingAboveRoot
<1>5. p # Root => ParentOf(p) \in Above[p] /\ Root \in Above[p]
  BY <1>1, <1>3, BackupIsTree, AncestorsClosed, RootIsAbove, ParentIsDir
<1>. QED  BY <1>1, <1>2, <1>4, <1>5, AncestorsClosed

\* Below a file there is nothing, and below the root everything else.
LEMMA BelowOf ==
  /\ \A f \in File : Below(f) = {}
  /\ Within(Root) = Path
  /\ \A p \in Path : p \notin Below(p) /\ Within(p) \subseteq Path
<1>1. \A f \in File : Below(f) = {}
  BY AboveOf, BackupAssumption DEF Below
<1>2. Within(Root) = Path
  BY AboveOf, Targets DEF Within, Below
<1>. QED  BY <1>1, <1>2, AboveOf DEF Within, Below

\* The children of a directory share out what is below it.
LEMMA BelowIsShared ==
  ASSUME NEW d \in Dir
  PROVE  /\ \A c \in InSeq(d) : c \in Path /\ Within(c) \subseteq Below(d)
         /\ \A p \in Below(d) : \E c \in InSeq(d) : p \in Within(c)
         /\ \A b, c \in InSeq(d) : b # c => Within(b) \cap Within(c) = {}
<1>1. ASSUME NEW c \in InSeq(d)
      PROVE  c \in Path /\ c \in DOMAIN Parent /\ Parent[c] = d /\ Within(c) \subseteq Below(d)
  <2>1. c \in Path /\ c \in DOMAIN Parent /\ Parent[c] = d
    BY ParentOfChild DEF Parent
  <2>2. d \in Above[c]
    BY <2>1, AboveOf, ParentOfChild
  <2>3. ASSUME NEW p \in Below(c) PROVE p \in Below(d)
    <3>1. p \in Path /\ c \in Ancestors(Parent, p)
      BY AboveOf DEF Below
    <3>2. Ancestors(Parent, c) \subseteq Ancestors(Parent, p)
      BY <3>1, AncestorsOfAncestor
    <3>. QED  BY <2>1, <2>2, <3>1, <3>2, AboveOf DEF Below
  <2>. QED  BY <2>1, <2>2, <2>3 DEF Within, Below
<1>2. ASSUME NEW p \in Below(d)
      PROVE  \E c \in InSeq(d) : p \in Within(c)
  <2>1. p \in Path /\ d \in Ancestors(Parent, p)
    BY AboveOf DEF Below
  <2>2. PICK c \in DOMAIN Parent : Parent[c] = d /\ (c = p \/ c \in Ancestors(Parent, p))
    BY <2>1, WayDown
  <2>3. c \in InSeq(d)
    BY <2>2, ParentIsDir DEF Parent
  <2>4. p \in Within(c)
    BY <2>1, <2>2, AboveOf DEF Within, Below
  <2>. QED  BY <2>3, <2>4
<1>3. ASSUME NEW b \in InSeq(d), NEW c \in InSeq(d), NEW p \in Within(b) \cap Within(c)
      PROVE  b = c
  <2>1. p \in Path
    BY <1>1, BelowOf
  <2>2. /\ b = p \/ b \in Ancestors(Parent, p)
        /\ c = p \/ c \in Ancestors(Parent, p)
    BY <2>1, AboveOf DEF Within, Below
  <2>3. p \in DOMAIN Parent \cup {Root}
    BY <2>1 DEF Parent
  <2>. QED  BY <1>1, <2>2, <2>3, BackupIsTree, OneWayDown
<1>. QED  BY <1>1, <1>2, <1>3

(***************************************************************************)
(* What comes in the place of an item.                                     *)
(***************************************************************************)
LEMMA ItemsOfPath ==
  ASSUME NEW p \in Path
  PROVE  /\ ItemFor(p) \in GoodItem
         /\ Covers(ItemFor(p)) = Within(p)
         /\ ItemFor(p).action \in {"tree", "node"}
         /\ ItemFor(p).path = p
<1>1. ItemFor(p) \in GoodItem /\ ItemFor(p).action \in {"tree", "node"} /\ ItemFor(p).path = p
  BY DEF ItemFor, TreeItem, NodeItem, GoodItem, RestoreItem, Item, InRange, Path
<1>2. CASE p \in Dir
  <2>1. ItemFor(p).action = "tree"
    BY <1>2 DEF ItemFor, TreeItem
  <2>. QED  BY <1>1, <2>1 DEF Covers
<1>3. CASE p \in File
  <2>1. p \notin Dir /\ Below(p) = {}
    BY <1>3, BackupAssumption, BelowOf
  <2>2. ItemFor(p).action = "node"
    BY <2>1 DEF ItemFor, NodeItem
  <2>. QED  BY <1>1, <2>1, <2>2 DEF Covers, Within
<1>. QED  BY <1>1, <1>2, <1>3 DEF Path

LEMMA CoversOf ==
  ASSUME NEW i \in GoodItem
  PROVE  /\ i.path \in Path /\ i.path \in Covers(i) /\ Covers(i) \subseteq Path
         /\ i.action \in {"tree", "apply", "node", "data"}
         /\ i.action \in {"tree", "apply"} => i.path \in Dir /\ i.path \notin File
         /\ i.action \in {"node", "data"} => i.path \in File /\ i.path \notin Dir
         /\ i.action \in {"node", "data"} => Covers(i) = {i.path}
         /\ i.action = "data" => i.index \in Nat /\ i.index < Len(Data[i.path])
<1>1. i.path \in Path
  BY DEF GoodItem, RestoreItem, Item, Path
<1>2. i.path \in Covers(i) /\ Covers(i) \subseteq Path
  BY <1>1, BelowOf DEF Covers, Within
<1>. QED
  BY <1>1, <1>2, BackupAssumption DEF GoodItem, RestoreItem, Item, InRange, Covers

LEMMA FollowsNothing ==
  ASSUME NEW item
  PROVE  Follows(<<>>, item)
<1>1. <<>> \in Seq(GoodItem) /\ Len(<<>>) = 0
  OBVIOUS
<1>. QED  BY <1>1 DEF Follows, InOrder, CoverOnce, AppliedLast, OneOpen

LEMMA FollowsOneItem ==
  ASSUME NEW i \in GoodItem, NEW item, i.action # "apply", Covers(i) \subseteq Covers(item)
  PROVE  Follows(<<i>>, item)
<1>1. <<i>> \in Seq(GoodItem) /\ Len(<<i>>) = 1 /\ <<i>>[1] = i
  OBVIOUS
<1>2. \A k \in 1..Len(<<i>>) : k = 1
  BY <1>1
<1>. QED  BY <1>1, <1>2 DEF Follows, InOrder, CoverOnce, AppliedLast, OneOpen

\* A file goes on with one of its blobs.
LEMMA FollowsData ==
  ASSUME NEW item \in GoodItem, item.action \in {"node", "data"},
         NEW n \in Nat, n < Len(Data[item.path])
  PROVE  /\ Follows(<<DataItem(item.path, n)>>, item)
         /\ DataItem(item.path, n) \in GoodItem
<1>. DEFINE i == DataItem(item.path, n)
<1>1. i \in GoodItem
  BY CoversOf DEF DataItem, GoodItem, RestoreItem, InRange
<1>2. i.action = "data" /\ Covers(i) = {item.path} /\ Covers(item) = {item.path}
  BY CoversOf DEF DataItem, Covers
<1>. QED  BY <1>1, <1>2, FollowsOneItem

\* A tree goes on with items that stand for everything the tree stood for.
LEMMA FollowsTree ==
  ASSUME NEW d \in Dir, NEW item, Covers(item) = Within(d)
  PROVE  /\ Follows(NextItems(d), item)
         /\ \A p \in Within(d) : Pending(NextItems(d), p)
         /\ \A k \in 1..Len(NextItems(d)) :
              NextItems(d)[k].action \in {"tree", "node", "apply"}
<1>. DEFINE n == Len(Children[d])
            kids == [k \in 1..n |-> ItemFor(Children[d][k])]
            next == NextItems(d)
<1>1. n \in Nat /\ \A k \in 1..n : Children[d][k] \in Path /\ Children[d][k] \in InSeq(d)
  BY ChildrenOfDir
<1>2. kids \in [1..n -> GoodItem]
  BY <1>1, ItemsOfPath
<1>3. kids \in Seq(GoodItem) /\ Len(kids) = n
  BY <1>1, <1>2, SeqDef, LenProperties
<1>4. ApplyItem(d) \in GoodItem /\ ApplyItem(d).action = "apply" /\ ApplyItem(d).path = d
      /\ Covers(ApplyItem(d)) = {d}
  BY DEF ApplyItem, GoodItem, RestoreItem, Item, InRange, Covers
<1>5. /\ next \in Seq(GoodItem) /\ Len(next) = n + 1
      /\ \A k \in 1..n : next[k] = kids[k]
      /\ next[n + 1] = ApplyItem(d)
  BY <1>1, <1>3, <1>4, AppendProperties DEF NextItems
<1>6. ASSUME NEW k \in 1..n
      PROVE  /\ next[k].action \in {"tree", "node"}
             /\ Covers(next[k]) = Within(Children[d][k])
             /\ Covers(next[k]) \subseteq Below(d)
  <2>1. next[k] = ItemFor(Children[d][k])
    BY <1>5
  <2>. QED  BY <1>1, <2>1, ItemsOfPath, BelowIsShared
<1>7. next[n + 1].action = "apply" /\ next[n + 1].path = d /\ Covers(next[n + 1]) = {d}
  BY <1>4, <1>5
<1>8. d \notin Below(d) /\ Within(d) = {d} \cup Below(d)
  BY BelowOf DEF Path, Within
<1>9. \A k \in 1..Len(next) : k \in 1..n \/ k = n + 1
  BY <1>1, <1>5
<1>. HIDE DEF next, kids
<1>10. CoverOnce(next)
  <2>. SUFFICES ASSUME NEW j \in 1..Len(next), NEW k \in 1..Len(next), j # k
                PROVE  Covers(next[j]) \cap Covers(next[k]) = {}
    BY DEF CoverOnce
  <2>1. CASE j \in 1..n /\ k \in 1..n
    <3>1. Children[d][j] # Children[d][k]
      BY <2>1, BackupAssumption DEF n
    <3>. QED  BY <1>1, <1>6, <2>1, <3>1, BelowIsShared
  <2>2. CASE j = n + 1 \/ k = n + 1
    BY <1>6, <1>7, <1>8, <1>9, <2>2
  <2>. QED  BY <1>9, <2>1, <2>2
<1>11. AppliedLast(next)
  <2>1. ~(\E j, k \in 1..Len(next) : j < k /\ next[j].action = "apply")
    BY <1>1, <1>5, <1>6
  <2>. QED  BY <2>1 DEF AppliedLast
<1>12. OneOpen(next)
  <2>1. \A k \in 2..Len(next) : k \in 1..Len(next)
    BY <1>1, <1>5
  <2>. QED  BY <1>6, <1>7, <1>9, <2>1 DEF OneOpen
<1>13. Follows(next, item)
  <2>. SUFFICES ASSUME NEW k \in 1..Len(next)
                PROVE  /\ Covers(next[k]) \subseteq Covers(item)
                       /\ next[k].action = "apply" => Below(next[k].path) \subseteq Covers(item)
    BY <1>5, <1>10, <1>11, <1>12 DEF Follows, InOrder
  <2>. QED  BY <1>6, <1>7, <1>8, <1>9
<1>14. \A p \in Within(d) : Pending(next, p)
  <2>. SUFFICES ASSUME NEW p \in Within(d) PROVE Pending(next, p)
    OBVIOUS
  <2>1. CASE p = d
    <3>1. n + 1 \in 1..Len(next)
      BY <1>1, <1>5
    <3>. QED  BY <1>7, <2>1, <3>1 DEF Pending
  <2>2. CASE p \in Below(d)
    <3>1. PICK c \in InSeq(d) : p \in Within(c)
      BY <2>2, BelowIsShared
    <3>2. PICK k \in 1..n : Children[d][k] = c
      BY <3>1, ChildrenOfDir
    <3>3. k \in 1..Len(next)
      BY <1>1, <1>5
    <3>. QED  BY <1>6, <3>1, <3>2, <3>3 DEF Pending
  <2>. QED  BY <1>8, <2>1, <2>2
<1>15. \A k \in 1..Len(next) : next[k].action \in {"tree", "node", "apply"}
  BY <1>6, <1>7, <1>9
<1>. QED  BY <1>13, <1>14, <1>15 DEF next

\* The items stay in order, and what they stand for stays pending, except
\* what the item that was replaced stood for.
LEMMA OrderAfter ==
  ASSUME NEW s, InOrder(s), s # <<>>, NEW next, Follows(next, Head(s))
  PROVE  LET t == next \o Tail(s) IN
         /\ InOrder(t)
         /\ \A k \in 1..Len(t) :
              \/ k \in 1..Len(next) /\ t[k] = next[k]
              \/ \E j \in 2..Len(s) : t[k] = s[j]
         /\ \A p : Pending(s, p) => p \in Covers(Head(s)) \/ Pending(t, p)
         /\ \A p : Pending(next, p) => Pending(t, p)
         /\ \A p : Pending(t, p) => Pending(s, p)
<1>. DEFINE t == next \o Tail(s)
            n == Len(next)
<1>1. s \in Seq(GoodItem) /\ next \in Seq(GoodItem)
  BY DEF InOrder, Follows
<1>2. /\ Head(s) = s[1] /\ 1 \in 1..Len(s)
      /\ t \in Seq(GoodItem)
      /\ n \in Nat /\ Len(s) \in Nat /\ Len(t) = n + Len(s) - 1
      /\ \A k \in 1..n : k \in 1..Len(t) /\ t[k] = next[k]
      /\ \A k \in 2..Len(s) : k + n - 1 \in 1..Len(t) /\ t[k + n - 1] = s[k]
      /\ \A k \in 1..Len(t) : k \notin 1..n => k - n + 1 \in 2..Len(s) /\ t[k] = s[k - n + 1]
  BY <1>1, Replaced
<1>3. \A k \in 2..Len(s) : k \in 1..Len(s) /\ k # 1 /\ 1 < k
  BY <1>2
<1>. HIDE DEF t
\* What the new items stand for, no other item does.
<1>4. ASSUME NEW j \in 1..n, NEW k \in 2..Len(s)
      PROVE  Covers(next[j]) \cap Covers(s[k]) = {}
  <2>1. Covers(s[1]) \cap Covers(s[k]) = {}
    BY <1>2, <1>3 DEF InOrder, CoverOnce
  <2>. QED  BY <1>2, <2>1 DEF Follows
<1>5. CoverOnce(t)
  <2>. SUFFICES ASSUME NEW j \in 1..Len(t), NEW k \in 1..Len(t), j # k
                PROVE  Covers(t[j]) \cap Covers(t[k]) = {}
    BY DEF CoverOnce
  <2>1. CASE j \in 1..n /\ k \in 1..n
    BY <1>2, <2>1 DEF Follows, InOrder, CoverOnce
  <2>2. CASE j \in 1..n /\ k \notin 1..n
    BY <1>2, <1>4, <2>2
  <2>3. CASE j \notin 1..n /\ k \in 1..n
    BY <1>2, <1>4, <2>3
  <2>4. CASE j \notin 1..n /\ k \notin 1..n
    <3>1. /\ j - n + 1 \in 1..Len(s) /\ t[j] = s[j - n + 1]
          /\ k - n + 1 \in 1..Len(s) /\ t[k] = s[k - n + 1]
          /\ j - n + 1 # k - n + 1
      BY <1>2, <1>3, <2>4
    <3>. QED  BY <3>1 DEF InOrder, CoverOnce
  <2>. QED  BY <2>1, <2>2, <2>3, <2>4
<1>6. AppliedLast(t)
  <2>. SUFFICES ASSUME NEW j \in 1..Len(t), NEW k \in 1..Len(t), j < k, t[j].action = "apply"
                PROVE  Covers(t[k]) \cap Below(t[j].path) = {}
    BY DEF AppliedLast
  <2>1. CASE k \in 1..n
    <3>1. j \in 1..n
      BY <1>2, <2>1
    <3>. QED  BY <1>2, <2>1, <3>1 DEF Follows, InOrder, AppliedLast
  <2>2. CASE j \in 1..n /\ k \notin 1..n
    <3>1. /\ k - n + 1 \in 1..Len(s) /\ t[k] = s[k - n + 1] /\ k - n + 1 # 1
      BY <1>2, <1>3, <2>2
    <3>2. Covers(s[1]) \cap Covers(t[k]) = {}
      BY <1>2, <3>1 DEF InOrder, CoverOnce
    <3>3. Below(t[j].path) \subseteq Covers(s[1])
      BY <1>2, <2>2 DEF Follows
    <3>. QED  BY <3>2, <3>3
  <2>3. CASE j \notin 1..n /\ k \notin 1..n
    <3>1. /\ j - n + 1 \in 1..Len(s) /\ t[j] = s[j - n + 1]
          /\ k - n + 1 \in 1..Len(s) /\ t[k] = s[k - n + 1]
          /\ j - n + 1 < k - n + 1
      BY <1>2, <1>3, <2>3
    <3>. QED  BY <3>1 DEF InOrder, AppliedLast
  <2>. QED  BY <2>1, <2>2, <2>3
<1>7. OneOpen(t)
  <2>. SUFFICES ASSUME NEW k \in 2..Len(t) PROVE t[k].action # "data"
    BY DEF OneOpen
  <2>1. k \in 1..Len(t) /\ k # 1
    BY <1>2
  <2>2. CASE k \in 1..n
    <3>1. k \in 2..n
      BY <1>2, <2>1, <2>2
    <3>. QED  BY <1>2, <2>2, <3>1 DEF Follows, InOrder, OneOpen
  <2>3. CASE k \notin 1..n
    BY <1>2, <2>1, <2>3 DEF InOrder, OneOpen
  <2>. QED  BY <2>2, <2>3
<1>8. \A k \in 1..Len(t) :
        \/ k \in 1..n /\ t[k] = next[k]
        \/ \E j \in 2..Len(s) : t[k] = s[j]
  BY <1>2
<1>9. ASSUME NEW p, Pending(s, p), p \notin Covers(Head(s)) PROVE Pending(t, p)
  <2>1. PICK k \in 1..Len(s) : p \in Covers(s[k])
    BY <1>9 DEF Pending
  <2>2. k \in 2..Len(s)
    BY <1>2, <1>9, <2>1
  <2>. QED  BY <1>2, <2>1, <2>2 DEF Pending
<1>10. ASSUME NEW p, Pending(next, p) PROVE Pending(t, p)
  BY <1>2, <1>10 DEF Pending
<1>11. ASSUME NEW p, Pending(t, p) PROVE Pending(s, p)
  <2>1. PICK k \in 1..Len(t) : p \in Covers(t[k])
    BY <1>11 DEF Pending
  <2>2. CASE k \in 1..n
    <3>1. p \in Covers(s[1])
      BY <1>2, <2>1, <2>2 DEF Follows
    <3>. QED  BY <1>2, <3>1 DEF Pending
  <2>3. CASE k \notin 1..n
    BY <1>2, <1>3, <2>1, <2>3 DEF Pending
  <2>. QED  BY <2>2, <2>3
<1>. QED  BY <1>2, <1>5, <1>6, <1>7, <1>8, <1>9, <1>10, <1>11 DEF InOrder, t

(***************************************************************************)
(* What is restored, and the first item.                                   *)
(***************************************************************************)
LEMMA RestoredIsWithin ==
  /\ Restored \subseteq Path
  /\ Restored = Within(Target)
  /\ Target \in Dir => Target = Root
<1>1. CASE Target = Root
  BY <1>1, BelowOf DEF Restored
<1>2. CASE Target # Root
  <2>1. Target \in File /\ Target \notin Dir
    BY <1>2, BackupAssumption
  <2>. QED  BY <1>2, <2>1, BelowOf, Targets DEF Restored, Within
<1>. QED  BY <1>1, <1>2

LEMMA FirstItems ==
  /\ InOrder(<<FirstItem>>)
  /\ Covers(FirstItem) = Restored
  /\ FirstItem \in GoodItem
  /\ FirstItem.action \in {"tree", "node"}
<1>1. FirstItem \in GoodItem /\ Covers(FirstItem) = Restored /\ FirstItem.action \in {"tree", "node"}
  BY Targets, ItemsOfPath, RestoredIsWithin DEF FirstItem
<1>2. Follows(<<FirstItem>>, FirstItem)
  BY <1>1, FollowsOneItem
<1>. QED  BY <1>1, <1>2 DEF Follows

(***************************************************************************)
(* Blobs and requests.                                                     *)
(***************************************************************************)

\* A blob list is a sequence of blobs.
LEMMA BlobsOfData ==
  ASSUME NEW f \in File
  PROVE  /\ Data[f] \in Seq(Blob)
         /\ Len(Data[f]) \in Nat
         /\ DOMAIN Data[f] = 1..Len(Data[f])
         /\ \A k \in 1..Len(Data[f]) : Data[f][k] \in Blob
         /\ InData(f) \subseteq Blob
<1>1. Data[f] \in Seq(Blob)
  BY BlobAssumption
<1>2. /\ Len(Data[f]) \in Nat
      /\ DOMAIN Data[f] = 1..Len(Data[f])
      /\ \A k \in 1..Len(Data[f]) : Data[f][k] \in Blob
  BY <1>1, LenProperties, ElementOfSeq
<1>. QED  BY <1>1, <1>2 DEF InData

\* A beginning, element by element.
LEMMA PrefixElements ==
  ASSUME NEW S, NEW s \in Seq(S), NEW t \in Seq(S)
  PROVE  IsPrefix(s, t) <=> Len(s) <= Len(t) /\ \A k \in 1..Len(s) : s[k] = t[k]
<1>1. Len(s) \in Nat /\ Len(t) \in Nat
  BY LenProperties
<1>2. SubSeq(s, 1, Len(s)) = s
  BY SubSeqFull
<1>3. ASSUME Len(s) <= Len(t)
      PROVE  SubSeq(t, 1, Len(s)) = s <=> \A k \in 1..Len(s) : s[k] = t[k]
  <2>1. \A k \in 1..Len(s) : t[k] \in S
    BY <1>1, <1>3, ElementOfSeq
  <2>2. /\ SubSeq(t, 1, Len(s)) \in Seq(S)
        /\ Len(SubSeq(t, 1, Len(s))) = IF 1 <= Len(s) THEN Len(s) - 1 + 1 ELSE 0
        /\ \A k \in 1..Len(s) - 1 + 1 : SubSeq(t, 1, Len(s))[k] = t[1 + k - 1]
    BY <1>1, <2>1, SubSeqProperties
  <2>3. /\ Len(SubSeq(t, 1, Len(s))) = Len(s)
        /\ \A k \in 1..Len(s) : SubSeq(t, 1, Len(s))[k] = t[k]
    BY <1>1, <2>2
  <2>. QED  BY <2>2, <2>3, SeqEqual
<1>. QED  BY <1>2, <1>3 DEF IsPrefix

LEMMA AttrBlobsOf ==
  ASSUME NEW p \in Path
  PROVE  /\ AttrBlobs(p) \subseteq Blob
         /\ AttrBlobs(p) \subseteq {Attr[p]}
         /\ IsFiniteSet(AttrBlobs(p))
<1>1. AttrBlobs(p) \subseteq {Attr[p]} /\ AttrBlobs(p) \subseteq Blob
  BY BlobAssumption DEF AttrBlobs
<1>2. IsFiniteSet({Attr[p]})
  BY FS_Singleton
<1>. QED  BY <1>1, <1>2, FS_Subset

\* What is requested is a blob of the path it is requested for.
LEMMA BlobsToRequestOf ==
  ASSUME NEW i \in RequestItems
  PROVE  /\ BlobsToRequest(i) \subseteq BlobsOf(i.path) /\ BlobsOf(i.path) \subseteq Blob
         /\ i.path \in Dir =>
              BlobsToRequest(i) = IF i.index = 1 THEN AttrBlobs(i.path) ELSE {}
         /\ i.path \in File =>
              BlobsToRequest(i) =
                (IF i.index = 0 THEN AttrBlobs(i.path) ELSE {})
                  \cup {Data[i.path][k] : k \in DOMAIN Data[i.path] \cap {i.index + 1}}
<1>1. AttrBlobs(i.path) \subseteq Blob
  BY AttrBlobsOf DEF RequestItems
<1>2. CASE i.path \in Dir
  <2>1. i.path \notin File
    BY <1>2, BackupAssumption
  <2>. QED  BY <1>1, <1>2, <2>1 DEF BlobsToRequest, BlobsOf
<1>3. CASE i.path \in File
  <2>1. i.path \notin Dir
    BY <1>3, BackupAssumption
  <2>2. {Data[i.path][k] : k \in DOMAIN Data[i.path] \cap {i.index + 1}} \subseteq InData(i.path)
    BY DEF InData
  <2>. QED  BY <1>1, <1>3, <2>1, <2>2, BlobsOfData DEF BlobsToRequest, BlobsOf
<1>. QED  BY <1>2, <1>3 DEF Path, RequestItems

\* The request for a file leads to requests for the same file, and the request
\* for a directory to requests for it or for its children.
LEMMA NextRequestItemsOf ==
  ASSUME NEW i \in RequestItems
  PROVE  /\ NextRequestItems(i) \in Seq(RequestItems)
         /\ i.path \in File =>
              /\ NextRequestItems(i) \in Seq([path : {i.path}, index : Nat])
              /\ Len(Data[i.path]) > i.index + 1 =>
                   NextRequestItems(i) = <<RequestItem(i.path, i.index + 1)>>
         /\ i.path \in Dir /\ i.index = 0 => NextRequestItems(i) = <<RequestItem(i.path, 1)>>
         /\ i.path \in Dir /\ i.index = 1 =>
              /\ Len(NextRequestItems(i)) = Len(Children[i.path])
              /\ \A k \in 1..Len(Children[i.path]) :
                   NextRequestItems(i)[k] = RequestItem(Children[i.path][k], 0)
<1>. DEFINE p == i.path
            below == [k \in 1..Len(Children[p]) |-> RequestItem(Children[p][k], 0)]
<1>1. \A n \in Nat : /\ <<RequestItem(p, n)>> \in Seq([path : {p}, index : Nat])
                     /\ <<RequestItem(p, n)>> \in Seq(RequestItems)
  BY DEF RequestItem, RequestItems
<1>2. <<>> \in Seq([path : {p}, index : Nat]) /\ <<>> \in Seq(RequestItems)
  OBVIOUS
<1>3. CASE p \in File
  <2>1. p \notin Dir
    BY <1>3, BackupAssumption
  <2>2. /\ NextRequestItems(i) = <<RequestItem(p, i.index + 1)>> \/ NextRequestItems(i) = <<>>
        /\ Len(Data[p]) > i.index + 1 => NextRequestItems(i) = <<RequestItem(p, i.index + 1)>>
    BY <2>1, <1>3 DEF NextRequestItems
  <2>3. i.index + 1 \in Nat
    BY DEF RequestItems
  <2>. QED  BY <1>1, <1>2, <2>1, <2>2, <2>3
<1>4. CASE p \in Dir
  <2>1. p \notin File
    BY <1>4, BackupAssumption
  <2>2. below \in Seq(RequestItems) /\ Len(below) = Len(Children[p])
    <3>1. below \in [1..Len(Children[p]) -> RequestItems]
      BY <1>4, ChildrenOfDir DEF RequestItem, RequestItems
    <3>. QED  BY <1>4, <3>1, ChildrenOfDir, SeqDef, LenProperties
  <2>3. NextRequestItems(i) \in {<<RequestItem(p, 1)>>, below, <<>>}
    BY <2>1, <1>4 DEF NextRequestItems
  <2>4. i.index = 0 => NextRequestItems(i) = <<RequestItem(p, 1)>>
    BY <1>4, <2>1 DEF NextRequestItems
  <2>5. i.index = 1 => NextRequestItems(i) = below
    BY <1>4, <2>1 DEF NextRequestItems
  <2>. QED  BY <1>1, <1>2, <2>1, <2>2, <2>3, <2>4, <2>5
<1>. QED  BY <1>3, <1>4 DEF Path, RequestItems

\* A blob that an item leads to is requested with it or with what follows.
LEMMA AskedOrRequested ==
  ASSUME NEW i \in RequestItems, NEW b \in Asks(i)
  PROVE  b \in BlobsToRequest(i) \/ Asked(NextRequestItems(i), b)
<1>. DEFINE p == i.path
            n == i.index
            next == NextRequestItems(i)
<1>1. n \in Nat /\ p \in Path
  BY DEF RequestItems
<1>2. CASE p \in File
  <2>1. p \notin Dir
    BY <1>2, BackupAssumption
  <2>2. CASE n = 0 /\ b \in AttrBlobs(p)
    BY <1>2, <2>2, BlobsToRequestOf
  <2>3. CASE \E k \in DOMAIN Data[p] : k > n /\ b = Data[p][k]
    <3>1. PICK k \in DOMAIN Data[p] : k > n /\ b = Data[p][k]
      BY <2>3
    <3>2. k \in 1..Len(Data[p]) /\ Len(Data[p]) \in Nat
      BY <1>2, <3>1, BlobsOfData
    <3>3. CASE k = n + 1
      BY <1>2, <3>1, <3>3, BlobsToRequestOf
    <3>4. CASE k # n + 1
      <4>1. k > n + 1 /\ Len(Data[p]) > n + 1
        BY <1>1, <3>1, <3>2, <3>4
      <4>2. next = <<RequestItem(p, n + 1)>>
        BY <1>2, <4>1, NextRequestItemsOf
      <4>3. b \in Asks(RequestItem(p, n + 1))
        BY <2>1, <3>1, <4>1 DEF Asks, RequestItem
      <4>4. 1 \in 1..Len(next) /\ next[1] = RequestItem(p, n + 1)
        BY <4>2
      <4>. QED  BY <4>3, <4>4 DEF Asked
    <3>. QED  BY <3>3, <3>4
  <2>. QED  BY <2>1, <2>2, <2>3 DEF Asks
<1>3. CASE p \in Dir
  <2>1. n = 0 \/ n = 1
    BY <1>1, <1>3 DEF Asks
  <2>2. PICK q \in Within(p) : b \in BlobsOf(q)
    BY <1>3, <2>1 DEF Asks
  <2>3. CASE n = 0
    <3>1. next = <<RequestItem(p, 1)>>
      BY <1>3, <2>3, NextRequestItemsOf
    <3>2. b \in Asks(RequestItem(p, 1))
      BY <1>3, <2>2 DEF Asks, RequestItem
    <3>3. 1 \in 1..Len(next) /\ next[1] = RequestItem(p, 1)
      BY <3>1
    <3>. QED  BY <3>2, <3>3 DEF Asked
  <2>4. CASE n = 1 /\ q = p
    <3>1. p \notin File
      BY <1>3, BackupAssumption
    <3>. QED  BY <1>3, <2>2, <2>4, <3>1, BlobsToRequestOf DEF BlobsOf
  <2>5. CASE n = 1 /\ q # p
    <3>1. q \in Below(p)
      BY <2>2, <2>5 DEF Within
    <3>2. PICK c \in InSeq(p) : q \in Within(c)
      BY <1>3, <3>1, BelowIsShared
    <3>3. PICK k \in 1..Len(Children[p]) : Children[p][k] = c
      BY <1>3, <3>2, ChildrenOfDir
    <3>4. k \in 1..Len(next) /\ next[k] = RequestItem(c, 0)
      BY <1>3, <2>5, <3>3, NextRequestItemsOf
    <3>5. b \in Asks(RequestItem(c, 0))
      <4>1. CASE c \in Dir
        BY <2>2, <3>2, <4>1 DEF Asks, RequestItem
      <4>2. CASE c \in File
        <5>1. c \notin Dir /\ q = c
          BY <3>2, <4>2, BelowOf, BackupAssumption DEF Within
        <5>2. b \in AttrBlobs(c) \/ b \in InData(c)
          BY <2>2, <5>1 DEF BlobsOf
        <5>3. b \in InData(c) => \E m \in {m \in DOMAIN Data[c] : m > 0} : b = Data[c][m]
          BY <4>2, BlobsOfData DEF InData
        <5>. QED  BY <5>1, <5>2, <5>3 DEF Asks, RequestItem
      <4>. QED  BY <1>3, <3>2, <4>1, <4>2, BelowIsShared DEF Path
    <3>. QED  BY <3>4, <3>5 DEF Asked
  <2>. QED  BY <2>1, <2>3, <2>4, <2>5
<1>. QED  BY <1>1, <1>2, <1>3 DEF Path

\* The first request leads to everything that is restored.
LEMMA AsksForRestored ==
  /\ FirstRequestItem \in RequestItems
  /\ \A p \in Restored : \A b \in BlobsOf(p) : b \in Asks(FirstRequestItem)
<1>1. FirstRequestItem \in RequestItems
  BY Targets DEF FirstRequestItem, RequestItem, RequestItems
<1>2. ASSUME NEW p \in Restored, NEW b \in BlobsOf(p) PROVE b \in Asks(FirstRequestItem)
  <2>1. p \in Within(Target)
    BY RestoredIsWithin
  <2>2. CASE Target \in Dir
    <3>1. FirstRequestItem.path = Target /\ FirstRequestItem.index = 1
      BY <2>2, RestoredIsWithin DEF FirstRequestItem, RequestItem
    <3>. QED  BY <2>1, <2>2, <3>1 DEF Asks
  <2>3. CASE Target \in File
    <3>1. Target \notin Dir /\ Target # Root /\ p = Target
      BY <2>1, <2>3, BelowOf, BackupAssumption DEF Within
    <3>2. FirstRequestItem.path = Target /\ FirstRequestItem.index = 0
      BY <3>1 DEF FirstRequestItem, RequestItem
    <3>3. b \in AttrBlobs(Target) \/ b \in InData(Target)
      BY <3>1 DEF BlobsOf
    <3>4. b \in InData(Target) => \E m \in {m \in DOMAIN Data[Target] : m > 0} : b = Data[Target][m]
      BY <2>3, BlobsOfData DEF InData
    <3>. QED  BY <3>1, <3>2, <3>3, <3>4 DEF Asks
  <2>. QED  BY <2>2, <2>3, Targets DEF Path
<1>. QED  BY <1>1, <1>2

\* Requesting the first item loses no blob that is still to be requested.
LEMMA AskedAfter ==
  ASSUME NEW s \in Seq(RequestItems), s # <<>>
  PROVE  LET t == NextRequestItems(Head(s)) \o Tail(s) IN
         /\ t \in Seq(RequestItems)
         /\ \A b : Asked(s, b) => b \in BlobsToRequest(Head(s)) \/ Asked(t, b)
<1>. DEFINE next == NextRequestItems(Head(s))
            t == next \o Tail(s)
<1>1. Head(s) \in RequestItems
  BY HeadTailProperties
<1>2. next \in Seq(RequestItems)
  BY <1>1, NextRequestItemsOf
<1>3. /\ Head(s) = s[1]
      /\ t \in Seq(RequestItems)
      /\ Len(s) \in Nat
      /\ \A k \in 1..Len(next) : k \in 1..Len(t) /\ t[k] = next[k]
      /\ \A k \in 2..Len(s) : k + Len(next) - 1 \in 1..Len(t) /\ t[k + Len(next) - 1] = s[k]
  BY <1>2, Replaced
<1>4. ASSUME NEW b, Asked(s, b), b \notin BlobsToRequest(Head(s)) PROVE Asked(t, b)
  <2>. HIDE DEF t
  <2>1. PICK k \in 1..Len(s) : b \in Asks(s[k])
    BY <1>4 DEF Asked
  <2>2. CASE k = 1
    <3>1. Asked(next, b)
      BY <1>1, <1>3, <1>4, <2>1, <2>2, AskedOrRequested
    <3>. HIDE DEF next
    <3>. QED  BY <1>3, <3>1 DEF Asked
  <2>3. CASE k # 1
    <3>1. k \in 2..Len(s)
      BY <1>3, <2>3
    <3>. HIDE DEF next
    <3>. QED  BY <1>3, <2>1, <3>1 DEF Asked
  <2>. QED  BY <2>2, <2>3
<1>. QED  BY <1>3, <1>4
=============================================================================
