---------------------- MODULE S3GlacierRestorer_proofs ----------------------
(***************************************************************************)
(* Proofs about S3GlacierRestorer, for every backup, storage and bound.    *)
(***************************************************************************)
EXTENDS S3GlacierRestorer, GlacierItems_proofs

(***************************************************************************)
(* The type invariant, and what it needs to be inductive: the items left   *)
(* to restore are in order (InOrder), and the thread is at an item.        *)
(***************************************************************************)
AttrState == {"unset", "restored", "stale"}
HardLinks == [{Ino[p] : p \in Path} -> Path \cup {None}]

TypeRun ==
  /\ pc \in {"setUp", "round", "requesting", "restoring", "waiting", "succeeded", "failed"}
  /\ bytesTransferred \in Nat
  /\ reported \subseteq Path
TypeRequests ==
  /\ glacierRequestItems \in Seq(RequestItems)
  /\ bytesActuallyRequestedThisRound \in 0..(PerRound + 1)
  /\ roundIsDue \in BOOLEAN
  /\ store \in [Object -> {"cold", "thawing", "thawed"}]
TypeDisk ==
  /\ hardlinks \in HardLinks
  /\ opened \subseteq File /\ made \subseteq File /\ dirs \subseteq Dir
  /\ content \in [File -> Seq(Blob)]
  /\ attrs \in [Path -> AttrState]

\* Only files with data are opened.
OfFile == {f \in File : Data[f] # <<>>}
Items ==
  /\ InOrder(restoreItems)
  /\ \A p : Pending(restoreItems, p) => p \in Restored
  /\ opened \subseteq OfFile
  /\ pc \in {"requesting", "restoring", "waiting"} => restoreItems # <<>>
  /\ pc = "succeeded" => restoreItems = <<>>

TypeInv == TypeRun /\ TypeRequests /\ TypeDisk /\ Items

LEMMA TypeInvImpliesTypeOK == TypeInv => TypeOK
<1>. SUFFICES ASSUME TypeInv PROVE TypeOK
  OBVIOUS
<1>1. restoreItems \in Seq(RestoreItem)
  BY SeqMonotonic DEF TypeInv, Items, InOrder, GoodItem
<1>. QED
  BY <1>1 DEF TypeInv, TypeOK, TypeRun, TypeRequests, TypeDisk, HardLinks, AttrState, RequestItems

LEMMA TypeInvImpliesOneFileOpen == TypeInv => OneFileOpen
  BY DEF TypeInv, Items, InOrder, OneOpen, OneFileOpen

(***************************************************************************)
(* Requests.                                                               *)
(***************************************************************************)

\* An item's objects are one or two.
LEMMA RequestedObjects ==
  ASSUME NEW i \in RequestItems,
         NEW objects \in SUBSET {ObjectOf[b] : b \in BlobsToRequest(i)}
  PROVE  /\ objects \subseteq Object
         /\ IsFiniteSet(objects) /\ Cardinality(objects) \in 0..2
<1>. DEFINE p == i.path
            n == i.index
<1>1. BlobsToRequest(i) \subseteq Blob
  BY BlobsToRequestOf
<1>2. \E a, b : BlobsToRequest(i) \subseteq {a, b}
  <2>1. p \in Path /\ AttrBlobs(p) \subseteq {Attr[p]}
    BY AttrBlobsOf DEF RequestItems
  <2>2. CASE p \in Dir
    BY <2>1, <2>2, BlobsToRequestOf
  <2>3. CASE p \in File
    <3>1. BlobsToRequest(i) \subseteq {Attr[p], Data[p][n + 1]}
      BY <2>1, <2>3, BlobsToRequestOf
    <3>. QED  BY <3>1
  <2>. QED  BY <2>1, <2>2, <2>3 DEF Path
<1>3. PICK a, b : BlobsToRequest(i) \subseteq {a, b}
  BY <1>2
<1>4. objects \subseteq {ObjectOf[a], ObjectOf[b]}
  BY <1>3
<1>5. IsFiniteSet({ObjectOf[a], ObjectOf[b]}) /\ Cardinality({ObjectOf[a], ObjectOf[b]}) <= 2
  <2>1. IsFiniteSet({ObjectOf[a]}) /\ Cardinality({ObjectOf[a]}) = 1
    BY FS_Singleton
  <2>2. {ObjectOf[a], ObjectOf[b]} = {ObjectOf[a]} \cup {ObjectOf[b]}
    OBVIOUS
  <2>3. /\ IsFiniteSet({ObjectOf[a]} \cup {ObjectOf[b]})
        /\ Cardinality({ObjectOf[a]} \cup {ObjectOf[b]}) =
             IF ObjectOf[b] \in {ObjectOf[a]} THEN Cardinality({ObjectOf[a]})
             ELSE Cardinality({ObjectOf[a]}) + 1
    BY <2>1, FS_AddElement
  <2>. QED  BY <2>1, <2>2, <2>3
<1>6. IsFiniteSet(objects) /\ Cardinality(objects) <= Cardinality({ObjectOf[a], ObjectOf[b]})
  BY <1>4, <1>5, FS_Subset
<1>7. Cardinality(objects) \in Nat /\ Cardinality({ObjectOf[a], ObjectOf[b]}) \in Nat
  BY <1>5, <1>6, FS_CardinalityType
<1>8. objects \subseteq Object
  BY <1>1, ObjectAssumption
<1>. QED  BY <1>5, <1>6, <1>7, <1>8

LEMMA RequestKeepsTypes ==
  ASSUME TypeRequests, bytesActuallyRequestedThisRound < PerRound, NEW i \in RequestItems,
         NEW objects \in SUBSET {ObjectOf[b] : b \in BlobsToRequest(i)}, Request(objects)
  PROVE  /\ bytesActuallyRequestedThisRound' \in 0..(PerRound + 1)
         /\ store' \in [Object -> {"cold", "thawing", "thawed"}]
         /\ \A o \in Object : store[o] # "cold" \/ o \in objects => store'[o] # "cold"
<1>. DEFINE cold == {o \in objects : store[o] = "cold"}
<1>1. cold \in SUBSET {ObjectOf[b] : b \in BlobsToRequest(i)}
  OBVIOUS
<1>2. cold \subseteq Object /\ Cardinality(cold) \in 0..2
  BY <1>1, RequestedObjects
<1>3. /\ store' = [o \in Object |-> IF o \in cold THEN "thawing" ELSE store[o]]
      /\ bytesActuallyRequestedThisRound' = bytesActuallyRequestedThisRound + Cardinality(cold)
  BY DEF Request
<1>4. bytesActuallyRequestedThisRound' \in 0..(PerRound + 1)
  <2>. HIDE DEF cold
  <2>1. PerRound \in Nat
    BY ObjectAssumption
  <2>. QED  BY <1>2, <1>3, <2>1 DEF TypeRequests
<1>. QED  BY <1>3, <1>4 DEF TypeRequests

(***************************************************************************)
(* The item at work.                                                       *)
(***************************************************************************)
LEMMA CurrentItem ==
  ASSUME TypeInv, pc \in {"restoring", "waiting"}
  PROVE  /\ restoreItems # <<>> /\ restoreItems \in Seq(GoodItem)
         /\ Current \in GoodItem /\ Current = restoreItems[1] /\ 1 \in 1..Len(restoreItems)
         /\ Current.path \in Path
         /\ Current.path \in Restored
         /\ Pending(restoreItems, Current.path)
<1>1. restoreItems # <<>> /\ restoreItems \in Seq(GoodItem)
  BY DEF TypeInv, Items, InOrder
<1>2. Current \in GoodItem /\ Current = restoreItems[1] /\ 1 \in 1..Len(restoreItems)
  BY <1>1, Replaced DEF Current
<1>3. Current.path \in Path /\ Current.path \in Covers(Current)
  BY <1>2, CoversOf
<1>4. Pending(restoreItems, Current.path)
  BY <1>2, <1>3 DEF Pending
<1>. QED  BY <1>1, <1>2, <1>3, <1>4 DEF TypeInv, Items

\* An item that restores data is about a blob that its file has.
LEMMA DataAtWork ==
  ASSUME TypeInv, AtData
  PROVE  /\ pc = "restoring" /\ Current.action \in {"node", "data"}
         /\ Current.path \in OfFile /\ Current.path \in File
         /\ Index \in Nat /\ Index < Len(Data[Current.path])
         /\ Index + 1 \in 1..Len(Data[Current.path])
         /\ Data[Current.path][Index + 1] \in Blob
<1>. DEFINE f == Current.path
<1>1. pc = "restoring" /\ Current.action \in {"node", "data"}
  BY DEF AtData, At
<1>2. Current \in GoodItem
  BY <1>1, CurrentItem
<1>3. f \in File
  BY <1>1, <1>2, CoversOf
<1>4. Data[f] \in Seq(Blob) /\ Len(Data[f]) \in Nat
  BY <1>3, BlobsOfData
<1>5. CASE Current.action = "node"
  <2>1. Kind[f] = "regular"
    BY <1>5 DEF AtData, At
  <2>2. Data[f] # <<>>
    BY <1>3, <2>1, ObjectAssumption
  <2>3. Index = 0 /\ Index < Len(Data[f])
    BY <1>4, <1>5, <2>2, EmptySeq DEF Index
  <2>. QED  BY <1>1, <1>3, <1>4, <2>2, <2>3, BlobsOfData DEF OfFile
<1>6. CASE Current.action = "data"
  <2>1. Index = Current.index /\ Index \in Nat /\ Index < Len(Data[f])
    BY <1>2, <1>6, CoversOf DEF Index
  <2>2. Data[f] # <<>>
    BY <1>4, <2>1, EmptySeq
  <2>. QED  BY <1>1, <1>3, <1>4, <2>1, <2>2, BlobsOfData DEF OfFile
<1>. QED  BY <1>1, <1>5, <1>6

\* What a step leaves to do comes in the place of its item.
LEMMA FinishKeepsItems ==
  ASSUME TypeInv, pc = "restoring", NEW next, Follows(next, Current), Finish(next),
         opened' \subseteq OfFile
  PROVE  Items'
<1>1. InOrder(restoreItems) /\ restoreItems # <<>>
  BY CurrentItem DEF TypeInv, Items
<1>2. restoreItems' = next \o Tail(restoreItems) /\ pc' = "round"
  BY DEF Finish
<1>3. InOrder(restoreItems')
  BY <1>1, <1>2, OrderAfter DEF Current
<1>4. \A p : Pending(restoreItems', p) => Pending(restoreItems, p)
  BY <1>1, <1>2, OrderAfter DEF Current
<1>. QED  BY <1>2, <1>3, <1>4 DEF TypeInv, Items

LEMMA AnItemIsDone ==
  ASSUME TypeInv, pc = "restoring"
  PROVE  Follows(<<>>, Current)
  BY FollowsNothing

LEMMA TreeGoesOn ==
  ASSUME TypeInv, At("tree")
  PROVE  /\ pc = "restoring" /\ Current.path \in Dir /\ Current.path \notin File
         /\ Covers(Current) = Within(Current.path)
         /\ Follows(NextItems(Current.path), Current)
         /\ \A p \in Covers(Current) : Pending(NextItems(Current.path), p)
         /\ \A k \in 1..Len(NextItems(Current.path)) :
              NextItems(Current.path)[k].action \in {"tree", "node", "apply"}
<1>1. pc = "restoring" /\ Current.action = "tree" /\ Current \in GoodItem
  BY CurrentItem DEF At
<1>2. Current.path \in Dir /\ Current.path \notin File /\ Covers(Current) = Within(Current.path)
  BY <1>1, CoversOf DEF Covers
<1>. QED  BY <1>1, <1>2, FollowsTree

LEMMA NodeGoesOn ==
  ASSUME TypeInv, At("node"), Current.path \in opened
  PROVE  Follows(<<DataItem(Current.path, 0)>>, Current)
<1>1. Current \in GoodItem /\ Current.action = "node"
  BY CurrentItem DEF At
<1>2. Data[Current.path] # <<>> /\ Data[Current.path] \in Seq(Blob)
  BY <1>1, CoversOf, BlobsOfData DEF TypeInv, Items, OfFile
<1>3. 0 < Len(Data[Current.path])
  BY <1>2, EmptySeq, LenProperties
<1>. QED  BY <1>1, <1>3, FollowsData

LEMMA DataGoesOn ==
  ASSUME TypeInv, AtData, Index + 1 # Len(Data[Current.path])
  PROVE  Follows(<<DataItem(Current.path, Index + 1)>>, Current)
<1>1. Current \in GoodItem /\ Current.action \in {"node", "data"}
  BY DataAtWork, CurrentItem
<1>2. Index + 1 \in Nat /\ Index + 1 < Len(Data[Current.path])
  BY DataAtWork, BlobsOfData
<1>. QED  BY <1>1, <1>2, FollowsData

(***************************************************************************)
(* What the parts of the steps write.                                      *)
(***************************************************************************)

\* The directory above loses its times, nothing else.
LEMMA TouchedOf ==
  ASSUME NEW p \in Path, attrs \in [Path -> AttrState]
  PROVE  /\ Touched(p) \in [Path -> AttrState]
         /\ \A q \in Path : Touched(p)[q] = "restored" => attrs[q] = "restored"
         /\ \A q \in Path : Touched(p)[q] # attrs[q] => p \in Below(q) /\ attrs[q] = "restored"
<1>1. CASE p = Root
  BY <1>1 DEF Touched
<1>2. CASE p # Root
  <2>. DEFINE d == ParentOf(p)
  <2>1. p \in Below(d)
    BY <1>2, AboveOf DEF Below
  <2>2. d \in Path
    BY <1>2, ParentIsDir DEF Path
  <2>3. Touched(p) = [attrs EXCEPT ![d] = IF attrs[d] = "restored" THEN "stale" ELSE attrs[d]]
    BY <1>2 DEF Touched
  <2>. HIDE DEF d
  <2>. QED  BY <2>1, <2>2, <2>3 DEF AttrState
<1>. QED  BY <1>1, <1>2

LEMMA ConcludeOf ==
  ASSUME TypeRun, hardlinks \in HardLinks, NEW p \in Path, NEW ok \in BOOLEAN, Conclude(p, ok)
  PROVE  /\ hardlinks' \in HardLinks
         /\ reported' \subseteq Path /\ reported \subseteq reported'
         /\ \A n \in DOMAIN hardlinks : hardlinks'[n] = hardlinks[n] \/ (n = Ino[p] /\ hardlinks'[n] = p)
<1>1. CASE ok
  <2>1. hardlinks' = [hardlinks EXCEPT ![Ino[p]] = p] /\ reported' = reported
    BY <1>1 DEF Conclude
  <2>2. Ino[p] \in {Ino[q] : q \in Path}
    OBVIOUS
  <2>. QED  BY <2>1, <2>2 DEF HardLinks, TypeRun
<1>2. CASE ~ok
  BY <1>2 DEF Conclude, Report, TypeRun
<1>. QED  BY <1>1, <1>2

LEMMA ApplyNodeOf ==
  ASSUME TypeRun, attrs \in [Path -> AttrState], NEW f \in File, NEW n \in Nat, ApplyNode(f, n)
  PROVE  /\ bytesTransferred' \in Nat
         /\ attrs' \in [Path -> AttrState]
         /\ \A q \in Path \ {f} : attrs'[q] = Touched(f)[q]
<1>1. f \in Path /\ Touched(f) \in [Path -> AttrState]
  BY TouchedOf DEF Path
<1>2. PICK fetched \in SUBSET AttrBlobs(f) :
        /\ bytesTransferred' = bytesTransferred + n + Cardinality(fetched)
        /\ attrs' = [Touched(f) EXCEPT ![f] = "restored"] \/ attrs' = Touched(f)
  BY DEF ApplyNode
<1>3. Cardinality(fetched) \in Nat
  <2>1. IsFiniteSet(fetched)
    BY <1>1, AttrBlobsOf, FS_Subset
  <2>. QED  BY <2>1, FS_CardinalityType
<1>4. bytesTransferred' \in Nat
  BY <1>2, <1>3 DEF TypeRun
<1>5. /\ attrs' \in [Path -> AttrState]
      /\ \A q \in Path \ {f} : attrs'[q] = Touched(f)[q]
  BY <1>1, <1>2 DEF AttrState
<1>. QED  BY <1>4, <1>5

(***************************************************************************)
(* What a step of an item leaves as it was: everything about other files,  *)
(* and the attributes of directories, except that those above the item     *)
(* lose their times.                                                       *)
(***************************************************************************)
LeavesOthers ==
  /\ reported \subseteq reported'
  /\ \A g \in File \ {Current.path} : content'[g] = content[g] /\ (g \in made' <=> g \in made)
  /\ \A d \in Dir : attrs'[d] # attrs[d] =>
       \/ attrs[d] = "restored" /\ attrs'[d] # "restored" /\ Current.path \in Below(d)
       \/ Current.action = "apply" /\ d = Current.path /\ attrs'[d] = "restored"
  /\ \A n \in DOMAIN hardlinks : hardlinks'[n] # hardlinks[n] =>
       hardlinks'[n] = Current.path /\ n = Ino[Current.path]
  /\ UNCHANGED <<store, requests>>

Effects == TypeRun' /\ TypeDisk' /\ opened' \subseteq OfFile /\ LeavesOthers

LEMMA RestoreTreeEffects ==
  ASSUME TypeInv, RestoreTree
  PROVE  Effects /\ UNCHANGED <<made, content>> /\ pc' \in {"round", "failed"}
<1>. DEFINE d == Current.path
<1>1. At("tree") /\ d \in Dir /\ d \in Path
  BY TreeGoesOn DEF RestoreTree, Path
<1>2. UNCHANGED <<bytesTransferred, store, requests, opened, made, content>>
  BY DEF RestoreTree
<1>3. pc' \in {"round", "failed"}
  BY DEF RestoreTree, Finish
<1>4. CASE /\ dirs' = dirs \cup {d} \cup Above[d]
           /\ attrs' = Touched(d)
           /\ hardlinks' = [hardlinks EXCEPT ![Ino[d]] = d]
           /\ UNCHANGED reported \/ Report(d)
  <2>1. dirs' \subseteq Dir
    BY <1>1, <1>4, AboveOf DEF TypeInv, TypeDisk
  <2>2. /\ attrs' \in [Path -> AttrState]
        /\ \A e \in Dir : attrs'[e] # attrs[e] =>
             attrs[e] = "restored" /\ attrs'[e] # "restored" /\ d \in Below(e)
    <3>1. /\ attrs' \in [Path -> AttrState]
          /\ \A q \in Path : attrs'[q] = "restored" => attrs[q] = "restored"
          /\ \A q \in Path : attrs'[q] # attrs[q] => d \in Below(q) /\ attrs[q] = "restored"
      BY <1>1, <1>4, TouchedOf DEF TypeInv, TypeDisk
    <3>. QED  BY <3>1 DEF Path
  <2>3. /\ hardlinks' \in HardLinks
        /\ \A n \in DOMAIN hardlinks : hardlinks'[n] # hardlinks[n] =>
             hardlinks'[n] = d /\ n = Ino[d]
    BY <1>1, <1>4 DEF HardLinks, TypeInv, TypeDisk
  <2>4. reported' \subseteq Path /\ reported \subseteq reported'
    BY <1>1, <1>4 DEF Report, TypeInv, TypeRun
  <2>5. TypeRun' /\ TypeDisk'
    BY <1>2, <1>3, <2>1, <2>2, <2>3, <2>4 DEF TypeInv, TypeRun, TypeDisk
  <2>6. LeavesOthers
    BY <1>2, <2>2, <2>3, <2>4 DEF LeavesOthers
  <2>. QED  BY <1>2, <1>3, <2>5, <2>6 DEF Effects, TypeInv, Items
<1>5. CASE Report(d) /\ UNCHANGED <<dirs, attrs, hardlinks>>
  <2>1. reported' \subseteq Path /\ reported \subseteq reported'
    BY <1>1, <1>5 DEF Report, TypeInv, TypeRun
  <2>. QED
    BY <1>2, <1>3, <1>5, <2>1 DEF Effects, LeavesOthers, TypeInv, TypeRun, TypeDisk, Items
<1>. QED  BY <1>4, <1>5 DEF RestoreTree

LEMMA LinkNodeEffects ==
  ASSUME TypeInv, LinkNode
  PROVE  Effects /\ pc = "restoring" /\ Current.action = "node" /\ Finish(<<>>)
<1>. DEFINE f == Current.path
            existing == hardlinks[Ino[f]]
<1>1. pc = "restoring" /\ Current.action = "node" /\ Current \in GoodItem /\ Finish(<<>>)
  BY CurrentItem DEF LinkNode, At
<1>2. f \in File /\ f \in Path /\ f \notin Dir
  BY <1>1, CoversOf
<1>3. pc' = "round" /\ UNCHANGED <<bytesTransferred, store, requests, hardlinks, opened, dirs>>
  BY DEF LinkNode, Finish
<1>4. CASE /\ existing \in made
           /\ made' = made \cup {f}
           /\ content' = [content EXCEPT ![f] = content[existing]]
           /\ attrs' = [Touched(f) EXCEPT ![f] = attrs[existing]]
           /\ UNCHANGED reported
  <2>1. existing \in File /\ existing \in Path
    BY <1>4 DEF TypeInv, TypeDisk, Path
  <2>2. /\ content' \in [File -> Seq(Blob)] /\ made' \subseteq File
        /\ \A g \in File \ {f} : content'[g] = content[g] /\ (g \in made' <=> g \in made)
    BY <1>2, <1>4, <2>1 DEF TypeInv, TypeDisk
  <2>3. /\ Touched(f) \in [Path -> AttrState]
        /\ \A q \in Path : Touched(f)[q] = "restored" => attrs[q] = "restored"
        /\ \A q \in Path : Touched(f)[q] # attrs[q] => f \in Below(q) /\ attrs[q] = "restored"
    BY <1>2, TouchedOf DEF TypeInv, TypeDisk
  <2>4. attrs[existing] \in AttrState
    BY <2>1 DEF TypeInv, TypeDisk
  <2>5. attrs' \in [Path -> AttrState]
    BY <1>4, <2>3, <2>4
  <2>6. \A d \in Dir : d \in Path /\ attrs'[d] = Touched(f)[d]
    BY <1>2, <1>4, <2>3 DEF Path
  <2>7. \A d \in Dir : attrs'[d] # attrs[d] =>
          attrs[d] = "restored" /\ attrs'[d] # "restored" /\ f \in Below(d)
    BY <2>3, <2>6
  <2>8. TypeRun' /\ TypeDisk'
    BY <1>3, <1>4, <2>2, <2>5 DEF TypeInv, TypeRun, TypeDisk
  <2>9. LeavesOthers
    BY <1>3, <1>4, <2>2, <2>7 DEF LeavesOthers
  <2>. QED  BY <1>1, <1>3, <2>8, <2>9 DEF Effects, TypeInv, Items
<1>5. CASE Report(f) /\ UNCHANGED <<made, content, attrs>>
  <2>1. reported' \subseteq Path /\ reported \subseteq reported'
    BY <1>2, <1>5 DEF Report, TypeInv, TypeRun
  <2>. QED
    BY <1>1, <1>3, <1>5, <2>1 DEF Effects, LeavesOthers, TypeInv, TypeRun, TypeDisk, Items
<1>. QED  BY <1>4, <1>5 DEF LinkNode

LEMMA SkipSocketEffects ==
  ASSUME TypeInv, SkipSocket
  PROVE  /\ Effects /\ pc = "restoring" /\ Current.action = "node" /\ Finish(<<>>)
         /\ UNCHANGED <<made, content, attrs>>
<1>. DEFINE f == Current.path
<1>1. pc = "restoring" /\ Current.action = "node" /\ Current \in GoodItem /\ Finish(<<>>)
  BY CurrentItem DEF SkipSocket, At
<1>2. f \in Path
  BY <1>1, CoversOf
<1>3. /\ pc' = "round"
      /\ UNCHANGED <<bytesTransferred, store, requests, opened, dirs, made, content, attrs>>
  BY DEF SkipSocket, Finish
<1>4. /\ hardlinks' \in HardLinks
      /\ reported' \subseteq Path /\ reported \subseteq reported'
      /\ \A n \in DOMAIN hardlinks : hardlinks'[n] = hardlinks[n] \/ (n = Ino[f] /\ hardlinks'[n] = f)
  BY <1>2, ConcludeOf DEF SkipSocket, TypeInv, TypeDisk
<1>5. TypeRun' /\ TypeDisk'
  BY <1>3, <1>4 DEF TypeInv, TypeRun, TypeDisk
<1>6. LeavesOthers
  BY <1>3, <1>4 DEF LeavesOthers
<1>. QED  BY <1>1, <1>3, <1>5, <1>6 DEF Effects, TypeInv, Items

LEMMA CreateWholeEffects ==
  ASSUME TypeInv, CreateWhole
  PROVE  /\ Effects /\ pc = "restoring" /\ Current.action = "node" /\ Finish(<<>>)
         /\ Current.path \in made' /\ content'[Current.path] = Data[Current.path]
<1>. DEFINE f == Current.path
<1>1. pc = "restoring" /\ Current.action = "node" /\ Current \in GoodItem /\ Finish(<<>>)
  BY CurrentItem DEF CreateWhole, At
<1>2. f \in File /\ f \in Path /\ f \notin Dir
  BY <1>1, CoversOf
<1>3. /\ pc' = "round" /\ UNCHANGED <<store, requests, opened>>
      /\ dirs' = dirs \cup Above[f]
      /\ made' = made \cup {f}
      /\ content' = [content EXCEPT ![f] = Data[f]]
      /\ ApplyNode(f, Len(Data[f]))
  BY DEF CreateWhole, Finish
<1>4. PICK ok \in BOOLEAN : Conclude(f, ok)
  BY DEF CreateWhole
<1>5. /\ hardlinks' \in HardLinks
      /\ reported' \subseteq Path /\ reported \subseteq reported'
      /\ \A n \in DOMAIN hardlinks : hardlinks'[n] = hardlinks[n] \/ (n = Ino[f] /\ hardlinks'[n] = f)
  BY <1>2, <1>4, ConcludeOf DEF TypeInv, TypeDisk
<1>6. /\ bytesTransferred' \in Nat
      /\ attrs' \in [Path -> AttrState]
      /\ \A q \in Path \ {f} : attrs'[q] = Touched(f)[q]
  BY <1>2, <1>3, BlobsOfData, ApplyNodeOf DEF TypeInv, TypeDisk
<1>7. /\ \A q \in Path : Touched(f)[q] = "restored" => attrs[q] = "restored"
      /\ \A q \in Path : Touched(f)[q] # attrs[q] => f \in Below(q) /\ attrs[q] = "restored"
  BY <1>2, TouchedOf DEF TypeInv, TypeDisk
<1>8. \A d \in Dir : attrs'[d] # attrs[d] =>
        attrs[d] = "restored" /\ attrs'[d] # "restored" /\ f \in Below(d)
  <2>1. \A d \in Dir : d \in Path /\ attrs'[d] = Touched(f)[d]
    BY <1>2, <1>6 DEF Path
  <2>. QED  BY <1>7, <2>1
<1>9. dirs' \subseteq Dir
  BY <1>2, <1>3, AboveOf DEF TypeInv, TypeDisk
<1>10. /\ content' \in [File -> Seq(Blob)] /\ made' \subseteq File
       /\ f \in made' /\ content'[f] = Data[f]
       /\ \A g \in File \ {f} : content'[g] = content[g] /\ (g \in made' <=> g \in made)
  BY <1>2, <1>3, BlobsOfData DEF TypeInv, TypeDisk
<1>11. TypeRun' /\ TypeDisk'
  BY <1>3, <1>5, <1>6, <1>9, <1>10 DEF TypeInv, TypeRun, TypeDisk
<1>12. LeavesOthers
  BY <1>3, <1>5, <1>8, <1>10 DEF LeavesOthers
<1>. QED  BY <1>1, <1>3, <1>10, <1>11, <1>12 DEF Effects, TypeInv, Items

\* What is counted when something fails.
LEMMA CountGrows ==
  ASSUME TypeInv, NEW f, NEW index, NEW most \in Nat, FetchedUpTo(f, index, most)
  PROVE  bytesTransferred' \in Nat
         /\ \E n \in 0..most : bytesTransferred' = bytesTransferred + n
BY DEF FetchedUpTo, TypeInv, TypeRun

LEMMA FailNodeEffects ==
  ASSUME TypeInv, FailNode
  PROVE  /\ Effects /\ At("node") /\ Current.path \in reported'
         /\ UNCHANGED <<made, content, attrs>>
         /\ \/ Finish(<<>>)
            \/ Current.path \in opened /\ Finish(<<DataItem(Current.path, 0)>>)
<1>. DEFINE f == Current.path
<1>1. At("node") /\ f \in File /\ f \in Path
  BY CurrentItem, CoversOf DEF FailNode, At
<1>2. pc' = "round" /\ UNCHANGED <<store, requests, disk>>
  BY DEF FailNode, Finish
<1>3. f \in reported' /\ reported' \subseteq Path /\ reported \subseteq reported'
  BY <1>1 DEF FailNode, Report, TypeInv, TypeRun
<1>4. bytesTransferred' \in Nat
  <2>1. CASE UNCHANGED bytesTransferred
    BY <2>1 DEF TypeInv, TypeRun
  <2>2. CASE FetchedUpTo(f, 0, IF Kind[f] = "regular" THEN 1 ELSE Len(Data[f]))
    <3>1. (IF Kind[f] = "regular" THEN 1 ELSE Len(Data[f])) \in Nat
      BY <1>1, BlobsOfData
    <3>. QED  BY <2>2, <3>1, CountGrows
  <2>. QED  BY <2>1, <2>2 DEF FailNode
<1>5. TypeRun' /\ TypeDisk'
  BY <1>2, <1>3, <1>4 DEF TypeInv, TypeRun, TypeDisk, disk
<1>6. LeavesOthers
  BY <1>2, <1>3 DEF LeavesOthers, disk
<1>. QED  BY <1>1, <1>2, <1>3, <1>5, <1>6 DEF Effects, TypeInv, Items, FailNode, disk

LEMMA LeaveNodeEffects ==
  ASSUME TypeInv, LeaveNode
  PROVE  /\ Effects /\ At("node") /\ Finish(<<>>) /\ LeavesPartial
         /\ Current.path \in reported' /\ UNCHANGED <<opened, content>>
         /\ bytesTransferred' = bytesTransferred + 1
         /\ Current.path \in File /\ Data[Current.path] # <<>>
<1>. DEFINE f == Current.path
<1>1. At("node") /\ f \in File /\ f \in Path /\ f \notin Dir
  BY CurrentItem, CoversOf DEF LeaveNode, At
<1>2. /\ pc' = "round" /\ UNCHANGED <<store, requests, hardlinks, opened, content>>
      /\ Finish(<<>>) /\ LeavesPartial /\ Kind[f] = "regular"
      /\ dirs' = dirs \cup Above[f] /\ made' = made \cup {f} /\ attrs' = Touched(f)
      /\ bytesTransferred' = bytesTransferred + 1
      /\ f \in reported' /\ reported' \subseteq Path /\ reported \subseteq reported'
  BY <1>1 DEF LeaveNode, Finish, Report, TypeInv, TypeRun
<1>3. Data[f] # <<>>
  BY <1>1, <1>2, ObjectAssumption
<1>4. /\ attrs' \in [Path -> AttrState]
      /\ \A q \in Path : attrs'[q] = "restored" => attrs[q] = "restored"
      /\ \A q \in Path : attrs'[q] # attrs[q] => f \in Below(q) /\ attrs[q] = "restored"
  BY <1>1, <1>2, TouchedOf DEF TypeInv, TypeDisk
<1>5. dirs' \subseteq Dir /\ made' \subseteq File
  BY <1>1, <1>2, AboveOf DEF TypeInv, TypeDisk
<1>6. TypeRun' /\ TypeDisk'
  BY <1>2, <1>4, <1>5 DEF TypeInv, TypeRun, TypeDisk
<1>7. LeavesOthers
  BY <1>2, <1>4 DEF LeavesOthers, Path
<1>. QED  BY <1>1, <1>2, <1>3, <1>6, <1>7 DEF Effects, TypeInv, Items

LEMMA RestoreDataEffects ==
  ASSUME TypeInv, RestoreData
  PROVE  LET f == Current.path
             last == Index + 1 = Len(Data[f]) IN
         /\ Effects /\ AtData
         /\ f \in made' /\ content'[f] = Append(content[f], Data[f][Index + 1])
         /\ last => Finish(<<>>)
         /\ ~last => Finish(<<DataItem(f, Index + 1)>>)
<1>. DEFINE f == Current.path
            last == Index + 1 = Len(Data[f])
<1>1. /\ AtData /\ f \in OfFile /\ f \in File /\ Current \in GoodItem
      /\ Data[f][Index + 1] \in Blob /\ Current.action \in {"node", "data"}
  BY DataAtWork, CurrentItem DEF RestoreData
<1>2. f \in Path /\ f \notin Dir
  BY <1>1, CoversOf
<1>3. /\ pc' = "round" /\ UNCHANGED <<store, requests>>
      /\ dirs' = dirs \cup Above[f]
      /\ opened' = opened \cup {f}
      /\ made' = made \cup {f}
      /\ content' = [content EXCEPT ![f] = Append(content[f], Data[f][Index + 1])]
      /\ last => Finish(<<>>)
      /\ ~last => Finish(<<DataItem(f, Index + 1)>>)
  BY DEF RestoreData, Finish
<1>4. /\ bytesTransferred' \in Nat
      /\ attrs' \in [Path -> AttrState]
      /\ \A q \in Path \ {f} : attrs'[q] = Touched(f)[q]
  <2>1. CASE last
    BY <1>1, <2>1, ApplyNodeOf DEF RestoreData, TypeInv, TypeDisk
  <2>2. CASE ~last
    <3>1. attrs' = Touched(f) /\ bytesTransferred' = bytesTransferred + 1
      BY <2>2 DEF RestoreData
    <3>. QED  BY <1>2, <3>1, TouchedOf DEF TypeInv, TypeRun, TypeDisk
  <2>. QED  BY <2>1, <2>2
<1>5. /\ hardlinks' \in HardLinks
      /\ reported' \subseteq Path /\ reported \subseteq reported'
      /\ \A n \in DOMAIN hardlinks : hardlinks'[n] = hardlinks[n] \/ (n = Ino[f] /\ hardlinks'[n] = f)
  <2>1. PICK ok \in {TRUE, ~last} :
          IF Current.action = "node" THEN Conclude(f, ok)
          ELSE UNCHANGED hardlinks /\ IF ok THEN UNCHANGED reported ELSE Report(f)
    BY DEF RestoreData
  <2>2. CASE Current.action = "node"
    BY <1>2, <2>1, <2>2, ConcludeOf DEF TypeInv, TypeDisk
  <2>3. CASE Current.action # "node"
    BY <1>2, <2>1, <2>3 DEF Report, TypeInv, TypeRun, TypeDisk
  <2>. QED  BY <2>2, <2>3
<1>6. /\ \A q \in Path : Touched(f)[q] = "restored" => attrs[q] = "restored"
      /\ \A q \in Path : Touched(f)[q] # attrs[q] => f \in Below(q) /\ attrs[q] = "restored"
  BY <1>2, TouchedOf DEF TypeInv, TypeDisk
<1>7. \A d \in Dir : attrs'[d] # attrs[d] =>
        attrs[d] = "restored" /\ attrs'[d] # "restored" /\ f \in Below(d)
  <2>1. \A d \in Dir : d \in Path /\ attrs'[d] = Touched(f)[d]
    BY <1>2, <1>4 DEF Path
  <2>. QED  BY <1>6, <2>1
<1>8. dirs' \subseteq Dir /\ opened' \subseteq OfFile /\ opened' \subseteq File
  BY <1>1, <1>2, <1>3, AboveOf DEF TypeInv, TypeDisk, Items
<1>9. /\ content' \in [File -> Seq(Blob)] /\ made' \subseteq File
      /\ f \in made' /\ content'[f] = Append(content[f], Data[f][Index + 1])
      /\ \A g \in File \ {f} : content'[g] = content[g] /\ (g \in made' <=> g \in made)
  <2>1. Append(content[f], Data[f][Index + 1]) \in Seq(Blob)
    BY <1>1, AppendProperties DEF TypeInv, TypeDisk
  <2>. QED  BY <1>1, <1>3, <2>1 DEF TypeInv, TypeDisk
<1>10. TypeRun' /\ TypeDisk'
  BY <1>3, <1>4, <1>5, <1>8, <1>9 DEF TypeInv, TypeRun, TypeDisk
<1>11. LeavesOthers
  BY <1>3, <1>5, <1>7, <1>9 DEF LeavesOthers
<1>. QED  BY <1>1, <1>3, <1>8, <1>9, <1>10, <1>11 DEF Effects

LEMMA FailDataEffects ==
  ASSUME TypeInv, FailData
  PROVE  /\ Effects /\ pc = "restoring" /\ Current.action = "data" /\ Finish(<<>>)
         /\ Current.path \in reported'
         /\ Current.path \notin made' \/ (LeavesPartial /\ UNCHANGED <<made, content, attrs>>)
<1>. DEFINE f == Current.path
<1>1. pc = "restoring" /\ Current.action = "data" /\ Current \in GoodItem /\ Finish(<<>>)
  BY CurrentItem DEF FailData, At
<1>2. f \in File /\ f \in Path /\ f \notin Dir
  BY <1>1, CoversOf
<1>3. /\ pc' = "round" /\ UNCHANGED <<store, requests, hardlinks, opened, dirs>>
      /\ f \in reported' /\ reported' \subseteq Path /\ reported \subseteq reported'
      /\ bytesTransferred' \in Nat
  BY <1>2, CountGrows DEF FailData, Finish, Report, TypeInv, TypeRun
<1>4. CASE /\ made' = made \ {f}
           /\ content' = [content EXCEPT ![f] = <<>>]
           /\ attrs' = Touched(f)
  <2>1. /\ attrs' \in [Path -> AttrState]
        /\ \A d \in Dir : attrs'[d] # attrs[d] =>
             attrs[d] = "restored" /\ attrs'[d] # "restored" /\ f \in Below(d)
    <3>1. /\ attrs' \in [Path -> AttrState]
          /\ \A q \in Path : attrs'[q] = "restored" => attrs[q] = "restored"
          /\ \A q \in Path : attrs'[q] # attrs[q] => f \in Below(q) /\ attrs[q] = "restored"
      BY <1>2, <1>4, TouchedOf DEF TypeInv, TypeDisk
    <3>. QED  BY <3>1 DEF Path
  <2>2. /\ content' \in [File -> Seq(Blob)] /\ made' \subseteq File /\ f \notin made'
        /\ \A g \in File \ {f} : content'[g] = content[g] /\ (g \in made' <=> g \in made)
    <3>1. <<>> \in Seq(Blob)
      OBVIOUS
    <3>. QED  BY <1>2, <1>4, <3>1 DEF TypeInv, TypeDisk
  <2>3. TypeRun' /\ TypeDisk'
    BY <1>3, <2>1, <2>2 DEF TypeInv, TypeRun, TypeDisk
  <2>4. LeavesOthers
    BY <1>3, <2>1, <2>2 DEF LeavesOthers
  <2>. QED  BY <1>1, <1>3, <2>2, <2>3, <2>4 DEF Effects, TypeInv, Items
<1>5. CASE LeavesPartial /\ UNCHANGED <<made, content, attrs>>
  BY <1>1, <1>3, <1>5 DEF Effects, LeavesOthers, TypeInv, TypeRun, TypeDisk, Items
<1>. QED  BY <1>4, <1>5 DEF FailData

LEMMA ApplyTreeEffects ==
  ASSUME TypeInv, ApplyTree
  PROVE  /\ Effects /\ pc = "restoring" /\ Current.action = "apply" /\ Finish(<<>>)
         /\ Current.path \in Dir /\ attrs'[Current.path] = "restored"
         /\ UNCHANGED <<made, content>>
<1>. DEFINE d == Current.path
<1>1. pc = "restoring" /\ Current.action = "apply" /\ Current \in GoodItem /\ Finish(<<>>)
  BY CurrentItem DEF ApplyTree, At
<1>2. d \in Dir /\ d \in Path
  BY <1>1, CoversOf
<1>3. /\ pc' = "round" /\ UNCHANGED <<store, reported, requests, hardlinks, opened, dirs, made, content>>
      /\ attrs' = [attrs EXCEPT ![d] = "restored"]
      /\ bytesTransferred' = bytesTransferred + Cardinality(AttrBlobs(d))
  BY DEF ApplyTree, Finish
<1>4. bytesTransferred' \in Nat
  <2>1. Cardinality(AttrBlobs(d)) \in Nat
    BY <1>2, AttrBlobsOf, FS_CardinalityType
  <2>. QED  BY <1>3, <2>1 DEF TypeInv, TypeRun
<1>5. attrs' \in [Path -> AttrState] /\ attrs'[d] = "restored"
      /\ \A e \in Dir : attrs'[e] # attrs[e] => e = d
  BY <1>2, <1>3 DEF AttrState, TypeInv, TypeDisk, Path
<1>6. TypeRun' /\ TypeDisk'
  BY <1>3, <1>4, <1>5 DEF TypeInv, TypeRun, TypeDisk
<1>7. LeavesOthers
  BY <1>1, <1>3, <1>5 DEF LeavesOthers
<1>. QED  BY <1>1, <1>2, <1>3, <1>5, <1>6, <1>7 DEF Effects, TypeInv, Items

LEMMA FailTreeEffects ==
  ASSUME TypeInv, FailTree
  PROVE  /\ Effects /\ pc = "restoring" /\ Current.action = "apply" /\ Finish(<<>>)
         /\ Current.path \in reported'
         /\ UNCHANGED <<made, content, attrs>>
<1>. DEFINE d == Current.path
<1>1. pc = "restoring" /\ Current.action = "apply" /\ Current \in GoodItem /\ Finish(<<>>)
  BY CurrentItem DEF FailTree, At
<1>2. d \in Path
  BY <1>1, CoversOf
<1>3. /\ pc' = "round" /\ UNCHANGED <<store, requests, disk>>
      /\ d \in reported' /\ reported' \subseteq Path /\ reported \subseteq reported'
  BY <1>2 DEF FailTree, Finish, Report, TypeInv, TypeRun
<1>4. bytesTransferred' \in Nat
  <2>1. PICK fetched \in SUBSET AttrBlobs(d) :
          bytesTransferred' = bytesTransferred + Cardinality(fetched)
    BY DEF FailTree
  <2>2. Cardinality(fetched) \in Nat
    BY <1>2, AttrBlobsOf, FS_Subset, FS_CardinalityType
  <2>. QED  BY <2>1, <2>2 DEF TypeInv, TypeRun
<1>. QED
  BY <1>1, <1>3, <1>4 DEF Effects, LeavesOthers, TypeInv, TypeRun, TypeDisk, Items, disk

LEMMA WaitForObjectEffects ==
  ASSUME TypeInv, WaitForObject
  PROVE  /\ Effects /\ pc = "restoring" /\ pc' = "waiting"
         /\ UNCHANGED <<restoreItems, made, content, attrs, hardlinks, reported>>
<1>. DEFINE f == Current.path
<1>1. /\ pc = "restoring" /\ pc' = "waiting"
      /\ UNCHANGED <<restoreItems, bytesTransferred, store, reported, requests,
                     hardlinks, made, content, attrs>>
  BY DEF WaitForObject
<1>2. dirs' \subseteq Dir /\ opened' \subseteq File /\ opened' \subseteq OfFile
  <2>1. CASE UNCHANGED <<opened, dirs>>
    BY <2>1 DEF TypeInv, TypeDisk, Items
  <2>2. CASE /\ At("node") /\ Kind[f] = "regular"
             /\ opened' = opened \cup {f} /\ dirs' = dirs \cup Above[f]
    <3>1. f \in File /\ f \in Path
      BY <1>1, <2>2, CurrentItem, CoversOf DEF At
    <3>2. f \in OfFile
      BY <2>2, <3>1, ObjectAssumption DEF OfFile
    <3>. QED  BY <2>2, <3>1, <3>2, AboveOf DEF TypeInv, TypeDisk, Items
  <2>. QED  BY <2>1, <2>2 DEF WaitForObject
<1>. QED
  BY <1>1, <1>2 DEF Effects, LeavesOthers, TypeInv, TypeRun, TypeDisk

\* A step of an item: what it leaves to do, or why it leaves its item.
LEMMA ItemSteps ==
  ASSUME TypeInv, RestoreAnItem
  PROVE  /\ Effects /\ pc = "restoring"
         /\ \/ pc' \in {"failed", "waiting"} /\ UNCHANGED restoreItems
            \/ \E next : Finish(next) /\ Follows(next, Current)
<1>1. CASE RestoreTree
  <2>1. At("tree")
    BY <1>1 DEF RestoreTree
  <2>2. Follows(NextItems(Current.path), Current) /\ pc = "restoring"
    BY <2>1, TreeGoesOn
  <2>3. \/ Finish(NextItems(Current.path))
        \/ pc' = "failed" /\ UNCHANGED restoreItems
    BY <1>1 DEF RestoreTree
  <2>. QED  BY <1>1, <2>2, <2>3, RestoreTreeEffects
<1>2. CASE LinkNode
  BY <1>2, LinkNodeEffects, AnItemIsDone
<1>3. CASE SkipSocket
  BY <1>3, SkipSocketEffects, AnItemIsDone
<1>4. CASE CreateWhole
  BY <1>4, CreateWholeEffects, AnItemIsDone
<1>5. CASE FailNode
  <2>1. pc = "restoring"
    BY <1>5, FailNodeEffects DEF At
  <2>. QED  BY <1>5, <2>1, FailNodeEffects, AnItemIsDone, NodeGoesOn
<1>6. CASE RestoreData
  <2>1. pc = "restoring"
    BY <1>6, RestoreDataEffects, DataAtWork
  <2>. QED  BY <1>6, <2>1, RestoreDataEffects, AnItemIsDone, DataGoesOn
<1>7. CASE FailData
  BY <1>7, FailDataEffects, AnItemIsDone
<1>8. CASE ApplyTree
  BY <1>8, ApplyTreeEffects, AnItemIsDone
<1>9. CASE FailTree
  BY <1>9, FailTreeEffects, AnItemIsDone
<1>10. CASE WaitForObject
  BY <1>10, WaitForObjectEffects
<1>11. CASE LeaveNode
  BY <1>11, LeaveNodeEffects, AnItemIsDone DEF At
<1>. QED
  BY <1>1, <1>2, <1>3, <1>4, <1>5, <1>6, <1>7, <1>8, <1>9, <1>10, <1>11 DEF RestoreAnItem

LEMMA InitType == Init => TypeInv
<1>. SUFFICES ASSUME Init PROVE TypeInv
  OBVIOUS
<1>1. TypeRun
  BY DEF Init, TypeRun
<1>2. TypeRequests
  <2>1. <<>> \in Seq(RequestItems)
    OBVIOUS
  <2>2. PerRound \in Nat
    BY ObjectAssumption
  <2>. QED  BY <2>1, <2>2 DEF Init, TypeRequests
<1>3. TypeDisk
  <2>1. <<>> \in Seq(Blob)
    OBVIOUS
  <2>. QED  BY <2>1 DEF Init, TypeDisk, HardLinks, AttrState
<1>4. Items
  <2>1. InOrder(<<>>)
    BY FollowsNothing DEF Follows
  <2>2. \A p : ~Pending(<<>>, p)
    BY DEF Pending
  <2>. QED  BY <2>1, <2>2 DEF Init, Items
<1>. QED  BY <1>1, <1>2, <1>3, <1>4 DEF TypeInv

LEMMA NextType == TypeInv /\ [Next]_vars => TypeInv'
<1>. SUFFICES ASSUME TypeInv, [Next]_vars PROVE TypeInv'
  OBVIOUS
<1>1. CASE RestoreAnItem
  <2>1. Effects /\ pc = "restoring"
    BY <1>1, ItemSteps
  <2>2. TypeRequests'
    BY <2>1 DEF Effects, LeavesOthers, TypeInv, TypeRequests, requests
  <2>3. Items'
    <3>1. CASE pc' \in {"failed", "waiting"} /\ UNCHANGED restoreItems
      BY <2>1, <3>1 DEF Effects, TypeInv, Items
    <3>2. CASE \E next : Finish(next) /\ Follows(next, Current)
      BY <2>1, <3>2, FinishKeepsItems DEF Effects
    <3>. QED  BY <1>1, <3>1, <3>2, ItemSteps
  <2>. QED  BY <2>1, <2>2, <2>3 DEF Effects, TypeInv
<1>2. CASE SetUp
  <2>1. restoreItems' = <<FirstItem>> /\ pc' = "round"
    BY <1>2 DEF SetUp
  <2>2. InOrder(<<FirstItem>>) /\ \A p : Pending(<<FirstItem>>, p) => p \in Restored
    <3>1. \A k \in 1..Len(<<FirstItem>>) : <<FirstItem>>[k] = FirstItem
      OBVIOUS
    <3>. QED  BY <3>1, FirstItems DEF Pending
  <2>3. Items'
    BY <1>2, <2>1, <2>2 DEF SetUp, disk, TypeInv, Items
  <2>4. TypeRequests'
    <3>1. <<FirstRequestItem>> \in Seq(RequestItems)
      BY AsksForRestored
    <3>. QED  BY <1>2, <3>1 DEF SetUp, requests, TypeInv, TypeRequests
  <2>. QED  BY <1>2, <2>3, <2>4 DEF SetUp, disk, TypeInv, TypeRun, TypeDisk
<1>3. CASE BeginRound
  BY <1>3, ObjectAssumption DEF BeginRound, disk, TypeInv, TypeRun, TypeRequests, TypeDisk, Items
<1>4. CASE SkipRound
  BY <1>4 DEF SkipRound, requests, disk, TypeInv, TypeRun, TypeRequests, TypeDisk, Items
<1>5. CASE RequestMoreGlacierItems
  <2>. DEFINE s == glacierRequestItems
  <2>1. s \in Seq(RequestItems) /\ s # <<>> /\ Head(s) \in RequestItems
    BY <1>5, HeadTailProperties DEF RequestMoreGlacierItems, TypeInv, TypeRequests
  <2>2. glacierRequestItems' \in Seq(RequestItems)
    BY <1>5, <2>1, AskedAfter DEF RequestMoreGlacierItems
  <2>3. TypeRequests'
    BY <1>5, <2>1, <2>2, RequestKeepsTypes DEF RequestMoreGlacierItems, TypeInv, TypeRequests
  <2>. QED
    BY <1>5, <2>3 DEF RequestMoreGlacierItems, disk, TypeInv, TypeRun, TypeDisk, Items
<1>6. CASE RoundRequested \/ Wakeup
  BY <1>6 DEF RoundRequested, Wakeup, requests, disk, TypeInv, TypeRun, TypeRequests, TypeDisk, Items
<1>7. CASE DidFail
  <2>. DEFINE s == glacierRequestItems
  <2>1. TypeRequests'
    <3>1. CASE UNCHANGED <<store, bytesActuallyRequestedThisRound>>
      BY <1>7, <3>1 DEF DidFail, TypeInv, TypeRequests
    <3>2. CASE /\ bytesActuallyRequestedThisRound < PerRound
               /\ s # <<>>
               /\ \E some \in SUBSET {ObjectOf[b] : b \in BlobsToRequest(Head(s))} : Request(some)
      <4>1. Head(s) \in RequestItems
        BY <3>2, HeadTailProperties DEF TypeInv, TypeRequests
      <4>. QED
        BY <1>7, <3>2, <4>1, RequestKeepsTypes DEF DidFail, TypeInv, TypeRequests
    <3>. QED  BY <1>7, <3>1, <3>2 DEF DidFail
  <2>. QED  BY <1>7, <2>1 DEF DidFail, disk, TypeInv, TypeRun, TypeDisk, Items
<1>8. CASE DidSucceed
  BY <1>8 DEF DidSucceed, requests, disk, TypeInv, TypeRun, TypeRequests, TypeDisk, Items
<1>9. CASE Abort
  BY <1>9 DEF Abort, requests, TypeInv, TypeRun, TypeRequests, TypeDisk, Items
<1>10. CASE RoundComesDue
  BY <1>10 DEF RoundComesDue, disk, TypeInv, TypeRun, TypeRequests, TypeDisk, Items
<1>11. ASSUME NEW o \in Object, Thaw(o) \/ Expire(o) PROVE TypeInv'
  BY <1>11 DEF Thaw, Expire, requests, disk, TypeInv, TypeRun, TypeRequests, TypeDisk, Items
<1>12. CASE UNCHANGED vars
  BY <1>12 DEF vars, requests, disk, TypeInv, TypeRun, TypeRequests, TypeDisk, Items
<1>. QED
  BY <1>1, <1>2, <1>3, <1>4, <1>5, <1>6, <1>7, <1>8, <1>9, <1>10, <1>11, <1>12 DEF Next, Run

LEMMA TypeInvariant == Spec => []TypeInv
  BY InitType, NextType, PTL DEF Spec

\* Every variable keeps its type: no counter leaves its range, and no item is
\* about a blob or a path that does not exist.
THEOREM TypesAreKept == Spec => []TypeOK
  BY TypeInvariant, TypeInvImpliesTypeOK, PTL

\* One file at a time is continued, and by the first item only.
THEOREM OneFileAtATime == Spec => []OneFileOpen
  BY TypeInvariant, TypeInvImpliesOneFileOpen, PTL

(***************************************************************************)
(* What is on disk for the items that are left: of a file whose item was   *)
(* not reached nothing, of the file at work the blobs that its item        *)
(* counts; and a directory that has its times has nothing left to do in    *)
(* it.                                                                     *)
(***************************************************************************)
FreshItem(i, md, ct) ==
  /\ i.action \in {"tree", "node"} =>
       \A f \in Covers(i) \cap File : f \notin md /\ ct[f] = <<>>
  /\ i.action = "data" =>
       Len(ct[i.path]) = i.index /\ IsPrefix(ct[i.path], Data[i.path])

FreshInv == \A k \in 1..Len(restoreItems) : FreshItem(restoreItems[k], made, content)

LinkInv == \A n \in DOMAIN hardlinks : hardlinks[n] # None => Ino[hardlinks[n]] = n

TimesInv ==
  \A d \in Dir : attrs[d] = "restored" => \A p \in Below(d) : ~Pending(restoreItems, p)

StartInv ==
  pc = "setUp" => /\ made = {} /\ \A f \in File : content[f] = <<>>
                  /\ \A p \in Path : attrs[p] = "unset"

DataInv == FreshInv /\ LinkInv /\ TimesInv /\ StartInv

LEMMA EmptyIsPrefix ==
  ASSUME NEW f \in File
  PROVE  IsPrefix(<<>>, Data[f]) /\ Len(<<>>) = 0
<1>1. <<>> \in Seq(Blob) /\ Len(<<>>) = 0
  OBVIOUS
<1>2. Data[f] \in Seq(Blob) /\ Len(<<>>) <= Len(Data[f])
  BY <1>1, BlobsOfData
<1>3. \A k \in 1..Len(<<>>) : <<>>[k] = Data[f][k]
  BY <1>1
<1>4. IsPrefix(<<>>, Data[f])
  BY <1>1, <1>2, <1>3, PrefixElements
<1>. QED  BY <1>1, <1>4

\* The data before and after one more blob of it was restored.
LEMMA DataBefore ==
  ASSUME TypeInv, FreshInv, AtData
  PROVE  LET f == Current.path IN
         /\ content[f] \in Seq(Blob) /\ Len(content[f]) = Index /\ IsPrefix(content[f], Data[f])
<1>. DEFINE f == Current.path
<1>1. /\ pc = "restoring" /\ f \in File /\ Current.action \in {"node", "data"}
      /\ Current \in GoodItem /\ Current = restoreItems[1] /\ 1 \in 1..Len(restoreItems)
  BY DataAtWork, CurrentItem
<1>2. FreshItem(Current, made, content)
  BY <1>1 DEF FreshInv
<1>3. content[f] \in Seq(Blob)
  BY <1>1 DEF TypeInv, TypeDisk
<1>4. CASE Current.action = "node"
  <2>1. f \in Covers(Current)
    BY <1>1, CoversOf
  <2>2. content[f] = <<>>
    BY <1>1, <1>2, <1>4, <2>1 DEF FreshItem
  <2>. QED  BY <1>1, <1>3, <1>4, <2>2, EmptyIsPrefix DEF Index
<1>5. CASE Current.action = "data"
  BY <1>2, <1>3, <1>5 DEF FreshItem, Index
<1>. QED  BY <1>1, <1>4, <1>5

LEMMA DataAfter ==
  ASSUME TypeInv, FreshInv, RestoreData
  PROVE  LET f == Current.path IN
         /\ Len(content'[f]) = Index + 1 /\ IsPrefix(content'[f], Data[f])
         /\ Index + 1 = Len(Data[f]) => content'[f] = Data[f]
<1>. DEFINE f == Current.path
            before == content[f]
            after == Append(before, Data[f][Index + 1])
<1>1. /\ AtData /\ content'[f] = after
  BY RestoreDataEffects
<1>2. /\ f \in File /\ Index \in Nat /\ Index + 1 \in 1..Len(Data[f])
      /\ Data[f][Index + 1] \in Blob
  BY <1>1, DataAtWork
<1>3. before \in Seq(Blob) /\ Len(before) = Index /\ IsPrefix(before, Data[f])
  BY <1>1, DataBefore
<1>4. Data[f] \in Seq(Blob) /\ Len(Data[f]) \in Nat
  BY <1>2, BlobsOfData
<1>5. \A k \in 1..Index : before[k] = Data[f][k]
  BY <1>3, <1>4, PrefixElements
<1>6. /\ after \in Seq(Blob) /\ Len(after) = Index + 1
      /\ \A k \in 1..Index : after[k] = before[k]
      /\ after[Index + 1] = Data[f][Index + 1]
  BY <1>2, <1>3, AppendProperties
<1>. HIDE DEF after, before, f
<1>7. \A k \in 1..Len(after) : after[k] = Data[f][k]
  <2>1. \A k \in 1..Len(after) : k \in 1..Index \/ k = Index + 1
    BY <1>2, <1>6
  <2>. QED  BY <1>5, <1>6, <2>1
<1>8. IsPrefix(after, Data[f])
  <2>1. Len(after) <= Len(Data[f])
    BY <1>2, <1>4, <1>6
  <2>. QED  BY <1>4, <1>6, <1>7, <2>1, PrefixElements
<1>9. Index + 1 = Len(Data[f]) => after = Data[f]
  BY <1>4, <1>6, <1>7, SeqEqual
<1>. QED  BY <1>1, <1>6, <1>8, <1>9 DEF f

(***************************************************************************)
(* A step of an item, for the items that are left after it.                *)
(***************************************************************************)
LEMMA FreshAfter ==
  ASSUME TypeInv, FreshInv, LeavesOthers, pc = "restoring",
         NEW next, Finish(next), Follows(next, Current),
         \A k \in 1..Len(next) : FreshItem(next[k], made', content')
  PROVE  FreshInv'
<1>. DEFINE s == restoreItems
            t == next \o Tail(s)
<1>1. /\ InOrder(s) /\ s # <<>> /\ s \in Seq(GoodItem)
      /\ Current \in GoodItem /\ Current = s[1] /\ 1 \in 1..Len(s)
  BY CurrentItem DEF TypeInv, Items
<1>2. Current.path \in Covers(Current)
  BY <1>1, CoversOf
<1>3. \A k \in 1..Len(t) :
        \/ k \in 1..Len(next) /\ t[k] = next[k]
        \/ \E j \in 2..Len(s) : t[k] = s[j]
  BY <1>1, OrderAfter DEF Current
<1>4. restoreItems' = t
  BY DEF Finish
<1>5. ASSUME NEW j \in 2..Len(s) PROVE FreshItem(s[j], made', content')
  <2>1. j \in 1..Len(s) /\ j # 1
    BY <1>1, LenProperties
  <2>2. s[j].action # "data" /\ Covers(s[1]) \cap Covers(s[j]) = {}
    BY <1>1, <2>1 DEF InOrder, OneOpen, CoverOnce
  <2>3. FreshItem(s[j], made, content)
    BY <2>1 DEF FreshInv
  <2>4. \A g \in Covers(s[j]) \cap File : content'[g] = content[g] /\ (g \in made' <=> g \in made)
    BY <1>1, <1>2, <2>2 DEF LeavesOthers
  <2>. QED  BY <2>2, <2>3, <2>4 DEF FreshItem
<1>. HIDE DEF t
<1>6. \A k \in 1..Len(t) : FreshItem(t[k], made', content')
  BY <1>3, <1>5
<1>. QED  BY <1>4, <1>6 DEF FreshInv, FreshItem

\* A directory that has its times keeps them: nothing in it is still to be made.
LEMMA TimesStay ==
  ASSUME TypeInv, TimesInv, LeavesOthers, pc = "restoring"
  PROVE  \A d \in Dir : attrs[d] = "restored" => attrs'[d] = "restored"
<1>1. Pending(restoreItems, Current.path)
  BY CurrentItem
<1>. QED  BY <1>1 DEF TimesInv, LeavesOthers

LEMMA TimesAfter ==
  ASSUME TypeInv, TimesInv, LeavesOthers, pc = "restoring",
         NEW next, Finish(next), Follows(next, Current), Current.action = "apply" => next = <<>>
  PROVE  TimesInv'
<1>. DEFINE s == restoreItems
            t == next \o Tail(s)
<1>1. InOrder(s) /\ s # <<>> /\ Current = s[1] /\ 1 \in 1..Len(s)
  BY CurrentItem DEF TypeInv, Items
<1>2. restoreItems' = t
  BY DEF Finish
<1>3. /\ \A p : Pending(t, p) => Pending(s, p)
      /\ \A k \in 1..Len(t) :
           \/ k \in 1..Len(next) /\ t[k] = next[k]
           \/ \E j \in 2..Len(s) : t[k] = s[j]
  BY <1>1, OrderAfter DEF Current
<1>. HIDE DEF t
<1>4. SUFFICES ASSUME NEW d \in Dir, attrs'[d] = "restored", NEW p \in Below(d), Pending(t, p)
               PROVE  FALSE
  BY <1>2 DEF TimesInv
<1>5. CASE attrs[d] = "restored"
  BY <1>3, <1>4, <1>5 DEF TimesInv
<1>6. CASE attrs[d] # "restored"
  <2>1. Current.action = "apply" /\ d = Current.path /\ next = <<>>
    BY <1>4, <1>6 DEF LeavesOthers
  <2>2. Len(next) = 0
    BY <2>1
  <2>3. PICK k \in 1..Len(t) : p \in Covers(t[k])
    BY <1>4 DEF Pending
  <2>4. PICK j \in 2..Len(s) : t[k] = s[j]
    BY <1>3, <2>2, <2>3
  <2>5. j \in 1..Len(s) /\ 1 < j
    BY <1>1, LenProperties DEF InOrder
  <2>6. Covers(s[j]) \cap Below(s[1].path) = {}
    BY <1>1, <2>1, <2>5 DEF InOrder, AppliedLast
  <2>. QED  BY <1>1, <1>4, <2>1, <2>3, <2>4, <2>6
<1>. QED  BY <1>5, <1>6

\* An item that is done, and a file that goes on.
LEMMA DataAfterDone ==
  ASSUME TypeInv, DataInv, LeavesOthers, pc = "restoring", Finish(<<>>)
  PROVE  FreshInv' /\ TimesInv'
<1>1. Len(<<>>) = 0 /\ Follows(<<>>, Current)
  BY AnItemIsDone
<1>2. \A k \in 1..Len(<<>>) : FreshItem(<<>>[k], made', content')
  BY <1>1
<1>. QED  BY <1>1, <1>2, FreshAfter, TimesAfter DEF DataInv

LEMMA DataAfterBlob ==
  ASSUME TypeInv, DataInv, LeavesOthers, pc = "restoring", NEW n \in Nat,
         Finish(<<DataItem(Current.path, n)>>), Follows(<<DataItem(Current.path, n)>>, Current),
         Len(content'[Current.path]) = n, IsPrefix(content'[Current.path], Data[Current.path]),
         Current.action # "apply"
  PROVE  FreshInv' /\ TimesInv'
<1>. DEFINE next == <<DataItem(Current.path, n)>>
<1>1. \A k \in 1..Len(next) : next[k] = DataItem(Current.path, n)
  OBVIOUS
<1>2. FreshItem(DataItem(Current.path, n), made', content')
  BY DEF FreshItem, DataItem
<1>3. \A k \in 1..Len(next) : FreshItem(next[k], made', content')
  BY <1>1, <1>2
<1>. HIDE DEF next
<1>4. FreshInv' /\ TimesInv'
  BY <1>3, FreshAfter, TimesAfter DEF DataInv, next
<1>. QED  BY <1>4

LEMMA LinksAfter ==
  ASSUME TypeInv, LinkInv, LeavesOthers, hardlinks' \in HardLinks
  PROVE  LinkInv'
<1>1. DOMAIN hardlinks = DOMAIN hardlinks'
  BY DEF TypeInv, TypeDisk, HardLinks
<1>. QED  BY <1>1 DEF LinkInv, LeavesOthers

LEMMA ItemStepsKeepData ==
  ASSUME TypeInv, DataInv, RestoreAnItem
  PROVE  DataInv'
<1>1. Effects /\ LeavesOthers /\ pc = "restoring"
  BY ItemSteps DEF Effects
<1>2. LinkInv'
  BY <1>1, LinksAfter DEF Effects, TypeDisk, DataInv
<1>3. StartInv'
  BY ItemSteps DEF StartInv, Finish
<1>4. CASE RestoreTree
  <2>. DEFINE next == NextItems(Current.path)
  <2>1. /\ At("tree") /\ UNCHANGED <<made, content>>
        /\ Finish(next) \/ UNCHANGED restoreItems
    BY <1>4, RestoreTreeEffects DEF RestoreTree
  <2>2. CASE Finish(next)
    <3>1. /\ Follows(next, Current) /\ Current.action = "tree"
          /\ \A k \in 1..Len(next) : next[k].action \in {"tree", "node", "apply"}
      BY <2>1, TreeGoesOn DEF At
    <3>2. FreshItem(Current, made, content)
      BY <1>1, CurrentItem DEF DataInv, FreshInv
    <3>3. \A k \in 1..Len(next) : Covers(next[k]) \subseteq Covers(Current)
      BY <3>1 DEF Follows
    <3>. HIDE DEF next
    <3>4. \A k \in 1..Len(next) : FreshItem(next[k], made', content')
      BY <2>1, <3>1, <3>2, <3>3 DEF FreshItem
    <3>5. FreshInv' /\ TimesInv'
      BY <1>1, <2>2, <3>1, <3>4, FreshAfter, TimesAfter DEF DataInv
    <3>. QED  BY <1>2, <1>3, <3>5 DEF DataInv
  <2>3. CASE UNCHANGED restoreItems
    <3>1. FreshInv'
      BY <2>1, <2>3 DEF DataInv, FreshInv, FreshItem
    <3>2. TimesInv'
      <4>1. \A d \in Dir : attrs'[d] = "restored" => attrs[d] = "restored"
        BY <1>1, <2>1 DEF LeavesOthers, At
      <4>. QED  BY <2>3, <4>1 DEF DataInv, TimesInv
    <3>. QED  BY <1>2, <1>3, <3>1, <3>2 DEF DataInv
  <2>. QED  BY <2>1, <2>2, <2>3
<1>5. CASE LinkNode \/ SkipSocket \/ CreateWhole \/ LeaveNode \/ FailData \/ ApplyTree \/ FailTree
  <2>1. Finish(<<>>)
    BY <1>5, LinkNodeEffects, SkipSocketEffects, CreateWholeEffects, LeaveNodeEffects,
       FailDataEffects, ApplyTreeEffects, FailTreeEffects
  <2>. QED  BY <1>1, <1>2, <1>3, <2>1, DataAfterDone DEF DataInv
<1>6. CASE FailNode
  <2>1. /\ At("node") /\ UNCHANGED <<made, content, attrs>>
        /\ \/ Finish(<<>>)
           \/ Current.path \in opened /\ Finish(<<DataItem(Current.path, 0)>>)
    BY <1>6, FailNodeEffects
  <2>2. CASE Finish(<<>>)
    BY <1>1, <1>2, <1>3, <2>2, DataAfterDone DEF DataInv
  <2>3. CASE Current.path \in opened /\ Finish(<<DataItem(Current.path, 0)>>)
    <3>1. Follows(<<DataItem(Current.path, 0)>>, Current)
      BY <2>1, <2>3, NodeGoesOn
    <3>2. Current.action = "node" /\ Current \in GoodItem /\ FreshItem(Current, made, content)
      BY <1>1, <2>1, CurrentItem DEF At, DataInv, FreshInv
    <3>3. Current.path \in File /\ content'[Current.path] = <<>>
      BY <2>1, <3>2, CoversOf DEF FreshItem
    <3>4. Len(content'[Current.path]) = 0 /\ IsPrefix(content'[Current.path], Data[Current.path])
      BY <3>3, EmptyIsPrefix
    <3>5. FreshInv' /\ TimesInv'
      BY <1>1, <2>3, <3>1, <3>2, <3>4, DataAfterBlob
    <3>. QED  BY <1>2, <1>3, <3>5 DEF DataInv
  <2>. QED  BY <2>1, <2>2, <2>3
<1>7. CASE RestoreData
  <2>1. /\ AtData
        /\ Index + 1 = Len(Data[Current.path]) => Finish(<<>>)
        /\ Index + 1 # Len(Data[Current.path]) => Finish(<<DataItem(Current.path, Index + 1)>>)
    BY <1>7, RestoreDataEffects
  <2>2. CASE Index + 1 = Len(Data[Current.path])
    BY <1>1, <1>2, <1>3, <2>1, <2>2, DataAfterDone DEF DataInv
  <2>3. CASE Index + 1 # Len(Data[Current.path])
    <3>1. Follows(<<DataItem(Current.path, Index + 1)>>, Current)
      BY <2>1, <2>3, DataGoesOn
    <3>2. Index + 1 \in Nat /\ Current.action # "apply"
      BY <2>1, DataAtWork
    <3>3. /\ Len(content'[Current.path]) = Index + 1
          /\ IsPrefix(content'[Current.path], Data[Current.path])
      BY <1>7, DataAfter DEF DataInv
    <3>4. FreshInv' /\ TimesInv'
      BY <1>1, <2>1, <2>3, <3>1, <3>2, <3>3, DataAfterBlob
    <3>. QED  BY <1>2, <1>3, <3>4 DEF DataInv
  <2>. QED  BY <2>2, <2>3
<1>8. CASE WaitForObject
  <2>1. UNCHANGED <<restoreItems, made, content, attrs>>
    BY <1>8, WaitForObjectEffects
  <2>. QED  BY <1>2, <1>3, <2>1 DEF DataInv, FreshInv, FreshItem, TimesInv
<1>. QED
  BY <1>4, <1>5, <1>6, <1>7, <1>8 DEF RestoreAnItem

LEMMA InitData == Init => DataInv
<1>. SUFFICES ASSUME Init PROVE DataInv
  OBVIOUS
<1>1. Len(<<>>) = 0 /\ restoreItems = <<>>
  BY DEF Init
<1>2. FreshInv
  BY <1>1 DEF FreshInv
<1>3. TimesInv /\ LinkInv /\ StartInv
  BY DEF Init, TimesInv, LinkInv, StartInv, Path
<1>. QED  BY <1>2, <1>3 DEF DataInv

LEMMA NextData == TypeInv /\ DataInv /\ [Next]_vars => DataInv'
<1>. SUFFICES ASSUME TypeInv, DataInv, [Next]_vars PROVE DataInv'
  OBVIOUS
\* The steps that leave items and disk alone.
<1>1. CASE UNCHANGED <<restoreItems, disk>> /\ (pc' = "setUp" => pc = "setUp")
  BY <1>1 DEF DataInv, FreshInv, FreshItem, LinkInv, TimesInv, StartInv, disk
<1>2. CASE RestoreAnItem
  BY <1>2, ItemStepsKeepData
<1>3. CASE SetUp
  <2>1. /\ restoreItems' = <<FirstItem>> /\ pc = "setUp" /\ pc' = "round"
        /\ UNCHANGED <<hardlinks, made, content, attrs>>
    BY <1>3 DEF SetUp, disk
  <2>2. /\ made = {} /\ \A f \in File : content[f] = <<>>
        /\ \A d \in Dir : attrs[d] # "restored"
    BY <2>1 DEF DataInv, StartInv, Path
  <2>3. \A k \in 1..Len(<<FirstItem>>) : <<FirstItem>>[k] = FirstItem
    OBVIOUS
  <2>4. FreshItem(FirstItem, made', content')
    BY <2>1, <2>2, FirstItems DEF FreshItem
  <2>5. FreshInv'
    BY <2>1, <2>3, <2>4 DEF FreshInv, FreshItem
  <2>6. TimesInv' /\ LinkInv' /\ StartInv'
    BY <2>1, <2>2 DEF DataInv, TimesInv, LinkInv, StartInv
  <2>. QED  BY <2>5, <2>6 DEF DataInv
<1>4. CASE Abort
  <2>1. UNCHANGED <<restoreItems, hardlinks, content, attrs>> /\ made' \subseteq made /\ pc' = "failed"
    BY <1>4 DEF Abort
  <2>. QED  BY <2>1 DEF DataInv, FreshInv, FreshItem, LinkInv, TimesInv, StartInv
<1>5. CASE BeginRound \/ SkipRound \/ RequestMoreGlacierItems \/ RoundRequested \/ Wakeup
  BY <1>1, <1>5 DEF BeginRound, SkipRound, RequestMoreGlacierItems, RoundRequested, Wakeup
<1>6. CASE DidFail \/ DidSucceed
  BY <1>1, <1>6 DEF DidFail, DidSucceed
<1>7. CASE RoundComesDue
  BY <1>1, <1>7 DEF RoundComesDue
<1>8. ASSUME NEW o \in Object, Thaw(o) \/ Expire(o) PROVE DataInv'
  BY <1>1, <1>8 DEF Thaw, Expire
<1>9. CASE UNCHANGED vars
  BY <1>1, <1>9 DEF vars
<1>. QED
  BY <1>2, <1>3, <1>4, <1>5, <1>6, <1>7, <1>8, <1>9 DEF Next, Run

(***************************************************************************)
(* Data in order.  A hard link takes over the data of the path offered for *)
(* its inode.  One number is one file where the linked paths come from one *)
(* volume; a folder that spans volumes may use a number twice.             *)
(***************************************************************************)
OneVolume ==
  \A f \in Linked \cap File, g \in File : Ino[f] = Ino[g] => Data[f] = Data[g]

\* A link is made to a file of the same data, or its error is reported.
LEMMA LinkNodeMakes ==
  ASSUME TypeInv, DataInv, LinkNode
  PROVE  LET f == Current.path
             existing == hardlinks[Ino[f]] IN
         /\ f \in File /\ f \in Linked /\ f \notin made
         /\ \/ /\ existing \in made /\ existing \in File /\ existing # f
               /\ OneVolume => Data[existing] = Data[f]
               /\ made' = made \cup {f} /\ content'[f] = content[existing]
            \/ /\ f \in reported'
               /\ UNCHANGED <<made, content>>
<1>. DEFINE f == Current.path
            existing == hardlinks[Ino[f]]
<1>1. /\ pc = "restoring" /\ Current.action = "node" /\ Current \in GoodItem
      /\ Current = restoreItems[1] /\ 1 \in 1..Len(restoreItems)
  BY CurrentItem DEF LinkNode, At
<1>2. f \in File /\ f \in Path /\ f \in Covers(Current)
  BY <1>1, CoversOf
<1>3. f \in Linked /\ existing # None
  BY DEF LinkNode, HasLink
<1>4. f \notin made
  BY <1>1, <1>2 DEF DataInv, FreshInv, FreshItem
<1>5. CASE existing \in made /\ made' = made \cup {f} /\ content' = [content EXCEPT ![f] = content[existing]]
  <2>1. existing \in File /\ content'[f] = content[existing]
    BY <1>2, <1>5 DEF TypeInv, TypeDisk
  <2>2. Ino[existing] = Ino[f]
    <3>1. Ino[f] \in DOMAIN hardlinks
      BY <1>2 DEF TypeInv, TypeDisk, HardLinks
    <3>. QED  BY <1>3, <3>1 DEF DataInv, LinkInv
  <2>3. OneVolume => Data[existing] = Data[f]
    BY <1>2, <1>3, <2>1, <2>2 DEF OneVolume
  <2>. QED  BY <1>2, <1>3, <1>4, <1>5, <2>1, <2>3
<1>6. CASE Report(f) /\ UNCHANGED <<made, content, attrs>>
  BY <1>2, <1>3, <1>4, <1>6 DEF Report
<1>. QED  BY <1>5, <1>6 DEF LinkNode

PrefixInv == \A f \in made : IsPrefix(content[f], Data[f])

LEMMA AllIsPrefix ==
  ASSUME NEW f \in File
  PROVE  IsPrefix(Data[f], Data[f])
<1>1. Data[f] \in Seq(Blob) /\ Len(Data[f]) <= Len(Data[f])
  BY BlobsOfData
<1>. QED  BY <1>1, PrefixElements

LEMMA ItemStepsKeepPrefix ==
  ASSUME OneVolume, TypeInv, DataInv, PrefixInv, RestoreAnItem
  PROVE  PrefixInv'
<1>. DEFINE f == Current.path
<1>1. Effects /\ LeavesOthers /\ made' \subseteq File
  BY ItemSteps DEF Effects, TypeDisk
<1>2. SUFFICES ASSUME f \in made' PROVE IsPrefix(content'[f], Data[f])
  <2>1. \A g \in made' \ {f} : g \in made /\ content'[g] = content[g]
    BY <1>1 DEF LeavesOthers
  <2>. QED  BY <2>1 DEF PrefixInv
<1>3. f \in File
  BY <1>1, <1>2
<1>4. CASE LinkNode
  <2>. DEFINE existing == hardlinks[Ino[f]]
  <2>1. /\ f \notin made
        /\ \/ existing \in made /\ Data[existing] = Data[f] /\ content'[f] = content[existing]
           \/ made' = made
    BY <1>4, LinkNodeMakes
  <2>. QED  BY <1>2, <2>1 DEF PrefixInv
<1>5. CASE CreateWhole
  BY <1>3, <1>5, CreateWholeEffects, AllIsPrefix
<1>6. CASE RestoreData
  BY <1>6, DataAfter DEF DataInv
<1>7. CASE FailData
  <2>1. UNCHANGED <<made, content>>
    BY <1>2, <1>7, FailDataEffects
  <2>. QED  BY <1>2, <2>1 DEF PrefixInv
<1>8. CASE RestoreTree \/ SkipSocket \/ FailNode \/ ApplyTree \/ FailTree \/ WaitForObject
  <2>1. UNCHANGED <<made, content>>
    BY <1>8, RestoreTreeEffects, SkipSocketEffects, FailNodeEffects, ApplyTreeEffects,
       FailTreeEffects, WaitForObjectEffects
  <2>. QED  BY <1>2, <2>1 DEF PrefixInv
<1>9. CASE LeaveNode
  <2>1. content'[f] = content[f] /\ Current.action = "node"
    BY <1>9, LeaveNodeEffects DEF At
  <2>2. content[f] = <<>>
    <3>1. FreshItem(Current, made, content) /\ f \in Covers(Current)
      BY <1>9, <2>1, CurrentItem, CoversOf, ItemSteps DEF DataInv, FreshInv
    <3>. QED  BY <1>3, <2>1, <3>1 DEF FreshItem
  <2>. QED  BY <1>3, <2>1, <2>2, EmptyIsPrefix
<1>. QED  BY <1>4, <1>5, <1>6, <1>7, <1>8, <1>9 DEF RestoreAnItem

LEMMA NextPrefix == OneVolume /\ TypeInv /\ DataInv /\ PrefixInv /\ [Next]_vars => PrefixInv'
<1>. SUFFICES ASSUME OneVolume, TypeInv, DataInv, PrefixInv, [Next]_vars PROVE PrefixInv'
  OBVIOUS
<1>1. CASE RestoreAnItem
  BY <1>1, ItemStepsKeepPrefix
<1>2. CASE UNCHANGED content /\ made' \subseteq made
  BY <1>2 DEF PrefixInv
<1>3. CASE SetUp \/ BeginRound \/ SkipRound \/ RequestMoreGlacierItems \/ RoundRequested \/ Wakeup
  BY <1>2, <1>3 DEF SetUp, BeginRound, SkipRound, RequestMoreGlacierItems, RoundRequested, Wakeup, disk
<1>4. CASE DidFail \/ DidSucceed \/ Abort
  BY <1>2, <1>4 DEF DidFail, DidSucceed, Abort, disk
<1>5. CASE RoundComesDue
  BY <1>2, <1>5 DEF RoundComesDue, disk
<1>6. ASSUME NEW o \in Object, Thaw(o) \/ Expire(o) PROVE PrefixInv'
  BY <1>2, <1>6 DEF Thaw, Expire, disk
<1>7. CASE UNCHANGED vars
  BY <1>2, <1>7 DEF vars, disk
<1>. QED  BY <1>1, <1>3, <1>4, <1>5, <1>6, <1>7 DEF Next, Run

LEMMA DataInvariant == Spec => []DataInv
  BY InitData, NextData, TypeInvariant, PTL DEF Spec

\* Where inode numbers identify files, what is on disk of a file is a beginning
\* of its data, in whatever order objects thaw and however often an item waits,
\* fails or goes on.
THEOREM DataComesInOrder == OneVolume /\ Spec => []ContentInOrder
<1>. DEFINE Inv == OneVolume /\ PrefixInv
<1>1. OneVolume /\ Init => Inv
  BY DEF Init, PrefixInv
<1>2. TypeInv /\ DataInv /\ Inv /\ [Next]_vars => Inv'
  BY NextPrefix
<1>3. Inv => ContentInOrder
  BY DEF PrefixInv, ContentInOrder
<1>. HIDE DEF Inv
<1>. QED  BY <1>1, <1>2, <1>3, TypeInvariant, DataInvariant, PTL DEF Spec

(***************************************************************************)
(* A restore that succeeds.  A file is offered for hard links with its     *)
(* first blob, before it is whole, and no link is made before it is: only  *)
(* the first item continues a file.  A file that was given up half written *)
(* would be linked to all the same, without an error for the link.         *)
(***************************************************************************)
NoPartialLinks == LeavesPartial => Linked = {}

InHand(s, f) == \E k \in 1..Len(s) : s[k].action = "data" /\ s[k].path = f

WholeInv ==
  \A f \in made : content[f] = Data[f] \/ InHand(restoreItems, f) \/ (LeavesPartial /\ f \in reported)

\* Only the file of the first item is in hand.
LEMMA OneInHand ==
  ASSUME TypeInv, pc = "restoring", NEW f, InHand(restoreItems, f)
  PROVE  f = Current.path /\ Current.action = "data"
<1>1. PICK k \in 1..Len(restoreItems) : restoreItems[k].action = "data" /\ restoreItems[k].path = f
  BY DEF InHand
<1>2. Len(restoreItems) \in Nat /\ Current = restoreItems[1]
  BY CurrentItem, LenProperties
<1>3. k = 1
  BY <1>1, <1>2 DEF TypeInv, Items, InOrder, OneOpen
<1>. QED  BY <1>1, <1>2, <1>3

LEMMA WholeAfter ==
  ASSUME TypeInv, WholeInv, LeavesOthers, pc = "restoring", made' \subseteq File,
         Current.path \in made' =>
           \/ content'[Current.path] = Data[Current.path]
           \/ InHand(restoreItems', Current.path)
           \/ LeavesPartial /\ Current.path \in reported'
  PROVE  WholeInv'
<1>. SUFFICES ASSUME NEW g \in made'
              PROVE  content'[g] = Data[g] \/ InHand(restoreItems', g) \/ (LeavesPartial /\ g \in reported')
  BY DEF WholeInv, InHand
<1>1. CASE g = Current.path
  BY <1>1 DEF InHand
<1>2. CASE g # Current.path
  <2>1. g \in made /\ content'[g] = content[g] /\ (g \in reported => g \in reported')
    BY <1>2 DEF LeavesOthers
  <2>2. ~InHand(restoreItems, g)
    BY <1>2, OneInHand
  <2>. QED  BY <2>1, <2>2 DEF WholeInv
<1>. QED  BY <1>1, <1>2

\* The first item after a file that goes on.
LEMMA InHandAfter ==
  ASSUME TypeInv, pc = "restoring", NEW n, Finish(<<DataItem(Current.path, n)>>),
         DataItem(Current.path, n) \in GoodItem
  PROVE  InHand(restoreItems', Current.path)
<1>. DEFINE i == DataItem(Current.path, n)
            t == <<i>> \o Tail(restoreItems)
<1>1. restoreItems \in Seq(GoodItem) /\ restoreItems # <<>> /\ <<i>> \in Seq(GoodItem)
  BY CurrentItem
<1>2. Len(<<i>>) = 1 /\ <<i>>[1] = i
  OBVIOUS
<1>3. \A k \in 1..Len(<<i>>) : k \in 1..Len(t) /\ t[k] = <<i>>[k]
  BY <1>1, Replaced
<1>4. 1 \in 1..Len(t) /\ t[1] = i
  BY <1>2, <1>3
<1>5. restoreItems' = t
  BY DEF Finish
<1>6. i.action = "data" /\ i.path = Current.path
  BY DEF DataItem
<1>. HIDE DEF t, i
<1>. QED  BY <1>4, <1>5, <1>6 DEF InHand

LEMMA ItemStepsKeepWhole ==
  ASSUME OneVolume, NoPartialLinks, TypeInv, DataInv, WholeInv, RestoreAnItem
  PROVE  WholeInv'
<1>. DEFINE f == Current.path
<1>1. /\ Effects /\ LeavesOthers /\ pc = "restoring" /\ made' \subseteq File
      /\ Current \in GoodItem
  BY ItemSteps, CurrentItem DEF Effects, TypeDisk
<1>2. CASE LinkNode
  <2>. DEFINE existing == hardlinks[Ino[f]]
  <2>1. /\ Current.action = "node" /\ f \in Linked /\ f \notin made
        /\ \/ existing \in made /\ Data[existing] = Data[f] /\ content'[f] = content[existing]
           \/ made' = made
    BY <1>2, LinkNodeMakes, LinkNodeEffects
  <2>2. ~LeavesPartial
    BY <2>1 DEF NoPartialLinks
  <2>3. ~InHand(restoreItems, existing)
    BY <1>1, <2>1, OneInHand
  <2>4. f \in made' => content'[f] = Data[f]
    BY <2>1, <2>2, <2>3 DEF WholeInv
  <2>. QED  BY <1>1, <2>4, WholeAfter
<1>3. CASE CreateWhole
  BY <1>1, <1>3, CreateWholeEffects, WholeAfter
<1>4. CASE RestoreData
  <2>1. CASE Index + 1 = Len(Data[f])
    BY <1>1, <1>4, <2>1, DataAfter, WholeAfter DEF DataInv
  <2>2. CASE Index + 1 # Len(Data[f])
    <3>1. AtData /\ Finish(<<DataItem(f, Index + 1)>>)
      BY <1>4, <2>2, RestoreDataEffects
    <3>2. DataItem(f, Index + 1) \in GoodItem
      <4>1. Index + 1 \in Nat /\ Index + 1 < Len(Data[f]) /\ Current.action \in {"node", "data"}
        BY <2>2, <3>1, DataAtWork, BlobsOfData
      <4>. QED  BY <1>1, <4>1, FollowsData
    <3>. QED  BY <1>1, <3>1, <3>2, InHandAfter, WholeAfter
  <2>. QED  BY <2>1, <2>2
<1>5. CASE FailData \/ LeaveNode
  BY <1>1, <1>5, FailDataEffects, LeaveNodeEffects, WholeAfter
<1>6. CASE SkipSocket \/ FailNode
  <2>1. UNCHANGED <<made, content>> /\ Current.action = "node"
    BY <1>6, SkipSocketEffects, FailNodeEffects DEF At
  <2>2. f \notin made
    <3>1. FreshItem(Current, made, content) /\ f \in Covers(Current) /\ f \in File
      BY <1>1, <2>1, CurrentItem, CoversOf DEF DataInv, FreshInv
    <3>. QED  BY <2>1, <3>1 DEF FreshItem
  <2>. QED  BY <1>1, <2>1, <2>2, WholeAfter
<1>7. CASE RestoreTree \/ ApplyTree \/ FailTree
  <2>1. made' = made /\ Current.action \in {"tree", "apply"}
    BY <1>7, RestoreTreeEffects, ApplyTreeEffects, FailTreeEffects DEF RestoreTree, At
  <2>2. f \notin File
    BY <1>1, <2>1, CoversOf
  <2>. QED  BY <1>1, <2>1, <2>2, WholeAfter
<1>8. CASE WaitForObject
  <2>1. UNCHANGED <<restoreItems, made, content, reported>>
    BY <1>8, WaitForObjectEffects
  <2>. QED  BY <2>1 DEF WholeInv, InHand
<1>. QED
  BY <1>2, <1>3, <1>4, <1>5, <1>6, <1>7, <1>8 DEF RestoreAnItem

LEMMA NextWhole ==
  OneVolume /\ NoPartialLinks /\ TypeInv /\ DataInv /\ WholeInv /\ [Next]_vars => WholeInv'
<1>. SUFFICES ASSUME OneVolume, NoPartialLinks, TypeInv, DataInv, WholeInv, [Next]_vars
              PROVE  WholeInv'
  OBVIOUS
<1>1. CASE RestoreAnItem
  BY <1>1, ItemStepsKeepWhole
<1>2. CASE UNCHANGED <<restoreItems, content, reported>> /\ made' \subseteq made
  BY <1>2 DEF WholeInv, InHand
<1>3. CASE SetUp
  <2>1. made' = {}
    BY <1>3 DEF SetUp, disk, DataInv, StartInv
  <2>. QED  BY <2>1 DEF WholeInv
<1>4. CASE BeginRound \/ SkipRound \/ RequestMoreGlacierItems \/ RoundRequested \/ Wakeup
  BY <1>2, <1>4 DEF BeginRound, SkipRound, RequestMoreGlacierItems, RoundRequested, Wakeup, disk
<1>5. CASE DidFail \/ DidSucceed \/ Abort
  BY <1>2, <1>5 DEF DidFail, DidSucceed, Abort, disk
<1>6. CASE RoundComesDue
  BY <1>2, <1>6 DEF RoundComesDue, disk
<1>7. ASSUME NEW o \in Object, Thaw(o) \/ Expire(o) PROVE WholeInv'
  BY <1>2, <1>7 DEF Thaw, Expire, disk
<1>8. CASE UNCHANGED vars
  BY <1>2, <1>8 DEF vars, disk
<1>. QED  BY <1>1, <1>3, <1>4, <1>5, <1>6, <1>7, <1>8 DEF Next, Run

\* A path is settled, or an item that is left stands for it.
Settled(p) ==
  \/ p \in reported
  \/ p \in Dir /\ attrs[p] = "restored"
  \/ p \in File /\ Kind[p] = "socket"
  \/ p \in made /\ content[p] = Data[p]

TotalInv ==
  pc \notin {"setUp", "failed"} => \A p \in Restored : Settled(p) \/ Pending(restoreItems, p)

LEMMA TotalAfter ==
  ASSUME TypeInv, TimesInv, TotalInv, LeavesOthers, pc = "restoring",
         NEW next, Finish(next), Follows(next, Current),
         \A p \in Covers(Current) : Settled(p)' \/ Pending(next, p)
  PROVE  TotalInv'
<1>. DEFINE s == restoreItems
            t == next \o Tail(s)
<1>1. /\ InOrder(s) /\ s # <<>> /\ Current \in GoodItem /\ Current = Head(s)
      /\ Current.path \in Covers(Current)
  BY CurrentItem, CoversOf DEF TypeInv, Items, Current
<1>2. restoreItems' = t
  BY DEF Finish
<1>3. /\ \A p : Pending(s, p) => p \in Covers(Current) \/ Pending(t, p)
      /\ \A p : Pending(next, p) => Pending(t, p)
  BY <1>1, OrderAfter
<1>. HIDE DEF t
<1>4. SUFFICES ASSUME NEW p \in Restored PROVE Settled(p)' \/ Pending(t, p)
  BY <1>2 DEF TotalInv, Settled
<1>5. CASE p \in Covers(Current)
  BY <1>3, <1>5
<1>6. CASE p \notin Covers(Current) /\ Pending(s, p)
  BY <1>3, <1>6
<1>7. CASE p \notin Covers(Current) /\ Settled(p)
  <2>1. p # Current.path
    BY <1>1, <1>7
  <2>2. \A d \in Dir : attrs[d] = "restored" => attrs'[d] = "restored"
    BY TimesStay
  <2>3. p \in made /\ content[p] = Data[p] => p \in made' /\ content'[p] = Data[p]
    BY <2>1 DEF LeavesOthers, TypeInv, TypeDisk
  <2>. QED  BY <1>7, <2>2, <2>3 DEF Settled, LeavesOthers
<1>. QED  BY <1>5, <1>6, <1>7 DEF TotalInv

\* What an item that was about one path leaves.
LEMMA TotalAfterOne ==
  ASSUME TypeInv, TimesInv, TotalInv, LeavesOthers, pc = "restoring",
         Current.action # "tree", Finish(<<>>),
         NEW p, p = Current.path, Settled(p)'
  PROVE  TotalInv'
<1>1. Covers(Current) = {p}
  BY DEF Covers
<1>2. \A q \in Covers(Current) : Settled(q)' \/ Pending(<<>>, q)
  BY <1>1 DEF Settled
<1>. QED  BY <1>2, AnItemIsDone, TotalAfter

LEMMA ItemStepsKeepTotal ==
  ASSUME OneVolume, NoPartialLinks, TypeInv, DataInv, WholeInv, TotalInv, RestoreAnItem
  PROVE  TotalInv'
<1>1. Effects /\ LeavesOthers /\ pc = "restoring" /\ TimesInv /\ made' \subseteq File
      /\ Current \in GoodItem
  BY ItemSteps, CurrentItem DEF Effects, DataInv, TypeDisk
<1>2. PICK f : f = Current.path
  OBVIOUS
<1>3. CASE RestoreTree
  <2>. DEFINE next == NextItems(f)
  <2>1. At("tree") /\ (Finish(next) \/ pc' = "failed")
    BY <1>2, <1>3 DEF RestoreTree
  <2>2. Follows(next, Current) /\ \A p \in Covers(Current) : Pending(next, p)
    BY <1>2, <2>1, TreeGoesOn
  <2>. HIDE DEF next
  <2>3. CASE Finish(next)
    BY <1>1, <2>2, <2>3, TotalAfter
  <2>4. CASE pc' = "failed"
    BY <2>4 DEF TotalInv
  <2>. QED  BY <2>1, <2>3, <2>4
<1>4. CASE LinkNode
  <2>. DEFINE existing == hardlinks[Ino[f]]
  <2>1. /\ Current.action = "node" /\ Finish(<<>>) /\ f \in Linked
        /\ \/ existing \in made /\ Data[existing] = Data[f]
              /\ made' = made \cup {f} /\ content'[f] = content[existing]
           \/ f \in reported'
    BY <1>2, <1>4, LinkNodeMakes, LinkNodeEffects
  <2>2. ~LeavesPartial /\ ~InHand(restoreItems, existing)
    BY <1>1, <2>1, OneInHand DEF NoPartialLinks
  <2>3. Settled(f)'
    BY <2>1, <2>2 DEF WholeInv, Settled
  <2>. QED  BY <1>1, <1>2, <2>1, <2>3, TotalAfterOne
<1>5. CASE SkipSocket
  <2>1. Current.action = "node" /\ Finish(<<>>) /\ Kind[f] = "socket" /\ f \in File
    BY <1>1, <1>2, <1>5, SkipSocketEffects, CoversOf DEF SkipSocket
  <2>2. Settled(f)'
    BY <2>1 DEF Settled
  <2>. QED  BY <1>1, <1>2, <2>1, <2>2, TotalAfterOne
<1>6. CASE CreateWhole
  <2>1. Current.action = "node" /\ Finish(<<>>) /\ f \in made' /\ content'[f] = Data[f]
    BY <1>2, <1>6, CreateWholeEffects
  <2>2. Settled(f)'
    BY <2>1 DEF Settled
  <2>. QED  BY <1>1, <1>2, <2>1, <2>2, TotalAfterOne
<1>7. CASE FailNode
  <2>1. /\ At("node") /\ f \in reported'
        /\ Finish(<<>>) \/ (f \in opened /\ Finish(<<DataItem(f, 0)>>))
    BY <1>2, <1>7, FailNodeEffects
  <2>2. Settled(f)' /\ Current.action = "node"
    BY <2>1 DEF Settled, At
  <2>3. CASE Finish(<<>>)
    BY <1>1, <1>2, <2>2, <2>3, TotalAfterOne
  <2>4. CASE f \in opened /\ Finish(<<DataItem(f, 0)>>)
    <3>1. Follows(<<DataItem(f, 0)>>, Current) /\ Covers(Current) = {f}
      BY <1>1, <1>2, <2>1, <2>2, <2>4, NodeGoesOn, CoversOf
    <3>2. \A p \in Covers(Current) : Settled(p)' \/ Pending(<<DataItem(f, 0)>>, p)
      BY <2>2, <3>1 DEF Settled
    <3>. QED  BY <1>1, <2>4, <3>1, <3>2, TotalAfter
  <2>. QED  BY <2>1, <2>3, <2>4
<1>8. CASE RestoreData
  <2>1. AtData /\ f \in made' /\ Current.action \in {"node", "data"} /\ Covers(Current) = {f}
    BY <1>1, <1>2, <1>8, RestoreDataEffects, DataAtWork, CoversOf
  <2>2. CASE Index + 1 = Len(Data[f])
    <3>1. Finish(<<>>) /\ content'[f] = Data[f]
      BY <1>2, <1>8, <2>2, RestoreDataEffects, DataAfter DEF DataInv
    <3>2. Settled(f)'
      BY <2>1, <3>1 DEF Settled
    <3>. QED  BY <1>1, <1>2, <2>1, <3>1, <3>2, TotalAfterOne
  <2>3. CASE Index + 1 # Len(Data[f])
    <3>. DEFINE next == <<DataItem(f, Index + 1)>>
    <3>1. Finish(next) /\ Follows(next, Current)
      BY <1>2, <1>8, <2>1, <2>3, RestoreDataEffects, DataGoesOn
    <3>2. Len(next) = 1 /\ next[1] = DataItem(f, Index + 1)
      OBVIOUS
    <3>3. Covers(DataItem(f, Index + 1)) = {f}
      BY DEF Covers, DataItem
    <3>. HIDE DEF next
    <3>4. \A p \in Covers(Current) : Pending(next, p)
      BY <2>1, <3>2, <3>3 DEF Pending
    <3>. QED  BY <1>1, <3>1, <3>4, TotalAfter
  <2>. QED  BY <2>2, <2>3
<1>9. CASE FailData \/ FailTree
  <2>1. Current.action \in {"data", "apply"} /\ Finish(<<>>) /\ f \in reported'
    BY <1>2, <1>9, FailDataEffects, FailTreeEffects
  <2>2. Settled(f)'
    BY <2>1 DEF Settled
  <2>. QED  BY <1>1, <1>2, <2>1, <2>2, TotalAfterOne
<1>10. CASE ApplyTree
  <2>1. Current.action = "apply" /\ Finish(<<>>) /\ f \in Dir /\ attrs'[f] = "restored"
    BY <1>2, <1>10, ApplyTreeEffects
  <2>2. Settled(f)'
    BY <2>1 DEF Settled
  <2>. QED  BY <1>1, <1>2, <2>1, <2>2, TotalAfterOne
<1>11. CASE WaitForObject
  <2>1. UNCHANGED <<restoreItems, made, content, attrs, reported>>
    BY <1>11, WaitForObjectEffects
  <2>. QED  BY <1>1, <2>1 DEF TotalInv, Settled
<1>12. CASE LeaveNode
  <2>1. Current.action = "node" /\ Finish(<<>>) /\ f \in reported'
    BY <1>2, <1>12, LeaveNodeEffects DEF At
  <2>2. Settled(f)'
    BY <2>1 DEF Settled
  <2>. QED  BY <1>1, <1>2, <2>1, <2>2, TotalAfterOne
<1>. QED
  BY <1>3, <1>4, <1>5, <1>6, <1>7, <1>8, <1>9, <1>10, <1>11, <1>12 DEF RestoreAnItem

LEMMA NextTotal ==
  /\ OneVolume /\ NoPartialLinks /\ TypeInv /\ DataInv /\ WholeInv /\ TotalInv /\ [Next]_vars
  => TotalInv'
<1>. SUFFICES ASSUME OneVolume, NoPartialLinks, TypeInv, DataInv, WholeInv, TotalInv, [Next]_vars
              PROVE  TotalInv'
  OBVIOUS
<1>1. CASE RestoreAnItem
  BY <1>1, ItemStepsKeepTotal
<1>2. CASE /\ UNCHANGED <<restoreItems, made, content, attrs, reported>>
           /\ pc' \notin {"setUp", "failed"} => pc \notin {"setUp", "failed"}
  BY <1>2 DEF TotalInv, Settled
<1>3. CASE SetUp
  <2>1. restoreItems' = <<FirstItem>>
    BY <1>3 DEF SetUp
  <2>2. \A p \in Restored : Pending(<<FirstItem>>, p)
    <3>1. Len(<<FirstItem>>) = 1 /\ <<FirstItem>>[1] = FirstItem
      OBVIOUS
    <3>. QED  BY <3>1, FirstItems DEF Pending
  <2>. QED  BY <2>1, <2>2 DEF TotalInv
<1>4. CASE BeginRound \/ SkipRound \/ RequestMoreGlacierItems \/ RoundRequested \/ Wakeup
  BY <1>2, <1>4 DEF BeginRound, SkipRound, RequestMoreGlacierItems, RoundRequested, Wakeup, disk
<1>5. CASE DidSucceed
  BY <1>2, <1>5 DEF DidSucceed, disk
<1>6. CASE DidFail \/ Abort
  BY <1>6 DEF DidFail, Abort, TotalInv
<1>7. CASE RoundComesDue
  BY <1>2, <1>7 DEF RoundComesDue, disk
<1>8. ASSUME NEW o \in Object, Thaw(o) \/ Expire(o) PROVE TotalInv'
  BY <1>2, <1>8 DEF Thaw, Expire, disk
<1>9. CASE UNCHANGED vars
  BY <1>2, <1>9 DEF vars, disk
<1>. QED  BY <1>1, <1>3, <1>4, <1>5, <1>6, <1>7, <1>8, <1>9 DEF Next, Run

\* When the restore succeeds, each file is whole, through its other names too,
\* and each directory has its times, or the error was reported.
THEOREM SuccessSettlesEverything ==
  OneVolume /\ NoPartialLinks /\ Spec => []SuccessIsSettled
<1>. DEFINE Inv == OneVolume /\ NoPartialLinks /\ WholeInv /\ TotalInv
<1>1. OneVolume /\ NoPartialLinks /\ Init => Inv
  BY DEF Init, WholeInv, TotalInv
<1>2. TypeInv /\ DataInv /\ Inv /\ [Next]_vars => Inv'
  BY NextWhole, NextTotal
<1>3. TypeInv /\ Inv => SuccessIsSettled
  <2>. SUFFICES ASSUME TypeInv, Inv, pc = "succeeded", NEW p \in Restored PROVE Settled(p)
    BY DEF SuccessIsSettled, Settled
  <2>1. restoreItems = <<>> /\ Len(<<>>) = 0
    BY DEF TypeInv, Items
  <2>2. ~Pending(restoreItems, p)
    BY <2>1 DEF Pending
  <2>. QED  BY <2>2 DEF TotalInv
<1>. HIDE DEF Inv
<1>. QED  BY <1>1, <1>2, <1>3, TypeInvariant, DataInvariant, PTL DEF Spec

(***************************************************************************)
(* What the restore waits for.  Each blob of what is restored lies in an   *)
(* object that was requested, or a request item that is left leads to it,  *)
(* as long as no object that was thawed expires: it is not requested       *)
(* again.                                                                  *)
(***************************************************************************)
AskInv ==
  pc \notin {"setUp", "failed"} =>
    \A p \in Restored : \A b \in BlobsOf(p) :
      store[ObjectOf[b]] # "cold" \/ Asked(glacierRequestItems, b)

\* What an item waits for are blobs of a path that is restored.
LEMMA NeededBlobs ==
  ASSUME TypeInv, pc \in {"restoring", "waiting"}
  PROVE  Needed(Current) \subseteq BlobsOf(Current.path)
<1>. DEFINE p == Current.path
<1>1. Current \in GoodItem
  BY CurrentItem
<1>2. CASE Current.action = "tree"
  BY <1>2 DEF Needed
<1>3. CASE Current.action = "apply"
  BY <1>3 DEF Needed, BlobsOf
<1>4. CASE Current.action = "data"
  <2>1. p \in File /\ Current.index \in Nat /\ Current.index < Len(Data[p])
    BY <1>1, <1>4, CoversOf
  <2>2. Current.index + 1 \in DOMAIN Data[p]
    BY <2>1, BlobsOfData
  <2>3. Needed(Current) = {Data[p][Current.index + 1]}
    BY <1>4 DEF Needed
  <2>. QED  BY <2>1, <2>2, <2>3 DEF BlobsOf, InData
<1>5. CASE Current.action = "node"
  <2>1. p \in File
    BY <1>1, <1>5, CoversOf
  <2>2. Kind[p] = "regular" => 1 \in DOMAIN Data[p]
    <3>1. HAVE Kind[p] = "regular"
    <3>2. Data[p] # <<>>
      BY <2>1, <3>1, ObjectAssumption
    <3>. QED  BY <2>1, <3>2, BlobsOfData, EmptySeq
  <2>3. Needed(Current) \subseteq AttrBlobs(p) \cup (IF Kind[p] = "regular" THEN {Data[p][1]} ELSE {})
    BY <1>5 DEF Needed
  <2>. QED  BY <2>1, <2>2, <2>3 DEF BlobsOf, InData
<1>. QED  BY <1>1, <1>2, <1>3, <1>4, <1>5, CoversOf

LEMMA NextAsk == ~Expires /\ TypeInv /\ AskInv /\ [Next]_vars => AskInv'
<1>. SUFFICES ASSUME ~Expires, TypeInv, AskInv, [Next]_vars PROVE AskInv'
  OBVIOUS
<1>1. \A p \in Restored : \A b \in BlobsOf(p) : b \in Blob /\ ObjectOf[b] \in Object
  <2>1. \A p \in Path : BlobsOf(p) \subseteq Blob
    BY AttrBlobsOf, BlobsOfData DEF BlobsOf
  <2>. QED  BY <2>1, RestoredIsWithin, ObjectAssumption
<1>2. CASE /\ UNCHANGED glacierRequestItems
           /\ pc' \notin {"setUp", "failed"} => pc \notin {"setUp", "failed"}
           /\ \A o \in Object : store[o] # "cold" => store'[o] # "cold"
  BY <1>1, <1>2 DEF AskInv
<1>3. CASE RestoreAnItem
  <2>1. pc = "restoring" /\ UNCHANGED <<store, requests>>
    BY <1>3, ItemSteps DEF Effects, LeavesOthers
  <2>. QED  BY <1>2, <2>1 DEF requests
<1>4. CASE SetUp
  <2>1. glacierRequestItems' = <<FirstRequestItem>>
    BY <1>4 DEF SetUp
  <2>2. \A p \in Restored : \A b \in BlobsOf(p) : Asked(<<FirstRequestItem>>, b)
    <3>1. Len(<<FirstRequestItem>>) = 1 /\ <<FirstRequestItem>>[1] = FirstRequestItem
      OBVIOUS
    <3>. QED  BY <3>1, AsksForRestored DEF Asked
  <2>. QED  BY <2>1, <2>2 DEF AskInv
<1>5. CASE RequestMoreGlacierItems
  <2>. DEFINE s == glacierRequestItems
              objects == {ObjectOf[b] : b \in BlobsToRequest(Head(s))}
  <2>1. /\ pc = "requesting" /\ pc' = pc /\ s \in Seq(RequestItems) /\ s # <<>>
        /\ bytesActuallyRequestedThisRound < PerRound /\ Request(objects)
        /\ glacierRequestItems' = NextRequestItems(Head(s)) \o Tail(s)
    BY <1>5 DEF RequestMoreGlacierItems, TypeInv, TypeRequests
  <2>2. Head(s) \in RequestItems
    BY <2>1, HeadTailProperties
  <2>3. \A o \in Object : store[o] # "cold" \/ o \in objects => store'[o] # "cold"
    BY <2>1, <2>2, RequestKeepsTypes DEF TypeInv
  <2>4. \A b : Asked(s, b) => b \in BlobsToRequest(Head(s)) \/ Asked(glacierRequestItems', b)
    BY <2>1, AskedAfter
  <2>. SUFFICES ASSUME NEW p \in Restored, NEW b \in BlobsOf(p)
                PROVE  store'[ObjectOf[b]] # "cold" \/ Asked(glacierRequestItems', b)
    BY DEF AskInv
  <2>5. store[ObjectOf[b]] # "cold" \/ Asked(s, b)
    BY <2>1 DEF AskInv
  <2>6. b \in BlobsToRequest(Head(s)) => ObjectOf[b] \in objects
    OBVIOUS
  <2>. HIDE DEF objects
  <2>. QED  BY <1>1, <2>3, <2>4, <2>5, <2>6
<1>6. CASE BeginRound \/ SkipRound \/ RoundRequested \/ Wakeup
  BY <1>2, <1>6 DEF BeginRound, SkipRound, RoundRequested, Wakeup, requests
<1>7. CASE DidSucceed
  BY <1>2, <1>7 DEF DidSucceed, requests
<1>8. CASE DidFail \/ Abort
  BY <1>8 DEF DidFail, Abort, AskInv
<1>9. CASE RoundComesDue
  BY <1>2, <1>9 DEF RoundComesDue
<1>10. ASSUME NEW o \in Object, Thaw(o) \/ Expire(o) PROVE AskInv'
  <2>1. Thaw(o)
    BY <1>10 DEF Expire
  <2>2. \A q \in Object : store[q] # "cold" => store'[q] # "cold"
    BY <2>1 DEF Thaw, TypeInv, TypeRequests
  <2>. QED  BY <1>2, <2>1, <2>2 DEF Thaw, requests
<1>11. CASE UNCHANGED vars
  BY <1>2, <1>11 DEF vars, requests
<1>. QED
  BY <1>3, <1>4, <1>5, <1>6, <1>7, <1>8, <1>9, <1>10, <1>11 DEF Next, Run

\* The restore never waits for an object that nobody will ask S3 for, unless
\* objects that were thawed expire.
THEOREM WhatIsNeededIsAskedFor == ~Expires /\ Spec => []WaitsForRequested
<1>. DEFINE Inv == ~Expires /\ AskInv
<1>1. ~Expires /\ Init => Inv
  BY DEF Init, AskInv
<1>2. TypeInv /\ Inv /\ [Next]_vars => Inv'
  BY NextAsk
<1>3. TypeInv /\ Inv => WaitsForRequested
  <2>. SUFFICES ASSUME TypeInv, Inv, pc = "waiting", glacierRequestItems = <<>>,
                       NEW b \in Needed(Current)
                PROVE  store[ObjectOf[b]] # "cold"
    BY DEF WaitsForRequested
  <2>1. b \in BlobsOf(Current.path) /\ Current.path \in Restored
    BY NeededBlobs, CurrentItem
  <2>2. ~Asked(glacierRequestItems, b)
    <3>1. Len(<<>>) = 0
      OBVIOUS
    <3>. QED  BY <3>1 DEF Asked
  <2>. QED  BY <2>1, <2>2 DEF AskInv
<1>. HIDE DEF Inv
<1>. QED  BY <1>1, <1>2, <1>3, TypeInvariant, PTL DEF Spec

(***************************************************************************)
(* What is transferred.  An item leaves a unit to be transferred when it   *)
(* stands for the unit's path, and its index is not past the unit; what    *)
(* was transferred is no more than what no item leaves any more.  That is  *)
(* so because only a regular file is taken up again after it was given up  *)
(* once: of a symlink that fails, blobs were transferred.                  *)
(***************************************************************************)
Regular == {f \in File : Kind[f] = "regular"}
OpenInv ==
  /\ opened \subseteq Regular
  /\ \A k \in 1..Len(restoreItems) :
       restoreItems[k].action = "data" => restoreItems[k].path \in opened

CountInv ==
  /\ bytesTransferred + Cardinality(LeftIn(restoreItems)) <= Cardinality(Unit)
  /\ pc = "setUp" => bytesTransferred = 0

LEMMA OpenAfter ==
  ASSUME TypeInv, OpenInv, pc = "restoring", NEW next, Finish(next), Follows(next, Current),
         opened \subseteq opened', opened' \subseteq Regular,
         \A k \in 1..Len(next) : next[k].action = "data" => next[k].path \in opened'
  PROVE  OpenInv'
<1>. DEFINE s == restoreItems
            t == next \o Tail(s)
<1>1. InOrder(s) /\ s # <<>> /\ s \in Seq(GoodItem)
  BY CurrentItem DEF TypeInv, Items
<1>2. restoreItems' = t
  BY DEF Finish
<1>3. \A k \in 1..Len(t) :
        \/ k \in 1..Len(next) /\ t[k] = next[k]
        \/ \E j \in 2..Len(s) : t[k] = s[j]
  BY <1>1, OrderAfter DEF Current
<1>4. \A j \in 2..Len(s) : j \in 1..Len(s)
  BY <1>1, LenProperties
<1>. HIDE DEF t
<1>5. \A k \in 1..Len(t) : t[k].action = "data" => t[k].path \in opened'
  BY <1>3, <1>4 DEF OpenInv
<1>. QED  BY <1>2, <1>5 DEF OpenInv

LEMMA ItemStepsKeepOpen ==
  ASSUME TypeInv, OpenInv, RestoreAnItem
  PROVE  OpenInv'
<1>0. pc = "restoring" /\ Len(<<>>) = 0 /\ Follows(<<>>, Current)
  BY ItemSteps, AnItemIsDone
<1>1. CASE RestoreTree
  <2>1. At("tree") /\ opened' = opened /\ (Finish(NextItems(Current.path)) \/ UNCHANGED restoreItems)
    BY <1>1 DEF RestoreTree
  <2>2. /\ Follows(NextItems(Current.path), Current)
        /\ \A k \in 1..Len(NextItems(Current.path)) :
             NextItems(Current.path)[k].action \in {"tree", "node", "apply"}
    BY <2>1, TreeGoesOn
  <2>3. CASE Finish(NextItems(Current.path))
    BY <1>0, <2>1, <2>2, <2>3, OpenAfter DEF OpenInv
  <2>4. CASE UNCHANGED restoreItems
    BY <2>1, <2>4 DEF OpenInv
  <2>. QED  BY <2>1, <2>3, <2>4
<1>2. CASE LinkNode \/ SkipSocket \/ CreateWhole \/ LeaveNode \/ FailData \/ ApplyTree \/ FailTree
  <2>1. Finish(<<>>)
    BY <1>2, LinkNodeEffects, SkipSocketEffects, CreateWholeEffects, LeaveNodeEffects,
       FailDataEffects, ApplyTreeEffects, FailTreeEffects
  <2>2. opened' = opened
    BY <1>2 DEF LinkNode, SkipSocket, CreateWhole, LeaveNode, FailData, ApplyTree, FailTree, disk
  <2>. QED  BY <1>0, <2>1, <2>2, OpenAfter DEF OpenInv
<1>3. CASE FailNode
  <2>. DEFINE next == <<DataItem(Current.path, 0)>>
  <2>1. opened' = opened /\ (Finish(<<>>) \/ (Current.path \in opened /\ Finish(next))) /\ At("node")
    <3>1. At("node") /\ (Finish(<<>>) \/ (Current.path \in opened /\ Finish(next)))
      BY <1>3, FailNodeEffects
    <3>. QED  BY <1>3, <3>1 DEF FailNode, disk
  <2>2. CASE Finish(<<>>)
    BY <1>0, <2>1, <2>2, OpenAfter DEF OpenInv
  <2>3. CASE Current.path \in opened /\ Finish(next)
    <3>1. Follows(next, Current)
      BY <2>1, <2>3, NodeGoesOn
    <3>2. \A k \in 1..Len(next) : next[k].path \in opened'
      BY <2>1, <2>3 DEF DataItem
    <3>. HIDE DEF next
    <3>. QED  BY <1>0, <2>1, <2>3, <3>1, <3>2, OpenAfter DEF OpenInv
  <2>. QED  BY <2>1, <2>2, <2>3
<1>4. CASE RestoreData
  <2>. DEFINE f == Current.path
              next == <<DataItem(f, Index + 1)>>
  <2>1. /\ AtData /\ opened' = opened \cup {f}
        /\ Index + 1 = Len(Data[f]) => Finish(<<>>)
        /\ Index + 1 # Len(Data[f]) => Finish(next)
    BY <1>4, RestoreDataEffects DEF RestoreData
  <2>2. f \in Regular
    <3>1. /\ Current.action \in {"node", "data"} /\ f \in File
          /\ Current = restoreItems[1] /\ 1 \in 1..Len(restoreItems)
      BY <1>0, <2>1, DataAtWork, CurrentItem
    <3>2. CASE Current.action = "node"
      BY <2>1, <3>1, <3>2 DEF AtData, At, Regular
    <3>3. CASE Current.action = "data"
      BY <3>1, <3>3 DEF OpenInv
    <3>. QED  BY <3>1, <3>2, <3>3
  <2>3. opened \subseteq opened' /\ opened' \subseteq Regular
    BY <2>1, <2>2 DEF OpenInv
  <2>4. CASE Index + 1 = Len(Data[f])
    BY <1>0, <2>1, <2>3, <2>4, OpenAfter
  <2>5. CASE Index + 1 # Len(Data[f])
    <3>1. Follows(next, Current)
      BY <2>1, <2>5, DataGoesOn
    <3>2. \A k \in 1..Len(next) : next[k].path \in opened'
      BY <2>1 DEF DataItem
    <3>. HIDE DEF next
    <3>. QED  BY <1>0, <2>1, <2>3, <2>5, <3>1, <3>2, OpenAfter
  <2>. QED  BY <2>4, <2>5
<1>5. CASE WaitForObject
  <2>1. UNCHANGED restoreItems /\ Current.path \in Path
    BY <1>0, <1>5, WaitForObjectEffects, CurrentItem
  <2>2. \/ opened' = opened
        \/ At("node") /\ Kind[Current.path] = "regular" /\ opened' = opened \cup {Current.path}
    BY <1>5 DEF WaitForObject
  <2>3. At("node") => Current.path \in File
    BY <1>0, CurrentItem, CoversOf DEF At
  <2>. QED  BY <2>1, <2>2, <2>3 DEF OpenInv, Regular
<1>. QED
  BY <1>1, <1>2, <1>3, <1>4, <1>5 DEF RestoreAnItem

LEMMA UnitsAreFinite ==
  ASSUME IsFiniteSet(Path)
  PROVE  /\ IsFiniteSet(Unit) /\ Cardinality(Unit) \in Nat
         /\ \A U \in SUBSET Unit : IsFiniteSet(U) /\ Cardinality(U) \in 0..Cardinality(Unit)
<1>. DEFINE Sets == {{p} \X UnitsOf(p) : p \in Restored}
            by == [p \in Restored |-> {p} \X UnitsOf(p)]
<1>1. IsFiniteSet(Restored)
  BY RestoredIsWithin, FS_Subset
<1>2. \A S \in Sets : IsFiniteSet(S)
  <2>1. SUFFICES ASSUME NEW p \in Restored PROVE IsFiniteSet({p} \X UnitsOf(p))
    OBVIOUS
  <2>2. IsFiniteSet(UnitsOf(p))
    <3>1. IsFiniteSet(IF Attr[p] = None THEN {} ELSE {0})
      BY FS_EmptySet, FS_Singleton
    <3>2. IsFiniteSet(IF p \in File THEN DOMAIN Data[p] ELSE {})
      <4>1. CASE p \in File
        <5>1. Len(Data[p]) \in Nat /\ DOMAIN Data[p] = 1..Len(Data[p])
          BY <4>1, BlobsOfData
        <5>2. IsFiniteSet(1..Len(Data[p]))
          BY <5>1, FS_Interval
        <5>. QED  BY <4>1, <5>1, <5>2
      <4>. QED  BY <4>1, FS_EmptySet
    <3>. QED  BY <3>1, <3>2, FS_Union DEF UnitsOf
  <2>3. IsFiniteSet({p})
    BY FS_Singleton
  <2>. QED  BY <2>2, <2>3, FS_Product
<1>3. by \in Surjection(Restored, Sets)
  BY DEF Surjection
<1>4. IsFiniteSet(Sets)
  <2>. HIDE DEF by, Sets
  <2>. QED  BY <1>1, <1>3, FS_Surjection
<1>5. IsFiniteSet(Unit)
  BY <1>2, <1>4, FS_UNION DEF Unit
<1>6. Cardinality(Unit) \in Nat
  BY <1>5, FS_CardinalityType
<1>7. ASSUME NEW U \in SUBSET Unit PROVE IsFiniteSet(U) /\ Cardinality(U) \in 0..Cardinality(Unit)
  <2>1. IsFiniteSet(U) /\ Cardinality(U) <= Cardinality(Unit)
    BY <1>5, FS_Subset
  <2>2. Cardinality(U) \in Nat
    BY <2>1, FS_CardinalityType
  <2>. QED  BY <1>6, <2>1, <2>2
<1>. QED  BY <1>5, <1>6, <1>7

\* The units of a path, some of its data and maybe its attributes, and how many
\* they are.
LEMMA UnitsOfPath ==
  ASSUME NEW p \in Restored, NEW fetched \in SUBSET AttrBlobs(p),
         NEW D \in SUBSET (Nat \ {0}), IsFiniteSet(D), D \subseteq UnitsOf(p)
  PROVE  /\ Cardinality(D) \in Nat /\ Cardinality(fetched) \in Nat
         /\ \E U \in SUBSET Unit :
              /\ IsFiniteSet(U) /\ Cardinality(U) = Cardinality(D) + Cardinality(fetched)
              /\ \A u \in U : u[1] = p /\ (u[2] \in D \/ (u[2] = 0 /\ fetched # {}))
<1>. DEFINE E == IF fetched = {} THEN {} ELSE {0}
            U == {p} \X (D \cup E)
<1>1. /\ IsFiniteSet(fetched) /\ Cardinality(fetched) \in Nat
      /\ IsFiniteSet(E) /\ Cardinality(fetched) = Cardinality(E)
      /\ E \subseteq UnitsOf(p)
  <2>1. p \in Path
    BY RestoredIsWithin
  <2>2. fetched = {} \/ (fetched = {Attr[p]} /\ Attr[p] # None)
    <3>1. \A b \in fetched : b = Attr[p] /\ b # None
      BY DEF AttrBlobs
    <3>2. CASE \E b : b \in fetched
      <4>1. fetched \subseteq {Attr[p]} /\ Attr[p] \in fetched
        BY <3>1, <3>2
      <4>. QED  BY <3>1, <4>1
    <3>. QED  BY <3>2
  <2>3. /\ IsFiniteSet({}) /\ Cardinality({}) = 0
        /\ IsFiniteSet({0}) /\ Cardinality({0}) = 1
        /\ IsFiniteSet({Attr[p]}) /\ Cardinality({Attr[p]}) = 1
    BY FS_EmptySet, FS_Singleton
  <2>. QED  BY <2>2, <2>3 DEF UnitsOf
<1>2. Cardinality(D) \in Nat
  BY FS_CardinalityType
<1>3. IsFiniteSet(D \cup E) /\ Cardinality(D \cup E) = Cardinality(D) + Cardinality(E)
  <2>1. D \cap E = {}
    OBVIOUS
  <2>2. /\ IsFiniteSet(D \cup E)
        /\ Cardinality(D \cup E) = Cardinality(D) + Cardinality(E) - Cardinality(D \cap E)
    BY <1>1, FS_Union
  <2>3. Cardinality(D \cap E) = 0
    BY <2>1, FS_EmptySet
  <2>. HIDE DEF E
  <2>. QED  BY <1>1, <1>2, <2>2, <2>3
<1>4. IsFiniteSet(U) /\ Cardinality(U) = Cardinality(D) + Cardinality(fetched)
  <2>1. IsFiniteSet({p}) /\ Cardinality({p}) = 1
    BY FS_Singleton
  <2>2. IsFiniteSet(U) /\ Cardinality(U) = Cardinality({p}) * Cardinality(D \cup E)
    BY <1>3, <2>1, FS_Product
  <2>. HIDE DEF E, U
  <2>. QED  BY <1>1, <1>2, <1>3, <2>1, <2>2
<1>5. U \in SUBSET Unit
  <2>1. D \cup E \subseteq UnitsOf(p)
    BY <1>1
  <2>2. U \subseteq {p} \X UnitsOf(p)
    BY <2>1
  <2>3. {p} \X UnitsOf(p) \subseteq Unit
    BY DEF Unit
  <2>. QED  BY <2>2, <2>3
<1>6. \A u \in U : u[1] = p /\ (u[2] \in D \/ (u[2] = 0 /\ fetched # {}))
  OBVIOUS
<1>. HIDE DEF U, E
<1>. QED  BY <1>1, <1>2, <1>4, <1>5, <1>6

\* A step of an item: what is transferred the item left, and what comes in its
\* place does not leave any more.
LEMMA CountAfter ==
  ASSUME IsFiniteSet(Path), TypeInv, CountInv, pc = "restoring",
         NEW next, Finish(next), Follows(next, Current),
         NEW fetched \in SUBSET AttrBlobs(Current.path),
         NEW D \in SUBSET (Nat \ {0}), IsFiniteSet(D), D \subseteq UnitsOf(Current.path),
         Current.action = "data" => \A n \in D : n > Current.index,
         \A k \in 1..Len(next) : \A u \in Unit :
           Leaves(next[k], u) =>
             /\ Leaves(Current, u)
             /\ u[1] = Current.path => u[2] \notin D /\ (u[2] = 0 => fetched = {}),
         bytesTransferred' = bytesTransferred + Cardinality(D) + Cardinality(fetched)
  PROVE  CountInv'
<1>. DEFINE s == restoreItems
            t == next \o Tail(s)
            A == LeftIn(s)
            B == LeftIn(t)
<1>1. /\ InOrder(s) /\ s # <<>> /\ s \in Seq(GoodItem)
      /\ Current \in GoodItem /\ Current = s[1] /\ 1 \in 1..Len(s)
      /\ Current.path \in Restored /\ Current.path \in Covers(Current)
  BY CurrentItem, CoversOf DEF TypeInv, Items
<1>2. restoreItems' = t /\ pc' = "round"
  BY DEF Finish
<1>3. \A k \in 1..Len(t) :
        \/ k \in 1..Len(next) /\ t[k] = next[k]
        \/ \E j \in 2..Len(s) : t[k] = s[j]
  BY <1>1, OrderAfter DEF Current
<1>4. PICK U \in SUBSET Unit :
        /\ IsFiniteSet(U) /\ Cardinality(U) = Cardinality(D) + Cardinality(fetched)
        /\ \A u \in U : u[1] = Current.path /\ (u[2] \in D \/ (u[2] = 0 /\ fetched # {}))
  BY <1>1, UnitsOfPath
<1>5. Cardinality(D) \in Nat /\ Cardinality(fetched) \in Nat
  BY <1>1, UnitsOfPath
<1>6. U \subseteq A
  BY <1>1, <1>4 DEF LeftIn, Leaves
<1>. HIDE DEF t
<1>7. B \subseteq A \ U
  <2>1. SUFFICES ASSUME NEW u \in B PROVE u \in A /\ u \notin U
    OBVIOUS
  <2>2. u \in Unit
    BY DEF LeftIn
  <2>3. PICK k \in 1..Len(t) : Leaves(t[k], u)
    BY DEF LeftIn
  <2>4. CASE k \in 1..Len(next) /\ t[k] = next[k]
    BY <1>1, <1>4, <2>2, <2>3, <2>4 DEF LeftIn
  <2>5. ASSUME NEW j \in 2..Len(s), t[k] = s[j] PROVE u \in A /\ u \notin U
    <3>1. j \in 1..Len(s) /\ j # 1
      BY <1>1, LenProperties
    <3>2. Covers(s[1]) \cap Covers(s[j]) = {}
      BY <1>1, <3>1 DEF InOrder, CoverOnce
    <3>3. u[1] \in Covers(s[j])
      BY <2>3, <2>5 DEF Leaves
    <3>4. u \in A
      BY <2>2, <2>3, <2>5, <3>1 DEF LeftIn
    <3>. QED  BY <1>1, <1>4, <3>2, <3>3, <3>4
  <2>. QED  BY <1>3, <2>3, <2>4, <2>5
<1>8. A \subseteq Unit
  BY DEF LeftIn
<1>. HIDE DEF A, B
<1>9. IsFiniteSet(A) /\ Cardinality(A) \in Nat /\ Cardinality(U) \in Nat /\ Cardinality(Unit) \in Nat
  BY <1>4, <1>8, UnitsAreFinite
<1>10. IsFiniteSet(A \ U) /\ Cardinality(A \ U) = Cardinality(A) - Cardinality(U)
  <2>1. A \cap U = U
    BY <1>6
  <2>. QED  BY <1>9, <2>1, FS_Difference
<1>11. Cardinality(B) <= Cardinality(A \ U) /\ IsFiniteSet(B)
  BY <1>7, <1>10, FS_Subset
<1>12. Cardinality(B) \in Nat
  BY <1>11, FS_CardinalityType
<1>13. bytesTransferred + Cardinality(A) <= Cardinality(Unit) /\ bytesTransferred \in Nat
  BY DEF CountInv, A, TypeInv, TypeRun
<1>14. bytesTransferred' + Cardinality(B) <= Cardinality(Unit)
  BY <1>4, <1>5, <1>9, <1>10, <1>11, <1>12, <1>13
<1>15. B = LeftIn(restoreItems')
  BY <1>2 DEF B
<1>16. LeftIn(restoreItems)' = LeftIn(restoreItems')
  BY DEF LeftIn, Leaves
<1>. QED  BY <1>2, <1>14, <1>15, <1>16 DEF CountInv

LEMMA CountAfterDone ==
  ASSUME IsFiniteSet(Path), TypeInv, CountInv, pc = "restoring", Finish(<<>>),
         NEW fetched \in SUBSET AttrBlobs(Current.path),
         NEW D \in SUBSET (Nat \ {0}), IsFiniteSet(D), D \subseteq UnitsOf(Current.path),
         Current.action = "data" => \A n \in D : n > Current.index,
         bytesTransferred' = bytesTransferred + Cardinality(D) + Cardinality(fetched)
  PROVE  CountInv'
<1>1. Len(<<>>) = 0 /\ Follows(<<>>, Current)
  BY AnItemIsDone
<1>2. \A k \in 1..Len(<<>>) : \A u \in Unit :
        Leaves(<<>>[k], u) =>
          /\ Leaves(Current, u)
          /\ u[1] = Current.path => u[2] \notin D /\ (u[2] = 0 => fetched = {})
  BY <1>1
<1>. QED  BY <1>1, <1>2, CountAfter

\* Some of the data of a file: D is an interval.
LEMMA DataUnits ==
  ASSUME NEW f \in File, NEW a \in Nat, a > 0, NEW n \in Nat, a + n <= Len(Data[f]) + 1
  PROVE  LET D == a..(a + n - 1) IN
         /\ D \in SUBSET (Nat \ {0}) /\ IsFiniteSet(D) /\ Cardinality(D) = n
         /\ D \subseteq UnitsOf(f)
         /\ \A k \in D : k >= a /\ k < a + n
<1>. DEFINE D == a..(a + n - 1)
<1>1. DOMAIN Data[f] = 1..Len(Data[f]) /\ Len(Data[f]) \in Nat
  BY BlobsOfData
<1>2. a \in Int /\ a + n - 1 \in Int
  OBVIOUS
<1>3. IsFiniteSet(D) /\ Cardinality(D) = IF a > a + n - 1 THEN 0 ELSE (a + n - 1) - a + 1
  BY <1>2, FS_Interval
<1>4. Cardinality(D) = n
  <2>. HIDE DEF D
  <2>. QED  BY <1>3
<1>5. D \subseteq 1..Len(Data[f]) /\ D \subseteq Nat \ {0} /\ \A k \in D : k >= a /\ k < a + n
  BY <1>1
<1>6. D \subseteq UnitsOf(f)
  BY <1>1, <1>5 DEF UnitsOf
<1>. QED  BY <1>3, <1>4, <1>5, <1>6

LEMMA NoUnits ==
  /\ {} \in SUBSET (Nat \ {0}) /\ IsFiniteSet({}) /\ Cardinality({}) = 0
  BY FS_EmptySet

LEMMA ItemStepsKeepCount ==
  ASSUME IsFiniteSet(Path), TypeInv, OpenInv, CountInv, RestoreAnItem
  PROVE  CountInv'
<1>. DEFINE f == Current.path
<1>0. /\ pc = "restoring" /\ bytesTransferred \in Nat
      /\ Current \in GoodItem /\ f \in Path /\ f \in Restored
      /\ Current = restoreItems[1] /\ 1 \in 1..Len(restoreItems)
  BY ItemSteps, CurrentItem DEF TypeInv, TypeRun
<1>1. CASE UNCHANGED <<restoreItems, bytesTransferred>> /\ pc' # "setUp"
  BY <1>1 DEF CountInv, LeftIn, Leaves
<1>2. CASE Finish(<<>>) /\ UNCHANGED bytesTransferred
  <2>1. bytesTransferred' = bytesTransferred + Cardinality({}) + Cardinality({})
    BY <1>0, <1>2, NoUnits
  <2>2. {} \in SUBSET AttrBlobs(f) /\ {} \subseteq UnitsOf(f) /\ \A n \in {} : n > Current.index
    OBVIOUS
  <2>. QED  BY <1>0, <1>2, <2>1, <2>2, NoUnits, CountAfterDone
<1>3. CASE RestoreTree
  <2>. DEFINE next == NextItems(f)
  <2>1. /\ At("tree") /\ UNCHANGED bytesTransferred
        /\ Finish(next) \/ (pc' = "failed" /\ UNCHANGED restoreItems)
    BY <1>3 DEF RestoreTree
  <2>2. /\ Follows(next, Current) /\ Current.action = "tree"
        /\ \A k \in 1..Len(next) : next[k].action \in {"tree", "node", "apply"}
    BY <2>1, TreeGoesOn DEF At
  <2>3. \A k \in 1..Len(next) : Covers(next[k]) \subseteq Covers(Current)
    BY <2>2 DEF Follows
  <2>. HIDE DEF next
  <2>4. CASE Finish(next)
    <3>1. \A k \in 1..Len(next) : \A u \in Unit :
            Leaves(next[k], u) =>
              /\ Leaves(Current, u)
              /\ u[1] = f => u[2] \notin {} /\ (u[2] = 0 => {} = {})
      BY <2>2, <2>3 DEF Leaves
    <3>2. bytesTransferred' = bytesTransferred + Cardinality({}) + Cardinality({})
      BY <1>0, <2>1, NoUnits
    <3>3. {} \in SUBSET AttrBlobs(f) /\ {} \subseteq UnitsOf(f)
      OBVIOUS
    <3>. QED  BY <1>0, <2>2, <2>4, <3>1, <3>2, <3>3, NoUnits, CountAfter
  <2>5. CASE pc' = "failed" /\ UNCHANGED restoreItems
    BY <1>1, <2>1, <2>5
  <2>. QED  BY <2>1, <2>4, <2>5
<1>4. CASE LinkNode \/ SkipSocket
  <2>1. UNCHANGED bytesTransferred
    BY <1>4 DEF LinkNode, SkipSocket
  <2>2. Finish(<<>>)
    BY <1>4, LinkNodeEffects, SkipSocketEffects
  <2>. QED  BY <1>2, <2>1, <2>2
<1>10. ASSUME NEW index \in Nat, NEW n \in Nat, Finish(<<>>), f \in File,
              index + n <= Len(Data[f]), Current.action \in {"node", "data"},
              Current.action = "data" => index = Current.index,
              bytesTransferred' = bytesTransferred + n
       PROVE  CountInv'
  <2>1. index + 1 \in Nat /\ index + 1 > 0 /\ (index + 1) + n <= Len(Data[f]) + 1
    BY <1>10, BlobsOfData
  <2>2. PICK D \in SUBSET (Nat \ {0}) :
          /\ IsFiniteSet(D) /\ Cardinality(D) = n /\ D \subseteq UnitsOf(f)
          /\ \A k \in D : k >= index + 1
    <3>. HIDE DEF f
    <3>. QED  BY <1>10, <2>1, DataUnits
  <2>3. Current.action = "data" => \A k \in D : k > Current.index
    BY <1>10, <2>2
  <2>4. bytesTransferred' = bytesTransferred + Cardinality(D) + Cardinality({})
    BY <1>0, <1>10, <2>2, NoUnits
  <2>5. {} \in SUBSET AttrBlobs(f)
    OBVIOUS
  <2>. QED  BY <1>0, <1>10, <2>2, <2>3, <2>4, <2>5, CountAfterDone
<1>11. CASE LeaveNode
  <2>1. /\ Finish(<<>>) /\ Current.action = "node" /\ f \in File
        /\ bytesTransferred' = bytesTransferred + 1 /\ Data[f] # <<>>
    BY <1>11, LeaveNodeEffects DEF At
  <2>2. 0 + 1 <= Len(Data[f])
    BY <2>1, BlobsOfData
  <2>. QED  BY <1>10, <2>1, <2>2
<1>12. CASE FailData
  <2>1. Finish(<<>>) /\ Current.action = "data" /\ FetchedUpTo(f, Current.index, 1)
    BY <1>12, FailDataEffects DEF FailData
  <2>2. f \in File /\ Current.index \in Nat /\ Current.index < Len(Data[f])
    BY <1>0, <2>1, CoversOf DEF GoodItem, InRange, RestoreItem, Item
  <2>3. PICK n \in 0..1 : bytesTransferred' = bytesTransferred + n
    BY <2>1, CountGrows
  <2>4. n \in Nat /\ Current.index + n <= Len(Data[f])
    BY <2>2, <2>3, BlobsOfData
  <2>. QED  BY <1>10, <2>1, <2>2, <2>3, <2>4
<1>13. CASE FailTree
  <2>1. Finish(<<>>) /\ Current.action = "apply"
    BY <1>13, FailTreeEffects
  <2>2. PICK fetched \in SUBSET AttrBlobs(f) :
          bytesTransferred' = bytesTransferred + Cardinality(fetched)
    BY <1>13 DEF FailTree
  <2>3. Cardinality(fetched) \in Nat
    BY <1>0, AttrBlobsOf, FS_Subset, FS_CardinalityType
  <2>4. bytesTransferred' = bytesTransferred + Cardinality({}) + Cardinality(fetched)
    BY <1>0, <2>2, <2>3, NoUnits
  <2>5. {} \subseteq UnitsOf(f)
    OBVIOUS
  <2>. QED  BY <1>0, <2>1, <2>4, <2>5, NoUnits, CountAfterDone
<1>5. CASE CreateWhole
  <2>1. /\ Finish(<<>>) /\ Current.action = "node" /\ f \in File
    BY <1>0, <1>5, CreateWholeEffects, CoversOf
  <2>2. PICK fetched \in SUBSET AttrBlobs(f) :
          bytesTransferred' = bytesTransferred + Len(Data[f]) + Cardinality(fetched)
    BY <1>5 DEF CreateWhole, ApplyNode
  <2>3. Len(Data[f]) \in Nat
    BY <2>1, BlobsOfData
  <2>4. PICK D \in SUBSET (Nat \ {0}) :
          IsFiniteSet(D) /\ Cardinality(D) = Len(Data[f]) /\ D \subseteq UnitsOf(f)
    <3>1. 1 > 0 /\ 1 + Len(Data[f]) <= Len(Data[f]) + 1
      BY <2>3
    <3>. HIDE DEF f
    <3>. QED  BY <2>1, <2>3, <3>1, DataUnits
  <2>. QED  BY <1>0, <2>1, <2>2, <2>4, CountAfterDone
<1>6. CASE FailNode
  <2>. DEFINE next == <<DataItem(f, 0)>>
  <2>1. /\ At("node") /\ (Finish(<<>>) \/ (f \in opened /\ Finish(next)))
    BY <1>6, FailNodeEffects
  <2>2. f \in File /\ Current.action = "node"
    BY <1>0, <2>1, CoversOf DEF At
  <2>3. Len(Data[f]) \in Nat /\ (Kind[f] = "regular" => Len(Data[f]) > 0)
    BY <2>2, BlobsOfData, ObjectAssumption
  <2>4. \/ /\ FetchedUpTo(f, 0, IF Kind[f] = "regular" THEN 1 ELSE Len(Data[f]))
           /\ Finish(<<>>)
        \/ f \in opened /\ UNCHANGED bytesTransferred /\ Finish(next)
    BY <1>6 DEF FailNode
  <2>5. CASE /\ FetchedUpTo(f, 0, IF Kind[f] = "regular" THEN 1 ELSE Len(Data[f]))
             /\ Finish(<<>>)
    <3>1. PICK n \in 0..(IF Kind[f] = "regular" THEN 1 ELSE Len(Data[f])) :
            bytesTransferred' = bytesTransferred + n
      BY <2>3, <2>5, CountGrows
    <3>2. n \in Nat /\ 0 + n <= Len(Data[f])
      BY <2>3, <3>1
    <3>. QED  BY <1>10, <2>2, <2>5, <3>1, <3>2
  <2>6. CASE f \in opened /\ UNCHANGED bytesTransferred /\ Finish(next)
    <3>3. Follows(next, Current)
      BY <2>1, <2>6, NodeGoesOn
    <3>4. \A k \in 1..Len(next) : \A u \in Unit :
            Leaves(next[k], u) =>
              /\ Leaves(Current, u)
              /\ u[1] = f => u[2] \notin {} /\ (u[2] = 0 => {} = {})
      <4>1. \A k \in 1..Len(next) : Covers(next[k]) \subseteq Covers(Current)
        BY <3>3 DEF Follows
      <4>. QED  BY <2>2, <4>1 DEF Leaves
    <3>5. bytesTransferred' = bytesTransferred + Cardinality({}) + Cardinality({})
      BY <1>0, <2>6, NoUnits
    <3>6. {} \in SUBSET AttrBlobs(f) /\ {} \subseteq UnitsOf(f)
      OBVIOUS
    <3>. HIDE DEF next
    <3>. QED  BY <1>0, <2>2, <2>6, <3>3, <3>4, <3>5, <3>6, NoUnits, CountAfter
  <2>. QED  BY <2>4, <2>5, <2>6
<1>7. CASE RestoreData
  <2>. DEFINE next == <<DataItem(f, Index + 1)>>
              last == Index + 1 = Len(Data[f])
  <2>1. /\ AtData /\ (last => Finish(<<>>)) /\ (~last => Finish(next))
    BY <1>7, RestoreDataEffects
  <2>2. /\ f \in File /\ Current.action \in {"node", "data"}
        /\ Index \in Nat /\ Index + 1 \in 1..Len(Data[f]) /\ Len(Data[f]) \in Nat
    BY <2>1, DataAtWork, BlobsOfData
  <2>3. PICK D \in SUBSET (Nat \ {0}) :
          /\ IsFiniteSet(D) /\ Cardinality(D) = 1 /\ D \subseteq UnitsOf(f)
          /\ \A k \in D : k = Index + 1
    <3>1. Index + 1 \in Nat /\ Index + 1 > 0 /\ (Index + 1) + 1 <= Len(Data[f]) + 1
      BY <2>2
    <3>2. LET E == (Index + 1)..((Index + 1) + 1 - 1) IN
          /\ E \in SUBSET (Nat \ {0}) /\ IsFiniteSet(E) /\ Cardinality(E) = 1
          /\ E \subseteq UnitsOf(f)
          /\ \A k \in E : k >= Index + 1 /\ k < (Index + 1) + 1
      <4>. HIDE DEF f
      <4>. QED  BY <2>2, <3>1, DataUnits
    <3>3. \A k \in Nat : k >= Index + 1 /\ k < (Index + 1) + 1 => k = Index + 1
      BY <2>2
    <3>. QED  BY <3>2, <3>3
  <2>4. Current.action = "data" => Index = Current.index /\ \A n \in D : n > Current.index
    BY <2>2, <2>3 DEF Index
  <2>5. CASE last
    <3>1. PICK fetched \in SUBSET AttrBlobs(f) :
            bytesTransferred' = bytesTransferred + 1 + Cardinality(fetched)
      BY <1>7, <2>5 DEF RestoreData, ApplyNode
    <3>2. bytesTransferred' = bytesTransferred + Cardinality(D) + Cardinality(fetched)
      BY <2>3, <3>1
    <3>. QED  BY <1>0, <2>1, <2>3, <2>4, <2>5, <3>2, CountAfterDone
  <2>6. CASE ~last
    <3>1. bytesTransferred' = bytesTransferred + 1
      BY <1>7, <2>6 DEF RestoreData
    <3>2. Follows(next, Current) /\ Finish(next)
      BY <2>1, <2>6, DataGoesOn
    <3>3. ASSUME NEW k \in 1..Len(next), NEW u \in Unit, Leaves(next[k], u)
          PROVE  /\ Leaves(Current, u)
                 /\ u[1] = f => u[2] \notin D /\ (u[2] = 0 => {} = {})
      <4>1. next[k] = DataItem(f, Index + 1) /\ u[1] \in Covers(Current)
        BY <3>2, <3>3 DEF Follows, Leaves
      <4>2. u[2] # 0 => u[2] > Index + 1
        BY <3>3, <4>1 DEF Leaves, DataItem
      <4>3. u[2] \in Nat
        <5>1. PICK p \in Restored : u \in {p} \X UnitsOf(p)
          BY DEF Unit
        <5>2. UnitsOf(p) \subseteq Nat
          BY BlobsOfData DEF UnitsOf
        <5>. QED  BY <5>1, <5>2
      <4>4. Current.action = "data" /\ u[2] # 0 => u[2] > Current.index
        BY <2>2, <2>4, <4>2, <4>3
      <4>5. u[2] \notin D
        BY <2>2, <2>3, <4>2, <4>3
      <4>. QED  BY <4>1, <4>4, <4>5 DEF Leaves
    <3>4. bytesTransferred' = bytesTransferred + Cardinality(D) + Cardinality({})
      BY <1>0, <2>3, <3>1, NoUnits
    <3>5. {} \in SUBSET AttrBlobs(f)
      OBVIOUS
    <3>. HIDE DEF next
    <3>. QED  BY <1>0, <2>3, <2>4, <3>2, <3>3, <3>4, <3>5, CountAfter
  <2>. QED  BY <2>5, <2>6
<1>8. CASE ApplyTree
  <2>1. Finish(<<>>) /\ Current.action = "apply"
    BY <1>8, ApplyTreeEffects
  <2>2. bytesTransferred' = bytesTransferred + Cardinality(AttrBlobs(f))
    BY <1>8 DEF ApplyTree
  <2>3. bytesTransferred' = bytesTransferred + Cardinality({}) + Cardinality(AttrBlobs(f))
    BY <1>0, <2>2, NoUnits
  <2>4. {} \subseteq UnitsOf(f) /\ AttrBlobs(f) \in SUBSET AttrBlobs(f)
    OBVIOUS
  <2>. QED  BY <1>0, <2>1, <2>3, <2>4, NoUnits, CountAfterDone
<1>9. CASE WaitForObject
  <2>1. UNCHANGED <<restoreItems, bytesTransferred>> /\ pc' = "waiting"
    BY <1>9 DEF WaitForObject
  <2>. QED  BY <1>1, <2>1
<1>. QED
  BY <1>3, <1>4, <1>5, <1>6, <1>7, <1>8, <1>9, <1>11, <1>12, <1>13 DEF RestoreAnItem

LEMMA NextCount ==
  IsFiniteSet(Path) /\ TypeInv /\ OpenInv /\ CountInv /\ [Next]_vars => OpenInv' /\ CountInv'
<1>. SUFFICES ASSUME IsFiniteSet(Path), TypeInv, OpenInv, CountInv, [Next]_vars
              PROVE  OpenInv' /\ CountInv'
  OBVIOUS
\* The steps that leave items and bytes alone.
<1>1. CASE UNCHANGED <<restoreItems, opened, bytesTransferred>> /\ (pc' = "setUp" => pc = "setUp")
  BY <1>1 DEF OpenInv, CountInv, LeftIn, Leaves
<1>2. CASE RestoreAnItem
  BY <1>2, ItemStepsKeepOpen, ItemStepsKeepCount
<1>3. CASE SetUp
  <2>1. /\ restoreItems' = <<FirstItem>> /\ pc = "setUp" /\ pc' = "round"
        /\ UNCHANGED <<opened, bytesTransferred>>
    BY <1>3 DEF SetUp, disk
  <2>2. bytesTransferred' = 0
    BY <2>1 DEF CountInv
  <2>3. LeftIn(restoreItems') \subseteq Unit
    BY DEF LeftIn
  <2>4. Cardinality(LeftIn(restoreItems')) \in 0..Cardinality(Unit) /\ Cardinality(Unit) \in Nat
    BY <2>3, UnitsAreFinite
  <2>5. LeftIn(restoreItems)' = LeftIn(restoreItems')
    BY DEF LeftIn, Leaves
  <2>6. CountInv'
    BY <2>1, <2>2, <2>4, <2>5 DEF CountInv
  <2>7. \A k \in 1..Len(restoreItems') : restoreItems'[k] = FirstItem
    BY <2>1
  <2>8. OpenInv'
    BY <2>1, <2>7, FirstItems DEF OpenInv
  <2>. QED  BY <2>6, <2>8
<1>4. CASE Abort
  BY <1>1, <1>4 DEF Abort
<1>5. CASE BeginRound \/ SkipRound \/ RequestMoreGlacierItems \/ RoundRequested \/ Wakeup
  BY <1>1, <1>5 DEF BeginRound, SkipRound, RequestMoreGlacierItems, RoundRequested, Wakeup, disk
<1>6. CASE DidFail \/ DidSucceed
  BY <1>1, <1>6 DEF DidFail, DidSucceed, disk
<1>7. CASE RoundComesDue
  BY <1>1, <1>7 DEF RoundComesDue, disk
<1>8. ASSUME NEW o \in Object, Thaw(o) \/ Expire(o) PROVE OpenInv' /\ CountInv'
  BY <1>1, <1>8 DEF Thaw, Expire, disk
<1>9. CASE UNCHANGED vars
  BY <1>1, <1>9 DEF vars, disk
<1>. QED
  BY <1>2, <1>3, <1>4, <1>5, <1>6, <1>7, <1>8, <1>9 DEF Next, Run

\* However often an item waits and is taken up again, and whatever fails, no blob
\* of a file's data and no blob of a path's attributes is fetched and counted
\* twice: what was transferred is never more than what items have got past.
THEOREM NothingIsTransferredTwice == IsFiniteSet(Path) /\ Spec => []TransferredOnce
<1>. DEFINE Inv == IsFiniteSet(Path) /\ OpenInv /\ CountInv
<1>1. IsFiniteSet(Path) /\ Init => Inv
  <2>. SUFFICES ASSUME IsFiniteSet(Path), Init PROVE Inv
    OBVIOUS
  <2>1. restoreItems = <<>> /\ Len(<<>>) = 0 /\ bytesTransferred = 0 /\ opened = {}
    BY DEF Init
  <2>2. LeftIn(restoreItems) \subseteq Unit
    BY DEF LeftIn
  <2>3. Cardinality(LeftIn(restoreItems)) \in 0..Cardinality(Unit) /\ Cardinality(Unit) \in Nat
    BY <2>2, UnitsAreFinite
  <2>. QED  BY <2>1, <2>3 DEF OpenInv, CountInv
<1>2. TypeInv /\ Inv /\ [Next]_vars => Inv'
  BY NextCount
<1>3. TypeInv /\ Inv => TransferredOnce
  <2>. SUFFICES ASSUME TypeInv, Inv PROVE TransferredOnce
    OBVIOUS
  <2>1. LeftIn(restoreItems) \subseteq Unit
    BY DEF LeftIn
  <2>2. Cardinality(LeftIn(restoreItems)) \in 0..Cardinality(Unit) /\ Cardinality(Unit) \in Nat /\ bytesTransferred \in Nat
    BY <2>1, UnitsAreFinite DEF TypeInv, TypeRun
  <2>3. Unit \cap LeftIn(restoreItems) = LeftIn(restoreItems)
    BY <2>1
  <2>4. Cardinality(Unit \ LeftIn(restoreItems)) = Cardinality(Unit) - Cardinality(LeftIn(restoreItems))
    BY <2>3, UnitsAreFinite, FS_Difference
  <2>. QED  BY <2>2, <2>4 DEF CountInv, TransferredOnce
<1>. HIDE DEF Inv
<1>. QED  BY <1>1, <1>2, <1>3, TypeInvariant, PTL DEF Spec
=============================================================================
