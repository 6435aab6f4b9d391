----------------------- MODULE GlacierRestorer_proofs -----------------------
(***************************************************************************)
(* Proofs about GlacierRestorer, for every backup, vault and bound.        *)
(***************************************************************************)
EXTENDS GlacierRestorer, GlacierItems_proofs

(***************************************************************************)
(* The type invariant in parts, one for each group of variables, and what  *)
(* it needs to be inductive.                                               *)
(***************************************************************************)
TypePc ==
  /\ pc \in {"loading", "topic", "queue", "subscribing", "calculating", "findingPacks",
             "requestingPacks", "round", "requesting", "readingQueue", "processing",
             "deletingMessage", "restoring", "sleeping",
             "deletingTopic", "deletingQueue", "done"}
  /\ restoredAnItem \in BOOLEAN
TypeVault ==
  /\ started \in [Archive -> Nat]
  /\ job \in [Archive -> {"none", "running", "completed", "expired"}]
TypeQueue ==
  /\ message \in [Archive -> {"none", "visible", "inflight", "deleted"}]
  /\ trouble \in 0..MaxTrouble
TypeReading ==
  /\ response \in Seq(Archive) /\ readFailed \in BOOLEAN
  /\ status \subseteq Archive
TypeServices ==
  /\ created \subseteq Service /\ removed \subseteq created
  /\ outcome \in {"none", "succeeded", "failed"}
TypeRequests ==
  /\ glacierRequestItems \in Seq(RequestItems)
  /\ packsToRequest \subseteq Pack
  /\ requestedArchiveIds \subseteq Archive
  /\ bytesRequestedThisRound \in Nat /\ roundIsDue \in BOOLEAN
TypePacks ==
  /\ glacierPacksToDownload \in Seq(Pack)
  /\ cachedPacks \subseteq Pack
TypeRestores ==
  /\ restoreItems \in Seq(RestoreItem)
  /\ opened \subseteq File
  /\ content \in [File -> Seq(Blob)]
  /\ applied \subseteq Dir /\ reported \subseteq Path

\* Only files with data are opened, and data items are about a blob that is
\* there.
OfFile == {f \in File : Data[f] # <<>>}
IndexInRange ==
  /\ opened \subseteq OfFile
  /\ restoreItems \in Seq(GoodItem)

\* A message is processed and deleted only while there is one.
HasMessage == pc \in {"processing", "deletingMessage"} => response # <<>>

TypeInv ==
  /\ TypePc /\ TypeVault /\ TypeQueue /\ TypeReading /\ TypeServices
  /\ TypeRequests /\ TypePacks /\ TypeRestores
  /\ IndexInRange /\ HasMessage

LEMMA TypeInvImpliesTypeOK == TypeInv => TypeOK
  BY DEF TypeInv, TypeOK, TypePc, TypeVault, TypeQueue, TypeReading, TypeServices,
         TypeRequests, TypePacks, TypeRestores, RequestItems

(***************************************************************************)
(* What the operators of the model return.                                 *)
(***************************************************************************)

\* The sequences that list a finite set.
LEMMA SeqsOfSet ==
  ASSUME NEW S, IsFiniteSet(S), NEW s \in SetToSeqs(S)
  PROVE  /\ s \in Seq(S)
         /\ Len(s) = Cardinality(S)
<1>1. Cardinality(S) \in Nat
  BY FS_CardinalityType
<1>2. s \in [1..Cardinality(S) -> S]
  BY DEF SetToSeqs
<1>. QED  BY <1>1, <1>2, SeqDef, LenProperties

\* The restore of a tree goes on with items for what is in it.
LEMMA NextItemsOf ==
  ASSUME NEW d \in Dir
  PROVE  NextItems(d) \in Seq(GoodItem)
<1>1. Covers(TreeItem(d)) = Within(d)
  BY DEF Covers, TreeItem
<1>. QED  BY <1>1, FollowsTree DEF Follows, InOrder

\* What Request does to the jobs and counts, whatever it is asked for.
LEMMA RequestKeepsTypes ==
  ASSUME NEW blobs \in SUBSET Blob, TypeVault, TypeRequests, Request(blobs)
  PROVE  /\ TypeVault'
         /\ requestedArchiveIds' \subseteq Archive
         /\ bytesRequestedThisRound' \in Nat
<1>. DEFINE mine == {b \in blobs : ~Packed(b)}
            archives == {ArchiveOf[b] : b \in mine}
<1>1. archives \subseteq Archive
  BY ArchiveAssumption DEF Packed
<1>2. Cardinality(mine) \in Nat
  <2>1. IsFiniteSet(mine)
    BY ArchiveAssumption, FS_Subset
  <2>. QED  BY <2>1, FS_CardinalityType
<1>3. TypeVault'
  BY DEF TypeVault, Request, StartJobs
<1>4. requestedArchiveIds' = requestedArchiveIds \cup archives
  BY DEF Request
<1>5. bytesRequestedThisRound' = bytesRequestedThisRound + Cardinality(mine)
  BY DEF Request
<1>. HIDE DEF archives, mine
<1>. QED  BY <1>1, <1>2, <1>3, <1>4, <1>5 DEF TypeRequests

\* The item at work, and the file or directory it is about.
LEMMA CurrentItem ==
  ASSUME TypeInv, NEW action, At(action)
  PROVE  /\ Current \in RestoreItem /\ InRange(Current)
         /\ Tail(restoreItems) \in Seq(GoodItem)
         /\ Current.action = action
         /\ action \in {"tree", "apply"} => Current.path \in Dir
         /\ action = "node" => Current.path \in File
         /\ action = "data" => /\ Current.path \in File /\ Current.index \in Nat
                               /\ Current.path \in OfFile
<1>. DEFINE S == GoodItem
<1>1. restoreItems \in Seq(S) /\ restoreItems # <<>> /\ Current.action = action
  BY DEF TypeInv, IndexInRange, At
<1>2. Current \in S /\ Tail(restoreItems) \in Seq(S)
  BY <1>1, HeadTailProperties DEF Current
<1>3. /\ action \in {"tree", "apply"} => Current.path \in Dir
      /\ action = "node" => Current.path \in File
      /\ action = "data" => Current.path \in File /\ Current.index \in Nat
  BY <1>1, <1>2 DEF GoodItem, RestoreItem, Item
<1>4. action = "data" => Current.path \in OfFile
  <2>. HAVE action = "data"
  <2>1. Current.path \in File /\ Current.index \in Nat /\ Current.index < Len(Data[Current.path])
    BY <1>1, <1>2, <1>3 DEF GoodItem, InRange
  <2>2. Len(<<>>) = 0
    OBVIOUS
  <2>. QED  BY <2>1, <2>2 DEF OfFile
<1>. QED  BY <1>1, <1>2, <1>3, <1>4 DEF GoodItem

\* The items that follow one are added in front of the rest.
LEMMA FinishKeepsTypes ==
  ASSUME TypeInv, NEW next \in Seq(GoodItem), NEW action, At(action),
         Finish(next)
  PROVE  /\ restoreItems' \in Seq(GoodItem)
         /\ restoreItems' \in Seq(RestoreItem)
         /\ pc' = "round" /\ restoredAnItem' = TRUE
         /\ UNCHANGED <<vault, queue, reading, requests, packs>>
<1>. DEFINE S == GoodItem
<1>1. Tail(restoreItems) \in Seq(S)
  BY CurrentItem
<1>2. restoreItems' = next \o Tail(restoreItems)
  BY DEF Finish
<1>3. restoreItems' \in Seq(S)
  BY <1>1, <1>2, ConcatProperties
<1>4. restoreItems' \in Seq(RestoreItem)
  BY <1>3, SeqMonotonic DEF GoodItem
<1>. QED  BY <1>3, <1>4 DEF Finish

(***************************************************************************)
(* The steps that change data keep the types.                              *)
(***************************************************************************)
LEMMA FindPacksKeepsTypes ==
  ASSUME TypeInv, FindNeededGlacierPacks
  PROVE  TypeInv'
<1>1. NeededPacks \subseteq Pack
  BY DEF NeededPacks
<1>2. IsFiniteSet(NeededPacks)
  BY <1>1, ArchiveAssumption, FS_Subset
<1>3. glacierPacksToDownload' \in Seq(NeededPacks)
  BY <1>2, SeqsOfSet DEF FindNeededGlacierPacks
<1>4. glacierPacksToDownload' \in Seq(Pack)
  BY <1>1, <1>3, SeqMonotonic
<1>5. TypeRequests' /\ TypePacks'
  BY <1>1, <1>4 DEF FindNeededGlacierPacks, TypeInv, TypeRequests, TypePacks
<1>. QED
  BY <1>5 DEF FindNeededGlacierPacks, TypeInv, TypePc, TypeVault, TypeQueue, TypeReading,
     TypeServices, TypeRestores, IndexInRange, HasMessage, vault, queue, reading, services, restores

LEMMA DeletionKeepsTypes ==
  ASSUME TypeInv, DeleteTopic \/ DeleteQueue
  PROVE  TypeInv'
<1>1. removed' \subseteq created' /\ created' = created /\ outcome' = outcome
  BY DEF DeleteTopic, DeleteQueue, TypeInv, TypeServices
<1>2. TypeServices'
  BY <1>1 DEF TypeInv, TypeServices
<1>3. trouble' \in 0..MaxTrouble /\ message' = message
  BY ArchiveAssumption DEF DeleteTopic, DeleteQueue, TypeInv, TypeQueue, queue
<1>4. TypeQueue'
  BY <1>3 DEF TypeInv, TypeQueue
<1>5. TypePc' /\ HasMessage'
  BY DEF DeleteTopic, DeleteQueue, TypeInv, TypePc, HasMessage
<1>6. UNCHANGED <<vault, reading, requests, packs, restores>>
  BY DEF DeleteTopic, DeleteQueue
<1>. QED
  BY <1>2, <1>4, <1>5, <1>6 DEF TypeInv, TypeVault, TypeReading, TypeRequests, TypePacks,
     TypeRestores, IndexInRange, vault, reading, requests, packs, restores

LEMMA RequestMoreKeepsTypes ==
  ASSUME TypeInv, RequestMoreGlacierItems
  PROVE  TypeInv'
<1>. DEFINE S == RequestItems
            item == Head(glacierRequestItems)
<1>1. glacierRequestItems \in Seq(S) /\ glacierRequestItems # <<>>
  BY DEF RequestMoreGlacierItems, TypeInv, TypeRequests
<1>2. item \in S /\ Tail(glacierRequestItems) \in Seq(S)
  BY <1>1, HeadTailProperties
<1>3. glacierRequestItems' \in Seq(S)
  BY <1>2, NextRequestItemsOf, ConcatProperties DEF RequestMoreGlacierItems
<1>4. BlobsToRequest(item) \in SUBSET Blob
  BY <1>2, BlobsToRequestOf
<1>5. TypeVault' /\ requestedArchiveIds' \subseteq Archive /\ bytesRequestedThisRound' \in Nat
  BY <1>4, RequestKeepsTypes DEF RequestMoreGlacierItems, TypeInv
<1>6. TypeRequests'
  BY <1>3, <1>5 DEF RequestMoreGlacierItems, TypeInv, TypeRequests
<1>. QED
  BY <1>5, <1>6 DEF RequestMoreGlacierItems, TypeInv, TypePc, TypeQueue, TypeReading, TypeServices,
     TypePacks, TypeRestores, IndexInRange, HasMessage, queue, reading, services, packs, restores

\* A restore that fails in the middle of a request has made some of it.
LEMMA DidFailKeepsTypes ==
  ASSUME TypeInv, DidFail
  PROVE  TypeInv'
<1>1. TypeVault' /\ TypeRequests'
  <2>1. CASE UNCHANGED <<vault, requests>>
    BY <2>1 DEF TypeInv, TypeVault, TypeRequests, vault, requests
  <2>2. CASE /\ glacierRequestItems # <<>>
             /\ \E some \in SUBSET BlobsToRequest(Head(glacierRequestItems)) : Request(some)
             /\ UNCHANGED <<glacierRequestItems, packsToRequest, roundIsDue>>
    <3>1. Head(glacierRequestItems) \in RequestItems
      BY <2>2, HeadTailProperties DEF TypeInv, TypeRequests
    <3>2. PICK some \in SUBSET BlobsToRequest(Head(glacierRequestItems)) : Request(some)
      BY <2>2
    <3>3. some \in SUBSET Blob
      BY <3>1, <3>2, BlobsToRequestOf
    <3>4. TypeVault' /\ requestedArchiveIds' \subseteq Archive /\ bytesRequestedThisRound' \in Nat
      BY <3>2, <3>3, RequestKeepsTypes DEF TypeInv
    <3>. QED  BY <2>2, <3>4 DEF TypeInv, TypeRequests
  <2>. QED  BY <2>1, <2>2 DEF DidFail
<1>2. TypePc' /\ TypeServices' /\ HasMessage'
  BY DEF DidFail, Conclude, TypeInv, TypePc, TypeServices, HasMessage
<1>3. UNCHANGED <<queue, reading, packs, restores>>
  BY DEF DidFail
<1>. QED
  BY <1>1, <1>2, <1>3 DEF TypeInv, TypeQueue, TypeReading, TypePacks, TypeRestores, IndexInRange,
     queue, reading, packs, restores

LEMMA ReceiveKeepsTypes ==
  ASSUME TypeInv, NEW archives \in SUBSET Archive, ReceiveMessages(archives)
  PROVE  TypeInv'
<1>1. IsFiniteSet(archives)
  BY ArchiveAssumption, FS_Subset
<1>2. response' \in Seq(archives) /\ Len(response') = Cardinality(archives)
  BY <1>1, SeqsOfSet DEF ReceiveMessages
<1>3. response' \in Seq(Archive)
  BY <1>2, SeqMonotonic
<1>4. response' # <<>>
  <2>1. Cardinality(archives) # 0
    BY <1>1, FS_EmptySet DEF ReceiveMessages
  <2>2. Len(<<>>) = 0
    OBVIOUS
  <2>. QED  BY <1>2, <2>1, <2>2
<1>5. TypeReading' /\ HasMessage' /\ TypeQueue' /\ TypePc'
  BY <1>3, <1>4 DEF ReceiveMessages, TypeInv, TypeReading, HasMessage, TypeQueue, TypePc
<1>. QED
  BY <1>5 DEF ReceiveMessages, TypeInv, TypeVault, TypeServices, TypeRequests, TypePacks,
     TypeRestores, IndexInRange, vault, services, requests, packs, restores

\* A step that restores an item and leaves the queue, the requests and the
\* packs alone keeps the types, if it keeps those of what is on disk.
LEMMA ItemKeepsTypes ==
  ASSUME TypeInv, NEW action, At(action),
         NEW next \in Seq(GoodItem), Finish(next), services' = services,
         opened' \subseteq OfFile, content' \in [File -> Seq(Blob)],
         applied' \subseteq Dir, reported' \subseteq Path
  PROVE  TypeInv'
<1>1. /\ restoreItems' \in Seq(GoodItem)
      /\ restoreItems' \in Seq(RestoreItem)
      /\ pc' = "round" /\ restoredAnItem' = TRUE
      /\ UNCHANGED <<vault, queue, reading, requests, packs>>
  BY FinishKeepsTypes
<1>2. opened' \subseteq File
  BY DEF OfFile
<1>3. TypeRestores' /\ IndexInRange' /\ TypePc' /\ HasMessage'
  BY <1>1, <1>2 DEF TypeRestores, IndexInRange, TypePc, HasMessage, OfFile, InRange, RestoreItem, Item
<1>. QED
  BY <1>1, <1>3 DEF TypeInv, TypeVault, TypeQueue, TypeReading, TypeServices, TypeRequests,
     TypePacks, vault, queue, reading, services, requests, packs

\* What is on disk has its types before the step.
LEMMA DiskTypes ==
  ASSUME TypeInv
  PROVE  /\ opened \subseteq OfFile /\ content \in [File -> Seq(Blob)]
         /\ applied \subseteq Dir /\ reported \subseteq Path
         /\ <<>> \in Seq(GoodItem)
  BY DEF TypeInv, TypeRestores, IndexInRange

LEMMA RestoreTreeKeepsTypes ==
  ASSUME TypeInv, RestoreTree
  PROVE  TypeInv'
<1>. DEFINE d == Current.path
<1>1. At("tree") /\ d \in Dir
  BY CurrentItem DEF RestoreTree
<1>2. reported' \subseteq Path /\ UNCHANGED <<opened, content, applied>>
  BY <1>1, DiskTypes DEF RestoreTree, Report, Path
<1>3. CASE Finish(NextItems(d)) /\ UNCHANGED services
  <2>1. NextItems(d) \in Seq(GoodItem)
    BY <1>1, NextItemsOf
  <2>. QED  BY <1>1, <1>2, <1>3, <2>1, DiskTypes, ItemKeepsTypes
<1>4. CASE /\ Conclude("failed")
           /\ UNCHANGED <<restoreItems, restoredAnItem, vault, queue, reading, requests, packs>>
  BY <1>2, <1>4 DEF Conclude, TypeInv, TypePc, TypeVault, TypeQueue, TypeReading, TypeServices,
     TypeRequests, TypePacks, TypeRestores, IndexInRange, HasMessage, vault, queue, reading,
     requests, packs
<1>. QED  BY <1>3, <1>4 DEF RestoreTree

LEMMA RestoreWholeKeepsTypes ==
  ASSUME TypeInv, RestoreWhole
  PROVE  TypeInv'
<1>. DEFINE f == Current.path
<1>1. At("node") /\ f \in File
  BY CurrentItem DEF RestoreWhole
<1>2. content' \in [File -> Seq(Blob)]
  <2>1. Data[f] \in Seq(Blob)
    BY <1>1, BlobsOfData
  <2>2. content' = [content EXCEPT ![f] = Data[f]]
    BY DEF RestoreWhole
  <2>. QED  BY <2>1, <2>2, DiskTypes
<1>3. reported' \subseteq Path /\ opened' \subseteq OfFile /\ applied' \subseteq Dir
  BY <1>1, DiskTypes DEF RestoreWhole, Report, Path
<1>4. Finish(<<>>) /\ services' = services
  BY DEF RestoreWhole, services
<1>. QED  BY <1>1, <1>2, <1>3, <1>4, DiskTypes, ItemKeepsTypes

\* The blob a file is at is there, and the next one too unless it is the last.
LEMMA RestoreDataKeepsTypes ==
  ASSUME TypeInv, RestoreData
  PROVE  TypeInv'
<1>. DEFINE f == Current.path
            last == Index + 1 = Len(Data[f])
            S == GoodItem
<1>1. At("data") \/ (At("node") /\ Data[f] # <<>>)
  BY DEF RestoreData
<1>2. f \in OfFile /\ f \in File /\ Index \in Nat /\ Index < Len(Data[f]) /\ Current.action \in {"data", "node"}
  <2>1. CASE At("data")
    <3>1. f \in OfFile /\ f \in File /\ Current.action = "data" /\ Current.index \in Nat /\ InRange(Current)
      BY <2>1, CurrentItem
    <3>. QED  BY <3>1 DEF Index, InRange
  <2>2. CASE At("node") /\ Data[f] # <<>>
    <3>1. f \in OfFile /\ f \in File /\ Current.action = "node" /\ Index = 0
      BY <2>2, CurrentItem DEF Index, OfFile
    <3>2. Data[f] \in Seq(Blob) /\ Len(Data[f]) \in Nat /\ Len(Data[f]) # 0
      BY <2>2, <3>1, BlobsOfData, EmptySeq
    <3>. QED  BY <3>1, <3>2
  <2>. QED  BY <1>1, <2>1, <2>2
<1>3. Data[f][Index + 1] \in Blob
  BY <1>2, BlobsOfData
<1>4. content' \in [File -> Seq(Blob)]
  <2>1. content[f] \in Seq(Blob)
    BY <1>2, DiskTypes
  <2>2. Append(content[f], Data[f][Index + 1]) \in Seq(Blob)
    BY <1>3, <2>1, AppendProperties
  <2>3. content' = [content EXCEPT ![f] = Append(content[f], Data[f][Index + 1])]
    BY DEF RestoreData
  <2>. QED  BY <2>2, <2>3, DiskTypes
<1>5. DataItem(f, Index + 1) \in S \/ last
  BY <1>2, BlobsOfData DEF DataItem, GoodItem, RestoreItem, InRange
<1>6. (IF last THEN <<>> ELSE <<DataItem(f, Index + 1)>>) \in Seq(S)
  <2>1. CASE last
    BY <2>1, DiskTypes
  <2>2. CASE ~last
    BY <1>5, <2>2
  <2>. QED  BY <2>1, <2>2
<1>7. reported' \subseteq Path /\ opened' \subseteq OfFile /\ applied' \subseteq Dir
  BY <1>2, DiskTypes DEF RestoreData, Report, Path
<1>8. Finish(IF last THEN <<>> ELSE <<DataItem(f, Index + 1)>>) /\ services' = services
  BY DEF RestoreData, services
<1>. QED  BY <1>1, <1>4, <1>6, <1>7, <1>8, ItemKeepsTypes

LEMMA ApplyTreeKeepsTypes ==
  ASSUME TypeInv, ApplyTree
  PROVE  TypeInv'
<1>1. At("apply") /\ Current.path \in Dir
  BY CurrentItem DEF ApplyTree
<1>2. applied' \subseteq Dir /\ opened' = opened /\ content' = content /\ reported' = reported
  BY <1>1, DiskTypes DEF ApplyTree
<1>3. Finish(<<>>) /\ services' = services
  BY DEF ApplyTree, services
<1>. QED  BY <1>1, <1>2, <1>3, DiskTypes, ItemKeepsTypes

LEMMA FailItemKeepsTypes ==
  ASSUME TypeInv, FailItem
  PROVE  TypeInv'
<1>. DEFINE p == Current.path
            S == GoodItem
<1>1. PICK action \in {"node", "data", "apply"} : At(action)
  BY DEF FailItem
<1>2. p \in Path
  BY <1>1, CurrentItem DEF Path
<1>3. content' \in [File -> Seq(Blob)]
  <2>1. content' = content \/ (At("data") /\ content' = [content EXCEPT ![p] = <<>>])
    BY DEF FailItem
  <2>2. CASE At("data") /\ content' = [content EXCEPT ![p] = <<>>]
    <3>1. p \in File
      BY <2>2, CurrentItem
    <3>2. <<>> \in Seq(Blob)
      OBVIOUS
    <3>. QED  BY <2>2, <3>1, <3>2, DiskTypes
  <2>. QED  BY <2>1, <2>2, DiskTypes
<1>4. reported' \subseteq Path /\ opened' \subseteq OfFile /\ applied' \subseteq Dir
  BY <1>2, DiskTypes DEF FailItem, Report
<1>5. PICK next \in {<<>>, <<DataItem(p, 0)>>} :
        Finish(next) /\ (next = <<>> \/ p \in opened)
  BY DEF FailItem
<1>6. next \in Seq(S)
  <2>1. CASE p \in opened
    <3>1. p \in File /\ Data[p] # <<>>
      BY <2>1, DiskTypes DEF OfFile
    <3>2. Data[p] \in Seq(Blob) /\ 0 < Len(Data[p])
      BY <3>1, BlobsOfData, EmptySeq
    <3>3. DataItem(p, 0) \in S
      BY <3>1, <3>2 DEF DataItem, GoodItem, RestoreItem, InRange
    <3>4. <<DataItem(p, 0)>> \in Seq(S)
      BY <3>3
    <3>. QED  BY <1>5, <3>4, DiskTypes
  <2>2. CASE next = <<>>
    BY <2>2
  <2>. QED  BY <1>5, <2>1, <2>2
<1>7. services' = services
  BY DEF FailItem, services
<1>. QED  BY <1>1, <1>3, <1>4, <1>5, <1>6, <1>7, ItemKeepsTypes

\* A file is opened before its first blob is looked for, so it has one.
LEMMA WaitForItemKeepsTypes ==
  ASSUME TypeInv, WaitForItem
  PROVE  TypeInv'
<1>. DEFINE p == Current.path
<1>1. opened' \subseteq OfFile
  <2>1. CASE At("node") /\ p \notin Symlink /\ Available(AttrBlobs(p))
    <3>1. p \in File /\ Current.action = "node"
      BY <2>1, CurrentItem
    <3>2. Needed(Current) = AttrBlobs(p) \cup {Data[p][k] : k \in DOMAIN Data[p] \cap {1}}
      BY <2>1, <3>1 DEF Needed
    <3>3. DOMAIN Data[p] # {}
      BY <2>1, <3>2 DEF WaitForItem, Available
    <3>4. Data[p] # <<>>
      BY <3>3
    <3>. QED  BY <3>1, <3>4, DiskTypes DEF WaitForItem, OfFile
  <2>2. CASE ~(At("node") /\ p \notin Symlink /\ Available(AttrBlobs(p)))
    BY <2>2, DiskTypes DEF WaitForItem
  <2>. QED  BY <2>1, <2>2
<1>2. opened' \subseteq File
  BY <1>1 DEF OfFile
<1>. QED
  BY <1>1, <1>2 DEF WaitForItem, TypeInv, TypePc, TypeVault, TypeQueue, TypeReading, TypeServices,
     TypeRequests, TypePacks, TypeRestores, IndexInRange, HasMessage, vault, queue, reading,
     services, requests, packs

LEMMA InitType == Init => TypeInv
<1>. SUFFICES ASSUME Init PROVE TypeInv
  OBVIOUS
<1>1. RequestItem(Target, IF Target = Root THEN 1 ELSE 0) \in RequestItems
  BY Targets DEF RequestItem, RequestItems
<1>2. FirstItem \in GoodItem
  BY FirstItems
<1>3. /\ glacierRequestItems \in Seq(RequestItems)
      /\ restoreItems \in Seq(GoodItem)
      /\ restoreItems \in Seq(RestoreItem)
  BY <1>1, <1>2 DEF Init, FirstRequestItem, GoodItem
<1>4. /\ <<>> \in Seq(Blob) /\ <<>> \in Seq(Archive) /\ <<>> \in Seq(Pack)
      /\ 0 \in 0..MaxTrouble
  BY ArchiveAssumption
<1>5. TypePc /\ TypeServices /\ HasMessage
  BY DEF Init, TypePc, TypeServices, HasMessage
<1>6. TypeVault /\ TypeQueue
  BY <1>4 DEF Init, TypeVault, TypeQueue
<1>7. TypeReading /\ TypePacks
  BY <1>4 DEF Init, TypeReading, TypePacks
<1>8. TypeRequests
  BY <1>3 DEF Init, TypeRequests
<1>9. TypeRestores /\ IndexInRange
  BY <1>3, <1>4 DEF Init, TypeRestores, IndexInRange
<1>. QED
  BY <1>5, <1>6, <1>7, <1>8, <1>9 DEF TypeInv

LEMMA NextType == TypeInv /\ [Next]_vars => TypeInv'
<1>. SUFFICES ASSUME TypeInv, [Next]_vars PROVE TypeInv'
  OBVIOUS
<1>. USE DEF TypeInv, TypePc, TypeVault, TypeQueue, TypeReading, TypeServices, TypeRequests,
         TypePacks, TypeRestores, IndexInRange, HasMessage,
         vault, queue, reading, services, requests, packs, restores
<1>1. CASE Proceed
  BY <1>1 DEF Proceed
<1>2. CASE FindNeededGlacierPacks
  BY <1>2, FindPacksKeepsTypes
<1>3. CASE PacksRequested
  BY <1>3 DEF PacksRequested
<1>4. CASE DownloadPack
  BY <1>4 DEF DownloadPack
<1>5. CASE WaitForPack
  BY <1>5 DEF WaitForPack
<1>6. CASE RestoreTree
  BY <1>6, RestoreTreeKeepsTypes
<1>7. CASE RestoreWhole
  BY <1>7, RestoreWholeKeepsTypes
<1>8. CASE RestoreData
  BY <1>8, RestoreDataKeepsTypes
<1>9. CASE ApplyTree
  BY <1>9, ApplyTreeKeepsTypes
<1>10. CASE FailItem
  BY <1>10, FailItemKeepsTypes
<1>11. CASE WaitForItem
  BY <1>11, WaitForItemKeepsTypes
<1>12. CASE ReceiveNothing
  BY <1>12 DEF ReceiveNothing, Conclude
<1>13. CASE SaveCompletedJob
  BY <1>13 DEF SaveCompletedJob
<1>14. CASE DeleteMessage
  <2>1. Tail(response) \in Seq(Archive)
    BY <1>14, HeadTailProperties DEF DeleteMessage
  <2>2. message' \in [Archive -> {"none", "visible", "inflight", "deleted"}]
    BY <1>14 DEF DeleteMessage
  <2>3. pc' \in {"processing", "readingQueue"} /\ (pc' = "processing" => response' # <<>>)
    BY <1>14 DEF DeleteMessage
  <2>. QED  BY <1>14, <2>1, <2>2, <2>3 DEF DeleteMessage
<1>15. CASE FailMessage
  BY <1>15 DEF FailMessage
<1>16. CASE BeginRound
  BY <1>16 DEF BeginRound, AfterRequests
<1>17. CASE RequestMoreGlacierItems
  BY <1>17, RequestMoreKeepsTypes
<1>18. CASE RoundRequested
  BY <1>18 DEF RoundRequested, AfterRequests
<1>19. CASE Sleep
  BY <1>19 DEF Sleep
<1>20. CASE DidSucceed
  BY <1>20 DEF DidSucceed, Conclude
<1>21. CASE DidFail
  BY <1>21, DidFailKeepsTypes
<1>22. CASE Abort
  BY <1>22 DEF Abort, Conclude
<1>23. CASE DeleteTopic
  BY <1>23, DeletionKeepsTypes
<1>24. CASE DeleteQueue
  BY <1>24, DeletionKeepsTypes
<1>25. CASE RoundComesDue
  BY <1>25 DEF RoundComesDue
<1>26. ASSUME NEW s \in Service, Create(s) PROVE TypeInv'
  BY <1>26 DEF Create, Service
<1>27. ASSUME NEW a \in Pack, RequestPack(a) PROVE TypeInv'
  BY <1>27, ArchiveAssumption DEF RequestPack, StartJobs
<1>28. ASSUME NEW archives \in SUBSET Archive, ReceiveMessages(archives) PROVE TypeInv'
  BY <1>28, ReceiveKeepsTypes
<1>29. ASSUME NEW a \in Archive, CompleteJob(a) PROVE TypeInv'
  BY <1>29 DEF CompleteJob
<1>30. ASSUME NEW a \in Archive, ExpireJob(a) PROVE TypeInv'
  BY <1>30 DEF ExpireJob
<1>31. ASSUME NEW a \in Archive, Reappear(a) PROVE TypeInv'
  BY <1>31, ArchiveAssumption DEF Reappear
<1>32. CASE UNCHANGED vars
  BY <1>32 DEF vars
<1>. QED
  BY <1>1, <1>2, <1>3, <1>4, <1>5, <1>6, <1>7, <1>8, <1>9, <1>10, <1>11, <1>12, <1>13, <1>14, <1>15, <1>16, <1>17, <1>18, <1>19, <1>20, <1>21, <1>22, <1>23, <1>24, <1>25, <1>26, <1>27, <1>28, <1>29, <1>30, <1>31, <1>32
     DEF Next, Run, SetUp, FetchPacks, RestoreAnItem, ReadQueue

(***************************************************************************)
(* Type correctness, of every restore (the code behind TypeOK: the types   *)
(* of GlacierRestorer's fields, RestoreItem and GlacierRequestItem).       *)
(***************************************************************************)
LEMMA TypeInvariant == Spec => []TypeInv
  BY InitType, NextType, PTL DEF Spec

THEOREM TypeCorrect == Spec => []TypeOK
  BY TypeInvariant, TypeInvImpliesTypeOK, PTL

(***************************************************************************)
(* No completed job is forgotten (readQueue, processMessage: the status    *)
(* file is written before the message is deleted).  The message at work is *)
(* deleted only when the status file names its archive.                    *)
(***************************************************************************)
SavedFirst == pc = "deletingMessage" => Head(response) \in status
KeptInv == NotificationKept /\ SavedFirst

LEMMA NextKept == TypeInv /\ KeptInv /\ [Next]_vars => KeptInv'
<1>. SUFFICES ASSUME TypeInv, KeptInv, [Next]_vars PROVE KeptInv'
  OBVIOUS
<1>. USE DEF KeptInv, NotificationKept, SavedFirst
<1>1. Head(response) \in Archive \/ response = <<>>
  BY HeadTailProperties DEF TypeInv, TypeReading
<1>2. CASE outcome' # "none" /\ pc' # "deletingMessage"
  BY <1>2
\* Jobs that start.
<1>3. ASSUME NEW archives, StartJobs(archives), UNCHANGED <<message, status, outcome>>,
             pc' # "deletingMessage"
      PROVE  KeptInv'
  BY <1>3 DEF StartJobs, TypeInv, TypeVault
\* Steps that leave jobs and messages alone.
<1>4. CASE UNCHANGED <<vault, message, reading, outcome>> /\ pc' # "deletingMessage"
  BY <1>4 DEF vault, reading
<1>5. CASE UNCHANGED <<pc, vault, message, reading, outcome>>
  BY <1>5 DEF vault, reading
<1>6. ASSUME NEW a \in Pack, RequestPack(a) PROVE KeptInv'
  BY <1>3, <1>6 DEF RequestPack, queue, reading, services
<1>7. CASE RequestMoreGlacierItems
  BY <1>3, <1>7 DEF RequestMoreGlacierItems, Request, queue, reading, services
<1>8. ASSUME NEW archives \in SUBSET Archive, ReceiveMessages(archives) PROVE KeptInv'
  BY <1>8 DEF ReceiveMessages, vault, services, TypeInv, TypeQueue
<1>9. CASE SaveCompletedJob
  BY <1>9 DEF SaveCompletedJob, vault, queue, services
<1>10. CASE DeleteMessage
  BY <1>1, <1>10 DEF DeleteMessage, vault, services, TypeInv, TypeQueue, TypeReading
<1>11. CASE FailMessage
  BY <1>11 DEF FailMessage, vault, queue, services
<1>12. ASSUME NEW a \in Archive, CompleteJob(a) PROVE KeptInv'
  BY <1>12 DEF CompleteJob, reading, services, TypeInv, TypeQueue, TypeVault
<1>13. ASSUME NEW a \in Archive, ExpireJob(a) PROVE KeptInv'
  BY <1>13 DEF ExpireJob, reading, services, queue, TypeInv, TypeVault
<1>14. ASSUME NEW a \in Archive, Reappear(a) PROVE KeptInv'
  BY <1>14 DEF Reappear, vault, reading, services, TypeInv, TypeQueue
<1>15. CASE SetUp
  BY <1>4, <1>15 DEF SetUp, Proceed, Create, vault, queue, reading, services
<1>16. CASE FindNeededGlacierPacks \/ PacksRequested \/ DownloadPack \/ WaitForPack
  BY <1>4, <1>16 DEF FindNeededGlacierPacks, PacksRequested, DownloadPack, WaitForPack,
     queue, services
<1>17. CASE RestoreTree
  BY <1>2, <1>4, <1>17 DEF RestoreTree, Finish, Conclude, queue, services
<1>18. CASE RestoreWhole \/ RestoreData \/ ApplyTree \/ FailItem
  BY <1>4, <1>18 DEF RestoreWhole, RestoreData, ApplyTree, FailItem, Finish, queue, services
<1>19. CASE WaitForItem
  BY <1>4, <1>19 DEF WaitForItem, queue, services
<1>20. CASE ReceiveNothing
  BY <1>2, <1>4, <1>20 DEF ReceiveNothing, Conclude, queue, services
<1>21. CASE BeginRound \/ RoundRequested \/ Sleep
  BY <1>4, <1>21 DEF BeginRound, RoundRequested, Sleep, AfterRequests, queue, services
<1>22. CASE DidSucceed \/ DidFail \/ Abort
  BY <1>2, <1>22 DEF DidSucceed, DidFail, Abort, Conclude
<1>23. CASE DeleteTopic \/ DeleteQueue
  BY <1>4, <1>23 DEF DeleteTopic, DeleteQueue
<1>24. CASE RoundComesDue
  BY <1>5, <1>24 DEF RoundComesDue, queue, services
<1>25. CASE UNCHANGED vars
  BY <1>5, <1>25 DEF vars, queue, services
<1>. QED
  BY <1>6, <1>7, <1>8, <1>9, <1>10, <1>11, <1>12, <1>13, <1>14, <1>15, <1>16, <1>17, <1>18,
     <1>19, <1>20, <1>21, <1>22, <1>23, <1>24, <1>25
     DEF Next, Run, FetchPacks, RestoreAnItem, ReadQueue

THEOREM NoJobIsForgotten == Spec => []NotificationKept
<1>1. Init => KeptInv
  BY DEF Init, KeptInv, NotificationKept, SavedFirst
<1>2. KeptInv => NotificationKept
  BY DEF KeptInv
<1>. QED  BY <1>1, <1>2, TypeInvariant, NextKept, PTL DEF Spec

(***************************************************************************)
(* What was made for the restore is removed (setUp, run, deleteTopic,      *)
(* deleteQueue): nothing is before the end, then the topic, then the queue.*)
(***************************************************************************)
RemovalInv ==
  /\ pc \notin {"deletingQueue", "done"} => removed = {}
  /\ pc = "deletingQueue" /\ trouble = 0 => removed = created \cap {"topic"}
  /\ NothingLeftBehind

LEMMA NextRemoval == TypeInv /\ RemovalInv /\ [Next]_vars => RemovalInv'
<1>. SUFFICES ASSUME TypeInv, RemovalInv, [Next]_vars PROVE RemovalInv'
  OBVIOUS
<1>. USE DEF RemovalInv, NothingLeftBehind
<1>1. CASE removed' = removed /\ pc \notin {"deletingQueue", "done"} /\ pc' \notin {"deletingQueue", "done"}
  BY <1>1
<1>2. CASE UNCHANGED <<pc, trouble, services>>
  BY <1>2 DEF services
<1>3. CASE DeleteTopic
  BY <1>3 DEF DeleteTopic, TypeInv, TypeQueue
<1>4. CASE DeleteQueue
  <2>1. /\ pc = "deletingQueue" /\ pc' = "done" /\ created' = created
        /\ \/ trouble' = trouble /\ removed' = removed \cup (created \cap {"queue"})
           \/ trouble' = trouble + 1
    BY <1>4 DEF DeleteQueue, queue
  <2>2. trouble \in Nat /\ created \subseteq {"topic", "queue"}
    BY ArchiveAssumption DEF TypeInv, TypeQueue, TypeServices, Service
  <2>3. ASSUME trouble' = 0 PROVE removed' = created'
    <3>1. trouble = 0 /\ removed' = removed \cup (created \cap {"queue"})
      BY <2>1, <2>2, <2>3
    <3>2. removed = created \cap {"topic"}
      BY <2>1, <3>1
    <3>. QED  BY <2>1, <2>2, <3>1, <3>2
  <2>. QED  BY <2>1, <2>3
<1>5. ASSUME NEW a \in Archive, Reappear(a) PROVE RemovalInv'
  BY <1>5 DEF Reappear, services, TypeInv, TypeQueue
<1>6. CASE SetUp
  BY <1>1, <1>6 DEF SetUp, Proceed, Create, Service, services
<1>7. CASE FetchPacks
  BY <1>1, <1>7 DEF FetchPacks, FindNeededGlacierPacks, RequestPack, PacksRequested, DownloadPack,
     WaitForPack, services
<1>8. CASE RestoreTree \/ RestoreWhole \/ RestoreData \/ ApplyTree \/ FailItem \/ WaitForItem
  BY <1>1, <1>8 DEF RestoreTree, RestoreWhole, RestoreData, ApplyTree, FailItem, WaitForItem,
     At, Finish, Conclude, services
<1>9. CASE ReadQueue
  BY <1>1, <1>9 DEF ReadQueue, ReceiveMessages, ReceiveNothing, SaveCompletedJob, DeleteMessage,
     FailMessage, Conclude, services
<1>10. CASE BeginRound \/ RequestMoreGlacierItems \/ RoundRequested \/ Sleep
  BY <1>1, <1>10 DEF BeginRound, RequestMoreGlacierItems, RoundRequested, Sleep, AfterRequests, services
<1>11. CASE DidSucceed \/ DidFail \/ Abort
  BY <1>1, <1>11 DEF DidSucceed, DidFail, Abort, Conclude
<1>12. CASE RoundComesDue
  BY <1>2, <1>12 DEF RoundComesDue, queue
<1>13. ASSUME NEW a \in Archive, CompleteJob(a) \/ ExpireJob(a) PROVE RemovalInv'
  BY <1>2, <1>13 DEF CompleteJob, ExpireJob, queue
<1>14. CASE UNCHANGED vars
  BY <1>2, <1>14 DEF vars, queue
<1>. QED
  BY <1>3, <1>4, <1>5, <1>6, <1>7, <1>8, <1>9, <1>10, <1>11, <1>12, <1>13, <1>14
     DEF Next, Run, RestoreAnItem

THEOREM ServicesAreRemoved == Spec => []NothingLeftBehind
<1>1. Init => RemovalInv
  BY DEF Init, RemovalInv, NothingLeftBehind
<1>2. RemovalInv => NothingLeftBehind
  BY DEF RemovalInv
<1>. QED  BY <1>1, <1>2, TypeInvariant, NextRemoval, PTL DEF Spec

(***************************************************************************)
(* One job is started for an archive (requestBlobKey: requestedArchiveIds; *)
(* -run: each needed pack once, before the first round), and only for one  *)
(* that the restore needs.                                                 *)
(***************************************************************************)
IsNeeded(a) == \E p \in Restored : \E b \in BlobsOf(p) : ArchiveOf[b] = a

BeforePacks ==
  {"loading", "topic", "queue", "subscribing", "calculating", "findingPacks"}

JobInv ==
  /\ glacierRequestItems \in Seq([path : Restored, index : Nat])
  /\ \A a \in packsToRequest : IsNeeded(a) /\ started[a] = 0
  /\ pc \in BeforePacks => packsToRequest = {} /\ \A a \in Pack : started[a] = 0
  /\ \A a \in Archive \ Pack : started[a] > 0 => a \in requestedArchiveIds
  /\ OneJobPerArchive

LEMMA RestoredPaths == Restored \subseteq Path /\ (Restored = Path \/ \A p \in Restored : p \in File)
  BY BackupAssumption DEF Restored, Path

\* A request starts a job for the archives of its blobs that have none.
LEMMA RequestKeepsJobs ==
  ASSUME NEW p \in Restored, NEW blobs \in SUBSET BlobsOf(p), BlobsOf(p) \subseteq Blob,
         TypeInv, JobInv, Request(blobs)
  PROVE  /\ \A a \in Pack : started'[a] = started[a]
         /\ \A a \in Archive \ Pack : started'[a] > 0 => a \in requestedArchiveIds'
         /\ OneJobPerArchive'
<1>. DEFINE archives == {ArchiveOf[b] : b \in {b \in blobs : ~Packed(b)}}
            new == archives \ requestedArchiveIds
<1>1. \A a \in archives : a \in Archive \ Pack /\ IsNeeded(a)
  BY ArchiveAssumption DEF Packed, IsNeeded
<1>2. /\ started' = [a \in Archive |-> IF a \in new THEN started[a] + 1 ELSE started[a]]
      /\ requestedArchiveIds' = requestedArchiveIds \cup archives
  BY DEF Request, StartJobs
<1>3. \A a \in Archive : started[a] \in Nat
  BY DEF TypeInv, TypeVault
<1>4. \A a \in Archive : /\ started[a] <= 1
                         /\ started[a] = 1 => IsNeeded(a)
  BY DEF JobInv, OneJobPerArchive, IsNeeded
<1>5. \A a \in new : started[a] = 0
  BY <1>1, <1>3 DEF JobInv
<1>. HIDE DEF archives
<1>6. \A a \in Pack : started'[a] = started[a]
  BY <1>1, <1>2, ArchiveAssumption
<1>7. \A a \in Archive \ Pack : started'[a] > 0 => a \in requestedArchiveIds'
  BY <1>2, <1>3 DEF JobInv
<1>8. \A a \in Archive : started'[a] <= 1 /\ (started'[a] = 1 => IsNeeded(a))
  BY <1>1, <1>2, <1>3, <1>4, <1>5
<1>9. OneJobPerArchive'
  BY <1>8 DEF OneJobPerArchive, IsNeeded
<1>. QED  BY <1>6, <1>7, <1>9

\* The blobs that the first request item is about, and those that follow it.
LEMMA HeadRequest ==
  ASSUME TypeInv, JobInv, glacierRequestItems # <<>>
  PROVE  LET item == Head(glacierRequestItems) IN
         /\ item.path \in Restored
         /\ BlobsToRequest(item) \subseteq BlobsOf(item.path)
         /\ BlobsOf(item.path) \subseteq Blob
         /\ NextRequestItems(item) \o Tail(glacierRequestItems)
              \in Seq([path : Restored, index : Nat])
<1>. DEFINE item == Head(glacierRequestItems)
            R == [path : Restored, index : Nat]
<1>1. item \in R /\ Tail(glacierRequestItems) \in Seq(R)
  BY HeadTailProperties DEF JobInv
<1>2. item \in RequestItems
  BY <1>1, RestoredPaths DEF RequestItems
<1>3. BlobsToRequest(item) \subseteq BlobsOf(item.path) /\ BlobsOf(item.path) \subseteq Blob
  BY <1>2, BlobsToRequestOf
<1>4. NextRequestItems(item) \in Seq(R)
  <2>1. CASE Restored = Path
    BY <1>2, <2>1, NextRequestItemsOf DEF RequestItems
  <2>2. CASE \A p \in Restored : p \in File
    <3>1. NextRequestItems(item) \in Seq([path : {item.path}, index : Nat])
      BY <1>1, <1>2, <2>2, NextRequestItemsOf
    <3>2. [path : {item.path}, index : Nat] \subseteq R
      BY <1>1
    <3>. DEFINE one == [path : {item.path}, index : Nat]
                next == NextRequestItems(item)
    <3>3. next \in Seq(one) /\ one \subseteq R
      BY <3>1, <3>2
    <3>. HIDE DEF one, next, R
    <3>4. next \in Seq(R)
      BY <3>3, SeqMonotonic
    <3>. QED  BY <3>4 DEF next, R
  <2>. QED  BY <2>1, <2>2, RestoredPaths
<1>5. NextRequestItems(item) \o Tail(glacierRequestItems) \in Seq(R)
  BY <1>1, <1>4, ConcatProperties
<1>. QED  BY <1>1, <1>3, <1>5

LEMMA InitJob == Init => JobInv
<1>. SUFFICES ASSUME Init PROVE JobInv
  OBVIOUS
<1>1. Target \in Restored
  BY Targets DEF Restored
<1>2. RequestItem(Target, IF Target = Root THEN 1 ELSE 0) \in [path : Restored, index : Nat]
  BY <1>1 DEF RequestItem
<1>3. glacierRequestItems \in Seq([path : Restored, index : Nat])
  BY <1>2 DEF Init, FirstRequestItem
<1>. QED  BY <1>3, ArchiveAssumption DEF Init, JobInv, OneJobPerArchive

LEMMA NextJob == TypeInv /\ JobInv /\ [Next]_vars => JobInv'
<1>. SUFFICES ASSUME TypeInv, JobInv, [Next]_vars PROVE JobInv'
  OBVIOUS
\* Steps that request nothing.
<1>1. CASE /\ UNCHANGED <<started, glacierRequestItems, packsToRequest, requestedArchiveIds>>
           /\ pc' \in BeforePacks => pc \in BeforePacks
  BY <1>1 DEF JobInv, OneJobPerArchive, IsNeeded
<1>2. CASE FindNeededGlacierPacks
  <2>1. /\ packsToRequest' = NeededPacks /\ pc' = "requestingPacks"
        /\ UNCHANGED <<started, glacierRequestItems, requestedArchiveIds>>
    BY <1>2 DEF FindNeededGlacierPacks, vault
  <2>2. \A a \in NeededPacks : a \in Pack /\ IsNeeded(a)
    BY DEF NeededPacks, IsNeeded
  <2>3. \A a \in Pack : started[a] = 0
    BY <1>2 DEF FindNeededGlacierPacks, JobInv, BeforePacks
  <2>4. \A a \in packsToRequest' : IsNeeded(a)' /\ started'[a] = 0
    BY <2>1, <2>2, <2>3 DEF IsNeeded
  <2>5. pc' \notin BeforePacks
    BY <2>1 DEF BeforePacks
  <2>. QED  BY <2>1, <2>4, <2>5 DEF JobInv, OneJobPerArchive, IsNeeded
<1>3. ASSUME NEW a \in Pack, RequestPack(a) PROVE JobInv'
  <2>1. /\ pc = "requestingPacks" /\ pc' = pc /\ a \in packsToRequest
        /\ started' = [b \in Archive |-> IF b = a THEN started[b] + 1 ELSE started[b]]
        /\ packsToRequest' = packsToRequest \ {a}
        /\ UNCHANGED <<glacierRequestItems, requestedArchiveIds>>
    BY <1>3 DEF RequestPack, StartJobs
  <2>2. IsNeeded(a) /\ started[a] = 0
    BY <2>1 DEF JobInv
  <2>3. packsToRequest \subseteq Archive /\ a \in Archive
    BY ArchiveAssumption DEF TypeInv, TypeRequests
  <2>4. OneJobPerArchive'
    <3>1. \A b \in Archive : started'[b] <= 1 /\ (started'[b] = 1 => IsNeeded(b))
      BY <2>1, <2>2 DEF JobInv, OneJobPerArchive, IsNeeded
    <3>. QED  BY <3>1 DEF OneJobPerArchive, IsNeeded
  <2>5. \A b \in packsToRequest' : IsNeeded(b)' /\ started'[b] = 0
    BY <2>1, <2>3 DEF JobInv, IsNeeded
  <2>6. \A b \in Archive \ Pack : started'[b] > 0 => b \in requestedArchiveIds'
    BY <2>1 DEF JobInv
  <2>7. pc' \notin BeforePacks
    BY <2>1 DEF BeforePacks
  <2>. QED  BY <2>1, <2>4, <2>5, <2>6, <2>7 DEF JobInv
<1>4. ASSUME pc' \notin BeforePacks, glacierRequestItems # <<>>,
             NEW blobs \in SUBSET BlobsToRequest(Head(glacierRequestItems)), Request(blobs),
             packsToRequest' = packsToRequest,
             glacierRequestItems' \in Seq([path : Restored, index : Nat])
      PROVE  JobInv'
  <2>. DEFINE p == Head(glacierRequestItems).path
  <2>1. p \in Restored /\ blobs \in SUBSET BlobsOf(p) /\ BlobsOf(p) \subseteq Blob
    BY <1>4, HeadRequest
  <2>2. /\ \A a \in Pack : started'[a] = started[a]
        /\ \A a \in Archive \ Pack : started'[a] > 0 => a \in requestedArchiveIds'
        /\ OneJobPerArchive'
    BY <1>4, <2>1, RequestKeepsJobs
  <2>3. \A a \in packsToRequest' : IsNeeded(a)' /\ started'[a] = 0
    BY <1>4, <2>2 DEF JobInv, IsNeeded, TypeInv, TypeRequests
  <2>. QED  BY <1>4, <2>2, <2>3 DEF JobInv
<1>5. CASE RequestMoreGlacierItems
  <2>1. glacierRequestItems' \in Seq([path : Restored, index : Nat])
    BY <1>5, HeadRequest DEF RequestMoreGlacierItems
  <2>2. pc' \notin BeforePacks
    BY <1>5 DEF RequestMoreGlacierItems, BeforePacks
  <2>. QED  BY <1>4, <1>5, <2>1, <2>2 DEF RequestMoreGlacierItems
<1>6. CASE DidFail
  <2>1. pc' \notin BeforePacks
    BY <1>6 DEF DidFail, Conclude, BeforePacks
  <2>2. glacierRequestItems \in Seq([path : Restored, index : Nat])
    BY DEF JobInv
  <2>. QED  BY <1>1, <1>4, <1>6, <2>1, <2>2 DEF DidFail, vault, requests
<1>7. CASE SetUp
  BY <1>1, <1>7 DEF SetUp, Proceed, Create, Service, BeforePacks, vault, requests
<1>8. CASE PacksRequested \/ DownloadPack \/ WaitForPack
  BY <1>1, <1>8 DEF PacksRequested, DownloadPack, WaitForPack, BeforePacks, vault, requests
<1>9. CASE RestoreTree
  BY <1>1, <1>9 DEF RestoreTree, Finish, Conclude, BeforePacks, vault, requests
<1>10. CASE RestoreWhole \/ RestoreData \/ ApplyTree \/ FailItem \/ WaitForItem
  BY <1>1, <1>10 DEF RestoreWhole, RestoreData, ApplyTree, FailItem, WaitForItem, Finish,
     BeforePacks, vault, requests
<1>11. CASE ReadQueue
  BY <1>1, <1>11 DEF ReadQueue, ReceiveMessages, ReceiveNothing, SaveCompletedJob, DeleteMessage,
     FailMessage, Conclude, BeforePacks, vault, requests
<1>12. CASE BeginRound \/ RoundRequested \/ Sleep
  BY <1>1, <1>12 DEF BeginRound, RoundRequested, Sleep, AfterRequests, BeforePacks, vault, requests
<1>13. CASE DidSucceed \/ Abort \/ DeleteTopic \/ DeleteQueue
  BY <1>1, <1>13 DEF DidSucceed, Abort, DeleteTopic, DeleteQueue, Conclude, BeforePacks, vault, requests
<1>14. CASE RoundComesDue
  BY <1>1, <1>14 DEF RoundComesDue, vault
<1>15. ASSUME NEW a \in Archive, CompleteJob(a) \/ ExpireJob(a) \/ Reappear(a) PROVE JobInv'
  BY <1>1, <1>15 DEF CompleteJob, ExpireJob, Reappear, vault, requests
<1>16. CASE UNCHANGED vars
  BY <1>1, <1>16 DEF vars, vault, requests
<1>. QED
  BY <1>2, <1>3, <1>5, <1>6, <1>7, <1>8, <1>9, <1>10, <1>11, <1>12, <1>13, <1>14, <1>15, <1>16
     DEF Next, Run, FetchPacks, RestoreAnItem

THEOREM NoArchiveIsRequestedTwice == Spec => []OneJobPerArchive
<1>1. JobInv => OneJobPerArchive
  BY DEF JobInv
<1>. QED  BY <1>1, InitJob, TypeInvariant, NextJob, PTL DEF Spec

(***************************************************************************)
(* Packed blobs are available without a look (isObjectAvailableForBlobKey) *)
(* because every needed pack is on disk before the first item is restored: *)
(* it is on disk or still to be downloaded from the moment the packs were  *)
(* found.                                                                  *)
(***************************************************************************)
Ending == {"deletingTopic", "deletingQueue", "done"}
OfRestored == {i \in RestoreItem : i.path \in Restored}

PackInv ==
  /\ restoreItems \in Seq(OfRestored)
  /\ pc \notin BeforePacks \cup Ending =>
       NeededPacks \subseteq cachedPacks \cup ToSet(glacierPacksToDownload)

\* A sequence that lists a set has every element of it.
LEMMA SeqsOfSetAll ==
  ASSUME NEW S, IsFiniteSet(S), NEW s \in SetToSeqs(S)
  PROVE  ToSet(s) = S
<1>. DEFINE D == 1..Cardinality(S)
<1>1. Cardinality(S) \in Nat
  BY FS_CardinalityType
<1>2. IsFiniteSet(D) /\ Cardinality(D) = Cardinality(S)
  BY <1>1, FS_Interval
<1>3. s \in [D -> S] /\ \A i, j \in D : i # j => s[i] # s[j]
  BY DEF SetToSeqs
<1>4. s \in Injection(D, S)
  BY <1>3 DEF Injection, IsInjective
<1>5. s \in Surjection(D, S)
  BY <1>2, <1>4, FS_Injection
<1>. QED  BY <1>3, <1>5 DEF Surjection, ToSet

LEMMA PackInvImpliesCached == TypeInv /\ PackInv => PackedIsCached
<1>. SUFFICES ASSUME TypeInv, PackInv, At(Current.action), NEW i \in DOMAIN restoreItems,
                     NEW b \in BlobsOf(restoreItems[i].path), ArchiveOf[b] \in Pack
              PROVE  ArchiveOf[b] \in cachedPacks
  BY DEF PackedIsCached
<1>1. pc = "restoring" /\ glacierPacksToDownload = <<>>
  BY DEF At
<1>2. NeededPacks \subseteq cachedPacks
  <2>1. ToSet(<<>>) = {}
    BY DEF ToSet
  <2>. QED  BY <1>1, <2>1 DEF PackInv, BeforePacks, Ending
<1>3. restoreItems[i].path \in Restored
  <2>1. i \in 1..Len(restoreItems)
    BY LenProperties DEF PackInv
  <2>. QED  BY <2>1, ElementOfSeq DEF PackInv, OfRestored
<1>4. ArchiveOf[b] \in NeededPacks
  BY <1>3 DEF NeededPacks
<1>. QED  BY <1>2, <1>4

\* Whatever follows an item is about paths that are restored.
LEMMA FinishKeepsRestored ==
  ASSUME PackInv, NEW action, At(action), NEW next \in Seq(OfRestored), Finish(next)
  PROVE  PackInv'
<1>1. Tail(restoreItems) \in Seq(OfRestored)
  BY HeadTailProperties DEF PackInv, At
<1>2. restoreItems' = next \o Tail(restoreItems)
  BY DEF Finish
<1>3. restoreItems' \in Seq(OfRestored)
  BY <1>1, <1>2, ConcatProperties
<1>4. pc = "restoring" /\ UNCHANGED packs
  BY DEF At, Finish
<1>. QED  BY <1>3, <1>4 DEF PackInv, packs, OfRestored, BeforePacks, Ending

LEMMA InitPack == Init => PackInv
<1>. SUFFICES ASSUME Init PROVE PackInv
  OBVIOUS
<1>1. FirstItem \in OfRestored
  BY Targets DEF FirstItem, ItemFor, TreeItem, NodeItem, RestoreItem, Item, OfRestored, Restored, Path
<1>2. restoreItems \in Seq(OfRestored)
  BY <1>1 DEF Init
<1>. QED  BY <1>2 DEF Init, PackInv, BeforePacks

LEMMA NextPack == TypeInv /\ PackInv /\ [Next]_vars => PackInv'
<1>. SUFFICES ASSUME TypeInv, PackInv, [Next]_vars PROVE PackInv'
  OBVIOUS
\* Steps that leave packs and items alone.
<1>1. CASE /\ UNCHANGED <<restoreItems, packs>>
           /\ pc' \notin BeforePacks \cup Ending => pc \notin BeforePacks \cup Ending
  BY <1>1 DEF PackInv, packs, OfRestored
<1>2. CASE FindNeededGlacierPacks
  <2>1. IsFiniteSet(NeededPacks)
    <3>1. NeededPacks \subseteq Archive
      BY ArchiveAssumption DEF NeededPacks
    <3>. QED  BY <3>1, ArchiveAssumption, FS_Subset
  <2>2. ToSet(glacierPacksToDownload') = NeededPacks
    BY <1>2, <2>1, SeqsOfSetAll DEF FindNeededGlacierPacks
  <2>3. restoreItems' = restoreItems
    BY <1>2 DEF FindNeededGlacierPacks, restores
  <2>. QED  BY <2>2, <2>3 DEF PackInv, OfRestored
<1>3. CASE DownloadPack
  <2>. DEFINE a == Head(glacierPacksToDownload)
  <2>1. /\ pc = "restoring" /\ glacierPacksToDownload # <<>>
        /\ cachedPacks' = cachedPacks \cup {a}
        /\ glacierPacksToDownload' = Tail(glacierPacksToDownload)
        /\ restoreItems' = restoreItems
    BY <1>3 DEF DownloadPack, restores
  <2>2. ToSet(glacierPacksToDownload) \subseteq {a} \cup ToSet(Tail(glacierPacksToDownload))
    <3>. DEFINE s == glacierPacksToDownload
    <3>1. s \in Seq(Pack) /\ s # <<>>
      BY <2>1 DEF TypeInv, TypePacks
    <3>2. Len(s) \in Nat /\ DOMAIN s = 1..Len(s) /\ a = s[1]
      BY <3>1, LenProperties
    <3>3. /\ Tail(s) \in Seq(Pack) /\ Len(Tail(s)) = Len(s) - 1
          /\ \A i \in 1..Len(Tail(s)) : Tail(s)[i] = s[i + 1]
      BY <3>1, HeadTailProperties
    <3>4. DOMAIN Tail(s) = 1..(Len(s) - 1)
      BY <3>3, LenProperties
    <3>5. ASSUME NEW i \in 1..Len(s), i # 1 PROVE s[i] \in ToSet(Tail(s))
      <4>1. i - 1 \in DOMAIN Tail(s) /\ Tail(s)[i - 1] = s[i]
        BY <3>2, <3>3, <3>4, <3>5
      <4>. QED  BY <4>1 DEF ToSet
    <3>. QED  BY <3>2, <3>5 DEF ToSet
  <2>3. NeededPacks \subseteq cachedPacks \cup ToSet(glacierPacksToDownload)
    BY <2>1 DEF PackInv, BeforePacks, Ending
  <2>4. NeededPacks \subseteq cachedPacks' \cup ToSet(glacierPacksToDownload')
    BY <2>1, <2>2, <2>3
  <2>. QED  BY <2>1, <2>4 DEF PackInv, OfRestored
<1>4. CASE RestoreTree
  <2>. DEFINE d == Current.path
  <2>1. At("tree") /\ d \in Dir /\ Current \in RestoreItem /\ restoreItems # <<>> /\ pc = "restoring"
    BY <1>4, CurrentItem DEF RestoreTree, At
  <2>2. CASE Finish(NextItems(d))
    <3>1. Restored = Path
      <4>1. d \in Restored
        BY <2>1, HeadTailProperties DEF PackInv, Current, OfRestored
      <4>. QED  BY <2>1, <4>1, RestoredPaths, BackupAssumption
    <3>2. NextItems(d) \in Seq(OfRestored)
      <4>1. NextItems(d) \in Seq(GoodItem)
        BY <2>1, NextItemsOf
      <4>2. GoodItem \subseteq OfRestored
        BY <3>1 DEF GoodItem, OfRestored, RestoreItem, Item, Path
      <4>. HIDE DEF OfRestored, d
      <4>. QED  BY <4>1, <4>2, SeqMonotonic
    <3>. QED  BY <2>1, <2>2, <3>2, FinishKeepsRestored
  <2>3. CASE Conclude("failed") /\ UNCHANGED <<restoreItems, packs>>
    BY <1>1, <2>3 DEF Conclude, Ending
  <2>. QED  BY <1>4, <2>2, <2>3 DEF RestoreTree
<1>5. ASSUME NEW action, At(action), Finish(<<>>) PROVE PackInv'
  <2>1. <<>> \in Seq(OfRestored)
    OBVIOUS
  <2>. QED  BY <1>5, <2>1, FinishKeepsRestored
<1>6. ASSUME NEW action, At(action), NEW i, Finish(<<DataItem(Current.path, i)>>),
             DataItem(Current.path, i) \in RestoreItem
      PROVE  PackInv'
  <2>1. Current.path \in Restored /\ restoreItems # <<>>
    BY <1>6, HeadTailProperties DEF PackInv, Current, OfRestored, At
  <2>2. <<DataItem(Current.path, i)>> \in Seq(OfRestored)
    BY <1>6, <2>1 DEF OfRestored, DataItem
  <2>. QED  BY <1>6, <2>1, <2>2, FinishKeepsRestored
<1>7. CASE RestoreWhole \/ ApplyTree
  BY <1>5, <1>7 DEF RestoreWhole, ApplyTree
<1>8. CASE RestoreData
  <2>1. PICK action \in {"data", "node"} : At(action)
    BY <1>8 DEF RestoreData
  <2>2. DataItem(Current.path, Index + 1) \in RestoreItem
    <3>1. Current.path \in File /\ Index \in Nat
      BY <2>1, CurrentItem DEF Index
    <3>. QED  BY <3>1 DEF DataItem, RestoreItem
  <2>. QED  BY <1>5, <1>6, <1>8, <2>1, <2>2 DEF RestoreData
<1>9. CASE FailItem
  <2>1. PICK action \in {"data", "node", "apply"} : At(action)
    BY <1>9 DEF FailItem
  <2>2. CASE Finish(<<>>)
    BY <1>5, <2>1, <2>2
  <2>3. CASE At("node") /\ Finish(<<DataItem(Current.path, 0)>>)
    <3>1. DataItem(Current.path, 0) \in RestoreItem
      BY <2>3, CurrentItem DEF DataItem, RestoreItem
    <3>. QED  BY <1>6, <2>3, <3>1
  <2>. QED  BY <1>9, <2>2, <2>3 DEF FailItem
<1>10. CASE SetUp
  BY <1>1, <1>10 DEF SetUp, Proceed, Create, Service, BeforePacks, restores
<1>11. ASSUME NEW a \in Pack, RequestPack(a) PROVE PackInv'
  BY <1>1, <1>11 DEF RequestPack, restores
<1>12. CASE PacksRequested \/ WaitForPack \/ WaitForItem
  BY <1>1, <1>12 DEF PacksRequested, WaitForPack, WaitForItem, At, BeforePacks, Ending, restores
<1>13. CASE ReadQueue
  BY <1>1, <1>13 DEF ReadQueue, ReceiveMessages, ReceiveNothing, SaveCompletedJob, DeleteMessage,
     FailMessage, Conclude, BeforePacks, Ending, restores
<1>14. CASE BeginRound \/ RequestMoreGlacierItems \/ RoundRequested \/ Sleep
  BY <1>1, <1>14 DEF BeginRound, RequestMoreGlacierItems, RoundRequested, Sleep, AfterRequests,
     BeforePacks, Ending, restores
<1>15. CASE DidSucceed \/ DidFail \/ Abort \/ DeleteTopic \/ DeleteQueue
  BY <1>1, <1>15 DEF DidSucceed, DidFail, Abort, DeleteTopic, DeleteQueue, Conclude, Ending, restores
<1>16. CASE RoundComesDue
  BY <1>1, <1>16 DEF RoundComesDue, restores
<1>17. ASSUME NEW a \in Archive, CompleteJob(a) \/ ExpireJob(a) \/ Reappear(a) PROVE PackInv'
  BY <1>1, <1>17 DEF CompleteJob, ExpireJob, Reappear, restores
<1>18. CASE UNCHANGED vars
  BY <1>1, <1>18 DEF vars, restores
<1>. QED
  BY <1>2, <1>3, <1>4, <1>7, <1>8, <1>9, <1>10, <1>11, <1>12, <1>13, <1>14, <1>15, <1>16, <1>17, <1>18
     DEF Next, Run, FetchPacks, RestoreAnItem

THEOREM PacksComeFirst == Spec => []PackedIsCached
  BY InitPack, TypeInvariant, NextPack, PackInvImpliesCached, PTL DEF Spec

(***************************************************************************)
(* The restorer sleeps only for archives that have a job (-run:,           *)
(* requestMoreGlacierItems, requestBlobKey): from the first state on every *)
(* blob that is needed is packed, or has a job for its archive, or belongs *)
(* to a request item that is left, and every pack to download has a job or *)
(* is among the packs to request.  No archive's job is ever taken back, so *)
(* the theorem needs no assumption about jobs that expire.                 *)
(***************************************************************************)
Rounds == {"round", "requesting", "readingQueue", "processing", "deletingMessage",
           "restoring", "sleeping"}

BlobsAsked ==
  \A p \in Restored : \A b \in BlobsOf(p) :
    Packed(b) \/ started[ArchiveOf[b]] > 0 \/ Asked(glacierRequestItems, b)
PacksAsked ==
  \A k \in 1..Len(glacierPacksToDownload) :
    \/ started[glacierPacksToDownload[k]] > 0
    \/ glacierPacksToDownload[k] \in packsToRequest

AskInv ==
  /\ BlobsAsked /\ PacksAsked
  /\ \A a \in requestedArchiveIds : started[a] > 0
  /\ pc \in Rounds => packsToRequest = {}
  /\ pc = "sleeping" => glacierPacksToDownload # <<>> \/ restoreItems # <<>>

\* The blobs an item waits for are blobs of its path.
LEMMA NeededOfPath ==
  ASSUME NEW i \in GoodItem
  PROVE  Needed(i) \subseteq BlobsOf(i.path)
<1>. DEFINE p == i.path
<1>1. CASE i.action \in {"node", "data"}
  <2>1. p \in File
    BY <1>1, CoversOf
  <2>2. InData(p) \subseteq BlobsOf(p) /\ AttrBlobs(p) \subseteq BlobsOf(p)
    BY <2>1 DEF BlobsOf
  <2>3. {Data[p][k] : k \in DOMAIN Data[p] \cap {1}} \subseteq InData(p)
    BY DEF InData
  <2>4. CASE i.action = "node"
    <3>1. Needed(i) = AttrBlobs(p) \cup (IF p \in Symlink THEN InData(p)
                                         ELSE {Data[p][k] : k \in DOMAIN Data[p] \cap {1}})
      BY <2>4 DEF Needed
    <3>. QED  BY <2>2, <2>3, <3>1
  <2>5. CASE i.action = "data"
    <3>1. i.index + 1 \in DOMAIN Data[p]
      BY <2>1, <2>5, CoversOf, BlobsOfData
    <3>2. Data[p][i.index + 1] \in InData(p)
      BY <3>1 DEF InData
    <3>3. Needed(i) = {Data[p][i.index + 1]}
      BY <2>5 DEF Needed
    <3>. QED  BY <2>2, <3>2, <3>3
  <2>. QED  BY <1>1, <2>4, <2>5
<1>2. CASE i.action = "apply"
  BY <1>2 DEF Needed, BlobsOf
<1>3. CASE i.action = "tree"
  BY <1>3 DEF Needed
<1>. QED  BY <1>1, <1>2, <1>3, CoversOf

LEMMA AskInvImpliesWaits == TypeInv /\ PackInv /\ AskInv => WaitsForRequested
<1>. SUFFICES ASSUME TypeInv, PackInv, AskInv, pc = "sleeping", glacierRequestItems = <<>>
              PROVE  /\ \A k \in DOMAIN glacierPacksToDownload :
                          started[glacierPacksToDownload[k]] > 0
                     /\ glacierPacksToDownload = <<>> =>
                          \A b \in Needed(Current) : Packed(b) \/ started[ArchiveOf[b]] > 0
  BY DEF WaitsForRequested
<1>1. packsToRequest = {}
  BY DEF AskInv, Rounds
<1>2. DOMAIN glacierPacksToDownload = 1..Len(glacierPacksToDownload)
  BY LenProperties DEF TypeInv, TypePacks
<1>3. \A k \in DOMAIN glacierPacksToDownload : started[glacierPacksToDownload[k]] > 0
  BY <1>1, <1>2 DEF AskInv, PacksAsked
<1>4. ASSUME glacierPacksToDownload = <<>>, NEW b \in Needed(Current)
      PROVE  Packed(b) \/ started[ArchiveOf[b]] > 0
  <2>1. restoreItems # <<>>
    BY <1>4 DEF AskInv
  <2>2. Current \in GoodItem /\ Current.path \in Restored
    BY <2>1, HeadTailProperties DEF TypeInv, IndexInRange, PackInv, OfRestored, Current
  <2>3. b \in BlobsOf(Current.path)
    BY <1>4, <2>2, NeededOfPath
  <2>4. ~Asked(<<>>, b)
    BY DEF Asked
  <2>. QED  BY <2>2, <2>3, <2>4 DEF AskInv, BlobsAsked
<1>. QED  BY <1>3, <1>4

\* Once requested, the archives of some blobs have a job.
LEMMA RequestStarts ==
  ASSUME NEW blobs \in SUBSET Blob, TypeInv, AskInv, Request(blobs)
  PROVE  /\ \A a \in Archive : started'[a] >= started[a]
         /\ \A a \in requestedArchiveIds' : started'[a] > 0
         /\ \A b \in blobs : Packed(b) \/ started'[ArchiveOf[b]] > 0
<1>. DEFINE archives == {ArchiveOf[b] : b \in {b \in blobs : ~Packed(b)}}
            new == archives \ requestedArchiveIds
<1>1. archives \subseteq Archive
  BY ArchiveAssumption DEF Packed
<1>2. /\ started' = [a \in Archive |-> IF a \in new THEN started[a] + 1 ELSE started[a]]
      /\ requestedArchiveIds' = requestedArchiveIds \cup archives
  BY DEF Request, StartJobs
<1>3. /\ \A a \in Archive : started[a] \in Nat
      /\ requestedArchiveIds \subseteq Archive
  BY DEF TypeInv, TypeVault, TypeRequests
<1>4. \A b \in blobs : Packed(b) \/ ArchiveOf[b] \in archives
  OBVIOUS
<1>5. \A a \in requestedArchiveIds : started[a] > 0
  BY DEF AskInv
<1>. HIDE DEF archives
<1>6. \A a \in Archive : started'[a] >= started[a]
  BY <1>2, <1>3
<1>7. \A a \in requestedArchiveIds' : started'[a] > 0
  BY <1>1, <1>2, <1>3, <1>5
<1>. QED  BY <1>2, <1>4, <1>6, <1>7

\* The archive of a blob that is not packed, and a pack, are archives.
LEMMA ArchivesOf ==
  /\ \A p \in Restored : \A b \in BlobsOf(p) : Packed(b) \/ ArchiveOf[b] \in Archive
  /\ Pack \subseteq Archive
<1>1. \A p \in Restored : BlobsOf(p) \subseteq Blob
  <2>. SUFFICES ASSUME NEW p \in Restored PROVE BlobsOf(p) \subseteq Blob
    OBVIOUS
  <2>1. p \in Path
    BY RestoredPaths
  <2>. QED  BY <2>1, AttrBlobsOf, BlobsOfData DEF BlobsOf
<1>. QED  BY <1>1, ArchiveAssumption DEF Packed

LEMMA InitAsk == Init => AskInv
<1>. SUFFICES ASSUME Init PROVE AskInv
  OBVIOUS
<1>1. glacierRequestItems = <<FirstRequestItem>>
  BY DEF Init
<1>2. 1 \in 1..Len(glacierRequestItems) /\ glacierRequestItems[1] = FirstRequestItem
  BY <1>1
<1>3. BlobsAsked
  BY <1>2, AsksForRestored DEF BlobsAsked, Asked
<1>4. PacksAsked
  BY DEF Init, PacksAsked
<1>. QED  BY <1>3, <1>4 DEF Init, AskInv, Rounds

LEMMA NextAsk == TypeInv /\ AskInv /\ [Next]_vars => AskInv'
<1>. SUFFICES ASSUME TypeInv, AskInv, [Next]_vars PROVE AskInv'
  OBVIOUS
<1>. USE DEF TypeInv
\* Steps that request nothing.
<1>1. ASSUME UNCHANGED <<started, glacierRequestItems, packsToRequest, requestedArchiveIds,
                         glacierPacksToDownload>>,
             pc' \in Rounds => pc \in Rounds,
             pc' = "sleeping" => glacierPacksToDownload' # <<>> \/ restoreItems' # <<>>
      PROVE  AskInv'
  BY <1>1 DEF AskInv, BlobsAsked, PacksAsked, Packed
<1>2. CASE FindNeededGlacierPacks
  <2>1. /\ packsToRequest' = NeededPacks
        /\ UNCHANGED <<started, glacierRequestItems, requestedArchiveIds>>
        /\ pc' = "requestingPacks"
    BY <1>2 DEF FindNeededGlacierPacks, vault
  <2>2. IsFiniteSet(NeededPacks)
    <3>1. NeededPacks \subseteq Archive
      BY ArchiveAssumption DEF NeededPacks
    <3>. QED  BY <3>1, ArchiveAssumption, FS_Subset
  <2>3. glacierPacksToDownload' \in Seq(NeededPacks)
    BY <1>2, <2>2, SeqsOfSet DEF FindNeededGlacierPacks
  <2>4. \A k \in 1..Len(glacierPacksToDownload') : glacierPacksToDownload'[k] \in NeededPacks
    BY <2>3, ElementOfSeq
  <2>5. PacksAsked'
    BY <2>1, <2>4 DEF PacksAsked
  <2>6. BlobsAsked'
    BY <2>1 DEF AskInv, BlobsAsked, Packed
  <2>. QED  BY <2>1, <2>5, <2>6 DEF AskInv, Rounds
<1>3. ASSUME NEW a \in Pack, RequestPack(a) PROVE AskInv'
  <2>1. /\ pc' = pc /\ pc = "requestingPacks"
        /\ started' = [b \in Archive |-> IF b = a THEN started[b] + 1 ELSE started[b]]
        /\ packsToRequest' = packsToRequest \ {a}
        /\ UNCHANGED <<glacierRequestItems, requestedArchiveIds, glacierPacksToDownload>>
    BY <1>3 DEF RequestPack, StartJobs, packs
  <2>2. \A b \in Archive : started[b] \in Nat
    BY DEF TypeVault
  <2>3. a \in Archive /\ started'[a] > 0 /\ \A b \in Archive : started'[b] >= started[b]
    BY <2>1, <2>2, ArchivesOf
  <2>4. BlobsAsked'
    <3>. SUFFICES ASSUME NEW p \in Restored, NEW b \in BlobsOf(p), ~Packed(b)
                  PROVE  started'[ArchiveOf[b]] > 0 \/ Asked(glacierRequestItems', b)
      BY DEF BlobsAsked, Packed
    <3>1. ArchiveOf[b] \in Archive
      BY ArchivesOf
    <3>2. started[ArchiveOf[b]] > 0 \/ Asked(glacierRequestItems, b)
      BY DEF AskInv, BlobsAsked
    <3>3. started'[ArchiveOf[b]] \in Nat /\ started[ArchiveOf[b]] \in Nat
      BY <2>1, <2>2, <3>1
    <3>. QED  BY <2>1, <2>3, <3>1, <3>2, <3>3
  <2>5. PacksAsked'
    <3>. SUFFICES ASSUME NEW k \in 1..Len(glacierPacksToDownload)
                  PROVE  \/ started'[glacierPacksToDownload[k]] > 0
                         \/ glacierPacksToDownload[k] \in packsToRequest'
      BY <2>1 DEF PacksAsked
    <3>. DEFINE b == glacierPacksToDownload[k]
    <3>1. b \in Archive
      BY ElementOfSeq, ArchivesOf DEF TypePacks
    <3>2. started[b] > 0 \/ b \in packsToRequest
      BY DEF AskInv, PacksAsked
    <3>3. started'[b] \in Nat /\ started[b] \in Nat /\ started'[b] >= started[b]
      BY <2>1, <2>2, <2>3, <3>1
    <3>. QED  BY <2>1, <2>3, <3>2, <3>3
  <2>6. \A b \in requestedArchiveIds' : started'[b] > 0
    <3>1. requestedArchiveIds' = requestedArchiveIds /\ requestedArchiveIds \subseteq Archive
      BY <2>1 DEF TypeRequests
    <3>2. \A b \in requestedArchiveIds : started[b] > 0
      BY DEF AskInv
    <3>. QED  BY <2>1, <2>2, <3>1, <3>2
  <2>. QED  BY <2>1, <2>4, <2>5, <2>6 DEF AskInv, Rounds
<1>4. ASSUME NEW blobs \in SUBSET Blob, Request(blobs),
             UNCHANGED <<packsToRequest, glacierPacksToDownload>>,
             pc' \in Rounds => pc \in Rounds, pc' # "sleeping",
             \A b : Asked(glacierRequestItems, b) => b \in blobs \/ Asked(glacierRequestItems', b)
      PROVE  AskInv'
  <2>1. /\ \A a \in Archive : started'[a] >= started[a]
        /\ \A a \in requestedArchiveIds' : started'[a] > 0
        /\ \A b \in blobs : Packed(b) \/ started'[ArchiveOf[b]] > 0
    BY <1>4, RequestStarts
  <2>2. \A a \in Archive : started[a] \in Nat /\ started'[a] \in Nat
    BY <1>4 DEF Request, StartJobs, TypeVault
  <2>3. BlobsAsked'
    <3>. SUFFICES ASSUME NEW p \in Restored, NEW b \in BlobsOf(p), ~Packed(b)
                  PROVE  started'[ArchiveOf[b]] > 0 \/ Asked(glacierRequestItems', b)
      BY DEF BlobsAsked, Packed
    <3>1. ArchiveOf[b] \in Archive
      BY ArchivesOf
    <3>2. started[ArchiveOf[b]] > 0 \/ Asked(glacierRequestItems, b)
      BY DEF AskInv, BlobsAsked
    <3>. QED  BY <1>4, <2>1, <2>2, <3>1, <3>2
  <2>4. PacksAsked'
    <3>. SUFFICES ASSUME NEW k \in 1..Len(glacierPacksToDownload)
                  PROVE  \/ started'[glacierPacksToDownload[k]] > 0
                         \/ glacierPacksToDownload[k] \in packsToRequest'
      BY <1>4 DEF PacksAsked
    <3>1. glacierPacksToDownload[k] \in Archive
      BY ElementOfSeq, ArchivesOf DEF TypePacks
    <3>2. \/ started[glacierPacksToDownload[k]] > 0
          \/ glacierPacksToDownload[k] \in packsToRequest
      BY DEF AskInv, PacksAsked
    <3>. QED  BY <1>4, <2>1, <2>2, <3>1, <3>2
  <2>. QED  BY <1>4, <2>1, <2>3, <2>4 DEF AskInv
<1>5. CASE RequestMoreGlacierItems
  <2>. DEFINE s == glacierRequestItems
  <2>1. s \in Seq(RequestItems) /\ s # <<>>
    BY <1>5 DEF RequestMoreGlacierItems, TypeRequests
  <2>2. BlobsToRequest(Head(s)) \in SUBSET Blob
    BY <2>1, HeadTailProperties, BlobsToRequestOf
  <2>3. /\ Request(BlobsToRequest(Head(s)))
        /\ glacierRequestItems' = NextRequestItems(Head(s)) \o Tail(s)
        /\ UNCHANGED <<packsToRequest, glacierPacksToDownload>>
        /\ pc' = pc /\ pc = "requesting"
    BY <1>5 DEF RequestMoreGlacierItems, packs
  <2>4. \A b : Asked(s, b) => b \in BlobsToRequest(Head(s)) \/ Asked(glacierRequestItems', b)
    BY <2>1, <2>3, AskedAfter
  <2>. QED  BY <1>4, <2>2, <2>3, <2>4
<1>6. CASE DidFail
  <2>1. /\ pc' = "deletingTopic" /\ UNCHANGED packs /\ UNCHANGED restores
    BY <1>6 DEF DidFail, Conclude
  <2>2. CASE UNCHANGED <<vault, requests>>
    BY <1>1, <2>1, <2>2 DEF vault, requests, packs, restores, Rounds
  <2>3. CASE /\ glacierRequestItems # <<>>
             /\ \E some \in SUBSET BlobsToRequest(Head(glacierRequestItems)) : Request(some)
             /\ UNCHANGED <<glacierRequestItems, packsToRequest, roundIsDue>>
    <3>1. Head(glacierRequestItems) \in RequestItems
      BY <2>3, HeadTailProperties DEF TypeRequests
    <3>2. PICK some \in SUBSET BlobsToRequest(Head(glacierRequestItems)) : Request(some)
      BY <2>3
    <3>3. some \in SUBSET Blob
      BY <3>1, <3>2, BlobsToRequestOf
    <3>. QED  BY <1>4, <2>1, <2>3, <3>2, <3>3 DEF packs, Rounds
  <2>. QED  BY <1>6, <2>2, <2>3 DEF DidFail
<1>7. CASE SetUp
  BY <1>1, <1>7 DEF SetUp, Proceed, Create, Service, Rounds, vault, requests, packs
<1>8. CASE PacksRequested
  <2>1. /\ packsToRequest = {} /\ pc' = "round"
        /\ UNCHANGED <<started, glacierRequestItems, packsToRequest, requestedArchiveIds,
                       glacierPacksToDownload>>
    BY <1>8 DEF PacksRequested, vault, requests, packs
  <2>. QED  BY <2>1 DEF AskInv, BlobsAsked, PacksAsked, Packed
<1>9. CASE DownloadPack
  <2>. DEFINE s == glacierPacksToDownload
  <2>1. /\ pc = "restoring" /\ s # <<>> /\ pc' = "round"
        /\ glacierPacksToDownload' = Tail(s)
        /\ UNCHANGED <<started, glacierRequestItems, packsToRequest, requestedArchiveIds>>
    BY <1>9 DEF DownloadPack, vault, requests
  <2>2. s \in Seq(Pack)
    BY DEF TypePacks
  <2>3. \A k \in 1..Len(Tail(s)) : k + 1 \in 1..Len(s) /\ Tail(s)[k] = s[k + 1]
    BY <2>1, <2>2, HeadTailProperties, LenProperties
  <2>4. PacksAsked'
    <3>. SUFFICES ASSUME NEW k \in 1..Len(Tail(s))
                  PROVE  started[Tail(s)[k]] > 0 \/ Tail(s)[k] \in packsToRequest
      BY <2>1 DEF PacksAsked
    <3>. QED  BY <2>3 DEF AskInv, PacksAsked
  <2>5. BlobsAsked'
    BY <2>1 DEF AskInv, BlobsAsked, Packed
  <2>. QED  BY <2>1, <2>4, <2>5 DEF AskInv, Rounds
<1>10. CASE WaitForPack \/ WaitForItem
  BY <1>1, <1>10 DEF WaitForPack, WaitForItem, At, Rounds, vault, requests, packs, restores
<1>11. CASE RestoreTree
  BY <1>1, <1>11 DEF RestoreTree, At, Finish, Conclude, Rounds, vault, requests, packs
<1>12. CASE RestoreWhole \/ RestoreData \/ ApplyTree \/ FailItem
  BY <1>1, <1>12 DEF RestoreWhole, RestoreData, ApplyTree, FailItem, At, Finish, Rounds,
     vault, requests, packs
<1>13. CASE ReadQueue
  BY <1>1, <1>13 DEF ReadQueue, ReceiveMessages, ReceiveNothing, SaveCompletedJob, DeleteMessage,
     FailMessage, Conclude, Rounds, vault, requests, packs
<1>14. CASE BeginRound \/ RoundRequested \/ Sleep
  BY <1>1, <1>14 DEF BeginRound, RoundRequested, Sleep, AfterRequests, Rounds, vault, requests, packs
<1>15. CASE DidSucceed \/ Abort \/ DeleteTopic \/ DeleteQueue
  BY <1>1, <1>15 DEF DidSucceed, Abort, DeleteTopic, DeleteQueue, Conclude, Rounds,
     vault, requests, packs
<1>16. CASE RoundComesDue
  BY <1>1, <1>16 DEF RoundComesDue, AskInv, vault, packs, restores
<1>17. ASSUME NEW a \in Archive, CompleteJob(a) \/ ExpireJob(a) \/ Reappear(a) PROVE AskInv'
  BY <1>1, <1>17 DEF CompleteJob, ExpireJob, Reappear, AskInv, vault, requests, packs, restores
<1>18. CASE UNCHANGED vars
  BY <1>1, <1>18 DEF AskInv, vars, vault, requests, packs, restores
<1>. QED
  BY <1>2, <1>3, <1>5, <1>6, <1>7, <1>8, <1>9, <1>10, <1>11, <1>12, <1>13, <1>14, <1>15, <1>16,
     <1>17, <1>18
     DEF Next, Run, FetchPacks, RestoreAnItem

\* The restore never sleeps for an archive for which no job was started.
THEOREM SleepsOnlyForJobs == Spec => []WaitsForRequested
  BY InitAsk, InitPack, TypeInvariant, NextAsk, NextPack, AskInvImpliesWaits, PTL DEF Spec

(***************************************************************************)
(* Success means that every path was restored or reported (-restoreItems,  *)
(* RestoreItem): every path is settled or some item stands for it, and the *)
(* restore succeeds when no item is left.  A file is restored when its     *)
(* content is its data, and for that the item at work must know how much   *)
(* of the file is there: Written.                                          *)
(***************************************************************************)
Written(s, c) ==
  \A k \in 1..Len(s) : \A f \in Covers(s[k]) \cap File :
    c[f] = IF s[k].action = "data" THEN SubSeq(Data[f], 1, s[k].index) ELSE <<>>

Settled(p) ==
  \/ p \in reported
  \/ p \in applied
  \/ p \in File /\ content[p] = Data[p]

AllSettled == \A p \in Restored : Settled(p) \/ Pending(restoreItems, p)

SettleInv ==
  /\ InOrder(restoreItems)
  /\ Written(restoreItems, content)
  /\ AllSettled
  /\ outcome = "succeeded" => restoreItems = <<>>

LEMMA SettleInvImpliesSettled == SettleInv => SuccessIsSettled
<1>1. \A p : ~Pending(<<>>, p)
  BY DEF Pending
<1>. QED  BY <1>1 DEF SettleInv, AllSettled, Settled, SuccessIsSettled

\* What the item at work writes is of no concern to the items that wait.
LEMMA WrittenAfter ==
  ASSUME NEW s, InOrder(s), s # <<>>, NEW next, Follows(next, Head(s)),
         NEW c, Written(s, c), NEW d, Written(next, d),
         \A f \in File \ Covers(Head(s)) : d[f] = c[f]
  PROVE  Written(next \o Tail(s), d)
<1>. DEFINE t == next \o Tail(s)
<1>1. /\ Head(s) = s[1] /\ 1 \in 1..Len(s) /\ Len(s) \in Nat
  BY LenProperties, EmptySeq, HeadTailProperties DEF InOrder
<1>2. \A k \in 1..Len(t) :
        \/ k \in 1..Len(next) /\ t[k] = next[k]
        \/ \E j \in 2..Len(s) : t[k] = s[j]
  BY OrderAfter
<1>. HIDE DEF t
<1>. SUFFICES ASSUME NEW k \in 1..Len(t), NEW f \in Covers(t[k]) \cap File
              PROVE  d[f] = IF t[k].action = "data" THEN SubSeq(Data[f], 1, t[k].index) ELSE <<>>
  BY DEF Written, t
<1>3. CASE k \in 1..Len(next) /\ t[k] = next[k]
  BY <1>3 DEF Written
<1>4. ASSUME NEW j \in 2..Len(s), t[k] = s[j]
      PROVE  d[f] = IF t[k].action = "data" THEN SubSeq(Data[f], 1, t[k].index) ELSE <<>>
  <2>1. j \in 1..Len(s) /\ j # 1
    BY <1>1
  <2>2. Covers(s[1]) \cap Covers(s[j]) = {}
    BY <1>1, <2>1 DEF InOrder, CoverOnce
  <2>3. d[f] = c[f]
    BY <1>1, <1>4, <2>2
  <2>. QED  BY <1>4, <2>1, <2>3 DEF Written
<1>. QED  BY <1>2, <1>3, <1>4

\* A step of the item at work: what it stood for is settled or left to the
\* items that follow, and it writes to nothing else.
LEMMA ItemStepSettles ==
  ASSUME SettleInv, NEW action, At(action), NEW next, Follows(next, Current), Finish(next),
         Written(next, content'),
         \A f \in File \ Covers(Current) : content'[f] = content[f],
         reported \subseteq reported', applied \subseteq applied',
         \A p \in Covers(Current) : Settled(p)' \/ Pending(next, p),
         outcome' = outcome
  PROVE  SettleInv'
<1>1. restoreItems # <<>> /\ Current = Head(restoreItems)
      /\ restoreItems' = next \o Tail(restoreItems)
  BY DEF At, Current, Finish
<1>2. InOrder(restoreItems') /\ Written(restoreItems', content')
  BY <1>1, OrderAfter, WrittenAfter DEF SettleInv
<1>3. ASSUME NEW p \in Restored PROVE Settled(p)' \/ Pending(restoreItems', p)
  <2>1. CASE p \in Covers(Current)
    BY <1>1, <2>1, OrderAfter DEF SettleInv
  <2>2. CASE p \notin Covers(Current)
    <3>1. Settled(p) => Settled(p)'
      BY <2>2 DEF Settled
    <3>2. Pending(restoreItems, p) => Pending(restoreItems', p)
      BY <1>1, <2>2, OrderAfter DEF SettleInv
    <3>. QED  BY <3>1, <3>2 DEF SettleInv, AllSettled
  <2>. QED  BY <2>1, <2>2
<1>4. outcome' # "succeeded"
  BY <1>1 DEF SettleInv
<1>. QED  BY <1>2, <1>3, <1>4 DEF SettleInv, AllSettled

\* The item at work of the invariant, and the data its file has.
LEMMA CurrentWritten ==
  ASSUME SettleInv, NEW action, At(action)
  PROVE  /\ Current \in GoodItem /\ Current.action = action
         /\ \A f \in Covers(Current) \cap File :
              content[f] = IF action = "data" THEN SubSeq(Data[f], 1, Current.index) ELSE <<>>
<1>1. restoreItems \in Seq(GoodItem) /\ restoreItems # <<>> /\ Current.action = action
  BY DEF SettleInv, InOrder, At
<1>2. Current \in GoodItem /\ Current = restoreItems[1] /\ 1 \in 1..Len(restoreItems)
  BY <1>1, HeadTailProperties, LenProperties, EmptySeq DEF Current
<1>. QED  BY <1>1, <1>2 DEF SettleInv, Written

\* A beginning with one element more.
LEMMA OneMore ==
  ASSUME NEW S, NEW s \in Seq(S), NEW n \in Nat, n < Len(s)
  PROVE  /\ Append(SubSeq(s, 1, n), s[n + 1]) = SubSeq(s, 1, n + 1)
         /\ n + 1 = Len(s) => SubSeq(s, 1, n + 1) = s
         /\ SubSeq(s, 1, 0) = <<>>
<1>1. Len(s) \in Nat /\ n + 1 \in 1..Len(s)
  BY LenProperties
<1>2. SubSeq(s, 1, n + 1) = SubSeq(s, 1, (n + 1) - 1) \o <<s[n + 1]>>
  <2>1. 1 \in 1..Len(s) /\ n + 1 \in 1..Len(s)
    BY <1>1
  <2>. QED  BY <2>1, SubSeqRecursiveSecond
<1>3. (n + 1) - 1 = n
  OBVIOUS
<1>4. SubSeq(s, 1, n) \in Seq(S)
  <2>1. \A i \in 1..n : s[i] \in S
    BY <1>1, ElementOfSeq
  <2>. QED  BY <2>1, SubSeqProperties
<1>5. s[n + 1] \in S
  BY <1>1, ElementOfSeq
<1>6. Append(SubSeq(s, 1, n), s[n + 1]) = SubSeq(s, 1, n) \o <<s[n + 1]>>
  BY <1>4, <1>5, AppendIsConcat
<1>. QED  BY <1>2, <1>3, <1>6, SubSeqFull, SubSeqEmpty

\* Nothing is written for what comes after a whole item.
LEMMA NothingWritten ==
  ASSUME NEW c
  PROVE  Written(<<>>, c) /\ \A p : ~Pending(<<>>, p)
  BY DEF Written, Pending

\* The item of a blob alone says how much of its file is there.
LEMMA DataWritten ==
  ASSUME NEW f \in File, NEW n \in Nat, NEW c, c[f] = SubSeq(Data[f], 1, n)
  PROVE  /\ Written(<<DataItem(f, n)>>, c)
         /\ Pending(<<DataItem(f, n)>>, f)
<1>1. /\ Len(<<DataItem(f, n)>>) = 1 /\ <<DataItem(f, n)>>[1] = DataItem(f, n)
      /\ DataItem(f, n).action = "data" /\ DataItem(f, n).index = n /\ DataItem(f, n).path = f
  BY DEF DataItem
<1>2. Covers(DataItem(f, n)) = {f}
  BY <1>1 DEF Covers
<1>3. \A k \in 1..Len(<<DataItem(f, n)>>) : k = 1
  BY <1>1
<1>4. 1 \in 1..Len(<<DataItem(f, n)>>)
  BY <1>1
<1>. QED  BY <1>1, <1>2, <1>3, <1>4 DEF Written, Pending

LEMMA RestoreTreeSettles ==
  ASSUME SettleInv, RestoreTree
  PROVE  SettleInv'
<1>. DEFINE d == Current.path
<1>1. At("tree") /\ content' = content /\ applied' = applied /\ reported \subseteq reported'
  BY DEF RestoreTree, Report
<1>2. Current \in GoodItem /\ d \in Dir /\ Covers(Current) = Within(d)
  BY <1>1, CurrentWritten, CoversOf DEF Covers
<1>3. CASE Finish(NextItems(d)) /\ UNCHANGED services
  <2>1. Follows(NextItems(d), Current) /\ \A p \in Within(d) : Pending(NextItems(d), p)
    BY <1>2, FollowsTree
  <2>2. Written(NextItems(d), content')
    <3>1. \A k \in 1..Len(NextItems(d)) : NextItems(d)[k].action # "data"
      BY <1>2, FollowsTree
    <3>2. \A k \in 1..Len(NextItems(d)) : Covers(NextItems(d)[k]) \subseteq Covers(Current)
      BY <2>1 DEF Follows
    <3>3. \A f \in Covers(Current) \cap File : content[f] = <<>>
      BY <1>1, CurrentWritten
    <3>. QED  BY <1>1, <3>1, <3>2, <3>3 DEF Written
  <2>. QED  BY <1>1, <1>2, <1>3, <2>1, <2>2, ItemStepSettles DEF services
<1>4. CASE Conclude("failed") /\ UNCHANGED restoreItems
  BY <1>1, <1>4 DEF Conclude, SettleInv, AllSettled, Settled
<1>. QED  BY <1>3, <1>4 DEF RestoreTree

LEMMA RestoreWholeSettles ==
  ASSUME TypeInv, SettleInv, RestoreWhole
  PROVE  SettleInv'
<1>0. PICK f : f = Current.path
  OBVIOUS
<1>1. At("node") /\ Current \in GoodItem /\ Current.action = "node"
  BY CurrentWritten DEF RestoreWhole
<1>2. f \in File /\ Covers(Current) = {f}
  BY <1>0, <1>1, CoversOf
<1>3. /\ content' = [content EXCEPT ![f] = Data[f]]
      /\ Finish(<<>>) /\ services' = services /\ applied' = applied /\ reported \subseteq reported'
  BY <1>0 DEF RestoreWhole, Report, services
<1>4. content'[f] = Data[f] /\ \A g \in File \ {f} : content'[g] = content[g]
  BY <1>2, <1>3, DiskTypes
<1>5. Settled(f)'
  BY <1>2, <1>4 DEF Settled
<1>. QED
  BY <1>1, <1>2, <1>3, <1>4, <1>5, FollowsNothing, NothingWritten, ItemStepSettles DEF services

LEMMA RestoreDataSettles ==
  ASSUME TypeInv, SettleInv, RestoreData
  PROVE  SettleInv'
<1>0. PICK f : f = Current.path
  OBVIOUS
<1>. DEFINE n == Index
            last == n + 1 = Len(Data[f])
            next == IF last THEN <<>> ELSE <<DataItem(f, n + 1)>>
<1>1. PICK action \in {"data", "node"} :
        At(action) /\ (action = "node" => Data[f] # <<>>)
  BY <1>0 DEF RestoreData
<1>2. Current \in GoodItem /\ Current.action = action /\ f \in File /\ Covers(Current) = {f}
  BY <1>0, <1>1, CurrentWritten, CoversOf
<1>3. Data[f] \in Seq(Blob) /\ Len(Data[f]) \in Nat
  BY <1>2, BlobsOfData
<1>4. n \in Nat /\ n < Len(Data[f])
  <2>1. CASE action = "data"
    BY <1>0, <1>2, <2>1, CoversOf DEF Index
  <2>2. CASE action = "node"
    BY <1>1, <1>2, <1>3, <2>2, EmptySeq DEF Index
  <2>. QED  BY <2>1, <2>2
<1>5. content[f] = SubSeq(Data[f], 1, n)
  <2>1. content[f] = IF action = "data" THEN SubSeq(Data[f], 1, Current.index) ELSE <<>>
    BY <1>1, <1>2, CurrentWritten
  <2>2. SubSeq(Data[f], 1, 0) = <<>>
    BY <1>3, <1>4, OneMore
  <2>. QED  BY <1>1, <1>2, <2>1, <2>2 DEF Index
<1>6. /\ content' = [content EXCEPT ![f] = Append(content[f], Data[f][n + 1])]
      /\ Finish(next) /\ services' = services /\ applied' = applied /\ reported \subseteq reported'
  BY <1>0 DEF RestoreData, Report, services
<1>7. content'[f] = SubSeq(Data[f], 1, n + 1) /\ \A g \in File \ {f} : content'[g] = content[g]
  BY <1>2, <1>3, <1>4, <1>5, <1>6, DiskTypes, OneMore
<1>. HIDE DEF n
<1>8. CASE last
  <2>1. Settled(f)'
    BY <1>2, <1>3, <1>4, <1>7, <1>8, OneMore DEF Settled
  <2>. QED
    BY <1>1, <1>2, <1>6, <1>7, <1>8, <2>1, FollowsNothing, NothingWritten, ItemStepSettles DEF services
<1>9. CASE ~last
  <2>1. n + 1 \in Nat /\ n + 1 < Len(Data[f])
    BY <1>3, <1>4, <1>9
  <2>2. Follows(<<DataItem(f, n + 1)>>, Current)
    BY <1>0, <1>1, <1>2, <2>1, FollowsData
  <2>3. Written(<<DataItem(f, n + 1)>>, content') /\ Pending(<<DataItem(f, n + 1)>>, f)
    BY <1>2, <1>7, <2>1, DataWritten
  <2>. QED
    BY <1>1, <1>2, <1>6, <1>7, <1>9, <2>2, <2>3, ItemStepSettles DEF services
<1>. QED  BY <1>8, <1>9

LEMMA ApplyTreeSettles ==
  ASSUME SettleInv, ApplyTree
  PROVE  SettleInv'
<1>0. PICK d : d = Current.path
  OBVIOUS
<1>1. At("apply") /\ Covers(Current) = {d}
  BY <1>0, CurrentWritten DEF ApplyTree, Covers
<1>2. /\ applied' = applied \cup {d} /\ Finish(<<>>)
      /\ services' = services /\ content' = content /\ reported' = reported
  BY <1>0 DEF ApplyTree, services
<1>3. Settled(d)'
  BY <1>2 DEF Settled
<1>. QED  BY <1>1, <1>2, <1>3, FollowsNothing, NothingWritten, ItemStepSettles DEF services

LEMMA FailItemSettles ==
  ASSUME TypeInv, SettleInv, FailItem
  PROVE  SettleInv'
<1>0. PICK p : p = Current.path
  OBVIOUS
<1>1. PICK action \in {"node", "data", "apply"} : At(action)
  BY DEF FailItem
<1>2. Current \in GoodItem /\ Current.action = action /\ Covers(Current) = {p}
  BY <1>0, <1>1, CurrentWritten DEF Covers
<1>3. reported' = reported \cup {p} /\ services' = services /\ applied' = applied
  BY <1>0 DEF FailItem, Report, services
<1>4. Settled(p)'
  BY <1>3 DEF Settled
<1>5. \A g \in File \ {p} : content'[g] = content[g]
  BY <1>0, DiskTypes DEF FailItem
<1>6. CASE Finish(<<>>)
  BY <1>1, <1>2, <1>3, <1>4, <1>5, <1>6, FollowsNothing, NothingWritten, ItemStepSettles DEF services
<1>7. CASE At("node") /\ p \in opened /\ Finish(<<DataItem(p, 0)>>)
  <2>1. p \in File /\ Data[p] # <<>>
    BY <1>7, DiskTypes DEF OfFile
  <2>2. Data[p] \in Seq(Blob) /\ 0 < Len(Data[p])
    BY <2>1, BlobsOfData, EmptySeq
  <2>3. Current.action = "node"
    BY <1>7 DEF At
  <2>4. content' = content
    BY <2>3 DEF FailItem, At
  <2>5. content'[p] = SubSeq(Data[p], 1, 0)
    <3>1. content[p] = <<>>
      BY <1>2, <1>7, <2>1, CurrentWritten
    <3>. QED  BY <2>2, <2>4, <3>1, OneMore
  <2>6. Follows(<<DataItem(p, 0)>>, Current)
    BY <1>0, <1>2, <2>2, <2>3, FollowsData
  <2>7. Written(<<DataItem(p, 0)>>, content')
    BY <2>1, <2>5, DataWritten
  <2>. QED  BY <1>1, <1>2, <1>3, <1>4, <1>5, <1>7, <2>6, <2>7, ItemStepSettles DEF services
<1>. QED  BY <1>0, <1>6, <1>7 DEF FailItem

LEMMA InitSettle == Init => SettleInv
<1>. SUFFICES ASSUME Init PROVE SettleInv
  OBVIOUS
<1>1. restoreItems = <<FirstItem>> /\ Len(restoreItems) = 1 /\ restoreItems[1] = FirstItem
  BY DEF Init
<1>2. InOrder(restoreItems) /\ FirstItem.action # "data" /\ Covers(FirstItem) = Restored
  BY <1>1, FirstItems
<1>3. Written(restoreItems, content)
  BY <1>1, <1>2 DEF Written, Init
<1>4. \A p \in Restored : Pending(restoreItems, p)
  BY <1>1, <1>2 DEF Pending
<1>. QED  BY <1>2, <1>3, <1>4 DEF SettleInv, AllSettled, Init

LEMMA NextSettle == TypeInv /\ SettleInv /\ [Next]_vars => SettleInv'
<1>. SUFFICES ASSUME TypeInv, SettleInv, [Next]_vars PROVE SettleInv'
  OBVIOUS
\* Steps that leave the items and what is restored alone.
<1>1. ASSUME UNCHANGED <<restoreItems, content, applied, reported>>,
             outcome' = "succeeded" => outcome = "succeeded"
      PROVE  SettleInv'
  BY <1>1 DEF SettleInv, AllSettled, Settled
<1>2. CASE RestoreTree
  BY <1>2, RestoreTreeSettles
<1>3. CASE RestoreWhole
  BY <1>3, RestoreWholeSettles
<1>4. CASE RestoreData
  BY <1>4, RestoreDataSettles
<1>5. CASE ApplyTree
  BY <1>5, ApplyTreeSettles
<1>6. CASE FailItem
  BY <1>6, FailItemSettles
<1>7. CASE WaitForItem
  BY <1>1, <1>7 DEF WaitForItem, services
<1>8. CASE DidSucceed
  BY <1>8 DEF DidSucceed, Conclude, restores, SettleInv, AllSettled, Settled
<1>9. CASE SetUp
  BY <1>1, <1>9 DEF SetUp, Proceed, Create, services, restores
<1>10. CASE FetchPacks
  BY <1>1, <1>10 DEF FetchPacks, FindNeededGlacierPacks, PacksRequested, DownloadPack, WaitForPack,
     RequestPack, services, restores
<1>11. CASE ReadQueue
  BY <1>1, <1>11 DEF ReadQueue, ReceiveMessages, ReceiveNothing, SaveCompletedJob, DeleteMessage,
     FailMessage, Conclude, services, restores
<1>12. CASE BeginRound \/ RequestMoreGlacierItems \/ RoundRequested \/ Sleep
  BY <1>1, <1>12 DEF BeginRound, RequestMoreGlacierItems, RoundRequested, Sleep, services, restores
<1>13. CASE DidFail \/ Abort
  BY <1>1, <1>13 DEF DidFail, Abort, Conclude, restores
<1>14. CASE DeleteTopic \/ DeleteQueue
  BY <1>1, <1>14 DEF DeleteTopic, DeleteQueue, restores
<1>15. CASE RoundComesDue
  BY <1>1, <1>15 DEF RoundComesDue, services, restores
<1>16. ASSUME NEW a \in Archive, CompleteJob(a) \/ ExpireJob(a) \/ Reappear(a) PROVE SettleInv'
  BY <1>1, <1>16 DEF CompleteJob, ExpireJob, Reappear, services, restores
<1>17. CASE UNCHANGED vars
  BY <1>1, <1>17 DEF vars, services, restores
<1>. QED
  BY <1>2, <1>3, <1>4, <1>5, <1>6, <1>7, <1>8, <1>9, <1>10, <1>11, <1>12, <1>13, <1>14, <1>15,
     <1>16, <1>17
     DEF Next, Run, RestoreAnItem

\* When the restore succeeds, every path was restored or its error reported.
THEOREM SuccessSettlesEverything == Spec => []SuccessIsSettled
  BY InitSettle, TypeInvariant, NextSettle, SettleInvImpliesSettled, PTL DEF Spec
=============================================================================
