--------------------------- MODULE PackSet_proofs ---------------------------
(***************************************************************************)
(* Proofs about PackSet, for all processes, objects, threads and bounds.   *)
(***************************************************************************)
EXTENDS PackSet, TLAPS

(***************************************************************************)
(* What the operations that calls share leave behind.                      *)
(***************************************************************************)

LEMMA IdleIsFrame == Idle \in Frame
BY PackSetAssumption DEF Idle, Frame, Pack, NoPack

LEMMA NothingIsTyped ==
  /\ NoPack \in Pack /\ NoListing \in Listings /\ NoJob \in Jobs
BY DEF NoPack, Pack, NoListing, Listings, NoJob, Jobs

LEMMA FrameSet ==
  ASSUME frame \in [Proc -> Frame], NEW p \in Proc, NEW f \in Frame,
         frame' = [frame EXCEPT ![p] = f]
  PROVE  frame' \in [Proc -> Frame]
OBVIOUS

LEMMA NextPcTyped ==
  ASSUME frame \in [Proc -> Frame], NEW p \in Proc,
         NEW next \in {"putIndex", "index", "deleteIndex"},
         frame' = [frame EXCEPT ![p].pc = next]
  PROVE  frame' \in [Proc -> Frame]
<1>1. frame[p] \in Frame
  OBVIOUS
<1>2. [frame[p] EXCEPT !.pc = next] \in Frame
  BY <1>1 DEF Frame
<1>3. frame' = [frame EXCEPT ![p] = [frame[p] EXCEPT !.pc = next]]
  OBVIOUS
<1>. QED  BY <1>2, <1>3, FrameSet

LEMMA JobSet ==
  ASSUME job \in [Proc -> [Thread -> Jobs]],
         NEW p \in Proc, NEW t \in Thread, NEW j \in Jobs, SetJob(p, t, j)
  PROVE  job' \in [Proc -> [Thread -> Jobs]]
<1>1. job' = [job EXCEPT ![p] = [job[p] EXCEPT ![t] = j]]
  BY DEF SetJob
<1>2. [job[p] EXCEPT ![t] = j] \in [Thread -> Jobs]
  OBVIOUS
<1>. QED  BY <1>1, <1>2

LEMMA LoadEndedIsFrame ==
  ASSUME NEW f \in Frame
  PROVE  LoadEnded(f) \in Frame
BY DEF LoadEnded, Frame, Pack

LEMMA TryAgainTyped ==
  ASSUME frame \in [Proc -> Frame], NEW p \in Proc, TryAgain(p)
  PROVE  frame' \in [Proc -> Frame]
<1>1. frame[p] \in Frame
  OBVIOUS
<1>2. CASE frame[p].tries + 1 < frame[p].max
  <2>1. LoadEnded(frame[p]) \in Frame /\ frame[p].tries + 1 \in 0..MaxRetries
    BY <1>1, <1>2, LoadEndedIsFrame, PackSetAssumption DEF Frame
  <2>2. [LoadEnded(frame[p]) EXCEPT !.pc = "entry", !.asks = "read",
                                    !.tries = frame[p].tries + 1] \in Frame
    BY <2>1 DEF Frame, LoadEnded
  <2>3. frame' = [frame EXCEPT ![p] =
           [LoadEnded(frame[p]) EXCEPT !.pc = "entry", !.asks = "read",
                                       !.tries = frame[p].tries + 1]]
    BY <1>2 DEF TryAgain
  <2>. QED  BY <2>2, <2>3, FrameSet
<1>3. CASE ~(frame[p].tries + 1 < frame[p].max)
  BY <1>3, IdleIsFrame, FrameSet DEF TryAgain, Return
<1>. QED  BY <1>2, <1>3

LEMMA LoadFailedTyped ==
  ASSUME frame \in [Proc -> Frame], NEW p \in Proc, LoadFailed(p)
  PROVE  frame' \in [Proc -> Frame]
BY TryAgainTyped, IdleIsFrame, FrameSet DEF LoadFailed, Return

LEMMA DatabaseTyped ==
  ASSUME dbPacks \in [Proc -> SUBSET Pack], entry \in [Proc -> [Obj -> Pack]],
         NEW p \in Proc, NEW pack \in Pack,
         InsertPackId(p, pack) \/ DeletePackId(p, pack)
  PROVE  /\ dbPacks' \in [Proc -> SUBSET Pack]
         /\ entry' \in [Proc -> [Obj -> Pack]]
<1>1. CASE InsertPackId(p, pack)
  BY <1>1 DEF InsertPackId
<1>2. CASE DeletePackId(p, pack)
  BY <1>2, NothingIsTyped DEF DeletePackId
<1>. QED  BY <1>1, <1>2

LEMMA ListingTyped ==
  ASSUME Typed, NEW p \in Proc
  PROVE  /\ Listing(p) \in Listings
         /\ \A l \in Listings :
              CacheListing(p, l) => /\ cached' \in [Proc -> BOOLEAN]
                                    /\ listing' \in [Proc -> Listings]
<1>1. Listing(p) \in Listings
  BY DEF Typed, Listing, Listings
<1>2. cached \in [Proc -> BOOLEAN] /\ listing \in [Proc -> Listings]
  BY DEF Typed
<1>. QED  BY <1>1, <1>2 DEF CacheListing

LEMMA PutTyped ==
  ASSUME Typed, NEW p \in Proc, NEW pack \in Pack,
         PutPackData(p, pack) \/ PutIndexData(p, pack)
           \/ RemovePack(p, pack) \/ RemoveIndex(p, pack)
  PROVE  cached' \in [Proc -> BOOLEAN] /\ listing' \in [Proc -> Listings]
<1>1. /\ [Listing(p) EXCEPT !.packs = @ \cup {pack}] \in Listings
      /\ [Listing(p) EXCEPT !.indexes = @ \cup {pack}] \in Listings
      /\ [Listing(p) EXCEPT !.packs = @ \ {pack}] \in Listings
      /\ [Listing(p) EXCEPT !.indexes = @ \ {pack}] \in Listings
  BY ListingTyped DEF Listings
<1>. QED
  BY <1>1, ListingTyped DEF PutPackData, PutIndexData, RemovePack, RemoveIndex

LEMMA AddDataTyped ==
  ASSUME Typed, NEW p \in Proc, NEW o \in Obj, AddData(p, o)
  PROVE  /\ builder' \in [Proc -> SUBSET Obj] /\ buffer' \in [Proc -> SUBSET Obj]
         /\ modified' \in [Proc -> BOOLEAN]
<1>1. builder' \in [Proc -> SUBSET Obj] /\ buffer' \in [Proc -> SUBSET Obj]
  BY DEF Typed, AddData
<1>2. (modified[p] \/ o \notin builder[p]) \in BOOLEAN
  BY DEF Typed
<1>. HIDE DEF AddData
<1>3. modified' \in [Proc -> BOOLEAN]
  <2>. DEFINE m == modified[p] \/ o \notin builder[p]
  <2>1. modified' = [modified EXCEPT ![p] = m]
    BY DEF AddData
  <2>2. m \in BOOLEAN
    BY <1>2
  <2>3. modified \in [Proc -> BOOLEAN]
    BY DEF Typed
  <2>. HIDE DEF m
  <2>. QED  BY <2>1, <2>2, <2>3
<1>. QED  BY <1>1, <1>3

LEMMA ReadSucceedsTyped ==
  ASSUME Typed, NEW p \in Proc, frame[p].reads \in Obj, ReadSucceeds(p)
  PROVE  /\ frame' \in [Proc -> Frame]
         /\ builder' \in [Proc -> SUBSET Obj] /\ buffer' \in [Proc -> SUBSET Obj]
         /\ modified' \in [Proc -> BOOLEAN]
<1>1. CASE frame[p].op = "delete"
  <2>1. [frame[p] EXCEPT !.pc = "siblings", !.asks = "nothing", !.pack = NoPack,
                         !.todo = frame[p].todo \ {frame[p].reads},
                         !.reads = None, !.tries = 0] \in Frame
    <3>1. frame[p] \in Frame
      BY DEF Typed
    <3>2. /\ frame[p].todo \ {frame[p].reads} \in SUBSET Obj
          /\ 0 \in 0..MaxRetries
      BY <3>1, PackSetAssumption DEF Frame
    <3>. QED  BY <3>1, <3>2, NothingIsTyped DEF Frame
  <2>2. frame' \in [Proc -> Frame]
    BY <1>1, <2>1, FrameSet DEF ReadSucceeds, Typed
  <2>. QED  BY <1>1, <2>2, AddDataTyped DEF ReadSucceeds
<1>2. CASE frame[p].op # "delete"
  BY <1>2, IdleIsFrame, FrameSet DEF ReadSucceeds, Return, packBuilder, Typed
<1>. QED  BY <1>1, <1>2

LEMMA CommittedIsFrame ==
  ASSUME NEW f \in Frame
  PROVE  Committed(f) \in Frame
<1>1. CASE f.op = "delete"
  <2>1. [f EXCEPT !.pc = "deletePack", !.asks = "nothing", !.pack = NoPack,
                  !.obj = None] \in Frame
    BY NothingIsTyped DEF Frame
  <2>. QED  BY <1>1, <2>1 DEF Committed
<1>2. CASE f.op # "delete"
  BY <1>2, IdleIsFrame DEF Committed
<1>. QED  BY <1>1, <1>2

LEMMA CommitTyped ==
  ASSUME frame \in [Proc -> Frame], builder' \in [Proc -> SUBSET Obj],
         NEW p \in Proc, NEW f \in Frame, Commit(p, f)
  PROVE  frame' \in [Proc -> Frame]
<1>1. CASE NothingToCommit(p)
  BY <1>1, CommittedIsFrame, FrameSet DEF Commit
<1>2. CASE ~NothingToCommit(p)
  <2>1. [f EXCEPT !.pc = "putPack", !.asks = "new", !.pack = builder'[p]] \in Frame
    BY DEF Frame, Pack
  <2>. QED  BY <1>2, <2>1, FrameSet DEF Commit
<1>. QED  BY <1>1, <1>2

LEMMA HasIndexTyped ==
  ASSUME Typed, NEW p \in Proc, HasIndex(p)
  PROVE  /\ frame' \in [Proc -> Frame]
         /\ dbPacks' \in [Proc -> SUBSET Pack]
         /\ entry' \in [Proc -> [Obj -> Pack]]
         /\ committed' \subseteq Obj
<1>1. frame[p] \in Frame /\ frame[p].pack \in Pack /\ frame[p].pack \subseteq Obj
  BY DEF Typed, Frame, Pack
<1>2. CASE frame[p].asks = "new"
  BY <1>1, <1>2, DatabaseTyped, CommittedIsFrame, FrameSet DEF HasIndex, Typed
<1>3. CASE frame[p].asks # "new"
  <2>1. [frame[p] EXCEPT !.pc = "siblings", !.asks = "nothing", !.pack = NoPack,
                         !.todo = frame[p].pack \ {frame[p].obj}] \in Frame
    BY <1>1, NothingIsTyped DEF Frame
  <2>. QED  BY <1>3, <2>1, FrameSet DEF HasIndex, Typed, db
<1>. QED  BY <1>2, <1>3

(***************************************************************************)
(* Types.  TypeOK alone is not inductive: the database is asked only for   *)
(* objects, and a lookup begins with no turn taken.                        *)
(***************************************************************************)

Reads(f) == f.asks \in {"read", "missing"}

\* A call that looks something up knows what, and has a turn left for it.
Knows(f) ==
  /\ Reads(f) => /\ f.reads \in Obj /\ f.tries < f.max
                 /\ f.pc \in {"entry", "loading", "stale", "fetch"}
  /\ ~Reads(f) => f.tries = 0
  /\ f.asks \in {"put", "find"} => f.obj \in Obj
  /\ f.pc = "fetch" => f.asks = "read"

TypeInv == Typed /\ \A p \in Proc : Knows(frame[p])

LEMMA InitTyped == Init => Typed
<1>. SUFFICES ASSUME Init PROVE Typed
  OBVIOUS
<1>1. packs \subseteq Pack /\ storageType \in {"S3", "S3Glacier"} /\ committed \subseteq Obj
  BY PackSetAssumption DEF Init, Pack
<1>2. frame \in [Proc -> Frame]
  BY IdleIsFrame DEF Init
<1>3. /\ listing \in [Proc -> Listings] /\ job \in [Proc -> [Thread -> Jobs]]
      /\ entry \in [Proc -> [Obj -> Pack]]
  BY NothingIsTyped DEF Init
<1>. QED  BY <1>1, <1>2, <1>3 DEF Init, Typed

LEMMA CallTypes ==
  ASSUME Typed, NEW p \in Proc, Call(p)
  PROVE  Typed'
<1>. USE DEF vars, target, fark, db, packBuilder, pieLoader, history, bounds
<1>0. calls \in Nat /\ frame \in [Proc -> Frame]
  BY DEF Typed
<1>1. ASSUME NEW o \in Obj, NEW retry \in BOOLEAN, DataForSHA1(p, o, retry)
      PROVE  Typed'
  <2>1. [Idle EXCEPT !.pc = "entry", !.op = "data", !.asks = "read", !.obj = o,
                     !.reads = o, !.max = IF retry THEN MaxRetries ELSE 1] \in Frame
    <3>1. (IF retry THEN MaxRetries ELSE 1) \in 0..MaxRetries
      BY PackSetAssumption
    <3>. QED  BY <3>1, IdleIsFrame DEF Frame
  <2>2. frame' \in [Proc -> Frame] /\ calls' \in Nat
    BY <1>0, <1>1, <2>1, FrameSet DEF DataForSHA1, Begin
  <2>. QED  BY <1>1, <2>2 DEF DataForSHA1, Begin, Typed
<1>2. ASSUME NEW o \in Obj, PutData(p, o)
      PROVE  Typed'
  <2>1. [Idle EXCEPT !.pc = "entry", !.op = "put", !.asks = "put", !.obj = o] \in Frame
    BY IdleIsFrame DEF Frame
  <2>2. frame' \in [Proc -> Frame] /\ calls' \in Nat
    BY <1>0, <1>2, <2>1, FrameSet DEF PutData, Begin
  <2>. QED  BY <1>2, <2>2 DEF PutData, Begin, Typed
<1>3. ASSUME NEW o \in Obj, DeleteBlobForSHA1(p, o)
      PROVE  Typed'
  <2>1. [Idle EXCEPT !.pc = "entry", !.op = "delete", !.asks = "find", !.obj = o]
          \in Frame
    BY IdleIsFrame DEF Frame
  <2>2. frame' \in [Proc -> Frame] /\ calls' \in Nat
    BY <1>0, <1>3, <2>1, FrameSet DEF DeleteBlobForSHA1, Begin
  <2>. QED  BY <1>3, <2>2 DEF DeleteBlobForSHA1, Begin, Typed
<1>4. CASE CommitCall(p)
  <2>1. [Idle EXCEPT !.op = "commit"] \in Frame
    BY IdleIsFrame DEF Frame
  <2>2. builder' \in [Proc -> SUBSET Obj]
    BY <1>4 DEF CommitCall, Typed
  <2>3. frame' \in [Proc -> Frame] /\ calls' \in Nat
    BY <1>0, <1>4, <2>1, <2>2, CommitTyped DEF CommitCall
  <2>. QED  BY <1>4, <2>3 DEF CommitCall, Typed
<1>5. CASE ClearCache(p) \/ ReloadCache(p)
  <2>1. frame' \in [Proc -> Frame] /\ calls' \in Nat
    BY <1>0, <1>5, IdleIsFrame, FrameSet DEF ClearCache, ReloadCache, Begin
  <2>2. /\ cached' \in [Proc -> BOOLEAN] /\ listing' \in [Proc -> Listings]
        /\ cacheIsLoaded' \in [Proc -> BOOLEAN]
    BY <1>5, NothingIsTyped DEF ClearCache, ReloadCache, Typed
  <2>. QED  BY <1>5, <2>1, <2>2 DEF ClearCache, ReloadCache, Begin, Typed
<1>. QED  BY <1>1, <1>2, <1>3, <1>4, <1>5 DEF Call

LEMMA LoadTypes ==
  ASSUME Typed, NEW p \in Proc, Load(p)
  PROVE  Typed'
<1>. USE DEF vars, target, fark, db, packBuilder, pieLoader, history, bounds
<1>0. /\ frame \in [Proc -> Frame] /\ frame[p] \in Frame
      /\ job \in [Proc -> [Thread -> Jobs]]
  BY DEF Typed
<1>1. CASE ListPacks(p)
  <2>. DEFINE listed == Listing(p).packs
              toLoad == listed \ dbPacks[p]
  <2>1. listed \subseteq Pack /\ toLoad \subseteq Pack
    BY ListingTyped DEF Listings
  <2>2. [frame[p] EXCEPT !.pc = IF toLoad = {} THEN "stale" ELSE "loading",
           !.listed = listed, !.toLoad = toLoad, !.skipped = {}] \in Frame
    BY <1>0, <2>1 DEF Frame
  <2>3. frame' = [frame EXCEPT ![p] =
           [frame[p] EXCEPT !.pc = IF toLoad = {} THEN "stale" ELSE "loading",
              !.listed = listed, !.toLoad = toLoad, !.skipped = {}]]
    BY <1>0, <1>1 DEF ListPacks
  <2>4. frame' \in [Proc -> Frame]
    BY <1>0, <2>2, <2>3, FrameSet
  <2>5. cached' \in [Proc -> BOOLEAN] /\ listing' \in [Proc -> Listings]
    BY <1>1, ListingTyped DEF ListPacks
  <2>. QED  BY <1>1, <2>4, <2>5 DEF ListPacks, Typed
<1>2. CASE WaitForCompletion(p)
  <2>1. [frame[p] EXCEPT !.pc = "stale"] \in Frame
    BY <1>0 DEF Frame
  <2>2. frame' \in [Proc -> Frame]
    BY <1>0, <1>2, <2>1, FrameSet, LoadFailedTyped DEF WaitForCompletion
  <2>. QED  BY <1>2, <2>2 DEF WaitForCompletion, Typed
<1>3. CASE RemoveStale(p)
  <2>1. PICK pack \in dbPacks[p] \ frame[p].listed : DeletePackId(p, pack)
    BY <1>3 DEF RemoveStale
  <2>2. dbPacks' \in [Proc -> SUBSET Pack] /\ entry' \in [Proc -> [Obj -> Pack]]
    BY <2>1, DatabaseTyped DEF Typed
  <2>. QED  BY <1>3, <2>2 DEF RemoveStale, Typed
<1>4. CASE FinishLoad(p)
  <2>1. [LoadEnded(frame[p]) EXCEPT !.pc = "entry"] \in Frame
    BY <1>0, LoadEndedIsFrame DEF Frame
  <2>2. frame' \in [Proc -> Frame]
    BY <1>0, <1>4, <2>1, FrameSet DEF FinishLoad
  <2>. QED  BY <1>4, <2>2 DEF FinishLoad, Typed
<1>5. ASSUME NEW t \in Thread, LoadPackId(p, t)
      PROVE  Typed'
  <2>1. PICK pack \in frame[p].toLoad :
          /\ \/ frame' = [frame EXCEPT ![p].toLoad = @ \ {pack}]
             \/ frame' = [frame EXCEPT ![p].toLoad = @ \ {pack},
                                       ![p].skipped = @ \cup {pack}]
          /\ \/ job' = job
             \/ SetJob(p, t, [at |-> "insert", pack |-> pack])
             \/ SetJob(p, t, [at |-> "rebuild", pack |-> pack])
          /\ disk' = disk \/ disk' = [disk EXCEPT ![p] = @ \cup {pack}]
          /\ loadError' = loadError \/ loadError' = [loadError EXCEPT ![p] = "error"]
    BY <1>5 DEF LoadPackId
  <2>2. pack \in Pack
    BY <1>0, <2>1 DEF Frame
  <2>3. frame' \in [Proc -> Frame]
    <3>1. /\ [frame[p] EXCEPT !.toLoad = @ \ {pack}] \in Frame
          /\ [frame[p] EXCEPT !.toLoad = @ \ {pack}, !.skipped = @ \cup {pack}] \in Frame
      BY <1>0, <2>2 DEF Frame
    <3>. QED  BY <1>0, <2>1, <3>1, FrameSet
  <2>4. job' \in [Proc -> [Thread -> Jobs]]
    <3>1. /\ [at |-> "insert", pack |-> pack] \in Jobs
          /\ [at |-> "rebuild", pack |-> pack] \in Jobs
      BY <2>2 DEF Jobs
    <3>. QED  BY <1>0, <2>1, <3>1, JobSet
  <2>5. disk' \in [Proc -> SUBSET Pack]
    <3>1. disk \in [Proc -> SUBSET Pack]
      BY DEF Typed
    <3>2. disk[p] \cup {pack} \in SUBSET Pack
      BY <2>2, <3>1
    <3>. QED  BY <2>1, <3>1, <3>2
  <2>6. loadError' \in [Proc -> {"none", "error"}]
    BY <2>1 DEF Typed
  <2>. QED  BY <1>5, <2>3, <2>4, <2>5, <2>6 DEF LoadPackId, Typed
<1>6. ASSUME NEW t \in Thread, SaveRebuiltIndex(p, t)
      PROVE  Typed'
  <2>1. job[p][t] \in Jobs /\ job[p][t].pack \in Pack
    BY <1>0 DEF Jobs
  <2>2. cached' \in [Proc -> BOOLEAN] /\ listing' \in [Proc -> Listings]
    BY <1>6, <2>1, PutTyped DEF SaveRebuiltIndex
  <2>3. [job[p][t] EXCEPT !.at = "insert"] \in Jobs
    BY <2>1 DEF Jobs
  <2>4. job' \in [Proc -> [Thread -> Jobs]]
    BY <1>0, <1>6, <2>3, JobSet DEF SaveRebuiltIndex
  <2>5. indexes' \subseteq Pack
    BY <1>6, <2>1 DEF SaveRebuiltIndex, PutIndexData, Typed
  <2>. QED  BY <1>6, <2>2, <2>4, <2>5 DEF SaveRebuiltIndex, Typed
<1>7. ASSUME NEW t \in Thread, InsertLoaded(p, t)
      PROVE  Typed'
  <2>1. job[p][t].pack \in Pack
    BY <1>0 DEF Jobs
  <2>2. dbPacks' \in [Proc -> SUBSET Pack] /\ entry' \in [Proc -> [Obj -> Pack]]
    BY <1>7, <2>1, DatabaseTyped DEF InsertLoaded, Typed
  <2>3. job' \in [Proc -> [Thread -> Jobs]]
    BY <1>0, <1>7, NothingIsTyped, JobSet DEF InsertLoaded
  <2>. QED  BY <1>7, <2>2, <2>3 DEF InsertLoaded, Typed
<1>. QED  BY <1>1, <1>2, <1>3, <1>4, <1>5, <1>6, <1>7 DEF Load

LEMMA ReadTypes ==
  ASSUME Typed, NEW p \in Proc, Knows(frame[p]),
         FindForRead(p) \/ Fetch(p) \/ ForgetMissingPack(p)
  PROVE  Typed'
<1>. USE DEF vars, target, fark, db, packBuilder, pieLoader, history, bounds
<1>0. /\ frame \in [Proc -> Frame] /\ frame[p] \in Frame
      /\ entry \in [Proc -> [Obj -> Pack]]
  BY DEF Typed
<1>1. CASE FindForRead(p)
  <2>. DEFINE o == frame[p].reads
  <2>1. CASE entry[p][o] # NoPack /\ o \in Obj
    <3>1. [frame[p] EXCEPT !.pc = "fetch", !.pack = entry[p][o]] \in Frame
      BY <1>0, <2>1 DEF Frame
    <3>2. frame' = [frame EXCEPT ![p] =
                      [frame[p] EXCEPT !.pc = "fetch", !.pack = entry[p][o]]]
          /\ UNCHANGED packBuilder
      BY <1>0, <1>1, <2>1 DEF FindForRead
    <3>3. frame' \in [Proc -> Frame]
      BY <1>0, <3>1, <3>2, FrameSet
    <3>. QED  BY <1>1, <3>2, <3>3 DEF FindForRead, Typed
  <2>2. CASE o \in Obj /\ ReadSucceeds(p)
    BY <1>1, <2>2, ReadSucceedsTyped DEF FindForRead, Typed
  <2>3. CASE Return(p) /\ UNCHANGED packBuilder
    <3>1. frame' \in [Proc -> Frame]
      BY <1>0, <2>3, IdleIsFrame, FrameSet DEF Return
    <3>. QED  BY <1>1, <2>3, <3>1 DEF FindForRead, Typed
  <2>. QED  BY <1>1, <2>1, <2>2, <2>3 DEF FindForRead, Asks, Knows, Reads
<1>2. CASE Fetch(p)
  <2>. DEFINE pack == frame[p].pack
  <2>1. CASE Readable(p, pack)
    <3>1. disk' \in [Proc -> SUBSET Pack]
      <4>1. disk[p] \cup {pack} \in SUBSET Pack
        BY <1>0 DEF Typed, Frame
      <4>. QED  BY <1>2, <2>1, <4>1 DEF Fetch, Typed
    <3>2. frame[p].reads \in Obj
      BY <1>2 DEF Fetch, Knows, Reads
    <3>. QED  BY <1>2, <2>1, <3>1, <3>2, ReadSucceedsTyped DEF Fetch, Typed
  <2>2. CASE ~Readable(p, pack)
    <3>1. [frame[p] EXCEPT !.pc = "entry", !.asks = "missing", !.pack = NoPack] \in Frame
      BY <1>0, NothingIsTyped DEF Frame
    <3>2. frame' = [frame EXCEPT ![p] = [frame[p] EXCEPT
                      !.pc = "entry", !.asks = "missing", !.pack = NoPack]]
      BY <1>0, <1>2, <2>2 DEF Fetch
    <3>3. frame' \in [Proc -> Frame]
      BY <1>0, <3>1, <3>2, FrameSet
    <3>. QED  BY <1>2, <2>2, <3>3 DEF Fetch, Typed
  <2>. QED  BY <2>1, <2>2
<1>3. CASE ForgetMissingPack(p)
  <2>. DEFINE pack == entry[p][frame[p].reads]
  <2>1. pack \in Pack
    BY <1>0, <1>3 DEF ForgetMissingPack, Asks, Knows, Reads
  <2>2. dbPacks' \in [Proc -> SUBSET Pack] /\ entry' \in [Proc -> [Obj -> Pack]]
    BY <1>3, <2>1, DatabaseTyped DEF ForgetMissingPack, Typed
  <2>3. frame' \in [Proc -> Frame]
    BY <1>0, <1>3, TryAgainTyped DEF ForgetMissingPack, Asks
  <2>. QED  BY <1>3, <2>2, <2>3 DEF ForgetMissingPack, Typed
<1>. QED  BY <1>1, <1>2, <1>3

LEMMA WriteTypes ==
  ASSUME Typed, NEW p \in Proc, Knows(frame[p]),
         \/ AddToPackBuilder(p) \/ FindForDelete(p)
         \/ ReadPackIndex(p) \/ RebuildPackIndex(p)
         \/ ReadNextSibling(p) \/ RemoveData(p)
         \/ PutPack(p) \/ PutIndex(p) \/ DeletePack(p) \/ DeleteIndex(p)
  PROVE  Typed'
<1>. USE DEF vars, target, fark, db, packBuilder, pieLoader, history, bounds
<1>0. /\ frame \in [Proc -> Frame] /\ frame[p] \in Frame
      /\ entry \in [Proc -> [Obj -> Pack]]
      /\ frame[p].pack \in Pack /\ frame[p].victim \in Pack
  BY DEF Typed, Frame
<1>1. CASE AddToPackBuilder(p)
  <2>1. frame[p].obj \in Obj
    BY <1>0, <1>1 DEF AddToPackBuilder, Asks, Knows, Reads
  <2>2. /\ builder' \in [Proc -> SUBSET Obj] /\ buffer' \in [Proc -> SUBSET Obj]
        /\ modified' \in [Proc -> BOOLEAN]
    BY <1>1, <2>1, AddDataTyped DEF AddToPackBuilder, Typed
  <2>3. frame' \in [Proc -> Frame]
    BY <1>0, <1>1, <2>2, CommitTyped, IdleIsFrame, FrameSet
       DEF AddToPackBuilder, Return
  <2>. QED  BY <1>1, <2>2, <2>3 DEF AddToPackBuilder, Typed
<1>2. CASE FindForDelete(p)
  <2>. DEFINE pack == entry[p][frame[p].obj]
  <2>1. pack \in Pack
    BY <1>0, <1>2 DEF FindForDelete, Asks, Knows, Reads
  <2>2. [frame[p] EXCEPT !.pc = "index", !.pack = pack, !.victim = pack] \in Frame
    BY <1>0, <2>1 DEF Frame
  <2>3. CASE pack = NoPack
    BY <1>0, <1>2, <2>3, IdleIsFrame, FrameSet
       DEF FindForDelete, Return, Typed
  <2>4. CASE pack # NoPack
    <3>1. frame' = [frame EXCEPT ![p] =
             [frame[p] EXCEPT !.pc = "index", !.pack = pack, !.victim = pack]]
      BY <1>0, <1>2, <2>4 DEF FindForDelete
    <3>2. frame' \in [Proc -> Frame]
      BY <1>0, <2>2, <3>1, FrameSet
    <3>. QED  BY <1>2, <3>2 DEF FindForDelete, Typed
  <2>. QED  BY <2>3, <2>4
<1>3. CASE ReadPackIndex(p)
  <2>1. disk' \in [Proc -> SUBSET Pack]
    <3>1. disk \in [Proc -> SUBSET Pack]
      BY DEF Typed
    <3>2. disk[p] \cup {frame[p].pack} \in SUBSET Pack
      BY <1>0, <3>1
    <3>. QED  BY <1>3, <3>1, <3>2 DEF ReadPackIndex
  <2>2. CASE HasIndex(p)
    BY <1>3, <2>1, <2>2, HasIndexTyped DEF ReadPackIndex, Typed
  <2>3. CASE ~HasIndex(p)
    <3>1. [frame[p] EXCEPT !.pc = "rebuild"] \in Frame
      BY <1>0 DEF Frame
    <3>2. \/ frame' = [frame EXCEPT ![p] = [frame[p] EXCEPT !.pc = "rebuild"]]
          \/ frame' = [frame EXCEPT ![p] = Idle]
      BY <1>0, <1>3, <2>3 DEF ReadPackIndex, Return
    <3>3. frame' \in [Proc -> Frame]
      BY <1>0, <3>1, <3>2, IdleIsFrame, FrameSet
    <3>. QED  BY <1>3, <2>1, <2>3, <3>3 DEF ReadPackIndex, Typed
  <2>. QED  BY <2>2, <2>3
<1>4. CASE RebuildPackIndex(p)
  <2>1. cached' \in [Proc -> BOOLEAN] /\ listing' \in [Proc -> Listings]
    BY <1>0, <1>4, PutTyped DEF RebuildPackIndex
  <2>2. indexes' \subseteq Pack
    BY <1>0, <1>4 DEF RebuildPackIndex, PutIndexData, Typed
  <2>. QED
    BY <1>4, <2>1, <2>2, HasIndexTyped DEF RebuildPackIndex, Typed
<1>5. CASE ReadNextSibling(p)
  <2>1. PICK o \in frame[p].todo :
          frame' = [frame EXCEPT ![p].pc = "entry", ![p].asks = "read",
                                 ![p].reads = o, ![p].max = 1]
    BY <1>5 DEF ReadNextSibling
  <2>2. [frame[p] EXCEPT !.pc = "entry", !.asks = "read", !.reads = o, !.max = 1]
          \in Frame
    <3>1. o \in Obj /\ 1 \in 0..MaxRetries
      BY <1>0, <2>1, PackSetAssumption DEF Frame
    <3>. QED  BY <1>0, <3>1 DEF Frame
  <2>3. frame' = [frame EXCEPT ![p] = [frame[p] EXCEPT
                    !.pc = "entry", !.asks = "read", !.reads = o, !.max = 1]]
    BY <1>0, <2>1
  <2>4. frame' \in [Proc -> Frame]
    BY <1>0, <2>2, <2>3, FrameSet
  <2>. QED  BY <1>5, <2>4 DEF ReadNextSibling, Typed
<1>6. CASE RemoveData(p)
  <2>1. builder' \in [Proc -> SUBSET Obj]
    BY <1>6 DEF RemoveData, Typed
  <2>2. frame' \in [Proc -> Frame]
    BY <1>0, <1>6, <2>1, CommitTyped DEF RemoveData
  <2>. QED  BY <1>6, <2>1, <2>2 DEF RemoveData, Typed
<1>7. CASE PutPack(p)
  <2>1. cached' \in [Proc -> BOOLEAN] /\ listing' \in [Proc -> Listings]
    BY <1>0, <1>7, PutTyped DEF PutPack
  <2>2. packs' \subseteq Pack
    BY <1>0, <1>7 DEF PutPack, PutPackData, Typed
  <2>3. frame' \in [Proc -> Frame]
    BY <1>0, <1>7, NextPcTyped DEF PutPack
  <2>4. disk' \in [Proc -> SUBSET Pack]
    <3>1. disk \in [Proc -> SUBSET Pack] /\ disk[p] \cup {frame[p].pack} \in SUBSET Pack
      BY <1>0 DEF Typed
    <3>. QED  BY <1>7, <3>1 DEF PutPack
  <2>. QED  BY <1>7, <2>1, <2>2, <2>3, <2>4 DEF PutPack, Typed
<1>8. CASE PutIndex(p)
  <2>1. cached' \in [Proc -> BOOLEAN] /\ listing' \in [Proc -> Listings]
    BY <1>0, <1>8, PutTyped DEF PutIndex
  <2>2. indexes' \subseteq Pack
    BY <1>0, <1>8 DEF PutIndex, PutIndexData, Typed
  <2>3. frame' \in [Proc -> Frame]
    BY <1>0, <1>8, NextPcTyped DEF PutIndex
  <2>4. /\ builder' \in [Proc -> SUBSET Obj] /\ buffer' \in [Proc -> SUBSET Obj]
        /\ modified' \in [Proc -> BOOLEAN]
    BY <1>8 DEF PutIndex, Typed
  <2>. QED  BY <1>8, <2>1, <2>2, <2>3, <2>4 DEF PutIndex, Typed
<1>9. CASE DeletePack(p)
  <2>1. cached' \in [Proc -> BOOLEAN] /\ listing' \in [Proc -> Listings]
    BY <1>0, <1>9, PutTyped DEF DeletePack
  <2>2. packs' \subseteq Pack /\ disk' \in [Proc -> SUBSET Pack]
    BY <1>9 DEF DeletePack, RemovePack, Typed
  <2>3. frame' \in [Proc -> Frame]
    BY <1>0, <1>9, NextPcTyped DEF DeletePack
  <2>. QED  BY <1>9, <2>1, <2>2, <2>3 DEF DeletePack, Typed
<1>10. CASE DeleteIndex(p)
  <2>1. cached' \in [Proc -> BOOLEAN] /\ listing' \in [Proc -> Listings]
    BY <1>0, <1>10, PutTyped DEF DeleteIndex
  <2>2. indexes' \subseteq Pack
    BY <1>10 DEF DeleteIndex, RemoveIndex, Typed
  <2>3. frame' \in [Proc -> Frame]
    BY <1>0, <1>10, IdleIsFrame, FrameSet DEF DeleteIndex, Return
  <2>. QED  BY <1>10, <2>1, <2>2, <2>3 DEF DeleteIndex, Typed
<1>. QED
  BY <1>1, <1>2, <1>3, <1>4, <1>5, <1>6, <1>7, <1>8, <1>9, <1>10

LEMMA FailTypes ==
  ASSUME Typed, NEW p \in Proc, Fails(p)
  PROVE  Typed'
<1>. USE DEF vars, target, fark, db, packBuilder, pieLoader, history, bounds
<1>0. /\ frame \in [Proc -> Frame] /\ frame[p] \in Frame
      /\ frame[p].pack \in Pack /\ trouble \in Nat
  BY DEF Typed, Frame
<1>1. Trouble => trouble' \in Nat /\ UNCHANGED calls
  BY <1>0 DEF Trouble
<1>2. ASSUME NEW t \in Thread, WorkerFails(p, t)
      PROVE  Typed'
  <2>1. frame' \in [Proc -> Frame]
    <3>1. CASE UNCHANGED frame
      BY <1>0, <3>1
    <3>2. ASSUME NEW pack \in frame[p].toLoad,
                 frame' = [frame EXCEPT ![p].toLoad = @ \ {pack}]
          PROVE  frame' \in [Proc -> Frame]
      <4>1. [frame[p] EXCEPT !.toLoad = @ \ {pack}] \in Frame
        BY <1>0 DEF Frame
      <4>. QED  BY <1>0, <3>2, <4>1, FrameSet
    <3>. QED  BY <1>2, <3>1, <3>2 DEF WorkerFails
  <2>2. job' \in [Proc -> [Thread -> Jobs]]
    BY <1>2, NothingIsTyped, JobSet DEF WorkerFails, Typed
  <2>3. loadError' \in [Proc -> {"none", "error"}]
    BY <1>2 DEF WorkerFails, Typed
  <2>. QED  BY <1>1, <1>2, <2>1, <2>2, <2>3 DEF WorkerFails, Typed
<1>3. CASE CallFails(p)
  <2>1. frame' \in [Proc -> Frame]
    BY <1>0, <1>3, IdleIsFrame, FrameSet, LoadFailedTyped DEF CallFails, Return
  <2>. QED  BY <1>1, <1>3, <2>1 DEF CallFails, Typed
<1>4. CASE PutFails(p)
  <2>1. packs' \subseteq Pack /\ indexes' \subseteq Pack
    BY <1>0, <1>4 DEF PutFails, Typed
  <2>2. modified' \in [Proc -> BOOLEAN]
    BY <1>4 DEF PutFails, Typed
  <2>3. frame' \in [Proc -> Frame]
    BY <1>0, <1>4, IdleIsFrame, FrameSet DEF PutFails, Return
  <2>. QED  BY <1>1, <1>4, <2>1, <2>2, <2>3 DEF PutFails, Typed
<1>5. CASE Restart(p)
  <2>1. frame' \in [Proc -> Frame]
    BY <1>0, <1>5, IdleIsFrame, FrameSet DEF Restart, Return
  <2>2. /\ cacheIsLoaded' \in [Proc -> BOOLEAN] /\ modified' \in [Proc -> BOOLEAN]
        /\ builder' \in [Proc -> SUBSET Obj] /\ buffer' \in [Proc -> SUBSET Obj]
    BY <1>5 DEF Restart, Typed
  <2>3. /\ job' \in [Proc -> [Thread -> Jobs]]
        /\ loadError' \in [Proc -> {"none", "error"}]
    BY <1>5, NothingIsTyped DEF Restart, Typed
  <2>. QED  BY <1>1, <1>5, <2>1, <2>2, <2>3 DEF Restart, Typed
<1>6. CASE RemovalFails(p)
  <2>1. packs' \subseteq Pack /\ indexes' \subseteq Pack
    BY <1>6 DEF RemovalFails, Typed
  <2>2. disk' \in [Proc -> SUBSET Pack]
    BY <1>6 DEF RemovalFails, Typed
  <2>3. frame' \in [Proc -> Frame]
    BY <1>0, <1>6, IdleIsFrame, FrameSet DEF RemovalFails, Return
  <2>. QED  BY <1>1, <1>6, <2>1, <2>2, <2>3 DEF RemovalFails, Typed
<1>. QED  BY <1>2, <1>3, <1>4, <1>5, <1>6 DEF Fails

LEMMA KnowsSet ==
  ASSUME Typed, \A q \in Proc : Knows(frame[q]), NEW p \in Proc, NEW f, Knows(f),
         frame' = [frame EXCEPT ![p] = f]
  PROVE  \A q \in Proc : Knows(frame'[q])
BY DEF Typed

LEMMA IdleKnows == Knows(Idle)
BY DEF Knows, Reads, Idle

LEMMA TryAgainKnows ==
  ASSUME TypeInv, NEW p \in Proc, TryAgain(p), frame[p].reads \in Obj
  PROVE  \A q \in Proc : Knows(frame'[q])
<1>1. frame[p] \in Frame
  BY DEF TypeInv, Typed
<1>2. CASE frame[p].tries + 1 < frame[p].max
  <2>1. Knows([LoadEnded(frame[p]) EXCEPT !.pc = "entry", !.asks = "read",
                                          !.tries = frame[p].tries + 1])
    BY <1>1, <1>2 DEF Knows, Reads, LoadEnded, Frame, TypeInv
  <2>. QED  BY <1>2, <2>1, KnowsSet DEF TryAgain, TypeInv
<1>3. CASE ~(frame[p].tries + 1 < frame[p].max)
  BY <1>3, IdleKnows, KnowsSet DEF TryAgain, Return, TypeInv
<1>. QED  BY <1>2, <1>3

LEMMA LoadFailedKnows ==
  ASSUME TypeInv, NEW p \in Proc, LoadFailed(p)
  PROVE  \A q \in Proc : Knows(frame'[q])
<1>1. frame[p] \in Frame /\ Knows(frame[p])
  BY DEF TypeInv, Typed
<1>2. CASE frame[p].asks = "missing"
  BY <1>1, <1>2, TryAgainKnows DEF LoadFailed, Knows, Reads
<1>3. CASE frame[p].asks # "missing"
  BY <1>3, IdleKnows, KnowsSet DEF LoadFailed, Return, TypeInv
<1>. QED  BY <1>2, <1>3

LEMMA CommittedKnows ==
  ASSUME NEW f \in Frame, f.tries = 0
  PROVE  Knows(Committed(f))
<1>1. CASE f.op = "delete"
  BY <1>1 DEF Committed, Knows, Reads, Frame
<1>2. CASE f.op # "delete"
  BY <1>2, IdleKnows DEF Committed
<1>. QED  BY <1>1, <1>2

LEMMA CommitKnows ==
  ASSUME TypeInv, NEW p \in Proc, NEW f \in Frame, Commit(p, f), f.tries = 0
  PROVE  \A q \in Proc : Knows(frame'[q])
<1>1. CASE NothingToCommit(p)
  BY <1>1, CommittedKnows, KnowsSet DEF Commit, TypeInv
<1>2. CASE ~NothingToCommit(p)
  <2>1. Knows([f EXCEPT !.pc = "putPack", !.asks = "new", !.pack = builder'[p]])
    BY DEF Knows, Reads, Frame
  <2>. QED  BY <1>2, <2>1, KnowsSet DEF Commit, TypeInv
<1>. QED  BY <1>1, <1>2

LEMMA ReadSucceedsKnows ==
  ASSUME TypeInv, NEW p \in Proc, ReadSucceeds(p)
  PROVE  \A q \in Proc : Knows(frame'[q])
<1>1. frame[p] \in Frame
  BY DEF TypeInv, Typed
<1>2. Knows([frame[p] EXCEPT !.pc = "siblings", !.asks = "nothing", !.pack = NoPack,
                             !.todo = frame[p].todo \ {frame[p].reads},
                             !.reads = None, !.tries = 0])
  BY <1>1 DEF Knows, Reads, Frame
<1>. QED  BY <1>2, IdleKnows, KnowsSet DEF ReadSucceeds, Return, TypeInv

LEMMA HasIndexKnows ==
  ASSUME TypeInv, NEW p \in Proc, HasIndex(p), frame[p].pc \in {"index", "rebuild"}
  PROVE  \A q \in Proc : Knows(frame'[q])
<1>1. frame[p] \in Frame /\ frame[p].tries = 0
  BY DEF TypeInv, Typed, Knows, Reads
<1>2. Knows([frame[p] EXCEPT !.pc = "siblings", !.asks = "nothing", !.pack = NoPack,
                             !.todo = frame[p].pack \ {frame[p].obj}])
  BY <1>1 DEF Knows, Reads, Frame
<1>. QED  BY <1>1, <1>2, CommittedKnows, KnowsSet DEF HasIndex, TypeInv

LEMMA CallKnows ==
  ASSUME TypeInv, NEW p \in Proc, Call(p)
  PROVE  \A q \in Proc : Knows(frame'[q])
<1>1. ASSUME NEW o \in Obj, NEW retry \in BOOLEAN, DataForSHA1(p, o, retry)
      PROVE  \A q \in Proc : Knows(frame'[q])
  <2>1. Knows([Idle EXCEPT !.pc = "entry", !.op = "data", !.asks = "read", !.obj = o,
                           !.reads = o, !.max = IF retry THEN MaxRetries ELSE 1])
    BY PackSetAssumption DEF Knows, Reads, Idle
  <2>. QED  BY <1>1, <2>1, KnowsSet DEF DataForSHA1, Begin, TypeInv
<1>2. ASSUME NEW o \in Obj, PutData(p, o)
      PROVE  \A q \in Proc : Knows(frame'[q])
  <2>1. Knows([Idle EXCEPT !.pc = "entry", !.op = "put", !.asks = "put", !.obj = o])
    BY DEF Knows, Reads, Idle
  <2>. QED  BY <1>2, <2>1, KnowsSet DEF PutData, Begin, TypeInv
<1>3. ASSUME NEW o \in Obj, DeleteBlobForSHA1(p, o)
      PROVE  \A q \in Proc : Knows(frame'[q])
  <2>1. Knows([Idle EXCEPT !.pc = "entry", !.op = "delete", !.asks = "find", !.obj = o])
    BY DEF Knows, Reads, Idle
  <2>. QED  BY <1>3, <2>1, KnowsSet DEF DeleteBlobForSHA1, Begin, TypeInv
<1>4. CASE CommitCall(p)
  <2>1. [Idle EXCEPT !.op = "commit"] \in Frame /\ [Idle EXCEPT !.op = "commit"].tries = 0
    BY IdleIsFrame DEF Frame, Idle
  <2>. QED  BY <1>4, <2>1, CommitKnows DEF CommitCall
<1>5. CASE ClearCache(p) \/ ReloadCache(p)
  BY <1>5, IdleKnows, KnowsSet DEF ClearCache, ReloadCache, Begin, TypeInv
<1>. QED  BY <1>1, <1>2, <1>3, <1>4, <1>5 DEF Call

LEMMA StepKnows ==
  ASSUME TypeInv, NEW p \in Proc, Step(p)
  PROVE  \A q \in Proc : Knows(frame'[q])
<1>. DEFINE Goal == \A q \in Proc : Knows(frame'[q])
<1>0. /\ frame[p] \in Frame /\ Knows(frame[p]) /\ frame \in [Proc -> Frame]
      /\ \A q \in Proc : Knows(frame[q])
  BY DEF TypeInv, Typed
<1>1. CASE ListPacks(p)
  <2>. DEFINE listed == Listing(p).packs
              toLoad == listed \ dbPacks[p]
  <2>1. frame' = [frame EXCEPT ![p] =
           [frame[p] EXCEPT !.pc = IF toLoad = {} THEN "stale" ELSE "loading",
              !.listed = listed, !.toLoad = toLoad, !.skipped = {}]]
    BY <1>0, <1>1 DEF ListPacks
  <2>2. Knows([frame[p] EXCEPT !.pc = IF toLoad = {} THEN "stale" ELSE "loading",
                 !.listed = listed, !.toLoad = toLoad, !.skipped = {}])
    BY <1>0, <1>1 DEF Knows, Reads, Frame
  <2>. QED  BY <2>1, <2>2, KnowsSet DEF TypeInv
<1>2. CASE WaitForCompletion(p)
  <2>1. Knows([frame[p] EXCEPT !.pc = "stale"])
    BY <1>0 DEF Knows, Reads, Frame
  <2>2. \/ frame' = [frame EXCEPT ![p] = [frame[p] EXCEPT !.pc = "stale"]]
        \/ LoadFailed(p)
    BY <1>0, <1>2 DEF WaitForCompletion
  <2>. QED  BY <2>1, <2>2, KnowsSet, LoadFailedKnows DEF TypeInv
<1>3. CASE FinishLoad(p)
  <2>1. Knows([LoadEnded(frame[p]) EXCEPT !.pc = "entry"])
    BY <1>0 DEF Knows, Reads, LoadEnded, Frame
  <2>. QED  BY <1>3, <2>1, KnowsSet DEF FinishLoad, TypeInv
<1>4. ASSUME NEW t \in Thread, LoadPackId(p, t)
      PROVE  Goal
  <2>1. PICK pack \in frame[p].toLoad :
           \/ frame' = [frame EXCEPT ![p].toLoad = @ \ {pack}]
           \/ frame' = [frame EXCEPT ![p].toLoad = @ \ {pack},
                                     ![p].skipped = @ \cup {pack}]
    BY <1>4 DEF LoadPackId
  <2>2. /\ Knows([frame[p] EXCEPT !.toLoad = @ \ {pack}])
        /\ Knows([frame[p] EXCEPT !.toLoad = @ \ {pack}, !.skipped = @ \cup {pack}])
    BY <1>0 DEF Knows, Reads, Frame
  <2>3. \/ frame' = [frame EXCEPT ![p] = [frame[p] EXCEPT !.toLoad = @ \ {pack}]]
        \/ frame' = [frame EXCEPT ![p] = [frame[p] EXCEPT !.toLoad = @ \ {pack},
                                                          !.skipped = @ \cup {pack}]]
    BY <1>0, <2>1
  <2>. QED  BY <2>2, <2>3, KnowsSet DEF TypeInv
<1>5. CASE \/ RemoveStale(p)
           \/ \E t \in Thread : SaveRebuiltIndex(p, t) \/ InsertLoaded(p, t)
  BY <1>0, <1>5 DEF RemoveStale, SaveRebuiltIndex, InsertLoaded
<1>6. CASE FindForRead(p)
  <2>. DEFINE o == frame[p].reads
  <2>1. CASE entry[p][o] # NoPack
    <3>1. Knows([frame[p] EXCEPT !.pc = "fetch", !.pack = entry[p][o]])
      BY <1>0, <1>6 DEF FindForRead, Asks, Knows, Reads, Frame
    <3>2. frame' = [frame EXCEPT ![p] =
                      [frame[p] EXCEPT !.pc = "fetch", !.pack = entry[p][o]]]
      BY <1>0, <1>6, <2>1 DEF FindForRead
    <3>. QED  BY <3>1, <3>2, KnowsSet DEF TypeInv
  <2>2. CASE ~(entry[p][o] # NoPack)
    BY <1>6, <2>2, IdleKnows, ReadSucceedsKnows, KnowsSet
       DEF FindForRead, Return, TypeInv
  <2>. QED  BY <2>1, <2>2
<1>7. CASE Fetch(p)
  <2>1. CASE Readable(p, frame[p].pack)
    BY <1>7, <2>1, ReadSucceedsKnows DEF Fetch
  <2>2. CASE ~Readable(p, frame[p].pack)
    <3>1. Knows([frame[p] EXCEPT !.pc = "entry", !.asks = "missing", !.pack = NoPack])
      BY <1>0, <1>7 DEF Fetch, Knows, Reads, Frame
    <3>2. frame' = [frame EXCEPT ![p] = [frame[p] EXCEPT
                      !.pc = "entry", !.asks = "missing", !.pack = NoPack]]
      BY <1>0, <1>7, <2>2 DEF Fetch
    <3>. QED  BY <3>1, <3>2, KnowsSet DEF TypeInv
  <2>. QED  BY <2>1, <2>2
<1>8. CASE ForgetMissingPack(p)
  BY <1>0, <1>8, TryAgainKnows DEF ForgetMissingPack, Asks, Knows, Reads
<1>9. CASE AddToPackBuilder(p) \/ RemoveData(p)
  <2>1. frame[p].tries = 0
    BY <1>0, <1>9 DEF AddToPackBuilder, RemoveData, Asks, Knows, Reads
  <2>. QED  BY <1>0, <1>9, <2>1, CommitKnows, IdleKnows, KnowsSet
            DEF AddToPackBuilder, RemoveData, Return, TypeInv
<1>10. CASE FindForDelete(p)
  <2>. DEFINE pack == entry[p][frame[p].obj]
              next == [frame[p] EXCEPT !.pc = "index", !.pack = pack, !.victim = pack]
  <2>1. Knows(next)
    BY <1>0, <1>10 DEF FindForDelete, Asks, Knows, Reads, Frame
  <2>2. frame' = [frame EXCEPT ![p] = Idle] \/ frame' = [frame EXCEPT ![p] = next]
    BY <1>0, <1>10 DEF FindForDelete, Return
  <2>. QED  BY <2>1, <2>2, IdleKnows, KnowsSet DEF TypeInv
<1>11. CASE ReadPackIndex(p)
  <2>1. Knows([frame[p] EXCEPT !.pc = "rebuild"])
    BY <1>0, <1>11 DEF ReadPackIndex, Knows, Reads, Frame
  <2>2. \/ HasIndex(p)
        \/ frame' = [frame EXCEPT ![p] = [frame[p] EXCEPT !.pc = "rebuild"]]
        \/ frame' = [frame EXCEPT ![p] = Idle]
    BY <1>0, <1>11 DEF ReadPackIndex, Return
  <2>3. frame[p].pc = "index"
    BY <1>11 DEF ReadPackIndex
  <2>. QED  BY <2>1, <2>2, <2>3, HasIndexKnows, IdleKnows, KnowsSet DEF TypeInv
<1>12. CASE RebuildPackIndex(p)
  BY <1>12, HasIndexKnows DEF RebuildPackIndex
<1>13. CASE ReadNextSibling(p)
  <2>1. PICK o \in frame[p].todo :
          frame' = [frame EXCEPT ![p].pc = "entry", ![p].asks = "read",
                                 ![p].reads = o, ![p].max = 1]
    BY <1>13 DEF ReadNextSibling
  <2>. DEFINE next == [frame[p] EXCEPT !.pc = "entry", !.asks = "read",
                                       !.reads = o, !.max = 1]
  <2>2. Knows(next)
    BY <1>0, <2>1 DEF Knows, Reads, Frame
  <2>3. frame' = [frame EXCEPT ![p] = next]
    BY <1>0, <2>1
  <2>. QED  BY <2>2, <2>3, KnowsSet DEF TypeInv
<1>14. CASE PutPack(p) \/ PutIndex(p) \/ DeletePack(p)
  <2>1. PICK next \in {"putIndex", "index", "deleteIndex"} :
          frame' = [frame EXCEPT ![p].pc = next]
    BY <1>14 DEF PutPack, PutIndex, DeletePack
  <2>2. Knows([frame[p] EXCEPT !.pc = next])
    BY <1>0, <1>14, <2>1 DEF PutPack, PutIndex, DeletePack, Knows, Reads, Frame
  <2>3. frame' = [frame EXCEPT ![p] = [frame[p] EXCEPT !.pc = next]]
    BY <1>0, <2>1
  <2>. QED  BY <2>2, <2>3, KnowsSet DEF TypeInv
<1>15. CASE DeleteIndex(p)
  BY <1>15, IdleKnows, KnowsSet DEF DeleteIndex, Return, TypeInv
<1>. QED
  BY <1>1, <1>2, <1>3, <1>4, <1>5, <1>6, <1>7, <1>8, <1>9, <1>10, <1>11, <1>12,
     <1>13, <1>14, <1>15 DEF Step, Load

LEMMA FailsKnows ==
  ASSUME TypeInv, NEW p \in Proc, Fails(p)
  PROVE  \A q \in Proc : Knows(frame'[q])
<1>0. /\ frame[p] \in Frame /\ Knows(frame[p]) /\ frame \in [Proc -> Frame]
      /\ \A q \in Proc : Knows(frame[q])
  BY DEF TypeInv, Typed
<1>1. CASE CallFails(p) \/ PutFails(p) \/ RemovalFails(p) \/ Restart(p)
  BY <1>1, IdleKnows, LoadFailedKnows, KnowsSet
     DEF CallFails, PutFails, RemovalFails, Restart, Return, TypeInv
<1>2. ASSUME NEW t \in Thread, WorkerFails(p, t)
      PROVE  \A q \in Proc : Knows(frame'[q])
  <2>1. CASE UNCHANGED frame
    BY <1>0, <2>1
  <2>2. ASSUME NEW pack \in frame[p].toLoad,
               frame' = [frame EXCEPT ![p].toLoad = @ \ {pack}]
        PROVE  \A q \in Proc : Knows(frame'[q])
    <3>1. Knows([frame[p] EXCEPT !.toLoad = @ \ {pack}])
      BY <1>0 DEF Knows, Reads, Frame
    <3>2. frame' = [frame EXCEPT ![p] = [frame[p] EXCEPT !.toLoad = @ \ {pack}]]
      BY <1>0, <2>2
    <3>. QED  BY <3>1, <3>2, KnowsSet DEF TypeInv
  <2>. QED  BY <1>2, <2>1, <2>2 DEF WorkerFails
<1>. QED  BY <1>1, <1>2 DEF Fails

LEMMA NextTypes == TypeInv /\ [Next]_vars => TypeInv'
<1>1. ASSUME TypeInv, UNCHANGED vars
      PROVE  TypeInv'
  BY <1>1 DEF TypeInv, Typed, vars, target, fark, db, packBuilder, pieLoader,
              history, bounds
<1>2. ASSUME TypeInv, Next
      PROVE  Typed'
  <2>1. Typed /\ \A p \in Proc : Knows(frame[p])
    BY <1>2 DEF TypeInv
  <2>. QED  BY <1>2, <2>1, CallTypes, LoadTypes, ReadTypes, WriteTypes, FailTypes
            DEF Next, Step
<1>3. ASSUME TypeInv, Next
      PROVE  \A q \in Proc : Knows(frame'[q])
  BY <1>3, CallKnows, StepKnows, FailsKnows DEF Next
<1>. QED  BY <1>1, <1>2, <1>3 DEF TypeInv

LEMMA InitTypeInv == Init => TypeInv
BY InitTyped, IdleKnows DEF Init, TypeInv

\* Every variable keeps its type: a call never tries more often than it may,
\* and what it looks up, reads and writes is an object or a pack.
THEOREM TypeCorrect == Spec => []TypeOK
<1>1. Init => TypeInv
  BY InitTypeInv
<1>2. TypeInv /\ [Next]_vars => TypeInv'
  BY NextTypes
<1>3. TypeInv => TypeOK
  BY DEF TypeInv, TypeOK, HasTurnLeft, Knows, Reads
<1>. QED  BY <1>1, <1>2, <1>3, PTL DEF Spec

(***************************************************************************)
(* The database.                                                           *)
(***************************************************************************)

LEMMA InsertKeepsBacked ==
  ASSUME Typed, EntriesAreBacked, NEW p \in Proc, NEW pack \in Pack,
         InsertPackId(p, pack)
  PROVE  EntriesAreBacked'
<1>. SUFFICES ASSUME NEW q \in Proc, NEW o \in Obj, entry'[q][o] # NoPack
              PROVE  entry'[q][o] \in dbPacks'[q] /\ o \in entry'[q][o]
  BY DEF EntriesAreBacked
<1>1. /\ dbPacks' = [dbPacks EXCEPT ![p] = dbPacks[p] \cup {pack}]
      /\ entry' = [entry EXCEPT ![p] =
           [x \in Obj |-> IF x \in pack THEN pack ELSE entry[p][x]]]
      /\ dbPacks \in [Proc -> SUBSET Pack] /\ entry \in [Proc -> [Obj -> Pack]]
  BY DEF InsertPackId, Typed
<1>2. CASE q = p /\ o \in pack
  BY <1>1, <1>2
<1>3. CASE ~(q = p /\ o \in pack)
  <2>1. entry'[q][o] = entry[q][o] /\ dbPacks[q] \subseteq dbPacks'[q]
    BY <1>1, <1>3
  <2>. QED  BY <2>1 DEF EntriesAreBacked
<1>. QED  BY <1>2, <1>3

LEMMA DeleteKeepsBacked ==
  ASSUME Typed, EntriesAreBacked, NEW p \in Proc, NEW pack \in Pack,
         DeletePackId(p, pack)
  PROVE  EntriesAreBacked'
<1>. SUFFICES ASSUME NEW q \in Proc, NEW o \in Obj, entry'[q][o] # NoPack
              PROVE  entry'[q][o] \in dbPacks'[q] /\ o \in entry'[q][o]
  BY DEF EntriesAreBacked
<1>1. /\ dbPacks' = [dbPacks EXCEPT ![p] = dbPacks[p] \ {pack}]
      /\ entry' = [entry EXCEPT ![p] =
           [x \in Obj |-> IF entry[p][x] = pack THEN NoPack ELSE entry[p][x]]]
      /\ dbPacks \in [Proc -> SUBSET Pack] /\ entry \in [Proc -> [Obj -> Pack]]
  BY DEF DeletePackId, Typed
<1>2. entry'[q][o] = entry[q][o] /\ ~(q = p /\ entry[q][o] = pack)
  BY <1>1
<1>3. dbPacks'[q] = IF q = p THEN dbPacks[p] \ {pack} ELSE dbPacks[q]
  BY <1>1
<1>. QED  BY <1>2, <1>3 DEF EntriesAreBacked

LEMMA NextBacked == TypeInv /\ EntriesAreBacked /\ [Next]_vars => EntriesAreBacked'
<1>. USE DEF vars, target, fark, db, packBuilder, pieLoader, history, bounds
<1>. SUFFICES ASSUME TypeInv, EntriesAreBacked, [Next]_vars
              PROVE  EntriesAreBacked'
  OBVIOUS
<1>1. Typed /\ frame \in [Proc -> Frame] /\ entry \in [Proc -> [Obj -> Pack]]
  BY DEF TypeInv, Typed
<1>2. CASE UNCHANGED db
  BY <1>2 DEF EntriesAreBacked
<1>3. ASSUME NEW p \in Proc, NEW t \in Thread, InsertLoaded(p, t)
      PROVE  EntriesAreBacked'
  <2>1. job[p][t].pack \in Pack
    BY DEF TypeInv, Typed, Jobs
  <2>. QED  BY <1>1, <1>3, <2>1, InsertKeepsBacked DEF InsertLoaded
<1>4. ASSUME NEW p \in Proc, RemoveStale(p)
      PROVE  EntriesAreBacked'
  <2>1. dbPacks[p] \subseteq Pack
    BY <1>1 DEF Typed
  <2>. QED  BY <1>1, <1>4, <2>1, DeleteKeepsBacked DEF RemoveStale
<1>5. ASSUME NEW p \in Proc, ForgetMissingPack(p)
      PROVE  EntriesAreBacked'
  <2>1. entry[p][frame[p].reads] \in Pack
    BY <1>1, <1>5 DEF ForgetMissingPack, Asks, TypeInv, Knows, Reads
  <2>. QED  BY <1>1, <1>2, <1>5, <2>1, DeleteKeepsBacked DEF ForgetMissingPack
<1>6. ASSUME NEW p \in Proc, HasIndex(p)
      PROVE  EntriesAreBacked'
  <2>1. frame[p].pack \in Pack
    BY <1>1 DEF Frame
  <2>. QED  BY <1>1, <1>2, <1>6, <2>1, InsertKeepsBacked DEF HasIndex
<1>7. ASSUME NEW p \in Proc, ReadPackIndex(p) \/ RebuildPackIndex(p)
      PROVE  EntriesAreBacked'
  BY <1>2, <1>6, <1>7 DEF ReadPackIndex, RebuildPackIndex
<1>8. ASSUME NEW p \in Proc, Call(p)
      PROVE  UNCHANGED db
  BY <1>8 DEF Call, DataForSHA1, PutData, DeleteBlobForSHA1, CommitCall, ClearCache,
              ReloadCache, Begin
<1>9. ASSUME NEW p \in Proc, Fails(p)
      PROVE  UNCHANGED db
  BY <1>9 DEF Fails, WorkerFails, CallFails, PutFails, RemovalFails, Restart
<1>10. ASSUME NEW p \in Proc,
              \/ ListPacks(p) \/ WaitForCompletion(p) \/ FinishLoad(p)
              \/ \E t \in Thread : LoadPackId(p, t) \/ SaveRebuiltIndex(p, t)
       PROVE  UNCHANGED db
  BY <1>10 DEF ListPacks, WaitForCompletion, FinishLoad, LoadPackId, SaveRebuiltIndex
<1>11. ASSUME NEW p \in Proc,
              \/ FindForRead(p) \/ Fetch(p) \/ AddToPackBuilder(p) \/ FindForDelete(p)
              \/ ReadNextSibling(p) \/ RemoveData(p) \/ PutPack(p) \/ PutIndex(p)
              \/ DeletePack(p) \/ DeleteIndex(p)
       PROVE  UNCHANGED db
  BY <1>11 DEF FindForRead, Fetch, AddToPackBuilder, FindForDelete, ReadNextSibling,
               RemoveData, PutPack, PutIndex, DeletePack, DeleteIndex
<1>. QED
  BY <1>2, <1>3, <1>4, <1>5, <1>7, <1>8, <1>9, <1>10, <1>11 DEF Next, Step, Load

\* The row of an object names a pack that is in the database and that holds
\* the object, whatever other processes do to the target meanwhile.
THEOREM DatabaseSound == Spec => []EntriesAreBacked
<1>1. Init => TypeInv /\ EntriesAreBacked
  BY InitTypeInv DEF Init, EntriesAreBacked
<1>2. TypeInv /\ EntriesAreBacked /\ [Next]_vars => TypeInv' /\ EntriesAreBacked'
  BY NextTypes, NextBacked
<1>. QED  BY <1>1, <1>2, PTL DEF Spec

(***************************************************************************)
(* The load.  While its threads run, every pack of the list is stored, or  *)
(* still to be loaded, or skipped, or in the hands of a thread, unless an  *)
(* error has been noted; outside a load no thread is at work.              *)
(***************************************************************************)

InHand(p, pack) ==
  \E t \in Thread : job[p][t].at # "next" /\ job[p][t].pack = pack

LoadInvOf(p) ==
  /\ frame[p].pc # "loading" =>
       loadError[p] = "none" /\ \A t \in Thread : job[p][t].at = "next"
  /\ frame[p].pc = "loading" /\ loadError[p] = "none" =>
       \A pack \in frame[p].listed :
         \/ pack \in dbPacks[p] \cup frame[p].toLoad \cup frame[p].skipped
         \/ InHand(p, pack)
  /\ frame[p].pc = "stale" =>
       frame[p].listed \subseteq dbPacks[p] \cup frame[p].skipped

LoadInv == \A p \in Proc : LoadInvOf(p)

\* The next state of a call: it is at no step of a load.
NotLoading(p) ==
  /\ frame'[p].pc \notin {"loading", "stale"}
  /\ \A q \in Proc \ {p} : frame'[q] = frame[q]

LEMMA FrameIs ==
  ASSUME frame \in [Proc -> Frame], NEW p \in Proc, NEW f,
         f.pc \notin {"loading", "stale"}, frame' = [frame EXCEPT ![p] = f]
  PROVE  NotLoading(p)
BY DEF NotLoading

LEMMA AfterReturn ==
  ASSUME frame \in [Proc -> Frame], NEW p \in Proc, Return(p)
  PROVE  NotLoading(p)
<1>1. Idle.pc \notin {"loading", "stale"}
  BY DEF Idle
<1>2. frame' = [frame EXCEPT ![p] = Idle]
  BY DEF Return
<1>. QED  BY <1>1, <1>2, FrameIs

LEMMA AfterTryAgain ==
  ASSUME frame \in [Proc -> Frame], NEW p \in Proc, TryAgain(p)
  PROVE  NotLoading(p)
<1>. DEFINE f == [LoadEnded(frame[p]) EXCEPT !.pc = "entry", !.asks = "read",
                                             !.tries = frame[p].tries + 1]
<1>1. CASE frame[p].tries + 1 < frame[p].max
  <2>1. f.pc \notin {"loading", "stale"}
    BY DEF LoadEnded, Frame
  <2>2. frame' = [frame EXCEPT ![p] = f]
    BY <1>1 DEF TryAgain
  <2>. HIDE DEF f
  <2>. QED  BY <2>1, <2>2, FrameIs
<1>2. CASE ~(frame[p].tries + 1 < frame[p].max)
  BY <1>2, AfterReturn DEF TryAgain
<1>. QED  BY <1>1, <1>2

LEMMA AfterLoadFailed ==
  ASSUME frame \in [Proc -> Frame], NEW p \in Proc, LoadFailed(p)
  PROVE  NotLoading(p)
BY AfterTryAgain, AfterReturn DEF LoadFailed

LEMMA AfterReadSucceeds ==
  ASSUME frame \in [Proc -> Frame], NEW p \in Proc, ReadSucceeds(p)
  PROVE  NotLoading(p)
<1>. DEFINE f == [frame[p] EXCEPT !.pc = "siblings", !.asks = "nothing",
                                  !.pack = NoPack,
                                  !.todo = frame[p].todo \ {frame[p].reads},
                                  !.reads = None, !.tries = 0]
<1>1. CASE frame[p].op = "delete"
  <2>1. f.pc \notin {"loading", "stale"}
    BY DEF Frame
  <2>2. frame' = [frame EXCEPT ![p] = f]
    BY <1>1 DEF ReadSucceeds
  <2>. HIDE DEF f
  <2>. QED  BY <2>1, <2>2, FrameIs
<1>2. CASE frame[p].op # "delete"
  BY <1>2, AfterReturn DEF ReadSucceeds
<1>. QED  BY <1>1, <1>2

LEMMA CommittedIsNotLoading ==
  ASSUME NEW f \in Frame
  PROVE  Committed(f).pc \notin {"loading", "stale"}
BY DEF Committed, Frame, Idle

LEMMA AfterCommit ==
  ASSUME frame \in [Proc -> Frame], NEW p \in Proc, NEW f \in Frame, Commit(p, f)
  PROVE  NotLoading(p)
<1>. DEFINE g == [f EXCEPT !.pc = "putPack", !.asks = "new", !.pack = builder'[p]]
<1>1. CASE NothingToCommit(p)
  <2>1. frame' = [frame EXCEPT ![p] = Committed(f)]
    BY <1>1 DEF Commit
  <2>. QED  BY <2>1, CommittedIsNotLoading, FrameIs
<1>2. CASE ~NothingToCommit(p)
  <2>1. g.pc \notin {"loading", "stale"}
    BY DEF Frame
  <2>2. frame' = [frame EXCEPT ![p] = g]
    BY <1>2 DEF Commit
  <2>. HIDE DEF g
  <2>. QED  BY <2>1, <2>2, FrameIs
<1>. QED  BY <1>1, <1>2

LEMMA AfterHasIndex ==
  ASSUME frame \in [Proc -> Frame], NEW p \in Proc, HasIndex(p)
  PROVE  NotLoading(p)
<1>. DEFINE f == [frame[p] EXCEPT !.pc = "siblings", !.asks = "nothing",
                                  !.pack = NoPack,
                                  !.todo = frame[p].pack \ {frame[p].obj}]
<1>1. CASE frame[p].asks = "new"
  <2>1. frame' = [frame EXCEPT ![p] = Committed(frame[p])]
    BY <1>1 DEF HasIndex
  <2>. QED  BY <2>1, CommittedIsNotLoading, FrameIs
<1>2. CASE frame[p].asks # "new"
  <2>1. f.pc \notin {"loading", "stale"}
    BY DEF Frame
  <2>2. frame' = [frame EXCEPT ![p] = f]
    BY <1>2 DEF HasIndex
  <2>. HIDE DEF f
  <2>. QED  BY <2>1, <2>2, FrameIs
<1>. QED  BY <1>1, <1>2

\* A step that neither starts nor continues a load.
LEMMA Elsewhere ==
  ASSUME Typed, LoadInv, NEW p \in Proc,
         frame[p].pc # "loading", NotLoading(p), UNCHANGED pieLoader,
         \A q \in Proc \ {p} : dbPacks'[q] = dbPacks[q]
  PROVE  LoadInv'
BY DEF LoadInv, LoadInvOf, InHand, pieLoader, NotLoading

\* A step of a load is about its own process.
LEMMA OtherProcesses ==
  ASSUME LoadInv, NEW p \in Proc, LoadInvOf(p)',
         \A q \in Proc \ {p} : /\ frame'[q] = frame[q] /\ dbPacks'[q] = dbPacks[q]
                               /\ job'[q] = job[q] /\ loadError'[q] = loadError[q]
  PROVE  LoadInv'
BY DEF LoadInv, LoadInvOf, InHand
LEMMA DatabaseElsewhere ==
  ASSUME Typed, NEW p \in Proc,
         UNCHANGED db \/ \E pack \in Pack : InsertPackId(p, pack) \/ DeletePackId(p, pack)
  PROVE  \A q \in Proc \ {p} : dbPacks'[q] = dbPacks[q]
BY DEF Typed, db, InsertPackId, DeletePackId

LEMMA CallKeepsLoadInv ==
  ASSUME Typed, LoadInv, NEW p \in Proc, Call(p)
  PROVE  LoadInv'
<1>0. frame \in [Proc -> Frame] /\ Idle \in Frame
  BY IdleIsFrame DEF Typed
<1>1. frame[p] = Idle /\ UNCHANGED <<db, pieLoader>>
  BY DEF Call, DataForSHA1, PutData, DeleteBlobForSHA1, CommitCall, ClearCache,
         ReloadCache, Begin
<1>2. ASSUME NEW f \in Frame, f.pc \notin {"loading", "stale"}, Begin(p, f)
      PROVE  NotLoading(p)
  BY <1>0, <1>2, FrameIs DEF Begin
<1>3. ASSUME NEW o \in Obj, NEW retry \in BOOLEAN, DataForSHA1(p, o, retry)
      PROVE  NotLoading(p)
  <2>. DEFINE f == [Idle EXCEPT !.pc = "entry", !.op = "data", !.asks = "read",
                                !.obj = o, !.reads = o,
                                !.max = IF retry THEN MaxRetries ELSE 1]
  <2>1. f.pc \notin {"loading", "stale"}
    BY DEF Idle
  <2>2. frame' = [frame EXCEPT ![p] = f]
    BY <1>3 DEF DataForSHA1, Begin
  <2>. HIDE DEF f
  <2>. QED  BY <1>0, <2>1, <2>2, FrameIs
<1>4. ASSUME NEW o \in Obj, PutData(p, o)
      PROVE  NotLoading(p)
  <2>. DEFINE f == [Idle EXCEPT !.pc = "entry", !.op = "put", !.asks = "put",
                                !.obj = o]
  <2>1. f.pc \notin {"loading", "stale"}
    BY DEF Idle
  <2>2. frame' = [frame EXCEPT ![p] = f]
    BY <1>4 DEF PutData, Begin
  <2>. HIDE DEF f
  <2>. QED  BY <1>0, <2>1, <2>2, FrameIs
<1>5. ASSUME NEW o \in Obj, DeleteBlobForSHA1(p, o)
      PROVE  NotLoading(p)
  <2>. DEFINE f == [Idle EXCEPT !.pc = "entry", !.op = "delete", !.asks = "find",
                                !.obj = o]
  <2>1. f.pc \notin {"loading", "stale"}
    BY DEF Idle
  <2>2. frame' = [frame EXCEPT ![p] = f]
    BY <1>5 DEF DeleteBlobForSHA1, Begin
  <2>. HIDE DEF f
  <2>. QED  BY <1>0, <2>1, <2>2, FrameIs
<1>6. CommitCall(p) => NotLoading(p)
  <2>1. [Idle EXCEPT !.op = "commit"] \in Frame
    BY <1>0 DEF Frame
  <2>. QED  BY <1>0, <2>1, AfterCommit DEF CommitCall
<1>7. ClearCache(p) \/ ReloadCache(p) => NotLoading(p)
  BY <1>0, <1>2, Zenon DEF ClearCache, ReloadCache, Idle
<1>8. NotLoading(p)
  BY <1>3, <1>4, <1>5, <1>6, <1>7 DEF Call
<1>9. frame[p].pc # "loading"
  BY <1>1 DEF Idle
<1>. QED  BY <1>1, <1>8, <1>9, DatabaseElsewhere, Elsewhere
LEMMA MoveOn ==
  ASSUME frame \in [Proc -> Frame], NEW p \in Proc,
         NEW next \in {"putIndex", "index", "deleteIndex", "rebuild"},
         frame' = [frame EXCEPT ![p].pc = next]
  PROVE  NotLoading(p)
BY DEF NotLoading, Frame

\* A step of a call outside a load.
LEMMA StepKeepsLoadInv ==
  ASSUME TypeInv, LoadInv, NEW p \in Proc, Step(p), ~Load(p)
  PROVE  LoadInv'
<1>. USE DEF db, pieLoader
<1>0. /\ Typed /\ frame \in [Proc -> Frame] /\ frame[p] \in Frame
      /\ frame[p].pack \in Pack /\ entry \in [Proc -> [Obj -> Pack]]
  BY DEF TypeInv, Typed, Frame
<1>1. ASSUME NotLoading(p), frame[p].pc # "loading", UNCHANGED pieLoader,
             UNCHANGED db \/ \E pack \in Pack : \/ InsertPackId(p, pack)
                                                \/ DeletePackId(p, pack)
      PROVE  LoadInv'
  <2>1. \A q \in Proc \ {p} : dbPacks'[q] = dbPacks[q]
    BY <1>0, <1>1, DatabaseElsewhere
  <2>. QED  BY <1>0, <1>1, <2>1, Elsewhere
<1>2. CASE FindForRead(p)
  <2>1. ASSUME frame' = [frame EXCEPT ![p].pc = "fetch",
                                      ![p].pack = entry[p][frame[p].reads]]
        PROVE  NotLoading(p)
    BY <1>0, <2>1 DEF NotLoading, Frame
  <2>2. NotLoading(p)
    BY <1>0, <1>2, <2>1, AfterReturn, AfterReadSucceeds DEF FindForRead
  <2>. QED  BY <1>1, <1>2, <2>2 DEF FindForRead, Asks
<1>3. CASE Fetch(p)
  <2>1. ASSUME frame' = [frame EXCEPT ![p].pc = "entry", ![p].asks = "missing",
                                      ![p].pack = NoPack]
        PROVE  NotLoading(p)
    BY <1>0, <2>1 DEF NotLoading, Frame
  <2>2. NotLoading(p)
    BY <1>0, <1>3, <2>1, AfterReadSucceeds DEF Fetch
  <2>. QED  BY <1>1, <1>3, <2>2 DEF Fetch
<1>4. CASE ForgetMissingPack(p)
  <2>1. NotLoading(p)
    BY <1>0, <1>4, AfterTryAgain DEF ForgetMissingPack
  <2>2. entry[p][frame[p].reads] \in Pack
    BY <1>0, <1>4 DEF ForgetMissingPack, Asks, TypeInv, Knows, Reads
  <2>. QED  BY <1>1, <1>4, <2>1, <2>2 DEF ForgetMissingPack, Asks
<1>5. CASE AddToPackBuilder(p)
  <2>1. NotLoading(p)
    BY <1>0, <1>5, AfterReturn, AfterCommit DEF AddToPackBuilder
  <2>. QED  BY <1>1, <1>5, <2>1 DEF AddToPackBuilder, Asks
<1>6. CASE FindForDelete(p)
  <2>1. ASSUME frame' = [frame EXCEPT ![p].pc = "index",
                                      ![p].pack = entry[p][frame[p].obj],
                                      ![p].victim = entry[p][frame[p].obj]]
        PROVE  NotLoading(p)
    BY <1>0, <2>1 DEF NotLoading, Frame
  <2>2. NotLoading(p)
    BY <1>0, <1>6, <2>1, AfterReturn DEF FindForDelete
  <2>. QED  BY <1>1, <1>6, <2>2 DEF FindForDelete, Asks
<1>7. CASE ReadPackIndex(p)
  <2>1. NotLoading(p)
    BY <1>0, <1>7, AfterReturn, AfterHasIndex, MoveOn DEF ReadPackIndex
  <2>2. UNCHANGED db \/ \E pack \in Pack : InsertPackId(p, pack)
    BY <1>0, <1>7 DEF ReadPackIndex, HasIndex
  <2>. QED  BY <1>1, <1>7, <2>1, <2>2 DEF ReadPackIndex
<1>8. CASE RebuildPackIndex(p)
  <2>1. NotLoading(p)
    BY <1>0, <1>8, AfterHasIndex DEF RebuildPackIndex
  <2>2. UNCHANGED db \/ \E pack \in Pack : InsertPackId(p, pack)
    BY <1>0, <1>8 DEF RebuildPackIndex, HasIndex
  <2>. QED  BY <1>1, <1>8, <2>1, <2>2 DEF RebuildPackIndex
<1>9. CASE ReadNextSibling(p)
  <2>1. NotLoading(p)
    BY <1>0, <1>9 DEF ReadNextSibling, NotLoading, Frame
  <2>. QED  BY <1>1, <1>9, <2>1 DEF ReadNextSibling
<1>10. CASE RemoveData(p)
  <2>1. NotLoading(p)
    BY <1>0, <1>10, AfterCommit DEF RemoveData
  <2>. QED  BY <1>1, <1>10, <2>1 DEF RemoveData
<1>11. CASE PutPack(p) \/ PutIndex(p) \/ DeletePack(p)
  <2>1. NotLoading(p)
    BY <1>0, <1>11, MoveOn DEF PutPack, PutIndex, DeletePack
  <2>. QED  BY <1>1, <1>11, <2>1 DEF PutPack, PutIndex, DeletePack
<1>12. CASE DeleteIndex(p)
  <2>1. NotLoading(p)
    BY <1>0, <1>12, AfterReturn DEF DeleteIndex
  <2>. QED  BY <1>1, <1>12, <2>1 DEF DeleteIndex
<1>. QED
  BY <1>2, <1>3, <1>4, <1>5, <1>6, <1>7, <1>8, <1>9, <1>10, <1>11, <1>12 DEF Step

LEMMA FailsKeepsLoadInv ==
  ASSUME Typed, LoadInv, NEW p \in Proc, Fails(p)
  PROVE  LoadInv'
<1>. USE DEF db, pieLoader
<1>0. /\ frame \in [Proc -> Frame] /\ frame[p] \in Frame
      /\ job \in [Proc -> [Thread -> Jobs]]
      /\ loadError \in [Proc -> {"none", "error"}]
  BY DEF Typed
<1>1. CASE CallFails(p) \/ PutFails(p) \/ RemovalFails(p)
  <2>1. NotLoading(p)
    BY <1>0, <1>1, AfterReturn, AfterLoadFailed DEF CallFails, PutFails, RemovalFails
  <2>2. frame[p].pc # "loading" /\ UNCHANGED <<db, pieLoader>>
    BY <1>1 DEF CallFails, PutFails, RemovalFails
  <2>. QED  BY <2>1, <2>2, Elsewhere
<1>2. CASE Restart(p)
  <2>1. NotLoading(p) /\ UNCHANGED db
    BY <1>0, <1>2, AfterReturn DEF Restart
  <2>2. /\ loadError' = [loadError EXCEPT ![p] = "none"]
        /\ job' = [job EXCEPT ![p] = [t \in Thread |-> NoJob]]
    BY <1>2 DEF Restart
  <2>3. LoadInvOf(p)'
    BY <1>0, <2>1, <2>2 DEF LoadInvOf, NotLoading, NoJob
  <2>. QED  BY <1>0, <2>1, <2>2, <2>3, OtherProcesses DEF NotLoading
<1>3. ASSUME NEW t \in Thread, WorkerFails(p, t)
      PROVE  LoadInv'
  <2>1. /\ frame[p].pc = "loading" /\ frame'[p].pc = "loading"
        /\ \A q \in Proc \ {p} : frame'[q] = frame[q]
    BY <1>0, <1>3 DEF WorkerFails, Frame
  <2>2. /\ loadError'[p] = "error"
        /\ \A q \in Proc \ {p} : loadError'[q] = loadError[q] /\ job'[q] = job[q]
    BY <1>0, <1>3 DEF WorkerFails, SetJob
  <2>3. LoadInvOf(p)'
    BY <2>1, <2>2 DEF LoadInvOf
  <2>. QED  BY <1>3, <2>1, <2>2, <2>3, OtherProcesses DEF WorkerFails
<1>. QED  BY <1>1, <1>2, <1>3 DEF Fails
LEMMA LoadKeepsLoadInv ==
  ASSUME Typed, LoadInv, NEW p \in Proc, Load(p)
  PROVE  LoadInv'
<1>. USE DEF db, pieLoader
<1>0. /\ frame \in [Proc -> Frame] /\ frame[p] \in Frame
      /\ job \in [Proc -> [Thread -> Jobs]] /\ job[p] \in [Thread -> Jobs]
      /\ loadError \in [Proc -> {"none", "error"}]
      /\ dbPacks \in [Proc -> SUBSET Pack] /\ LoadInvOf(p)
  BY DEF Typed, LoadInv
<1>1. CASE ListPacks(p)
  <2>1. /\ frame'[p].pc \in {"stale", "loading"}
        /\ frame'[p].pc = "stale" => frame'[p].toLoad = {}
        /\ frame'[p].toLoad = frame'[p].listed \ dbPacks[p]
        /\ \A q \in Proc \ {p} : frame'[q] = frame[q]
    BY <1>0, <1>1 DEF ListPacks, Frame
  <2>2. UNCHANGED <<db, pieLoader>> /\ frame[p].pc = "entry"
    BY <1>1 DEF ListPacks
  <2>3. LoadInvOf(p)'
    BY <1>0, <2>1, <2>2 DEF LoadInvOf
  <2>. QED  BY <2>1, <2>2, <2>3, OtherProcesses
<1>2. ASSUME NEW t \in Thread, LoadPackId(p, t)
      PROVE  LoadInv'
  <2>1. /\ frame[p].pc = "loading" /\ job[p][t].at = "next"
        /\ loadError[p] = "none" /\ UNCHANGED db
    BY <1>2 DEF LoadPackId, HandsOut
  <2>2. PICK pack \in frame[p].toLoad :
          \/ /\ \/ SetJob(p, t, [at |-> "insert", pack |-> pack])
                \/ SetJob(p, t, [at |-> "rebuild", pack |-> pack])
             /\ frame' = [frame EXCEPT ![p].toLoad = @ \ {pack}]
             /\ UNCHANGED loadError
          \/ /\ loadError' = [loadError EXCEPT ![p] = "error"]
             /\ frame' = [frame EXCEPT ![p].toLoad = @ \ {pack}]
             /\ UNCHANGED job
          \/ /\ frame' = [frame EXCEPT ![p].toLoad = @ \ {pack},
                                       ![p].skipped = @ \cup {pack}]
             /\ UNCHANGED <<job, loadError>>
    BY <1>2 DEF LoadPackId
  <2>3. /\ frame'[p].pc = "loading" /\ frame'[p].listed = frame[p].listed
        /\ frame'[p].toLoad = frame[p].toLoad \ {pack}
        /\ frame[p].skipped \subseteq frame'[p].skipped
        /\ \A q \in Proc \ {p} : frame'[q] = frame[q]
    <3>1. CASE frame' = [frame EXCEPT ![p].toLoad = @ \ {pack}]
      BY <1>0, <2>1, <3>1 DEF Frame
    <3>2. CASE frame' = [frame EXCEPT ![p].toLoad = @ \ {pack},
                                      ![p].skipped = @ \cup {pack}]
      BY <1>0, <2>1, <3>2 DEF Frame
    <3>. QED  BY <2>2, <3>1, <3>2
  <2>4. /\ \A s \in Thread \ {t} : job'[p][s] = job[p][s]
        /\ \A q \in Proc \ {p} : job'[q] = job[q] /\ loadError'[q] = loadError[q]
    BY <1>0, <2>2 DEF SetJob
  <2>5. \A other : InHand(p, other) => InHand(p, other)'
    BY <2>1, <2>4 DEF InHand
  <2>6. loadError'[p] = "none" =>
           \/ pack \in frame'[p].skipped
           \/ job'[p][t].at # "next" /\ job'[p][t].pack = pack
    BY <1>0, <2>2 DEF SetJob, Frame
  <2>7. loadError'[p] = "none" => pack \in frame'[p].skipped \/ InHand(p, pack)'
    BY <2>6 DEF InHand
  <2>8. LoadInvOf(p)'
    BY <1>0, <2>1, <2>3, <2>5, <2>7 DEF LoadInvOf
  <2>. QED  BY <2>1, <2>3, <2>4, <2>8, OtherProcesses
<1>3. ASSUME NEW t \in Thread, SaveRebuiltIndex(p, t)
      PROVE  LoadInv'
  <2>1. /\ frame[p].pc = "loading" /\ UNCHANGED <<frame, db, loadError>>
        /\ job' = [job EXCEPT ![p][t] = [job[p][t] EXCEPT !.at = "insert"]]
    BY <1>3 DEF SaveRebuiltIndex, SetJob
  <2>2. /\ \A s \in Thread \ {t} : job'[p][s] = job[p][s]
        /\ job'[p][t].at = "insert" /\ job'[p][t].pack = job[p][t].pack
        /\ \A q \in Proc \ {p} : job'[q] = job[q]
    BY <1>0, <2>1 DEF Jobs
  <2>3. \A pack : InHand(p, pack) => InHand(p, pack)'
    BY <2>2 DEF InHand
  <2>4. LoadInvOf(p)'
    BY <1>0, <2>1, <2>3 DEF LoadInvOf
  <2>. QED  BY <2>1, <2>2, <2>4, OtherProcesses
<1>4. ASSUME NEW t \in Thread, InsertLoaded(p, t)
      PROVE  LoadInv'
  <2>1. /\ frame[p].pc = "loading" /\ UNCHANGED <<frame, loadError>>
        /\ job' = [job EXCEPT ![p][t] = NoJob]
        /\ dbPacks' = [dbPacks EXCEPT ![p] = @ \cup {job[p][t].pack}]
    BY <1>4 DEF InsertLoaded, SetJob, InsertPackId
  <2>2. /\ \A s \in Thread \ {t} : job'[p][s] = job[p][s]
        /\ \A q \in Proc \ {p} : job'[q] = job[q] /\ dbPacks'[q] = dbPacks[q]
        /\ dbPacks'[p] = dbPacks[p] \cup {job[p][t].pack}
    BY <1>0, <2>1
  <2>3. \A pack : InHand(p, pack) => InHand(p, pack)' \/ pack \in dbPacks'[p]
    BY <2>2 DEF InHand
  <2>4. LoadInvOf(p)'
    BY <1>0, <2>1, <2>2, <2>3 DEF LoadInvOf
  <2>. QED  BY <2>1, <2>2, <2>4, OtherProcesses
<1>5. CASE WaitForCompletion(p)
  <2>1. /\ frame[p].pc = "loading" /\ UNCHANGED <<db, job>>
        /\ \A t \in Thread : job[p][t].at = "next" /\ ~HandsOut(p)
        /\ loadError' = [loadError EXCEPT ![p] = "none"]
    BY <1>5 DEF WaitForCompletion, WorkerDidFinish
  <2>2. CASE loadError[p] = "none"
    <3>1. frame' = [frame EXCEPT ![p].pc = "stale"]
      BY <1>5, <2>2 DEF WaitForCompletion
    <3>2. /\ frame'[p].pc = "stale" /\ frame'[p].listed = frame[p].listed
          /\ frame'[p].skipped = frame[p].skipped
          /\ \A q \in Proc \ {p} : frame'[q] = frame[q]
      BY <1>0, <3>1 DEF Frame
    <3>3. frame[p].toLoad = {} /\ \A pack : ~InHand(p, pack)
      BY <2>1, <2>2, PackSetAssumption DEF HandsOut, InHand
    <3>4. LoadInvOf(p)'
      BY <1>0, <2>1, <2>2, <3>2, <3>3 DEF LoadInvOf
    <3>. QED  BY <1>0, <2>1, <3>2, <3>4, OtherProcesses
  <2>3. CASE loadError[p] # "none"
    <3>1. NotLoading(p)
      BY <1>0, <1>5, <2>3, AfterLoadFailed DEF WaitForCompletion
    <3>2. LoadInvOf(p)'
      BY <1>0, <2>1, <3>1 DEF LoadInvOf, NotLoading
    <3>. QED  BY <1>0, <2>1, <3>1, <3>2, OtherProcesses DEF NotLoading
  <2>. QED  BY <2>2, <2>3
<1>6. CASE RemoveStale(p)
  <2>1. PICK pack \in dbPacks[p] \ frame[p].listed : DeletePackId(p, pack)
    BY <1>6 DEF RemoveStale
  <2>2. frame[p].pc = "stale" /\ UNCHANGED <<frame, pieLoader>>
    BY <1>6 DEF RemoveStale
  <2>3. /\ dbPacks'[p] = dbPacks[p] \ {pack}
        /\ \A q \in Proc \ {p} : dbPacks'[q] = dbPacks[q]
    BY <1>0, <2>1 DEF DeletePackId
  <2>4. LoadInvOf(p)'
    BY <1>0, <2>1, <2>2, <2>3 DEF LoadInvOf
  <2>. QED  BY <2>2, <2>3, <2>4, OtherProcesses
<1>7. CASE FinishLoad(p)
  <2>. DEFINE f == [LoadEnded(frame[p]) EXCEPT !.pc = "entry"]
  <2>1. f.pc \notin {"loading", "stale"}
    BY <1>0 DEF LoadEnded, Frame
  <2>2. frame' = [frame EXCEPT ![p] = f] /\ frame[p].pc = "stale"
    BY <1>7 DEF FinishLoad
  <2>. HIDE DEF f
  <2>3. NotLoading(p)
    BY <1>0, <2>1, <2>2, FrameIs
  <2>. QED  BY <1>7, <2>2, <2>3, Elsewhere DEF FinishLoad
<1>. QED  BY <1>1, <1>2, <1>3, <1>4, <1>5, <1>6, <1>7 DEF Load

LEMMA NextLoadInv == TypeInv /\ LoadInv /\ [Next]_vars => LoadInv'
<1>1. LoadInv /\ UNCHANGED vars => LoadInv'
  BY DEF vars, db, pieLoader, LoadInv, LoadInvOf, InHand
<1>. QED
  BY <1>1, CallKeepsLoadInv, StepKeepsLoadInv, LoadKeepsLoadInv, FailsKeepsLoadInv
     DEF Next, TypeInv

LEMMA InitLoadInv == Init => LoadInv
BY DEF Init, LoadInv, LoadInvOf, Idle, NoJob

\* Only the end of a load makes a process take its database for loaded.
LEMMA OnlyFinishLoads ==
  ASSUME Typed, [Next]_vars, NEW p \in Proc, ~cacheIsLoaded[p], cacheIsLoaded'[p]
  PROVE  FinishLoad(p) /\ dbPacks' = dbPacks
<1>0. cacheIsLoaded \in [Proc -> BOOLEAN]
  BY DEF Typed
<1>1. ~UNCHANGED cacheIsLoaded
  OBVIOUS
<1>2. PICK q \in Proc : Call(q) \/ Step(q) \/ Fails(q)
  BY <1>1 DEF Next, vars
<1>3. ASSUME cacheIsLoaded' = [cacheIsLoaded EXCEPT ![q] = FALSE]
      PROVE  FALSE
  BY <1>0, <1>3
<1>4. ~Call(q)
  BY <1>1, <1>3 DEF Call, DataForSHA1, PutData, DeleteBlobForSHA1, CommitCall,
                    ClearCache, ReloadCache, Begin
<1>5. ~Fails(q)
  BY <1>1, <1>3 DEF Fails, WorkerFails, CallFails, PutFails, RemovalFails, Restart
<1>6. FinishLoad(q)
  BY <1>1, <1>2, <1>4, <1>5
     DEF Step, Load, ListPacks, WaitForCompletion, RemoveStale, LoadPackId,
         SaveRebuiltIndex, InsertLoaded, FindForRead, Fetch, ForgetMissingPack,
         AddToPackBuilder, FindForDelete, ReadPackIndex, RebuildPackIndex,
         ReadNextSibling, RemoveData, PutPack, PutIndex, DeletePack, DeleteIndex
<1>7. q = p
  BY <1>0, <1>6 DEF FinishLoad
<1>. QED  BY <1>6, <1>7 DEF FinishLoad, db

\* When a load ends well, the database and the pack list of that load hold the
\* same packs, but for those skipped for want of an index, however its threads
\* were scheduled and whatever of it failed or was repeated before.
THEOREM LoadsAreComplete == Spec => LoadIsComplete
<1>. DEFINE Complete == \A p \in Proc : ~cacheIsLoaded[p] /\ cacheIsLoaded'[p]
              => /\ dbPacks[p] \subseteq frame[p].listed
                 /\ frame[p].listed \subseteq dbPacks[p] \cup frame[p].skipped
<1>1. Init => TypeInv /\ LoadInv
  BY InitTypeInv, InitLoadInv
<1>2. TypeInv /\ LoadInv /\ [Next]_vars => TypeInv' /\ LoadInv'
  BY NextTypes, NextLoadInv
<1>3. TypeInv /\ LoadInv /\ [Next]_vars => [Complete]_vars
  <2>. SUFFICES ASSUME TypeInv, LoadInv, [Next]_vars, NEW p \in Proc,
                       ~cacheIsLoaded[p], cacheIsLoaded'[p]
                PROVE  /\ dbPacks[p] \subseteq frame[p].listed
                       /\ frame[p].listed \subseteq dbPacks[p] \cup frame[p].skipped
    OBVIOUS
  <2>1. FinishLoad(p)
    BY OnlyFinishLoads DEF TypeInv
  <2>. QED  BY <2>1 DEF FinishLoad, LoadInv, LoadInvOf
<1>. QED  BY <1>1, <1>2, <1>3, PTL DEF Spec, LoadIsComplete

(***************************************************************************)
(* What is kept.  While the objects of a pack are gathered, each of them   *)
(* is in the PackBuilder or still to be read; when the pack is removed,    *)
(* they are in a pack that nobody removes, or, after a failure, in the     *)
(* PackBuilder of a process that will not empty it.                        *)
(***************************************************************************)

\* The call has written its new pack, which may not be in the database yet.
Written(f) == f.asks = "new" /\ f.pc # "putPack"

Removing == {"deletePack", "deleteIndex"}

Gathers(f) ==
  /\ f.op = "delete" /\ f.pc \notin Removing
  /\ f.asks \in {"nothing", "read", "missing"}

\* What the locals of a call say, b being its PackBuilder and d what is to be
\* deleted.
CallInvOf(f, b, d) ==
  /\ f.asks = "put" => f.op = "put"
  /\ f.asks = "find" =>
       f.op = "delete" /\ (f.pc \in {"index", "rebuild"} => f.pack = f.victim
                                                             /\ f.obj \in f.pack)
  /\ f.pc \in {"index", "rebuild"} => f.asks \in {"find", "new"}
  /\ f.pc = "siblings" => f.asks = "nothing"
  /\ f.pc \in {"siblings"} \cup Removing => f.op = "delete"
  /\ f.pc \in {"putPack", "putIndex"} => f.asks = "new"
  /\ f.asks = "new" => f.pc \in {"putPack", "putIndex", "index", "rebuild"}
  /\ f.op = "delete" /\ f.pc \notin Removing => f.obj \in d
  /\ f.op = "delete" /\ f.pc \notin Removing /\ f.asks # "find" => f.obj \in f.victim
  /\ Gathers(f) => f.victim \ {f.obj} \subseteq b \cup f.todo
  /\ f.pc = "putPack" =>
       /\ f.pack = b
       /\ f.op = "delete" => f.victim \ {f.obj} \subseteq b /\ f.obj \notin b

CallInv == \A p \in Proc : CallInvOf(frame[p], builder[p], deleted)

\* Until something fails, what is in a PackBuilder is also to be committed.
BuilderInv ==
  \A p \in Proc : /\ builder[p] \subseteq buffer[p]
                  /\ trouble = 0 /\ builder[p] # {} => modified[p]

\* A process that writes the index of its pack is about to empty its
\* PackBuilder.
InMemory(o) == \E p \in Proc : frame[p].pc # "putIndex" /\ o \in builder[p]

Doomed(pack) == \E p \in Proc : Removes(frame[p]) /\ frame[p].victim = pack

Stored(o) == \E pack \in packs : o \in pack /\ ~Doomed(pack)

MustKeep(o) ==
  /\ o \notin deleted
  /\ o \in committed \/ \E p \in Proc : Written(frame[p]) /\ o \in frame[p].pack

KeptInv ==
  trouble <= 1 =>
    \A o \in Obj : MustKeep(o) => Stored(o) \/ (trouble = 1 /\ InMemory(o))

\* A step after which the call of p neither removes nor has written a pack.
Plain(p) ==
  /\ \A q \in Proc \ {p} : frame'[q] = frame[q]
  /\ ~Removes(frame'[p]) /\ ~Written(frame'[p])
  /\ CallInvOf(frame'[p], builder'[p], deleted')

LEMMA CallsOfOthers ==
  ASSUME CallInv, NEW p \in Proc, deleted \subseteq deleted',
         \A q \in Proc \ {p} : frame'[q] = frame[q] /\ builder'[q] = builder[q],
         CallInvOf(frame'[p], builder'[p], deleted')
  PROVE  CallInv'
<1>1. ASSUME NEW q \in Proc \ {p}
      PROVE  CallInvOf(frame[q], builder[q], deleted')
  BY DEF CallInv, CallInvOf
<1>. QED  BY <1>1 DEF CallInv

LEMMA IdleIsPlain ==
  ASSUME NEW b, NEW d
  PROVE  /\ ~Removes(Idle) /\ ~Written(Idle) /\ CallInvOf(Idle, b, d)
BY DEF Idle, Removes, Written, CallInvOf, Gathers, Removing

LEMMA PlainSet ==
  ASSUME frame \in [Proc -> Frame], NEW p \in Proc, NEW f,
         frame' = [frame EXCEPT ![p] = f],
         ~Removes(f), ~Written(f), CallInvOf(f, builder'[p], deleted')
  PROVE  Plain(p)
BY DEF Plain

LEMMA PlainReturn ==
  ASSUME frame \in [Proc -> Frame], NEW p \in Proc, Return(p)
  PROVE  Plain(p)
BY IdleIsPlain, PlainSet DEF Return

\* Looking something up changes neither what the call is about nor what it has
\* gathered.
LEMMA PlainLookup ==
  ASSUME frame \in [Proc -> Frame], NEW p \in Proc, NEW f \in Frame,
         CallInv, UNCHANGED <<builder, deleted>>,
         frame' = [frame EXCEPT ![p] = f],
         frame[p].pc \notin Removing, f.pc \in {"entry", "loading", "stale", "fetch"},
         \/ f.asks = frame[p].asks /\ f.asks # "new"
         \/ f.asks \in {"read", "missing"} /\ frame[p].asks \in {"nothing", "read", "missing"},
         f.op = frame[p].op, f.obj = frame[p].obj, f.victim = frame[p].victim,
         f.todo = frame[p].todo
  PROVE  Plain(p)
<1>1. CallInvOf(frame[p], builder[p], deleted) /\ frame[p] \in Frame
  BY DEF CallInv
<1>2. ~Removes(f) /\ ~Written(f)
  BY <1>1 DEF CallInvOf, Removes, Written, Frame
<1>3. CallInvOf(f, builder[p], deleted)
  BY <1>1 DEF CallInvOf, Gathers, Removing, Frame
<1>. QED  BY <1>2, <1>3, PlainSet

LEMMA PlainTryAgain ==
  ASSUME Typed, NEW p \in Proc, CallInv, UNCHANGED <<builder, deleted>>,
         frame[p].asks \in {"read", "missing"}, frame[p].pc \notin Removing,
         TryAgain(p)
  PROVE  Plain(p)
<1>0. frame \in [Proc -> Frame] /\ frame[p] \in Frame
  BY DEF Typed
<1>. DEFINE f == [LoadEnded(frame[p]) EXCEPT !.pc = "entry", !.asks = "read",
                                             !.tries = frame[p].tries + 1]
<1>1. CASE frame[p].tries + 1 < frame[p].max
  <2>1. frame' = [frame EXCEPT ![p] = f]
    BY <1>1 DEF TryAgain
  <2>2. f \in Frame
    <3>1. LoadEnded(frame[p]) \in Frame /\ frame[p].tries + 1 \in 0..MaxRetries
      BY <1>0, <1>1, LoadEndedIsFrame, PackSetAssumption DEF Frame
    <3>. QED  BY <3>1 DEF Frame
  <2>3. /\ f.pc = "entry" /\ f.asks = "read" /\ f.op = frame[p].op
        /\ f.obj = frame[p].obj /\ f.victim = frame[p].victim /\ f.todo = frame[p].todo
    BY <1>0 DEF LoadEnded, Frame
  <2>. HIDE DEF f
  <2>. QED  BY <1>0, <2>1, <2>2, <2>3, PlainLookup
<1>2. CASE ~(frame[p].tries + 1 < frame[p].max)
  BY <1>0, <1>2, PlainReturn DEF TryAgain
<1>. QED  BY <1>1, <1>2

LEMMA PlainLoadFailed ==
  ASSUME Typed, NEW p \in Proc, CallInv, UNCHANGED <<builder, deleted>>,
         frame[p].pc \notin Removing, LoadFailed(p)
  PROVE  Plain(p)
BY PlainTryAgain, PlainReturn DEF LoadFailed, Typed

\* The object read is in the PackBuilder, and no longer to be read.
LEMMA PlainRead ==
  ASSUME Typed, NEW p \in Proc, CallInv, UNCHANGED deleted,
         frame[p].asks = "read", frame[p].pc \notin Removing, frame[p].reads \in Obj,
         ReadSucceeds(p)
  PROVE  /\ Plain(p) /\ builder[p] \subseteq builder'[p]
         /\ \A q \in Proc \ {p} : builder'[q] = builder[q]
<1>0. /\ frame \in [Proc -> Frame] /\ frame[p] \in Frame
      /\ builder \in [Proc -> SUBSET Obj]
      /\ CallInvOf(frame[p], builder[p], deleted)
  BY DEF Typed, CallInv
<1>1. CASE frame[p].op = "delete"
  <2>. DEFINE f == [frame[p] EXCEPT !.pc = "siblings", !.asks = "nothing", !.pack = NoPack,
                           !.todo = frame[p].todo \ {frame[p].reads},
                           !.reads = None, !.tries = 0]
  <2>1. /\ frame' = [frame EXCEPT ![p] = f]
        /\ builder' = [builder EXCEPT ![p] = builder[p] \cup {frame[p].reads}]
    BY <1>1 DEF ReadSucceeds, AddData
  <2>2. /\ f.pc = "siblings" /\ f.asks = "nothing" /\ f.op = "delete"
        /\ f.obj = frame[p].obj /\ f.victim = frame[p].victim
        /\ f.todo = frame[p].todo \ {frame[p].reads}
    BY <1>0, <1>1 DEF Frame
  <2>3. builder'[p] = builder[p] \cup {frame[p].reads}
    BY <1>0, <2>1
  <2>. HIDE DEF f
  <2>4. frame[p].victim \ {frame[p].obj} \subseteq builder[p] \cup frame[p].todo
    BY <1>0, <1>1 DEF CallInvOf, Gathers
  <2>5. CallInvOf(f, builder'[p], deleted')
    BY <1>0, <1>1, <2>2, <2>3, <2>4 DEF CallInvOf, Gathers, Removing
  <2>6. ~Removes(f) /\ ~Written(f)
    BY <2>2 DEF Removes, Written
  <2>. QED  BY <1>0, <2>1, <2>3, <2>5, <2>6, PlainSet
<1>2. CASE frame[p].op # "delete"
  BY <1>0, <1>2, PlainReturn DEF ReadSucceeds, packBuilder
<1>. QED  BY <1>1, <1>2

\* A commit writes what the PackBuilder has, or has nothing to write.
LEMMA PlainCommit ==
  ASSUME Typed, NEW p \in Proc, NEW f \in Frame, Commit(p, f),
         f.op # "delete" \/ ~NothingToCommit(p),
         f.op = "delete" => /\ f.obj \in deleted' /\ f.obj \in f.victim
                            /\ f.victim \ {f.obj} \subseteq builder'[p]
                            /\ f.obj \notin builder'[p]
  PROVE  Plain(p)
<1>0. frame \in [Proc -> Frame]
  BY DEF Typed
<1>. DEFINE g == [f EXCEPT !.pc = "putPack", !.asks = "new", !.pack = builder'[p]]
<1>1. CASE NothingToCommit(p)
  <2>1. Return(p)
    BY <1>1 DEF Commit, Committed, Return
  <2>. QED  BY <1>0, <2>1, PlainReturn
<1>2. CASE ~NothingToCommit(p)
  <2>1. frame' = [frame EXCEPT ![p] = g]
    BY <1>2 DEF Commit
  <2>2. /\ g.pc = "putPack" /\ g.asks = "new" /\ g.pack = builder'[p]
        /\ g.op = f.op /\ g.obj = f.obj /\ g.victim = f.victim
    BY DEF Frame
  <2>. HIDE DEF g
  <2>3. CallInvOf(g, builder'[p], deleted')
    BY <2>2 DEF CallInvOf, Gathers, Removing
  <2>4. ~Removes(g) /\ ~Written(g)
    BY <2>2 DEF Removes, Written
  <2>. QED  BY <1>0, <2>1, <2>3, <2>4, PlainSet
<1>. QED  BY <1>1, <1>2

(***************************************************************************)
(* What a step may do to the pack set without losing an object: it removes *)
(* a pack that is doomed, counts as committed what has been written, and   *)
(* empties the PackBuilder of a process that has written its pack.         *)
(***************************************************************************)

Advance(p) ==
  /\ \A q \in Proc \ {p} : frame'[q] = frame[q] /\ builder'[q] = builder[q]
  /\ Removes(frame'[p]) => Removes(frame[p]) /\ frame'[p].victim = frame[p].victim
  /\ Written(frame'[p]) => Written(frame[p]) /\ frame'[p].pack = frame[p].pack
  /\ \A pack \in packs : pack \in packs' \/ (Removes(frame[p]) /\ frame[p].victim = pack)
  /\ \A o \in committed' : o \in committed \/ (Written(frame[p]) /\ o \in frame[p].pack)
  /\ deleted \subseteq deleted'
  /\ \/ trouble' = trouble + 1
     \/ /\ trouble' = trouble
        /\ \/ frame[p].pc = "putIndex"
           \/ frame'[p].pc # "putIndex" /\ builder[p] \ deleted \subseteq builder'[p]

LEMMA AdvanceKeeps ==
  ASSUME Typed, KeptInv, NEW p \in Proc, Advance(p)
  PROVE  KeptInv'
<1>. SUFFICES ASSUME trouble' <= 1, NEW o \in Obj, MustKeep(o)'
              PROVE  Stored(o)' \/ (trouble' = 1 /\ InMemory(o)')
  BY DEF KeptInv
<1>0. trouble \in Nat /\ trouble <= 1
  BY DEF Typed, Advance
<1>1. MustKeep(o)
  <2>1. o \notin deleted
    BY DEF MustKeep, Advance
  <2>2. CASE o \in committed'
    BY <2>1, <2>2 DEF MustKeep, Advance
  <2>3. CASE \E q \in Proc : Written(frame'[q]) /\ o \in frame'[q].pack
    BY <2>1, <2>3 DEF MustKeep, Advance
  <2>. QED  BY <2>2, <2>3 DEF MustKeep
<1>2. \A pack : Doomed(pack)' => Doomed(pack)
  BY DEF Doomed, Advance
<1>3. ASSUME Stored(o)
      PROVE  Stored(o)'
  <2>1. PICK pack \in packs : o \in pack /\ ~Doomed(pack)
    BY <1>3 DEF Stored
  <2>2. pack \in packs'
    BY <2>1 DEF Doomed, Advance
  <2>. QED  BY <1>2, <2>1, <2>2 DEF Stored
<1>4. ASSUME trouble = 1, InMemory(o)
      PROVE  trouble' = 1 /\ InMemory(o)'
  <2>1. trouble' = 1
    BY <1>0, <1>4 DEF Advance
  <2>2. PICK q \in Proc : frame[q].pc # "putIndex" /\ o \in builder[q]
    BY <1>4 DEF InMemory
  <2>3. o \notin deleted
    BY <1>1 DEF MustKeep
  <2>4. frame'[q].pc # "putIndex" /\ o \in builder'[q]
    BY <1>0, <1>4, <2>1, <2>2, <2>3 DEF Advance
  <2>. QED  BY <2>1, <2>4 DEF InMemory
<1>. QED  BY <1>0, <1>1, <1>3, <1>4 DEF KeptInv

\* A step that neither removes nor writes a pack.
Quiet(p) ==
  /\ Plain(p)
  /\ \A q \in Proc \ {p} : builder'[q] = builder[q]
  /\ packs \subseteq packs' /\ committed' = committed /\ deleted \subseteq deleted'
  /\ \/ trouble' = trouble /\ builder[p] \ deleted \subseteq builder'[p]
     \/ trouble' = trouble + 1

LEMMA QuietKeeps ==
  ASSUME Typed, CallInv, KeptInv, NEW p \in Proc, Quiet(p)
  PROVE  CallInv' /\ KeptInv'
<1>1. CallInv'
  BY CallsOfOthers DEF Quiet, Plain
<1>2. frame'[p].pc # "putIndex"
  BY DEF Quiet, Plain, CallInvOf, Written
<1>3. Advance(p)
  BY <1>2 DEF Quiet, Plain, Advance
<1>. QED  BY <1>1, <1>3, AdvanceKeeps

\* A step of a load that leaves the call where it was.
LEMMA PlainStays ==
  ASSUME CallInv, NEW p \in Proc, UNCHANGED <<frame, builder, deleted>>,
         frame[p].pc \in {"loading", "stale"}
  PROVE  Plain(p)
<1>1. CallInvOf(frame[p], builder[p], deleted)
  BY DEF CallInv
<1>. QED  BY <1>1 DEF Plain, CallInvOf, Removes, Written

LEMMA QuietCall ==
  ASSUME Typed, NEW p \in Proc, Call(p)
  PROVE  Quiet(p)
<1>0. frame \in [Proc -> Frame] /\ Idle \in Frame
  BY IdleIsFrame DEF Typed
<1>1. /\ UNCHANGED <<packs, committed, builder, trouble>> /\ deleted \subseteq deleted'
  BY DEF Call, DataForSHA1, PutData, DeleteBlobForSHA1, CommitCall, ClearCache,
         ReloadCache, Begin, target, packBuilder, history
<1>. SUFFICES Plain(p)
  BY <1>1 DEF Quiet
<1>2. ASSUME NEW o \in Obj, NEW retry \in BOOLEAN, DataForSHA1(p, o, retry)
      PROVE  Plain(p)
  <2>. DEFINE f == [Idle EXCEPT !.pc = "entry", !.op = "data", !.asks = "read",
                                !.obj = o, !.reads = o,
                                !.max = IF retry THEN MaxRetries ELSE 1]
  <2>1. f.pc = "entry" /\ f.op = "data" /\ f.asks = "read"
    BY DEF Idle
  <2>2. frame' = [frame EXCEPT ![p] = f]
    BY <1>2 DEF DataForSHA1, Begin
  <2>. HIDE DEF f
  <2>3. ~Removes(f) /\ ~Written(f) /\ CallInvOf(f, builder'[p], deleted')
    BY <2>1 DEF Removes, Written, CallInvOf, Gathers, Removing
  <2>. QED  BY <1>0, <2>2, <2>3, PlainSet
<1>3. ASSUME NEW o \in Obj, PutData(p, o)
      PROVE  Plain(p)
  <2>. DEFINE f == [Idle EXCEPT !.pc = "entry", !.op = "put", !.asks = "put",
                                !.obj = o]
  <2>1. f.pc = "entry" /\ f.op = "put" /\ f.asks = "put"
    BY DEF Idle
  <2>2. frame' = [frame EXCEPT ![p] = f]
    BY <1>3 DEF PutData, Begin
  <2>. HIDE DEF f
  <2>3. ~Removes(f) /\ ~Written(f) /\ CallInvOf(f, builder'[p], deleted')
    BY <2>1 DEF Removes, Written, CallInvOf, Gathers, Removing
  <2>. QED  BY <1>0, <2>2, <2>3, PlainSet
<1>4. ASSUME NEW o \in Obj, DeleteBlobForSHA1(p, o)
      PROVE  Plain(p)
  <2>. DEFINE f == [Idle EXCEPT !.pc = "entry", !.op = "delete", !.asks = "find",
                                !.obj = o]
  <2>1. f.pc = "entry" /\ f.op = "delete" /\ f.asks = "find" /\ f.obj = o
    BY DEF Idle
  <2>2. frame' = [frame EXCEPT ![p] = f] /\ o \in deleted'
    BY <1>4 DEF DeleteBlobForSHA1, Begin
  <2>. HIDE DEF f
  <2>3. ~Removes(f) /\ ~Written(f) /\ CallInvOf(f, builder'[p], deleted')
    BY <2>1, <2>2 DEF Removes, Written, CallInvOf, Gathers, Removing
  <2>. QED  BY <1>0, <2>2, <2>3, PlainSet
<1>5. CommitCall(p) => Plain(p)
  <2>. DEFINE f == [Idle EXCEPT !.op = "commit"]
  <2>1. f \in Frame /\ f.op # "delete"
    BY <1>0 DEF Frame, Idle
  <2>. QED  BY <2>1, PlainCommit DEF CommitCall
<1>6. ClearCache(p) \/ ReloadCache(p) => Plain(p)
  <2>. HAVE ClearCache(p) \/ ReloadCache(p)
  <2>1. Return(p)
    BY DEF ClearCache, ReloadCache, Begin, Return
  <2>. QED  BY <1>0, <2>1, PlainReturn
<1>. QED  BY <1>2, <1>3, <1>4, <1>5, <1>6 DEF Call

LEMMA QuietLoad ==
  ASSUME Typed, CallInv, NEW p \in Proc, Load(p)
  PROVE  Quiet(p)
<1>. USE DEF target, packBuilder, history, bounds
<1>0. /\ frame \in [Proc -> Frame] /\ frame[p] \in Frame
      /\ CallInvOf(frame[p], builder[p], deleted)
  BY DEF Typed, CallInv
<1>1. UNCHANGED <<packs, committed, deleted, builder, trouble>>
  BY DEF Load, ListPacks, WaitForCompletion, RemoveStale, FinishLoad, LoadPackId,
         SaveRebuiltIndex, InsertLoaded, PutIndexData
<1>. SUFFICES Plain(p)
  BY <1>1 DEF Quiet
<1>2. CASE ListPacks(p)
  <2>. DEFINE listed == Listing(p).packs
              toLoad == listed \ dbPacks[p]
              f == [frame[p] EXCEPT !.pc = IF toLoad = {} THEN "stale" ELSE "loading",
                      !.listed = listed, !.toLoad = toLoad, !.skipped = {}]
  <2>1. frame' = [frame EXCEPT ![p] = f] /\ frame[p].pc = "entry"
    BY <1>0, <1>2 DEF ListPacks
  <2>2. f \in Frame
    <3>1. listed \subseteq Pack /\ toLoad \subseteq Pack
      BY ListingTyped DEF Listings
    <3>. QED  BY <1>0, <3>1 DEF Frame
  <2>3. /\ f.pc \in {"stale", "loading"} /\ f.asks = frame[p].asks
        /\ f.op = frame[p].op /\ f.obj = frame[p].obj /\ f.victim = frame[p].victim
        /\ f.todo = frame[p].todo
    BY <1>0 DEF Frame
  <2>4. f.asks # "new"
    BY <1>0, <2>1, <2>3 DEF CallInvOf
  <2>. HIDE DEF f
  <2>. QED  BY <1>0, <1>1, <2>1, <2>2, <2>3, <2>4, PlainLookup DEF Removing
<1>3. CASE WaitForCompletion(p)
  <2>1. CASE loadError[p] = "none"
    <3>. DEFINE f == [frame[p] EXCEPT !.pc = "stale"]
    <3>1. frame' = [frame EXCEPT ![p] = f] /\ frame[p].pc = "loading"
      BY <1>0, <1>3, <2>1 DEF WaitForCompletion
    <3>2. /\ f \in Frame /\ f.pc = "stale" /\ f.asks = frame[p].asks
          /\ f.op = frame[p].op /\ f.obj = frame[p].obj /\ f.victim = frame[p].victim
          /\ f.todo = frame[p].todo
      BY <1>0 DEF Frame
    <3>3. f.asks # "new"
      BY <1>0, <3>1, <3>2 DEF CallInvOf
    <3>. HIDE DEF f
    <3>. QED  BY <1>0, <1>1, <3>1, <3>2, <3>3, PlainLookup DEF Removing
  <2>2. CASE loadError[p] # "none"
    BY <1>1, <1>3, <2>2, PlainLoadFailed DEF WaitForCompletion, Removing
  <2>. QED  BY <2>1, <2>2
<1>4. CASE FinishLoad(p)
  <2>. DEFINE f == [LoadEnded(frame[p]) EXCEPT !.pc = "entry"]
  <2>1. frame' = [frame EXCEPT ![p] = f] /\ frame[p].pc = "stale"
    BY <1>4 DEF FinishLoad
  <2>2. LoadEnded(frame[p]) \in Frame
    BY <1>0, LoadEndedIsFrame
  <2>3. f \in Frame
    BY <2>2 DEF Frame
  <2>4. /\ f.pc = "entry" /\ f.asks = frame[p].asks
        /\ f.op = frame[p].op /\ f.obj = frame[p].obj /\ f.victim = frame[p].victim
        /\ f.todo = frame[p].todo
    BY <1>0 DEF Frame, LoadEnded
  <2>5. f.asks # "new"
    BY <1>0, <2>1, <2>4 DEF CallInvOf
  <2>. HIDE DEF f
  <2>. QED  BY <1>0, <1>1, <2>1, <2>3, <2>4, <2>5, PlainLookup DEF Removing
<1>5. ASSUME NEW t \in Thread, LoadPackId(p, t)
      PROVE  Plain(p)
  <2>1. PICK pack \in frame[p].toLoad :
           \/ frame' = [frame EXCEPT ![p].toLoad = @ \ {pack}]
           \/ frame' = [frame EXCEPT ![p].toLoad = @ \ {pack},
                                     ![p].skipped = @ \cup {pack}]
    BY <1>5 DEF LoadPackId
  <2>2. frame[p].pc = "loading"
    BY <1>5 DEF LoadPackId
  <2>3. PICK f \in {[frame[p] EXCEPT !.toLoad = @ \ {pack}],
                    [frame[p] EXCEPT !.toLoad = @ \ {pack}, !.skipped = @ \cup {pack}]} :
          frame' = [frame EXCEPT ![p] = f]
    BY <1>0, <2>1
  <2>4. /\ f.pc = "loading" /\ f.asks = frame[p].asks
        /\ f.op = frame[p].op /\ f.obj = frame[p].obj /\ f.victim = frame[p].victim
        /\ f.todo = frame[p].todo
    BY <1>0, <2>2, <2>3 DEF Frame
  <2>5. f \in Frame
    BY <1>0, <2>1, <2>3 DEF Frame
  <2>6. f.asks # "new"
    BY <1>0, <2>2, <2>4 DEF CallInvOf
  <2>. QED  BY <1>0, <1>1, <2>2, <2>3, <2>4, <2>5, <2>6, PlainLookup DEF Removing
<1>6. CASE RemoveStale(p) \/ \E t \in Thread : SaveRebuiltIndex(p, t) \/ InsertLoaded(p, t)
  <2>1. UNCHANGED frame /\ frame[p].pc \in {"loading", "stale"}
    BY <1>6 DEF RemoveStale, SaveRebuiltIndex, InsertLoaded
  <2>. QED  BY <1>1, <2>1, PlainStays
<1>. QED  BY <1>2, <1>3, <1>4, <1>5, <1>6 DEF Load

\* deleteBlobForSHA1: has the index of the old pack.
LEMMA PlainHasIndex ==
  ASSUME Typed, CallInv, NEW p \in Proc, UNCHANGED <<builder, deleted>>,
         frame[p].pc \in {"index", "rebuild"}, frame[p].asks # "new", HasIndex(p)
  PROVE  Plain(p)
<1>0. /\ frame \in [Proc -> Frame] /\ frame[p] \in Frame
      /\ CallInvOf(frame[p], builder[p], deleted)
  BY DEF Typed, CallInv
<1>. DEFINE f == [frame[p] EXCEPT !.pc = "siblings", !.asks = "nothing",
                                  !.pack = NoPack,
                                  !.todo = frame[p].pack \ {frame[p].obj}]
<1>1. frame' = [frame EXCEPT ![p] = f]
  BY DEF HasIndex
<1>2. /\ frame[p].op = "delete" /\ frame[p].pack = frame[p].victim
      /\ frame[p].obj \in frame[p].pack /\ frame[p].obj \in deleted
  BY <1>0 DEF CallInvOf, Removing
<1>3. /\ f.pc = "siblings" /\ f.asks = "nothing" /\ f.op = "delete"
      /\ f.obj = frame[p].obj /\ f.victim = frame[p].victim
      /\ f.todo = frame[p].victim \ {frame[p].obj}
  BY <1>0, <1>2 DEF Frame
<1>. HIDE DEF f
<1>4. ~Removes(f) /\ ~Written(f) /\ CallInvOf(f, builder'[p], deleted')
  BY <1>2, <1>3 DEF Removes, Written, CallInvOf, Gathers, Removing
<1>. QED  BY <1>0, <1>1, <1>4, PlainSet

LEMMA QuietRead ==
  ASSUME TypeInv, CallInv, NEW p \in Proc,
         FindForRead(p) \/ Fetch(p) \/ ForgetMissingPack(p) \/ ReadNextSibling(p)
  PROVE  Quiet(p)
<1>. USE DEF target, packBuilder, history, bounds
<1>0. /\ Typed /\ frame \in [Proc -> Frame] /\ frame[p] \in Frame /\ Knows(frame[p])
      /\ entry \in [Proc -> [Obj -> Pack]] /\ CallInvOf(frame[p], builder[p], deleted)
  BY DEF TypeInv, Typed, CallInv
<1>1. UNCHANGED <<packs, committed, deleted, trouble>>
  BY DEF FindForRead, Fetch, ForgetMissingPack, ReadNextSibling
<1>. SUFFICES /\ Plain(p) /\ builder[p] \subseteq builder'[p]
              /\ \A q \in Proc \ {p} : builder'[q] = builder[q]
  BY <1>1 DEF Quiet
<1>2. CASE FindForRead(p)
  <2>0. frame[p].pc = "entry" /\ frame[p].asks = "read" /\ frame[p].reads \in Obj
    BY <1>0, <1>2 DEF FindForRead, Asks, Knows, Reads
  <2>. DEFINE pack == entry[p][frame[p].reads]
              f == [frame[p] EXCEPT !.pc = "fetch", !.pack = pack]
  <2>1. CASE pack # NoPack
    <3>1. frame' = [frame EXCEPT ![p] = f] /\ UNCHANGED builder
      BY <1>0, <1>2, <2>1 DEF FindForRead
    <3>2. pack \in Pack
      BY <1>0, <2>0
    <3>3. /\ f \in Frame /\ f.pc = "fetch" /\ f.asks = "read" /\ f.op = frame[p].op
          /\ f.obj = frame[p].obj /\ f.victim = frame[p].victim
          /\ f.todo = frame[p].todo
      BY <1>0, <2>0, <3>2 DEF Frame
    <3>. HIDE DEF f
    <3>. QED  BY <1>0, <1>1, <2>0, <3>1, <3>3, PlainLookup DEF Removing
  <2>2. CASE ReadSucceeds(p)
    BY <1>0, <1>1, <2>0, <2>2, PlainRead DEF Removing
  <2>3. CASE Return(p) /\ UNCHANGED packBuilder
    BY <1>0, <2>3, PlainReturn
  <2>. QED  BY <1>2, <2>1, <2>2, <2>3 DEF FindForRead
<1>3. CASE Fetch(p)
  <2>0. frame[p].pc = "fetch" /\ frame[p].asks = "read" /\ frame[p].reads \in Obj
    BY <1>0, <1>3 DEF Fetch, Knows, Reads
  <2>1. CASE Readable(p, frame[p].pack)
    BY <1>0, <1>1, <1>3, <2>0, <2>1, PlainRead DEF Fetch, Removing
  <2>2. CASE ~Readable(p, frame[p].pack)
    <3>. DEFINE f == [frame[p] EXCEPT !.pc = "entry", !.asks = "missing", !.pack = NoPack]
    <3>1. frame' = [frame EXCEPT ![p] = f] /\ UNCHANGED builder
      BY <1>0, <1>3, <2>2 DEF Fetch
    <3>2. /\ f \in Frame /\ f.pc = "entry" /\ f.asks = "missing" /\ f.op = frame[p].op
          /\ f.obj = frame[p].obj /\ f.victim = frame[p].victim
          /\ f.todo = frame[p].todo
      BY <1>0, NothingIsTyped DEF Frame
    <3>. HIDE DEF f
    <3>. QED  BY <1>0, <1>1, <2>0, <3>1, <3>2, PlainLookup DEF Removing
  <2>. QED  BY <2>1, <2>2
<1>4. CASE ForgetMissingPack(p)
  <2>1. /\ frame[p].pc = "entry" /\ frame[p].asks = "missing" /\ TryAgain(p)
        /\ UNCHANGED builder
    BY <1>4 DEF ForgetMissingPack, Asks
  <2>. QED  BY <1>0, <1>1, <2>1, PlainTryAgain DEF Removing
<1>5. CASE ReadNextSibling(p)
  <2>1. PICK o \in frame[p].todo :
          frame' = [frame EXCEPT ![p].pc = "entry", ![p].asks = "read",
                                 ![p].reads = o, ![p].max = 1]
    BY <1>5 DEF ReadNextSibling
  <2>. DEFINE f == [frame[p] EXCEPT !.pc = "entry", !.asks = "read",
                                    !.reads = o, !.max = 1]
  <2>2. frame' = [frame EXCEPT ![p] = f] /\ UNCHANGED builder
    BY <1>0, <1>5, <2>1 DEF ReadNextSibling
  <2>3. o \in Obj /\ 1 \in 0..MaxRetries
    BY <1>0, <2>1, PackSetAssumption DEF Frame
  <2>4. f \in Frame
    BY <1>0, <2>3 DEF Frame
  <2>5. /\ f.pc = "entry" /\ f.asks = "read" /\ f.op = frame[p].op
        /\ f.obj = frame[p].obj /\ f.victim = frame[p].victim
        /\ f.todo = frame[p].todo
    BY <1>0 DEF Frame
  <2>6. frame[p].pc = "siblings" /\ frame[p].asks = "nothing"
    BY <1>0, <1>5 DEF ReadNextSibling, CallInvOf
  <2>. HIDE DEF f
  <2>. QED  BY <1>0, <1>1, <2>2, <2>4, <2>5, <2>6, PlainLookup DEF Removing
<1>. QED  BY <1>2, <1>3, <1>4, <1>5

LEMMA QuietFind ==
  ASSUME TypeInv, EntriesAreBacked, CallInv, NEW p \in Proc,
         \/ AddToPackBuilder(p) \/ FindForDelete(p) \/ DeleteIndex(p)
         \/ (ReadPackIndex(p) \/ RebuildPackIndex(p)) /\ frame[p].asks # "new"
  PROVE  Quiet(p)
<1>. USE DEF target, packBuilder, history, bounds
<1>0. /\ Typed /\ frame \in [Proc -> Frame] /\ frame[p] \in Frame /\ Knows(frame[p])
      /\ entry \in [Proc -> [Obj -> Pack]] /\ CallInvOf(frame[p], builder[p], deleted)
      /\ builder \in [Proc -> SUBSET Obj]
  BY DEF TypeInv, Typed, CallInv
<1>1. UNCHANGED <<packs, committed, deleted, trouble>>
  BY DEF AddToPackBuilder, FindForDelete, DeleteIndex, ReadPackIndex, RebuildPackIndex,
         HasIndex, RemoveIndex, PutIndexData
<1>. SUFFICES /\ Plain(p) /\ builder[p] \subseteq builder'[p]
              /\ \A q \in Proc \ {p} : builder'[q] = builder[q]
  BY <1>1 DEF Quiet
<1>2. CASE AddToPackBuilder(p)
  <2>1. frame[p].op = "put"
    BY <1>0, <1>2 DEF AddToPackBuilder, Asks, CallInvOf
  <2>2. Plain(p)
    BY <1>0, <1>2, <2>1, PlainCommit, PlainReturn DEF AddToPackBuilder
  <2>3. /\ builder[p] \subseteq builder'[p]
        /\ \A q \in Proc \ {p} : builder'[q] = builder[q]
    BY <1>0, <1>2 DEF AddToPackBuilder, AddData
  <2>. QED  BY <2>2, <2>3
<1>3. CASE FindForDelete(p)
  <2>. DEFINE pack == entry[p][frame[p].obj]
              f == [frame[p] EXCEPT !.pc = "index", !.pack = pack, !.victim = pack]
  <2>0. /\ frame[p].pc = "entry" /\ frame[p].asks = "find" /\ frame[p].obj \in Obj
        /\ UNCHANGED builder
    BY <1>0, <1>3 DEF FindForDelete, Asks, Knows, Reads
  <2>1. CASE pack = NoPack
    BY <1>0, <1>3, <2>0, <2>1, PlainReturn DEF FindForDelete
  <2>2. CASE pack # NoPack
    <3>1. frame' = [frame EXCEPT ![p] = f]
      BY <1>0, <1>3, <2>2 DEF FindForDelete
    <3>2. frame[p].obj \in pack
      BY <2>0, <2>2 DEF EntriesAreBacked
    <3>3. frame[p].op = "delete" /\ frame[p].obj \in deleted
      BY <1>0, <2>0 DEF CallInvOf, Removing
    <3>4. /\ f.pc = "index" /\ f.asks = "find" /\ f.op = "delete"
          /\ f.obj = frame[p].obj /\ f.victim = pack /\ f.pack = pack
      BY <1>0, <2>0, <3>3 DEF Frame
    <3>. HIDE DEF f
    <3>5. ~Removes(f) /\ ~Written(f) /\ CallInvOf(f, builder'[p], deleted')
      BY <1>1, <3>2, <3>3, <3>4 DEF Removes, Written, CallInvOf, Gathers, Removing
    <3>. QED  BY <1>0, <2>0, <3>1, <3>5, PlainSet
  <2>. QED  BY <2>1, <2>2
<1>4. CASE DeleteIndex(p)
  BY <1>0, <1>4, PlainReturn DEF DeleteIndex
<1>5. CASE ReadPackIndex(p) /\ frame[p].asks # "new"
  <2>. DEFINE f == [frame[p] EXCEPT !.pc = "rebuild"]
  <2>0. frame[p].pc = "index" /\ UNCHANGED builder
    BY <1>5 DEF ReadPackIndex
  <2>1. CASE HasIndex(p)
    BY <1>0, <1>1, <1>5, <2>0, <2>1, PlainHasIndex
  <2>2. CASE frame' = [frame EXCEPT ![p] = f]
    <3>1. /\ f.pc = "rebuild" /\ f.asks = frame[p].asks /\ f.op = frame[p].op
          /\ f.obj = frame[p].obj /\ f.victim = frame[p].victim /\ f.pack = frame[p].pack
      BY <1>0 DEF Frame
    <3>. HIDE DEF f
    <3>2. ~Removes(f) /\ ~Written(f) /\ CallInvOf(f, builder'[p], deleted')
      BY <1>0, <1>1, <1>5, <2>0, <3>1 DEF Removes, Written, CallInvOf, Gathers, Removing
    <3>. QED  BY <1>0, <2>0, <2>2, <3>2, PlainSet
  <2>3. CASE Return(p)
    BY <1>0, <2>0, <2>3, PlainReturn
  <2>. QED  BY <1>0, <1>5, <2>1, <2>2, <2>3 DEF ReadPackIndex
<1>6. CASE RebuildPackIndex(p) /\ frame[p].asks # "new"
  BY <1>0, <1>1, <1>6, PlainHasIndex DEF RebuildPackIndex
<1>. QED  BY <1>2, <1>3, <1>4, <1>5, <1>6

LEMMA QuietFails ==
  ASSUME Typed, CallInv, NEW p \in Proc, Fails(p), ~RemovalFails(p)
  PROVE  Quiet(p)
<1>. USE DEF target, packBuilder, history, bounds
<1>0. /\ frame \in [Proc -> Frame] /\ frame[p] \in Frame
      /\ CallInvOf(frame[p], builder[p], deleted)
      /\ builder \in [Proc -> SUBSET Obj]
  BY DEF Typed, CallInv
<1>1. /\ packs \subseteq packs' /\ UNCHANGED <<committed, deleted>>
      /\ trouble' = trouble + 1
      /\ \A q \in Proc \ {p} : builder'[q] = builder[q]
  BY <1>0 DEF Fails, CallFails, PutFails, Restart, WorkerFails, Trouble
<1>. SUFFICES Plain(p)
  BY <1>1 DEF Quiet
<1>2. CASE PutFails(p) \/ Restart(p)
  BY <1>0, <1>2, PlainReturn DEF PutFails, Restart
<1>3. CASE CallFails(p)
  BY <1>0, <1>3, PlainReturn, PlainLoadFailed DEF CallFails, Removing
<1>4. ASSUME NEW t \in Thread, WorkerFails(p, t)
      PROVE  Plain(p)
  <2>0. frame[p].pc = "loading" /\ UNCHANGED <<builder, deleted>>
    BY <1>4 DEF WorkerFails
  <2>1. CASE UNCHANGED frame
    BY <2>0, <2>1, PlainStays
  <2>2. ASSUME NEW pack \in frame[p].toLoad,
               frame' = [frame EXCEPT ![p].toLoad = @ \ {pack}]
        PROVE  Plain(p)
    <3>. DEFINE f == [frame[p] EXCEPT !.toLoad = @ \ {pack}]
    <3>1. frame' = [frame EXCEPT ![p] = f]
      BY <1>0, <2>2
    <3>2. /\ f \in Frame /\ f.pc = "loading" /\ f.asks = frame[p].asks
          /\ f.op = frame[p].op /\ f.obj = frame[p].obj /\ f.victim = frame[p].victim
          /\ f.todo = frame[p].todo
      BY <1>0, <2>0 DEF Frame
    <3>3. f.asks # "new"
      BY <1>0, <2>0, <3>2 DEF CallInvOf
    <3>. HIDE DEF f
    <3>. QED  BY <1>0, <2>0, <3>1, <3>2, <3>3, PlainLookup DEF Removing
  <2>. QED  BY <1>4, <2>1, <2>2 DEF WorkerFails
<1>. QED  BY <1>2, <1>3, <1>4 DEF Fails

(***************************************************************************)
(* The steps that write and remove packs.                                  *)
(***************************************************************************)

\* Writes of PackBuilder and deletes move a call on; what it is about stays.
LEMMA CallMovesOn ==
  ASSUME Typed, NEW p \in Proc,
         NEW next \in {"putIndex", "index", "rebuild", "deleteIndex"},
         frame' = [frame EXCEPT ![p].pc = next]
  PROVE  /\ \A q \in Proc \ {p} : frame'[q] = frame[q]
         /\ frame'[p].pc = next /\ frame'[p].op = frame[p].op
         /\ frame'[p].asks = frame[p].asks /\ frame'[p].obj = frame[p].obj
         /\ frame'[p].pack = frame[p].pack /\ frame'[p].victim = frame[p].victim
         /\ frame'[p].todo = frame[p].todo
BY DEF Typed, Frame

LEMMA AfterCommitted ==
  ASSUME Typed, NEW p \in Proc, NEW b, NEW d,
         frame' = [frame EXCEPT ![p] = Committed(frame[p])]
  PROVE  /\ \A q \in Proc \ {p} : frame'[q] = frame[q]
         /\ ~Written(frame'[p]) /\ frame'[p].pc # "putIndex"
         /\ Removes(frame'[p]) => /\ frame[p].op = "delete"
                                  /\ frame'[p].victim = frame[p].victim
         /\ CallInvOf(frame'[p], b, d)
<1>1. frame \in [Proc -> Frame] /\ frame[p] \in Frame
  BY DEF Typed
<1>2. \A q \in Proc \ {p} : frame'[q] = frame[q]
  BY <1>1
<1>3. frame'[p] = Committed(frame[p])
  BY <1>1
<1>4. CASE frame[p].op = "delete"
  <2>1. /\ frame'[p].pc = "deletePack" /\ frame'[p].asks = "nothing"
        /\ frame'[p].op = "delete" /\ frame'[p].victim = frame[p].victim
    BY <1>1, <1>3, <1>4 DEF Committed, Frame
  <2>. QED  BY <1>2, <1>4, <2>1 DEF Written, CallInvOf, Gathers, Removing
<1>5. CASE frame[p].op # "delete"
  <2>1. frame'[p] = Idle
    BY <1>3, <1>5 DEF Committed
  <2>2. frame'[p].pc # "putIndex"
    BY <2>1 DEF Idle
  <2>. QED  BY <1>2, <2>1, <2>2, IdleIsPlain
<1>. QED  BY <1>4, <1>5

LEMMA NewPackAdvances ==
  ASSUME Typed, CallInv, KeptInv, NEW p \in Proc,
         \/ (ReadPackIndex(p) \/ RebuildPackIndex(p)) /\ frame[p].asks = "new"
         \/ PutIndex(p) \/ DeletePack(p)
  PROVE  CallInv' /\ KeptInv'
<1>. USE DEF target, packBuilder, history, bounds
<1>0. /\ frame \in [Proc -> Frame] /\ frame[p] \in Frame
      /\ CallInvOf(frame[p], builder[p], deleted) /\ builder \in [Proc -> SUBSET Obj]
  BY DEF Typed, CallInv
<1>1. /\ UNCHANGED <<deleted, trouble>>
      /\ \A q \in Proc \ {p} : builder'[q] = builder[q]
  BY <1>0 DEF ReadPackIndex, RebuildPackIndex, PutIndex, DeletePack
<1>2. ASSUME Advance(p), CallInvOf(frame'[p], builder'[p], deleted')
      PROVE  CallInv' /\ KeptInv'
  BY <1>1, <1>2, AdvanceKeeps, CallsOfOthers DEF Advance
<1>3. CASE (ReadPackIndex(p) \/ RebuildPackIndex(p)) /\ frame[p].asks = "new"
  <2>0. /\ Written(frame[p])
        /\ frame[p].op = "delete" => Removes(frame[p])
        /\ UNCHANGED <<builder, packs>> /\ frame[p].pc \in {"index", "rebuild"}
    BY <1>3 DEF ReadPackIndex, RebuildPackIndex, Written, Removes, PutIndexData
  <2>1. CASE HasIndex(p)
    <3>1. /\ frame' = [frame EXCEPT ![p] = Committed(frame[p])]
          /\ committed' = committed \cup frame[p].pack
      BY <1>3, <2>1 DEF HasIndex
    <3>2. /\ \A q \in Proc \ {p} : frame'[q] = frame[q]
          /\ ~Written(frame'[p]) /\ frame'[p].pc # "putIndex"
          /\ Removes(frame'[p]) => /\ frame[p].op = "delete"
                                   /\ frame'[p].victim = frame[p].victim
          /\ CallInvOf(frame'[p], builder'[p], deleted')
      BY <3>1, AfterCommitted
    <3>3. Advance(p)
      BY <1>0, <1>1, <2>0, <3>1, <3>2 DEF Advance
    <3>. QED  BY <1>2, <3>2, <3>3
  <2>2. CASE frame' = [frame EXCEPT ![p].pc = "rebuild"] /\ UNCHANGED committed
    <3>1. /\ \A q \in Proc \ {p} : frame'[q] = frame[q]
          /\ frame'[p].pc = "rebuild" /\ frame'[p].op = frame[p].op
          /\ frame'[p].asks = frame[p].asks /\ frame'[p].obj = frame[p].obj
          /\ frame'[p].pack = frame[p].pack /\ frame'[p].victim = frame[p].victim
          /\ frame'[p].todo = frame[p].todo
      BY <2>2, CallMovesOn
    <3>2. CallInvOf(frame'[p], builder'[p], deleted')
      BY <1>0, <1>1, <1>3, <2>0, <3>1 DEF CallInvOf, Gathers, Removing
    <3>3. Removes(frame'[p]) => Removes(frame[p])
      BY <2>0, <3>1 DEF Removes
    <3>4. Written(frame'[p]) => Written(frame[p])
      BY <2>0
    <3>5. Advance(p)
      BY <1>0, <1>1, <2>0, <2>2, <3>1, <3>3, <3>4 DEF Advance
    <3>. QED  BY <1>2, <3>2, <3>5
  <2>3. CASE Return(p) /\ UNCHANGED committed
    <3>1. Plain(p)
      BY <1>0, <2>3, PlainReturn
    <3>2. Quiet(p)
      BY <1>1, <2>0, <2>3, <3>1 DEF Quiet
    <3>. QED  BY <3>2, QuietKeeps
  <2>. QED  BY <1>3, <2>1, <2>2, <2>3 DEF ReadPackIndex, RebuildPackIndex
<1>4. CASE PutIndex(p)
  <2>1. frame' = [frame EXCEPT ![p].pc = "index"] /\ UNCHANGED <<packs, committed>>
        /\ frame[p].pc = "putIndex"
    BY <1>4 DEF PutIndex
  <2>2. /\ \A q \in Proc \ {p} : frame'[q] = frame[q]
        /\ frame'[p].pc = "index" /\ frame'[p].op = frame[p].op
        /\ frame'[p].asks = frame[p].asks /\ frame'[p].obj = frame[p].obj
        /\ frame'[p].pack = frame[p].pack /\ frame'[p].victim = frame[p].victim
        /\ frame'[p].todo = frame[p].todo
    BY <2>1, CallMovesOn
  <2>3. frame[p].asks = "new"
    BY <1>0, <2>1 DEF CallInvOf
  <2>4. CallInvOf(frame'[p], builder'[p], deleted')
    BY <1>0, <1>1, <2>1, <2>2, <2>3 DEF CallInvOf, Gathers, Removing
  <2>5. /\ Removes(frame'[p]) => Removes(frame[p])
        /\ Written(frame'[p]) => Written(frame[p])
    BY <2>1, <2>2, <2>3 DEF Removes, Written
  <2>. QED  BY <1>1, <1>2, <2>1, <2>2, <2>4, <2>5 DEF Advance
<1>5. CASE DeletePack(p)
  <2>1. frame' = [frame EXCEPT ![p].pc = "deleteIndex"] /\ UNCHANGED <<builder, committed>>
        /\ frame[p].pc = "deletePack"
    BY <1>5 DEF DeletePack
  <2>2. /\ \A q \in Proc \ {p} : frame'[q] = frame[q]
        /\ frame'[p].pc = "deleteIndex" /\ frame'[p].op = frame[p].op
        /\ frame'[p].asks = frame[p].asks /\ frame'[p].victim = frame[p].victim
    BY <2>1, CallMovesOn
  <2>4. CallInvOf(frame'[p], builder'[p], deleted')
    BY <1>0, <1>1, <2>1, <2>2 DEF CallInvOf, Gathers, Removing
  <2>5. frame[p].op = "delete" /\ frame[p].asks # "new"
    BY <1>0, <2>1 DEF CallInvOf, Removing
  <2>6. /\ Removes(frame[p]) /\ ~Removes(frame'[p]) /\ ~Written(frame'[p])
    BY <2>1, <2>2, <2>5 DEF Removes, Written
  <2>7. \A pack \in packs : pack \in packs' \/ frame[p].victim = pack
    BY <1>5 DEF DeletePack, RemovePack
  <2>. QED  BY <1>1, <1>2, <2>1, <2>2, <2>4, <2>6, <2>7 DEF Advance
<1>. QED  BY <1>3, <1>4, <1>5

\* A removal that failed ends the call; the pack that it may have removed was
\* about to be.
LEMMA RemovalFailsKeeps ==
  ASSUME Typed, CallInv, KeptInv, NEW p \in Proc, RemovalFails(p)
  PROVE  CallInv' /\ KeptInv'
<1>. USE DEF packBuilder, history
<1>0. frame \in [Proc -> Frame] /\ CallInvOf(frame[p], builder[p], deleted)
  BY DEF Typed, CallInv
<1>1. /\ UNCHANGED <<builder, committed, deleted>> /\ trouble' = trouble + 1
      /\ Return(p) /\ frame[p].pc \in {"deletePack", "deleteIndex"}
  BY DEF RemovalFails, Trouble
<1>2. Plain(p)
  BY <1>0, <1>1, PlainReturn
<1>3. \A pack \in packs :
        pack \in packs' \/ (frame[p].pc = "deletePack" /\ pack = frame[p].victim)
  BY DEF RemovalFails
<1>4. frame[p].pc = "deletePack" => Removes(frame[p])
  BY <1>0 DEF CallInvOf, Removing, Removes
<1>5. Advance(p)
  BY <1>1, <1>2, <1>3, <1>4 DEF Advance, Plain
<1>. QED  BY <1>1, <1>2, <1>5, AdvanceKeeps, CallsOfOthers DEF Plain

\* A new pack holds all of the old one but the object to be deleted, and is
\* not a pack that somebody removes.
LEMMA PutPackKeeps ==
  ASSUME Typed, PutsAside, CallInv, KeptInv, NEW p \in Proc, PutPack(p)
  PROVE  CallInv' /\ KeptInv'
<1>0. /\ frame \in [Proc -> Frame] /\ frame[p] \in Frame
      /\ CallInvOf(frame[p], builder[p], deleted) /\ trouble \in Nat
  BY DEF Typed, CallInv
<1>. DEFINE new == frame[p].pack
<1>1. /\ UNCHANGED <<builder, committed, deleted, trouble>>
      /\ packs' = packs \cup {new} /\ frame[p].pc = "putPack"
      /\ frame' = [frame EXCEPT ![p].pc = "putIndex"]
  BY DEF PutPack, PutPackData, packBuilder, history, bounds
<1>2. /\ \A q \in Proc \ {p} : frame'[q] = frame[q]
      /\ frame'[p].pc = "putIndex" /\ frame'[p].op = frame[p].op
      /\ frame'[p].asks = frame[p].asks /\ frame'[p].obj = frame[p].obj
      /\ frame'[p].pack = new /\ frame'[p].victim = frame[p].victim
      /\ frame'[p].todo = frame[p].todo
  BY <1>1, CallMovesOn
<1>3. /\ frame[p].asks = "new" /\ new = builder[p]
      /\ frame[p].op = "delete" =>
           /\ frame[p].obj \in frame[p].victim /\ frame[p].obj \in deleted
           /\ frame[p].victim \ {frame[p].obj} \subseteq new /\ frame[p].obj \notin new
  BY <1>0, <1>1 DEF CallInvOf, Removing
<1>4. CallInv'
  <2>1. CallInvOf(frame'[p], builder'[p], deleted')
    BY <1>0, <1>1, <1>2, <1>3 DEF CallInvOf, Gathers, Removing
  <2>. QED  BY <1>1, <1>2, <2>1, CallsOfOthers
<1>5. \A q \in Proc : Removes(frame'[q]) => frame'[q].victim # new
  <2>. SUFFICES ASSUME NEW q \in Proc, Removes(frame'[q]), frame'[q].victim = new
                PROVE  FALSE
    OBVIOUS
  <2>1. CASE q = p
    BY <1>2, <1>3, <2>1 DEF Removes
  <2>2. CASE q # p
    BY <1>1, <1>2, <2>2 DEF PutsAside
  <2>. QED  BY <2>1, <2>2
<1>6. KeptInv'
  <2>. SUFFICES ASSUME trouble' <= 1, NEW o \in Obj, MustKeep(o)'
                PROVE  Stored(o)' \/ (trouble' = 1 /\ InMemory(o)')
    BY DEF KeptInv
  <2>1. CASE o \in new
    BY <1>1, <1>5, <2>1 DEF Stored, Doomed
  <2>2. CASE o \notin new
    <3>1. MustKeep(o)
      BY <1>1, <1>2, <2>2 DEF MustKeep, Written
    <3>2. Stored(o) => Stored(o)'
      <4>. SUFFICES ASSUME NEW pack \in packs, o \in pack, ~Doomed(pack)
                    PROVE  ~Doomed(pack)'
        BY <1>1 DEF Stored
      <4>1. ~(frame[p].op = "delete" /\ frame[p].victim = pack)
        BY <1>3, <2>2, <3>1 DEF MustKeep
      <4>. QED  BY <1>2, <4>1 DEF Doomed, Removes
    <3>3. InMemory(o) => InMemory(o)'
      <4>. SUFFICES ASSUME NEW q \in Proc, frame[q].pc # "putIndex", o \in builder[q]
                    PROVE  InMemory(o)'
        BY DEF InMemory
      <4>1. q # p
        BY <1>3, <2>2
      <4>. QED  BY <1>1, <1>2, <4>1 DEF InMemory
    <3>. QED  BY <1>1, <3>1, <3>2, <3>3 DEF KeptInv
  <2>. QED  BY <2>1, <2>2
<1>. QED  BY <1>4, <1>6

\* Where nothing is left to be committed, either nothing is left of the pack, or
\* a commit failed before and the objects stay in memory.
LEMMA RemoveDataKeeps ==
  ASSUME Typed, BuilderInv, CallInv, KeptInv, NEW p \in Proc, RemoveData(p)
  PROVE  CallInv' /\ KeptInv'
<1>. USE DEF target, packBuilder, history, bounds
<1>0. /\ frame \in [Proc -> Frame] /\ frame[p] \in Frame
      /\ CallInvOf(frame[p], builder[p], deleted) /\ trouble \in Nat
      /\ builder \in [Proc -> SUBSET Obj]
  BY DEF Typed, CallInv
<1>1. /\ UNCHANGED <<packs, committed, deleted, trouble, buffer, modified>>
      /\ builder' = [builder EXCEPT ![p] = builder[p] \ {frame[p].obj}]
      /\ Commit(p, frame[p]) /\ frame[p].pc = "siblings" /\ frame[p].todo = {}
  BY DEF RemoveData
<1>2. /\ builder'[p] = builder[p] \ {frame[p].obj}
      /\ \A q \in Proc \ {p} : builder'[q] = builder[q]
  BY <1>0, <1>1
<1>3. /\ frame[p].op = "delete" /\ frame[p].asks = "nothing"
      /\ frame[p].obj \in deleted /\ frame[p].obj \in frame[p].victim
      /\ frame[p].victim \ {frame[p].obj} \subseteq builder'[p]
  BY <1>0, <1>1, <1>2 DEF CallInvOf, Gathers, Removing
<1>4. CASE ~NothingToCommit(p)
  <2>1. Plain(p)
    BY <1>0, <1>1, <1>2, <1>3, <1>4, PlainCommit
  <2>2. Quiet(p)
    BY <1>1, <1>2, <1>3, <2>1 DEF Quiet
  <2>. QED  BY <2>2, QuietKeeps
<1>5. CASE NothingToCommit(p)
  <2>1. frame' = [frame EXCEPT ![p] = Committed(frame[p])]
    BY <1>1, <1>5 DEF Commit
  <2>2. /\ \A q \in Proc \ {p} : frame'[q] = frame[q]
        /\ ~Written(frame'[p]) /\ frame'[p].pc # "putIndex"
        /\ Removes(frame'[p]) => frame'[p].victim = frame[p].victim
        /\ CallInvOf(frame'[p], builder'[p], deleted')
    BY <2>1, AfterCommitted
  <2>3. CallInv'
    BY <1>1, <1>2, <2>2, CallsOfOthers
  <2>4. trouble = 0 => builder'[p] = {}
    BY <1>1, <1>2, <1>5 DEF NothingToCommit, BuilderInv
  <2>5. KeptInv'
    <3>. SUFFICES ASSUME trouble' <= 1, NEW o \in Obj, MustKeep(o)'
                  PROVE  Stored(o)' \/ (trouble' = 1 /\ InMemory(o)')
      BY DEF KeptInv
    <3>1. MustKeep(o) /\ o # frame[p].obj
      BY <1>1, <1>3, <2>2 DEF MustKeep
    <3>2. CASE o \in builder'[p]
      <4>1. trouble' = 1
        BY <1>0, <1>1, <2>4, <3>2
      <4>. QED  BY <2>2, <3>2, <4>1 DEF InMemory
    <3>3. CASE o \notin builder'[p]
      <4>1. o \notin frame[p].victim
        BY <1>3, <3>1, <3>3
      <4>2. Stored(o) => Stored(o)'
        BY <1>1, <2>2, <4>1 DEF Stored, Doomed
      <4>3. InMemory(o) => InMemory(o)'
        BY <1>2, <2>2, <3>1, <3>3 DEF InMemory
      <4>. QED  BY <1>1, <3>1, <4>2, <4>3 DEF KeptInv
    <3>. QED  BY <3>2, <3>3
  <2>. QED  BY <2>3, <2>5
<1>. QED  BY <1>4, <1>5

(***************************************************************************)
(* The invariant, and the theorem about it.                                *)
(***************************************************************************)

LEMMA NextBuilder == Typed /\ BuilderInv /\ [Next]_vars => BuilderInv'
<1>. USE DEF vars, target, packBuilder, history, bounds
<1>. SUFFICES ASSUME Typed, BuilderInv, [Next]_vars
              PROVE  BuilderInv'
  OBVIOUS
<1>0. /\ builder \in [Proc -> SUBSET Obj] /\ buffer \in [Proc -> SUBSET Obj]
      /\ modified \in [Proc -> BOOLEAN] /\ trouble \in Nat
  BY DEF Typed
<1>1. CASE UNCHANGED packBuilder /\ (UNCHANGED trouble \/ trouble' = trouble + 1)
  BY <1>0, <1>1 DEF BuilderInv
<1>2. ASSUME NEW p \in Proc, NEW o, AddData(p, o), UNCHANGED trouble
      PROVE  BuilderInv'
  <2>1. /\ builder'[p] = builder[p] \cup {o} /\ buffer'[p] = buffer[p] \cup {o}
        /\ \A q \in Proc \ {p} : builder'[q] = builder[q] /\ buffer'[q] = buffer[q]
    BY <1>0, <1>2 DEF AddData
  <2>2. /\ modified'[p] <=> (modified[p] \/ o \notin builder[p])
        /\ \A q \in Proc \ {p} : modified'[q] <=> modified[q]
    BY <1>0, <1>2, Zenon DEF AddData
  <2>3. trouble = 0 /\ builder'[p] # {} => modified'[p]
    BY <2>2 DEF BuilderInv
  <2>. QED  BY <1>2, <2>1, <2>2, <2>3 DEF BuilderInv
<1>3. ASSUME NEW p \in Proc, ReadSucceeds(p), UNCHANGED trouble
      PROVE  BuilderInv'
  BY <1>1, <1>2, <1>3 DEF ReadSucceeds
<1>4. ASSUME NEW p \in Proc, FindForRead(p) \/ Fetch(p) \/ AddToPackBuilder(p)
      PROVE  BuilderInv'
  BY <1>1, <1>2, <1>3, <1>4 DEF FindForRead, Fetch, AddToPackBuilder
<1>5. ASSUME NEW p \in Proc, RemoveData(p)
      PROVE  BuilderInv'
  <2>1. /\ builder'[p] = builder[p] \ {frame[p].obj}
        /\ \A q \in Proc \ {p} : builder'[q] = builder[q]
        /\ UNCHANGED <<buffer, modified, trouble>>
    BY <1>0, <1>5 DEF RemoveData
  <2>. QED  BY <2>1 DEF BuilderInv
<1>6. ASSUME NEW p \in Proc, PutIndex(p) \/ Restart(p)
      PROVE  BuilderInv'
  <2>1. /\ builder'[p] = {} /\ buffer'[p] = {}
        /\ \A q \in Proc \ {p} : builder'[q] = builder[q] /\ buffer'[q] = buffer[q]
        /\ \A q \in Proc \ {p} : modified'[q] <=> modified[q]
        /\ UNCHANGED trouble \/ trouble' = trouble + 1
    BY <1>0, <1>6 DEF PutIndex, Restart, Trouble
  <2>. QED  BY <1>0, <2>1 DEF BuilderInv
<1>7. ASSUME NEW p \in Proc, PutFails(p)
      PROVE  BuilderInv'
  BY <1>0, <1>7 DEF PutFails, Trouble, BuilderInv
<1>8. ASSUME NEW p \in Proc, Call(p) \/ Load(p)
      PROVE  UNCHANGED <<packBuilder, trouble>>
  BY <1>8 DEF Call, DataForSHA1, PutData, DeleteBlobForSHA1, CommitCall, ClearCache,
              ReloadCache, Begin, Load, ListPacks, WaitForCompletion, RemoveStale,
              FinishLoad, LoadPackId, SaveRebuiltIndex, InsertLoaded
<1>9. ASSUME NEW p \in Proc,
             \/ ForgetMissingPack(p) \/ FindForDelete(p) \/ ReadPackIndex(p)
             \/ RebuildPackIndex(p) \/ ReadNextSibling(p) \/ PutPack(p)
             \/ DeletePack(p) \/ DeleteIndex(p)
      PROVE  UNCHANGED <<packBuilder, trouble>>
  BY <1>9 DEF ForgetMissingPack, FindForDelete, ReadPackIndex, RebuildPackIndex,
              ReadNextSibling, PutPack, DeletePack, DeleteIndex
<1>10. ASSUME NEW p \in Proc,
              CallFails(p) \/ RemovalFails(p) \/ \E t \in Thread : WorkerFails(p, t)
       PROVE  UNCHANGED packBuilder /\ trouble' = trouble + 1
  BY <1>10 DEF CallFails, RemovalFails, WorkerFails, Trouble
<1>. QED
  BY <1>1, <1>4, <1>5, <1>6, <1>7, <1>8, <1>9, <1>10 DEF Next, Step, Fails

KeepingInv == BuilderInv /\ CallInv /\ KeptInv

LEMMA InitKeeping == Init => KeepingInv
<1>. SUFFICES ASSUME Init
              PROVE  KeepingInv
  OBVIOUS
<1>1. BuilderInv
  BY DEF Init, BuilderInv
<1>2. CallInv
  BY IdleIsPlain DEF Init, CallInv
<1>3. \A pack : ~Doomed(pack)
  BY IdleIsPlain DEF Init, Doomed
<1>4. KeptInv
  <2>. SUFFICES ASSUME NEW o \in Obj, MustKeep(o)
                PROVE  Stored(o)
    BY DEF KeptInv
  <2>1. o \in UNION InitialPacks
    BY IdleIsPlain DEF Init, MustKeep
  <2>. QED  BY <1>3, <2>1 DEF Init, Stored
<1>. QED  BY <1>1, <1>2, <1>4 DEF KeepingInv

LEMMA NextKeeping ==
  TypeInv /\ EntriesAreBacked /\ KeepingInv /\ PutsAside /\ [Next]_vars => KeepingInv'
<1>. SUFFICES ASSUME TypeInv, EntriesAreBacked, KeepingInv, PutsAside, [Next]_vars
              PROVE  KeepingInv'
  OBVIOUS
<1>0. Typed /\ BuilderInv /\ CallInv /\ KeptInv
  BY DEF TypeInv, KeepingInv
<1>1. BuilderInv'
  BY <1>0, NextBuilder
<1>2. CASE UNCHANGED vars
  <2>1. UNCHANGED <<packs, builder, frame, committed, deleted, trouble>>
    BY <1>2 DEF vars, target, packBuilder, history, bounds
  <2>2. CallInv'
    BY <1>0, <2>1 DEF CallInv
  <2>3. KeptInv'
    BY <1>0, <2>1 DEF KeptInv, MustKeep, Stored, InMemory, Doomed
  <2>. QED  BY <1>1, <2>2, <2>3 DEF KeepingInv
<1>3. ASSUME NEW p \in Proc, Call(p) \/ Step(p) \/ Fails(p)
      PROVE  CallInv' /\ KeptInv'
  <2>1. CASE Call(p) \/ Load(p) \/ (Fails(p) /\ ~RemovalFails(p))
    BY <1>0, <2>1, QuietCall, QuietLoad, QuietFails, QuietKeeps
  <2>2. CASE \/ FindForRead(p) \/ Fetch(p) \/ ForgetMissingPack(p) \/ ReadNextSibling(p)
             \/ AddToPackBuilder(p) \/ FindForDelete(p) \/ DeleteIndex(p)
             \/ (ReadPackIndex(p) \/ RebuildPackIndex(p)) /\ frame[p].asks # "new"
    BY <1>0, <2>2, QuietRead, QuietFind, QuietKeeps
  <2>3. CASE \/ (ReadPackIndex(p) \/ RebuildPackIndex(p)) /\ frame[p].asks = "new"
             \/ PutIndex(p) \/ DeletePack(p)
    BY <1>0, <2>3, NewPackAdvances
  <2>4. CASE PutPack(p)
    BY <1>0, <2>4, PutPackKeeps
  <2>5. CASE RemoveData(p)
    BY <1>0, <2>5, RemoveDataKeeps
  <2>6. CASE RemovalFails(p)
    BY <1>0, <2>6, RemovalFailsKeeps
  <2>. QED  BY <1>3, <2>1, <2>2, <2>3, <2>4, <2>5, <2>6 DEF Step
<1>. QED  BY <1>1, <1>2, <1>3 DEF Next, KeepingInv

LEMMA KeptIsNotLost == Typed /\ KeepingInv => NothingIsLost
<1>. SUFFICES ASSUME Typed, KeptInv, trouble <= 1, NEW o \in Kept
              PROVE  AtTarget(o) \/ \E p \in Proc : o \in builder[p]
  BY DEF KeepingInv, NothingIsLost
<1>1. o \in Obj /\ MustKeep(o)
  BY DEF Typed, Kept, MustKeep
<1>. QED  BY <1>1 DEF KeptInv, Stored, InMemory, AtTarget

\* As long as no process writes the very pack that another is about to remove,
\* no object is lost but those that are to be deleted, whatever other processes
\* do meanwhile and whichever single step fails.
THEOREM DeletesLoseNothing == Spec /\ []PutsAside => []NothingIsLost
<1>1. Init => TypeInv /\ EntriesAreBacked /\ KeepingInv
  BY InitTypeInv, InitKeeping DEF Init, EntriesAreBacked
<1>2. TypeInv /\ EntriesAreBacked /\ KeepingInv /\ PutsAside /\ [Next]_vars
        => TypeInv' /\ EntriesAreBacked' /\ KeepingInv'
  BY NextTypes, NextBacked, NextKeeping
<1>3. TypeInv /\ KeepingInv => NothingIsLost
  BY KeptIsNotLost DEF TypeInv
<1>. QED  BY <1>1, <1>2, <1>3, PTL DEF Spec

(***************************************************************************)
(* Where PutsAside holds: where one process uses the pack set, and where   *)
(* a pack has at most one object that some process may find to be invalid, *)
(* and nobody puts such an object.  For then a new pack has none of them,  *)
(* and an old one that is removed has one.                                 *)
(***************************************************************************)

\* One process alone loses nothing, whichever single step fails.
THEOREM AloneLosesNothing ==
  ASSUME \A p, q \in Proc : p = q
  PROVE  Spec => []NothingIsLost
<1>1. PutsAside
  BY DEF PutsAside
<1>. HIDE DEF PutsAside
<1>. QED  BY <1>1, DeletesLoseNothing, PTL

Marked == UNION {Deletable[p] : p \in Proc}

AtMostOne(pack) == \A x, y \in pack \cap Marked : x = y

OneInAPack ==
  /\ \A p \in Proc : Puttable[p] \cap Marked = {}
  /\ \A pack \in InitialPacks : AtMostOne(pack)

\* What a call deletes is marked, what it saves is not; what it may add to the
\* PackBuilder is not.
ApartOf(f) ==
  /\ f.op = "delete" /\ f.pc \notin Removing => f.obj \in Marked
  /\ f.asks = "put" => f.obj \notin Marked
  /\ f.op = "delete" => f.todo \cap Marked = {}
  /\ f.op = "delete" /\ f.asks \in {"read", "missing"} => f.reads \notin Marked
  /\ f.op = "delete" => \/ f.asks = "find" /\ f.pc \in {"entry", "loading", "stale"}
                        \/ f.victim \cap Marked # {}
  /\ AtMostOne(f.pack) /\ \A pack \in f.toLoad : AtMostOne(pack)

CallsApart == \A p \in Proc : ApartOf(frame[p])

PacksApart ==
  /\ \A pack \in packs : AtMostOne(pack)
  /\ \A p \in Proc :
       /\ \A pack \in listing[p].packs \cup dbPacks[p] : AtMostOne(pack)
       /\ \A t \in Thread : AtMostOne(job[p][t].pack)
       /\ builder[p] \cap Marked = {}

LEMMA NoPackIsFine == AtMostOne(NoPack)
BY DEF NoPack, AtMostOne

LEMMA IdleIsApart == ApartOf(Idle)
BY NoPackIsFine DEF Idle, ApartOf

LEMMA ApartSet ==
  ASSUME frame \in [Proc -> Frame], CallsApart, NEW p \in Proc, NEW f, ApartOf(f),
         frame' = [frame EXCEPT ![p] = f]
  PROVE  CallsApart'
BY DEF CallsApart

LEMMA ApartReturn ==
  ASSUME frame \in [Proc -> Frame], CallsApart, NEW p \in Proc, Return(p)
  PROVE  CallsApart'
BY ApartSet, IdleIsApart DEF Return

LEMMA ApartLookup ==
  ASSUME frame \in [Proc -> Frame], CallsApart, NEW p \in Proc, NEW f \in Frame,
         frame' = [frame EXCEPT ![p] = f], frame[p].pc \notin Removing,
         f.pc \in {"entry", "loading", "stale", "fetch"},
         f.asks = "find" => f.pc # "fetch",
         \/ f.asks = frame[p].asks
         \/ f.asks \in {"read", "missing"} /\ frame[p].asks \in {"read", "missing"},
         f.op = frame[p].op, f.obj = frame[p].obj, f.victim = frame[p].victim,
         f.todo = frame[p].todo, f.reads = frame[p].reads, AtMostOne(f.pack),
         \A pack \in f.toLoad : AtMostOne(pack)
  PROVE  CallsApart'
<1>1. ApartOf(frame[p]) /\ frame[p] \in Frame
  BY DEF CallsApart
<1>2. ApartOf(f)
  BY <1>1 DEF ApartOf, Removing, Frame
<1>. QED  BY <1>2, ApartSet

LEMMA ApartTryAgain ==
  ASSUME Typed, CallsApart, NEW p \in Proc,
         frame[p].asks \in {"read", "missing"}, frame[p].pc \notin Removing, TryAgain(p)
  PROVE  CallsApart'
<1>0. frame \in [Proc -> Frame] /\ frame[p] \in Frame /\ ApartOf(frame[p])
  BY DEF Typed, CallsApart
<1>. DEFINE f == [LoadEnded(frame[p]) EXCEPT !.pc = "entry", !.asks = "read",
                                             !.tries = frame[p].tries + 1]
<1>1. CASE frame[p].tries + 1 < frame[p].max
  <2>1. frame' = [frame EXCEPT ![p] = f]
    BY <1>1 DEF TryAgain
  <2>2. f \in Frame
    <3>1. LoadEnded(frame[p]) \in Frame /\ frame[p].tries + 1 \in 0..MaxRetries
      BY <1>0, <1>1, LoadEndedIsFrame, PackSetAssumption DEF Frame
    <3>. QED  BY <3>1 DEF Frame
  <2>3. /\ f.pc = "entry" /\ f.asks = "read" /\ f.op = frame[p].op
        /\ f.obj = frame[p].obj /\ f.victim = frame[p].victim /\ f.todo = frame[p].todo
        /\ f.reads = frame[p].reads /\ f.pack = frame[p].pack /\ f.toLoad = {}
    BY <1>0 DEF LoadEnded, Frame
  <2>4. AtMostOne(f.pack)
    BY <1>0, <2>3 DEF ApartOf
  <2>. HIDE DEF f
  <2>. QED  BY <1>0, <2>1, <2>2, <2>3, <2>4, ApartLookup
<1>2. CASE ~(frame[p].tries + 1 < frame[p].max)
  BY <1>0, <1>2, ApartReturn DEF TryAgain
<1>. QED  BY <1>1, <1>2

LEMMA ApartLoadFailed ==
  ASSUME Typed, CallsApart, NEW p \in Proc,
         frame[p].pc \notin Removing, LoadFailed(p)
  PROVE  CallsApart'
BY ApartTryAgain, ApartReturn DEF LoadFailed, Typed

LEMMA ApartRead ==
  ASSUME Typed, CallsApart, NEW p \in Proc,
         frame[p].asks = "read", frame[p].pc \notin Removing, ReadSucceeds(p)
  PROVE  /\ CallsApart'
         /\ builder[p] \cap Marked = {} => builder'[p] \cap Marked = {}
         /\ \A q \in Proc \ {p} : builder'[q] = builder[q]
<1>0. /\ frame \in [Proc -> Frame] /\ frame[p] \in Frame /\ ApartOf(frame[p])
      /\ builder \in [Proc -> SUBSET Obj]
  BY DEF Typed, CallsApart
<1>1. CASE frame[p].op = "delete"
  <2>. DEFINE f == [frame[p] EXCEPT !.pc = "siblings", !.asks = "nothing", !.pack = NoPack,
                           !.todo = frame[p].todo \ {frame[p].reads},
                           !.reads = None, !.tries = 0]
  <2>1. /\ frame' = [frame EXCEPT ![p] = f]
        /\ builder' = [builder EXCEPT ![p] = builder[p] \cup {frame[p].reads}]
    BY <1>1 DEF ReadSucceeds, AddData
  <2>2. /\ f.pc = "siblings" /\ f.asks = "nothing" /\ f.op = "delete"
        /\ f.obj = frame[p].obj /\ f.victim = frame[p].victim /\ f.pack = NoPack
        /\ f.todo = frame[p].todo \ {frame[p].reads} /\ f.toLoad = frame[p].toLoad
    BY <1>0, <1>1 DEF Frame
  <2>3. frame[p].reads \notin Marked
    BY <1>0, <1>1 DEF ApartOf
  <2>. HIDE DEF f
  <2>4. ApartOf(f)
    BY <1>0, <1>1, <2>2, NoPackIsFine DEF ApartOf
  <2>. QED  BY <1>0, <2>1, <2>3, <2>4, ApartSet
<1>2. CASE frame[p].op # "delete"
  BY <1>0, <1>2, ApartReturn DEF ReadSucceeds, packBuilder
<1>. QED  BY <1>1, <1>2

LEMMA ApartCommitted ==
  ASSUME NEW f \in Frame, ApartOf(f), f.asks # "find"
  PROVE  ApartOf(Committed(f))
<1>1. CASE f.op = "delete"
  <2>1. /\ Committed(f).pc = "deletePack" /\ Committed(f).asks = "nothing"
        /\ Committed(f).op = "delete" /\ Committed(f).victim = f.victim
        /\ Committed(f).todo = f.todo /\ Committed(f).pack = NoPack
        /\ Committed(f).toLoad = f.toLoad
    BY <1>1 DEF Committed, Frame
  <2>. QED  BY <1>1, <2>1, NoPackIsFine DEF ApartOf, Removing
<1>2. CASE f.op # "delete"
  BY <1>2, IdleIsApart DEF Committed
<1>. QED  BY <1>1, <1>2

LEMMA ApartCommit ==
  ASSUME Typed, CallsApart, NEW p \in Proc, NEW f \in Frame, Commit(p, f),
         ApartOf(f), f.asks # "find", f.op = "delete" => f.pc \notin Removing,
         builder'[p] \cap Marked = {}
  PROVE  CallsApart'
<1>0. frame \in [Proc -> Frame]
  BY DEF Typed
<1>. DEFINE g == [f EXCEPT !.pc = "putPack", !.asks = "new", !.pack = builder'[p]]
<1>1. CASE NothingToCommit(p)
  <2>1. frame' = [frame EXCEPT ![p] = Committed(f)]
    BY <1>1 DEF Commit
  <2>. QED  BY <1>0, <2>1, ApartCommitted, ApartSet
<1>2. CASE ~NothingToCommit(p)
  <2>1. frame' = [frame EXCEPT ![p] = g]
    BY <1>2 DEF Commit
  <2>2. /\ g.pc = "putPack" /\ g.asks = "new" /\ g.pack = builder'[p]
        /\ g.op = f.op /\ g.obj = f.obj /\ g.victim = f.victim /\ g.todo = f.todo
        /\ g.toLoad = f.toLoad
    BY DEF Frame
  <2>3. AtMostOne(g.pack)
    BY <2>2 DEF AtMostOne
  <2>. HIDE DEF g
  <2>4. ApartOf(g)
    BY <2>2, <2>3 DEF ApartOf
  <2>. QED  BY <1>0, <2>1, <2>4, ApartSet
<1>. QED  BY <1>1, <1>2

LEMMA ApartHasIndex ==
  ASSUME Typed, CallInv, CallsApart, NEW p \in Proc,
         frame[p].pc \in {"index", "rebuild"}, HasIndex(p)
  PROVE  CallsApart'
<1>0. /\ frame \in [Proc -> Frame] /\ frame[p] \in Frame /\ ApartOf(frame[p])
      /\ CallInvOf(frame[p], builder[p], deleted)
  BY DEF Typed, CallInv, CallsApart
<1>. DEFINE f == [frame[p] EXCEPT !.pc = "siblings", !.asks = "nothing",
                                  !.pack = NoPack,
                                  !.todo = frame[p].pack \ {frame[p].obj}]
<1>1. CASE frame[p].asks = "new"
  <2>1. frame' = [frame EXCEPT ![p] = Committed(frame[p])]
    BY <1>1 DEF HasIndex
  <2>. QED  BY <1>0, <1>1, <2>1, ApartCommitted, ApartSet
<1>2. CASE frame[p].asks # "new"
  <2>1. frame' = [frame EXCEPT ![p] = f]
    BY <1>2 DEF HasIndex
  <2>2. /\ frame[p].op = "delete" /\ frame[p].pack = frame[p].victim
        /\ frame[p].obj \in frame[p].pack /\ frame[p].pc \notin Removing
    BY <1>0, <1>2 DEF CallInvOf, Removing
  <2>3. /\ f.pc = "siblings" /\ f.asks = "nothing" /\ f.op = "delete"
        /\ f.obj = frame[p].obj /\ f.victim = frame[p].victim /\ f.pack = NoPack
        /\ f.todo = frame[p].victim \ {frame[p].obj} /\ f.toLoad = frame[p].toLoad
    BY <1>0, <2>2 DEF Frame
  <2>. HIDE DEF f
  <2>4. f.todo \cap Marked = {}
    BY <1>0, <2>2, <2>3 DEF ApartOf, AtMostOne
  <2>5. ApartOf(f)
    BY <1>0, <2>2, <2>3, <2>4, NoPackIsFine DEF ApartOf
  <2>. QED  BY <1>0, <2>1, <2>5, ApartSet
<1>. QED  BY <1>1, <1>2

LEMMA CallApart ==
  ASSUME OneInAPack, Typed, CallsApart, PacksApart, NEW p \in Proc, Call(p)
  PROVE  CallsApart'
<1>0. frame \in [Proc -> Frame] /\ Idle \in Frame
  BY IdleIsFrame DEF Typed
<1>1. ASSUME NEW o \in Obj, NEW retry \in BOOLEAN, DataForSHA1(p, o, retry)
      PROVE  CallsApart'
  <2>. DEFINE f == [Idle EXCEPT !.pc = "entry", !.op = "data", !.asks = "read",
                                !.obj = o, !.reads = o,
                                !.max = IF retry THEN MaxRetries ELSE 1]
  <2>1. f.op = "data" /\ f.asks = "read" /\ f.pack = NoPack /\ f.toLoad = {}
    BY DEF Idle
  <2>2. frame' = [frame EXCEPT ![p] = f]
    BY <1>1 DEF DataForSHA1, Begin
  <2>. HIDE DEF f
  <2>3. ApartOf(f)
    BY <2>1, NoPackIsFine DEF ApartOf
  <2>. QED  BY <1>0, <2>2, <2>3, ApartSet
<1>2. ASSUME NEW o \in Obj, PutData(p, o)
      PROVE  CallsApart'
  <2>. DEFINE f == [Idle EXCEPT !.pc = "entry", !.op = "put", !.asks = "put",
                                !.obj = o]
  <2>1. /\ f.op = "put" /\ f.asks = "put" /\ f.obj = o /\ f.pack = NoPack
        /\ f.toLoad = {}
    BY DEF Idle
  <2>2. frame' = [frame EXCEPT ![p] = f] /\ o \notin Marked
    BY <1>2 DEF PutData, Begin, OneInAPack
  <2>. HIDE DEF f
  <2>3. ApartOf(f)
    BY <2>1, <2>2, NoPackIsFine DEF ApartOf
  <2>. QED  BY <1>0, <2>2, <2>3, ApartSet
<1>3. ASSUME NEW o \in Obj, DeleteBlobForSHA1(p, o)
      PROVE  CallsApart'
  <2>. DEFINE f == [Idle EXCEPT !.pc = "entry", !.op = "delete", !.asks = "find",
                                !.obj = o]
  <2>1. /\ f.pc = "entry" /\ f.op = "delete" /\ f.asks = "find" /\ f.obj = o
        /\ f.pack = NoPack /\ f.toLoad = {} /\ f.todo = {}
    BY DEF Idle
  <2>2. frame' = [frame EXCEPT ![p] = f] /\ o \in Marked
    BY <1>3 DEF DeleteBlobForSHA1, Begin, Marked
  <2>. HIDE DEF f
  <2>3. ApartOf(f)
    BY <2>1, <2>2, NoPackIsFine DEF ApartOf
  <2>. QED  BY <1>0, <2>2, <2>3, ApartSet
<1>4. CASE CommitCall(p)
  <2>. DEFINE f == [Idle EXCEPT !.op = "commit"]
  <2>1. f \in Frame
    BY <1>0 DEF Frame
  <2>2. /\ f.op = "commit" /\ f.asks = "nothing" /\ f.pack = NoPack /\ f.toLoad = {}
    BY DEF Idle
  <2>3. Commit(p, f) /\ UNCHANGED builder
    BY <1>4 DEF CommitCall, packBuilder
  <2>. HIDE DEF f
  <2>4. ApartOf(f)
    BY <2>2, NoPackIsFine DEF ApartOf
  <2>. QED  BY <2>1, <2>2, <2>3, <2>4, ApartCommit DEF PacksApart
<1>5. CASE ClearCache(p) \/ ReloadCache(p)
  <2>1. Return(p)
    BY <1>5 DEF ClearCache, ReloadCache, Begin, Return
  <2>. QED  BY <1>0, <2>1, ApartReturn
<1>. QED  BY <1>1, <1>2, <1>3, <1>4, <1>5 DEF Call

LEMMA ListingApart ==
  ASSUME PacksApart, NEW p \in Proc
  PROVE  \A pack \in Listing(p).packs : AtMostOne(pack)
BY DEF PacksApart, Listing

LEMMA LoadApart ==
  ASSUME Typed, CallsApart, PacksApart, NEW p \in Proc, Load(p)
  PROVE  CallsApart'
<1>0. frame \in [Proc -> Frame] /\ frame[p] \in Frame /\ ApartOf(frame[p])
  BY DEF Typed, CallsApart
<1>2. CASE ListPacks(p)
  <2>. DEFINE listed == Listing(p).packs
              toLoad == listed \ dbPacks[p]
              f == [frame[p] EXCEPT !.pc = IF toLoad = {} THEN "stale" ELSE "loading",
                      !.listed = listed, !.toLoad = toLoad, !.skipped = {}]
  <2>1. frame' = [frame EXCEPT ![p] = f] /\ frame[p].pc = "entry"
    BY <1>0, <1>2 DEF ListPacks
  <2>2. f \in Frame
    <3>1. listed \subseteq Pack /\ toLoad \subseteq Pack
      BY ListingTyped DEF Listings
    <3>. QED  BY <1>0, <3>1 DEF Frame
  <2>3. /\ f.pc \in {"stale", "loading"} /\ f.asks = frame[p].asks
        /\ f.op = frame[p].op /\ f.obj = frame[p].obj /\ f.victim = frame[p].victim
        /\ f.todo = frame[p].todo /\ f.reads = frame[p].reads
        /\ f.pack = frame[p].pack /\ f.toLoad = toLoad
    BY <1>0 DEF Frame
  <2>4. AtMostOne(f.pack) /\ \A pack \in f.toLoad : AtMostOne(pack)
    BY <1>0, <2>3, ListingApart DEF ApartOf
  <2>. HIDE DEF f
  <2>. QED  BY <1>0, <2>1, <2>2, <2>3, <2>4, ApartLookup DEF Removing
<1>3. CASE WaitForCompletion(p)
  <2>1. CASE loadError[p] = "none"
    <3>. DEFINE f == [frame[p] EXCEPT !.pc = "stale"]
    <3>1. frame' = [frame EXCEPT ![p] = f] /\ frame[p].pc = "loading"
      BY <1>0, <1>3, <2>1 DEF WaitForCompletion
    <3>2. /\ f \in Frame /\ f.pc = "stale" /\ f.asks = frame[p].asks
          /\ f.op = frame[p].op /\ f.obj = frame[p].obj /\ f.victim = frame[p].victim
          /\ f.todo = frame[p].todo /\ f.reads = frame[p].reads
          /\ f.pack = frame[p].pack /\ f.toLoad = frame[p].toLoad
      BY <1>0 DEF Frame
    <3>3. AtMostOne(f.pack) /\ \A pack \in f.toLoad : AtMostOne(pack)
      BY <1>0, <3>2 DEF ApartOf
    <3>. HIDE DEF f
    <3>. QED  BY <1>0, <3>1, <3>2, <3>3, ApartLookup DEF Removing
  <2>2. CASE loadError[p] # "none"
    BY <1>3, <2>2, ApartLoadFailed DEF WaitForCompletion, Removing
  <2>. QED  BY <2>1, <2>2
<1>4. CASE FinishLoad(p)
  <2>. DEFINE f == [LoadEnded(frame[p]) EXCEPT !.pc = "entry"]
  <2>1. frame' = [frame EXCEPT ![p] = f] /\ frame[p].pc = "stale"
    BY <1>4 DEF FinishLoad
  <2>2. LoadEnded(frame[p]) \in Frame
    BY <1>0, LoadEndedIsFrame
  <2>3. f \in Frame
    BY <2>2 DEF Frame
  <2>4. /\ f.pc = "entry" /\ f.asks = frame[p].asks
        /\ f.op = frame[p].op /\ f.obj = frame[p].obj /\ f.victim = frame[p].victim
        /\ f.todo = frame[p].todo /\ f.reads = frame[p].reads
        /\ f.pack = frame[p].pack /\ f.toLoad = {}
    BY <1>0 DEF Frame, LoadEnded
  <2>5. AtMostOne(f.pack)
    BY <1>0, <2>4 DEF ApartOf
  <2>. HIDE DEF f
  <2>. QED  BY <1>0, <2>1, <2>3, <2>4, <2>5, ApartLookup DEF Removing
<1>5. ASSUME NEW t \in Thread, LoadPackId(p, t)
      PROVE  CallsApart'
  <2>1. PICK pack \in frame[p].toLoad :
           \/ frame' = [frame EXCEPT ![p].toLoad = @ \ {pack}]
           \/ frame' = [frame EXCEPT ![p].toLoad = @ \ {pack},
                                     ![p].skipped = @ \cup {pack}]
    BY <1>5 DEF LoadPackId
  <2>2. frame[p].pc = "loading"
    BY <1>5 DEF LoadPackId
  <2>3. PICK f \in {[frame[p] EXCEPT !.toLoad = @ \ {pack}],
                    [frame[p] EXCEPT !.toLoad = @ \ {pack}, !.skipped = @ \cup {pack}]} :
          frame' = [frame EXCEPT ![p] = f]
    BY <1>0, <2>1
  <2>4. /\ f.pc = "loading" /\ f.asks = frame[p].asks
        /\ f.op = frame[p].op /\ f.obj = frame[p].obj /\ f.victim = frame[p].victim
        /\ f.todo = frame[p].todo /\ f.reads = frame[p].reads
        /\ f.pack = frame[p].pack /\ f.toLoad = frame[p].toLoad \ {pack}
    BY <1>0, <2>2, <2>3 DEF Frame
  <2>5. f \in Frame
    BY <1>0, <2>1, <2>3 DEF Frame
  <2>6. AtMostOne(f.pack) /\ \A other \in f.toLoad : AtMostOne(other)
    BY <1>0, <2>4 DEF ApartOf
  <2>. QED  BY <1>0, <2>2, <2>3, <2>4, <2>5, <2>6, ApartLookup DEF Removing
<1>6. CASE RemoveStale(p) \/ \E t \in Thread : SaveRebuiltIndex(p, t) \/ InsertLoaded(p, t)
  <2>1. UNCHANGED frame
    BY <1>6 DEF RemoveStale, SaveRebuiltIndex, InsertLoaded
  <2>. QED  BY <2>1 DEF CallsApart
<1>. QED  BY <1>2, <1>3, <1>4, <1>5, <1>6 DEF Load

\* A row names a pack with at most one marked object.
LEMMA EntryApart ==
  ASSUME EntriesAreBacked, PacksApart, NEW p \in Proc, NEW o \in Obj
  PROVE  AtMostOne(entry[p][o])
<1>1. CASE entry[p][o] = NoPack
  BY <1>1, NoPackIsFine
<1>2. CASE entry[p][o] # NoPack
  BY <1>2 DEF EntriesAreBacked, PacksApart
<1>. QED  BY <1>1, <1>2

LEMMA StepApart ==
  ASSUME TypeInv, EntriesAreBacked, CallInv, CallsApart, PacksApart,
         NEW p \in Proc, Step(p), ~Load(p)
  PROVE  CallsApart'
<1>. USE DEF packBuilder
<1>0. /\ Typed /\ frame \in [Proc -> Frame] /\ frame[p] \in Frame /\ Knows(frame[p])
      /\ entry \in [Proc -> [Obj -> Pack]] /\ CallInvOf(frame[p], builder[p], deleted)
      /\ builder \in [Proc -> SUBSET Obj] /\ ApartOf(frame[p])
      /\ builder[p] \cap Marked = {}
  BY DEF TypeInv, Typed, CallInv, CallsApart, PacksApart
<1>1. CASE FindForRead(p)
  <2>0. frame[p].pc = "entry" /\ frame[p].asks = "read" /\ frame[p].reads \in Obj
    BY <1>0, <1>1 DEF FindForRead, Asks, Knows, Reads
  <2>. DEFINE pack == entry[p][frame[p].reads]
              f == [frame[p] EXCEPT !.pc = "fetch", !.pack = pack]
  <2>1. CASE pack # NoPack
    <3>1. frame' = [frame EXCEPT ![p] = f]
      BY <1>0, <1>1, <2>1 DEF FindForRead
    <3>2. pack \in Pack /\ AtMostOne(pack)
      BY <1>0, <2>0, EntryApart
    <3>3. /\ f \in Frame /\ f.pc = "fetch" /\ f.asks = "read" /\ f.op = frame[p].op
          /\ f.obj = frame[p].obj /\ f.victim = frame[p].victim
          /\ f.todo = frame[p].todo /\ f.reads = frame[p].reads
          /\ f.pack = pack /\ f.toLoad = frame[p].toLoad
      BY <1>0, <2>0, <3>2 DEF Frame
    <3>4. \A other \in f.toLoad : AtMostOne(other)
      BY <1>0, <3>3 DEF ApartOf
    <3>. HIDE DEF f
    <3>. QED  BY <1>0, <2>0, <3>1, <3>2, <3>3, <3>4, ApartLookup DEF Removing
  <2>2. CASE ReadSucceeds(p)
    BY <1>0, <2>0, <2>2, ApartRead DEF Removing
  <2>3. CASE Return(p)
    BY <1>0, <2>3, ApartReturn
  <2>. QED  BY <1>1, <2>1, <2>2, <2>3 DEF FindForRead
<1>2. CASE Fetch(p)
  <2>0. frame[p].pc = "fetch" /\ frame[p].asks = "read"
    BY <1>0, <1>2 DEF Fetch, Knows, Reads
  <2>1. CASE Readable(p, frame[p].pack)
    BY <1>0, <1>2, <2>0, <2>1, ApartRead DEF Fetch, Removing
  <2>2. CASE ~Readable(p, frame[p].pack)
    <3>. DEFINE f == [frame[p] EXCEPT !.pc = "entry", !.asks = "missing", !.pack = NoPack]
    <3>1. frame' = [frame EXCEPT ![p] = f]
      BY <1>0, <1>2, <2>2 DEF Fetch
    <3>2. /\ f \in Frame /\ f.pc = "entry" /\ f.asks = "missing" /\ f.op = frame[p].op
          /\ f.obj = frame[p].obj /\ f.victim = frame[p].victim
          /\ f.todo = frame[p].todo /\ f.reads = frame[p].reads
          /\ f.pack = NoPack /\ f.toLoad = frame[p].toLoad
      BY <1>0, NothingIsTyped DEF Frame
    <3>3. \A other \in f.toLoad : AtMostOne(other)
      BY <1>0, <3>2 DEF ApartOf
    <3>. HIDE DEF f
    <3>. QED  BY <1>0, <2>0, <3>1, <3>2, <3>3, NoPackIsFine, ApartLookup DEF Removing
  <2>. QED  BY <2>1, <2>2
<1>3. CASE ForgetMissingPack(p)
  <2>1. frame[p].pc = "entry" /\ frame[p].asks = "missing" /\ TryAgain(p)
    BY <1>3 DEF ForgetMissingPack, Asks
  <2>. QED  BY <1>0, <2>1, ApartTryAgain DEF Removing
<1>4. CASE AddToPackBuilder(p)
  <2>1. /\ frame[p].pc = "entry" /\ frame[p].asks = "put"
        /\ frame[p].op = "put" /\ frame[p].obj \notin Marked
    BY <1>0, <1>4 DEF AddToPackBuilder, Asks, CallInvOf, ApartOf
  <2>2. builder'[p] \cap Marked = {}
    BY <1>0, <1>4, <2>1 DEF AddToPackBuilder, AddData
  <2>. QED  BY <1>0, <1>4, <2>1, <2>2, ApartCommit, ApartReturn DEF AddToPackBuilder
<1>5. CASE FindForDelete(p)
  <2>. DEFINE pack == entry[p][frame[p].obj]
              f == [frame[p] EXCEPT !.pc = "index", !.pack = pack, !.victim = pack]
  <2>0. frame[p].pc = "entry" /\ frame[p].asks = "find" /\ frame[p].obj \in Obj
    BY <1>0, <1>5 DEF FindForDelete, Asks, Knows, Reads
  <2>1. CASE pack = NoPack
    BY <1>0, <1>5, <2>1, ApartReturn DEF FindForDelete
  <2>2. CASE pack # NoPack
    <3>1. frame' = [frame EXCEPT ![p] = f]
      BY <1>0, <1>5, <2>2 DEF FindForDelete
    <3>2. frame[p].obj \in pack /\ AtMostOne(pack)
      BY <2>0, <2>2, EntryApart DEF EntriesAreBacked
    <3>3. frame[p].op = "delete" /\ frame[p].obj \in Marked
      BY <1>0, <2>0 DEF CallInvOf, ApartOf, Removing
    <3>4. /\ f.pc = "index" /\ f.asks = "find" /\ f.op = "delete"
          /\ f.obj = frame[p].obj /\ f.victim = pack /\ f.pack = pack
          /\ f.todo = frame[p].todo /\ f.toLoad = frame[p].toLoad
      BY <1>0, <2>0, <3>3 DEF Frame
    <3>. HIDE DEF f
    <3>5. ApartOf(f)
      BY <1>0, <3>2, <3>3, <3>4 DEF ApartOf
    <3>. QED  BY <1>0, <3>1, <3>5, ApartSet
  <2>. QED  BY <2>1, <2>2
<1>6. CASE ReadPackIndex(p)
  <2>. DEFINE f == [frame[p] EXCEPT !.pc = "rebuild"]
  <2>0. frame[p].pc = "index"
    BY <1>6 DEF ReadPackIndex
  <2>1. CASE HasIndex(p)
    BY <1>0, <2>0, <2>1, ApartHasIndex
  <2>2. CASE frame' = [frame EXCEPT ![p] = f]
    <3>1. /\ f.pc = "rebuild" /\ f.asks = frame[p].asks /\ f.op = frame[p].op
          /\ f.obj = frame[p].obj /\ f.victim = frame[p].victim /\ f.pack = frame[p].pack
          /\ f.todo = frame[p].todo /\ f.toLoad = frame[p].toLoad
          /\ f.reads = frame[p].reads
      BY <1>0 DEF Frame
    <3>. HIDE DEF f
    <3>2. ApartOf(f)
      BY <1>0, <2>0, <3>1 DEF ApartOf, Removing
    <3>. QED  BY <1>0, <2>2, <3>2, ApartSet
  <2>3. CASE Return(p)
    BY <1>0, <2>3, ApartReturn
  <2>. QED  BY <1>0, <1>6, <2>1, <2>2, <2>3 DEF ReadPackIndex
<1>7. CASE RebuildPackIndex(p)
  BY <1>0, <1>7, ApartHasIndex DEF RebuildPackIndex
<1>8. CASE ReadNextSibling(p)
  <2>1. PICK o \in frame[p].todo :
          frame' = [frame EXCEPT ![p].pc = "entry", ![p].asks = "read",
                                 ![p].reads = o, ![p].max = 1]
    BY <1>8 DEF ReadNextSibling
  <2>. DEFINE f == [frame[p] EXCEPT !.pc = "entry", !.asks = "read",
                                    !.reads = o, !.max = 1]
  <2>2. frame' = [frame EXCEPT ![p] = f]
    BY <1>0, <2>1
  <2>3. /\ f.pc = "entry" /\ f.asks = "read" /\ f.op = frame[p].op /\ f.reads = o
        /\ f.obj = frame[p].obj /\ f.victim = frame[p].victim
        /\ f.todo = frame[p].todo /\ f.pack = frame[p].pack
        /\ f.toLoad = frame[p].toLoad
    BY <1>0 DEF Frame
  <2>4. /\ frame[p].pc = "siblings" /\ frame[p].asks = "nothing"
        /\ frame[p].op = "delete" /\ o \notin Marked
    BY <1>0, <1>8, <2>1 DEF ReadNextSibling, CallInvOf, ApartOf
  <2>. HIDE DEF f
  <2>5. ApartOf(f)
    BY <1>0, <2>3, <2>4 DEF ApartOf, Removing
  <2>. QED  BY <1>0, <2>2, <2>5, ApartSet
<1>9. CASE RemoveData(p)
  <2>1. /\ frame[p].pc = "siblings" /\ frame[p].asks = "nothing"
        /\ Commit(p, frame[p])
    BY <1>0, <1>9 DEF RemoveData, CallInvOf
  <2>2. builder'[p] \cap Marked = {}
    BY <1>0, <1>9 DEF RemoveData
  <2>. QED  BY <1>0, <2>1, <2>2, ApartCommit DEF Removing
<1>10. CASE PutPack(p) \/ PutIndex(p) \/ DeletePack(p)
  <2>1. PICK next \in {"putIndex", "index", "deleteIndex"} :
          /\ frame' = [frame EXCEPT ![p].pc = next]
          /\ next = "deleteIndex" \/ frame[p].pc \in {"putPack", "putIndex"}
    BY <1>10 DEF PutPack, PutIndex, DeletePack
  <2>. DEFINE f == [frame[p] EXCEPT !.pc = next]
  <2>2. frame' = [frame EXCEPT ![p] = f]
    BY <1>0, <2>1
  <2>3. /\ f.pc = next /\ f.asks = frame[p].asks /\ f.op = frame[p].op
        /\ f.obj = frame[p].obj /\ f.victim = frame[p].victim /\ f.pack = frame[p].pack
        /\ f.todo = frame[p].todo /\ f.toLoad = frame[p].toLoad
        /\ f.reads = frame[p].reads
    BY <1>0 DEF Frame
  <2>4. frame[p].pc \in {"putPack", "putIndex", "deletePack"}
    BY <1>10 DEF PutPack, PutIndex, DeletePack
  <2>. HIDE DEF f
  <2>5. ApartOf(f)
    BY <1>0, <2>1, <2>3, <2>4 DEF ApartOf, Removing
  <2>. QED  BY <1>0, <2>2, <2>5, ApartSet
<1>11. CASE DeleteIndex(p)
  BY <1>0, <1>11, ApartReturn DEF DeleteIndex
<1>. QED
  BY <1>1, <1>2, <1>3, <1>4, <1>5, <1>6, <1>7, <1>8, <1>9, <1>10, <1>11 DEF Step

LEMMA FailsApart ==
  ASSUME Typed, CallsApart, NEW p \in Proc, Fails(p)
  PROVE  CallsApart'
<1>0. frame \in [Proc -> Frame] /\ frame[p] \in Frame /\ ApartOf(frame[p])
  BY DEF Typed, CallsApart
<1>1. CASE PutFails(p) \/ RemovalFails(p) \/ Restart(p)
  BY <1>0, <1>1, ApartReturn DEF PutFails, RemovalFails, Restart
<1>2. CASE CallFails(p)
  BY <1>0, <1>2, ApartReturn, ApartLoadFailed DEF CallFails, Removing
<1>3. ASSUME NEW t \in Thread, WorkerFails(p, t)
      PROVE  CallsApart'
  <2>1. CASE UNCHANGED frame
    BY <2>1 DEF CallsApart
  <2>2. ASSUME NEW pack \in frame[p].toLoad,
               frame' = [frame EXCEPT ![p].toLoad = @ \ {pack}]
        PROVE  CallsApart'
    <3>. DEFINE f == [frame[p] EXCEPT !.toLoad = @ \ {pack}]
    <3>1. frame' = [frame EXCEPT ![p] = f]
      BY <1>0, <2>2
    <3>2. /\ f.pc = frame[p].pc /\ f.asks = frame[p].asks /\ f.op = frame[p].op
          /\ f.obj = frame[p].obj /\ f.victim = frame[p].victim /\ f.pack = frame[p].pack
          /\ f.todo = frame[p].todo /\ f.toLoad = frame[p].toLoad \ {pack}
          /\ f.reads = frame[p].reads
      BY <1>0 DEF Frame
    <3>. HIDE DEF f
    <3>3. ApartOf(f)
      BY <1>0, <3>2 DEF ApartOf
    <3>. QED  BY <1>0, <3>1, <3>3, ApartSet
  <2>. QED  BY <1>3, <2>1, <2>2 DEF WorkerFails
<1>. QED  BY <1>1, <1>2, <1>3 DEF Fails

\* Each part of PacksApart, for a step of p.
LEMMA TargetApart ==
  ASSUME Typed, CallsApart, PacksApart, NEW p \in Proc, Call(p) \/ Step(p) \/ Fails(p)
  PROVE  \A pack \in packs' : AtMostOne(pack)
<1>. USE DEF target
<1>0. AtMostOne(frame[p].pack) /\ \A pack \in packs : AtMostOne(pack)
  BY DEF CallsApart, ApartOf, PacksApart
<1>1. CASE PutPack(p) \/ PutFails(p)
  BY <1>0, <1>1 DEF PutPack, PutPackData, PutFails
<1>2. CASE DeletePack(p) \/ RemovalFails(p)
  BY <1>0, <1>2 DEF DeletePack, RemovePack, RemovalFails
<1>3. CASE Call(p) \/ Load(p)
  BY <1>0, <1>3 DEF Call, DataForSHA1, PutData, DeleteBlobForSHA1, CommitCall, ClearCache,
              ReloadCache, Begin, Load, ListPacks, WaitForCompletion, RemoveStale,
              FinishLoad, LoadPackId, SaveRebuiltIndex, InsertLoaded
<1>4. CASE \/ FindForRead(p) \/ Fetch(p) \/ ForgetMissingPack(p) \/ AddToPackBuilder(p)
           \/ FindForDelete(p) \/ ReadPackIndex(p) \/ RebuildPackIndex(p)
           \/ ReadNextSibling(p) \/ RemoveData(p) \/ PutIndex(p) \/ DeleteIndex(p)
  BY <1>0, <1>4 DEF FindForRead, Fetch, ForgetMissingPack, AddToPackBuilder, FindForDelete,
              ReadPackIndex, RebuildPackIndex, ReadNextSibling, RemoveData, PutIndex,
              DeleteIndex
<1>5. CASE CallFails(p) \/ Restart(p) \/ \E t \in Thread : WorkerFails(p, t)
  BY <1>0, <1>5 DEF CallFails, Restart, WorkerFails
<1>. QED  BY <1>1, <1>2, <1>3, <1>4, <1>5 DEF Step, Fails

LEMMA CacheApart ==
  ASSUME Typed, CallsApart, PacksApart, NEW p \in Proc, Call(p) \/ Step(p) \/ Fails(p)
  PROVE  \A q \in Proc : \A pack \in listing'[q].packs : AtMostOne(pack)
<1>. DEFINE Goal == \A q \in Proc : \A pack \in listing'[q].packs : AtMostOne(pack)
<1>0. /\ listing \in [Proc -> Listings] /\ Listing(p) \in Listings
      /\ AtMostOne(frame[p].pack)
      /\ \A q \in Proc : \A pack \in listing[q].packs : AtMostOne(pack)
  BY ListingTyped DEF Typed, CallsApart, ApartOf, PacksApart
<1>1. ASSUME NEW l \in Listings, CacheListing(p, l), \A pack \in l.packs : AtMostOne(pack)
      PROVE  Goal
  BY <1>0, <1>1 DEF CacheListing
<1>2. CASE UNCHANGED fark
  BY <1>0, <1>2 DEF fark
<1>3. CASE ListPacks(p)
  BY <1>0, <1>1, <1>3, ListingApart DEF ListPacks
<1>4. ASSUME NEW pack, PutIndexData(p, pack) \/ RemoveIndex(p, pack)
      PROVE  Goal
  <2>1. PICK s \in {Listing(p).indexes \cup {pack}, Listing(p).indexes \ {pack}} :
          CacheListing(p, [Listing(p) EXCEPT !.indexes = s])
    BY <1>4 DEF PutIndexData, RemoveIndex
  <2>2. [Listing(p) EXCEPT !.indexes = s].packs = Listing(p).packs
    BY <1>0 DEF Listings
  <2>3. listing'[p].packs = Listing(p).packs
        /\ \A q \in Proc \ {p} : listing'[q] = listing[q]
    BY <1>0, <2>1, <2>2 DEF CacheListing
  <2>. QED  BY <1>0, <2>3, ListingApart
<1>5. CASE PutPack(p) \/ DeletePack(p)
  <2>1. PICK s \in {Listing(p).packs \cup {frame[p].pack},
                    Listing(p).packs \ {frame[p].victim}} :
          CacheListing(p, [Listing(p) EXCEPT !.packs = s])
    BY <1>5 DEF PutPack, PutPackData, DeletePack, RemovePack
  <2>2. [Listing(p) EXCEPT !.packs = s].packs = s
    BY <1>0 DEF Listings
  <2>3. \A pack \in s : AtMostOne(pack)
    BY <1>0, ListingApart
  <2>4. listing'[p].packs = s /\ \A q \in Proc \ {p} : listing'[q] = listing[q]
    BY <1>0, <2>1, <2>2 DEF CacheListing
  <2>. QED  BY <1>0, <2>3, <2>4
<1>6. CASE ClearCache(p)
  <2>1. listing' = [listing EXCEPT ![p] = NoListing]
    BY <1>6 DEF ClearCache
  <2>2. NoListing.packs = {}
    BY DEF NoListing
  <2>. QED  BY <1>0, <2>1, <2>2
<1>7. CASE Call(p) /\ ~ClearCache(p)
  <2>1. UNCHANGED fark
    BY <1>7 DEF Call, DataForSHA1, PutData, DeleteBlobForSHA1, CommitCall, ReloadCache
  <2>. QED  BY <1>2, <2>1
<1>8. CASE Fails(p)
  <2>1. UNCHANGED listing
    BY <1>8 DEF Fails, CallFails, PutFails, RemovalFails, Restart, WorkerFails, fark
  <2>. QED  BY <1>0, <2>1
<1>9. CASE Load(p) /\ ~ListPacks(p)
  <2>1. UNCHANGED listing \/ \E t \in Thread : PutIndexData(p, job[p][t].pack)
    BY <1>9 DEF Load, WaitForCompletion, RemoveStale, FinishLoad, LoadPackId,
                SaveRebuiltIndex, InsertLoaded, fark
  <2>. QED  BY <1>0, <1>4, <2>1
<1>10. CASE \/ FindForRead(p) \/ Fetch(p) \/ ForgetMissingPack(p) \/ AddToPackBuilder(p)
            \/ FindForDelete(p) \/ ReadPackIndex(p) \/ ReadNextSibling(p) \/ RemoveData(p)
  <2>1. UNCHANGED listing
    BY <1>10 DEF FindForRead, Fetch, ForgetMissingPack, AddToPackBuilder, FindForDelete,
                 ReadPackIndex, ReadNextSibling, RemoveData, fark
  <2>. QED  BY <1>0, <2>1
<1>11. CASE RebuildPackIndex(p) \/ PutIndex(p) \/ DeleteIndex(p)
  BY <1>4, <1>11 DEF RebuildPackIndex, PutIndex, DeleteIndex
<1>. QED
  BY <1>3, <1>5, <1>6, <1>7, <1>8, <1>9, <1>10, <1>11 DEF Step

LEMMA DatabaseApart ==
  ASSUME Typed, CallsApart, PacksApart, NEW p \in Proc, Call(p) \/ Step(p) \/ Fails(p)
  PROVE  \A q \in Proc : \A pack \in dbPacks'[q] : AtMostOne(pack)
<1>. USE DEF db
<1>. DEFINE Goal == \A q \in Proc : \A pack \in dbPacks'[q] : AtMostOne(pack)
<1>0. /\ dbPacks \in [Proc -> SUBSET Pack] /\ AtMostOne(frame[p].pack)
      /\ \A t \in Thread : AtMostOne(job[p][t].pack)
      /\ \A q \in Proc : \A pack \in dbPacks[q] : AtMostOne(pack)
  BY DEF Typed, CallsApart, ApartOf, PacksApart
<1>1. ASSUME NEW pack, AtMostOne(pack), InsertPackId(p, pack)
      PROVE  Goal
  BY <1>0, <1>1 DEF InsertPackId
<1>2. ASSUME NEW pack, DeletePackId(p, pack)
      PROVE  Goal
  BY <1>0, <1>2 DEF DeletePackId
<1>3. CASE UNCHANGED db
  BY <1>0, <1>3
<1>4. CASE Call(p) \/ Fails(p)
  <2>1. UNCHANGED db
    BY <1>4 DEF Call, DataForSHA1, PutData, DeleteBlobForSHA1, CommitCall, ClearCache,
                ReloadCache, Begin, Fails, CallFails, PutFails, RemovalFails, Restart,
                WorkerFails
  <2>. QED  BY <1>3, <2>1
<1>5. CASE Load(p)
  <2>1. \/ UNCHANGED db
        \/ \E t \in Thread : InsertPackId(p, job[p][t].pack)
        \/ \E pack \in dbPacks[p] : DeletePackId(p, pack)
    BY <1>5 DEF Load, ListPacks, WaitForCompletion, RemoveStale, FinishLoad, LoadPackId,
                SaveRebuiltIndex, InsertLoaded
  <2>. QED  BY <1>0, <1>1, <1>2, <1>3, <2>1
<1>6. CASE ForgetMissingPack(p)
  BY <1>2, <1>3, <1>6 DEF ForgetMissingPack
<1>7. CASE ReadPackIndex(p) \/ RebuildPackIndex(p)
  <2>1. UNCHANGED db \/ InsertPackId(p, frame[p].pack)
    BY <1>7 DEF ReadPackIndex, RebuildPackIndex, HasIndex
  <2>. QED  BY <1>0, <1>1, <1>3, <2>1
<1>8. CASE \/ FindForRead(p) \/ Fetch(p) \/ AddToPackBuilder(p) \/ FindForDelete(p)
           \/ ReadNextSibling(p) \/ RemoveData(p) \/ PutPack(p) \/ PutIndex(p)
           \/ DeletePack(p) \/ DeleteIndex(p)
  <2>1. UNCHANGED db
    BY <1>8 DEF FindForRead, Fetch, AddToPackBuilder, FindForDelete, ReadNextSibling,
                RemoveData, PutPack, PutIndex, DeletePack, DeleteIndex
  <2>. QED  BY <1>3, <2>1
<1>. QED  BY <1>4, <1>5, <1>6, <1>7, <1>8 DEF Step

LEMMA JobsApart ==
  ASSUME Typed, CallsApart, PacksApart, NEW p \in Proc, Call(p) \/ Step(p) \/ Fails(p)
  PROVE  \A q \in Proc : \A t \in Thread : AtMostOne(job'[q][t].pack)
<1>. USE DEF pieLoader
<1>. DEFINE Goal == \A q \in Proc : \A t \in Thread : AtMostOne(job'[q][t].pack)
<1>0. /\ job \in [Proc -> [Thread -> Jobs]]
      /\ \A pack \in frame[p].toLoad : AtMostOne(pack)
      /\ \A q \in Proc : \A t \in Thread : AtMostOne(job[q][t].pack)
  BY DEF Typed, CallsApart, ApartOf, PacksApart
<1>1. ASSUME NEW t \in Thread, NEW j, AtMostOne(j.pack), SetJob(p, t, j)
      PROVE  Goal
  BY <1>0, <1>1 DEF SetJob
<1>2. AtMostOne(NoJob.pack)
  BY NoPackIsFine DEF NoJob
<1>3. CASE UNCHANGED job
  BY <1>0, <1>3
<1>4. ASSUME NEW t \in Thread, LoadPackId(p, t)
      PROVE  Goal
  <2>1. UNCHANGED job \/ \E pack \in frame[p].toLoad, at \in {"insert", "rebuild"} :
                            SetJob(p, t, [at |-> at, pack |-> pack])
    BY <1>4 DEF LoadPackId
  <2>2. ASSUME NEW pack \in frame[p].toLoad, NEW at \in {"insert", "rebuild"}
        PROVE  AtMostOne([at |-> at, pack |-> pack].pack)
    BY <1>0
  <2>. QED  BY <1>1, <1>3, <2>1, <2>2
<1>5. ASSUME NEW t \in Thread, SaveRebuiltIndex(p, t)
      PROVE  Goal
  <2>1. SetJob(p, t, [job[p][t] EXCEPT !.at = "insert"])
    BY <1>5 DEF SaveRebuiltIndex
  <2>2. [job[p][t] EXCEPT !.at = "insert"].pack = job[p][t].pack
    BY <1>0 DEF Jobs
  <2>. QED  BY <1>0, <1>1, <2>1, <2>2
<1>6. ASSUME NEW t \in Thread, InsertLoaded(p, t) \/ WorkerFails(p, t)
      PROVE  Goal
  BY <1>1, <1>2, <1>6 DEF InsertLoaded, WorkerFails
<1>7. CASE Restart(p)
  <2>1. job' = [job EXCEPT ![p] = [t \in Thread |-> NoJob]]
    BY <1>7 DEF Restart
  <2>. QED  BY <1>0, <1>2, <2>1
<1>8. CASE \/ Call(p) \/ CallFails(p) \/ PutFails(p) \/ RemovalFails(p)
           \/ ListPacks(p) \/ WaitForCompletion(p) \/ RemoveStale(p) \/ FinishLoad(p)
  <2>1. UNCHANGED job
    BY <1>8 DEF Call, DataForSHA1, PutData, DeleteBlobForSHA1, CommitCall, ClearCache,
                ReloadCache, Begin, CallFails, PutFails, RemovalFails, ListPacks, WaitForCompletion,
                RemoveStale, FinishLoad
  <2>. QED  BY <1>3, <2>1
<1>9. CASE Step(p) /\ ~Load(p)
  <2>1. UNCHANGED job
    BY <1>9 DEF Step, FindForRead, Fetch, ForgetMissingPack, AddToPackBuilder,
                FindForDelete, ReadPackIndex, RebuildPackIndex, ReadNextSibling,
                RemoveData, PutPack, PutIndex, DeletePack, DeleteIndex
  <2>. QED  BY <1>3, <2>1
<1>. QED  BY <1>4, <1>5, <1>6, <1>7, <1>8, <1>9 DEF Load, Fails

LEMMA BuilderApart ==
  ASSUME TypeInv, CallsApart, PacksApart, NEW p \in Proc, Call(p) \/ Step(p) \/ Fails(p)
  PROVE  \A q \in Proc : builder'[q] \cap Marked = {}
<1>. USE DEF packBuilder
<1>. DEFINE Goal == \A q \in Proc : builder'[q] \cap Marked = {}
<1>0. /\ Typed /\ Knows(frame[p]) /\ builder \in [Proc -> SUBSET Obj]
      /\ \A q \in Proc : builder[q] \cap Marked = {}
  BY DEF TypeInv, Typed, PacksApart
<1>1. CASE UNCHANGED builder
  BY <1>0, <1>1
<1>2. CASE FindForRead(p) \/ Fetch(p)
  <2>1. frame[p].asks = "read" /\ frame[p].pc \notin Removing
    BY <1>0, <1>2 DEF FindForRead, Fetch, Asks, Knows, Reads, Removing
  <2>2. UNCHANGED builder \/ ReadSucceeds(p)
    BY <1>2 DEF FindForRead, Fetch
  <2>. QED  BY <1>0, <1>1, <2>1, <2>2, ApartRead
<1>3. CASE AddToPackBuilder(p)
  <2>1. frame[p].obj \notin Marked
    BY <1>3 DEF AddToPackBuilder, Asks, CallsApart, ApartOf
  <2>. QED  BY <1>0, <1>3, <2>1 DEF AddToPackBuilder, AddData
<1>4. CASE RemoveData(p)
  BY <1>0, <1>4 DEF RemoveData
<1>5. CASE PutIndex(p) \/ Restart(p)
  BY <1>0, <1>5 DEF PutIndex, Restart
<1>6. CASE \/ Call(p) \/ Load(p) \/ CallFails(p) \/ PutFails(p) \/ RemovalFails(p)
           \/ \E t \in Thread : WorkerFails(p, t)
  <2>1. UNCHANGED builder
    BY <1>6 DEF Call, DataForSHA1, PutData, DeleteBlobForSHA1, CommitCall, ClearCache,
                ReloadCache, Begin, Load, ListPacks, WaitForCompletion, RemoveStale,
                FinishLoad, LoadPackId, SaveRebuiltIndex, InsertLoaded, CallFails,
                PutFails, RemovalFails, WorkerFails
  <2>. QED  BY <1>1, <2>1
<1>7. CASE \/ ForgetMissingPack(p) \/ FindForDelete(p) \/ ReadPackIndex(p)
           \/ RebuildPackIndex(p) \/ ReadNextSibling(p) \/ PutPack(p)
           \/ DeletePack(p) \/ DeleteIndex(p)
  <2>1. UNCHANGED builder
    BY <1>7 DEF ForgetMissingPack, FindForDelete, ReadPackIndex, RebuildPackIndex,
                ReadNextSibling, PutPack, DeletePack, DeleteIndex
  <2>. QED  BY <1>1, <2>1
<1>. QED  BY <1>2, <1>3, <1>4, <1>5, <1>6, <1>7 DEF Step, Fails

ApartInv == CallsApart /\ PacksApart

LEMMA InitApart == OneInAPack /\ Init => ApartInv
<1>. SUFFICES ASSUME OneInAPack, Init
              PROVE  ApartInv
  OBVIOUS
<1>1. CallsApart
  BY IdleIsApart DEF Init, CallsApart
<1>2. NoListing.packs = {} /\ AtMostOne(NoJob.pack)
  BY NoPackIsFine DEF NoListing, NoJob
<1>3. PacksApart
  BY <1>2 DEF Init, PacksApart, OneInAPack
<1>. QED  BY <1>1, <1>3 DEF ApartInv

LEMMA NextApart ==
  OneInAPack /\ TypeInv /\ EntriesAreBacked /\ CallInv /\ ApartInv /\ [Next]_vars
    => ApartInv'
<1>. SUFFICES ASSUME OneInAPack, TypeInv, EntriesAreBacked, CallInv, CallsApart,
                     PacksApart, [Next]_vars
              PROVE  CallsApart' /\ PacksApart'
  BY DEF ApartInv
<1>1. CASE UNCHANGED vars
  BY <1>1 DEF vars, target, fark, db, packBuilder, pieLoader, CallsApart, PacksApart
<1>2. ASSUME NEW p \in Proc, Call(p) \/ Step(p) \/ Fails(p)
      PROVE  CallsApart' /\ PacksApart'
  <2>1. Typed
    BY DEF TypeInv
  <2>2. CallsApart'
    BY <1>2, <2>1, CallApart, LoadApart, StepApart, FailsApart
  <2>3. PacksApart'
    BY <1>2, <2>1, TargetApart, CacheApart, DatabaseApart, JobsApart, BuilderApart
       DEF PacksApart
  <2>. QED  BY <2>2, <2>3
<1>. QED  BY <1>1, <1>2 DEF Next

LEMMA ApartPutsAside == CallInv /\ ApartInv => PutsAside
<1>. SUFFICES ASSUME CallInv, CallsApart, PacksApart, NEW p \in Proc, NEW q \in Proc,
                     frame[p].pc = "putPack", Removes(frame[q]),
                     frame[p].pack = frame[q].victim
              PROVE  FALSE
  BY DEF ApartInv, PutsAside
<1>1. frame[p].pack \cap Marked = {}
  BY DEF CallInv, CallInvOf, PacksApart
<1>2. frame[q].victim \cap Marked # {}
  BY DEF Removes, CallsApart, ApartOf
<1>. QED  BY <1>1, <1>2

\* Where a pack has at most one object that may be found to be invalid and no
\* such object is put, all processes together lose nothing, whichever single
\* step fails.
THEOREM ApartLosesNothing ==
  ASSUME OneInAPack
  PROVE  Spec => []NothingIsLost
<1>. DEFINE Inv == OneInAPack /\ TypeInv /\ EntriesAreBacked /\ KeepingInv /\ ApartInv
<1>1. Init => Inv
  BY InitTypeInv, InitKeeping, InitApart DEF Init, EntriesAreBacked
<1>2. Inv => PutsAside
  BY ApartPutsAside DEF KeepingInv
<1>3. Inv /\ [Next]_vars => Inv'
  BY <1>2, NextTypes, NextBacked, NextKeeping, NextApart DEF KeepingInv
<1>4. Inv => NothingIsLost
  BY KeptIsNotLost DEF TypeInv
<1>. HIDE DEF Inv
<1>. QED  BY <1>1, <1>3, <1>4, PTL DEF Spec
=============================================================================
