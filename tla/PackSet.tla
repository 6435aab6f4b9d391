------------------------------ MODULE PackSet -------------------------------
(***************************************************************************)
(* The packs that hold the small objects of a backup.  A PackSet finds the *)
(* pack of an object in a local database (PackSetDB), which it fills from  *)
(* the index files at the target with a pool of threads (PIELoader), reads *)
(* the object from the pack through Fark, collects new objects in a        *)
(* PackBuilder, and can delete an object by writing its pack anew without  *)
(* it: StandardRestoreItem deletes so the blobs it cannot uncompress.      *)
(*                                                                         *)
(* Several processes, each on a machine of its own, use one pack set at    *)
(* the target.  Within a process the lock of SynchronousPackSet makes a    *)
(* call one after the other; calls of several processes interleave at      *)
(* every read and write of the target.                                     *)
(***************************************************************************)
EXTENDS Integers, FiniteSets

CONSTANTS
  Proc,          \* processes that have opened the pack set
  Obj,           \* the SHA1s of the objects
  Thread,        \* the PIELoaderWorkers of one load (NUM_WORKER_THREADS)
  InitialPacks,  \* what is at the target at first
  Wanted,        \* Wanted[p]: objects that p may read
  Puttable,      \* Puttable[p]: objects that p may put
  Deletable,     \* Deletable[p]: objects that p may find to be invalid
  StorageTypes,  \* of "S3" and "S3Glacier"
  CachePackFilesToDisk,  \* those of them whose new packs are saved to the disk
  MaxRetries,    \* MAX_RETRIES
  MaxCalls,      \* bound on the calls of all processes
  MaxTrouble,    \* bound on failed calls and crashes
  None

\* A pack is named by the hash of what it holds: it is the set of its objects.
Pack == SUBSET Obj

\* No object is in the pack of no objects, so it can stand for none.
NoPack == {}

ASSUME PackSetAssumption ==
  /\ IsFiniteSet(Obj) /\ IsFiniteSet(Thread) /\ Thread # {}
  /\ None \notin Obj
  /\ InitialPacks \subseteq Pack
  /\ Wanted \in [Proc -> SUBSET Obj]
  /\ Puttable \in [Proc -> SUBSET Obj]
  /\ Deletable \in [Proc -> SUBSET Obj]
  /\ StorageTypes \subseteq {"S3", "S3Glacier"} /\ CachePackFilesToDisk \subseteq StorageTypes
  /\ MaxRetries \in Nat \ {0} /\ MaxCalls \in Nat /\ MaxTrouble \in Nat

VARIABLES
  storageType,          \* of the pack set; never changes
  packs, indexes,       \* pack files and index files at the target
  cached, listing,      \* RemoteFS's cached listing of the directory
  disk,                 \* pack files in Fark's cache on the disk
  dbPacks, entry,       \* PackSetDB: table packs; object -> pack
  cacheIsLoaded,
  builder, buffer,      \* PackBuilder: entriesBySHA1, bytes in the buffer
  modified,
  frame,                \* the call in progress
  job, loadError,       \* PIELoader: its workers, the error that occurred
  committed, deleted,   \* history: objects committed, objects to be deleted
  calls, trouble        \* calls so far; failures and crashes so far

target == <<packs, indexes>>
fark == <<cached, listing, disk>>
db == <<dbPacks, entry>>
packBuilder == <<builder, buffer, modified>>
pieLoader == <<job, loadError>>
history == <<committed, deleted>>
bounds == <<calls, trouble>>
vars == <<storageType, target, fark, db, cacheIsLoaded, packBuilder, frame,
          pieLoader, history, bounds>>

\* The locals of a call: the object it is about; the object it reads, how
\* often it tried and may try; what it asks the database for; the pack it has
\* in hand; the pack to be deleted and its objects not read yet; the pack list
\* of a load and the packs on it that are to be loaded or were skipped.
Frame == [pc : {"idle", "entry", "loading", "stale", "fetch", "index", "rebuild",
                "siblings", "putPack", "putIndex", "deletePack", "deleteIndex"},
          op : {"none", "data", "put", "commit", "delete"},
          asks : {"nothing", "read", "missing", "find", "put", "new"},
          obj : Obj \cup {None}, reads : Obj \cup {None},
          tries : 0..MaxRetries, max : 0..MaxRetries,
          pack : Pack, victim : Pack, todo : SUBSET Obj,
          listed : SUBSET Pack, toLoad : SUBSET Pack, skipped : SUBSET Pack]

Idle == [pc |-> "idle", op |-> "none", asks |-> "nothing", obj |-> None,
         reads |-> None, tries |-> 0, max |-> 0, pack |-> NoPack, victim |-> NoPack,
         todo |-> {}, listed |-> {}, toLoad |-> {}, skipped |-> {}]

Listings == [packs : SUBSET Pack, indexes : SUBSET Pack]
NoListing == [packs |-> {}, indexes |-> {}]
Jobs == [at : {"next", "rebuild", "insert"}, pack : Pack]
NoJob == [at |-> "next", pack |-> NoPack]

Typed ==
  /\ storageType \in {"S3", "S3Glacier"}
  /\ packs \subseteq Pack /\ indexes \subseteq Pack
  /\ cached \in [Proc -> BOOLEAN] /\ listing \in [Proc -> Listings]
  /\ disk \in [Proc -> SUBSET Pack]
  /\ dbPacks \in [Proc -> SUBSET Pack]
  /\ entry \in [Proc -> [Obj -> Pack]]
  /\ cacheIsLoaded \in [Proc -> BOOLEAN]
  /\ builder \in [Proc -> SUBSET Obj] /\ buffer \in [Proc -> SUBSET Obj]
  /\ modified \in [Proc -> BOOLEAN]
  /\ frame \in [Proc -> Frame]
  /\ job \in [Proc -> [Thread -> Jobs]]
  /\ loadError \in [Proc -> {"none", "error"}]
  /\ committed \subseteq Obj /\ deleted \subseteq Obj
  /\ calls \in Nat /\ trouble \in Nat

\* A lookup is under way only while its loop has a turn left.
HasTurnLeft(f) == f.asks \in {"read", "missing"} => f.tries < f.max

TypeOK == Typed /\ \A p \in Proc : HasTurnLeft(frame[p])

Init ==
  /\ storageType \in StorageTypes
  /\ packs = InitialPacks /\ indexes = InitialPacks
  /\ cached = [p \in Proc |-> FALSE]
  /\ listing = [p \in Proc |-> NoListing]
  /\ disk = [p \in Proc |-> {}]
  /\ dbPacks = [p \in Proc |-> {}]
  /\ entry = [p \in Proc |-> [o \in Obj |-> NoPack]]
  /\ cacheIsLoaded = [p \in Proc |-> FALSE]
  /\ builder = [p \in Proc |-> {}] /\ buffer = [p \in Proc |-> {}]
  /\ modified = [p \in Proc |-> FALSE]
  /\ frame = [p \in Proc |-> Idle]
  /\ job = [p \in Proc |-> [t \in Thread |-> NoJob]]
  /\ loadError = [p \in Proc |-> "none"]
  /\ committed = UNION InitialPacks /\ deleted = {}
  /\ calls = 0 /\ trouble = 0

-----------------------------------------------------------------------------
(***************************************************************************)
(* The database: each operation is one transaction.                        *)
(***************************************************************************)

\* The rows of the pack's objects are replaced whatever pack they named.
InsertPackId(p, pack) ==
  /\ dbPacks' = [dbPacks EXCEPT ![p] = @ \cup {pack}]
  /\ entry' = [entry EXCEPT ![p] =
       [o \in Obj |-> IF o \in pack THEN pack ELSE @[o]]]

\* Mutant: the rows of the pack's objects stay.
DeletePackRow(p, pack) ==
  /\ dbPacks' = [dbPacks EXCEPT ![p] = @ \ {pack}]
  /\ UNCHANGED entry

DeletePackId(p, pack) ==
  /\ dbPacks' = [dbPacks EXCEPT ![p] = @ \ {pack}]
  /\ entry' = [entry EXCEPT ![p] =
       [o \in Obj |-> IF @[o] = pack THEN NoPack ELSE @[o]]]

(***************************************************************************)
(* The target, through Fark, TargetConnection and RemoteFS.  A process     *)
(* sees the directory as its cached listing has it; what it writes and     *)
(* removes itself it also writes into and removes from that listing.       *)
(***************************************************************************)

Listing(p) == IF cached[p] THEN listing[p]
                           ELSE [packs |-> packs, indexes |-> indexes]

CacheListing(p, l) ==
  /\ cached' = [cached EXCEPT ![p] = TRUE]
  /\ listing' = [listing EXCEPT ![p] = l]

Readable(p, pack) == pack \in disk[p] \cup packs

PutPackData(p, pack) ==
  /\ packs' = packs \cup {pack}
  /\ CacheListing(p, [Listing(p) EXCEPT !.packs = @ \cup {pack}])

PutIndexData(p, pack) ==
  /\ indexes' = indexes \cup {pack}
  /\ CacheListing(p, [Listing(p) EXCEPT !.indexes = @ \cup {pack}])

\* A file that the listing does not have is not removed, and that is success.
RemovePack(p, pack) ==
  /\ packs' = IF pack \in Listing(p).packs THEN packs \ {pack} ELSE packs
  /\ CacheListing(p, [Listing(p) EXCEPT !.packs = @ \ {pack}])
  /\ disk' = [disk EXCEPT ![p] = @ \ {pack}]

RemoveIndex(p, pack) ==
  /\ indexes' = IF pack \in Listing(p).indexes THEN indexes \ {pack} ELSE indexes
  /\ CacheListing(p, [Listing(p) EXCEPT !.indexes = @ \ {pack}])

-----------------------------------------------------------------------------
(***************************************************************************)
(* The calls.                                                              *)
(***************************************************************************)

Return(p) == frame' = [frame EXCEPT ![p] = Idle]

Begin(p, f) ==
  /\ frame[p] = Idle
  /\ calls < MaxCalls /\ calls' = calls + 1
  /\ frame' = [frame EXCEPT ![p] = f]
  /\ UNCHANGED <<storageType, target, db, packBuilder, pieLoader, trouble>>

\* dataForSHA1:withRetry:
DataForSHA1(p, o, retry) ==
  /\ o \in Wanted[p]
  /\ Begin(p, [Idle EXCEPT !.pc = "entry", !.op = "data", !.asks = "read",
                           !.obj = o, !.reads = o,
                           !.max = IF retry THEN MaxRetries ELSE 1])
  /\ UNCHANGED <<fark, cacheIsLoaded, history>>

PutData(p, o) ==
  /\ o \in Puttable[p]
  /\ Begin(p, [Idle EXCEPT !.pc = "entry", !.op = "put", !.asks = "put", !.obj = o])
  /\ UNCHANGED <<fark, cacheIsLoaded, history>>

DeleteBlobForSHA1(p, o) ==
  /\ o \in Deletable[p]
  /\ Begin(p, [Idle EXCEPT !.pc = "entry", !.op = "delete", !.asks = "find", !.obj = o])
  /\ deleted' = deleted \cup {o}
  /\ UNCHANGED <<fark, cacheIsLoaded, committed>>

\* clearCache: forgets the cached listing too, reloadCache only cacheIsLoaded.
ClearCache(p) ==
  /\ Begin(p, Idle)
  /\ cached' = [cached EXCEPT ![p] = FALSE]
  /\ listing' = [listing EXCEPT ![p] = NoListing]
  /\ cacheIsLoaded' = [cacheIsLoaded EXCEPT ![p] = FALSE]
  /\ UNCHANGED <<disk, history>>

ReloadCache(p) ==
  /\ Begin(p, Idle)
  /\ cacheIsLoaded' = [cacheIsLoaded EXCEPT ![p] = FALSE]
  /\ UNCHANGED <<fark, history>>

-----------------------------------------------------------------------------
(***************************************************************************)
(* loadCache: and the PIELoader.                                           *)
(***************************************************************************)

LoadEnded(f) == [f EXCEPT !.listed = {}, !.toLoad = {}, !.skipped = {}]

\* Mutant: the loop does not end.
TryForEver(p) ==
  frame' = [frame EXCEPT ![p] = [LoadEnded(@) EXCEPT
              !.pc = "entry", !.asks = "read",
                     !.tries = frame[p].tries + 1]]

\* The next turn of the loop of dataForSHA1:, or nil when there is none left.
TryAgain(p) ==
  IF frame[p].tries + 1 < frame[p].max
    THEN frame' = [frame EXCEPT ![p] = [LoadEnded(@) EXCEPT
                     !.pc = "entry", !.asks = "read",
                     !.tries = frame[p].tries + 1]]
    ELSE Return(p)

\* packIndexEntryForSHA1: fails because the cache does not load.  A caller who
\* reads then gets what the PackBuilder has, or nothing; deleteBlobForSHA1: reads
\* only after the cache was loaded.
LoadFailed(p) == IF frame[p].asks = "missing" THEN TryAgain(p) ELSE Return(p)

\* The pack list, as the cached listing has it, against that of the database.
ListPacks(p) ==
  LET listed == Listing(p).packs
      toLoad == listed \ dbPacks[p]
  IN
  /\ frame[p].pc = "entry" /\ ~cacheIsLoaded[p]
  /\ CacheListing(p, Listing(p))
  /\ frame' = [frame EXCEPT ![p].pc = IF toLoad = {} THEN "stale" ELSE "loading",
                            ![p].listed = listed, ![p].toLoad = toLoad,
                            ![p].skipped = {}]
  /\ UNCHANGED <<storageType, target, disk, db, cacheIsLoaded, packBuilder,
                 pieLoader, history, bounds>>

SetJob(p, t, j) == job' = [job EXCEPT ![p][t] = j]

\* nextPackId hands out no more packs after an error.
HandsOut(p) == loadError[p] = "none" /\ frame[p].toLoad # {}

\* nextPackId, then loadPackId: as far as the answer to the first read of the
\* target.  A pack without an index is skipped, unless its index can be rebuilt
\* from it.
LoadPackId(p, t) ==
  /\ frame[p].pc = "loading" /\ job[p][t].at = "next" /\ HandsOut(p)
  /\ \E pack \in frame[p].toLoad :
       \/ /\ pack \in indexes
          /\ SetJob(p, t, [at |-> "insert", pack |-> pack])
          /\ frame' = [frame EXCEPT ![p].toLoad = @ \ {pack}]
          /\ UNCHANGED <<disk, loadError>>
       \/ /\ pack \notin indexes /\ storageType = "S3" /\ Readable(p, pack)
          /\ SetJob(p, t, [at |-> "rebuild", pack |-> pack])
          /\ disk' = [disk EXCEPT ![p] = @ \cup {pack}]
          /\ frame' = [frame EXCEPT ![p].toLoad = @ \ {pack}]
          /\ UNCHANGED loadError
       \/ /\ pack \notin indexes /\ storageType = "S3" /\ ~Readable(p, pack)
          /\ loadError' = [loadError EXCEPT ![p] = "error"]
          /\ frame' = [frame EXCEPT ![p].toLoad = @ \ {pack}]
          /\ UNCHANGED <<disk, job>>
       \/ /\ pack \notin indexes /\ storageType # "S3"
          /\ frame' = [frame EXCEPT ![p].toLoad = @ \ {pack},
                                    ![p].skipped = @ \cup {pack}]
          /\ UNCHANGED <<disk, job, loadError>>
  /\ UNCHANGED <<storageType, target, cached, listing, db, cacheIsLoaded,
                 packBuilder, history, bounds>>

SaveRebuiltIndex(p, t) ==
  /\ frame[p].pc = "loading" /\ job[p][t].at = "rebuild"
  /\ PutIndexData(p, job[p][t].pack)
  /\ SetJob(p, t, [job[p][t] EXCEPT !.at = "insert"])
  /\ UNCHANGED <<storageType, packs, disk, db, cacheIsLoaded, packBuilder, frame,
                 loadError, history, bounds>>

\* packIndexEntries:wereLoadedForPackId:, under the PIELoader's lock.
InsertLoaded(p, t) ==
  /\ frame[p].pc = "loading" /\ job[p][t].at = "insert"
  /\ InsertPackId(p, job[p][t].pack)
  /\ SetJob(p, t, NoJob)
  /\ UNCHANGED <<storageType, target, fark, cacheIsLoaded, packBuilder, frame,
                 loadError, history, bounds>>

\* Mutants: the semaphore is signalled before the last pack is stored; after an
\* error it is not signalled.
SignalEarly(p, t) == ~HandsOut(p)
SignalUnlessError(p, t) == job[p][t].at = "next" /\ frame[p].toLoad = {}

\* A worker ends, and signals the semaphore, when nextPackId gives it no pack.
WorkerDidFinish(p, t) == job[p][t].at = "next" /\ ~HandsOut(p)

\* waitForCompletion: waits for every worker, then looks at loadErrorOccurred.
WaitForCompletion(p) ==
  /\ frame[p].pc = "loading"
  /\ \A t \in Thread : WorkerDidFinish(p, t)
  /\ IF loadError[p] = "none" THEN frame' = [frame EXCEPT ![p].pc = "stale"]
                              ELSE LoadFailed(p)
  /\ loadError' = [loadError EXCEPT ![p] = "none"]
  /\ UNCHANGED <<storageType, target, fark, db, cacheIsLoaded, packBuilder, job,
                 history, bounds>>

\* Packs that are not at the target leave the database, one transaction each.
RemoveStale(p) ==
  /\ frame[p].pc = "stale"
  /\ \E pack \in dbPacks[p] \ frame[p].listed : DeletePackId(p, pack)
  /\ UNCHANGED <<storageType, target, fark, cacheIsLoaded, packBuilder, frame,
                 pieLoader, history, bounds>>

FinishLoad(p) ==
  /\ frame[p].pc = "stale" /\ dbPacks[p] \subseteq frame[p].listed
  /\ cacheIsLoaded' = [cacheIsLoaded EXCEPT ![p] = TRUE]
  /\ frame' = [frame EXCEPT ![p] = [LoadEnded(@) EXCEPT !.pc = "entry"]]
  /\ UNCHANGED <<storageType, target, fark, db, packBuilder, pieLoader, history,
                 bounds>>

Load(p) ==
  \/ ListPacks(p) \/ WaitForCompletion(p) \/ RemoveStale(p) \/ FinishLoad(p)
  \/ \E t \in Thread : \/ LoadPackId(p, t) \/ SaveRebuiltIndex(p, t)
                       \/ InsertLoaded(p, t)

-----------------------------------------------------------------------------
(***************************************************************************)
(* dataForSHA1:withRetry:, also called by deleteBlobForSHA1:.              *)
(***************************************************************************)

\* packIndexEntryForSHA1: with the cache loaded, asked for one of several ends.
Asks(p, what) == frame[p].pc = "entry" /\ frame[p].asks = what /\ cacheIsLoaded[p]

AddData(p, o) ==
  /\ builder' = [builder EXCEPT ![p] = @ \cup {o}]
  /\ buffer' = [buffer EXCEPT ![p] = @ \cup {o}]
  /\ modified' = [modified EXCEPT ![p] = @ \/ o \notin builder[p]]

\* The caller gets the data; deleteBlobForSHA1: adds it to the new pack.
ReadSucceeds(p) ==
  IF frame[p].op = "delete"
    THEN /\ AddData(p, frame[p].reads)
         /\ frame' = [frame EXCEPT ![p] =
              [@ EXCEPT !.pc = "siblings", !.asks = "nothing", !.pack = NoPack,
                        !.todo = frame[p].todo \ {frame[p].reads},
                        !.reads = None, !.tries = 0]]
    ELSE Return(p) /\ UNCHANGED packBuilder

\* doDataForSHA1: the pack of the database, else the PackBuilder.
FindForRead(p) ==
  LET o == frame[p].reads IN
  /\ Asks(p, "read")
  /\ CASE entry[p][o] # NoPack ->
            /\ frame' = [frame EXCEPT ![p].pc = "fetch", ![p].pack = entry[p][o]]
            /\ UNCHANGED packBuilder
       [] entry[p][o] = NoPack /\ o \in builder[p] -> ReadSucceeds(p)
       [] OTHER -> Return(p) /\ UNCHANGED packBuilder
  /\ UNCHANGED <<storageType, target, fark, db, cacheIsLoaded, pieLoader, history,
                 bounds>>

\* dataForPackIndexEntry: from the disk, else from the target to the disk.
Fetch(p) ==
  LET pack == frame[p].pack IN
  /\ frame[p].pc = "fetch"
  /\ IF Readable(p, pack)
       THEN /\ disk' = [disk EXCEPT ![p] = @ \cup {pack}]
            /\ ReadSucceeds(p)
       ELSE /\ frame' = [frame EXCEPT ![p].pc = "entry", ![p].asks = "missing",
                                      ![p].pack = NoPack]
            /\ UNCHANGED <<disk, packBuilder>>
  /\ UNCHANGED <<storageType, target, cached, listing, db, cacheIsLoaded, pieLoader,
                 history, bounds>>

\* "Pack was missing": its rows leave the database.
ForgetMissingPack(p) ==
  LET pack == entry[p][frame[p].reads] IN
  /\ Asks(p, "missing")
  /\ IF pack # NoPack THEN DeletePackId(p, pack) ELSE UNCHANGED db
  /\ TryAgain(p)
  /\ UNCHANGED <<storageType, target, fark, cacheIsLoaded, packBuilder, pieLoader,
                 history, bounds>>

-----------------------------------------------------------------------------
(***************************************************************************)
(* putData:, commit: and deleteBlobForSHA1:                                *)
(***************************************************************************)

\* commit: does nothing where nothing was added since the last commit.
\* deleteBlobForSHA1: goes on to delete the old pack.
NothingToCommit(p) == buffer'[p] = {} \/ ~modified'[p]

Committed(f) ==
  IF f.op = "delete" THEN [f EXCEPT !.pc = "deletePack", !.asks = "nothing",
                                    !.pack = NoPack, !.obj = None]
                     ELSE Idle

\* Mutant: the new pack is left for a later commit.
CommitLater(p, f) ==
  frame' = [frame EXCEPT ![p] =
    IF NothingToCommit(p) \/ f.op = "delete" THEN Committed(f)
      ELSE [f EXCEPT !.pc = "putPack", !.asks = "new", !.pack = builder'[p]]]

Commit(p, f) ==
  frame' = [frame EXCEPT ![p] =
    IF NothingToCommit(p) THEN Committed(f)
      ELSE [f EXCEPT !.pc = "putPack", !.asks = "new", !.pack = builder'[p]]]

CommitCall(p) ==
  /\ frame[p] = Idle
  /\ calls < MaxCalls /\ calls' = calls + 1
  /\ UNCHANGED packBuilder
  /\ Commit(p, [Idle EXCEPT !.op = "commit"])
  /\ UNCHANGED <<storageType, target, fark, db, cacheIsLoaded, pieLoader, history,
                 trouble>>

\* An object the database knows is not added; a full PackBuilder is committed.
AddToPackBuilder(p) ==
  LET o == frame[p].obj IN
  /\ Asks(p, "put")
  /\ IF entry[p][o] = NoPack THEN AddData(p, o) ELSE UNCHANGED packBuilder
  /\ Commit(p, frame[p]) \/ Return(p)
  /\ UNCHANGED <<storageType, target, fark, db, cacheIsLoaded, pieLoader, history,
                 bounds>>

\* deleteBlobForSHA1: has nothing to do for an object that is in no pack.
FindForDelete(p) ==
  LET pack == entry[p][frame[p].obj] IN
  /\ Asks(p, "find")
  /\ IF pack = NoPack THEN Return(p)
       ELSE frame' = [frame EXCEPT ![p].pc = "index", ![p].pack = pack,
                                   ![p].victim = pack]
  /\ UNCHANGED <<storageType, target, fark, db, cacheIsLoaded, packBuilder, pieLoader,
                 history, bounds>>

\* packIndexForPackId: has the index of the pack in hand.  That of a new pack
\* goes to the database; that of an old pack tells what else is in it.
HasIndex(p) ==
  IF frame[p].asks = "new"
    THEN /\ InsertPackId(p, frame[p].pack)
         /\ committed' = committed \cup frame[p].pack
         /\ frame' = [frame EXCEPT ![p] = Committed(@)]
    ELSE /\ frame' = [frame EXCEPT ![p] =
              [@ EXCEPT !.pc = "siblings", !.asks = "nothing", !.pack = NoPack,
                        !.todo = frame[p].pack \ {frame[p].obj}]]
         /\ UNCHANGED <<db, committed>>

ReadPackIndex(p) ==
  LET pack == frame[p].pack
      rebuild == storageType = "S3" /\ Readable(p, pack)
  IN
  /\ frame[p].pc = "index"
  /\ CASE pack \in indexes -> HasIndex(p) /\ UNCHANGED disk
       [] pack \notin indexes /\ rebuild ->
            /\ frame' = [frame EXCEPT ![p].pc = "rebuild"]
            /\ disk' = [disk EXCEPT ![p] = @ \cup {pack}]
            /\ UNCHANGED <<db, committed>>
       [] OTHER -> Return(p) /\ UNCHANGED <<disk, db, committed>>
  /\ UNCHANGED <<storageType, target, cached, listing, cacheIsLoaded, packBuilder,
                 pieLoader, deleted, bounds>>

RebuildPackIndex(p) ==
  /\ frame[p].pc = "rebuild"
  /\ PutIndexData(p, frame[p].pack)
  /\ HasIndex(p)
  /\ UNCHANGED <<storageType, packs, disk, cacheIsLoaded, packBuilder, pieLoader,
                 deleted, bounds>>

\* The rest of the pack goes into the PackBuilder, object by object, withRetry:NO.
ReadNextSibling(p) ==
  /\ frame[p].pc = "siblings"
  /\ \E o \in frame[p].todo :
       frame' = [frame EXCEPT ![p].pc = "entry", ![p].asks = "read",
                              ![p].reads = o, ![p].max = 1]
  /\ UNCHANGED <<storageType, target, fark, db, cacheIsLoaded, packBuilder, pieLoader,
                 history, bounds>>

RemoveData(p) ==
  /\ frame[p].pc = "siblings" /\ frame[p].todo = {}
  /\ builder' = [builder EXCEPT ![p] = @ \ {frame[p].obj}]
  /\ UNCHANGED <<buffer, modified>>
  /\ Commit(p, frame[p])
  /\ UNCHANGED <<storageType, target, fark, db, cacheIsLoaded, pieLoader, history,
                 bounds>>

\* PackBuilder's commit: the pack before its index.  Packs of trees are saved to
\* the disk too.
PutPack(p) ==
  /\ frame[p].pc = "putPack"
  /\ PutPackData(p, frame[p].pack)
  /\ disk' = IF storageType \in CachePackFilesToDisk
               THEN [disk EXCEPT ![p] = @ \cup {frame[p].pack}] ELSE disk
  /\ frame' = [frame EXCEPT ![p].pc = "putIndex"]
  /\ UNCHANGED <<storageType, indexes, db, cacheIsLoaded, packBuilder,
                 pieLoader, history, bounds>>

PutIndex(p) ==
  /\ frame[p].pc = "putIndex"
  /\ PutIndexData(p, frame[p].pack)
  /\ builder' = [builder EXCEPT ![p] = {}]
  /\ buffer' = [buffer EXCEPT ![p] = {}]
  /\ modified' = [modified EXCEPT ![p] = FALSE]
  /\ frame' = [frame EXCEPT ![p].pc = "index"]
  /\ UNCHANGED <<storageType, packs, disk, db, cacheIsLoaded, pieLoader, history,
                 bounds>>

DeletePack(p) ==
  /\ frame[p].pc = "deletePack"
  /\ RemovePack(p, frame[p].victim)
  /\ frame' = [frame EXCEPT ![p].pc = "deleteIndex"]
  /\ UNCHANGED <<storageType, indexes, db, cacheIsLoaded, packBuilder, pieLoader,
                 history, bounds>>

DeleteIndex(p) ==
  /\ frame[p].pc = "deleteIndex"
  /\ RemoveIndex(p, frame[p].victim)
  /\ Return(p)
  /\ UNCHANGED <<storageType, packs, disk, db, cacheIsLoaded, packBuilder, pieLoader,
                 history, bounds>>

-----------------------------------------------------------------------------
(***************************************************************************)
(* What goes wrong.                                                        *)
(***************************************************************************)

Trouble == trouble < MaxTrouble /\ trouble' = trouble + 1 /\ UNCHANGED calls

\* A call of a worker fails: errorDidOccur:.
WorkerFails(p, t) ==
  /\ Trouble
  /\ frame[p].pc = "loading"
  /\ \/ /\ job[p][t].at = "next" /\ HandsOut(p)
        /\ \E pack \in frame[p].toLoad :
             frame' = [frame EXCEPT ![p].toLoad = @ \ {pack}]
     \/ job[p][t].at # "next" /\ UNCHANGED frame
  /\ SetJob(p, t, NoJob)
  /\ loadError' = [loadError EXCEPT ![p] = "error"]
  /\ UNCHANGED <<storageType, target, fark, db, cacheIsLoaded, packBuilder,
                 history>>

\* A read of the target or a database call fails, and the call with it.
CallFails(p) ==
  /\ Trouble
  /\ \/ /\ \/ frame[p].pc \in {"fetch", "index", "rebuild"}
           \/ frame[p].pc = "entry" /\ frame[p].asks = "missing"
        /\ Return(p)
     \/ /\ frame[p].pc \in {"entry", "stale"}
        /\ LoadFailed(p)
  /\ UNCHANGED <<storageType, target, fark, db, cacheIsLoaded, packBuilder,
                 pieLoader, history>>

\* A write fails, whether or not the target has got it: PackBuilder's commit
\* sets modified to NO all the same.
PutFails(p) ==
  /\ Trouble
  /\ \/ /\ frame[p].pc = "putPack"
        /\ packs' \in {packs, packs \cup {frame[p].pack}} /\ UNCHANGED indexes
     \/ /\ frame[p].pc = "putIndex"
        /\ indexes' \in {indexes, indexes \cup {frame[p].pack}} /\ UNCHANGED packs
  /\ modified' = [modified EXCEPT ![p] = FALSE]
  /\ Return(p)
  /\ UNCHANGED <<storageType, fark, db, cacheIsLoaded, builder, buffer, pieLoader,
                 history>>

\* A removal fails, whether or not the file is gone from the target.  The disk
\* was first.
RemovalFails(p) ==
  /\ Trouble
  /\ \/ /\ frame[p].pc = "deletePack"
        /\ packs' \in {packs, packs \ ({frame[p].victim} \cap Listing(p).packs)}
        /\ disk' = [disk EXCEPT ![p] = @ \ {frame[p].victim}]
        /\ UNCHANGED indexes
     \/ /\ frame[p].pc = "deleteIndex"
        /\ indexes' \in {indexes, indexes \ ({frame[p].victim} \cap Listing(p).indexes)}
        /\ UNCHANGED <<packs, disk>>
  /\ Return(p)
  /\ UNCHANGED <<storageType, cached, listing, db, cacheIsLoaded, packBuilder, pieLoader,
                 history>>

\* The process ends and is started again; files and database stay.
Restart(p) ==
  /\ Trouble
  /\ cacheIsLoaded' = [cacheIsLoaded EXCEPT ![p] = FALSE]
  /\ builder' = [builder EXCEPT ![p] = {}]
  /\ buffer' = [buffer EXCEPT ![p] = {}]
  /\ modified' = [modified EXCEPT ![p] = FALSE]
  /\ Return(p)
  /\ job' = [job EXCEPT ![p] = [t \in Thread |-> NoJob]]
  /\ loadError' = [loadError EXCEPT ![p] = "none"]
  /\ UNCHANGED <<storageType, target, fark, db, history>>

-----------------------------------------------------------------------------
Call(p) ==
  \/ \E o \in Obj : \/ \E retry \in BOOLEAN : DataForSHA1(p, o, retry)
                    \/ PutData(p, o)
                    \/ DeleteBlobForSHA1(p, o)
  \/ CommitCall(p) \/ ClearCache(p) \/ ReloadCache(p)

Step(p) ==
  \/ Load(p)
  \/ FindForRead(p) \/ Fetch(p) \/ ForgetMissingPack(p)
  \/ AddToPackBuilder(p) \/ FindForDelete(p)
  \/ ReadPackIndex(p) \/ RebuildPackIndex(p)
  \/ ReadNextSibling(p) \/ RemoveData(p)
  \/ PutPack(p) \/ PutIndex(p)
  \/ DeletePack(p) \/ DeleteIndex(p)

Fails(p) ==
  \/ CallFails(p) \/ PutFails(p) \/ RemovalFails(p) \/ Restart(p)
  \/ \E t \in Thread : WorkerFails(p, t)

Next == \E p \in Proc : Call(p) \/ Step(p) \/ Fails(p)

Spec == Init /\ [][Next]_vars

\* The threads of a process run on; nobody has to call, or to fail.
FairSpec == Spec /\ \A p \in Proc : WF_vars(Step(p))

-----------------------------------------------------------------------------
(***************************************************************************)
(* Properties.                                                             *)
(***************************************************************************)

\* The pack the database names for an object is one of its packs, and holds
\* the object: dataForPackIndexEntry: cuts the object out of that pack at an
\* offset, so a wrong row gives another object's bytes.
EntriesAreBacked ==
  \A p \in Proc : \A o \in Obj :
    entry[p][o] # NoPack => entry[p][o] \in dbPacks[p] /\ o \in entry[p][o]

\* A load that succeeds has brought the database in step with the pack list:
\* every pack on it is there, or was skipped for want of an index, and no
\* other.  Threads that still run, or an error that none of them passes on,
\* would leave objects that can never be found.
LoadIsComplete ==
  [][\A p \in Proc : ~cacheIsLoaded[p] /\ cacheIsLoaded'[p]
       => /\ dbPacks[p] \subseteq frame[p].listed
          /\ frame[p].listed \subseteq dbPacks[p] \cup frame[p].skipped]_vars

\* What was committed and not deleted.
Kept == committed \ deleted

AtTarget(o) == \E pack \in packs : o \in pack

\* deleteBlobForSHA1: has the rest of the old pack in a new one, or needs none,
\* and has not removed the old pack yet.
Removes(f) ==
  /\ f.op = "delete"
  /\ f.pc = "deletePack" \/ (f.asks = "new" /\ f.pc # "putPack")

\* No process writes a pack that another one is about to remove.  A pack is
\* named by its objects: where two objects of a pack are deleted, or an object is
\* put while it is being deleted, one process may save the rest in a pack of the
\* very name that the other removes next.
PutsAside ==
  \A p, q \in Proc : p # q /\ frame[p].pc = "putPack" /\ Removes(frame[q])
    => frame[p].pack # frame[q].victim

\* Deleting an object takes nothing else from the backup, while another
\* process deletes or commits, and whatever single step fails: every other
\* object is in a pack at the target, or at least in the memory of a process.
\* It rests on PutsAside, which holds where each pack has one object that may be
\* deleted and no such object is put.
NothingIsLost ==
  trouble <= 1 =>
    \A o \in Kept : AtTarget(o) \/ \E p \in Proc : o \in builder[p]

\* "Load the pack's data into a PackBuilder minus the blob for theSHA1, save
\* it, and delete the old pack."
SavedBeforeDeleted == \A o \in Kept : AtTarget(o)

\* Every call returns: no thread of a load keeps the others waiting, and the
\* tries of a lookup come to an end.
CallsReturn == \A p \in Proc : frame[p].pc # "idle" ~> frame[p].pc = "idle"
=============================================================================
