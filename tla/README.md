# arq_restore in TLA+

These modules model the parts of arq_restore in which order, failure and
concurrency decide what the user gets: the restore of a folder by a pool of
threads, the restores from S3 Glacier and from a Glacier vault, the restores of
Arq 6 and Arq 7 records, the pack sets that hold the small objects of a backup,
and the listings of a target that processes share. TLC checks each module on
small instances; TLAPS proves theorems about every component for all values of
its constants: each safety property that a run checks is also a theorem.

`PROJECT.json` says for every definition which lines of the code it stands for,
for every property which mutant of the code breaks it, and for every hazard
which property guards against it.

Contents: [inventory](#inventory) · [modules](#modules) ·
[runs](#runs-and-bounds) · [fairness](#fairness) · [proofs](#proofs) ·
[disagreements](#disagreements-found) · [left out](#what-is-not-modelled) ·
[plan](#plan)

## Inventory

arq_restore is a command that lists and restores backups at a *target* (an S3
bucket or a local directory). It only reads backups, but its `repo/` is shared
with the agent that makes them, and one of its restorers uses the agent's
deletion of an object.

| Part | State it keeps | Operations | Hard because |
|---|---|---|---|
| `s3restore/` StandardRestorer, -Worker, -Item | stack of items, lock, semaphore, path by inode, `cancelRequested` | take an item and push what is below it; make directories, files, hard links; apply attributes; report; end | several threads; the order of items is the order of the effects on the disk; partial failure |
| `s3glacierrestore/`, `commonrestore/` | requests left, items left, bytes of the round, path by inode, open files | request in rounds; restore an item or put it back and wait; cancel | objects become available hours later in any order, and expire |
| `glacierrestore/` GlacierRestorer | the same, and packs to download, status files, an SQS queue, an SNS topic | the same, and reading the queue | messages delivered at least once; files that outlive the process |
| `repo/` PackSet, PackBuilder, SynchronousPackSet | `cacheIsLoaded`, entries to be written, `modified` | read, put, commit, delete an object; load the cache | several processes rewrite the packs of one target; each write may fail |
| `repo/` PIELoader, -Worker | packs to be loaded, the error, semaphore | load the indexes of packs with a pool of threads | threads; errors and completion race |
| `repo/` PackSetDB | SQLite tables of packs and of objects | insert and delete a pack, look up an object | rows must follow packs |
| `repo/` Fark | packs cached on disk, packs found downloadable | get, put and delete packs, indexes, objects, heads | caches that never expire |
| `repo/` Repo | keys, pack sets of a folder | object for a blob key; commits, trees; the head | one object may be in one of several places |
| `cocoastack/remotefs/` RemoteFS, `cocoastack/TargetItemsDB` | cached listings, a lock file | list, create, move, remove; clear | shared by processes; changed in separate critical sections |
| `arq7restore/`, `arq6restore/` | the call stack | choose a record; walk to a path; restore a tree recursively | the disk remembers what was done in which order: times, flags and owners; failures that are only logged |
| `cocoastack/s3`, `glacier`, `http` | pauses and repetitions of a request | send a request, repeat it | repetitions without end |
| deleters, S3ObjectsLister | next path or prefix, lock, semaphore | pools of threads | as PIELoader |
| `ArqRestoreCommand`, `Target*`, `Bucket`, `BackupSet` | configuration | parse arguments, choose a restorer | - |
| `repo/` Commit, Tree, Node, encryption, compression; `cocoastack/` io, json, plist, crypto, keychain | none | parse and write formats | not for a model checker |

How they interact: the command makes a restorer and passes itself as its
delegate; the restorer calls back for progress and errors, and each callback
may ask to cancel. A restorer asks Repo for trees, nodes and data by blob key.
Repo looks for an object as a file of its own, through Fark, and in the pack
sets. A PackSet asks its PackSetDB for the pack of an object and fills that
database with a PIELoader from what Fark lists. Fark reaches the target through
TargetConnection and RemoteFS, which lists directories from a cache.

What makes each part correct, in short: a restore that ends well has restored
everything, with its own contents, or said what it has not; it ends; nothing
happens after the outcome is announced; work is neither lost nor done twice;
nothing waits for an event that cannot come; the database of a pack set agrees
with the packs; rewriting packs loses no object. The section on runs says which
property states what.

## Modules

| Module | What it is |
|---|---|
| `Tree` | what is above a node of a tree |
| `Backup` | the folder to be restored: a tree of paths, the items of work, `NextItems` (what a tree's item leads to, in order) |
| `WorkPool` | abstract specification of a pool of workers: every piece is taken once, the pool closes when nothing is left |
| `StandardRestorer` | main thread, workers, stack, lock, semaphore, hard links, disk; implements `WorkPool` |
| `GlacierItems` | what both Glacier restorers request and restore: blobs, request items, items that continue a file |
| `S3GlacierRestorer` | the loop of rounds and of items, objects that thaw and expire, disk |
| `GlacierRestorer` | the same loop over a vault's archives, with packs, jobs, a topic, a queue and status files |
| `PackSet` | PackSet, PackBuilder, PIELoader, PackSetDB and what they use of Fark and RemoteFS, in several processes |
| `RemoteFS` | a target, the listings of it that processes share in a database, and the lock file |
| `RecordRestorer` | Arq7Restorer and Arq6Restorer: the choice of a record, the walk, the restore and its attributes |
| `MC...` | the small instances |
| `..._proofs` | lemmas and theorems about the module of that name |

`Backup` and `RemoteFS` extend `Tree`; `StandardRestorer` and `GlacierItems` extend
`Backup`; `S3GlacierRestorer` and `GlacierRestorer` extend `GlacierItems`, as their
proofs extend `GlacierItems_proofs`. `StandardRestorer` instantiates `WorkPool` as
`Pool`. `PackSet` has its own view of `RemoteFS`: the cached listing of the one
directory it uses.

### StandardRestorer

*State.* `standardRestoreItems`, `hardlinkPathsByInode`, `cancelRequested` and
`workerThreadSemaphore` are the fields of that name. `lock` is the owner of the
restorer's NSLock. `pc[w]` and `item[w]` are where worker `w` is and its local
item; `existingPath[w]` is the answer of `hardlinkedPathForInode` it holds
after the lock was released. `dirs`, `attrs`, `disk` and `holds` are the disk:
the directories, whether their times were restored and still are, the state of
each file and whose contents it has. `claimed`, `lost` and `reported` are
history.

*Steps.* Taking an item is `ClaimItem`; for a tree the worker keeps the lock
until `AddNextItems` or, when a tree below does not load, `LoseNextItems`. The
restore of a node is cut wherever another worker may see a difference: asking
for the path of an inode, linking, creating the file, writing it, applying its
attributes, registering its path. Each of them may fail and leads to
`ReportError`, after which the worker goes on whatever the delegate answers. A
worker that finds nothing goes through `FindNothing` and `WorkerDidFinish`, and
`DidSucceed` takes one signal of each. `attrs` of a directory become `"skipped"` where
`applyTree` ends early with YES, because the record has no inode number; a failure or a
cancellation while the directories are made leaves those that were.

### S3GlacierRestorer

One thread. `pc` is its place in the loop of `run:`; `glacierRequestItems` and
`restoreItems` are the two lists, `bytesActuallyRequestedThisRound` and
`bytesTransferred` the counters, `roundIsDue` whether the time of the next
round has come. A blob is one unit of bytes, so `PerRound` is a number of
blobs. `store[o]` is the state of an S3 object: cold, thawing after it was
requested, thawed, and, with `Expires`, cold again. `Thaw`, `Expire` and
`RoundComesDue` are the environment.

An item is restored in one step, because nothing else touches the disk, but
`WaitForObject` has the effects an item has before it finds that something is
cold: it made the directories above the file and opened it. `Minimum` is what the
comparison at S3GlacierRestorer.m:261 comes to; that line converts a value out
of range, so the result is a constant of the model. The run takes 0, the end at
which rounds go on; the theorems are for any value. A node, file data or a directory
that fails may have fetched, and counted, what it needs up to the blob that failed
(`FetchedUpTo`), and may leave a file on disk that could not be removed (`LeaveNode`,
`LeavesPartial`).

`TransferredOnce` is about this count. The units of a restore are the blobs of each
file, by their place, and one for the attributes of each path; `LeftIn` are the units
that some item of the list has still to transfer, and the count is never more than the
other units. It says nothing of the total that is shown to the user. That is the
uncompressed size of the files' data alone (S3GlacierRestorer.m:356), while the count
adds the length of every blob fetched, extended attributes and ACLs among them
(S3GlacierRestorer.m:164), so that the count shown may exceed the total shown. A blob
that was fetched when the delegate cancels is not in the model's count.

### GlacierRestorer

*State.* One thread; `pc` is its place in `run`, `setUp:` and `run:`. The fields keep
their names. Around it are the services: `started` and `job` of each archive, and
`message`, the one notification a job leads to: visible in the queue, in flight
(received and not deleted), or deleted. `response` are the messages received and not
yet processed, `status` the archives with a status file.

*Steps.* `CompleteJob` is the vault, and puts the message into the queue;
`ReceiveMessages` takes some of the visible messages, up to `MAX_QUEUE_MESSAGES_TO_READ`, or
none though there are some; `Reappear` delivers a message again.
`SaveCompletedJob` and `DeleteMessage` are two steps, because the thread may fail
between them. `FailMessage` ends the loop over the response but not the loop over
the queue, as GlacierRestorer.m:769 does. Packs are found, requested, and
downloaded in the order of a dictionary; the items are restored only afterwards,
by `RestoreAnItem`, whose steps are those of `S3GlacierRestorer`'s items without
hard links. Whatever ends the restore leads through `DeleteTopic` and `DeleteQueue`,
each of which may fail.

*Abstraction.* A request for a job is one step that starts one job. The code sends it
through a service that repeats it after a transient error (GlacierRestorer.m:514), so
that an answer that is lost may leave two jobs for one archive; `OneJobPerArchive` is
about the requests that the restorer makes. All blobs are archives or in packs: those
that a vault's folder has in S3 or S3 Glacier (GlacierRestorer.m:128, 174, 230) are not
modelled. A blob or pack is one unit of bytes. `bytesTransferred` appears only in
the comparison that the slip at GlacierRestorer.m:361 makes constant, so the result,
`AboveMinimum`, is a constant. Left out because nothing reaches it: `filesToSkip`,
which is never filled, and `didRequestArchiveId:`, which is never called. Status files
lie below a directory whose name contains a random job UUID, so a later run does not
find them: there is no restart. Services act only until the outcome is announced.

### PackSet

*State.* The target has `packs` and `indexes`. A pack is named by the hash of
its contents, so a pack *is* the set of its objects, and the pack of no objects,
which is never the pack of an object, stands for none. Each process has `cached`/`listing` (RemoteFS's
listing of the directory), `disk` (Fark's cache of packs), `dbPacks`/`entry`
(the two tables), `cacheIsLoaded`, `builder`/`buffer`/`modified` (PackBuilder),
`job`/`loadError` (PIELoader), and `frame`, the locals of its call. The lock of
SynchronousPackSet is why there is one call per process; it is held until the
call returns, with all threads of a load running inside it.

*Steps.* A call advances one access to the target or the database at a time, so
that calls of several processes interleave there. `frame[p].asks` says for what
purpose `packIndexEntryForSHA1:` was called, since the same load of the cache
(`ListPacks`, the workers' steps, `WaitForCompletion`, `RemoveStale`,
`FinishLoad`) may be part of a read, a put or a delete, and what follows its
failure differs (`LoadFailed`: the search for a missing pack goes on with its next try,
any other call ends). A delete reads the index of the old pack, reads
the other objects of it one by one with `dataForSHA1:withRetry:NO` (each of
these may load the cache again), commits, and deletes the old pack and index.
`WorkerFails`, `CallFails`, `PutFails` (the target may or may not have got the
file), `RemovalFails` (the target may or may not have lost it, the disk cache has) and
`Restart` are failures of any one step. A new pack is also saved to the disk where the
pack set is one of those with `cachePackFilesToDisk`, which are those of trees
(Repo.m:98); `CachePackFilesToDisk` gives the storage types for which the instance does
so, and the run has one of each.

### RemoteFS

*State.* `target` is what exists there, with (`local`) or without directories of
their own. The database of listings is a file that all processes open: `loaded`
and `items`. `lockFile` says which lock file is on disk and `opened` which one a
process has: after `clearAllCachedData` removed the directory with both, a process
may still have the old ones, and the database of such a process is `"moved"` and
lives on in `kept`. `call[p]` has the operation, the path, and where the call is.

*Steps.* A call is cut where it takes and returns the lock, and where it reaches the
target or the database: looking for an item, with the listing that may need
(`ListTarget`, `StoreListing`, `Answer`); the four critical sections of
`createFileAtomicallyWithData`, with `Write` and, locally, `Rename` between them;
the removal of files and of directories; clearing. A directory of S3 is removed as
the recursion of `lockedRemoveItem:` does it: `stack` are the directories that were
begun and not finished, `left` their children still to be visited, in any order because
a dictionary has none, and `gone` the files that have left their listing and will be
deleted when their directory has no children left. `Visit` is one child: a directory is
swept before the next child, a file leaves the listing. When a later directory cannot be
listed, the call fails with the files of `gone` still in S3.

`FailRequest` and `Crash` may strike at any step; what a request that fails may leave
is `LeftAtTarget`: in S3 its effect, in a local folder the directories above, a file in
its place whose owner could not be changed, or a part of the directory that was to be
removed. `Clear` deletes what is below a directory and what is below those that are
`Alike`: TargetItemsDB clears with LIKE, and takes the path for a pattern.
SQLite refuses to write to a database whose file was removed, so a process with a moved
database fails where it would enter something (`EntryFails`).

*Left out.* Errors of SQLite other than those of a database that was removed, and of one
that cannot store a listing, which is only logged. `moveItemAtPath`: nothing calls it,
and it would enter the queue of its database a second time (TargetItemsDB.m:590). Folder
identifiers, which neither LocalItemFS nor S3Service uses.

### RecordRestorer

*State.* `folders` and `names` are the folders of years and months and the records
of the current one that are not read yet; `stack` are the calls of
`restoreTree:toPath:error:`, each with the children it has left, in no order
because a dictionary has none; `node` and `todo` are the node in hand and its
attributes still to come. `disk`, `written` and `inPlace` are the disk.
`unreadable` and `failed` are history: what the code logged and passed over.

*Steps.* One for each request or group of calls after which the disk differs.
`OpenRoot`, `Walk` and `MakeDestination` are where Arq 6 and Arq 7 differ
(`format`). `CallFails` is the failure of any request or call that ends the
restore; `SkipAttribute` one that is only logged. The file system is modelled as
far as the order of steps depends on it: a new entry changes the time of its
directory, an immutable node refuses changes, a change of owner may clear set-id
bits.

*Abstraction.* Data is counted; the names in one tree differ at the destination; all
records of an instance have the same tree; decryption and parsing are a
step that may fail.

## Runs and bounds

Passing runs:

| Run | Instance | Shows |
|---|---|---|
| `StandardRestorer` | 2 workers; 2 directories, 3 files, two of which are one file with two names; nothing at the destination; every failure, cancellation | `UniqueWork`, `NoStrandedWork`: each item is restored once and no worker leaves while work may come. `SuccessIsSettled`: success means that every item was restored or reported and every worker has ended. `RegisteredIsComplete`: a path offered for linking is complete. `QuietAfterOutcome`: nothing happens after the outcome. `ImplementsPool`. `Termination` |
| `StandardRestorerExisting` | the same with a device file, an empty file, a symlink, no inodes, and files of an earlier restore in any state | `LinksAreOneFile`: only names of one file share contents |
| `S3Glacier` | 3 objects in any initial state, one request a round; a three-blob file, a second name of it in a subfolder, a file that shares a blob with it; cancellation | `ContentInOrder`: a file always holds a beginning of its data. `SuccessIsSettled`. `WaitsForRequested`: the thread never waits for what nobody asks for. `OneFileOpen`. `TransferredOnce`: no unit is fetched and counted twice. `Termination` |
| `S3GlacierMixed` | one file of each kind, two a round; objects expire, incomplete files stay | `ContentInOrder` |
| `PackSet` | 2 processes with 2 loader threads each, 3 objects, one pack at first; any 3 calls; 1 failure or crash; both storage types | `EntriesAreBacked`: the pack of a row is in the database and holds the object. `NothingIsLost`: deleting one object loses no other. `LoadIsComplete`: a load that succeeds leaves the packs of its list. `CallsReturn` |
| `Glacier` | 2 directories, 2 files, one of them a symlink that shares an archive with the other, one pack for a directory's attributes; one unit a round; one message that comes back or deletion that fails | `OneJobPerArchive`: nothing is requested twice, or needlessly. `NotificationKept`: until a status file names a completed job its message is in the queue. `WaitsForRequested`. `SuccessIsSettled`. `NothingLeftBehind`: topic and queue are removed. `Termination` |
| `GlacierPacks` | one folder of 3 files, one empty, 2 packs, a blob that no index has; two units a round; cancellation; outputs expire | `PackedIsCached`: a packed blob is taken to be available without a look, and is. `SuccessIsSettled` |
| `RemoteFS` | 2 processes; a directory with a file and a directory that has another, and a path that matches it when it is cleared; local folder and S3; one crash, failed request or `clearAllCachedData` | `ListingsAreTrue`: a loaded listing is what the target has. `RemovalIsReal`: who is told that a path was removed can rely on it, but for a path that another process is changing, or that is in doubt |
| `RecordRestorer` | 4 records in 3 folders; 3 directories, 3 files, one of them deleted, 2 immutable nodes; Arq 6 and 7; the root, every node, and 2 paths that do not exist asked for; 2 attributes that cannot be applied | `NewestRecord`; `SuccessIsComplete`: success means that all that is wanted is there, with data and attributes; `ErrorIsExplained`: an error without a failed call has one of the listed reasons; `AttributesStay`: no step undoes an attribute; `Termination` |

Violation runs, each for one sentence of the documentation or of a comment:
`StandardRestorerLostTree`, `StandardRestorerDirTimes`, `PackSetLost`. See
[below](#disagreements-found).

Distinct states: 478,136; 234,349; 746,690; 4,529,436; 633,375; 869,566; 865,347;
2,073,344; 15,814, in the order of the table.

Why the bounds are enough. Two workers suffice for every race over the stack,
the lock and the semaphore, since each property of them relates two workers (the
proofs do not depend on the number). Two levels of directories give a tree item
that is below another and a name in another directory than the file it is
linked to. One request a round forces the requests to be spread over rounds,
with items waiting in between; with two, a round ends in the middle of a file.
Two of the blobs share an object, so that one request serves two. In `PackSet`,
three calls let a delete meet a put or another delete of the other process and be
followed by a read; one failure lets any step of them fail. `NothingIsLost` is
stated for at most one failure, because the code cannot keep it with two: a
commit fails, the delete is repeated and deletes the old pack without writing the
new one, and a crash then takes the only copy, the one in memory. The first half of
that is what `PackSetLost` shows: `SavedBeforeDeleted` does not count the memory.


In `Glacier` one unit a round makes the rounds interleave with restoring and with
messages, and an archive with two uses and a pack that only attributes need are
what `OneJobPerArchive` and `PackedIsCached` are about; a message that comes back
once meets each step of processing it. In `RemoteFS` two processes and two levels
of directories let a directory come to exist, be listed, entered and removed in
every order. `p1` looks, lists, creates the deeper file, removes the upper directory and
the file in it, and clears the path that matches that directory; `p2` creates either
file, lists afresh and removes the caches: each critical section meets each other one.
Because the upper directory has a file and a directory, its removal from S3 may
fail between the two, with the file out of the listing, and the removal of the file may
follow. `RecordRestorer`
has a directory below a directory, an immutable file and directory, a file
of several objects, and every outcome of each record.

`ListingsAreTrue` and `RemovalIsReal` hold up to `doubt`, a set of paths that
the model collects where the code lets a listing lie, so that the property is
exact about everything else and the list of exceptions is the documentation of the
weaknesses: a file that is removed between the moment another process wrote it and
the moment it entered it; a directory that came to exist above the one that was
made and entered; an entry that is removed while the path is still, or again,
there; a file that left its listing for a removal of its directory that then failed;
what is in a directory that was taken for another by LIKE; and what a process was
changing when it crashed, when its request was not confirmed or when its database had
moved. While the lock file was removed from under a
process (`lockLost`) nothing is promised.

Deadlock is not checked: a restore that has ended stops, a process of `PackSet`
does nothing once `MaxCalls` calls were made, and in `RemoteFS` the bound on
troubles may be used up. `Termination` and `CallsReturn` say what deadlock freedom
should.

No symmetry is used: the runs with liveness could not, and the paths of a backup
differ.

## Fairness

`FairSpec` of `StandardRestorer`: weak fairness of the main thread and of each
worker, because they are threads of the operating system. Reading the lock as
`lock = None`, a fair worker needs no more than weak fairness to end, since the
stack only shrinks once all trees are expanded. Cancellation is not fair. It assumes that a
request to the target returns; S3Request.m:154 repeats an HTTP 500 for ever, a
hazard that is listed.

`FairSpec` of `S3GlacierRestorer`: the thread runs; the time of the next round
comes; an object that was requested thaws. The code waits for both in a loop of
sleeps, and S3 promises the latter. `Termination` is checked without expiry:
with `RESTORE_DAYS` running out during the restore an object may become cold
after it was requested and would not be requested again.

`FairSpec` of `GlacierRestorer`: the thread runs; the time of the next round comes; a
job that was started completes (weak fairness each). The queue is asked again and
again, and its answers may miss a message, but not always: strong fairness of
receiving each message that is visible again and again, which is what SQS promises of
repeated polling. Failures, cancellation and messages that come back are not fair.

`FairSpec` of `RecordRestorer`: weak fairness of the one thread, whichever way its
calls go. `RemoteFS` has no liveness property and no fairness.

`FairSpec` of `PackSet`: the steps of a call in progress are fair, as steps of a
thread; calls and failures are not.

## Proofs

| Theorem | Property | Under |
|---|---|---|
| **`StandardRestorer_proofs`**: folders, finite non-empty sets of workers, what is at the destination before | | |
| `TypeCorrect` | `TypeOK` | |
| `NoItemRestoredTwice` | `UniqueWork` | |
| `WorkersStayForWork` | `NoStrandedWork` | |
| `NothingAfterOutcome` | `QuietAfterOutcome` | |
| `RestoreImplementsPool` | `ImplementsPool` | |
| `OfferedIsWhole` | `RegisteredIsComplete` | |
| `LinkedPathsWereOne` | `LinksAreOneFile` | `OneVolume` |
| `SuccessLeavesNothing` | `SuccessIsSettled` | `OneVolume` |
| **`S3GlacierRestorer_proofs`**: folders, objects, their states, round sizes | | |
| `TypesAreKept` | `TypeOK` | |
| `OneFileAtATime` | `OneFileOpen` | |
| `DataComesInOrder` | `ContentInOrder` | `OneVolume` |
| `WhatIsNeededIsAskedFor` | `WaitsForRequested` | `~Expires` |
| `SuccessSettlesEverything` | `SuccessIsSettled` | `OneVolume`, `NoPartialLinks` |
| `NothingIsTransferredTwice` | `TransferredOnce` | a finite folder |
| **`GlacierRestorer_proofs`**: folders, vaults, round sizes, orders of messages, bounds | | |
| `TypeCorrect` | `TypeOK` | |
| `NoJobIsForgotten` | `NotificationKept` | |
| `ServicesAreRemoved` | `NothingLeftBehind` | |
| `NoArchiveIsRequestedTwice` | `OneJobPerArchive` | |
| `PacksComeFirst` | `PackedIsCached` | |
| `SleepsOnlyForJobs` | `WaitsForRequested` | |
| `SuccessSettlesEverything` | `SuccessIsSettled` | |
| **`PackSet_proofs`**: processes, threads, objects, initial packs, bounds | | |
| `TypeCorrect` | `TypeOK` | |
| `DatabaseSound` | `EntriesAreBacked` | |
| `LoadsAreComplete` | `LoadIsComplete` | |
| `DeletesLoseNothing` | `NothingIsLost` | `[]PutsAside` |
| `AloneLosesNothing` | `NothingIsLost` | one process |
| `ApartLosesNothing` | `NothingIsLost` | `OneInAPack` |
| **`RemoteFS_proofs`**: trees of paths, finite sets of processes and their calls, local and S3, bounds | | |
| `TypesAreKept` | `TypeOK` | |
| `LockExcludes` | `OneHolder` (stated with the proof) | |
| `ListingsTellTheTruth` | `ListingsAreTrue` | |
| `WhatIsRemovedIsGone` | `RemovalIsReal` | |
| **`RecordRestorer_proofs`**: records, trees, attributes, paths asked for, bounds | | |
| `TypeCorrect` | `TypeOK` | |
| `NewestIsRestored` | `NewestRecord` | |
| `AttributesAreKept` | `AttributesStay` | |
| `ErrorsAreExplained` | `ErrorIsExplained` | |
| `SuccessMeansComplete` | `SuccessIsComplete` | |

`Tree_proofs` and `GlacierItems_proofs` hold lemmas only: what is above and below
a path, what items stand for, and how a list changes when its first item is replaced.

*Hypotheses.* Each is about the record or the surroundings of a restore, the instances
of the runs satisfy it, and without it the property is false for the reason given.
`OneVolume`: where two files of the record have one inode number, they are one file. A
folder that spans volumes repeats inode numbers, and the code does not look at the
device. `~Expires`: an object that was requested once is not requested again, so that
one whose copy expired is waited for in vain. `NoPartialLinks`: no file is left half
written, or no path has several names. A file whose removal failed stays registered
under its inode number, its other names become links to it, and only the first name
has an error. `PutsAside`, `OneInAPack`: see "Packs that are rewritten" below.

*Work of a restore.* Neither `UniqueWork` nor `NoStrandedWork` is inductive. That a popped
tree's children are not on the stack yet needs the tree structure of the backup
(`BackupAssumption`: no path is in two places) and that an item is known only
after the tree above it was expanded (`Uncovered`). That no worker finds the
stack empty while another is about to push needs that the lock is held exactly
during the expansion (`LockGuardsExpansion`). `WorkInv`, in `StandardRestorer`,
is their conjunction with the types; each action preserves it. Lemmas about
sequences without repetition carry the changes of the stack, and
`NextItemsOf`/`NextItemsApart` state what `NextItems` puts on it.

*End of a restore, and the pool.* `EndInv`: while the main thread waits, the
semaphore counts the workers that have ended, and a success finds all of them
ended. With `WorkInv` no worker can take a step after the outcome. The same two
invariants carry the refinement: `PoolOfWork` says what the pool's `pool`, `taken`,
`stopped` and `closed` are here, the initial states map to the initial state,
`ClaimItem` of a node and the end of a tree's expansion map to `Take`, a
cancellation to `Stop`, the outcome to `Close`, and all else to a stutter. That at
least one worker exists is needed: a restore without workers would close the pool
with its first item in it.

*Files of a restore.* `OfferInv` is what makes `RegisteredIsComplete` inductive: a
path in the map, or in the hands of a worker that was just told of it, has the inode
number it is offered under and has its data, and no worker is still at work on it.
It needs `StepFits` (what a worker does goes with its item) and `UniqueWork` (one
worker per path). `LinksAreOneFile` and `SuccessIsSettled` are false of records in
which two files share an inode number, as they do when the folder spans two volumes; their
theorems have the hypothesis `OneVolume`, which says just that this does not happen.
`SettledInv`: every item that was taken up is settled or in the hands of a
worker, where a tree counts as settled when what is below it is known. At the end
nobody has an item in hand (`EndInv`) and the stack is empty (`NoStrandedWork`), so
what is known was taken up.

*Items of the Glacier restores.* `InOrder` is the invariant of the list of items: each
path is stood for by at most one of them (`CoverOnce`; a tree's item stands for
all below it), nothing below a tree comes after the item that applies its attributes, only
the first item continues a file. `OrderAfter` shows once that the list stays in order
when the first item is replaced by items that `Follow` it, and each step of a
restorer is then about one item. `BackupIsTree` derives from the two assumptions about
the folder that induction along its tree is sound.

*A restore from S3.* `TypeInv` contains `InOrder`, from which `OneFileOpen` follows.
`DataInv`: of a file whose item was not reached nothing is on disk, of the one at work
exactly the blobs that its item counts (`FreshInv`); the map of links has a path under
its own number; a directory that has its times has nothing left to do in it. With it
`PrefixInv`, which is `ContentInOrder`, is inductive, links included. For
`SuccessIsSettled`: `WholeInv`, a file on disk is whole, or in hand, or was left half
written and reported; `TotalInv`, each path is settled or stood for by an item.
`AskInv`: each blob of what is restored lies in an object that is not cold, or a
request item that is left leads to it. `TransferredOnce` needs more than it says:
`CountInv`, that what was transferred and the number of units that some item still
leaves (`LeftIn`) are together at most the number of all units. It is inductive because
an item that waits has transferred nothing, and because only a regular file goes on
after its item failed, and then before anything of it was fetched (`OpenInv`): of
other items that fail some blobs may have been transferred, but the item is gone. The
bound is the size of a set of units and not a sum, whose facts would take an induction.

*Types of a pack set.* `TypeOK` is the types (`Typed`) and that a lookup is under
way only while its loop has a turn left (`HasTurnLeft`), so the theorem includes
that none repeats more often than `MAX_RETRIES` allows. It is not inductive: the
database may be asked only for an object, so what a call asks must go with what it
has in hand, and each lookup must begin with no turn taken. `TypeInv` is `Typed`
with `Knows`, which says so: a call that looks something up knows what and has a
turn left, it does so only at the points of the loop, and elsewhere `tries` is 0.

*Database of a pack set.* `EntriesAreBacked` is inductive with `TypeInv`. Only
two operations touch it: inserting a pack replaces the rows of exactly its
objects (`InsertKeepsBacked`), deleting a pack deletes every row that names it
(`DeleteKeepsBacked`); no other action changes the database.

*Loads.* `LoadIsComplete` is about the step `FinishLoad`, and follows from what
was true through the load: every pack of the list is stored, or still to be
loaded, or skipped, or in the hands of a thread, unless an error was noted;
outside a load no thread is at work and no error is left over (`LoadInv`). When
all workers have ended without error nothing is to be loaded and no thread
holds a pack, so all of the list is stored or skipped. The removal of stale
packs takes only packs that are not on the list. `OnlyFinishLoads` shows that no
other action sets `cacheIsLoaded`. The `After...` lemmas say that the ways a
call goes on lead to no step of a load; `Elsewhere` and `OtherProcesses` deal with
the processes that do not move.

*Packs that are rewritten.* `NothingIsLost` is not true of every use of a pack set. A
pack is named by its objects, and the proof failed at one case, which TLC then turned
into a run of two processes (two objects of one pack are deleted, and one of them is
put again): `p` deletes `x` from the pack {`x`, `o`} and has written {`o`, `y`}; `q`,
with `x` in its PackBuilder, deletes `y` from that and so writes a pack {`x`, `o`}, of
the very name that `p` removes next; then `q` removes {`o`, `y`}, and `o` is gone.
`PutsAside` excludes just this: that a process writes a pack that another one is about
to remove. `DeletesLoseNothing` shows that it is the only way to lose an object.
`AloneLosesNothing` and `ApartLosesNothing` discharge it: for one process; and where a
pack has at most one object that may be found invalid and deleted, and none of these
is put (`OneInAPack`, which the run satisfies), because then the objects in memory and
in a new pack are unmarked and the pack that is removed is not (`ApartInv`). The
invariant, `KeepingInv`: what a call has in hand goes with where it is (`CallInv`: the
objects of the old pack are in the PackBuilder or still to be read until the new pack
was written); a PackBuilder that has objects is marked as modified, as long as nothing
failed (`BuilderInv`); and every object that was committed, or is in a pack written by
a call that has not returned, is in a pack that no process is about to remove, or
after a failure in memory (`KeptInv`).

*A restore from a vault.* `TypeInv` adds to the types that the data item of a file
points at a blob the file has, and that there is a message while one is processed.
`KeptInv` adds to `NotificationKept` that the archive whose message is about to be
deleted has its status file (`SavedFirst`); the steps that fail give up the response
without deleting anything. `RemovalInv` follows topic and queue through the two steps
of the end. `JobInv` says why no archive has two jobs: a pack is asked for once, from
the set `packsToRequest`, before any item is requested; another archive only if it is
not in `requestedArchiveIds`, which every job started enters; and requests are only
about paths that are restored. `PackInv`: from the moment the packs were found, every
needed one is on disk or still to be downloaded, and the restore of items begins when
nothing is left to download. `AskInv`: each needed archive has its job, or will get it
from `packsToRequest` or a request item that is left; so the thread sleeps only for
jobs that were started. `SettleInv`: the items are in order, what they count is on
disk, and each path is settled or stood for by an item.

*A cache of listings.* `TypeOK` has a bound on lock files, which needs `CountInv`
(each is the work of a trouble), and `Shape`, which says of each place in a call what
path, listing and stack it has there. A target of the local file system has the
directories of what it has (`ClosedTarget`). `LockInv`: until the lock file is removed
from under a process, a process inside has it open and is alone; `LockExcludes` states
that of `FlockFile`. `TrueInv` is `ListingsAreTrue` for the paths that are `Certain`:
not in doubt and not in flux, that is, not changed at the target and still to be
entered, or the reverse, by a call in progress. It needs that what was written is at
the target until it is entered (`AddInv`), and what each process in its critical
section owes (`Owed`): the listing it read is true until it is stored; a file it is to
forget is gone; a directory it is to enter was made; files it is to delete have left
a listing that is loaded (`GoneFor`); nothing below a local directory it removes is
listed; a listing that it is about to store is not loaded yet (`UnlistedFor`), which is
why storing it does not bring back a file that is `gone`; each file that is `gone`
lies in a directory of the stack. `CacheInv` is both, as long as `lockLost` is false;
`FSInv`, with the types and the lock, is inductive. `RemovalIsReal` was first stated without "another
process is changing it", for paths of a removal that finds nothing; its proof needed
what one process is told when another one has just written the path and not entered
it.

*Restore of a record.* `SearchInv` relates what is left of the folders and records to
the constants: every complete record passed over is in `unreadable`. `WalkInv`
describes the disk during the recursion: each call on the stack is
about another directory, at or below what was asked for, that is on disk and has no
attributes yet; the children it has left are not on disk; nothing is on disk
outside a directory that is; the node in hand is in none of them. From it follows
that a step only disturbs attributes of directories on the stack, which have none
(lemma `NothingIsLost`), but for the set-id bits. `ErrorInv` needs it too, to show that
a file can be created where it is to be. `CompleteInv`: what is on disk is wanted
(`PlaceInv`); what is wanted and not on disk is below a child that some call on the
stack has left, or below the node in hand (`PendingInv`); a file on disk has its data
unless it is being written (`DataInv`); a node on disk has its attributes unless
it is on the stack or in hand (`SettledInv`). When the stack is empty all the
exceptions are gone.

*Assumptions.* The proofs use the `ASSUME`s of the modules and the hypotheses above,
and nothing else: finite sets of workers, threads, archives, objects and processes of
`RemoteFS`, at least one worker and one thread in a load, `None` different from what
it stands in for, data and attributes that are blobs (`BlobAssumption`), and a folder
that is a tree: no path is in two places (`BackupAssumption`), and going down from the
root one comes to each (`ReachAssumption`, `IsTree`). The latter is the induction the
proofs need along the tree, as an assumption about sets, because the induction
theorems of the library cannot be used here. `PathsAssumption` of `RecordRestorer`
states facts about the recursive function `Way` that would take an induction over the
depth of a tree to derive. TLC evaluates each of them for the instances.

*Only model-checked.* Liveness (`Termination`, `CallsReturn`), which is outside this
prover's reach, and with it the fairness. And what the model-checking bounds decide and no
theorem is about: that the instances reach the interesting cases.

## Disagreements found

Each is an entry of `findings` in `PROJECT.json` with the sentence it contradicts.

With a counterexample of TLC:

1. A tree that does not load makes `nextItem` drop all items of its *parent*; the
   files are missing, nothing is reported, and the restore succeeds
   (`StandardRestorerLostTree`).
2. The item that applies a directory's times is last in its list, to be done
   last, but the stack is popped from its end: it is done first, and making the
   children changes the times again (`StandardRestorerDirTimes`).
3. `commit:` clears `modified` even when it failed; a repeated delete then
   deletes the old pack without writing the new one (`PackSetLost`).

Modelled as the code has them, with the property of a passing run that names or
excludes the case:

4. Equal inode numbers are taken for hard links without a look at device or link
   count (StandardRestoreItem.m:154): `LinksAreOneFile` is checked on a
   folder of one volume, where inodes identify files.
5. `(roundsCompleted = 0)` is an assignment, in both Glacier restorers: the minimum of a
   round is out of range, and where the conversion saturates nothing more is
   requested; where it gives 0 a round begins whatever was transferred.
6. A symlink whose blob is cold fails in `S3GlacierRestorer` instead of waiting.
7. A file given up in the middle stays registered for hard links.
8. A record that cannot be fetched is only logged and an older one restored
   with success (`NewestRecord` names the case).
9. Arq 6 makes a directory where a file is to be that was asked for by its path; Arq 7 does not make the
   directory for a folder asked for, so that a file that comes first cannot be
   created (`ErrorIsExplained` names both). With the path "/" the folder asked for is the
   root, whose directory Arq 7 does not make either.
10. Flags are applied before times, which an immutable file then refuses, and the
    owner after the mode, whose set-id bits it may clear (`AttributesStay`,
    `SuccessIsComplete` name both).
11. Two processes that delete objects of one pack, one of which is put again, may
    lose a third one: the new pack of one delete has the name of the pack that the other is
    about to remove (`PutsAside`; see [proofs](#proofs)).
12. A directory made with its parents is entered in the listings without them; the
    lock file and the databases are removed without the lock; a local file is
    removed before the new one is renamed into its place (`doubt`, `lockLost`).
13. The removal of a directory from S3 takes the files out of the listing as it meets
    them and deletes them at the end; when a directory among them cannot be listed, it
    fails, and a later removal of such a file answers that it is gone although it is
    still in S3 (`doubt`).
14. A directory is cleared by a pattern of LIKE with its path unescaped: the entries of
    another directory that matches go, and its listing stays loaded (`doubt`).

Seen while reading, outside what the modules say: the worker ignores the
delegate's wish to cancel; a restore from S3 Glacier may show more bytes transferred than
its total; a read whose load of the cache ends with ERROR_NOT_FOUND answers that the
object is not in the pack set (PackSet.m:376); errors of extended attributes and ACLs are only logged,
a cancellation among them; a missing pack's rows are deleted but the pack list is
not read again; an object that is in two packs loses its row with one of them; two
processes of one machine may remove each other's new packs from the database; Arq 7 and 6
restore no attributes of the folder itself and every kind of node as a
file; a legacy Glacier restore is created but never run.

## What is not modelled

Parsing, formats, encryption and compression, streams, HTTP, the keychain,
logging, configuration and printing: pure functions, or input and output with
no protocol. The requests to AWS and the parsing of their answers; what the
services do is the environment of the Glacier modules. Vendored code. Byte
counters that are only shown. User and group
ids, and what system calls do with modes and flags beyond what the section on
`RecordRestorer` says. In `PackSet`: the repair of
entries that do not fit their pack (PackSet.m:153-196), the S3 Glacier calls for
packs, and a database shared by two processes of one machine. In
`StandardRestorer`: the delegate multiplexer's locking.

`Repo`, the loops that repeat a request, and the pools that delete paths and list
prefixes are not modelled yet; see the plan. The modules take a
blob as present, missing or cold, which is what Repo answers.

A request to the target, with all its repetitions, is one step that succeeds or
fails, with the effect of a write possible in both cases.

## Plan

Done: `Backup`, `WorkPool`, `StandardRestorer`, `S3GlacierRestorer`, `PackSet`,
`GlacierRestorer`, `RemoteFS`, `RecordRestorer`, in the order of their importance to
a restore, and the theorems above.

Next, theorems: that `PutsAside` can be had for several deletable objects in a pack
when none of them is put again, or a counterexample; that the listing of a local
folder, after a crash, comes to be true again once the directory is cleared.

Next, modules:

1. `Repo`: where `doDataForBlobKey:` looks, in what order, and what it forgets in
   between, over an abstract pack set; `setHeadBlobKey:` and its
   consistency check.
2. `Retry`: the loops of S3Request and GlacierRequest, and what fairness about
   requests they justify.
3. `Pool`: RemoteFSFileDeleter and S3ObjectsLister as further instances of a
   pool of workers, one of which stops while others go on.
4. `PackSet` with two processes of one machine on one database, and its `Listing`
   shown to be what `RemoteFS` promises.
