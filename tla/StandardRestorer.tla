-------------------------- MODULE StandardRestorer --------------------------
(***************************************************************************)
(* The restore of a folder from S3 or from a local directory:              *)
(* StandardRestorer (the main thread and the shared work stack),           *)
(* StandardRestoreWorker (the worker threads) and StandardRestoreItem (one *)
(* piece of work).  The main thread makes the directories, pushes the      *)
(* first item and waits for the workers.  Each worker repeats: under the   *)
(* restorer's lock pop the last item and push the items below it, then,    *)
(* outside the lock, restore the item.                                     *)
(***************************************************************************)
EXTENDS Backup

CONSTANTS
  Worker,      \* the worker threads (DEFAULT_NUM_WORKER_THREADS of them)
  Kind,        \* Kind[f]: "regular", "empty", "symlink" or "special"
  StIno,       \* StIno[p]: the 32-bit st_ino of the record, 0 from Windows
  FileId,      \* FileId[f]: equal for two paths iff they were one file
  CanCancel,   \* may the delegate answer YES, "cancel is requested"
  Preexisting  \* what may be on disk at a file's path before the restore

ASSUME WorkerAssumption ==
  Worker # {} /\ IsFiniteSet(Worker) /\ None \notin Worker

ASSUME RecordAssumption ==
  /\ Kind \in [File -> {"regular", "empty", "symlink", "special"}]
  /\ StIno \in [Path -> Nat]
  /\ DOMAIN FileId = File
  /\ CanCancel \in BOOLEAN
  /\ Preexisting \subseteq {"absent", "older", "same", "newer"}

VARIABLES
  main,                   \* where the thread in -run: is
  standardRestoreItems,   \* the work stack
  hardlinkPathsByInode,
  lock,                   \* who holds the restorer's NSLock
  cancelRequested,
  workerThreadSemaphore,
  pc, item,               \* where a worker is, and the item it restores
  existingPath,           \* the answer of hardlinkedPathForInode
  dirs, attrs,            \* directories on disk, and their attributes
  disk, holds,            \* state of each file on disk, whose contents it has
  claimed, lost,          \* items popped so far; trees that failed to load
  reported                \* paths of standardRestorerErrorMessage calls

work == <<standardRestoreItems, lock, claimed, lost>>
files == <<dirs, attrs, disk, holds, hardlinkPathsByInode>>
delegate == <<cancelRequested, reported>>
vars == <<main, workerThreadSemaphore, pc, item, existingPath,
          work, files, delegate>>

Inos == {StIno[p] : p \in Path}

TypeOK ==
  /\ main \in {"setUp", "directories", "waiting", "succeeded", "failed"}
  /\ standardRestoreItems \in Seq(Item)
  /\ hardlinkPathsByInode \in [Inos -> Path \cup {None}]
  /\ lock \in Worker \cup {None}
  /\ cancelRequested \in BOOLEAN
  /\ workerThreadSemaphore \in Nat
  /\ pc \in [Worker -> {"unborn", "nextItem", "nextItems", "node", "link",
                        "create", "write", "attributes", "register", "apply",
                        "report", "finishing", "exited"}]
  /\ item \in [Worker -> Item \cup {None}]
  /\ existingPath \in [Worker -> Path \cup {None}]
  /\ dirs \subseteq Dir /\ attrs \in [Dir -> {"unset", "restored", "skipped", "stale"}]
  /\ disk \in [File -> {"absent", "older", "same", "newer", "partial", "whole"}]
  /\ holds \in [File -> File]
  /\ claimed \subseteq Item /\ lost \subseteq Dir /\ reported \subseteq Path

\* Either nothing is at the destination, or an earlier restore is.
Init ==
  /\ main = "setUp"
  /\ standardRestoreItems = <<>> /\ lock = None
  /\ hardlinkPathsByInode = [n \in Inos |-> None]
  /\ cancelRequested = FALSE
  /\ workerThreadSemaphore = 0
  /\ pc = [w \in Worker |-> "unborn"]
  /\ item = [w \in Worker |-> None]
  /\ existingPath = [w \in Worker |-> None]
  /\ disk \in [File -> Preexisting \cup {"absent"}]
  /\ dirs = IF \A f \in File : disk[f] = "absent" THEN {} ELSE Dir
  /\ attrs = [d \in Dir |-> "unset"]
  /\ holds = [f \in File |-> f]
  /\ claimed = {} /\ lost = {} /\ reported = {}

-----------------------------------------------------------------------------
(***************************************************************************)
(* The main thread.                                                        *)
(***************************************************************************)

\* setUp opened the repository and loaded the commit and the root tree.
SetUp ==
  /\ main = "setUp"
  /\ main' = "directories"
  /\ UNCHANGED <<workerThreadSemaphore, pc, item, existingPath, work, files, delegate>>

\* createDirectoriesForTree goes down the trees in order.  A child that fails
\* (its tree does not load, or the directory cannot be made, which is also how
\* a second directory with an st_ino already seen ends: link() refuses a
\* directory) stops the loop over its siblings, and the failure stays there.
MadeDirectories(made) ==
  /\ Root \in made
  /\ \A d \in made \ {Root} : ParentOf(d) \in made
  /\ \A d \in made : \A i, j \in 1..Len(Children[d]) :
       /\ i < j
       /\ {Children[d][i], Children[d][j]} \subseteq Dir
       /\ Children[d][j] \in made
       => Children[d][i] \in made
  /\ \A d, e \in made \ dirs : StIno[d] = StIno[e] /\ StIno[d] # 0 => d = e

CreateDirectoryTree(made) ==
  IF Target = Root
    THEN /\ MadeDirectories(made)
         /\ dirs' = dirs \cup made
         /\ hardlinkPathsByInode' =
              [n \in Inos |->
                 IF n # 0 /\ \E d \in made \ dirs : StIno[d] = n
                   THEN CHOOSE d \in made \ dirs : StIno[d] = n
                   ELSE hardlinkPathsByInode[n]]
    ELSE /\ made = {ParentOf(Target)}
         /\ dirs' = dirs \cup made
         /\ UNCHANGED hardlinkPathsByInode

\* -run: after setUp: make the directories, push the first item, start the
\* workers.
StartWorkers ==
  /\ main = "directories"
  /\ \E made \in SUBSET Dir : CreateDirectoryTree(made)
  /\ standardRestoreItems' = <<FirstItem>>
  /\ pc' = [w \in Worker |-> "nextItem"]
  /\ main' = "waiting"
  /\ UNCHANGED <<workerThreadSemaphore, item, existingPath, lock, claimed, lost,
                 attrs, disk, holds, delegate>>

\* An error of setUp or of the destination directory itself, or a delegate
\* that answers YES before the workers start, when the directories may have been
\* made: standardRestorerDidFail.
DidFail ==
  /\ main \in {"setUp", "directories"}
  /\ \/ UNCHANGED <<dirs, hardlinkPathsByInode>>
     \/ /\ main = "directories"
        /\ CanCancel
        /\ \E made \in SUBSET Dir : CreateDirectoryTree(made)
  /\ main' = "failed"
  /\ cancelRequested' \in {cancelRequested, CanCancel}
  /\ UNCHANGED <<workerThreadSemaphore, pc, item, existingPath, work, attrs, disk,
                 holds, reported>>

\* MUTANT: -run: waits for one worker less than it started.
DidSucceedEarly ==
  /\ main = "waiting"
  /\ workerThreadSemaphore >= Cardinality(Worker) - 1
  /\ workerThreadSemaphore' = workerThreadSemaphore - Cardinality(Worker) + 1
  /\ main' = "succeeded"
  /\ UNCHANGED <<pc, item, existingPath, work, files, delegate>>

\* MUTANT: the wait for the semaphore gives up after a while, unnoticed.
DidSucceedOnTimeout ==
  /\ main = "waiting"
  /\ workerThreadSemaphore' = workerThreadSemaphore - Cardinality(Worker)
  /\ main' = "succeeded"
  /\ UNCHANGED <<pc, item, existingPath, work, files, delegate>>

\* The semaphore was signalled once per worker: standardRestorerDidSucceed.
DidSucceed ==
  /\ main = "waiting"
  /\ workerThreadSemaphore >= Cardinality(Worker)
  /\ workerThreadSemaphore' = workerThreadSemaphore - Cardinality(Worker)
  /\ main' = "succeeded"
  /\ UNCHANGED <<pc, item, existingPath, work, files, delegate>>

-----------------------------------------------------------------------------
(***************************************************************************)
(* StandardRestorer.nextItem, called by worker w.  The children's trees    *)
(* are read from the repository with the lock held.                        *)
(***************************************************************************)
Goto(w, step) == pc' = [pc EXCEPT ![w] = step]

\* MUTANT: the lock is released before the items below a tree are read.
ClaimItemAndUnlock(w) ==
  /\ pc[w] = "nextItem"
  /\ lock = None
  /\ ~cancelRequested
  /\ standardRestoreItems # <<>>
  /\ LET next == Last(standardRestoreItems) IN
       /\ standardRestoreItems' = Front(standardRestoreItems)
       /\ item' = [item EXCEPT ![w] = next]
       /\ claimed' = claimed \cup {next}
       /\ Goto(w, IF next.action = "tree" THEN "nextItems" ELSE next.action)
  /\ UNCHANGED <<main, workerThreadSemaphore, existingPath, lock, lost, files, delegate>>

\* MUTANT: removeLastObject is forgotten for the last item of the stack.
ClaimItemAndKeep(w) ==
  /\ pc[w] = "nextItem"
  /\ lock = None
  /\ ~cancelRequested
  /\ standardRestoreItems # <<>>
  /\ LET next == Last(standardRestoreItems) IN
       /\ standardRestoreItems' = IF Len(standardRestoreItems) = 1
                                    THEN standardRestoreItems
                                    ELSE Front(standardRestoreItems)
       /\ item' = [item EXCEPT ![w] = next]
       /\ claimed' = claimed \cup {next}
       /\ Goto(w, IF next.action = "tree" THEN "nextItems" ELSE next.action)
       /\ lock' = IF next.action = "tree" THEN w ELSE None
  /\ UNCHANGED <<main, workerThreadSemaphore, existingPath, lost, files, delegate>>

ClaimItem(w) ==
  /\ pc[w] = "nextItem"
  /\ lock = None
  /\ ~cancelRequested
  /\ standardRestoreItems # <<>>
  /\ LET next == Last(standardRestoreItems) IN
       /\ standardRestoreItems' = Front(standardRestoreItems)
       /\ item' = [item EXCEPT ![w] = next]
       /\ claimed' = claimed \cup {next}
       /\ Goto(w, IF next.action = "tree" THEN "nextItems" ELSE next.action)
       /\ lock' = IF next.action = "tree" THEN w ELSE None
  /\ UNCHANGED <<main, workerThreadSemaphore, existingPath, lost, files, delegate>>

\* -restore: has nothing to do for a tree, so the worker is back at nextItem.
AddNextItems(w) ==
  /\ pc[w] = "nextItems"
  /\ standardRestoreItems' = standardRestoreItems \o NextItems(item[w].path)
  /\ lock' = None
  /\ Goto(w, "nextItem")
  /\ UNCHANGED <<main, workerThreadSemaphore, item, existingPath, claimed, lost,
                 files, delegate>>

\* MUTANT: a tree that did not load is pushed again, to be tried later.
RetryNextItems(w) ==
  /\ pc[w] = "nextItems"
  /\ \E p \in InSeq(item[w].path) : p \in Dir
  /\ standardRestoreItems' = Append(standardRestoreItems, item[w])
  /\ lock' = None
  /\ Goto(w, "nextItem")
  /\ UNCHANGED <<main, workerThreadSemaphore, item, existingPath, claimed, lost,
                 files, delegate>>

\* MUTANT: an early return leaves the lock held when a tree does not load.
LoseNextItemsAndLock(w) ==
  /\ pc[w] = "nextItems"
  /\ \E p \in InSeq(item[w].path) : p \in Dir
  /\ lost' = lost \cup {item[w].path}
  /\ Goto(w, "nextItem")
  /\ UNCHANGED <<main, workerThreadSemaphore, item, existingPath, lock,
                 standardRestoreItems, claimed, files, delegate>>

\* A child's tree did not load: logged, and nothing below the item is pushed.
LoseNextItems(w) ==
  /\ pc[w] = "nextItems"
  /\ \E p \in InSeq(item[w].path) : p \in Dir
  /\ lost' = lost \cup {item[w].path}
  /\ lock' = None
  /\ Goto(w, "nextItem")
  /\ UNCHANGED <<main, workerThreadSemaphore, item, existingPath,
                 standardRestoreItems, claimed, files, delegate>>

FindNothing(w) ==
  /\ pc[w] = "nextItem"
  /\ lock = None
  /\ cancelRequested \/ standardRestoreItems = <<>>
  /\ Goto(w, "finishing")
  /\ UNCHANGED <<main, workerThreadSemaphore, item, existingPath, work, files, delegate>>

WorkerDidFinish(w) ==
  /\ pc[w] = "finishing"
  /\ workerThreadSemaphore' = workerThreadSemaphore + 1
  /\ Goto(w, "exited")
  /\ UNCHANGED <<main, item, existingPath, work, files, delegate>>

-----------------------------------------------------------------------------
(***************************************************************************)
(* StandardRestoreItem.restore for a node.  Only worker w works on the     *)
(* path, so lstat and what follows it are one step.                        *)
(***************************************************************************)

\* The directory of f changes when an entry is made or removed in it: its
\* modification time is no longer the one applyTree has set.
TouchParentOf(f) ==
  attrs' = [attrs EXCEPT ![ParentOf(f)] = IF @ = "restored" THEN "stale" ELSE @]

KeepNewer(w) ==
  /\ pc[w] = "node"
  /\ disk[item[w].path] = "newer"
  /\ Goto(w, "report")
  /\ UNCHANGED <<main, workerThreadSemaphore, item, existingPath, work, files, delegate>>

\* Same times and size: only addToFileBytesRestored, under the lock, where the
\* delegate may cancel.
KeepSame(w) ==
  /\ pc[w] = "node"
  /\ disk[item[w].path] = "same"
  /\ lock = None
  /\ \E asked \in {FALSE, CanCancel} :
       /\ cancelRequested' = (cancelRequested \/ asked)
       /\ Goto(w, IF asked THEN "report" ELSE "nextItem")
  /\ UNCHANGED <<main, workerThreadSemaphore, item, existingPath, work, files, reported>>

\* MUTANT: the path is registered when the look-up finds none, before its data
\* is written.
ReserveHardlinkedPath(w) ==
  /\ pc[w] = "node"
  /\ disk[item[w].path] \in {"absent", "older"}
  /\ lock = None
  /\ LET f == item[w].path
         found == hardlinkPathsByInode[StIno[f]] IN
       /\ existingPath' = [existingPath EXCEPT ![w] = found]
       /\ hardlinkPathsByInode' =
            IF found = None THEN [hardlinkPathsByInode EXCEPT ![StIno[f]] = f]
                            ELSE hardlinkPathsByInode
       /\ Goto(w, IF found # None THEN "link" ELSE "create")
  /\ UNCHANGED <<main, workerThreadSemaphore, item, work, dirs, attrs, disk, holds,
                 delegate>>

HardlinkedPathForInode(w) ==
  /\ pc[w] = "node"
  /\ disk[item[w].path] \in {"absent", "older"}
  /\ lock = None
  /\ LET found == hardlinkPathsByInode[StIno[item[w].path]] IN
       /\ existingPath' = [existingPath EXCEPT ![w] = found]
       /\ Goto(w, IF found # None THEN "link" ELSE "create")
  /\ UNCHANGED <<main, workerThreadSemaphore, item, work, files, delegate>>

\* link(2): the new path must be free, the old one must be a file.
Link(w) ==
  LET f == item[w].path
      from == existingPath[w] IN
  /\ pc[w] = "link"
  /\ from \in File
  /\ disk[from] # "absent" /\ disk[f] = "absent"
  /\ ParentOf(f) \in dirs
  /\ disk' = [disk EXCEPT ![f] = disk[from]]
  /\ holds' = [holds EXCEPT ![f] = holds[from]]
  /\ TouchParentOf(f)
  /\ Goto(w, "nextItem")
  /\ UNCHANGED <<main, workerThreadSemaphore, item, existingPath, work, dirs,
                 hardlinkPathsByInode, delegate>>

\* A regular file is opened with O_CREAT|O_TRUNC.
OpenFile(w) ==
  LET f == item[w].path IN
  /\ pc[w] = "create"
  /\ Kind[f] = "regular"
  /\ ParentOf(f) \in dirs
  /\ disk' = [disk EXCEPT ![f] = "partial"]
  /\ IF disk[f] = "absent" THEN TouchParentOf(f) ELSE UNCHANGED attrs
  /\ Goto(w, "write")
  /\ UNCHANGED <<main, workerThreadSemaphore, item, existingPath, work, dirs, holds,
                 hardlinkPathsByInode, delegate>>

WriteFile(w) ==
  LET f == item[w].path IN
  /\ pc[w] = "write"
  /\ disk' = [disk EXCEPT ![f] = "whole"]
  /\ holds' = [holds EXCEPT ![f] = f]
  /\ Goto(w, "attributes")
  /\ UNCHANGED <<main, workerThreadSemaphore, item, existingPath, work, dirs, attrs,
                 hardlinkPathsByInode, delegate>>

\* symlink(2), and open(2) with O_EXCL for a zero-byte file.
CreateWhole(w) ==
  LET f == item[w].path IN
  /\ pc[w] = "create"
  /\ Kind[f] \in {"symlink", "empty"}
  /\ disk[f] = "absent"
  /\ ParentOf(f) \in dirs
  /\ disk' = [disk EXCEPT ![f] = "whole"]
  /\ holds' = [holds EXCEPT ![f] = f]
  /\ TouchParentOf(f)
  /\ Goto(w, "attributes")
  /\ UNCHANGED <<main, workerThreadSemaphore, item, existingPath, work, dirs,
                 hardlinkPathsByInode, delegate>>

\* "skipping restore of non-regular-file"
SkipSpecial(w) ==
  /\ pc[w] = "create"
  /\ Kind[item[w].path] = "special"
  /\ Goto(w, "register")
  /\ UNCHANGED <<main, workerThreadSemaphore, item, existingPath, work, files, delegate>>

\* link, symlink or open failed, or the data of a symlink was not found.
FailToCreate(w) ==
  /\ \/ pc[w] = "link"
     \/ pc[w] = "create" /\ Kind[item[w].path] \in {"symlink", "empty"}
  /\ Goto(w, "report")
  /\ UNCHANGED <<main, workerThreadSemaphore, item, existingPath, work, files, delegate>>

\* A blob of a regular file is not found, does not uncompress or cannot be
\* written, or the delegate cancels at addToFileBytesRestored: whatever is at
\* the path is removed as an incomplete file (a failing removal is only
\* logged).
FailToWrite(w) ==
  LET f == item[w].path IN
  /\ pc[w] \in {"create", "write"}
  /\ Kind[f] = "regular"
  /\ \/ UNCHANGED <<disk, attrs>>
     \/ /\ disk[f] # "absent"
        /\ disk' = [disk EXCEPT ![f] = "absent"]
        /\ TouchParentOf(f)
  /\ Goto(w, "report")
  /\ UNCHANGED <<main, workerThreadSemaphore, item, existingPath, work, dirs, holds,
                 hardlinkPathsByInode, delegate>>

ApplyNode(w) ==
  /\ pc[w] = "attributes"
  /\ \E step \in {"register", "report"} : Goto(w, step)
  /\ UNCHANGED <<main, workerThreadSemaphore, item, existingPath, work, files, delegate>>

\* MUTANT: the test of theInode against 0 is gone.
SetHardlinkedPathAlways(w) ==
  LET f == item[w].path IN
  /\ pc[w] = "register"
  /\ lock = None
  /\ hardlinkPathsByInode' = [hardlinkPathsByInode EXCEPT ![StIno[f]] = f]
  /\ Goto(w, "nextItem")
  /\ UNCHANGED <<main, workerThreadSemaphore, item, existingPath, work, dirs, attrs,
                 disk, holds, delegate>>

SetHardlinkedPath(w) ==
  LET f == item[w].path IN
  /\ pc[w] = "register"
  /\ lock = None
  /\ hardlinkPathsByInode' =
       IF StIno[f] # 0 THEN [hardlinkPathsByInode EXCEPT ![StIno[f]] = f]
                       ELSE hardlinkPathsByInode
  /\ Goto(w, "nextItem")
  /\ UNCHANGED <<main, workerThreadSemaphore, item, existingPath, work, dirs, attrs,
                 disk, holds, delegate>>

\* applyTree: owner, attributes, mode and times of a directory.  A record
\* without an inode, or a bad name, ends it early with YES.
ApplyTree(w) ==
  LET d == item[w].path IN
  /\ pc[w] = "apply"
  /\ \/ /\ d \in dirs
        /\ \E done \in {"restored", "skipped"} :
             /\ StIno[d] = 0 => done = "skipped"
             /\ attrs' = [attrs EXCEPT ![d] = done]
        /\ Goto(w, "nextItem")
     \/ /\ UNCHANGED attrs
        /\ Goto(w, "report")
  /\ UNCHANGED <<main, workerThreadSemaphore, item, existingPath, work, dirs, disk,
                 holds, hardlinkPathsByInode, delegate>>

\* MUTANT: the worker drops the error of an item.
DropError(w) ==
  /\ pc[w] = "report"
  /\ Goto(w, "nextItem")
  /\ UNCHANGED <<main, workerThreadSemaphore, item, existingPath, work, files, delegate>>

\* StandardRestoreWorker.run: the answer of the delegate is not used.
ReportError(w) ==
  /\ pc[w] = "report"
  /\ reported' = reported \cup {item[w].path}
  /\ Goto(w, "nextItem")
  /\ UNCHANGED <<main, workerThreadSemaphore, item, existingPath, work, files,
                 cancelRequested>>

\* The repository reports its activity (repoActivity) while it is set up or
\* reads a tree, a file's data or its attributes, and the delegate answers YES.
RequestCancel ==
  /\ CanCancel
  /\ \/ main \in {"setUp", "directories"}
     \/ \E w \in Worker : pc[w] \in {"nextItems", "create", "write", "attributes", "apply"}
  /\ cancelRequested' = TRUE
  /\ UNCHANGED <<main, workerThreadSemaphore, pc, item, existingPath, work, files, reported>>

-----------------------------------------------------------------------------
RestoreNode(w) ==
  \/ KeepNewer(w) \/ KeepSame(w) \/ HardlinkedPathForInode(w) \/ Link(w)
  \/ OpenFile(w) \/ WriteFile(w) \/ CreateWhole(w) \/ SkipSpecial(w)
  \/ FailToCreate(w) \/ FailToWrite(w) \/ ApplyNode(w) \/ SetHardlinkedPath(w)

\* StandardRestoreWorker.run
Run(w) ==
  \/ ClaimItem(w) \/ AddNextItems(w) \/ LoseNextItems(w)
  \/ FindNothing(w) \/ WorkerDidFinish(w)
  \/ RestoreNode(w) \/ ApplyTree(w) \/ ReportError(w)

MainThread == SetUp \/ StartWorkers \/ DidFail \/ DidSucceed

Next ==
  \/ MainThread
  \/ \E w \in Worker : Run(w)
  \/ RequestCancel

Spec == Init /\ [][Next]_vars

\* Every thread that can run is run eventually, and no call blocks for ever.
FairSpec == Spec /\ WF_vars(MainThread) /\ \A w \in Worker : WF_vars(Run(w))

-----------------------------------------------------------------------------
(***************************************************************************)
(* Properties.                                                             *)
(***************************************************************************)
Busy(w) == pc[w] \notin {"unborn", "nextItem", "finishing", "exited"}

\* No piece of work is restored twice: an item on the stack is there once and
\* has not been claimed, and no two workers are at work on the same item
\* (nextItem pops under the lock; a tree that failed is not pushed again).
UniqueWork ==
  /\ IsInjective(standardRestoreItems)
  /\ Range(standardRestoreItems) \cap claimed = {}
  /\ \A v, w \in Worker : v # w /\ Busy(v) /\ Busy(w) => item[v] # item[w]

\* A worker ends for lack of work only when no other worker can bring work any
\* more: the items below a popped item are pushed before the lock is released.
NoStrandedWork ==
  (\E w \in Worker : pc[w] \in {"finishing", "exited"}) /\ ~cancelRequested
    => /\ standardRestoreItems = <<>>
       /\ \A w \in Worker : pc[w] # "nextItems"

\* What makes UniqueWork and NoStrandedWork inductive: the lock is held exactly
\* while a tree is expanded, and an item is known only once the tree that holds
\* it has been expanded.
LockGuardsExpansion == \A w \in Worker : pc[w] = "nextItems" <=> lock = w

ItemFits ==
  \A w \in Worker :
    Busy(w) => /\ item[w] \in claimed
               /\ pc[w] = "nextItems" => item[w].action = "tree"

Expanding == {item[w] : w \in {v \in Worker : pc[v] = "nextItems"}}

Known == Range(standardRestoreItems) \cup claimed

Uncovered ==
  /\ \A i \in Known \ {FirstItem} :
       \E d \in Dir : /\ TreeItem(d) \in claimed \ Expanding
                     /\ i \in Range(NextItems(d))
  /\ Target \in File => Known \subseteq {FirstItem}

Unstarted ==
  IF main \in {"waiting", "succeeded"}
    THEN \A w \in Worker : pc[w] # "unborn"
    ELSE Known = {} /\ \A w \in Worker : pc[w] = "unborn"

WorkInv ==
  /\ TypeOK /\ UniqueWork /\ NoStrandedWork
  /\ LockGuardsExpansion /\ ItemFits /\ Uncovered /\ Unstarted

\* What became of an item: for a tree its items were taken up, or it is lost;
\* for a path it is on disk, or an error was reported.
Settled(i) ==
  CASE i.action = "tree" -> \/ i.path \in lost
                            \/ Range(NextItems(i.path)) \subseteq claimed
    [] i.action = "node" -> \/ i.path \in reported
                            \/ Kind[i.path] = "special"
                            \/ disk[i.path] \in {"whole", "same"}
    [] i.action = "apply" -> \/ i.path \in reported
                             \/ attrs[i.path] # "unset"

\* standardRestorerDidSucceed is sent when every item has been claimed and
\* restored, or its error reported, and no worker is still writing.
SuccessIsSettled ==
  main = "succeeded" /\ ~cancelRequested
    => /\ FirstItem \in claimed
       /\ \A i \in claimed : Settled(i)
       /\ \A w \in Worker : pc[w] = "exited"

\* A path is made a hard link only of a path that was the same file when it was
\* backed up (hardlinkPathsByInode; records from Windows have no inode).
LinksAreOneFile ==
  \A f \in File : disk[f] = "whole" => FileId[holds[f]] = FileId[f]

\* The path offered for hard links holds complete data, so that no reader of
\* the map links to a file that is still being written or was removed.
RegisteredIsComplete ==
  \A n \in Inos :
    LET f == hardlinkPathsByInode[n] IN
    f \in File /\ Kind[f] # "special" => disk[f] = "whole"

\* After DidSucceed or DidFail the restorer neither touches the disk nor
\* calls the delegate with an error: no worker outlives -run.
QuietAfterOutcome ==
  [][(main \in {"succeeded", "failed"}) => UNCHANGED <<files, reported>>]_vars

\* The restore ends: no worker waits for a lock that nobody releases or for
\* work that nobody brings, and -run sees every worker end.
Termination == <>(main \in {"succeeded", "failed"})

\* The workers implement the abstract pool.  A tree stays in the pool while a
\* worker holds the lock to read what is below it.
Pool == INSTANCE WorkPool WITH
  First <- FirstItem,
  Below <- [i \in Item |->
              IF i.action = "tree" THEN Range(NextItems(i.path)) ELSE {}],
  pool <- IF pc = [w \in Worker |-> "unborn"]
            THEN {FirstItem} ELSE Range(standardRestoreItems) \cup Expanding,
  taken <- claimed \ Expanding,
  stopped <- cancelRequested \/ main = "failed",
  closed <- main \in {"succeeded", "failed"}

ImplementsPool == Pool!Spec

-----------------------------------------------------------------------------
(***************************************************************************)
(* What the documentation says and the code does not do.                   *)
(***************************************************************************)

\* README: "File contents, permissions, timestamps, and extended attributes
\* are all restored."  After a restore that succeeded, every file is on disk
\* or its error was reported.
EveryFileRestored ==
  main = "succeeded" /\ ~cancelRequested
    => \A f \in File : \/ f \in reported
                       \/ disk[f] \in {"whole", "same"}

\* README, timestamps: after a restore in which nothing went wrong, every
\* directory has the modification time of the backup.
DirectoryTimesRestored ==
  main = "succeeded" /\ ~cancelRequested /\ reported = {} /\ lost = {}
    => \A d \in dirs : attrs[d] # "stale"
=============================================================================
