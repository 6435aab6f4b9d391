------------------------------ MODULE RemoteFS ------------------------------
(***************************************************************************)
(* A target and the listings that the processes of one machine cache of    *)
(* it: RemoteFS over an ItemFS, TargetItemsDB and FlockFile.  A call takes *)
(* the lock file, answers from the cached listing or lists the target and  *)
(* caches what it finds, and enters what it changes at the target in the   *)
(* cached listing.  createFileAtomicallyWithData takes the lock four times *)
(* and writes the file between two of them.  The database and the lock are *)
(* files, which clearAllCachedData removes under the other processes.      *)
(*                                                                         *)
(* moveItemAtPath, which nothing calls, and the folder identifiers, which  *)
(* no ItemFS of this program uses, are left out; what an item says besides *)
(* its name too.                                                           *)
(***************************************************************************)
EXTENDS Tree, Integers, Sequences, FiniteSets

CONSTANTS
  Process,
  Dir, File,   \* the directories and the files that may be at the target
  Top,         \* the directory /
  Parent,      \* Parent[p]: the directory with p
  Locality,    \* the kinds of ItemFS: TRUE for LocalItemFS, FALSE for S3Service
  Stored,      \* the files at the target at first
  Calls,       \* Calls[p]: the operations that process p is used for, and on what
  Alike,       \* Alike[d]: the directories whose names match that of d when it
               \* is read as a pattern of LIKE
  None,
  MaxTrouble   \* bound: crashes, requests that fail, calls of clearAllCachedData

Path == (Dir \ {Top}) \cup File
Operation == {"item", "list", "fresh", "create", "remove", "clear", "clearAll"}

ASSUME TreeAssumption ==
  /\ Top \in Dir /\ Dir \cap File = {}
  /\ Parent \in [Path -> Dir] /\ IsTree(Parent, Top)
  /\ IsFiniteSet(Process)
  /\ Stored \subseteq File
  /\ None \notin Dir \cup File \cup Process
  /\ Locality \subseteq BOOLEAN
  /\ Calls \in [Process -> SUBSET (Operation \X (Path \cup Dir))]
  /\ Alike \in [Dir -> SUBSET Dir]
  /\ MaxTrouble \in Nat

VARIABLES
  local,      \* is the target a LocalItemFS; it never changes
  target,     \* the files, and in a LocalItemFS the directories, at the target
  loaded,     \* the directories whose listing is in the database
  items,      \* the paths in the database
  db,         \* of each process: "none", "open", or "moved" when the file of
              \* its database was removed
  kept,       \* of each process with a moved database: what it holds
  lockFile,   \* which lock file is on disk
  opened,     \* the lock file that each process has or waits for
  call,       \* what each process is doing
  doubt,      \* paths whose entry may be wrong, see Properties
  lockLost,   \* was the lock file removed while a process had it open
  trouble

disk == <<local, target>>
cache == <<loaded, items>>
handles == <<db, kept>>
locks == <<lockFile, opened, lockLost>>
vars == <<disk, cache, handles, locks, call, doubt, trouble>>

-----------------------------------------------------------------------------
Above == [p \in Path \cup {Top} |-> Ancestors(Parent, p)]
Below(d) == {p \in Path : d \in Above[p]}
ChildrenOf(d) == {p \in Path : Parent[p] = d}
WithParents(p) == {p} \cup (Above[p] \ {Top})

\* There are no directories in S3: one exists while a file is below it.
ExistsIn(t, p) == p \in t \/ Below(p) \cap t # {}
Exists(p) == ExistsIn(target, p)
Listing(d) == {p \in ChildrenOf(d) : Exists(p)}

NoListing == [dir |-> None, items |-> {}]
Idle == [op |-> None, path |-> None, at |-> "idle", next |-> None, seen |-> NoListing,
         stack |-> <<>>, left |-> {}, gone |-> {}]
Nothing == [loaded |-> {}, items |-> {}]

\* The labels at which a process has the lock, and at which it looks for an item.
Inside == {"parent", "mkdir", "mkdirEntry", "self", "list", "fresh", "caching", "add",
           "unlink", "forget", "clearing", "sweep", "visit", "deleting", "rmdir",
           "rmdirEntry", "clear", "destroy"}
Looking == {"parent", "self", "list", "sweep", "rmdir"}

\* What the process finds in its database, and finds out when it lists.
Moved(p) == db[p] = "moved"
LoadedFor(p) == IF Moved(p) THEN kept[p].loaded ELSE loaded
ItemsFor(p) == IF Moved(p) THEN kept[p].items ELSE items
Known(p, d) == d \in LoadedFor(p) \/ call[p].seen.dir = d
ItemsIn(p, d) ==
  IF d \in LoadedFor(p) THEN ItemsFor(p) \cap ChildrenOf(d) ELSE call[p].seen.items
Found(p, q) == q = Top \/ q \in ItemsIn(p, Parent[q])

\* The item that a process looks for, and the directory that has to be listed.
Sought(p) ==
  CASE call[p].at = "parent" -> Parent[call[p].path]
    [] call[p].at = "rmdir" -> Parent[Head(call[p].stack)]
    [] OTHER -> call[p].path
Needed(p) ==
  CASE call[p].at \in {"list", "fresh"} -> call[p].path
    [] call[p].at = "sweep" -> Head(call[p].stack)
    [] Sought(p) = Top -> Top
    [] OTHER -> Parent[Sought(p)]
Looked(p) == (call[p].at # "list" /\ Sought(p) = Top) \/ Known(p, Needed(p))

\* Paths that a call has begun to change and not finished.
Changing(p) ==
  LET c == call[p]
      at == IF c.at \in {"asking", "waiting", "caching"} THEN c.next ELSE c.at IN
  CASE at \in {"rename", "add"} -> {c.path}
    [] at = "mkdirEntry" -> {Parent[c.path]}
    [] at \in {"unlink", "forget", "clearing", "sweep", "visit", "deleting", "rmdir", "rmdirEntry"} ->
         {c.path} \cup Below(c.path)
    [] OTHER -> {}
OthersChange(p) == UNION {Changing(q) : q \in Process \ {p}}

-----------------------------------------------------------------------------
TypeOK ==
  /\ local \in BOOLEAN
  /\ target \subseteq Path /\ (~local => target \subseteq File)
  /\ loaded \subseteq Dir /\ items \subseteq Path /\ doubt \subseteq Path
  /\ db \in [Process -> {"none", "open", "moved"}]
  /\ kept \in [Process -> [loaded : SUBSET Dir, items : SUBSET Path]]
  /\ lockFile \in 0..MaxTrouble
  /\ opened \in [Process -> 0..MaxTrouble]
  /\ lockLost \in BOOLEAN
  /\ trouble \in 0..MaxTrouble
  /\ \A p \in Process :
       /\ call[p].op \in Operation \cup {None}
       /\ call[p].path \in Path \cup Dir \cup {None}
       /\ call[p].at \in Inside \cup {"idle", "asking", "waiting", "write", "rename", "rmcache"}
       /\ call[p].seen.items \subseteq Path
       /\ call[p].stack \in Seq(Dir \ {Top})
       /\ call[p].left \subseteq Path /\ call[p].gone \subseteq File

Init ==
  /\ local \in Locality
  /\ target = IF local THEN UNION {WithParents(f) : f \in Stored} ELSE Stored
  /\ loaded = {} /\ items = {}
  /\ db = [p \in Process |-> "none"]
  /\ kept = [p \in Process |-> Nothing]
  /\ lockFile = 0 /\ opened = [p \in Process |-> 0] /\ lockLost = FALSE
  /\ call = [p \in Process |-> Idle]
  /\ doubt = {}
  /\ trouble = 0

-----------------------------------------------------------------------------
(***************************************************************************)
(* Calls and the lock.                                                     *)
(***************************************************************************)
Goto(p, label) == call' = [call EXCEPT ![p].at = label, ![p].seen = NoListing]
Ask(p, label) ==
  call' = [call EXCEPT ![p].at = "asking", ![p].next = label, ![p].seen = NoListing]
Return(p) == call' = [call EXCEPT ![p] = Idle]

\* The database is opened, or made, when it is first used.
Open(p) ==
  /\ db' = [db EXCEPT ![p] = IF @ = "none" THEN "open" ELSE @]
  /\ UNCHANGED kept

\* Bound: no call begins where nothing is promised any more.
Begin(p, op, path, label) ==
  /\ call[p] = Idle /\ <<op, path>> \in Calls[p]
  /\ ~Moved(p) /\ ~lockLost
  /\ call' = [call EXCEPT ![p] = [Idle EXCEPT !.op = op, !.path = path, !.at = "asking", !.next = label]]
  /\ UNCHANGED <<disk, cache, handles, locks, doubt>>

Call(p) ==
  \/ /\ \/ \E q \in Path : Begin(p, "item", q, "self") \/ Begin(p, "remove", q, "self")
        \/ \E d \in Dir : \/ Begin(p, "list", d, "list") \/ Begin(p, "fresh", d, "fresh")
                          \/ Begin(p, "clear", d, "clear")
        \/ \E f \in File : Begin(p, "create", f, "parent")
     /\ UNCHANGED trouble
  \/ /\ trouble < MaxTrouble
     /\ Begin(p, "clearAll", Top, "destroy")
     /\ trouble' = trouble + 1

Held(l) == \E p \in Process : call[p].at \in Inside /\ opened[p] = l

\* MUTANT: the lock is shared.
EnterShared(p) ==
  /\ call[p].at \in {"asking", "waiting"}
  /\ Goto(p, call[p].next)
  /\ opened' = [opened EXCEPT ![p] = lockFile]
  /\ UNCHANGED <<disk, cache, handles, lockFile, lockLost, doubt, trouble>>

\* A process that waits has opened a lock file that was removed since.
Enter(p) ==
  LET l == IF call[p].at = "asking" THEN lockFile ELSE opened[p] IN
  /\ call[p].at \in {"asking", "waiting"}
  /\ ~Held(l)
  /\ Goto(p, call[p].next)
  /\ opened' = [opened EXCEPT ![p] = l]
  /\ UNCHANGED <<disk, cache, handles, lockFile, lockLost, doubt, trouble>>

-----------------------------------------------------------------------------
(***************************************************************************)
(* Looking for items, with the lock.                                       *)
(***************************************************************************)
ListTarget(p) ==
  /\ \/ call[p].at \in Looking /\ ~Looked(p)
     \/ call[p].at = "fresh"
  /\ call' = [call EXCEPT ![p].at = "caching", ![p].next = call[p].at,
                          ![p].seen = [dir |-> Needed(p), items |-> Listing(Needed(p))]]
  /\ Open(p)
  /\ UNCHANGED <<disk, cache, locks, doubt, trouble>>

\* What cannot be cached is only logged.
StoreListing(p) ==
  LET d == call[p].seen.dir
      found == call[p].seen.items IN
  /\ call[p].at = "caching"
  /\ \/ /\ ~Moved(p)
        /\ loaded' = loaded \cup {d}
        /\ items' = (items \ ChildrenOf(d)) \cup found
        /\ doubt' = {q \in doubt : \/ Parent[q] # d \/ q \in OthersChange(p)
                              \/ (q \in found) # Exists(q)}
        /\ UNCHANGED trouble
     \/ /\ Moved(p)
        /\ UNCHANGED <<cache, doubt, trouble>>
     \/ /\ trouble < MaxTrouble
        /\ trouble' = trouble + 1
        /\ UNCHANGED <<cache, doubt>>
  /\ IF call[p].op \in {"list", "fresh"}
       THEN Return(p)
       ELSE call' = [call EXCEPT ![p].at = call[p].next]
  /\ UNCHANGED <<disk, handles, locks>>

\* itemAtPath and itemsByNameInDirectory know.
Answer(p) ==
  /\ \/ call[p].op = "item" /\ call[p].at = "self"
     \/ call[p].at = "list"
  /\ Looked(p)
  /\ Return(p)
  /\ Open(p)
  /\ UNCHANGED <<disk, cache, locks, doubt, trouble>>

-----------------------------------------------------------------------------
(***************************************************************************)
(* createFileAtomicallyWithData                                            *)
(***************************************************************************)
\* An entry is added only to a listing that is loaded; a database that has
\* moved cannot be written.
EntryFails(p, q) == Moved(p) /\ Parent[q] \in LoadedFor(p)
AddEntry(p, q) ==
  items' = IF ~Moved(p) /\ Parent[q] \in loaded THEN items \cup {q} ELSE items
RemoveEntry(p, q) ==
  items' = IF ~Moved(p) /\ Parent[q] \in loaded THEN items \ {q} ELSE items

LookedForParent(p) ==
  /\ call[p].at = "parent"
  /\ Looked(p)
  /\ Ask(p, IF Found(p, Sought(p)) THEN "self" ELSE "mkdir")
  /\ Open(p)
  /\ UNCHANGED <<disk, cache, locks, doubt, trouble>>

\* The directories that come to exist and are entered nowhere, or not in the
\* listing that someone has just read.
NewUnlisted(new) ==
  {d \in Dir \ {Top} :
     /\ ExistsIn(new, d) /\ ~Exists(d)
     /\ \/ Parent[d] \notin loaded \/ d \notin items
        \/ \E p \in Process : call[p].at = "caching" /\ call[p].seen.dir = Parent[d]}

\* MUTANT: a directory is made in S3.
MakeMarker(p) ==
  /\ call[p].at = "mkdir"
  /\ target' = target \cup WithParents(Parent[call[p].path])
  /\ Goto(p, "mkdirEntry")
  /\ UNCHANGED <<local, cache, handles, locks, doubt, trouble>>

MakeDirectory(p) ==
  LET d == Parent[call[p].path] IN
  /\ call[p].at = "mkdir"
  /\ target' = IF local THEN target \cup WithParents(d) ELSE target
  /\ doubt' = doubt \cup (NewUnlisted(target') \ (IF Moved(p) THEN {} ELSE {d}))
  /\ Goto(p, "mkdirEntry")
  /\ UNCHANGED <<local, cache, handles, locks, trouble>>

EnterDirectory(p) ==
  LET d == Parent[call[p].path] IN
  /\ call[p].at = "mkdirEntry"
  /\ AddEntry(p, d)
  /\ IF EntryFails(p, d) THEN Return(p) ELSE Ask(p, "self")
  /\ doubt' = IF Moved(p) THEN doubt \cup {d} ELSE doubt
  /\ Open(p)
  /\ UNCHANGED <<disk, loaded, locks, trouble>>

\* Only an item with an identifier is of use to the ItemFS.
LookedForFile(p) ==
  /\ call[p].op = "create" /\ call[p].at = "self"
  /\ Looked(p)
  /\ Goto(p, "write")
  /\ Open(p)
  /\ UNCHANGED <<disk, cache, locks, doubt, trouble>>

\* Without the lock.  A file that is in the way is removed first.
Write(p) ==
  LET f == call[p].path
      new == target \cup (IF local THEN WithParents(f) ELSE {f}) IN
  /\ call[p].at = "write"
  /\ IF local /\ f \in target
       THEN /\ target' = target \ {f}
            /\ Goto(p, "rename")
            /\ UNCHANGED doubt
       ELSE /\ target' = new
            /\ Ask(p, "add")
            /\ doubt' = doubt \cup NewUnlisted(new)
  /\ UNCHANGED <<local, cache, handles, locks, trouble>>

\* That another file has come is no error; that the directory has gone is.
Rename(p) ==
  LET f == call[p].path IN
  /\ call[p].at = "rename"
  /\ IF Parent[f] \in target \cup {Top}
       THEN target' = target \cup {f} /\ Ask(p, "add") /\ UNCHANGED doubt
       ELSE Return(p) /\ doubt' = doubt \cup {f} /\ UNCHANGED target
  /\ UNCHANGED <<local, cache, handles, locks, trouble>>

EnterFile(p) ==
  LET f == call[p].path IN
  /\ call[p].at = "add"
  /\ AddEntry(p, f)
  /\ Return(p)
  /\ doubt' = IF Moved(p) THEN doubt \cup {f} ELSE doubt
  /\ Open(p)
  /\ UNCHANGED <<disk, loaded, locks, trouble>>

-----------------------------------------------------------------------------
(***************************************************************************)
(* removeItemAtPath                                                        *)
(***************************************************************************)
Removing(p) == call[p].op = "remove"

NothingToRemove(p) ==
  /\ Removing(p) /\ call[p].at = "self"
  /\ Looked(p) /\ ~Found(p, call[p].path)
  /\ Return(p)
  /\ Open(p)
  /\ UNCHANGED <<disk, cache, locks, doubt, trouble>>

LookedForItem(p) ==
  LET q == call[p].path IN
  /\ Removing(p) /\ call[p].at = "self"
  /\ Looked(p) /\ Found(p, q)
  /\ call' = [call EXCEPT ![p].seen = NoListing,
                          ![p].stack = IF q \in Dir THEN <<q>> ELSE <<>>,
                          ![p].at = CASE q \in File -> "unlink"
                                      [] q \in Dir /\ local -> "clearing"
                                      [] q \in Dir /\ ~local -> "sweep"]
  /\ Open(p)
  /\ UNCHANGED <<disk, cache, locks, doubt, trouble>>

\* MUTANT: the entry goes although the file may not.
UnlinkNothing(p) ==
  /\ call[p].at = "unlink"
  /\ Goto(p, "forget")
  /\ UNCHANGED <<disk, cache, handles, locks, doubt, trouble>>

\* S3 answers that it removed what it does not have; a local file must be there.
UnlinkFile(p) ==
  LET f == call[p].path IN
  /\ call[p].at = "unlink"
  /\ IF local /\ f \notin target THEN Return(p) ELSE Goto(p, "forget")
  /\ target' = target \ {f}
  /\ doubt' = doubt \cup ({f} \cap OthersChange(p))
  /\ UNCHANGED <<local, cache, handles, locks, trouble>>

ForgetFile(p) ==
  LET f == call[p].path IN
  /\ call[p].at = "forget"
  /\ RemoveEntry(p, f)
  /\ Return(p)
  /\ doubt' = IF Moved(p) THEN doubt \cup {f} ELSE doubt
  /\ UNCHANGED <<disk, loaded, handles, locks, trouble>>

\* The directory and what is below it, by a pattern that takes more: of a
\* directory that is alike, what was listed goes and that it was listed stays.
Clear(d) ==
  LET cleared == Below(d) \cup UNION {Below(e) : e \in Alike[d]} IN
  /\ loaded' = loaded \ ({d} \cup cleared)
  /\ items' = items \ cleared
  /\ doubt' = doubt \cup {q \in items \ items' : Parent[q] \in loaded'}

ClearBelow(p) ==
  /\ call[p].at = "clearing"
  /\ IF Moved(p)
       THEN Return(p) /\ UNCHANGED <<cache, doubt>>
       ELSE Goto(p, "rmdir") /\ Clear(call[p].path)
  /\ UNCHANGED <<disk, handles, locks, trouble>>

\* The directory itself, when its own directory is found.
RemoveDirectory(p) ==
  LET d == Head(call[p].stack)
      found == Found(p, Parent[d]) IN
  /\ call[p].at = "rmdir"
  /\ Looked(p)
  /\ IF found /\ local /\ d \notin target THEN Return(p) ELSE Goto(p, "rmdirEntry")
  /\ IF found /\ local
       THEN /\ target' = target \ ({d} \cup Below(d))
            /\ doubt' = doubt \cup (({d} \cup Below(d)) \cap OthersChange(p))
       ELSE UNCHANGED <<target, doubt>>
  /\ UNCHANGED <<local, cache, handles, locks, trouble>>

\* Then the directory that it is in goes on with its next child.
ForgetDirectory(p) ==
  LET d == Head(call[p].stack)
      rest == Tail(call[p].stack) IN
  /\ call[p].at = "rmdirEntry"
  /\ RemoveEntry(p, d)
  /\ IF rest = <<>> \/ EntryFails(p, d)
       THEN Return(p)
       ELSE call' = [call EXCEPT ![p].at = "visit", ![p].stack = rest]
  /\ doubt' = doubt \cup (IF Moved(p) \/ Exists(d) THEN {d} ELSE {})
                   \cup (IF EntryFails(p, d) THEN call[p].gone ELSE {})
  /\ UNCHANGED <<disk, loaded, handles, locks, trouble>>

\* The children of a directory of S3, as they are listed when it is begun.
Sweep(p) ==
  LET d == Head(call[p].stack) IN
  /\ call[p].at = "sweep"
  /\ Known(p, d)
  /\ call' = [call EXCEPT ![p].at = "visit", ![p].seen = NoListing,
                          ![p].left = @ \cup ItemsIn(p, d)]
  /\ UNCHANGED <<disk, cache, handles, locks, doubt, trouble>>

\* One child after the other, in any order: a directory is removed with all that
\* is in it; a file leaves the listing, which has to be loaded, and not yet the
\* target.
Visit(p) ==
  LET d == Head(call[p].stack)
      mine == call[p].left \cap ChildrenOf(d) IN
  /\ call[p].at = "visit"
  /\ \/ /\ mine = {}
        /\ Goto(p, "deleting")
        /\ UNCHANGED <<items, doubt>>
     \/ \E e \in mine \cap Dir :
          /\ call' = [call EXCEPT ![p].at = "sweep", ![p].stack = <<e>> \o @, ![p].left = @ \ {e}]
          /\ UNCHANGED <<items, doubt>>
     \/ \E f \in mine \cap File :
          IF Moved(p) \/ d \notin loaded
            THEN /\ Return(p)
                 /\ doubt' = doubt \cup call[p].gone
                 /\ UNCHANGED items
            ELSE /\ call' = [call EXCEPT ![p].left = @ \ {f}, ![p].gone = @ \cup {f}]
                 /\ items' = items \ {f}
                 /\ UNCHANGED doubt
  /\ UNCHANGED <<disk, loaded, handles, locks, trouble>>

\* That a file could not be deleted is only logged.
DeleteFiles(p) ==
  LET found == call[p].gone \cap ChildrenOf(Head(call[p].stack)) IN
  /\ call[p].at = "deleting"
  /\ \E failed \in SUBSET found :
       /\ failed # {} => trouble < MaxTrouble
       /\ trouble' = IF failed # {} THEN trouble + 1 ELSE trouble
       /\ target' = target \ (found \ failed)
       /\ doubt' = doubt \cup failed \cup (found \cap OthersChange(p))
  /\ call' = [call EXCEPT ![p].at = "rmdir", ![p].gone = @ \ found]
  /\ UNCHANGED <<local, cache, handles, locks>>

-----------------------------------------------------------------------------
(***************************************************************************)
(* clearCacheForPath and clearAllCachedData                                *)
(***************************************************************************)
ClearPath(p) ==
  /\ call[p].at = "clear"
  /\ IF Moved(p) THEN UNCHANGED <<cache, doubt>> ELSE Clear(call[p].path)
  /\ Return(p)
  /\ Open(p)
  /\ UNCHANGED <<disk, locks, trouble>>

\* The file of the database is removed: a process that has it open keeps what
\* it had.
RemoveDatabase(p) ==
  /\ db' = [q \in Process |-> IF q = p THEN "none" ELSE IF db[q] = "open" THEN "moved" ELSE db[q]]
  /\ kept' = [q \in Process |->
                IF q = p THEN Nothing
                ELSE IF db[q] = "open" THEN [loaded |-> loaded, items |-> items] ELSE kept[q]]
  /\ loaded' = {} /\ items' = {}

Destroy(p) ==
  /\ call[p].at = "destroy"
  /\ RemoveDatabase(p)
  /\ Goto(p, "rmcache")
  /\ UNCHANGED <<disk, locks, doubt, trouble>>

\* The directory with the database and the lock file, without the lock.  Who
\* asks for the lock may have opened its file already.
RemoveCacheDirectory(p) ==
  \E late \in SUBSET {q \in Process : call[q].at = "asking"} :
    /\ call[p].at = "rmcache"
    /\ RemoveDatabase(p)
    /\ lockFile' = lockFile + 1
    /\ call' = [q \in Process |-> IF q = p THEN Idle
                                  ELSE IF q \in late THEN [call[q] EXCEPT !.at = "waiting"]
                                  ELSE call[q]]
    /\ opened' = [q \in Process |-> IF q \in late THEN lockFile ELSE opened[q]]
    /\ lockLost' = (lockLost \/ late # {} \/ \E q \in Process : call[q].at \in Inside)
    /\ UNCHANGED <<disk, doubt, trouble>>

-----------------------------------------------------------------------------
(***************************************************************************)
(* Faults.                                                                 *)
(***************************************************************************)
\* What a request that fails may leave at the target: all that was there; a
\* request to S3 may have had its effect; in a LocalItemFS the directories above
\* may have been made, a file moved to its place and not given to its owner, and
\* a directory removed in part.
LeftAtTarget(p) ==
  LET q == call[p].path
      at == call[p].at
      made(e) == {target \cup WithParents(x) : x \in WithParents(e)} IN
  {target} \cup
    CASE at = "mkdir" /\ local -> made(Parent[q])
      [] at = "write" /\ local /\ q \notin target -> made(q)
      [] at = "write" /\ ~local -> {target \cup {q}}
      [] at = "rename" /\ Parent[q] \in target \cup {Top} -> {target \cup {q}}
      [] at = "unlink" /\ ~local -> {target \ {q}}
      [] at = "rmdir" /\ local /\ Looked(p) ->
           {target \ part : part \in {s \in SUBSET Below(Head(call[p].stack)) :
                                      \A e \in s : Below(e) \subseteq s}}
      [] OTHER -> {}

FailRequest(p) ==
  LET q == call[p].path
      at == call[p].at IN
  /\ trouble < MaxTrouble
  /\ \/ at \in {"fresh", "mkdir", "write", "rename", "unlink"}
     \/ at = "rmdir" /\ local
     \/ at \in Looking /\ ~Looked(p)
  /\ \E new \in LeftAtTarget(p) :
       /\ target' = new
       /\ doubt' = doubt \cup call[p].gone \cup NewUnlisted(new)
                    \cup ((target \ new) \cap OthersChange(p))
                    \cup (IF at = "rename" \/ (q \in new) # (q \in target) THEN {q} ELSE {})
  /\ Return(p)
  /\ trouble' = trouble + 1
  /\ UNCHANGED <<local, cache, handles, locks>>

\* The lock of a process that ends is released.
Crash(p) ==
  /\ call[p] # Idle
  /\ trouble < MaxTrouble
  /\ trouble' = trouble + 1
  /\ Return(p)
  /\ doubt' = doubt \cup Changing(p)
  /\ db' = [db EXCEPT ![p] = "none"]
  /\ kept' = [kept EXCEPT ![p] = Nothing]
  /\ UNCHANGED <<disk, cache, locks>>

-----------------------------------------------------------------------------
Look(p) == ListTarget(p) \/ StoreListing(p) \/ Answer(p)
Create(p) ==
  LookedForParent(p) \/ MakeDirectory(p) \/ EnterDirectory(p) \/ LookedForFile(p)
    \/ Write(p) \/ Rename(p) \/ EnterFile(p)
Remove(p) ==
  NothingToRemove(p) \/ LookedForItem(p) \/ UnlinkFile(p) \/ ForgetFile(p) \/ ClearBelow(p)
    \/ RemoveDirectory(p) \/ ForgetDirectory(p) \/ Sweep(p) \/ Visit(p) \/ DeleteFiles(p)
ClearCache(p) == ClearPath(p) \/ Destroy(p) \/ RemoveCacheDirectory(p)
Step(p) == Enter(p) \/ Look(p) \/ Create(p) \/ Remove(p) \/ ClearCache(p)

Next == \E p \in Process : Call(p) \/ Step(p) \/ FailRequest(p) \/ Crash(p)

Spec == Init /\ [][Next]_vars

-----------------------------------------------------------------------------
(***************************************************************************)
(* Properties.  The cached listing of a directory tells what the target    *)
(* has, except where the code lets it lie; doubt collects those paths:     *)
(* a file that was removed by one process between the moment another wrote *)
(* it and the moment it entered it; a directory that came to exist without *)
(* being entered, above the one that was made; one whose entry was removed *)
(* while it was still, or again, there; a file that left its listing for a *)
(* removal of its directory that then failed; what is in a directory whose *)
(* path is taken for another by a pattern of LIKE; what a process was      *)
(* changing when it crashed, its request was not confirmed, or its         *)
(* database had moved.                                                     *)
(***************************************************************************)
Safe(q) == q \notin doubt /\ q \notin UNION {Changing(p) : p \in Process}

\* A loaded listing has what is at the target, and no more, although files are
\* written without the lock, listings read before and cached after they are
\* written, and directories removed one file at a time.  A directory of S3
\* may be listed before it has a file.
ListingsAreTrue ==
  ~lockLost =>
    \A d \in loaded : \A q \in ChildrenOf(d) :
      Safe(q) => /\ Exists(q) => q \in items
                 /\ q \in items => Exists(q) \/ (q \in Dir /\ ~local)

\* Who is told that a path was removed, or that it was not there to be
\* removed, can rely on it.
RemovalSucceeds(p) ==
  NothingToRemove(p) \/ (ForgetFile(p) /\ ~EntryFails(p, call[p].path))
RemovalIsReal ==
  [][\A p \in Process :
       RemovalSucceeds(p) =>
         LET q == call[p].path IN
         \/ ~Exists(q) \/ lockLost \/ Moved(p)
         \/ q \in doubt \cup OthersChange(p)]_vars
=============================================================================
