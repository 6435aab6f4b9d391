-------------------------- MODULE S3GlacierRestorer --------------------------
(***************************************************************************)
(* The restore of a folder whose objects are in an S3 Glacier storage      *)
(* class: S3GlacierRestorer (the loop), GlacierRequestItem (what is        *)
(* requested) and RestoreItem (what is restored).  An object has to be     *)
(* requested and can be downloaded some hours later.  One thread requests  *)
(* objects in rounds of limited size and, between the rounds, restores     *)
(* items in order, waiting whenever the next item's object is still cold.  *)
(***************************************************************************)
EXTENDS GlacierItems

CONSTANTS
  Object,      \* the S3 objects: packs of blobs and single blobs; a blob is
               \* one unit of bytes
  ObjectOf,    \* ObjectOf[b]: the object that holds blob b
  Kind,        \* Kind[f]: "regular", "empty", "symlink", "fifo" or "socket"
  Ino,         \* Ino[p]: the st_ino of the record
  Linked,      \* the paths whose record has an st_nlink above 1
  PerRound,    \* bytesToRequestPerRound
  Minimum,     \* what (unsigned long long)theMinimum comes to
  CanCancel,   \* may the delegate answer YES, "cancel is requested"
  LeavesPartial, \* may a file be left partly written: a later blob's state
                 \* is not known, or an incomplete file cannot be removed
  Expires      \* may RESTORE_DAYS pass during the restore

ASSUME ObjectAssumption ==
  /\ ObjectOf \in [Blob -> Object]
  /\ Kind \in [File -> {"regular", "empty", "symlink", "fifo", "socket"}]
  /\ \A f \in File : Kind[f] \in {"regular", "symlink"} <=> Data[f] # <<>>
  /\ DOMAIN Ino = Path
  /\ PerRound \in Nat \ {0} /\ Minimum \in Nat
  /\ {CanCancel, LeavesPartial, Expires} \subseteq BOOLEAN

VARIABLES
  pc,                   \* where the thread in -run: is
  glacierRequestItems,  \* what is left to request
  restoreItems,         \* what is left to restore
  bytesActuallyRequestedThisRound,
  bytesTransferred,
  roundIsDue,           \* dateToResumeRequesting has passed
  hardlinks,            \* the path to link to, by inode
  opened,               \* files whose item has a fileOutputStream
  store,                \* state of each object in S3
  dirs, made, content,  \* directories and files on disk, and their data
  attrs,                \* the attributes on disk of each path
  reported              \* the paths of s3GlacierRestorerErrorMessage calls

requests == <<glacierRequestItems, bytesActuallyRequestedThisRound, roundIsDue>>
disk == <<hardlinks, opened, dirs, made, content, attrs>>
vars == <<pc, restoreItems, bytesTransferred, store, reported,
          requests, disk>>

-----------------------------------------------------------------------------
TypeOK ==
  /\ pc \in {"setUp", "round", "requesting", "restoring", "waiting", "succeeded", "failed"}
  /\ glacierRequestItems \in Seq([path : Path, index : Nat])
  /\ restoreItems \in Seq(RestoreItem)
  /\ bytesActuallyRequestedThisRound \in 0..(PerRound + 1)
  /\ bytesTransferred \in Nat
  /\ roundIsDue \in BOOLEAN
  /\ hardlinks \in [{Ino[p] : p \in Path} -> Path \cup {None}]
  /\ opened \subseteq File /\ made \subseteq File /\ dirs \subseteq Dir
  /\ store \in [Object -> {"cold", "thawing", "thawed"}]
  /\ content \in [File -> Seq(Blob)]
  /\ attrs \in [Path -> {"unset", "restored", "stale"}]
  /\ reported \subseteq Path

\* An earlier restore may have thawed some of the objects.  The destination
\* does not exist: the command refuses one that does.
Init ==
  /\ pc = "setUp"
  /\ glacierRequestItems = <<>> /\ restoreItems = <<>>
  /\ bytesActuallyRequestedThisRound = 0 /\ bytesTransferred = 0
  /\ roundIsDue = TRUE
  /\ hardlinks = [n \in {Ino[p] : p \in Path} |-> None]
  /\ store \in [Object -> {"cold", "thawed"}]
  /\ opened = {} /\ made = {} /\ dirs = {}
  /\ content = [f \in File |-> <<>>]
  /\ attrs = [p \in Path |-> "unset"]
  /\ reported = {}

-----------------------------------------------------------------------------
(***************************************************************************)
(* S3, as the code uses it.                                                *)
(***************************************************************************)
Thaw(o) ==
  /\ store[o] = "thawing"
  /\ store' = [store EXCEPT ![o] = "thawed"]
  /\ UNCHANGED <<pc, restoreItems, bytesTransferred, reported, requests, disk>>

Expire(o) ==
  /\ Expires
  /\ store[o] = "thawed"
  /\ store' = [store EXCEPT ![o] = "cold"]
  /\ UNCHANGED <<pc, restoreItems, bytesTransferred, reported, requests, disk>>

Available(blobs) == \A b \in blobs : store[ObjectOf[b]] = "thawed"

-----------------------------------------------------------------------------
(***************************************************************************)
(* The loop of -run:.                                                      *)
(***************************************************************************)

\* The repository, commit and root tree are loaded, and the sizes calculated.
SetUp ==
  /\ pc = "setUp"
  /\ glacierRequestItems' = <<FirstRequestItem>>
  /\ restoreItems' = <<FirstItem>>
  /\ pc' = "round"
  /\ UNCHANGED <<bytesTransferred, store, reported,
                 bytesActuallyRequestedThisRound, roundIsDue, disk>>

\* MUTANT: the counter is not reset, so the second round never starts.
BeginRoundWithoutReset ==
  /\ pc = "round"
  /\ restoreItems # <<>>
  /\ glacierRequestItems # <<>>
  /\ UNCHANGED <<bytesActuallyRequestedThisRound, roundIsDue>>
  /\ pc' = IF /\ bytesActuallyRequestedThisRound < PerRound
              /\ bytesTransferred >= Minimum
              /\ roundIsDue
             THEN "requesting" ELSE "restoring"
  /\ UNCHANGED <<glacierRequestItems, restoreItems, bytesTransferred, store, reported,
                 disk>>

\* A full round is over: the next may begin an interval after it did.  It
\* begins if enough was transferred.  theMinimum, meant to be 0 at first, is
\* computed after (roundsCompleted = 0), an assignment: it is always the
\* product of PerRound and the double of NSUInteger -1, beyond what an
\* unsigned long long holds.
BeginRound ==
  /\ pc = "round"
  /\ restoreItems # <<>>
  /\ glacierRequestItems # <<>>
  /\ IF bytesActuallyRequestedThisRound >= PerRound
       THEN /\ bytesActuallyRequestedThisRound' = 0
            /\ roundIsDue' \in BOOLEAN
       ELSE UNCHANGED <<bytesActuallyRequestedThisRound, roundIsDue>>
  /\ pc' = IF /\ bytesActuallyRequestedThisRound' < PerRound
              /\ bytesTransferred >= Minimum
              /\ roundIsDue'
             THEN "requesting" ELSE "restoring"
  /\ UNCHANGED <<glacierRequestItems, restoreItems, bytesTransferred, store, reported,
                 disk>>

SkipRound ==
  /\ pc = "round"
  /\ restoreItems # <<>>
  /\ glacierRequestItems = <<>>
  /\ pc' = "restoring"
  /\ UNCHANGED <<restoreItems, bytesTransferred, store, reported, requests, disk>>

RoundComesDue ==
  /\ ~roundIsDue
  /\ roundIsDue' = TRUE
  /\ UNCHANGED <<pc, restoreItems, bytesTransferred, store, reported,
                 glacierRequestItems, bytesActuallyRequestedThisRound, disk>>

\* requestBlobKey: an object that is being restored, or was, costs nothing.
Request(objects) ==
  LET cold == {o \in objects : store[o] = "cold"} IN
  /\ store' = [o \in Object |-> IF o \in cold THEN "thawing" ELSE store[o]]
  /\ bytesActuallyRequestedThisRound' = bytesActuallyRequestedThisRound + Cardinality(cold)

\* MUTANT: requestMoreGlacierItems: does not look at what was requested.
RequestRegardless ==
  /\ pc = "requesting"
  /\ glacierRequestItems # <<>>
  /\ Request({ObjectOf[b] : b \in BlobsToRequest(Head(glacierRequestItems))})
  /\ glacierRequestItems' =
       NextRequestItems(Head(glacierRequestItems)) \o Tail(glacierRequestItems)
  /\ UNCHANGED <<pc, restoreItems, bytesTransferred, reported,
                 roundIsDue, disk>>

RequestMoreGlacierItems ==
  /\ pc = "requesting"
  /\ bytesActuallyRequestedThisRound < PerRound
  /\ glacierRequestItems # <<>>
  /\ Request({ObjectOf[b] : b \in BlobsToRequest(Head(glacierRequestItems))})
  /\ glacierRequestItems' =
       NextRequestItems(Head(glacierRequestItems)) \o Tail(glacierRequestItems)
  /\ UNCHANGED <<pc, restoreItems, bytesTransferred, reported,
                 roundIsDue, disk>>

RoundRequested ==
  /\ pc = "requesting"
  /\ bytesActuallyRequestedThisRound >= PerRound \/ glacierRequestItems = <<>>
  /\ pc' = "restoring"
  /\ UNCHANGED <<restoreItems, bytesTransferred, store, reported, requests, disk>>

\* A tree that does not load, an object whose size or state is not known: the
\* whole restore fails, here and when nextItems loads the trees of a folder.
DidFail ==
  /\ \/ /\ pc = "setUp"
        /\ UNCHANGED <<store, bytesActuallyRequestedThisRound>>
     \/ /\ pc = "requesting"
        /\ bytesActuallyRequestedThisRound < PerRound
        /\ glacierRequestItems # <<>>
        /\ \E some \in SUBSET {ObjectOf[b] : b \in BlobsToRequest(Head(glacierRequestItems))} :
             Request(some)
  /\ pc' = "failed"
  /\ UNCHANGED <<restoreItems, bytesTransferred, reported,
                 glacierRequestItems, roundIsDue, disk>>

DidSucceed ==
  /\ pc = "round"
  /\ restoreItems = <<>>
  /\ pc' = "succeeded"
  /\ UNCHANGED <<restoreItems, bytesTransferred, store, reported, requests, disk>>

\* The delegate answers YES to a message or to a change of a count.  A file
\* whose blob was being counted is removed.
Abort ==
  /\ CanCancel
  /\ pc \in {"setUp", "requesting", "restoring", "waiting"}
  /\ pc' = "failed"
  /\ \/ UNCHANGED made
     \/ /\ pc = "restoring"
        /\ Head(restoreItems).action \in {"node", "data"}
        /\ made' = made \ {Head(restoreItems).path}
  /\ UNCHANGED <<restoreItems, bytesTransferred, store, reported, requests,
                 hardlinks, opened, dirs, content, attrs>>

Wakeup ==
  /\ pc = "waiting"
  /\ pc' = "round"
  /\ UNCHANGED <<restoreItems, bytesTransferred, store, reported, requests, disk>>

-----------------------------------------------------------------------------
(***************************************************************************)
(* RestoreItem.  Reading or writing anything may fail.                     *)
(***************************************************************************)
Current == Head(restoreItems)
At(action) == pc = "restoring" /\ Current.action = action

\* MUTANT: insertObjects becomes addObjectsFromArray.
FinishLater(next) ==
  /\ pc' = "round"
  /\ restoreItems' = Tail(restoreItems) \o next

\* The item is done, and what it leaves to do comes before everything else.
Finish(next) ==
  /\ pc' = "round"
  /\ restoreItems' = next \o Tail(restoreItems)

Report(p) == reported' = reported \cup {p}

\* What else ends with the item: a node is offered for hard links, or its
\* error is reported.
Conclude(p, ok) ==
  IF ok
    THEN /\ hardlinks' = [hardlinks EXCEPT ![Ino[p]] = p]
         /\ UNCHANGED reported
    ELSE /\ Report(p)
         /\ UNCHANGED hardlinks

\* An entry made or removed in a directory changes the directory's times.
Touched(p) ==
  IF p = Root THEN attrs
  ELSE [attrs EXCEPT ![ParentOf(p)] = IF @ = "restored" THEN "stale" ELSE @]

HasLink(p) == p \in Linked /\ hardlinks[Ino[p]] # None

\* The blobs whose objects an item asks S3 about before it does anything.
Needed(i) ==
  LET p == i.path IN
  CASE i.action = "apply" -> AttrBlobs(p)
    [] i.action = "data" -> {Data[p][i.index + 1]}
    [] i.action = "node" /\ ~HasLink(p) /\ Kind[p] = "regular" -> AttrBlobs(p) \cup {Data[p][1]}
    [] i.action = "node" /\ ~HasLink(p) /\ Kind[p] \in {"empty", "symlink"} -> AttrBlobs(p)
    [] OTHER -> {}

\* restoreTree, then nextItems whether or not it succeeded.  link() refuses a
\* directory.
RestoreTree ==
  LET d == Current.path IN
  /\ At("tree")
  /\ \/ /\ ~HasLink(d)
        /\ dirs' = dirs \cup {d} \cup Above[d]
        /\ attrs' = Touched(d)
        /\ hardlinks' = [hardlinks EXCEPT ![Ino[d]] = d]
        /\ \/ UNCHANGED reported
           \/ Report(d)
     \/ /\ Report(d)
        /\ UNCHANGED <<dirs, attrs, hardlinks>>
  /\ \/ Finish(NextItems(d))
     \/ /\ \E p \in InSeq(d) : p \in Dir
        /\ pc' = "failed"
        /\ UNCHANGED restoreItems
  /\ UNCHANGED <<bytesTransferred, store, requests, opened, made, content>>

LinkNode ==
  LET f == Current.path
      existing == hardlinks[Ino[f]] IN
  /\ At("node")
  /\ HasLink(f)
  /\ \/ /\ existing \in made /\ ParentOf(f) \in dirs
        /\ made' = made \cup {f}
        /\ content' = [content EXCEPT ![f] = content[existing]]
        /\ attrs' = [Touched(f) EXCEPT ![f] = attrs[existing]]
        /\ UNCHANGED reported
     \/ /\ Report(f)
        /\ UNCHANGED <<made, content, attrs>>
  /\ Finish(<<>>)
  /\ UNCHANGED <<bytesTransferred, store, requests, hardlinks, opened, dirs>>

SkipSocket ==
  LET f == Current.path IN
  /\ At("node")
  /\ ~HasLink(f)
  /\ Kind[f] = "socket"
  /\ Conclude(f, TRUE)
  /\ Finish(<<>>)
  /\ UNCHANGED <<bytesTransferred, store, requests, opened, dirs, made,
                 content, attrs>>

\* applyNode: extended attributes or an ACL that cannot be fetched or applied
\* are only logged, a cancellation while they are fetched included.
ApplyNode(f, transferred) ==
  \E fetched \in SUBSET AttrBlobs(f) :
    /\ Available(fetched)
    /\ bytesTransferred' = bytesTransferred + transferred + Cardinality(fetched)
    /\ \/ /\ fetched = AttrBlobs(f)
          /\ attrs' = [Touched(f) EXCEPT ![f] = "restored"]
       \/ /\ AttrBlobs(f) # {}
          /\ attrs' = Touched(f)

\* A pipe, an empty file or a symlink, whose blobs are fetched without asking
\* whether they are downloadable.
CreateWhole ==
  LET f == Current.path IN
  /\ At("node")
  /\ ~HasLink(f)
  /\ \/ Kind[f] = "fifo" /\ ParentOf(f) \in dirs
     \/ Kind[f] \in {"empty", "symlink"} /\ Available(AttrBlobs(f))
  /\ Available(InData(f))
  /\ dirs' = dirs \cup Above[f]
  /\ made' = made \cup {f}
  /\ content' = [content EXCEPT ![f] = Data[f]]
  /\ ApplyNode(f, Len(Data[f]))
  /\ \E ok \in BOOLEAN : Conclude(f, ok)
  /\ Finish(<<>>)
  /\ UNCHANGED <<store, requests, opened>>

\* Of the blobs of f that come next, the first ones may have been fetched, and
\* counted, before something failed.
FetchedUpTo(f, index, most) ==
  \E n \in 0..most :
    /\ Available({Data[f][index + k] : k \in 1..n})
    /\ bytesTransferred' = bytesTransferred + n

\* Nothing was made.  A symlink's blobs are fetched up to the one that fails.
\* An item that has waited for its first blob and fails before it comes to the
\* data goes on to restore the data.
FailNode ==
  LET f == Current.path IN
  /\ At("node")
  /\ ~HasLink(f)
  /\ Kind[f] # "socket"
  /\ Report(f)
  /\ \/ /\ FetchedUpTo(f, 0, IF Kind[f] = "regular" THEN 1 ELSE Len(Data[f]))
        /\ Finish(<<>>)
     \/ /\ f \in opened
        /\ UNCHANGED bytesTransferred
        /\ Finish(<<DataItem(f, 0)>>)
  /\ UNCHANGED <<store, requests, disk>>

\* The first blob was written in part, and what was written is not removed.
LeaveNode ==
  LET f == Current.path IN
  /\ LeavesPartial
  /\ At("node")
  /\ ~HasLink(f)
  /\ Kind[f] = "regular"
  /\ Available(Needed(Current))
  /\ Report(f)
  /\ bytesTransferred' = bytesTransferred + 1
  /\ dirs' = dirs \cup Above[f]
  /\ made' = made \cup {f}
  /\ attrs' = Touched(f)
  /\ Finish(<<>>)
  /\ UNCHANGED <<store, requests, hardlinks, opened, content>>

\* MUTANT: the next item forgets how many blobs were written.
IndexForgotten == 0

Index == IF Current.action = "node" THEN 0 ELSE Current.index

AtData ==
  \/ At("data")
  \/ At("node") /\ Kind[Current.path] = "regular" /\ ~HasLink(Current.path)

\* One blob of a regular file: the first with the node, the others on their
\* own, attributes with the last.
RestoreData ==
  LET f == Current.path
      last == Index + 1 = Len(Data[f]) IN
  /\ AtData
  /\ Current.action = "node" => Available(AttrBlobs(f))
  /\ Available({Data[f][Index + 1]})
  /\ Index = 0 => Current.action = "node" \/ ParentOf(f) \in dirs
  /\ dirs' = dirs \cup Above[f]
  /\ opened' = opened \cup {f}
  /\ made' = made \cup {f}
  /\ content' = [content EXCEPT ![f] = Append(@, Data[f][Index + 1])]
  /\ IF last THEN ApplyNode(f, 1)
             ELSE /\ attrs' = Touched(f)
                  /\ bytesTransferred' = bytesTransferred + 1
  /\ \E ok \in {TRUE, ~last} :
       IF Current.action = "node" THEN Conclude(f, ok)
       ELSE /\ UNCHANGED hardlinks
            /\ IF ok THEN UNCHANGED reported ELSE Report(f)
  /\ Finish(IF last THEN <<>> ELSE <<DataItem(f, Index + 1)>>)
  /\ UNCHANGED <<store, requests>>

\* The file is given up: removed, unless it could not be or its blob's state
\* was not known.
FailData ==
  LET f == Current.path IN
  /\ At("data")
  /\ FetchedUpTo(f, Current.index, 1)
  /\ \/ /\ made' = made \ {f}
        /\ content' = [content EXCEPT ![f] = <<>>]
        /\ attrs' = Touched(f)
     \/ LeavesPartial /\ UNCHANGED <<made, content, attrs>>
  /\ Report(f)
  /\ Finish(<<>>)
  /\ UNCHANGED <<store, requests, hardlinks, opened, dirs>>

ApplyTree ==
  LET d == Current.path IN
  /\ At("apply")
  /\ Available(AttrBlobs(d))
  /\ d \in dirs
  /\ attrs' = [attrs EXCEPT ![d] = "restored"]
  /\ bytesTransferred' = bytesTransferred + Cardinality(AttrBlobs(d))
  /\ Finish(<<>>)
  /\ UNCHANGED <<store, reported, requests, hardlinks, opened, dirs, made, content>>

FailTree ==
  LET d == Current.path IN
  /\ At("apply")
  /\ \E fetched \in SUBSET AttrBlobs(d) :
       /\ Available(fetched)
       /\ bytesTransferred' = bytesTransferred + Cardinality(fetched)
  /\ Report(d)
  /\ Finish(<<>>)
  /\ UNCHANGED <<store, requests, disk>>

\* MUTANT: the attributes are fetched before the first blob is looked at.
WaitHavingFetched ==
  /\ pc = "restoring"
  /\ ~Available(Needed(Current))
  /\ pc' = "waiting"
  /\ bytesTransferred' =
       bytesTransferred + Cardinality({b \in AttrBlobs(Current.path) : Available({b})})
  /\ UNCHANGED <<restoreItems, store, reported, requests, disk>>

\* ERROR_GLACIER_OBJECT_NOT_AVAILABLE: the item stays, and the thread sleeps.
WaitForObject ==
  LET f == Current.path IN
  /\ pc = "restoring"
  /\ ~Available(Needed(Current))
  /\ pc' = "waiting"
  /\ IF At("node") /\ Kind[f] = "regular" /\ Available(AttrBlobs(f))
       THEN opened' = opened \cup {f} /\ dirs' = dirs \cup Above[f]
       ELSE UNCHANGED <<opened, dirs>>
  /\ UNCHANGED <<restoreItems, bytesTransferred, store, reported, requests,
                 hardlinks, made, content, attrs>>

-----------------------------------------------------------------------------
RestoreAnItem ==
  \/ RestoreTree \/ LinkNode \/ SkipSocket \/ CreateWhole \/ FailNode
  \/ LeaveNode \/ RestoreData \/ FailData \/ ApplyTree \/ FailTree \/ WaitForObject

Run ==
  \/ SetUp \/ BeginRound \/ SkipRound \/ RequestMoreGlacierItems \/ RoundRequested
  \/ DidFail \/ DidSucceed \/ Abort \/ Wakeup
  \/ RestoreAnItem

Next ==
  \/ Run
  \/ RoundComesDue
  \/ \E o \in Object : Thaw(o) \/ Expire(o)

Spec == Init /\ [][Next]_vars

\* The thread runs, time passes, and S3 restores what it was asked for.
FairSpec ==
  /\ Spec
  /\ WF_vars(Run)
  /\ WF_vars(RoundComesDue)
  /\ \A o \in Object : WF_vars(Thaw(o))

-----------------------------------------------------------------------------
(***************************************************************************)
(* Properties.                                                             *)
(***************************************************************************)
\* What is on disk for a file is a beginning of its data, in order, whatever
\* the order in which objects thaw, and however often the item waited.
ContentInOrder == \A f \in made : IsPrefix(content[f], Data[f])

\* When the restore succeeds, every path was restored or its error reported: a
\* file has all its data, also through its other names, and a directory has the
\* attributes and times of the backup.
SuccessIsSettled ==
  pc = "succeeded" =>
    \A p \in Restored :
      \/ p \in reported
      \/ p \in Dir /\ attrs[p] = "restored"
      \/ p \in File /\ Kind[p] = "socket"
      \/ p \in made /\ content[p] = Data[p]

\* The restore never waits for an object that nobody will ask S3 for.
WaitsForRequested ==
  pc = "waiting" /\ glacierRequestItems = <<>> =>
    \A b \in Needed(Current) : store[ObjectOf[b]] # "cold"

\* One file at a time: only the first item continues a file, so a name that is
\* offered for hard links is never still growing when the next item is taken.
OneFileOpen == \A i \in 2..Len(restoreItems) : restoreItems[i].action # "data"

\* What a restore transfers, unit by unit: of each path the blob of its
\* attributes, as 0, and the blobs of a file by their place in its data.
UnitsOf(p) ==
  (IF Attr[p] = None THEN {} ELSE {0}) \cup (IF p \in File THEN DOMAIN Data[p] ELSE {})
Unit == UNION {{p} \X UnitsOf(p) : p \in Restored}

\* What items have still to transfer.
Leaves(i, u) ==
  /\ u[1] \in Covers(i)
  /\ i.action = "data" /\ u[2] # 0 => u[2] > i.index
LeftIn(s) == {u \in Unit : \E k \in 1..Len(s) : Leaves(s[k], u)}

\* No unit is transferred twice, however often its item waits, fails or is taken
\* up again: at every moment the blobs that were fetched and counted are at most
\* those that no item has still to transfer.
TransferredOnce == bytesTransferred <= Cardinality(Unit \ LeftIn(restoreItems))

\* The restore ends, whatever fails: each object that an item waits for is
\* requested in some round and thaws.
Termination == <>(pc \in {"succeeded", "failed"})

=============================================================================
