--------------------------- MODULE GlacierRestorer ---------------------------
(***************************************************************************)
(* The restore of a folder in a Glacier vault: GlacierRestorer.  A blob is *)
(* an archive of its own or lies in a pack, which is an archive.  A job is *)
(* started for each archive; when it completes, Glacier notifies a topic,  *)
(* the topic puts a message into a queue, and the restorer, which polls    *)
(* the queue, notes the job in a status file.  Topic and queue are made    *)
(* for one restore and removed at its end.  One thread does everything.    *)
(* RestoreItem is as in S3GlacierRestorer, here without its hard links,    *)
(* attributes and special files.                                           *)
(***************************************************************************)
EXTENDS GlacierItems

CONSTANTS
  Archive,     \* the archives of the vault
  Pack,        \* those of them that are packs of blobs
  ArchiveOf,   \* ArchiveOf[b]: the archive with blob b; None, if b is said to
               \* be packed and no pack index has it
  Symlink,     \* the files that are symbolic links
  PerRound,    \* bytesToRequestPerRound; a blob or a pack is one unit
  AboveMinimum,\* is bytesTransferred ever at least theMinimum
  CanCancel,   \* may the delegate answer YES, "cancel is requested"
  Expires,     \* may the output of a job be gone before it is downloaded
  MaxRead,     \* MAX_QUEUE_MESSAGES_TO_READ
  MaxTrouble   \* bound: messages that come back

ASSUME ArchiveAssumption ==
  /\ Pack \subseteq Archive
  /\ None \notin Archive
  /\ IsFiniteSet(Archive) /\ IsFiniteSet(Blob)
  /\ ArchiveOf \in [Blob -> Archive \cup {None}]
  /\ Symlink \subseteq File
  /\ PerRound \in Nat \ {0}
  /\ MaxRead \in Nat \ {0} /\ MaxTrouble \in Nat
  /\ {AboveMinimum, CanCancel, Expires} \subseteq BOOLEAN

VARIABLES
  pc,                       \* where the thread is
  created, removed,         \* the topic and the queue of this restore
  outcome,                  \* what the delegate was told
  glacierRequestItems,      \* what is left to request
  packsToRequest,           \* packs for which no job was started yet
  glacierPacksToDownload,   \* packs that are not on disk yet, in some order
  restoreItems,             \* what is left to restore
  requestedArchiveIds,
  bytesRequestedThisRound,
  roundIsDue,               \* dateToResumeRequesting has passed
  restoredAnItem,
  response,                 \* messages received and not processed yet
  readFailed,               \* readQueue: will return NO
  status,                   \* archives with a status file that names a job
  cachedPacks,              \* packs on disk
  opened, content,          \* files whose item has a stream, and their data
  applied, reported,        \* directories that have their attributes, and
                            \* paths whose error was reported
  started,                  \* the number of jobs started for each archive
  job,                      \* of each archive: "none", "running", "completed"
                            \* or "expired"
  message,                  \* of each archive: "none", "visible", "inflight"
                            \* or "deleted"
  trouble                   \* how many messages came back

vault == <<started, job>>
queue == <<message, trouble>>
reading == <<response, readFailed, status>>
services == <<created, removed, outcome>>
requests == <<glacierRequestItems, packsToRequest, requestedArchiveIds,
              bytesRequestedThisRound, roundIsDue>>
packs == <<glacierPacksToDownload, cachedPacks>>
restores == <<restoreItems, opened, content, applied, reported>>
vars == <<pc, restoredAnItem, vault, queue, reading, services,
          requests, packs, restores>>

-----------------------------------------------------------------------------
\* A blob that the record says is packed names no archive of its own.
Packed(b) == ArchiveOf[b] \in Pack \cup {None}

Service == {"topic", "queue"}

TypeOK ==
  /\ pc \in {"loading", "topic", "queue", "subscribing", "calculating", "findingPacks",
             "requestingPacks", "round", "requesting", "readingQueue", "processing",
             "deletingMessage", "restoring", "sleeping",
             "deletingTopic", "deletingQueue", "done"}
  /\ created \subseteq Service /\ removed \subseteq created
  /\ outcome \in {"none", "succeeded", "failed"}
  /\ glacierRequestItems \in Seq([path : Path, index : Nat])
  /\ packsToRequest \subseteq Pack
  /\ glacierPacksToDownload \in Seq(Pack)
  /\ restoreItems \in Seq(RestoreItem)
  /\ requestedArchiveIds \subseteq Archive
  /\ bytesRequestedThisRound \in Nat
  /\ {roundIsDue, restoredAnItem, readFailed} \subseteq BOOLEAN
  /\ response \in Seq(Archive)
  /\ status \subseteq Archive /\ cachedPacks \subseteq Pack
  /\ opened \subseteq File
  /\ content \in [File -> Seq(Blob)]
  /\ applied \subseteq Dir /\ reported \subseteq Path
  /\ started \in [Archive -> Nat]
  /\ job \in [Archive -> {"none", "running", "completed", "expired"}]
  /\ message \in [Archive -> {"none", "visible", "inflight", "deleted"}]
  /\ trouble \in 0..MaxTrouble

Init ==
  /\ pc = "loading"
  /\ created = {} /\ removed = {} /\ outcome = "none"
  /\ glacierRequestItems = <<FirstRequestItem>>
  /\ restoreItems = <<FirstItem>>
  /\ packsToRequest = {} /\ glacierPacksToDownload = <<>>
  /\ requestedArchiveIds = {}
  /\ bytesRequestedThisRound = 0
  /\ roundIsDue = TRUE /\ restoredAnItem = FALSE
  /\ response = <<>> /\ readFailed = FALSE
  /\ status = {} /\ cachedPacks = {}
  /\ opened = {} /\ content = [f \in File |-> <<>>]
  /\ applied = {} /\ reported = {}
  /\ started = [a \in Archive |-> 0]
  /\ job = [a \in Archive |-> "none"]
  /\ message = [a \in Archive |-> "none"]
  /\ trouble = 0

-----------------------------------------------------------------------------
(***************************************************************************)
(* Glacier, the topic and the queue, as the code uses them, until the      *)
(* restore ends.                                                           *)
(***************************************************************************)
StartJobs(archives) ==
  /\ started' = [a \in Archive |-> IF a \in archives THEN started[a] + 1 ELSE started[a]]
  /\ job' = [a \in Archive |-> IF a \in archives /\ job[a] = "none" THEN "running" ELSE job[a]]

CompleteJob(a) ==
  /\ outcome = "none"
  /\ job[a] = "running"
  /\ job' = [job EXCEPT ![a] = "completed"]
  /\ message' = [message EXCEPT ![a] = "visible"]
  /\ UNCHANGED <<pc, restoredAnItem, started, trouble, reading, services,
                 requests, packs, restores>>

\* The output of a job is kept for a day.
ExpireJob(a) ==
  /\ Expires /\ outcome = "none"
  /\ job[a] = "completed"
  /\ job' = [job EXCEPT ![a] = "expired"]
  /\ UNCHANGED <<pc, restoredAnItem, started, queue, reading, services,
                 requests, packs, restores>>

\* A message that was received and not deleted becomes visible again, and a
\* queue that delivers at least once may deliver one that was deleted.
Reappear(a) ==
  /\ outcome = "none"
  /\ trouble < MaxTrouble
  /\ message[a] \in {"inflight", "deleted"}
  /\ a \notin ToSet(response)
  /\ message' = [message EXCEPT ![a] = "visible"]
  /\ trouble' = trouble + 1
  /\ UNCHANGED <<pc, restoredAnItem, vault, reading, services,
                 requests, packs, restores>>

RoundComesDue ==
  /\ ~roundIsDue /\ outcome = "none"
  /\ roundIsDue' = TRUE
  /\ UNCHANGED <<pc, restoredAnItem, vault, queue, reading, services,
                 glacierRequestItems, packsToRequest, requestedArchiveIds,
                 bytesRequestedThisRound, packs, restores>>

-----------------------------------------------------------------------------
(***************************************************************************)
(* -run, -setUp: and the packs.                                            *)
(***************************************************************************)
Conclude(result) ==
  /\ outcome' = result
  /\ pc' = "deletingTopic"
  /\ UNCHANGED <<created, removed>>

\* The repository, commit and root tree are loaded, the permission and the
\* subscription set, the sizes calculated.
Proceed ==
  /\ \/ pc = "loading" /\ pc' = "topic"
     \/ pc = "subscribing" /\ pc' = "calculating"
     \/ pc = "calculating" /\ pc' = "findingPacks"
  /\ UNCHANGED <<restoredAnItem, vault, queue, reading, services,
                 requests, packs, restores>>

Create(s) ==
  /\ pc = s
  /\ created' = created \cup {s}
  /\ pc' = IF s = "topic" THEN "queue" ELSE "subscribing"
  /\ UNCHANGED <<restoredAnItem, vault, queue, reading, removed, outcome,
                 requests, packs, restores>>

\* MUTANT: the attributes are forgotten.
NeededPacksOfData ==
  {ArchiveOf[b] : b \in UNION {InData(f) : f \in Restored \cap File}} \cap Pack

NeededPacks == {ArchiveOf[b] : b \in UNION {BlobsOf(p) : p \in Restored}} \cap Pack

\* The packs come in the order of a dictionary's values.
FindNeededGlacierPacks ==
  /\ pc = "findingPacks"
  /\ packsToRequest' = NeededPacks
  /\ glacierPacksToDownload' \in SetToSeqs(NeededPacks)
  /\ pc' = "requestingPacks"
  /\ UNCHANGED <<restoredAnItem, vault, queue, reading, services,
                 glacierRequestItems, requestedArchiveIds, bytesRequestedThisRound,
                 roundIsDue, cachedPacks, restores>>

RequestPack(a) ==
  /\ pc = "requestingPacks"
  /\ a \in packsToRequest
  /\ StartJobs({a})
  /\ packsToRequest' = packsToRequest \ {a}
  /\ bytesRequestedThisRound' = bytesRequestedThisRound + 1
  /\ UNCHANGED <<pc, restoredAnItem, queue, reading, services,
                 glacierRequestItems, requestedArchiveIds, roundIsDue, packs, restores>>

PacksRequested ==
  /\ pc = "requestingPacks"
  /\ packsToRequest = {}
  /\ pc' = "round"
  /\ UNCHANGED <<restoredAnItem, vault, queue, reading, services,
                 requests, packs, restores>>

DeleteTopic ==
  /\ pc = "deletingTopic"
  /\ pc' = "deletingQueue"
  /\ \/ removed' = removed \cup (created \cap {"topic"}) /\ UNCHANGED trouble
     \/ "topic" \in created /\ trouble < MaxTrouble /\ trouble' = trouble + 1 /\ UNCHANGED removed
  /\ UNCHANGED <<restoredAnItem, vault, message, reading, created, outcome,
                 requests, packs, restores>>

\* MUTANT: a queue that was never made is deleted.
DeleteQueueUnchecked ==
  /\ pc = "deletingQueue"
  /\ pc' = "done"
  /\ removed' = removed \cup {"queue"}
  /\ UNCHANGED <<restoredAnItem, vault, queue, reading, created, outcome,
                 requests, packs, restores>>

\* MUTANT: the queue is deleted only when the restore succeeded.
DeleteQueueOnSuccess ==
  /\ pc = "deletingQueue"
  /\ pc' = "done"
  /\ removed' = removed \cup (IF outcome = "succeeded" THEN {"queue"} ELSE {})
  /\ UNCHANGED <<restoredAnItem, vault, queue, reading, created, outcome,
                 requests, packs, restores>>

DeleteQueue ==
  /\ pc = "deletingQueue"
  /\ pc' = "done"
  /\ \/ removed' = removed \cup (created \cap {"queue"}) /\ UNCHANGED trouble
     \/ "queue" \in created /\ trouble < MaxTrouble /\ trouble' = trouble + 1 /\ UNCHANGED removed
  /\ UNCHANGED <<restoredAnItem, vault, message, reading, created, outcome,
                 requests, packs, restores>>

-----------------------------------------------------------------------------
(***************************************************************************)
(* The loop of -run:.                                                      *)
(***************************************************************************)
\* The queue is read when there was nothing to restore.
AfterRequests == IF restoredAnItem THEN "restoring" ELSE "readingQueue"

\* theMinimum is out of range, as in S3GlacierRestorer: the conversion makes it
\* 0, which any number of bytes reaches, or beyond what any restore transfers.
BeginRound ==
  /\ pc = "round"
  /\ IF bytesRequestedThisRound >= PerRound
       THEN /\ bytesRequestedThisRound' = 0
            /\ roundIsDue' \in BOOLEAN
       ELSE UNCHANGED <<bytesRequestedThisRound, roundIsDue>>
  /\ pc' = IF /\ bytesRequestedThisRound' < PerRound
              /\ AboveMinimum
              /\ roundIsDue'
             THEN "requesting" ELSE AfterRequests
  /\ UNCHANGED <<restoredAnItem, vault, queue, reading, services,
                 glacierRequestItems, packsToRequest, requestedArchiveIds, packs, restores>>

\* MUTANT: an archive is requested for each of its uses.
RequestAgain(blobs) ==
  LET mine == {b \in blobs : ~Packed(b)} IN
  /\ StartJobs({ArchiveOf[b] : b \in mine})
  /\ requestedArchiveIds' = requestedArchiveIds \cup {ArchiveOf[b] : b \in mine}
  /\ bytesRequestedThisRound' = bytesRequestedThisRound + Cardinality(mine)

\* requestBlobKey: one job for an archive, its bytes counted each time.
Request(blobs) ==
  LET mine == {b \in blobs : ~Packed(b)} IN
  /\ StartJobs({ArchiveOf[b] : b \in mine} \ requestedArchiveIds)
  /\ requestedArchiveIds' = requestedArchiveIds \cup {ArchiveOf[b] : b \in mine}
  /\ bytesRequestedThisRound' = bytesRequestedThisRound + Cardinality(mine)

RequestMoreGlacierItems ==
  /\ pc = "requesting"
  /\ bytesRequestedThisRound < PerRound
  /\ glacierRequestItems # <<>>
  /\ Request(BlobsToRequest(Head(glacierRequestItems)))
  /\ glacierRequestItems' =
       NextRequestItems(Head(glacierRequestItems)) \o Tail(glacierRequestItems)
  /\ UNCHANGED <<pc, restoredAnItem, queue, reading, services,
                 packsToRequest, roundIsDue, packs, restores>>

RoundRequested ==
  /\ pc = "requesting"
  /\ bytesRequestedThisRound >= PerRound \/ glacierRequestItems = <<>>
  /\ pc' = AfterRequests
  /\ UNCHANGED <<restoredAnItem, vault, queue, reading, services,
                 requests, packs, restores>>

Sleep ==
  /\ pc = "sleeping"
  /\ pc' = "round"
  /\ UNCHANGED <<restoredAnItem, vault, queue, reading, services,
                 requests, packs, restores>>

DidSucceed ==
  /\ pc = "restoring"
  /\ glacierPacksToDownload = <<>> /\ restoreItems = <<>>
  /\ Conclude("succeeded")
  /\ UNCHANGED <<restoredAnItem, vault, queue, reading,
                 requests, packs, restores>>

\* What fails the whole restore: anything before the rounds, the request for
\* an item after some of its blobs were requested, the queue, a tree that
\* does not load, and the download of a pack.
DidFail ==
  /\ \/ /\ \/ pc \in {"loading", "topic", "queue", "subscribing", "calculating",
                      "findingPacks", "requestingPacks", "readingQueue"}
           \/ /\ pc = "restoring"
              /\ glacierPacksToDownload # <<>>
              /\ Head(glacierPacksToDownload) \in status
        /\ UNCHANGED <<vault, requests>>
     \/ /\ pc = "requesting"
        /\ bytesRequestedThisRound < PerRound
        /\ glacierRequestItems # <<>>
        /\ \E some \in SUBSET BlobsToRequest(Head(glacierRequestItems)) : Request(some)
        /\ UNCHANGED <<glacierRequestItems, packsToRequest, roundIsDue>>
  /\ Conclude("failed")
  /\ UNCHANGED <<restoredAnItem, queue, reading, packs, restores>>

\* The delegate answers YES to a message or to a change of a count.
Abort ==
  /\ CanCancel
  /\ pc \in {"topic", "calculating", "findingPacks", "requestingPacks", "requesting",
             "processing", "restoring", "sleeping"}
  /\ Conclude("failed")
  /\ UNCHANGED <<restoredAnItem, vault, queue, reading,
                 requests, packs, restores>>

-----------------------------------------------------------------------------
(***************************************************************************)
(* readQueue: messages are received until none comes.                      *)
(***************************************************************************)
ReceiveMessages(archives) ==
  /\ pc = "readingQueue"
  /\ archives # {} /\ Cardinality(archives) <= MaxRead
  /\ \A a \in archives : message[a] = "visible"
  /\ response' \in SetToSeqs(archives)
  /\ message' = [a \in Archive |-> IF a \in archives THEN "inflight" ELSE message[a]]
  /\ pc' = "processing"
  /\ UNCHANGED <<restoredAnItem, vault, trouble, readFailed, status, services,
                 requests, packs, restores>>

\* An answer without messages, which a queue that holds some may give too,
\* ends the reading.
ReceiveNothing ==
  /\ pc = "readingQueue"
  /\ IF readFailed THEN Conclude("failed")
     ELSE pc' = "restoring" /\ UNCHANGED services
  /\ UNCHANGED <<restoredAnItem, vault, queue, reading,
                 requests, packs, restores>>

\* MUTANT: the message is deleted before the job is noted.
DeleteBeforeSaving ==
  /\ pc = "processing"
  /\ message' = [message EXCEPT ![Head(response)] = "deleted"]
  /\ pc' = "deletingMessage"
  /\ UNCHANGED <<restoredAnItem, vault, trouble, reading, services,
                 requests, packs, restores>>

\* The message names an archive and its job: the status file is written...
SaveCompletedJob ==
  /\ pc = "processing"
  /\ status' = status \cup {Head(response)}
  /\ pc' = "deletingMessage"
  /\ UNCHANGED <<restoredAnItem, vault, queue, response, readFailed, services,
                 requests, packs, restores>>

\* ... and the message deleted; that it could not be is only logged.
DeleteMessage ==
  /\ pc = "deletingMessage"
  /\ \/ message' = [message EXCEPT ![Head(response)] = "deleted"]
     \/ UNCHANGED message
  /\ response' = Tail(response)
  /\ pc' = IF response' = <<>> THEN "readingQueue" ELSE "processing"
  /\ UNCHANGED <<restoredAnItem, vault, trouble, readFailed, status, services,
                 requests, packs, restores>>

\* MUTANT: the rest of the messages is dropped, the error too.
DropMessages ==
  /\ pc = "processing"
  /\ response' = <<>>
  /\ pc' = "readingQueue"
  /\ UNCHANGED <<restoredAnItem, vault, queue, readFailed, status, services,
                 requests, packs, restores>>

\* A message that cannot be parsed or a status file that cannot be written:
\* the rest of the response is dropped, the reading goes on.
FailMessage ==
  /\ pc = "processing"
  /\ readFailed' = TRUE
  /\ response' = <<>>
  /\ pc' = "readingQueue"
  /\ UNCHANGED <<restoredAnItem, vault, queue, status, services,
                 requests, packs, restores>>

-----------------------------------------------------------------------------
(***************************************************************************)
(* Packs and items.                                                        *)
(***************************************************************************)
DownloadPack ==
  LET a == Head(glacierPacksToDownload) IN
  /\ pc = "restoring"
  /\ glacierPacksToDownload # <<>>
  /\ a \in status /\ job[a] = "completed"
  /\ cachedPacks' = cachedPacks \cup {a}
  /\ glacierPacksToDownload' = Tail(glacierPacksToDownload)
  /\ restoredAnItem' = TRUE
  /\ pc' = "round"
  /\ UNCHANGED <<vault, queue, reading, services, requests, restores>>

WaitForPack ==
  /\ pc = "restoring"
  /\ glacierPacksToDownload # <<>>
  /\ Head(glacierPacksToDownload) \notin status
  /\ restoredAnItem' = FALSE
  /\ pc' = "sleeping"
  /\ UNCHANGED <<vault, queue, reading, services, requests, packs, restores>>

Current == Head(restoreItems)
At(action) ==
  /\ pc = "restoring"
  /\ glacierPacksToDownload = <<>>
  /\ restoreItems # <<>>
  /\ Current.action = action

\* isObjectAvailableForBlobKey, and what dataForBlobKey can get.
Available(blobs) == \A b \in blobs : Packed(b) \/ ArchiveOf[b] \in status
Fetchable(blobs) ==
  \A b \in blobs : IF Packed(b) THEN ArchiveOf[b] \in cachedPacks
                   ELSE ArchiveOf[b] \in status /\ job[ArchiveOf[b]] = "completed"

\* The blobs without which an item is kept for later.  A symbolic link finds
\* out when it fetches its data, a file when it looks for its first blob.
Needed(i) ==
  LET p == i.path IN
  CASE i.action = "apply" -> AttrBlobs(p)
    [] i.action = "data" -> {Data[p][i.index + 1]}
    [] i.action = "node" ->
         AttrBlobs(p) \cup (IF p \in Symlink THEN InData(p)
                            ELSE {Data[p][k] : k \in DOMAIN Data[p] \cap {1}})
    [] OTHER -> {}

Finish(next) ==
  /\ restoreItems' = next \o Tail(restoreItems)
  /\ restoredAnItem' = TRUE
  /\ pc' = "round"
  /\ UNCHANGED <<vault, queue, reading, requests, packs>>

Report(p) == reported' = reported \cup {p}

RestoreTree ==
  LET d == Current.path IN
  /\ At("tree")
  /\ UNCHANGED reported \/ Report(d)
  /\ \/ Finish(NextItems(d)) /\ UNCHANGED services
     \/ /\ \E p \in InSeq(d) : p \in Dir
        /\ Conclude("failed")
        /\ UNCHANGED <<restoreItems, restoredAnItem, vault, queue, reading, requests, packs>>
  /\ UNCHANGED <<opened, content, applied>>

\* An empty file, or a symbolic link.  That the attributes of a file could not
\* be fetched is only logged.
RestoreWhole ==
  LET f == Current.path IN
  /\ At("node")
  /\ f \in Symlink \/ Data[f] = <<>>
  /\ Available(AttrBlobs(f)) /\ Fetchable(InData(f))
  /\ content' = [content EXCEPT ![f] = Data[f]]
  /\ UNCHANGED reported \/ Report(f)
  /\ Finish(<<>>)
  /\ UNCHANGED <<services, opened, applied>>

Index == IF Current.action = "node" THEN 0 ELSE Current.index

\* One blob of a file: the first with its node, the others on their own.
RestoreData ==
  LET f == Current.path
      last == Index + 1 = Len(Data[f]) IN
  /\ At("data") \/ (At("node") /\ f \notin Symlink /\ Data[f] # <<>>)
  /\ Current.action = "node" => Available(AttrBlobs(f))
  /\ Fetchable({Data[f][Index + 1]})
  /\ content' = [content EXCEPT ![f] = Append(@, Data[f][Index + 1])]
  /\ opened' = opened \cup {f}
  /\ UNCHANGED reported \/ (last /\ Report(f))
  /\ Finish(IF last THEN <<>> ELSE <<DataItem(f, Index + 1)>>)
  /\ UNCHANGED <<services, applied>>

ApplyTree ==
  LET d == Current.path IN
  /\ At("apply")
  /\ Fetchable(AttrBlobs(d))
  /\ applied' = applied \cup {d}
  /\ Finish(<<>>)
  /\ UNCHANGED <<services, opened, content, reported>>

\* MUTANT: an error is only logged.
FailQuietly ==
  LET p == Current.path IN
  /\ At("node") \/ At("data") \/ At("apply")
  /\ Finish(<<>>)
  /\ UNCHANGED <<services, opened, content, applied, reported>>

\* Something could not be fetched or made.  What a file has of its data is
\* removed, if it can be.  An item that waited for its first blob, and now
\* fails before it looks for it again, goes on to restore the data.
FailItem ==
  LET p == Current.path IN
  /\ At("node") \/ At("data") \/ At("apply")
  /\ Report(p)
  /\ \/ UNCHANGED content
     \/ At("data") /\ content' = [content EXCEPT ![p] = <<>>]
  /\ \/ Finish(<<>>)
     \/ At("node") /\ p \in opened /\ Finish(<<DataItem(p, 0)>>)
  /\ UNCHANGED <<services, opened, applied>>

\* ERROR_GLACIER_OBJECT_NOT_AVAILABLE: the item stays.
WaitForItem ==
  LET p == Current.path IN
  /\ At("node") \/ At("data") \/ At("apply")
  /\ ~Available(Needed(Current))
  /\ opened' = IF At("node") /\ p \notin Symlink /\ Available(AttrBlobs(p))
                 THEN opened \cup {p} ELSE opened
  /\ restoredAnItem' = FALSE
  /\ pc' = "sleeping"
  /\ UNCHANGED <<vault, queue, reading, services, requests, packs, restoreItems,
                 content, applied, reported>>

-----------------------------------------------------------------------------
SetUp == Proceed \/ \E s \in Service : Create(s)
FetchPacks ==
  FindNeededGlacierPacks \/ PacksRequested \/ DownloadPack \/ WaitForPack
    \/ \E a \in Pack : RequestPack(a)
RestoreAnItem ==
  RestoreTree \/ RestoreWhole \/ RestoreData \/ ApplyTree \/ FailItem \/ WaitForItem
ReadQueue ==
  \/ \E archives \in SUBSET Archive : ReceiveMessages(archives)
  \/ ReceiveNothing \/ SaveCompletedJob \/ DeleteMessage \/ FailMessage

Run ==
  \/ SetUp \/ FetchPacks \/ RestoreAnItem \/ ReadQueue
  \/ BeginRound \/ RequestMoreGlacierItems \/ RoundRequested \/ Sleep
  \/ DidSucceed \/ DidFail \/ Abort \/ DeleteTopic \/ DeleteQueue

Next ==
  \/ Run
  \/ RoundComesDue
  \/ \E a \in Archive : CompleteJob(a) \/ ExpireJob(a) \/ Reappear(a)

Spec == Init /\ [][Next]_vars

\* The thread runs, time passes, jobs complete, and a message that is visible
\* whenever the queue is read is received some day.
FairSpec ==
  /\ Spec
  /\ WF_vars(Run)
  /\ WF_vars(RoundComesDue)
  /\ \A a \in Archive :
       /\ WF_vars(CompleteJob(a))
       /\ SF_vars(\E archives \in SUBSET Archive : a \in archives /\ ReceiveMessages(archives))

-----------------------------------------------------------------------------
(***************************************************************************)
(* Properties.                                                             *)
(***************************************************************************)

\* However often a message is delivered and an archive used, one job is
\* started for an archive, and only for what the restore needs: each costs.
OneJobPerArchive ==
  \A a \in Archive :
    /\ started[a] <= 1
    /\ started[a] = 1 => \E p \in Restored : \E b \in BlobsOf(p) : ArchiveOf[b] = a

\* A completed job is never forgotten: until the status file names it, the
\* queue still has the message, whatever fails between receiving the message
\* and deleting it.
NotificationKept ==
  outcome = "none" =>
    \A a \in Archive :
      job[a] \in {"completed", "expired"} => a \in status \/ message[a] \in {"visible", "inflight"}

\* When the items are restored every packed blob they need is on disk, unless
\* no pack index has it: the packs were found, requested and downloaded before.
PackedIsCached ==
  \A i \in DOMAIN restoreItems :
    At(Current.action) /\ restoreItems[i].action # "tree" =>
      \A b \in BlobsOf(restoreItems[i].path) :
        ArchiveOf[b] \in Pack => ArchiveOf[b] \in cachedPacks

\* The restore never sleeps for an archive that nobody will request.
WaitsForRequested ==
  pc = "sleeping" /\ glacierRequestItems = <<>> =>
    /\ \A i \in DOMAIN glacierPacksToDownload : started[glacierPacksToDownload[i]] > 0
    /\ glacierPacksToDownload = <<>> =>
         \A b \in Needed(Current) : Packed(b) \/ started[ArchiveOf[b]] > 0

\* When the restore succeeds, every path was restored or its error reported.
SuccessIsSettled ==
  outcome = "succeeded" =>
    \A p \in Restored :
      \/ p \in reported
      \/ p \in applied
      \/ p \in File /\ content[p] = Data[p]

\* Whatever made the restore end, in the middle of setting up too, the topic
\* and the queue that were made are removed.
NothingLeftBehind == pc = "done" /\ trouble = 0 => removed = created

\* The restore ends, also when messages are delivered late or again, and when
\* one cannot be processed.
Termination == <>(pc = "done")
=============================================================================
