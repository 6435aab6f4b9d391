--------------------------- MODULE RecordRestorer ---------------------------
(***************************************************************************)
(* The restore of a backup made by Arq 7 (Arq7Restorer) or by Arq 6        *)
(* (Arq6Restorer, nearly the same code): one thread looks for the newest   *)
(* complete record, walks down to the path it was asked for and restores   *)
(* what is below, depth first, until the first error.  A node's attributes *)
(* are applied last and in a fixed order; when that fails the restore goes *)
(* on.  Names of one tree are taken to be different at the destination     *)
(* too, and no data is looked at, only which of it was written.            *)
(***************************************************************************)
EXTENDS Integers, SequencesExt

CONSTANTS
  Record,       \* the records (Arq 7) or snapshots (Arq 6) of the folder
  Folders,      \* the folders with their records, both newest first
  Complete,     \* the records whose isComplete is set
  RootKind,     \* RootKind[r]: what r has for the folder, a node or nothing
  Dir, File,    \* the paths of the record: its trees and its other nodes
  Nowhere,      \* paths a user may ask for that the record does not have
  Root,         \* the tree of the folder
  Parent,       \* Parent[p]: the path that p is in
  Deleted,      \* the nodes that are marked as deleted
  Blobs,        \* Blobs[f]: how many objects hold the data of f
  Has,          \* Has[p]: the attributes of p whose value is not zero
  Immutable,    \* the nodes whose flags forbid any further change
  ClearsSetId,  \* the nodes whose set-id bits a change of group clears
  Asked,        \* the relative paths the user may give, Root for none
  MaxTrouble,   \* bound on the attributes that cannot be applied
  None

Node == Dir \cup File
Path == Node \cup Nowhere

\* The attributes in the order of applyMetadata, after the extended ones,
\* which only restoreFile applies.
Attribute == {"xattrs", "mode", "owner", "flags", "mtime"}
Metadata == <<"mode", "owner", "flags", "mtime">>
FileAttributes == <<"xattrs", "mode", "owner", "flags", "mtime">>

ASSUME RecordRestorerAssumption ==
  /\ Dir \cap File = {} /\ Node \cap Nowhere = {}
  /\ Folders \in Seq(Seq(Record)) /\ Complete \subseteq Record
  /\ \A j, k \in DOMAIN Folders : \A m \in DOMAIN Folders[j] : \A n \in DOMAIN Folders[k] :
       Folders[j][m] = Folders[k][n] => j = k /\ m = n
  /\ RootKind \in [Record -> {"tree", "file", "none"}]
  /\ Root \in Dir /\ Asked \subseteq Path
  /\ Parent \in [Path \ {Root} -> Path]
  /\ \A p \in Node \ {Root} : Parent[p] \in Dir
  /\ Deleted \subseteq Node \ {Root}
  /\ Blobs \in [File -> Nat]
  /\ Has \in [Node -> SUBSET Attribute]
  /\ \A p \in Immutable : "flags" \in Has[p]
  /\ MaxTrouble \in Nat /\ None \notin Record

VARIABLES
  format, asked,   \* what the command line asks for
  folders, names,  \* folders, and records of the current one, not read yet
  record,          \* the record that is restored
  pc,              \* where the thread is
  stack,           \* the calls of restoreTree:, each with its children left
  node,            \* the node in hand
  todo,            \* its attributes that are still to be applied
  disk, written,   \* what is at each path; how much of each file's data
  inPlace,         \* the attributes that are on disk
  unreadable,      \* history: the records that could not be read and were logged
  failed,          \* history: the attributes that could not be applied
  outcome

choice == <<folders, names, record, unreadable>>
call == <<stack, node, todo>>
files == <<disk, written>>
attributes == <<inPlace, failed>>
vars == <<format, asked, choice, pc, call, files, attributes, outcome>>

\* The trees and nodes on the way from Root to p, with p.
Way[p \in Path] == IF p = Root THEN {Root} ELSE {p} \cup Way[Parent[p]]

\* The paths are a tree: no path is above itself, and only trees hold nodes.
ASSUME PathsAssumption ==
  \A p \in Path :
    /\ p \in Way[p] /\ Root \in Way[p] /\ Way[p] \subseteq Path
    /\ p # Root => Way[p] = {p} \cup Way[Parent[p]] /\ p \notin Way[Parent[p]]
    /\ p = Root => Way[p] = {Root}
    /\ p \in Node => Way[p] \ {p} \subseteq Dir
    /\ \A q \in Way[p] : Way[q] \subseteq Way[p]
    /\ \A q \in Way[p] \ {p} : \E c \in Way[p] \ {Root} : Parent[c] = q

ChildrenOf(d) == {p \in Node \ {Root} : Parent[p] = d}

TypeOK ==
  /\ format \in {"Arq6", "Arq7"} /\ asked \in Asked
  /\ folders \in Seq(Seq(Record)) /\ names \in Seq(Record)
  /\ record \in Record \cup {None}
  /\ pc \in {"records", "record", "destination", "root", "walk", "tree",
             "load", "open", "blobs", "attributes", "done"}
  /\ stack \in Seq([dir : Dir, rest : SUBSET Node])
  /\ node \in Node
  /\ todo \in Seq(Attribute)
  /\ disk \in [Path -> {"absent", "dir", "file"}]
  /\ written \in [File -> Nat] /\ \A f \in File : written[f] <= Blobs[f]
  /\ inPlace \subseteq Node \X Attribute
  /\ failed \subseteq Node \X Attribute
  /\ unreadable \subseteq Record
  /\ outcome \in {"none", "success", "error", "failed", "aborted"}

\* The command refuses a destination that exists.
Init ==
  /\ format \in {"Arq6", "Arq7"} /\ asked \in Asked
  /\ folders = Folders /\ names = <<>> /\ record = None /\ unreadable = {}
  /\ pc = "records"
  /\ stack = <<>> /\ node = Root /\ todo = <<>>
  /\ disk = [p \in Path |-> "absent"] /\ written = [f \in File |-> 0]
  /\ inPlace = {} /\ failed = {}
  /\ outcome = "none"

\* restore: returns: "failed" if a request or a call of the system failed, and
\* "error" for any other reason.
Return(result) ==
  /\ pc' = "done" /\ outcome' = result
  /\ UNCHANGED <<call, files, attributes>>

Continue(where) == pc' = where /\ UNCHANGED outcome

-----------------------------------------------------------------------------
(***************************************************************************)
(* The record: the newest one that can be read and is complete.            *)
(***************************************************************************)

\* MUTANT: a folder without a complete record is listed again.
ListAgain ==
  /\ pc = "records" /\ names = <<>>
  /\ names' = Head(folders)
  /\ UNCHANGED <<format, asked, folders, record, unreadable, pc, call, files,
                 attributes, outcome>>

\* The next older folder is listed; after the oldest one there is no record.
NextFolder ==
  /\ pc = "records" /\ names = <<>>
  /\ IF folders = <<>>
       THEN Return("error") /\ UNCHANGED choice
       ELSE /\ names' = Head(folders) /\ folders' = Tail(folders)
            /\ UNCHANGED <<record, unreadable, pc, call, files, attributes, outcome>>
  /\ UNCHANGED <<format, asked>>

\* MUTANT: a record is taken before it is asked whether it is complete.
ReadAnyRecord(readable) ==
  /\ pc = "records" /\ names # <<>>
  /\ IF readable
       THEN record' = Head(names) /\ Continue("record") /\ UNCHANGED <<names, unreadable>>
       ELSE /\ names' = Tail(names)
            /\ unreadable' = unreadable \cup {Head(names)}
            /\ UNCHANGED <<record, pc, outcome>>
  /\ UNCHANGED <<format, asked, folders, call, files, attributes>>

\* A record that cannot be fetched or parsed is logged and passed over, like
\* one that is not complete.
ReadRecord(readable) ==
  /\ pc = "records" /\ names # <<>>
  /\ IF readable /\ Head(names) \in Complete
       THEN record' = Head(names) /\ Continue("record") /\ UNCHANGED <<names, unreadable>>
       ELSE /\ names' = Tail(names)
            /\ unreadable' = unreadable \cup (IF readable THEN {} ELSE {Head(names)})
            /\ UNCHANGED <<record, pc, outcome>>
  /\ UNCHANGED <<format, asked, folders, call, files, attributes>>

\* The record must have the folder; Arq 6 then makes the destination.
OpenRecord ==
  /\ pc = "record"
  /\ IF RootKind[record] = "none"
       THEN Return("error")
       ELSE /\ Continue(IF format = "Arq6" THEN "destination" ELSE "root")
            /\ UNCHANGED <<call, files, attributes>>
  /\ UNCHANGED <<format, asked, choice>>

-----------------------------------------------------------------------------
(***************************************************************************)
(* The file system, as far as the restore depends on it.                   *)
(***************************************************************************)

\* The file system refuses every change of an immutable file.
CanChange(p) == ~(p \in Immutable /\ <<p, "flags">> \in inPlace)

\* An entry at p: a new one changes the time of the directory it is in.
EntryAt(p, kind) ==
  /\ disk' = [disk EXCEPT ![p] = kind]
  /\ inPlace' = IF disk[p] = "absent" /\ p # asked
                  THEN inPlace \ {<<Parent[p], "mtime">>} ELSE inPlace

\* There is room for an entry at p: asked is in the user's directory.
RoomAt(p) ==
  p = asked \/ (disk[Parent[p]] = "dir" /\ CanChange(Parent[p]))

-----------------------------------------------------------------------------
(***************************************************************************)
(* From the root of the folder to the path that was asked for.             *)
(***************************************************************************)

Push(d) == stack' = Append(stack, [dir |-> d, rest |-> ChildrenOf(d)])

\* Arq 6 always makes the destination a directory, Arq 7 only without a
\* relative path: one of "/" alone asks for Root too, and makes nothing.
MakeDestination ==
  /\ pc = "destination"
  /\ EntryAt(asked, "dir")
  /\ IF format = "Arq6"
       THEN Continue("root") /\ UNCHANGED stack
       ELSE Continue("tree") /\ Push(Root)
  /\ UNCHANGED <<format, asked, choice, node, todo, written, failed>>

OpenRoot ==
  /\ pc = "root"
  /\ \/ RootKind[record] # "tree" /\ Return("error")
     \/ /\ RootKind[record] = "tree" /\ asked # Root
        /\ node' = Root /\ Continue("walk")
        /\ UNCHANGED <<stack, todo, files, attributes>>
     \/ /\ RootKind[record] = "tree" /\ asked = Root /\ format = "Arq7"
        /\ Continue("destination") /\ UNCHANGED <<call, files, attributes>>
     \/ /\ RootKind[record] = "tree" /\ asked = Root
        /\ Push(Root) /\ Continue("tree")
        /\ UNCHANGED <<node, todo, files, attributes>>
  /\ UNCHANGED <<format, asked, choice>>

\* One component of the relative path: c, in the tree that node stands for.
\* A node marked as deleted is found like any other.
Walk ==
  /\ pc = "walk"
  /\ LET c == CHOOSE p \in Way[asked] \ {Root} : Parent[p] = node
     IN IF c \in Nowhere \/ (c \in File /\ c # asked)
          THEN Return("error")
          ELSE /\ node' = c
               /\ IF c \in Dir /\ c = asked THEN Push(c) ELSE UNCHANGED stack
               /\ Continue(IF c \in File THEN "open"
                           ELSE IF c = asked THEN "tree" ELSE "walk")
               /\ UNCHANGED <<todo, files, attributes>>
  /\ UNCHANGED <<format, asked, choice>>

-----------------------------------------------------------------------------
(***************************************************************************)
(* restoreTree: the children in the order of a hash table, that is in any. *)
(***************************************************************************)

Top == stack[Len(stack)]

TakeChild(c) ==
  /\ pc = "tree" /\ stack # <<>> /\ c \in Top.rest
  /\ stack' = [stack EXCEPT ![Len(stack)] = [dir |-> Top.dir, rest |-> Top.rest \ {c}]]

SkipDeleted(c) ==
  /\ c \in Deleted /\ TakeChild(c)
  /\ UNCHANGED <<format, asked, choice, pc, node, todo, files, attributes, outcome>>

\* The directory is made, with the destination if that is not there yet.
MakeDirectory(c) ==
  /\ c \in Dir \ Deleted /\ TakeChild(c)
  /\ node' = c
  /\ IF Parent[c] = asked \/ RoomAt(c)
       THEN /\ disk' = [disk EXCEPT ![asked] = "dir", ![c] = "dir"]
            /\ inPlace' = inPlace \ {<<Parent[c], "mtime">>}
            /\ Continue("load")
       ELSE pc' = "done" /\ outcome' = "error" /\ UNCHANGED <<disk, inPlace>>
  /\ UNCHANGED <<format, asked, choice, todo, written, failed>>

\* MUTANT: the directory's metadata are applied before its children are there.
EnterAndApply ==
  /\ pc = "load"
  /\ Push(node) /\ Continue("attributes")
  /\ todo' = Metadata
  /\ UNCHANGED <<format, asked, choice, node, files, attributes>>

\* The tree of the directory is fetched, and restoreTree calls itself.
EnterTree ==
  /\ pc = "load"
  /\ Push(node) /\ Continue("tree")
  /\ UNCHANGED <<format, asked, choice, node, todo, files, attributes>>

TakeFile(c) ==
  /\ c \in File \ Deleted /\ TakeChild(c)
  /\ node' = c /\ Continue("open")
  /\ UNCHANGED <<format, asked, choice, todo, files, attributes>>

\* restoreTree returns: to restore:, or to the call that made the directory
\* and now applies its metadata.
LeaveTree ==
  /\ pc = "tree" /\ stack # <<>> /\ Top.rest = {}
  /\ IF Len(stack) = 1
       THEN Return("success")
       ELSE /\ stack' = Front(stack) /\ node' = Top.dir
            /\ todo' = Metadata
            /\ Continue("attributes") /\ UNCHANGED <<files, attributes>>
  /\ UNCHANGED <<format, asked, choice>>

-----------------------------------------------------------------------------
(***************************************************************************)
(* restoreFile: every kind of node becomes a regular file.                 *)
(***************************************************************************)

\* The file is created, or emptied; where it cannot be, the restore ends.
OpenFile ==
  /\ pc = "open"
  /\ IF RoomAt(node) /\ disk[node] # "dir"
       THEN /\ EntryAt(node, "file")
            /\ written' = [written EXCEPT ![node] = 0]
            /\ Continue("blobs") /\ UNCHANGED <<call, failed>>
       ELSE Return("error")
  /\ UNCHANGED <<format, asked, choice>>

\* MUTANT: the loop over the objects of a file goes one too far.
WriteOneMore ==
  /\ pc = "blobs" /\ written[node] <= Blobs[node]
  /\ written' = [written EXCEPT ![node] = @ + 1]
  /\ inPlace' = inPlace \ {<<node, "mtime">>}
  /\ UNCHANGED <<format, asked, choice, pc, call, disk, failed, outcome>>

WriteBlob ==
  /\ pc = "blobs" /\ written[node] < Blobs[node]
  /\ written' = [written EXCEPT ![node] = @ + 1]
  /\ inPlace' = inPlace \ {<<node, "mtime">>}
  /\ UNCHANGED <<format, asked, choice, pc, call, disk, failed, outcome>>

\* writeData: raises an exception, which nothing catches.
WriteRaises ==
  /\ pc = "blobs" /\ written[node] < Blobs[node]
  /\ Return("aborted")
  /\ UNCHANGED <<format, asked, choice>>

CloseFile ==
  /\ pc = "blobs" /\ written[node] = Blobs[node]
  /\ todo' = FileAttributes
  /\ Continue("attributes")
  /\ UNCHANGED <<format, asked, choice, stack, node, files, attributes>>

\* A value that is zero is not applied.
PassAttribute ==
  /\ pc = "attributes" /\ todo # <<>> /\ Head(todo) \notin Has[node]
  /\ todo' = Tail(todo)
  /\ UNCHANGED <<format, asked, choice, pc, stack, node, files, attributes, outcome>>

\* A change of group clears the set-id bits that chmod has just set.
ApplyAttribute ==
  /\ pc = "attributes" /\ todo # <<>> /\ Head(todo) \in Has[node]
  /\ CanChange(node)
  /\ todo' = Tail(todo)
  /\ inPlace' = (inPlace \cup {<<node, Head(todo)>>})
                  \ (IF Head(todo) = "owner" /\ node \in ClearsSetId
                       THEN {<<node, "mode">>} ELSE {})
  /\ UNCHANGED <<format, asked, choice, pc, stack, node, files, failed, outcome>>

\* An attribute that cannot be fetched or applied is passed over, with a log
\* entry for most: always when the node has become immutable, else it is
\* bounded by MaxTrouble.
SkipAttribute ==
  /\ pc = "attributes" /\ todo # <<>> /\ Head(todo) \in Has[node]
  /\ ~CanChange(node) \/ Cardinality({x \in failed : x[1] \notin Immutable}) < MaxTrouble
  /\ todo' = Tail(todo)
  /\ failed' = failed \cup {<<node, Head(todo)>>}
  /\ UNCHANGED <<format, asked, choice, pc, stack, node, files, inPlace, outcome>>

\* A file restored by its path is the whole restore.
NodeRestored ==
  /\ pc = "attributes" /\ todo = <<>>
  /\ IF stack = <<>>
       THEN Return("success")
       ELSE Continue("tree") /\ UNCHANGED <<call, files, attributes>>
  /\ UNCHANGED <<format, asked, choice>>

\* Where a request or a call of the system may fail.
Fallible ==
  \/ pc \in {"records", "destination", "root", "walk", "load", "open"}
  \/ pc = "tree" /\ stack # <<>> /\ Top.rest \ Deleted # {}
  \/ pc = "blobs" /\ written[node] < Blobs[node]

\* MUTANT: a file whose data cannot be read is left, and the next is restored.
NextAfterError ==
  /\ Fallible
  /\ IF pc = "blobs" /\ stack # <<>>
       THEN Continue("tree") /\ UNCHANGED <<call, files, attributes>>
       ELSE Return("failed")
  /\ UNCHANGED <<format, asked, choice>>

\* The first error ends the restore: a file that was being written stays as it
\* is.
CallFails ==
  /\ Fallible /\ Return("failed")
  /\ UNCHANGED <<format, asked, choice>>

Next ==
  \/ NextFolder
  \/ \E readable \in BOOLEAN : ReadRecord(readable)
  \/ OpenRecord \/ OpenRoot \/ MakeDestination \/ Walk
  \/ \E c \in Node : SkipDeleted(c) \/ MakeDirectory(c) \/ TakeFile(c)
  \/ EnterTree \/ LeaveTree
  \/ OpenFile \/ WriteBlob \/ WriteRaises \/ CloseFile
  \/ PassAttribute \/ ApplyAttribute \/ SkipAttribute \/ NodeRestored
  \/ CallFails

Spec == Init /\ [][Next]_vars

\* One thread that nothing blocks: a request comes to an end.
FairSpec == Spec /\ WF_vars(Next)

-----------------------------------------------------------------------------
(***************************************************************************)
(* Properties.                                                             *)
(***************************************************************************)

\* What is restored is the newest complete record: any newer one is not
\* complete, or could not be read and was logged.
NewestRecord ==
  record # None =>
    /\ record \in Complete
    /\ \A j, k \in DOMAIN Folders : \A m \in DOMAIN Folders[j] : \A n \in DOMAIN Folders[k] :
         Folders[k][n] = record /\ (j < k \/ (j = k /\ m < n)) /\ Folders[j][m] \in Complete
           => Folders[j][m] \in unreadable

\* What is to be restored: what was asked for and what is below, down to the
\* nodes that are marked as deleted.
Wanted == {p \in Node : asked \in Way[p] /\ (Way[p] \ Way[asked]) \cap Deleted = {}}

\* Restored attributes: not those of the folder that was asked for itself, and
\* not the extended ones of a directory.
Restorable(p) ==
  IF p \in File THEN Has[p]
  ELSE IF p = asked THEN {} ELSE Has[p] \ {"xattrs"}

\* A restore that reports success has restored every file that is wanted with
\* all of its data and every directory, nothing else, and with every attribute,
\* except those that could not be applied, which is logged at most, and set-id
\* bits that a change of group clears.
SuccessIsComplete ==
  outcome = "success" =>
    /\ {p \in Path : disk[p] # "absent"} \in {Wanted, Wanted \ {asked}}
    /\ disk[asked] = "absent" => Wanted = {asked}
    /\ \A p \in Wanted \cap File : disk[p] = "file" /\ written[p] = Blobs[p]
    /\ \A p \in Wanted : \A a \in Restorable(p) :
         \/ <<p, a>> \in inPlace \cup failed
         \/ a = "mode" /\ p \in ClearsSetId /\ <<p, "owner">> \in inPlace

\* An attribute that is on disk is not lost to a later step of the restore: the
\* time of a directory not to its children, and nothing to an immutable flag;
\* only the set-id bits to the owner.
AttributesStay ==
  [][\A p \in Node : \A a \in Has[p] :
       <<p, a>> \in inPlace /\ <<p, a>> \notin inPlace'
         => a = "mode" /\ <<p, "owner">> \in inPlace' \ inPlace]_vars

\* A restore ends with an error though no call failed only if no complete
\* record could be read or it does not have what was asked for, or for one of
\* two defects: Arq6Restorer makes a directory in the place of a file that is
\* asked for, and Arq7Restorer does not make the directory of a folder that is
\* asked for by its path, so that the first file in it can only be made after a
\* folder in it.
ErrorIsExplained ==
  outcome = "error" =>
    \/ record = None
    \/ RootKind[record] # "tree"
    \/ asked \notin Node
    \/ format = "Arq6" /\ asked \in File
    \/ /\ format = "Arq7" /\ asked \in Dir
       /\ ChildrenOf(asked) \cap (File \ Deleted) # {}

\* Every restore ends: the search for a record and the walk through the trees
\* are finite whatever fails.
Termination == <>(outcome # "none")
=============================================================================
