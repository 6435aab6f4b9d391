------------------------ MODULE RecordRestorer_proofs ------------------------
(***************************************************************************)
(* Proofs about RecordRestorer, for every record, tree and request.        *)
(***************************************************************************)
EXTENDS RecordRestorer, SequenceTheorems, TLAPS

Frame == [dir : Dir, rest : SUBSET Node]

(***************************************************************************)
(* The type invariant, with what it needs of the node in hand.             *)
(***************************************************************************)
TypeChoice ==
  /\ format \in {"Arq6", "Arq7"} /\ asked \in Asked
  /\ folders \in Seq(Seq(Record)) /\ names \in Seq(Record)
  /\ record \in Record \cup {None} /\ unreadable \subseteq Record
TypePc ==
  /\ pc \in {"records", "record", "destination", "root", "walk", "tree",
             "load", "open", "blobs", "attributes", "done"}
  /\ outcome \in {"none", "success", "error", "failed", "aborted"}
TypeCall ==
  /\ stack \in Seq(Frame)
  /\ node \in Node
  /\ todo \in Seq(Attribute)
TypeFiles ==
  /\ disk \in [Path -> {"absent", "dir", "file"}]
  /\ written \in [File -> Nat] /\ \A f \in File : written[f] <= Blobs[f]
TypeAttributes ==
  /\ inPlace \subseteq Node \X Attribute
  /\ failed \subseteq Node \X Attribute
NodeKind ==
  /\ pc = "walk" => node \in Way[asked] /\ node # asked
  /\ pc \in {"open", "blobs"} => node \in File
  /\ pc = "load" => node \in Dir
TypeInv ==
  TypeChoice /\ TypePc /\ TypeCall /\ TypeFiles /\ TypeAttributes /\ NodeKind

LEMMA TypeInvImpliesTypeOK == TypeInv => TypeOK
  BY DEF TypeInv, TypeOK, TypeChoice, TypePc, TypeCall, TypeFiles, TypeAttributes, Frame

LEMMA Paths ==
  /\ Root \in Dir /\ Root \in Node /\ Asked \subseteq Path /\ Node \subseteq Path
  /\ \A p \in Node \ {Root} : Parent[p] \in Dir
  /\ \A d \in Dir : d \in Node /\ d \in Path /\ d \notin File
  /\ \A f \in File : f \in Node /\ f \in Path /\ f # Root
  BY RecordRestorerAssumption DEF Node, Path

\* The next component of a relative path exists.
LEMMA NextComponent ==
  ASSUME asked \in Asked, node \in Way[asked], node # asked
  PROVE  LET c == CHOOSE p \in Way[asked] \ {Root} : Parent[p] = node
         IN c \in Way[asked] \ {Root} /\ Parent[c] = node /\ c \in Path
<1>1. asked \in Path
  BY Paths
<1>2. \E c \in Way[asked] \ {Root} : Parent[c] = node
  BY <1>1, PathsAssumption
<1>3. Way[asked] \subseteq Path
  BY <1>1, PathsAssumption
<1>. QED  BY <1>2, <1>3

\* The topmost call is about a tree of the record.
LEMMA TopType ==
  ASSUME TypeInv, stack # <<>>
  PROVE  /\ Top \in Frame /\ Len(stack) \in Nat \ {0}
         /\ DOMAIN stack = 1..Len(stack)
         /\ Front(stack) \in Seq(Frame)
<1>1. stack \in Seq(Frame)
  BY DEF TypeInv, TypeCall
<1>2. Len(stack) \in Nat /\ Len(stack) # 0 /\ DOMAIN stack = 1..Len(stack)
  BY <1>1, LenProperties, EmptySeq
<1>3. Top \in Frame
  BY <1>1, <1>2, ElementOfSeq DEF Top
<1>4. Front(stack) \in Seq(Frame)
  <2>1. Front(stack) = SubSeq(stack, 1, Len(stack) - 1)
    BY DEF Front
  <2>2. \A i \in 1..(Len(stack) - 1) : stack[i] \in Frame
    BY <1>1, <1>2, ElementOfSeq
  <2>. QED  BY <1>1, <1>2, <2>1, <2>2, SubSeqProperties
<1>. QED  BY <1>2, <1>3, <1>4

LEMMA PushType ==
  ASSUME TypeInv, NEW d \in Dir, Push(d)
  PROVE  stack' \in Seq(Frame)
<1>1. stack \in Seq(Frame)
  BY DEF TypeInv, TypeCall
<1>2. [dir |-> d, rest |-> ChildrenOf(d)] \in Frame
  BY DEF Frame, ChildrenOf
<1>. QED  BY <1>1, <1>2, AppendProperties DEF Push

LEMMA TakeType ==
  ASSUME TypeInv, NEW c, TakeChild(c)
  PROVE  stack' \in Seq(Frame)
<1>1. stack \in Seq(Frame) /\ stack # <<>>
  BY DEF TypeInv, TypeCall, TakeChild
<1>2. [dir |-> Top.dir, rest |-> Top.rest \ {c}] \in Frame
  BY <1>1, TopType DEF Frame
<1>. QED  BY <1>1, <1>2, ExceptSeq DEF TakeChild

LEMMA AttributeLists == Metadata \in Seq(Attribute) /\ FileAttributes \in Seq(Attribute)
  BY DEF Metadata, FileAttributes, Attribute

LEMMA EntryTypes ==
  ASSUME TypeInv, NEW p \in Path, NEW kind \in {"dir", "file"}, EntryAt(p, kind)
  PROVE  /\ disk' \in [Path -> {"absent", "dir", "file"}]
         /\ inPlace' \subseteq Node \X Attribute
  BY DEF EntryAt, TypeInv, TypeFiles, TypeAttributes

LEMMA InitType == Init => TypeInv
<1>. SUFFICES ASSUME Init PROVE TypeInv
  OBVIOUS
<1>1. TypeChoice /\ TypePc /\ TypeAttributes /\ NodeKind
  BY RecordRestorerAssumption DEF Init, TypeChoice, TypePc, TypeAttributes, NodeKind
<1>2. TypeCall
  BY Paths DEF Init, TypeCall
<1>3. TypeFiles
  BY RecordRestorerAssumption DEF Init, TypeFiles
<1>. QED  BY <1>1, <1>2, <1>3 DEF TypeInv

LEMMA NextType == TypeInv /\ [Next]_vars => TypeInv'
<1>. SUFFICES ASSUME TypeInv, [Next]_vars PROVE TypeInv'
  OBVIOUS
<1>. USE DEF TypeInv, TypePc, NodeKind
<1>1. CASE NextFolder
  <2>1. folders = <<>> \/ (Head(folders) \in Seq(Record) /\ Tail(folders) \in Seq(Seq(Record)))
    BY HeadTailProperties DEF TypeChoice
  <2>2. TypeChoice'
    BY <1>1, <2>1 DEF NextFolder, TypeChoice, choice
  <2>. QED
    BY <1>1, <2>2 DEF NextFolder, TypeCall, TypeFiles, TypeAttributes, Return, call, files, attributes
<1>2. ASSUME NEW readable \in BOOLEAN, ReadRecord(readable) PROVE TypeInv'
  <2>1. Head(names) \in Record /\ Tail(names) \in Seq(Record)
    BY <1>2, HeadTailProperties DEF ReadRecord, TypeChoice
  <2>2. TypeChoice'
    BY <1>2, <2>1 DEF ReadRecord, TypeChoice, choice
  <2>. QED
    BY <1>2, <2>2 DEF ReadRecord, TypeCall, TypeFiles, TypeAttributes, Continue, call, files, attributes
<1>3. CASE OpenRecord
  BY <1>3 DEF OpenRecord, TypeChoice, TypeCall, TypeFiles, TypeAttributes, Return, Continue,
     choice, call, files, attributes
<1>4. CASE OpenRoot
  <2>1. TypeCall'
    BY <1>4, Paths, PushType DEF OpenRoot, TypeCall, Return, call
  <2>2. TypePc' /\ NodeKind'
    <3>1. asked # Root => Root \in Way[asked]
      BY Paths, PathsAssumption DEF TypeChoice
    <3>. QED  BY <1>4, <3>1 DEF OpenRoot, Return, Continue
  <2>. QED
    BY <1>4, <2>1, <2>2 DEF OpenRoot, TypeChoice, TypeFiles, TypeAttributes, Return, choice,
       files, attributes
<1>5. CASE MakeDestination
  <2>1. asked \in Path
    BY Paths DEF TypeChoice
  <2>2. TypeFiles' /\ TypeAttributes'
    BY <1>5, <2>1, EntryTypes DEF MakeDestination, TypeFiles, TypeAttributes
  <2>3. TypeCall'
    BY <1>5, Paths, PushType DEF MakeDestination, TypeCall
  <2>. QED
    BY <1>5, <2>2, <2>3 DEF MakeDestination, TypeChoice, Continue, choice
<1>6. CASE Walk
  <2>. DEFINE c == CHOOSE p \in Way[asked] \ {Root} : Parent[p] = node
  <2>1. c \in Way[asked] /\ c \in Path
    BY <1>6, NextComponent DEF Walk, TypeChoice
  <2>. HIDE DEF c
  <2>2. CASE Return("error")
    BY <1>6, <2>2 DEF Walk, Return, TypeChoice, TypeCall, TypeFiles, TypeAttributes, choice,
       call, files, attributes
  <2>3. CASE /\ ~(c \in Nowhere \/ (c \in File /\ c # asked))
             /\ node' = c
             /\ IF c \in Dir /\ c = asked THEN Push(c) ELSE UNCHANGED stack
             /\ Continue(IF c \in File THEN "open"
                         ELSE IF c = asked THEN "tree" ELSE "walk")
             /\ UNCHANGED <<todo, files, attributes>>
    <3>1. c \in Node
      BY <2>1, <2>3 DEF Path
    <3>2. TypeCall'
      BY <2>3, <3>1, PushType DEF TypeCall
    <3>3. TypePc' /\ NodeKind'
      BY <1>6, <2>1, <2>3, <3>1 DEF Continue, Walk
    <3>. QED
      BY <1>6, <2>3, <3>2, <3>3 DEF Walk, TypeChoice, TypeFiles, TypeAttributes, choice, files, attributes
  <2>. QED  BY <1>6, <2>2, <2>3 DEF Walk, c
<1>7. ASSUME NEW c \in Node, SkipDeleted(c) PROVE TypeInv'
  BY <1>7, TakeType DEF SkipDeleted, TakeChild, TypeChoice, TypeCall, TypeFiles, TypeAttributes,
     choice, files, attributes
<1>8. ASSUME NEW c \in Node, MakeDirectory(c) PROVE TypeInv'
  <2>1. TypeCall'
    BY <1>8, TakeType DEF MakeDirectory, TypeCall
  <2>2. TypeFiles' /\ TypeAttributes'
    <3>1. c \in Path /\ asked \in Path
      BY Paths DEF TypeChoice
    <3>2. disk' = disk \/ disk' = [disk EXCEPT ![asked] = "dir", ![c] = "dir"]
      BY <1>8 DEF MakeDirectory
    <3>3. disk' \in [Path -> {"absent", "dir", "file"}]
      BY <3>1, <3>2 DEF TypeFiles
    <3>4. inPlace' \subseteq inPlace
      BY <1>8 DEF MakeDirectory
    <3>. QED  BY <1>8, <3>3, <3>4 DEF MakeDirectory, TypeFiles, TypeAttributes
  <2>. QED
    BY <1>8, <2>1, <2>2 DEF MakeDirectory, TypeChoice, Continue, choice
<1>9. ASSUME NEW c \in Node, TakeFile(c) PROVE TypeInv'
  BY <1>9, TakeType DEF TakeFile, TypeChoice, TypeCall, TypeFiles, TypeAttributes, Continue,
     choice, files, attributes
<1>10. CASE EnterTree
  BY <1>10, PushType DEF EnterTree, TypeChoice, TypeCall, TypeFiles, TypeAttributes, Continue,
     choice, files, attributes
<1>11. CASE LeaveTree
  <2>1. TypeCall'
    BY <1>11, TopType, AttributeLists, Paths DEF LeaveTree, TypeCall, Return, call, Frame
  <2>. QED
    BY <1>11, <2>1 DEF LeaveTree, TypeChoice, TypeFiles, TypeAttributes, Return, Continue,
       choice, files, attributes
<1>12. CASE OpenFile
  <2>1. node \in File /\ node \in Path
    BY <1>12, Paths DEF OpenFile
  <2>2. CASE Return("error")
    BY <1>12, <2>2 DEF OpenFile, Return, TypeChoice, TypeCall, TypeFiles, TypeAttributes, choice,
       call, files, attributes
  <2>3. CASE /\ EntryAt(node, "file") /\ written' = [written EXCEPT ![node] = 0]
             /\ Continue("blobs") /\ UNCHANGED <<call, failed>>
    <3>1. TypeFiles' /\ TypeAttributes'
      <4>1. disk' \in [Path -> {"absent", "dir", "file"}] /\ inPlace' \subseteq Node \X Attribute
        BY <2>1, <2>3, EntryTypes
      <4>2. written' \in [File -> Nat] /\ \A f \in File : written'[f] <= Blobs[f]
        <5>1. \A f \in File : Blobs[f] \in Nat /\ written[f] <= Blobs[f]
          BY RecordRestorerAssumption DEF TypeFiles
        <5>2. \A f \in File : written'[f] = IF f = node THEN 0 ELSE written[f]
          BY <2>3 DEF TypeFiles
        <5>3. written' \in [File -> Nat]
          BY <2>3 DEF TypeFiles
        <5>. QED  BY <5>1, <5>2, <5>3
      <4>. QED  BY <2>3, <4>1, <4>2 DEF TypeFiles, TypeAttributes
    <3>. QED
      BY <1>12, <2>1, <2>3, <3>1 DEF OpenFile, TypeChoice, TypeCall, Continue, choice, call
  <2>. QED  BY <1>12, <2>2, <2>3 DEF OpenFile
<1>13. CASE WriteBlob
  <2>1. node \in File
    BY <1>13 DEF WriteBlob
  <2>2. written' = [written EXCEPT ![node] = written[node] + 1] /\ written[node] < Blobs[node]
    BY <1>13 DEF WriteBlob
  <2>3. written' \in [File -> Nat] /\ \A f \in File : written'[f] <= Blobs[f]
    <3>1. \A f \in File : written[f] \in Nat /\ Blobs[f] \in Nat /\ written[f] <= Blobs[f]
      BY RecordRestorerAssumption DEF TypeFiles
    <3>2. \A f \in File : written'[f] = IF f = node THEN written[f] + 1 ELSE written[f]
      BY <2>2 DEF TypeFiles
    <3>3. written' \in [File -> Nat]
      BY <2>1, <2>2, <3>1 DEF TypeFiles
    <3>. QED  BY <2>1, <2>2, <3>1, <3>2, <3>3
  <2>. QED
    BY <1>13, <2>3 DEF WriteBlob, TypeChoice, TypeCall, TypeFiles, TypeAttributes, choice, call
<1>14. CASE WriteRaises
  BY <1>14 DEF WriteRaises, TypeChoice, TypeCall, TypeFiles, TypeAttributes, Return, choice, call,
     files, attributes
<1>15. CASE CloseFile
  BY <1>15, AttributeLists DEF CloseFile, TypeChoice, TypeCall, TypeFiles, TypeAttributes, Continue,
     choice, files, attributes
<1>16. CASE PassAttribute
  BY <1>16, HeadTailProperties DEF PassAttribute, TypeChoice, TypeCall, TypeFiles, TypeAttributes,
     choice, files, attributes
<1>17. CASE ApplyAttribute
  BY <1>17, HeadTailProperties DEF ApplyAttribute, TypeChoice, TypeCall, TypeFiles, TypeAttributes,
     choice, files
<1>18. CASE SkipAttribute
  BY <1>18, HeadTailProperties DEF SkipAttribute, TypeChoice, TypeCall, TypeFiles, TypeAttributes,
     choice, files
<1>19. CASE NodeRestored
  <2>1. Return("success") \/ (Continue("tree") /\ UNCHANGED <<call, files, attributes>>)
    BY <1>19 DEF NodeRestored
  <2>2. UNCHANGED <<call, files, attributes, format, asked, choice>>
    BY <1>19, <2>1 DEF NodeRestored, Return
  <2>3. TypePc' /\ NodeKind'
    BY <2>1 DEF Return, Continue
  <2>. QED
    BY <2>2, <2>3 DEF TypeChoice, TypeCall, TypeFiles, TypeAttributes, choice, call, files, attributes
<1>20. CASE CallFails
  BY <1>20 DEF CallFails, TypeChoice, TypeCall, TypeFiles, TypeAttributes, Return, choice, call,
     files, attributes
<1>21. CASE UNCHANGED vars
  BY <1>21 DEF vars, TypeChoice, TypeCall, TypeFiles, TypeAttributes, choice, call, files, attributes
<1>. QED
  BY <1>1, <1>2, <1>3, <1>4, <1>5, <1>6, <1>7, <1>8, <1>9, <1>10, <1>11, <1>12, <1>13, <1>14,
     <1>15, <1>16, <1>17, <1>18, <1>19, <1>20, <1>21 DEF Next

LEMMA TypeInvariant == Spec => []TypeInv
  BY InitType, NextType, PTL DEF Spec

(***************************************************************************)
(* Type correctness of every restore: no file gets more data than it has   *)
(* objects, and every path that is walked exists in the record.            *)
(***************************************************************************)
THEOREM TypeCorrect == Spec => []TypeOK
  BY TypeInvariant, TypeInvImpliesTypeOK, PTL

(***************************************************************************)
(* The newest complete record is restored                                  *)
(* (mostRecentBackupRecordForPlanUUID: and the like in Arq6Snapshot): what *)
(* was passed over was not complete, or could not be read and was logged.  *)
(***************************************************************************)
FoldersRead == Len(Folders) - Len(folders)
Passed(j, m) ==
  j < FoldersRead \/ (j = FoldersRead /\ m <= Len(Folders[j]) - Len(names))

SearchInv ==
  /\ Len(folders) <= Len(Folders)
  /\ \A i \in 1..Len(folders) : folders[i] = Folders[FoldersRead + i]
  /\ FoldersRead = 0 => names = <<>>
  /\ FoldersRead > 0 =>
       /\ Len(names) <= Len(Folders[FoldersRead])
       /\ \A i \in 1..Len(names) :
            names[i] = Folders[FoldersRead][Len(Folders[FoldersRead]) - Len(names) + i]
  /\ \A j \in 1..Len(Folders) : \A m \in 1..Len(Folders[j]) :
       Passed(j, m) /\ Folders[j][m] \in Complete => Folders[j][m] \in unreadable
  /\ pc = "records" => record = None
  /\ record # None => names # <<>> /\ record = Head(names) /\ record \in Complete

LEMMA FolderTypes ==
  /\ Folders \in Seq(Seq(Record)) /\ Len(Folders) \in Nat /\ DOMAIN Folders = 1..Len(Folders)
  /\ \A j \in 1..Len(Folders) : /\ Folders[j] \in Seq(Record)
                                /\ Len(Folders[j]) \in Nat
                                /\ DOMAIN Folders[j] = 1..Len(Folders[j])
<1>1. Folders \in Seq(Seq(Record))
  BY RecordRestorerAssumption
<1>2. Len(Folders) \in Nat /\ DOMAIN Folders = 1..Len(Folders)
  BY <1>1, LenProperties
<1>3. \A j \in 1..Len(Folders) : Folders[j] \in Seq(Record)
  BY <1>1, ElementOfSeq
<1>. QED  BY <1>1, <1>2, <1>3, LenProperties

LEMMA SearchImpliesNewest == TypeInv /\ SearchInv => NewestRecord
<1>. SUFFICES ASSUME TypeInv, SearchInv, record # None
              PROVE  /\ record \in Complete
                     /\ \A j, k \in DOMAIN Folders :
                          \A m \in DOMAIN Folders[j] : \A n \in DOMAIN Folders[k] :
                            Folders[k][n] = record /\ (j < k \/ (j = k /\ m < n))
                              /\ Folders[j][m] \in Complete => Folders[j][m] \in unreadable
  BY DEF NewestRecord
<1>. DEFINE r == FoldersRead
            l == Len(Folders[r]) - Len(names) + 1
<1>1. record \in Complete /\ names # <<>> /\ record = Head(names)
  BY DEF SearchInv
<1>2. names \in Seq(Record) /\ Len(names) \in Nat /\ Len(names) # 0 /\ Head(names) = names[1]
  BY <1>1, LenProperties, EmptySeq DEF TypeInv, TypeChoice
<1>3. Len(folders) \in Nat
  BY LenProperties DEF TypeInv, TypeChoice
<1>4. r \in 1..Len(Folders) /\ Len(names) <= Len(Folders[r]) /\ record = Folders[r][l]
  <2>1. r # 0 /\ r \in 1..Len(Folders)
    BY <1>1, <1>3, FolderTypes DEF SearchInv, FoldersRead
  <2>2. /\ Len(names) <= Len(Folders[r])
        /\ \A i \in 1..Len(names) : names[i] = Folders[r][Len(Folders[r]) - Len(names) + i]
    BY <2>1 DEF SearchInv
  <2>3. 1 \in 1..Len(names)
    BY <1>2
  <2>. QED  BY <1>1, <1>2, <2>1, <2>2, <2>3
<1>5. l \in 1..Len(Folders[r])
  BY <1>2, <1>4, FolderTypes
<1>6. ASSUME NEW j \in DOMAIN Folders, NEW k \in DOMAIN Folders,
             NEW m \in DOMAIN Folders[j], NEW n \in DOMAIN Folders[k],
             Folders[k][n] = record, j < k \/ (j = k /\ m < n), Folders[j][m] \in Complete
      PROVE  Folders[j][m] \in unreadable
  <2>1. k = r /\ n = l
    BY <1>4, <1>5, <1>6, FolderTypes, RecordRestorerAssumption
  <2>2. Passed(j, m)
    BY <1>2, <1>4, <1>6, <2>1, FolderTypes DEF Passed
  <2>. QED  BY <1>6, <2>2, FolderTypes DEF SearchInv
<1>. QED  BY <1>1, <1>6

LEMMA InitSearch == Init => SearchInv
  BY FolderTypes, RecordRestorerAssumption DEF Init, SearchInv, FoldersRead, Passed

LEMMA NextFolderSearch ==
  ASSUME TypeInv, SearchInv, pc = "records", names = <<>>, folders # <<>>,
         names' = Head(folders), folders' = Tail(folders),
         UNCHANGED <<record, unreadable, pc>>
  PROVE  SearchInv'
<1>. DEFINE r == FoldersRead
<1>1. folders \in Seq(Seq(Record)) /\ Len(folders) \in Nat /\ Len(folders) # 0 /\ Head(folders) = folders[1]
  BY LenProperties, EmptySeq DEF TypeInv, TypeChoice
<1>2. /\ Tail(folders) \in Seq(Seq(Record)) /\ Len(Tail(folders)) = Len(folders) - 1
      /\ \A i \in 1..Len(Tail(folders)) : Tail(folders)[i] = folders[i + 1]
  BY <1>1, HeadTailProperties
<1>3. r \in Nat /\ Len(folders) <= Len(Folders) /\ FoldersRead' = r + 1 /\ r + 1 \in 1..Len(Folders)
  BY <1>1, <1>2, FolderTypes DEF SearchInv, FoldersRead
<1>4. names' = Folders[r + 1] /\ Len(names') = Len(Folders[r + 1])
  BY <1>1, <1>3 DEF SearchInv
<1>5. \A i \in 1..Len(folders') : folders'[i] = Folders[FoldersRead' + i]
  <2>. TAKE i \in 1..Len(folders')
  <2>1. i + 1 \in 1..Len(folders) /\ folders'[i] = folders[i + 1]
    BY <1>1, <1>2
  <2>2. folders[i + 1] = Folders[r + (i + 1)]
    BY <2>1 DEF SearchInv
  <2>. QED  BY <1>3, <2>1, <2>2
<1>6. ASSUME NEW j \in 1..Len(Folders), NEW m \in 1..Len(Folders[j]), Passed(j, m)'
      PROVE  Passed(j, m)
  <2>1. j < r + 1
    BY <1>3, <1>4, <1>6, FolderTypes DEF Passed
  <2>2. Len(names) = 0
    BY EmptySeq
  <2>. QED  BY <1>3, <2>1, <2>2, FolderTypes DEF Passed
<1>7. \A j \in 1..Len(Folders) : \A m \in 1..Len(Folders[j]) :
        Passed(j, m)' /\ Folders[j][m] \in Complete => Folders[j][m] \in unreadable'
  BY <1>6 DEF SearchInv
<1>8. record' = None
  BY DEF SearchInv
<1>9. Len(folders') <= Len(Folders)
  BY <1>1, <1>2, <1>3, FolderTypes
<1>10. \A i \in 1..Len(names') :
         names'[i] = Folders[FoldersRead'][Len(Folders[FoldersRead']) - Len(names') + i]
  <2>. TAKE i \in 1..Len(names')
  <2>1. Len(names') \in Nat /\ Len(Folders[r + 1]) - Len(names') + i = i
    <3>1. \A a, k \in Int : a - a + k = k
      OBVIOUS
    <3>2. Len(names') = Len(Folders[r + 1]) /\ Len(Folders[r + 1]) \in Nat /\ i \in Int
      BY <1>3, <1>4, FolderTypes
    <3>. QED  BY <3>1, <3>2
  <2>. QED  BY <1>3, <1>4, <2>1
<1>11. Len(names') <= Len(Folders[FoldersRead']) /\ FoldersRead' # 0
  BY <1>3, <1>4, FolderTypes
<1>. QED  BY <1>5, <1>7, <1>8, <1>9, <1>10, <1>11 DEF SearchInv

\* A record that is passed over is not complete or not readable.
LEMMA PassRecordSearch ==
  ASSUME TypeInv, SearchInv, pc = "records", names # <<>>,
         names' = Tail(names), unreadable \subseteq unreadable',
         Head(names) \in Complete => Head(names) \in unreadable',
         UNCHANGED <<folders, record, pc>>
  PROVE  SearchInv'
<1>. DEFINE r == FoldersRead
            size == Len(Folders[r])
<1>1. names \in Seq(Record) /\ Len(names) \in Nat /\ Len(names) # 0 /\ Head(names) = names[1]
  BY LenProperties, EmptySeq DEF TypeInv, TypeChoice
<1>2. /\ Tail(names) \in Seq(Record) /\ Len(Tail(names)) = Len(names) - 1
      /\ \A i \in 1..Len(Tail(names)) : Tail(names)[i] = names[i + 1]
  BY <1>1, HeadTailProperties
<1>3. r \in 1..Len(Folders) /\ Len(names) <= size /\ size \in Nat /\ FoldersRead' = r
  <2>1. Len(folders) \in Nat
    BY LenProperties DEF TypeInv, TypeChoice
  <2>. QED  BY <2>1, FolderTypes DEF SearchInv, FoldersRead
<1>4. \A i \in 1..Len(names) : names[i] = Folders[r][size - Len(names) + i]
  BY <1>3 DEF SearchInv
<1>5. \A i \in 1..Len(names') : names'[i] = Folders[r][size - Len(names') + i]
  <2>. TAKE i \in 1..Len(names')
  <2>1. i + 1 \in 1..Len(names) /\ names'[i] = names[i + 1]
    BY <1>1, <1>2
  <2>2. names[i + 1] = Folders[r][size - Len(names) + (i + 1)]
    BY <1>4, <2>1
  <2>3. size - Len(names) + (i + 1) = size - Len(names') + i
    <3>1. Len(names') = Len(names) - 1 /\ i \in Nat
      BY <1>1, <1>2
    <3>2. \A a, b, k \in Int : a - b + (k + 1) = a - (b - 1) + k
      OBVIOUS
    <3>3. size - Len(names) + (i + 1) = size - (Len(names) - 1) + i
      <4>1. size \in Int /\ Len(names) \in Int /\ i \in Int
        BY <1>1, <1>3, <3>1
      <4>. DEFINE a == size
                  b == Len(names)
      <4>. HIDE DEF size, a, b
      <4>2. a \in Int /\ b \in Int
        BY <4>1 DEF a, b
      <4>3. a - b + (i + 1) = a - (b - 1) + i
        BY <3>2, <4>1, <4>2
      <4>. QED  BY <4>3 DEF a, b
    <3>. QED  BY <3>1, <3>3
  <2>. QED  BY <2>1, <2>2, <2>3
<1>6. ASSUME NEW j \in 1..Len(Folders), NEW m \in 1..Len(Folders[j]), Passed(j, m)',
             Folders[j][m] \in Complete
      PROVE  Folders[j][m] \in unreadable'
  <2>1. CASE Passed(j, m)
    BY <1>6, <2>1 DEF SearchInv
  <2>2. CASE ~Passed(j, m)
    <3>1. j = r /\ m = size - Len(names) + 1
      BY <1>1, <1>2, <1>3, <1>6, <2>2, FolderTypes DEF Passed
    <3>2. Folders[j][m] = Head(names)
      BY <1>1, <1>4, <3>1
    <3>. QED  BY <1>6, <3>2
  <2>. QED  BY <2>1, <2>2
<1>7. Len(folders') <= Len(Folders) /\ \A i \in 1..Len(folders') : folders'[i] = Folders[r + i]
  BY DEF SearchInv
<1>8. record' = None
  BY DEF SearchInv
<1>. QED  BY <1>1, <1>2, <1>3, <1>5, <1>6, <1>7, <1>8 DEF SearchInv

LEMMA NextSearch == TypeInv /\ SearchInv /\ [Next]_vars => SearchInv'
<1>. SUFFICES ASSUME TypeInv, SearchInv, [Next]_vars PROVE SearchInv'
  OBVIOUS
<1>1. CASE UNCHANGED choice /\ (pc' = "records" => pc = "records")
  BY <1>1 DEF SearchInv, FoldersRead, Passed, choice
<1>2. CASE NextFolder
  <2>1. CASE folders = <<>>
    BY <1>1, <1>2, <2>1 DEF NextFolder, Return
  <2>2. CASE folders # <<>>
    BY <1>2, <2>2, NextFolderSearch DEF NextFolder
  <2>. QED  BY <2>1, <2>2
<1>3. ASSUME NEW readable \in BOOLEAN, ReadRecord(readable) PROVE SearchInv'
  <2>1. CASE readable /\ Head(names) \in Complete
    <3>1. /\ UNCHANGED <<folders, names, unreadable>> /\ record' = Head(names)
          /\ names # <<>> /\ pc' = "record"
      BY <1>3, <2>1 DEF ReadRecord, Continue
    <3>. QED  BY <2>1, <3>1 DEF SearchInv, FoldersRead, Passed
  <2>2. CASE ~(readable /\ Head(names) \in Complete)
    <3>1. /\ pc = "records" /\ names # <<>> /\ names' = Tail(names)
          /\ unreadable' = unreadable \cup (IF readable THEN {} ELSE {Head(names)})
          /\ UNCHANGED <<folders, record, pc>>
      BY <1>3, <2>2 DEF ReadRecord
    <3>. QED  BY <2>2, <3>1, PassRecordSearch
  <2>. QED  BY <2>1, <2>2
<1>4. CASE OpenRecord \/ OpenRoot \/ MakeDestination \/ Walk
  BY <1>1, <1>4 DEF OpenRecord, OpenRoot, MakeDestination, Walk, Return, Continue
<1>5. ASSUME NEW c \in Node, SkipDeleted(c) \/ MakeDirectory(c) \/ TakeFile(c) PROVE SearchInv'
  BY <1>1, <1>5 DEF SkipDeleted, MakeDirectory, TakeFile, Continue
<1>6. CASE EnterTree \/ LeaveTree \/ OpenFile \/ WriteBlob \/ WriteRaises \/ CloseFile
  BY <1>1, <1>6 DEF EnterTree, LeaveTree, OpenFile, WriteBlob, WriteRaises, CloseFile, Return, Continue
<1>7. CASE PassAttribute \/ ApplyAttribute \/ SkipAttribute \/ NodeRestored \/ CallFails
  BY <1>1, <1>7 DEF PassAttribute, ApplyAttribute, SkipAttribute, NodeRestored, CallFails, Return, Continue
<1>8. CASE UNCHANGED vars
  BY <1>1, <1>8 DEF vars
<1>. QED  BY <1>2, <1>3, <1>4, <1>5, <1>6, <1>7, <1>8 DEF Next

\* The record that is restored is the newest complete one: every newer record was
\* not complete or could not be read.
THEOREM NewestIsRestored == Spec => []NewestRecord
  BY InitSearch, TypeInvariant, NextSearch, SearchImpliesNewest, PTL DEF Spec

(***************************************************************************)
(* The walk: what is on disk, on the stack and still to be visited.        *)
(***************************************************************************)
Early == {"records", "record", "destination", "root", "walk"}

\* Before the first tree or file nothing but the destination is made.
EarlyInv ==
  /\ pc \in Early =>
       /\ stack = <<>> /\ inPlace = {}
       /\ \A p \in Path : p # asked => disk[p] = "absent"
       /\ format = "Arq7" => disk[asked] = "absent"
  /\ pc \in {"root", "walk"} /\ format = "Arq6" => disk[asked] = "dir"
  /\ pc = "destination" /\ format = "Arq7" => asked = Root

\* Each call is about a directory at or below asked, that is there (Arq 7 may
\* not have made asked) and has no attributes yet; what is left of it is not.
StackInv ==
  /\ stack # <<>> => stack[1].dir = asked
  /\ \A i \in 1..Len(stack) :
       /\ asked \in Way[stack[i].dir]
       /\ disk[stack[i].dir] = "dir"
            \/ (stack[i].dir = asked /\ format = "Arq7")
       /\ stack[i].rest \subseteq ChildrenOf(stack[i].dir)
       /\ \A c \in stack[i].rest : disk[c] = "absent"
       /\ \A a \in Attribute : <<stack[i].dir, a>> \notin inPlace
  /\ \A i, j \in 1..Len(stack) : stack[i].dir = stack[j].dir => i = j

\* Only what is in a directory on disk is on disk.
DiskInv ==
  /\ \A p \in Path : disk[p] # "absent" /\ p # asked =>
       p \in Node \ {Root} /\ disk[Parent[p]] # "absent"
  /\ \A x \in inPlace : disk[x[1]] # "absent"

\* The node in hand is no longer left and not yet on the stack.
NodeInv ==
  /\ pc \in {"load", "open"} /\ stack # <<>> =>
       /\ node # Root /\ Parent[node] = Top.dir /\ node \notin Deleted
       /\ \A i \in 1..Len(stack) : node \notin stack[i].rest
  /\ pc \in {"tree", "load"} => stack # <<>>
  /\ pc = "load" => disk[node] = "dir" /\ \A c \in ChildrenOf(node) : disk[c] = "absent"
  /\ pc = "open" =>
       /\ stack # <<>> => disk[node] = "absent"
       /\ stack = <<>> => node = asked /\ (format = "Arq7" => disk[asked] = "absent")
  /\ pc \in {"load", "open", "blobs"} => \A a \in Attribute : <<node, a>> \notin inPlace
  /\ pc \in {"load", "blobs", "attributes"} =>
       disk[node] # "absent" /\ \A i \in 1..Len(stack) : stack[i].dir # node
  /\ pc = "attributes" =>
       /\ \A i \in 1..Len(todo) : <<node, todo[i]>> \notin inPlace
       /\ \A i, j \in 1..Len(todo) : todo[i] = todo[j] => i = j

WalkInv == EarlyInv /\ StackInv /\ DiskInv /\ NodeInv

LEMMA TakeFrames ==
  ASSUME TypeInv, NEW c, TakeChild(c)
  PROVE  /\ Len(stack') = Len(stack) /\ stack' # <<>>
         /\ \A i \in 1..Len(stack) : stack'[i].dir = stack[i].dir
         /\ \A i \in 1..(Len(stack) - 1) : stack'[i].rest = stack[i].rest
         /\ stack'[Len(stack)].rest = Top.rest \ {c}
         /\ \A i \in 1..Len(stack) : stack'[i].rest \subseteq stack[i].rest
         /\ Top' = stack'[Len(stack)]
<1>1. stack \in Seq(Frame) /\ stack # <<>>
  BY DEF TypeInv, TypeCall, TakeChild
<1>2. Len(stack) \in Nat \ {0} /\ DOMAIN stack = 1..Len(stack)
  BY <1>1, TopType
<1>. DEFINE top == [dir |-> Top.dir, rest |-> Top.rest \ {c}]
<1>3. stack' = [stack EXCEPT ![Len(stack)] = top]
  BY DEF TakeChild
<1>. HIDE DEF top
<1>4. Len(stack) \in 1..Len(stack)
  BY <1>2
<1>5. top \in Frame
  BY <1>1, TopType DEF Frame, top
<1>6. /\ stack' \in Seq(Frame) /\ Len(stack') = Len(stack)
      /\ \A i \in 1..Len(stack) : stack'[i] = IF i = Len(stack) THEN top ELSE stack[i]
  BY <1>1, <1>3, <1>4, <1>5, ExceptSeq
<1>7. stack' # <<>>
  BY <1>2, <1>6, EmptySeq
<1>8. stack'[Len(stack)] = top /\ \A i \in 1..(Len(stack) - 1) : stack'[i] = stack[i]
  <2>. DEFINE n == Len(stack)
  <2>1. n \in Nat \ {0} /\ \A i \in 1..n : stack'[i] = IF i = n THEN top ELSE stack[i]
    BY <1>2, <1>6
  <2>. HIDE DEF n
  <2>2. stack'[n] = top /\ \A i \in 1..(n - 1) : stack'[i] = stack[i]
    <3>1. n \in 1..n /\ \A i \in 1..(n - 1) : i \in 1..n /\ i # n
      BY <2>1
    <3>. QED  BY <2>1, <3>1
  <2>. QED  BY <2>2 DEF n
<1>9. top.dir = stack[Len(stack)].dir /\ top.rest = stack[Len(stack)].rest \ {c}
  BY DEF top, Top
<1>10. \A i \in 1..Len(stack) :
         stack'[i].dir = stack[i].dir /\ stack'[i].rest \subseteq stack[i].rest
  <2>. TAKE i \in 1..Len(stack)
  <2>1. CASE i = Len(stack)
    BY <1>8, <1>9, <2>1
  <2>2. CASE i # Len(stack)
    BY <1>6, <2>2
  <2>. QED  BY <2>1, <2>2
<1>11. Top' = stack'[Len(stack)]
  BY <1>6 DEF Top
<1>. QED  BY <1>6, <1>7, <1>8, <1>9, <1>10, <1>11 DEF Top

LEMMA PushFrames ==
  ASSUME TypeInv, NEW d \in Dir, Push(d)
  PROVE  /\ Len(stack') = Len(stack) + 1 /\ stack' # <<>>
         /\ \A i \in 1..Len(stack) : stack'[i] = stack[i]
         /\ stack'[Len(stack) + 1].dir = d
         /\ stack'[Len(stack) + 1].rest = ChildrenOf(d)
<1>1. stack \in Seq(Frame) /\ Len(stack) \in Nat
  BY LenProperties DEF TypeInv, TypeCall
<1>. DEFINE top == [dir |-> d, rest |-> ChildrenOf(d)]
<1>2. top \in Frame
  BY DEF Frame, ChildrenOf
<1>3. stack' = Append(stack, top)
  BY DEF Push
<1>. HIDE DEF top
<1>4. /\ Len(stack') = Len(stack) + 1 /\ stack' # <<>>
      /\ \A i \in 1..Len(stack) : stack'[i] = stack[i]
      /\ stack'[Len(stack) + 1] = top
  BY <1>1, <1>2, <1>3, AppendProperties
<1>. QED  BY <1>4 DEF top

LEMMA PopFrames ==
  ASSUME TypeInv, stack # <<>>, stack' = Front(stack)
  PROVE  /\ Len(stack') = Len(stack) - 1
         /\ \A i \in 1..Len(stack') : stack'[i] = stack[i]
<1>1. stack \in Seq(Frame) /\ Len(stack) \in Nat \ {0} /\ DOMAIN stack = 1..Len(stack)
  BY TopType DEF TypeInv, TypeCall
<1>2. stack' = SubSeq(stack, 1, Len(stack) - 1)
  BY DEF Front
<1>3. \A i \in 1..(Len(stack) - 1) : stack[i] \in Frame
  BY <1>1, ElementOfSeq
<1>. QED  BY <1>1, <1>2, <1>3, SubSeqProperties

\* A node in a directory below asked is not on the way to asked.
LEMMA Below ==
  ASSUME TypeInv, NEW d \in Dir, asked \in Way[d], NEW c \in ChildrenOf(d)
  PROVE  /\ c \in Node \ {Root} /\ Parent[c] = d /\ c # d /\ c # asked
         /\ asked \in Way[c] /\ c \notin Way[asked]
         /\ asked \notin ChildrenOf(c)
<1>1. c \in Node \ {Root} /\ Parent[c] = d /\ asked \in Path /\ c \in Path /\ d \in Path
  BY Paths DEF ChildrenOf, TypeInv, TypeChoice
<1>2. Way[c] = {c} \cup Way[d] /\ c \notin Way[d] /\ Way[asked] \subseteq Way[d] /\ d \in Way[d]
  BY <1>1, PathsAssumption
<1>3. asked \notin ChildrenOf(c)
  <2>. SUFFICES ASSUME asked \in ChildrenOf(c) PROVE FALSE
    OBVIOUS
  <2>1. asked # Root /\ Parent[asked] = c
    BY DEF ChildrenOf
  <2>2. Way[asked] = {asked} \cup Way[c] /\ c \in Way[c]
    BY <1>1, <2>1, PathsAssumption
  <2>. QED  BY <1>2, <2>2
<1>. QED  BY <1>1, <1>2, <1>3

\* The walk of the tree begins at asked.
LEMMA BeginWalk ==
  ASSUME TypeInv, asked \in Dir, stack = <<>>, Push(asked), inPlace' = {},
         UNCHANGED <<format, asked>>, pc' = "tree",
         \A p \in Path : p # asked => disk'[p] = "absent",
         disk'[asked] = "dir" \/ (format = "Arq7")
  PROVE  WalkInv'
<1>1. Len(stack) = 0
  BY EmptySeq
<1>2. /\ Len(stack') = 1 /\ stack' # <<>>
      /\ stack'[1].dir = asked /\ stack'[1].rest = ChildrenOf(asked)
  BY <1>1, PushFrames
<1>3. asked \in Way[asked]
  BY Paths, PathsAssumption
<1>4. \A c \in ChildrenOf(asked) : c \in Path /\ c # asked
  BY <1>3, Below, Paths
<1>5. StackInv'
  <2>1. \A i \in 1..Len(stack') : i = 1
    BY <1>2
  <2>. QED  BY <1>2, <1>3, <1>4, <2>1 DEF StackInv
<1>. QED  BY <1>2, <1>5 DEF WalkInv, EarlyInv, DiskInv, NodeInv, Early

LEMMA InitWalk == Init => WalkInv
<1>. SUFFICES ASSUME Init PROVE WalkInv
  OBVIOUS
<1>1. Len(stack) = 0
  BY EmptySeq DEF Init
<1>2. asked \in Path
  BY Paths DEF Init
<1>. QED  BY <1>1, <1>2 DEF Init, WalkInv, EarlyInv, StackInv, DiskInv, NodeInv, Early

LEMMA ReturnWalk ==
  ASSUME WalkInv, UNCHANGED <<format, asked, stack, disk, inPlace>>, pc' = "done"
  PROVE  WalkInv'
  BY DEF WalkInv, EarlyInv, StackInv, DiskInv, NodeInv, Early

LEMMA EarlyWalk ==
  ASSUME WalkInv, UNCHANGED <<format, asked, stack, disk, inPlace>>,
         pc \in Early, pc' \in Early,
         pc' \in {"root", "walk"} /\ format = "Arq6" => disk[asked] = "dir",
         pc' = "destination" /\ format = "Arq7" => asked = Root
  PROVE  WalkInv'
  BY DEF WalkInv, EarlyInv, StackInv, DiskInv, NodeInv, Early

LEMMA MakeDestinationWalk ==
  ASSUME TypeInv, WalkInv, MakeDestination
  PROVE  WalkInv'
<1>1. stack = <<>> /\ inPlace = {} /\ \A p \in Path : p # asked => disk[p] = "absent"
  BY DEF MakeDestination, WalkInv, EarlyInv, Early
<1>2. asked \in Path /\ disk \in [Path -> {"absent", "dir", "file"}]
  BY Paths DEF TypeInv, TypeChoice, TypeFiles
<1>3. /\ disk' = [disk EXCEPT ![asked] = "dir"] /\ inPlace' = {}
      /\ UNCHANGED <<format, asked>>
  BY <1>1 DEF MakeDestination, EntryAt
<1>4. disk'[asked] = "dir" /\ \A p \in Path : p # asked => disk'[p] = "absent"
  BY <1>1, <1>2, <1>3
<1>5. CASE format = "Arq6"
  <2>1. pc' = "root" /\ stack' = <<>>
    BY <1>1, <1>5 DEF MakeDestination, Continue
  <2>2. Len(stack') = 0
    BY <2>1, EmptySeq
  <2>3. StackInv'
    BY <2>1, <2>2 DEF StackInv
  <2>4. EarlyInv' /\ DiskInv' /\ NodeInv'
    BY <1>3, <1>4, <1>5, <2>1 DEF EarlyInv, DiskInv, NodeInv, Early
  <2>. QED  BY <2>3, <2>4 DEF WalkInv
<1>6. CASE format # "Arq6"
  <2>1. asked = Root /\ Push(Root) /\ pc' = "tree"
    BY <1>6 DEF MakeDestination, Continue, WalkInv, EarlyInv, TypeInv, TypeChoice
  <2>. QED  BY <1>1, <1>3, <1>4, <2>1, Paths, BeginWalk
<1>. QED  BY <1>5, <1>6

LEMMA OpenRootWalk ==
  ASSUME TypeInv, WalkInv, OpenRoot
  PROVE  WalkInv'
<1>1. /\ stack = <<>> /\ inPlace = {} /\ \A p \in Path : p # asked => disk[p] = "absent"
      /\ format = "Arq6" => disk[asked] = "dir"
      /\ pc = "root" /\ UNCHANGED <<format, asked>>
  BY DEF OpenRoot, WalkInv, EarlyInv, Early
<1>2. CASE Return("error")
  BY <1>1, <1>2, ReturnWalk DEF Return, call, files, attributes
<1>3. CASE Continue("walk") /\ UNCHANGED <<stack, files, attributes>>
  BY <1>1, <1>3, EarlyWalk DEF Continue, files, attributes, Early
<1>4. CASE asked = Root /\ Continue("destination") /\ UNCHANGED <<call, files, attributes>>
  BY <1>1, <1>4, EarlyWalk DEF Continue, call, files, attributes, Early
<1>5. CASE /\ asked = Root /\ Push(Root) /\ Continue("tree")
           /\ UNCHANGED <<files, attributes>>
  BY <1>1, <1>5, Paths, BeginWalk DEF Continue, files, attributes, TypeInv, TypeChoice
<1>. QED  BY <1>2, <1>3, <1>4, <1>5 DEF OpenRoot

LEMMA WalkWalk ==
  ASSUME TypeInv, WalkInv, Walk
  PROVE  WalkInv'
<1>. DEFINE c == CHOOSE p \in Way[asked] \ {Root} : Parent[p] = node
<1>. HIDE DEF c
<1>1. /\ stack = <<>> /\ inPlace = {} /\ \A p \in Path : p # asked => disk[p] = "absent"
      /\ format = "Arq6" => disk[asked] = "dir"
      /\ format = "Arq7" => disk[asked] = "absent"
      /\ pc = "walk" /\ UNCHANGED <<format, asked>>
  BY DEF Walk, WalkInv, EarlyInv, Early
<1>2. c # Root
  BY NextComponent DEF Walk, TypeInv, NodeKind, TypeChoice, c
<1>3. CASE Return("error")
  BY <1>1, <1>3, ReturnWalk DEF Return, call, files, attributes
<1>4. CASE /\ ~(c \in Nowhere \/ (c \in File /\ c # asked))
           /\ node' = c
           /\ IF c \in Dir /\ c = asked THEN Push(c) ELSE UNCHANGED stack
           /\ Continue(IF c \in File THEN "open"
                       ELSE IF c = asked THEN "tree" ELSE "walk")
           /\ UNCHANGED <<todo, files, attributes>>
  <2>1. c \in Path
    BY NextComponent DEF Walk, TypeInv, NodeKind, TypeChoice, c
  <2>2. c \in Dir \/ c \in File
    BY <1>4, <2>1 DEF Path, Node
  <2>3. CASE c \in File
    <3>1. /\ pc' = "open" /\ node' = asked /\ stack' = <<>> /\ c = asked
          /\ UNCHANGED <<disk, inPlace>>
      BY <1>1, <1>4, <2>3, Paths DEF Continue, files, attributes
    <3>2. Len(stack') = 0
      BY <3>1, EmptySeq
    <3>. QED  BY <1>1, <3>1, <3>2 DEF WalkInv, EarlyInv, StackInv, DiskInv, NodeInv, Early
  <2>4. CASE c \in Dir /\ c = asked
    <3>1. pc' = "tree" /\ Push(asked) /\ UNCHANGED <<disk, inPlace>> /\ asked # Root
      BY <1>2, <1>4, <2>4, Paths DEF Continue, files, attributes
    <3>2. disk'[asked] = "dir" \/ (format = "Arq7" /\ asked # Root)
      BY <1>1, <3>1 DEF TypeInv, TypeChoice
    <3>. QED  BY <1>1, <2>4, <3>1, <3>2, BeginWalk
  <2>5. CASE c \in Dir /\ c # asked
    <3>1. pc' = "walk" /\ UNCHANGED <<stack, disk, inPlace>>
      BY <1>4, <2>5, Paths DEF Continue, files, attributes
    <3>. QED  BY <1>1, <3>1, EarlyWalk DEF Early
  <2>. QED  BY <2>2, <2>3, <2>4, <2>5
<1>. QED  BY <1>3, <1>4 DEF Walk, c

LEMMA Taken ==
  ASSUME TypeInv, WalkInv, NEW c \in Node, TakeChild(c)
  PROVE  /\ c \in ChildrenOf(Top.dir) /\ Top.dir \in Dir /\ asked \in Way[Top.dir]
         /\ disk[c] = "absent" /\ Parent[c] = Top'.dir
         /\ \A a \in Attribute : <<c, a>> \notin inPlace
         /\ \A a \in Attribute : <<Top.dir, a>> \notin inPlace
         /\ \A i \in 1..Len(stack') : c \notin stack'[i].rest /\ c # stack'[i].dir
<1>1. Len(stack) \in 1..Len(stack) /\ Top \in Frame /\ Len(stack) \in Nat
  BY TopType DEF TakeChild
<1>2. /\ asked \in Way[Top.dir] /\ Top.rest \subseteq ChildrenOf(Top.dir)
      /\ c \in Top.rest /\ disk[c] = "absent" /\ Top.dir \in Dir
      /\ \A a \in Attribute : <<Top.dir, a>> \notin inPlace
  BY <1>1 DEF TakeChild, WalkInv, StackInv, Top, Frame
<1>3. c # asked /\ Parent[c] = Top.dir
  BY <1>2, Below
<1>4. \A a \in Attribute : <<c, a>> \notin inPlace
  BY <1>2 DEF WalkInv, DiskInv
<1>5. Len(stack') = Len(stack) /\ Parent[c] = Top'.dir
  BY <1>1, <1>3, TakeFrames DEF Top
<1>6. ASSUME NEW i \in 1..Len(stack') PROVE c \notin stack'[i].rest
  <2>1. CASE i = Len(stack)
    BY <2>1, TakeFrames
  <2>2. CASE i # Len(stack)
    <3>1. stack[i].dir # stack[Len(stack)].dir
      BY <1>1, <1>5, <2>2 DEF WalkInv, StackInv
    <3>2. stack[i].rest \subseteq ChildrenOf(stack[i].dir)
      BY <1>5 DEF WalkInv, StackInv
    <3>3. c \notin stack[i].rest
      BY <1>3, <3>1, <3>2 DEF ChildrenOf, Top
    <3>. QED  BY <1>5, <3>3, TakeFrames
  <2>. QED  BY <2>1, <2>2
<1>7. \A i \in 1..Len(stack') : c # stack'[i].dir
  BY <1>2, <1>3, <1>5, TakeFrames DEF WalkInv, StackInv
<1>. QED  BY <1>2, <1>3, <1>4, <1>5, <1>6, <1>7

\* Calls stay as they are while nothing that they wait for changes.
LEMMA StackStays ==
  ASSUME TypeInv, WalkInv, NEW c \in Node, TakeChild(c), UNCHANGED <<format, asked>>,
         inPlace' \subseteq inPlace,
         \A p \in Path : p \notin {asked, c} => disk'[p] = disk[p],
         disk'[asked] = disk[asked] \/ disk'[asked] = "dir"
  PROVE  StackInv'
<1>1. Len(stack) \in Nat \ {0} /\ stack # <<>> /\ Len(stack') = Len(stack)
  BY TopType, TakeFrames DEF TakeChild
<1>2. \A i \in 1..Len(stack) : /\ stack'[i].dir = stack[i].dir
                               /\ stack'[i].rest \subseteq stack[i].rest
                               /\ c \notin stack'[i].rest /\ c # stack[i].dir
  BY <1>1, TakeFrames, Taken
<1>3. \A i \in 1..Len(stack) : stack[i].dir \in Dir /\ stack[i].dir \in Path
  <2>1. \A i \in 1..Len(stack) : stack[i] \in Frame
    BY <1>1, ElementOfSeq DEF TypeInv, TypeCall
  <2>. QED  BY <2>1, Paths DEF Frame
<1>4. ASSUME NEW i \in 1..Len(stack), NEW p \in stack'[i].rest PROVE disk'[p] = "absent"
  <2>1. p \in stack[i].rest /\ p # c
    BY <1>2
  <2>2. p \in ChildrenOf(stack[i].dir) /\ disk[p] = "absent" /\ asked \in Way[stack[i].dir]
    BY <2>1 DEF WalkInv, StackInv
  <2>3. p # asked /\ p \in Path
    BY <1>3, <2>2, Below, Paths
  <2>. QED  BY <2>1, <2>2, <2>3
<1>5. ASSUME NEW i \in 1..Len(stack)
      PROVE  disk'[stack[i].dir] = "dir"
               \/ (stack[i].dir = asked /\ format = "Arq7")
  BY <1>2, <1>3 DEF WalkInv, StackInv
<1>6. 1 \in 1..Len(stack)
  BY <1>1
<1>. QED  BY <1>1, <1>2, <1>4, <1>5, <1>6 DEF WalkInv, StackInv

LEMMA SkipDeletedWalk ==
  ASSUME TypeInv, WalkInv, NEW c \in Node, SkipDeleted(c)
  PROVE  WalkInv'
<1>1. /\ TakeChild(c) /\ pc = "tree" /\ UNCHANGED <<format, asked, disk, inPlace, pc>>
  BY DEF SkipDeleted, TakeChild, files, attributes
<1>2. StackInv'
  BY <1>1, StackStays
<1>3. stack' # <<>>
  BY <1>1, TakeFrames
<1>. QED  BY <1>1, <1>2, <1>3 DEF WalkInv, EarlyInv, DiskInv, NodeInv, Early

LEMMA MakeDirectoryWalk ==
  ASSUME TypeInv, WalkInv, NEW c \in Node, MakeDirectory(c)
  PROVE  WalkInv'
<1>1. /\ TakeChild(c) /\ c \in Dir \ Deleted /\ UNCHANGED <<format, asked>> /\ node' = c
  BY DEF MakeDirectory
<1>2. /\ c \in ChildrenOf(Top.dir) /\ Top.dir \in Dir /\ asked \in Way[Top.dir]
      /\ disk[c] = "absent" /\ Parent[c] = Top'.dir
      /\ \A a \in Attribute : <<c, a>> \notin inPlace
      /\ \A i \in 1..Len(stack') : c \notin stack'[i].rest /\ c # stack'[i].dir
  BY <1>1, Taken
<1>3. /\ c \in Node \ {Root} /\ c # asked /\ asked \notin ChildrenOf(c)
      /\ asked \in Path /\ c \in Path /\ disk \in [Path -> {"absent", "dir", "file"}]
  BY <1>2, Below, Paths DEF TypeInv, TypeChoice, TypeFiles
<1>4. stack' # <<>>
  BY <1>1, TakeFrames
<1>5. CASE /\ Parent[c] = asked \/ RoomAt(c)
           /\ disk' = [disk EXCEPT ![asked] = "dir", ![c] = "dir"]
           /\ inPlace' = inPlace \ {<<Parent[c], "mtime">>}
           /\ pc' = "load"
  <2>1. \A p \in Path : disk'[p] = IF p \in {asked, c} THEN "dir" ELSE disk[p]
    BY <1>3, <1>5
  <2>2. StackInv'
    BY <1>1, <1>3, <1>5, <2>1, StackStays
  <2>3. DiskInv'
    <3>1. Parent[c] \in Path /\ disk'[Parent[c]] # "absent"
      BY <1>3, <1>5, <2>1, Paths DEF RoomAt
    <3>2. \A p \in Path : disk[p] # "absent" /\ p # asked =>
             p \in Node \ {Root} /\ disk'[Parent[p]] # "absent"
      BY <2>1, Paths DEF WalkInv, DiskInv
    <3>3. \A x \in inPlace : x[1] \in Path /\ disk'[x[1]] # "absent"
      BY <2>1, Paths DEF WalkInv, DiskInv, TypeInv, TypeAttributes
    <3>4. inPlace' \subseteq inPlace
      BY <1>5
    <3>. QED  BY <1>1, <1>3, <2>1, <3>1, <3>2, <3>3, <3>4 DEF DiskInv
  <2>4. \A p \in ChildrenOf(c) : disk'[p] = "absent"
    <3>. TAKE p \in ChildrenOf(c)
    <3>1. p \in Path /\ Parent[p] = c /\ p # asked /\ p # c
      <4>1. p \in Node \ {Root} /\ Parent[p] = c /\ p \in Path
        BY Paths DEF ChildrenOf
      <4>2. p \notin Way[c] /\ c \in Way[c]
        BY <1>3, <4>1, PathsAssumption
      <4>. QED  BY <1>3, <4>1, <4>2
    <3>. QED  BY <1>2, <2>1, <3>1 DEF WalkInv, DiskInv
  <2>5. NodeInv'
    <3>1. disk'[c] = "dir"
      BY <1>3, <2>1
    <3>. QED  BY <1>1, <1>2, <1>3, <1>4, <1>5, <2>4, <3>1 DEF NodeInv
  <2>. QED  BY <1>5, <2>2, <2>3, <2>5 DEF WalkInv, EarlyInv, Early
<1>6. CASE pc' = "done" /\ UNCHANGED <<disk, inPlace>>
  BY <1>1, <1>6, StackStays DEF WalkInv, EarlyInv, DiskInv, NodeInv, Early
<1>. QED  BY <1>5, <1>6 DEF MakeDirectory, Continue

LEMMA TakeFileWalk ==
  ASSUME TypeInv, WalkInv, NEW c \in Node, TakeFile(c)
  PROVE  WalkInv'
<1>1. /\ TakeChild(c) /\ c \in File \ Deleted /\ node' = c /\ pc' = "open"
      /\ UNCHANGED <<format, asked, disk, inPlace>>
  BY DEF TakeFile, Continue, files, attributes
<1>2. StackInv'
  BY <1>1, StackStays
<1>3. /\ disk[c] = "absent" /\ Parent[c] = Top'.dir /\ c # Root
      /\ \A a \in Attribute : <<c, a>> \notin inPlace
      /\ \A i \in 1..Len(stack') : c \notin stack'[i].rest
  BY <1>1, Taken, Paths
<1>4. stack' # <<>>
  BY <1>1, TakeFrames
<1>. QED  BY <1>1, <1>2, <1>3, <1>4 DEF WalkInv, EarlyInv, DiskInv, NodeInv, Early

LEMMA FrameTypes ==
  ASSUME TypeInv
  PROVE  \A i \in 1..Len(stack) :
           stack[i].dir \in Dir /\ stack[i].dir \in Path /\ stack[i].rest \subseteq Node
<1>1. \A i \in 1..Len(stack) : stack[i] \in Frame
  BY ElementOfSeq, LenProperties DEF TypeInv, TypeCall
<1>. QED  BY <1>1, Paths DEF Frame

LEMMA EnterTreeWalk ==
  ASSUME TypeInv, WalkInv, EnterTree
  PROVE  WalkInv'
<1>. DEFINE n == Len(stack)
<1>1. /\ pc = "load" /\ pc' = "tree" /\ Push(node) /\ node \in Dir
      /\ UNCHANGED <<format, asked, disk, inPlace, node>>
  BY DEF EnterTree, Continue, files, attributes, TypeInv, NodeKind
<1>2. /\ stack # <<>> /\ node # Root /\ Parent[node] = Top.dir
      /\ disk[node] = "dir" /\ \A c \in ChildrenOf(node) : disk[c] = "absent"
      /\ \A a \in Attribute : <<node, a>> \notin inPlace
      /\ \A i \in 1..n : stack[i].dir # node
  BY <1>1 DEF WalkInv, NodeInv
<1>3. n \in Nat \ {0} /\ Top.dir \in Dir
  BY <1>2, TopType DEF Frame
<1>4. /\ Len(stack') = n + 1 /\ stack' # <<>>
      /\ \A i \in 1..n : stack'[i] = stack[i]
      /\ stack'[n + 1].dir = node /\ stack'[n + 1].rest = ChildrenOf(node)
  BY <1>1, PushFrames
<1>5. asked \in Way[node]
  <2>1. asked \in Way[Top.dir]
    BY <1>3 DEF WalkInv, StackInv, Top
  <2>2. node \in ChildrenOf(Top.dir)
    BY <1>1, <1>2, Paths DEF ChildrenOf
  <2>. QED  BY <1>3, <2>1, <2>2, Below
<1>. HIDE DEF n
<1>6. 1 \in 1..n /\ \A i \in 1..(n + 1) : i \in 1..n \/ i = n + 1
  BY <1>3
<1>7. stack'[1].dir = asked'
  BY <1>1, <1>2, <1>4, <1>6 DEF WalkInv, StackInv
<1>8. \A i \in 1..n :
        /\ asked \in Way[stack[i].dir]
        /\ disk[stack[i].dir] = "dir"
             \/ (stack[i].dir = asked /\ format = "Arq7")
        /\ stack[i].rest \subseteq ChildrenOf(stack[i].dir)
        /\ \A c \in stack[i].rest : disk[c] = "absent"
        /\ \A a \in Attribute : <<stack[i].dir, a>> \notin inPlace
        /\ \A j \in 1..n : stack[i].dir = stack[j].dir => i = j
  BY DEF WalkInv, StackInv, n
<1>9. StackInv'
  BY <1>1, <1>2, <1>4, <1>5, <1>6, <1>7, <1>8 DEF StackInv
<1>. QED  BY <1>1, <1>4, <1>9 DEF WalkInv, EarlyInv, DiskInv, NodeInv, Early

LEMMA LeaveTreeWalk ==
  ASSUME TypeInv, WalkInv, LeaveTree
  PROVE  WalkInv'
<1>. DEFINE n == Len(stack)
<1>1. stack # <<>> /\ n \in Nat \ {0} /\ UNCHANGED <<format, asked>>
  BY TopType DEF LeaveTree
<1>2. CASE Return("success")
  BY <1>1, <1>2, ReturnWalk DEF Return, call, files, attributes
<1>3. CASE /\ n # 1 /\ stack' = Front(stack) /\ node' = Top.dir /\ todo' = Metadata
           /\ pc' = "attributes" /\ UNCHANGED <<files, attributes>>
  <2>1. Len(stack') = n - 1 /\ \A i \in 1..Len(stack') : stack'[i] = stack[i]
    BY <1>1, <1>3, PopFrames
  <2>2. \A i \in 1..n :
          /\ asked \in Way[stack[i].dir]
          /\ disk[stack[i].dir] = "dir"
               \/ (stack[i].dir = asked /\ format = "Arq7")
          /\ stack[i].rest \subseteq ChildrenOf(stack[i].dir)
          /\ \A c \in stack[i].rest : disk[c] = "absent"
          /\ \A a \in Attribute : <<stack[i].dir, a>> \notin inPlace
          /\ \A j \in 1..n : stack[i].dir = stack[j].dir => i = j
    BY DEF WalkInv, StackInv
  <2>3. stack[1].dir = asked
    BY <1>1 DEF WalkInv, StackInv
  <2>4. Top.dir = stack[n].dir
    BY DEF Top
  <2>5. UNCHANGED <<disk, inPlace>>
    BY <1>3 DEF files, attributes
  <2>. HIDE DEF n
  <2>6. n \in 1..n /\ 1 \in 1..n /\ \A i \in 1..(n - 1) : i \in 1..n /\ i # n /\ 1 \in 1..(n - 1)
    BY <1>1, <1>3
  <2>7. StackInv'
    <3>1. stack' # <<>> => stack'[1].dir = asked'
      BY <1>1, <1>3, <2>1, <2>3
    <3>. QED  BY <1>1, <2>1, <2>2, <2>5, <2>6, <3>1 DEF StackInv
  <2>8. /\ disk[Top.dir] # "absent" /\ \A i \in 1..Len(stack') : stack'[i].dir # Top.dir
        /\ \A a \in Attribute : <<Top.dir, a>> \notin inPlace
    BY <1>1, <1>3, <2>1, <2>2, <2>3, <2>4, <2>6
  <2>9. NodeInv'
    <3>1. \A i \in 1..Len(todo') : todo'[i] \in Attribute
      BY <1>3, AttributeLists, ElementOfSeq, LenProperties
    <3>2. \A i, j \in 1..Len(todo') : todo'[i] = todo'[j] => i = j
      BY <1>3 DEF Metadata
    <3>. QED  BY <1>3, <2>5, <2>8, <3>1, <3>2 DEF NodeInv
  <2>. QED  BY <1>1, <1>3, <2>5, <2>7, <2>9 DEF WalkInv, EarlyInv, DiskInv, Early
<1>. QED  BY <1>1, <1>2, <1>3 DEF LeaveTree, Continue

\* StackInv is about directories, and what is left to visit.
LEMMA StackKept ==
  ASSUME TypeInv, WalkInv, NEW f \in Node, UNCHANGED <<format, asked, stack>>,
         \A i \in 1..Len(stack) : stack[i].dir # f /\ f \notin stack[i].rest,
         \A p \in Path : p # f => disk'[p] = disk[p],
         \A x \in inPlace' : x \in inPlace \/ x[1] = f
  PROVE  StackInv'
<1>1. \A i \in 1..Len(stack) : \A c \in stack[i].rest : c \in Path /\ c # f
  BY FrameTypes, Paths
<1>2. \A i \in 1..Len(stack) : stack[i].dir \in Path /\ stack[i].dir # f
  BY FrameTypes
<1>3. \A i \in 1..Len(stack) : \A a \in Attribute : <<stack[i].dir, a>> \notin inPlace'
  BY <1>2 DEF WalkInv, StackInv
<1>. QED  BY <1>1, <1>2, <1>3 DEF WalkInv, StackInv

LEMMA OpenFileWalk ==
  ASSUME TypeInv, WalkInv, OpenFile
  PROVE  WalkInv'
<1>1. pc = "open" /\ node \in File /\ node \in Node /\ node \in Path /\ UNCHANGED <<format, asked>>
  BY Paths DEF OpenFile, TypeInv, NodeKind
<1>2. CASE Return("error")
  BY <1>1, <1>2, ReturnWalk DEF Return, call, files, attributes
<1>3. CASE /\ RoomAt(node) /\ disk[node] # "dir"
           /\ EntryAt(node, "file")
           /\ pc' = "blobs" /\ UNCHANGED <<call, failed>>
  <2>1. /\ \A p \in Path : disk'[p] = IF p = node THEN "file" ELSE disk[p]
        /\ inPlace' \subseteq inPlace /\ UNCHANGED <<stack, node>>
    BY <1>1, <1>3 DEF EntryAt, TypeInv, TypeFiles, call
  <2>2. \A i \in 1..Len(stack) : stack[i].dir # node /\ node \notin stack[i].rest
    <3>1. \A i \in 1..Len(stack) : stack[i].dir # node
      BY <1>1, FrameTypes, Paths
    <3>2. stack = <<>> => Len(stack) = 0
      BY EmptySeq
    <3>. QED  BY <1>1, <3>1, <3>2 DEF WalkInv, NodeInv
  <2>3. StackInv'
    BY <1>1, <2>1, <2>2, StackKept
  <2>4. DiskInv'
    <3>1. node # asked => node # Root /\ Parent[node] \in Path /\ disk'[Parent[node]] # "absent"
      <4>1. node # Root
        BY <1>1, Paths
      <4>2. Parent[node] \in Path
        BY <1>1, <4>1, Paths
      <4>. QED  BY <1>3, <2>1, <4>1, <4>2 DEF RoomAt
    <3>2. \A p \in Path : disk[p] # "absent" /\ p # asked =>
             p \in Node \ {Root} /\ disk'[Parent[p]] # "absent"
      BY <2>1, Paths DEF WalkInv, DiskInv
    <3>3. \A x \in inPlace : x[1] \in Path /\ disk'[x[1]] # "absent"
      BY <2>1, Paths DEF WalkInv, DiskInv, TypeInv, TypeAttributes
    <3>. QED  BY <1>1, <2>1, <3>1, <3>2, <3>3 DEF DiskInv
  <2>5. NodeInv'
    <3>1. \A a \in Attribute : <<node, a>> \notin inPlace
      BY <1>1 DEF WalkInv, NodeInv
    <3>. QED  BY <1>1, <1>3, <2>1, <2>2, <3>1 DEF NodeInv
  <2>. QED  BY <1>3, <2>3, <2>4, <2>5 DEF WalkInv, EarlyInv, Early
<1>. QED  BY <1>2, <1>3 DEF OpenFile, Continue

LEMMA WriteBlobWalk ==
  ASSUME TypeInv, WalkInv, WriteBlob
  PROVE  WalkInv'
<1>1. /\ pc = "blobs" /\ UNCHANGED <<format, asked, pc, stack, node, disk>>
      /\ inPlace' \subseteq inPlace
  BY DEF WriteBlob, call
<1>. QED  BY <1>1 DEF WalkInv, EarlyInv, StackInv, DiskInv, NodeInv, Early

LEMMA CloseFileWalk ==
  ASSUME TypeInv, WalkInv, CloseFile
  PROVE  WalkInv'
<1>1. /\ pc = "blobs" /\ pc' = "attributes" /\ todo' = FileAttributes
      /\ UNCHANGED <<format, asked, stack, node, disk, inPlace>>
  BY DEF CloseFile, Continue, files, attributes
<1>2. \A i \in 1..Len(todo') : todo'[i] \in Attribute
  BY <1>1, AttributeLists, ElementOfSeq, LenProperties
<1>3. \A i, j \in 1..Len(todo') : todo'[i] = todo'[j] => i = j
  BY <1>1 DEF FileAttributes
<1>. QED  BY <1>1, <1>2, <1>3 DEF WalkInv, EarlyInv, StackInv, DiskInv, NodeInv, Early

\* The next attribute of the node in hand is applied or passed over.
LEMMA AttributeWalk ==
  ASSUME TypeInv, WalkInv, pc = "attributes", todo # <<>>, todo' = Tail(todo),
         UNCHANGED <<format, asked, pc, stack, node, disk>>,
         inPlace' \subseteq inPlace \cup {<<node, Head(todo)>>}
  PROVE  WalkInv'
<1>. DEFINE n == Len(todo)
<1>1. todo \in Seq(Attribute) /\ n \in Nat \ {0} /\ Head(todo) = todo[1]
  BY LenProperties, EmptySeq DEF TypeInv, TypeCall
<1>2. Len(todo') = n - 1 /\ \A i \in 1..(n - 1) : todo'[i] = todo[i + 1]
  BY <1>1, HeadTailProperties
<1>3. /\ disk[node] # "absent" /\ \A i \in 1..Len(stack) : stack[i].dir # node
      /\ \A i \in 1..n : <<node, todo[i]>> \notin inPlace
      /\ \A i, j \in 1..n : todo[i] = todo[j] => i = j
  BY DEF WalkInv, NodeInv
<1>. HIDE DEF n
<1>4. \A i \in 1..(n - 1) : i + 1 \in 1..n /\ 1 \in 1..n /\ i + 1 # 1
  BY <1>1
<1>5. \A i \in 1..(n - 1) : <<node, todo'[i]>> \notin inPlace'
  <2>. TAKE i \in 1..(n - 1)
  <2>1. todo[i + 1] # todo[1] /\ <<node, todo[i + 1]>> \notin inPlace
    BY <1>3, <1>4
  <2>. QED  BY <1>1, <1>2, <2>1
<1>6. \A i, j \in 1..(n - 1) : todo'[i] = todo'[j] => i = j
  <2>. SUFFICES ASSUME NEW i \in 1..(n - 1), NEW j \in 1..(n - 1), todo'[i] = todo'[j]
                PROVE  i = j
    OBVIOUS
  <2>1. i + 1 = j + 1
    BY <1>2, <1>3, <1>4
  <2>. QED  BY <1>1, <2>1
<1>7. NodeInv'
  BY <1>2, <1>3, <1>5, <1>6 DEF NodeInv
<1>8. StackInv'
  BY <1>3 DEF WalkInv, StackInv
<1>9. DiskInv' /\ EarlyInv'
  BY <1>3 DEF WalkInv, DiskInv, EarlyInv, Early
<1>. QED  BY <1>7, <1>8, <1>9 DEF WalkInv

LEMMA NodeRestoredWalk ==
  ASSUME TypeInv, WalkInv, NodeRestored
  PROVE  WalkInv'
<1>1. CASE Return("success")
  BY <1>1, ReturnWalk DEF NodeRestored, Return, call, files, attributes
<1>2. CASE stack # <<>> /\ Continue("tree") /\ UNCHANGED <<call, files, attributes>>
  BY <1>2 DEF NodeRestored, Continue, call, files, attributes, WalkInv, EarlyInv, StackInv,
     DiskInv, NodeInv, Early
<1>. QED  BY <1>1, <1>2 DEF NodeRestored

LEMMA NextWalk == TypeInv /\ WalkInv /\ [Next]_vars => WalkInv'
<1>. SUFFICES ASSUME TypeInv, WalkInv, [Next]_vars PROVE WalkInv'
  OBVIOUS
<1>1. CASE NextFolder
  BY <1>1, ReturnWalk, EarlyWalk DEF NextFolder, Return, call, files, attributes, Early
<1>2. ASSUME NEW readable \in BOOLEAN, ReadRecord(readable) PROVE WalkInv'
  BY <1>2, EarlyWalk DEF ReadRecord, Continue, call, files, attributes, Early
<1>3. CASE OpenRecord
  <2>1. CASE Return("error")
    BY <1>3, <2>1, ReturnWalk DEF OpenRecord, Return, call, files, attributes
  <2>2. CASE /\ pc' = IF format = "Arq6" THEN "destination" ELSE "root"
             /\ UNCHANGED <<call, files, attributes>>
    <3>1. pc \in Early /\ pc' \in Early /\ UNCHANGED <<format, asked, stack, disk, inPlace>>
      BY <1>3, <2>2 DEF OpenRecord, call, files, attributes, Early
    <3>. QED  BY <2>2, <3>1, EarlyWalk
  <2>. QED  BY <1>3, <2>1, <2>2 DEF OpenRecord, Continue
<1>4. CASE OpenRoot \/ MakeDestination \/ Walk
  BY <1>4, OpenRootWalk, MakeDestinationWalk, WalkWalk
<1>5. ASSUME NEW c \in Node, SkipDeleted(c) \/ MakeDirectory(c) \/ TakeFile(c) PROVE WalkInv'
  BY <1>5, SkipDeletedWalk, MakeDirectoryWalk, TakeFileWalk
<1>6. CASE EnterTree \/ LeaveTree \/ OpenFile \/ WriteBlob \/ CloseFile \/ NodeRestored
  BY <1>6, EnterTreeWalk, LeaveTreeWalk, OpenFileWalk, WriteBlobWalk, CloseFileWalk,
     NodeRestoredWalk
<1>7. CASE WriteRaises \/ CallFails
  BY <1>7, ReturnWalk DEF WriteRaises, CallFails, Return, call, files, attributes
<1>8. CASE PassAttribute \/ SkipAttribute
  BY <1>8, AttributeWalk DEF PassAttribute, SkipAttribute, files, attributes
<1>9. CASE ApplyAttribute
  BY <1>9, AttributeWalk DEF ApplyAttribute, files
<1>10. CASE UNCHANGED vars
  BY <1>10 DEF vars, call, files, attributes, WalkInv, EarlyInv, StackInv, DiskInv, NodeInv,
     Top
<1>. QED  BY <1>1, <1>2, <1>3, <1>4, <1>5, <1>6, <1>7, <1>8, <1>9, <1>10 DEF Next

LEMMA WalkInvariant == Spec => []WalkInv
  BY InitWalk, TypeInvariant, NextWalk, PTL DEF Spec

(***************************************************************************)
(* What is applied stays, but for set-id bits that the owner clears.       *)
(***************************************************************************)
Lost(p, a) ==
  a = "mode" /\ p \in ClearsSetId /\ <<p, "owner">> \in inPlace' \ inPlace

LEMMA NothingIsLost ==
  TypeInv /\ WalkInv /\ [Next]_vars =>
    \A p \in Node : \A a \in Attribute :
      <<p, a>> \in inPlace /\ <<p, a>> \notin inPlace' => Lost(p, a)
<1>. SUFFICES ASSUME TypeInv, WalkInv, [Next]_vars, NEW p \in Node, NEW a \in Attribute,
                     <<p, a>> \in inPlace, <<p, a>> \notin inPlace'
              PROVE  Lost(p, a)
  OBVIOUS
<1>1. "mtime" \in Attribute
  BY DEF Attribute
<1>2. ~UNCHANGED inPlace
  OBVIOUS
<1>3. CASE NextFolder \/ OpenRecord \/ OpenRoot \/ Walk \/ EnterTree \/ LeaveTree
             \/ WriteRaises \/ CloseFile \/ PassAttribute \/ SkipAttribute \/ NodeRestored
             \/ CallFails \/ UNCHANGED vars
  BY <1>2, <1>3 DEF NextFolder, OpenRecord, OpenRoot, Walk, EnterTree, LeaveTree, WriteRaises,
     CloseFile, PassAttribute, SkipAttribute, NodeRestored, CallFails, Return, attributes, vars
<1>4. ASSUME NEW readable \in BOOLEAN, ReadRecord(readable) PROVE FALSE
  BY <1>2, <1>4 DEF ReadRecord, attributes
<1>5. ASSUME NEW c \in Node, SkipDeleted(c) \/ TakeFile(c) PROVE FALSE
  BY <1>2, <1>5 DEF SkipDeleted, TakeFile, attributes
<1>6. CASE MakeDestination
  BY <1>2, <1>6 DEF MakeDestination, EntryAt
<1>7. ASSUME NEW c \in Node, MakeDirectory(c) PROVE FALSE
  <2>1. TakeChild(c) /\ inPlace' = inPlace \ {<<Parent[c], "mtime">>}
    BY <1>2, <1>7 DEF MakeDirectory
  <2>2. Parent[c] = Top.dir
    BY <2>1, Taken DEF ChildrenOf
  <2>. QED  BY <1>1, <2>1, <2>2, Taken
<1>8. CASE OpenFile
  <2>1. /\ pc = "open" /\ node # asked
        /\ inPlace' = inPlace \ {<<Parent[node], "mtime">>}
    BY <1>2, <1>8 DEF OpenFile, EntryAt, Return, attributes
  <2>2. stack # <<>> /\ Parent[node] = Top.dir
    BY <2>1 DEF WalkInv, NodeInv
  <2>3. Len(stack) \in 1..Len(stack)
    BY <2>2, TopType
  <2>4. <<Top.dir, "mtime">> \notin inPlace
    BY <1>1, <2>3 DEF WalkInv, StackInv, Top
  <2>. QED  BY <2>1, <2>2, <2>4
<1>9. CASE WriteBlob
  BY <1>1, <1>9 DEF WriteBlob, WalkInv, NodeInv
<1>10. CASE ApplyAttribute
  <2>1. /\ Head(todo) = "owner" /\ node \in ClearsSetId /\ p = node /\ a = "mode"
        /\ <<node, Head(todo)>> \in inPlace'
    BY <1>10 DEF ApplyAttribute
  <2>2. 1 \in 1..Len(todo) /\ Head(todo) = todo[1]
    BY <1>10, LenProperties, EmptySeq DEF ApplyAttribute, TypeInv, TypeCall
  <2>3. <<node, Head(todo)>> \notin inPlace
    BY <1>10, <2>2 DEF ApplyAttribute, WalkInv, NodeInv
  <2>. QED  BY <2>1, <2>3 DEF Lost
<1>. QED  BY <1>3, <1>4, <1>5, <1>6, <1>7, <1>8, <1>9, <1>10 DEF Next

\* No step takes an attribute from disk (applyMetadata: comes after the children
\* of a directory and the data of a file), but for set-id bits.
THEOREM AttributesAreKept == Spec => AttributesStay
<1>1. TypeInv /\ WalkInv /\ [Next]_vars =>
        [\A p \in Node : \A a \in Has[p] :
           <<p, a>> \in inPlace /\ <<p, a>> \notin inPlace'
             => a = "mode" /\ <<p, "owner">> \in inPlace' \ inPlace]_vars
  <2>1. \A p \in Node : Has[p] \subseteq Attribute
    BY RecordRestorerAssumption
  <2>. QED  BY <2>1, NothingIsLost DEF Lost
<1>. QED  BY <1>1, TypeInvariant, WalkInvariant, PTL DEF Spec, AttributesStay

(***************************************************************************)
(* Errors that no failed call explains.                                    *)
(***************************************************************************)
ErrorInv ==
  /\ outcome # "none" => pc = "done"
  /\ ErrorIsExplained

\* What the restore was asked for and its record explain the error.
Explained ==
  \/ record = None
  \/ RootKind[record] # "tree"
  \/ asked \notin Node
  \/ format = "Arq6" /\ asked \in File
  \/ /\ format = "Arq7" /\ asked \in Dir
     /\ ChildrenOf(asked) \cap (File \ Deleted) # {}

\* A path below which the walk goes wrong is not in the record.
LEMMA WalkError ==
  ASSUME TypeInv, Walk, Return("error")
  PROVE  asked \notin Node
<1>. DEFINE c == CHOOSE p \in Way[asked] \ {Root} : Parent[p] = node
<1>1. c \in Way[asked] /\ asked \in Path
  BY NextComponent, Paths DEF Walk, TypeInv, NodeKind, TypeChoice
<1>. HIDE DEF c
<1>2. c \in Nowhere \/ (c \in File /\ c # asked)
  BY DEF Walk, Return, Continue, TypeInv, TypePc, c
<1>3. asked \in Node => Way[asked] \ {asked} \subseteq Dir
  BY <1>1, PathsAssumption
<1>. QED  BY <1>1, <1>2, <1>3, RecordRestorerAssumption DEF Node

\* A directory below asked can always be made.
LEMMA MakeDirectorySucceeds ==
  ASSUME TypeInv, WalkInv, NEW c \in Node, MakeDirectory(c)
  PROVE  outcome' = outcome
<1>1. TakeChild(c) /\ c \in ChildrenOf(Top.dir) /\ Parent[c] = Top.dir
  BY Taken DEF MakeDirectory, ChildrenOf
<1>2. Len(stack) \in 1..Len(stack)
  BY <1>1, TopType DEF TakeChild
<1>3. disk[Top.dir] = "dir" \/ Top.dir = asked
  BY <1>2 DEF WalkInv, StackInv, Top
<1>4. CanChange(Top.dir)
  BY <1>1, Taken DEF CanChange, Attribute
<1>5. Parent[c] = asked \/ RoomAt(c)
  BY <1>1, <1>3, <1>4 DEF RoomAt
<1>. QED  BY <1>5 DEF MakeDirectory, Continue

\* The first file in a directory that was not made, and a file in the place of
\* which there is a directory.
LEMMA OpenFileError ==
  ASSUME TypeInv, WalkInv, OpenFile, outcome' # outcome
  PROVE  Explained
<1>1. pc = "open" /\ node \in File /\ node # Root /\ ~(RoomAt(node) /\ disk[node] # "dir")
  BY Paths DEF OpenFile, Continue, TypeInv, NodeKind
<1>2. CASE stack = <<>>
  <2>1. node = asked /\ (format = "Arq7" => disk[asked] = "absent")
    BY <1>1, <1>2 DEF WalkInv, NodeInv
  <2>2. format = "Arq6"
    BY <1>1, <2>1 DEF RoomAt, TypeInv, TypeChoice
  <2>. QED  BY <1>1, <2>1, <2>2 DEF Explained
<1>3. CASE stack # <<>>
  <2>1. Parent[node] = Top.dir /\ disk[node] = "absent" /\ node \notin Deleted
    BY <1>1, <1>3 DEF WalkInv, NodeInv
  <2>2. Len(stack) \in 1..Len(stack) /\ Top.dir \in Dir
    BY <1>3, TopType DEF Frame
  <2>3. CanChange(Top.dir)
    BY <2>2 DEF WalkInv, StackInv, CanChange, Attribute, Top
  <2>4. disk[Top.dir] # "dir"
    BY <1>1, <2>1, <2>3 DEF RoomAt
  <2>5. Top.dir = asked /\ format = "Arq7"
    BY <2>2, <2>4 DEF WalkInv, StackInv, Top
  <2>6. node \in ChildrenOf(asked)
    BY <1>1, <2>1, <2>5, Paths DEF ChildrenOf
  <2>. QED  BY <1>1, <2>1, <2>2, <2>5, <2>6 DEF Explained
<1>. QED  BY <1>2, <1>3

\* The outcome is set by the step that ends the restore.
LEMMA NextOutcome ==
  ASSUME TypeInv, WalkInv, SearchInv, outcome # "none" => pc = "done", [Next]_vars
  PROVE  /\ outcome' # "none" => pc' = "done"
         /\ outcome' = "error" /\ outcome # "error" => Explained
         /\ outcome # "none" => UNCHANGED vars
<1>1. CASE pc = "done"
  <2>1. UNCHANGED vars
    BY <1>1 DEF Next, NextFolder, ReadRecord, OpenRecord, OpenRoot, MakeDestination, Walk,
       SkipDeleted, MakeDirectory, TakeFile, TakeChild, EnterTree, LeaveTree, OpenFile,
       WriteBlob, WriteRaises, CloseFile, PassAttribute, ApplyAttribute, SkipAttribute,
       NodeRestored, CallFails, Fallible
  <2>. QED  BY <1>1, <2>1 DEF vars
<1>2. CASE pc # "done"
  <2>1. outcome = "none"
    BY <1>2
  <2>2. CASE NextFolder
    BY <2>1, <2>2 DEF NextFolder, Return, SearchInv, Explained
  <2>3. ASSUME NEW readable \in BOOLEAN, ReadRecord(readable) PROVE outcome' = "none"
    BY <2>1, <2>3 DEF ReadRecord, Continue
  <2>4. CASE OpenRecord
    BY <2>1, <2>4 DEF OpenRecord, Return, Continue, Explained
  <2>5. CASE OpenRoot
    BY <2>1, <2>5 DEF OpenRoot, Return, Continue, Explained
  <2>6. CASE Walk
    BY <2>1, <2>6, WalkError DEF Walk, Return, Continue, Explained
  <2>7. ASSUME NEW c \in Node, SkipDeleted(c) \/ MakeDirectory(c) \/ TakeFile(c)
        PROVE  outcome' = "none"
    BY <2>1, <2>7, MakeDirectorySucceeds DEF SkipDeleted, TakeFile, Continue
  <2>8. CASE OpenFile
    BY <2>1, <2>8, OpenFileError DEF OpenFile, Return, Continue
  <2>9. CASE MakeDestination \/ EnterTree \/ WriteBlob \/ CloseFile
               \/ PassAttribute \/ ApplyAttribute \/ SkipAttribute
    BY <2>1, <2>9 DEF MakeDestination, EnterTree, WriteBlob, CloseFile, PassAttribute,
       ApplyAttribute, SkipAttribute, Continue
  <2>10. CASE LeaveTree \/ WriteRaises \/ NodeRestored \/ CallFails
    BY <2>1, <2>10 DEF LeaveTree, WriteRaises, NodeRestored, CallFails, Return, Continue
  <2>11. CASE UNCHANGED vars
    BY <2>1, <2>11 DEF vars
  <2>. QED  BY <2>1, <2>2, <2>3, <2>4, <2>5, <2>6, <2>7, <2>8, <2>9, <2>10, <2>11 DEF Next
<1>. QED  BY <1>1, <1>2

LEMMA NextError ==
  TypeInv /\ WalkInv /\ SearchInv /\ ErrorInv /\ [Next]_vars => ErrorInv'
<1>. SUFFICES ASSUME TypeInv, WalkInv, SearchInv, ErrorInv, [Next]_vars PROVE ErrorInv'
  OBVIOUS
<1>1. /\ outcome' # "none" => pc' = "done"
      /\ outcome' = "error" /\ outcome # "error" => Explained
      /\ outcome # "none" => UNCHANGED vars
  BY NextOutcome DEF ErrorInv
<1>2. outcome' = "error" => Explained
  BY <1>1 DEF ErrorInv, ErrorIsExplained, Explained
<1>3. outcome' = "error" => UNCHANGED <<format, asked, record>>
  <2>1. CASE outcome = "error"
    BY <1>1, <2>1 DEF vars, choice
  <2>2. CASE outcome # "error" /\ outcome' = "error"
    <3>1. UNCHANGED <<format, asked>>
      BY <2>2 DEF Next, NextFolder, ReadRecord, OpenRecord, OpenRoot, MakeDestination, Walk,
         SkipDeleted, MakeDirectory, TakeFile, EnterTree, LeaveTree, OpenFile, WriteBlob,
         WriteRaises, CloseFile, PassAttribute, ApplyAttribute, SkipAttribute, NodeRestored,
         CallFails, vars
    <3>2. ~\E readable \in BOOLEAN : ReadRecord(readable)
      BY <2>2 DEF ReadRecord, Continue
    <3>3. UNCHANGED record
      BY <2>2, <3>2 DEF Next, NextFolder, OpenRecord, OpenRoot, MakeDestination, Walk,
         SkipDeleted, MakeDirectory, TakeFile, EnterTree, LeaveTree, OpenFile, WriteBlob,
         WriteRaises, CloseFile, PassAttribute, ApplyAttribute, SkipAttribute, NodeRestored,
         CallFails, choice, vars
    <3>. QED  BY <3>1, <3>3
  <2>. QED  BY <2>1, <2>2
<1>. QED  BY <1>1, <1>2, <1>3 DEF ErrorInv, ErrorIsExplained, Explained

LEMMA SearchInvariant == Spec => []SearchInv
  BY InitSearch, TypeInvariant, NextSearch, PTL DEF Spec

LEMMA ErrorInvariant == Spec => []ErrorInv
<1>1. Init => ErrorInv
  BY DEF Init, ErrorInv, ErrorIsExplained
<1>. QED  BY <1>1, TypeInvariant, WalkInvariant, SearchInvariant, NextError, PTL DEF Spec

\* A restore in which no call failed ends with an error only for what it was
\* asked for or its record, or for one of the two defects ErrorIsExplained names.
THEOREM ErrorsAreExplained == Spec => []ErrorIsExplained
<1>1. ErrorInv => ErrorIsExplained
  BY DEF ErrorInv
<1>. QED  BY <1>1, ErrorInvariant, PTL

(***************************************************************************)
(* A restore that succeeds is complete.                                    *)
(***************************************************************************)
Visiting == {"tree", "load", "open", "blobs", "attributes"}

\* What is on disk is wanted; what was asked for is on disk first; a file that
\* is asked for is all of the restore.
PlaceInv ==
  /\ \A p \in Path : disk[p] # "absent" /\ p # asked =>
       p \in Wanted /\ disk[asked] # "absent" /\ (p \in File => disk[p] = "file")
  /\ pc \in {"blobs", "attributes"} /\ stack = <<>> =>
       node = asked /\ asked \in File /\ disk[asked] = "file"

\* What is wanted and not on disk is below a node that is still to be visited.
Pending(p) ==
  \/ \E i \in 1..Len(stack) : Way[p] \cap stack[i].rest # {}
  \/ pc = "open" /\ p = node
  \/ pc = "load" /\ node \in Way[p]
PendingInv ==
  pc \in Visiting /\ stack # <<>> =>
    \A p \in Wanted \ {asked} : disk[p] = "absent" => Pending(p)

\* Every file has its data, except the one that is being written.
DataInv ==
  pc # "done" => \A f \in File :
    disk[f] = "file" => written[f] = Blobs[f] \/ (pc = "blobs" /\ node = f)

Settled(p, a) ==
  \/ <<p, a>> \in inPlace \cup failed
  \/ a = "mode" /\ p \in ClearsSetId /\ <<p, "owner">> \in inPlace

\* Every node has its attributes, except the ones that are not finished.
Awaiting(p, a) ==
  \/ \E i \in 1..Len(stack) : stack[i].dir = p
  \/ pc \in {"load", "blobs"} /\ p = node
  \/ pc = "attributes" /\ p = node /\ \E i \in 1..Len(todo) : todo[i] = a
  \/ p = asked /\ disk[asked] = "dir"
SettledInv ==
  pc # "done" => \A p \in Node : disk[p] # "absent" =>
    \A a \in Restorable(p) : Settled(p, a) \/ Awaiting(p, a)

CompleteInv == PlaceInv /\ PendingInv /\ DataInv /\ SettledInv /\ SuccessIsComplete

LEMMA InitComplete == Init => CompleteInv
<1>. SUFFICES ASSUME Init PROVE CompleteInv
  OBVIOUS
<1>1. Node \subseteq Path /\ \A f \in File : f \in Path
  BY Paths
<1>. QED  BY <1>1 DEF Init, CompleteInv, PlaceInv, PendingInv, Visiting, DataInv, SettledInv,
     SuccessIsComplete

LEMMA WantedChild ==
  ASSUME TypeInv, NEW d \in Dir, d \in Wanted, NEW c \in ChildrenOf(d), c \notin Deleted
  PROVE  c \in Wanted
<1>1. asked \in Way[d] /\ c \in Node \ {Root} /\ Parent[c] = d /\ asked \in Way[c]
  BY Below DEF Wanted
<1>2. Way[c] = {c} \cup Way[d]
  BY <1>1, Paths, PathsAssumption
<1>. QED  BY <1>1, <1>2 DEF Wanted

LEMMA WantedFrame ==
  ASSUME TypeInv, WalkInv, PlaceInv, NEW i \in 1..Len(stack)
  PROVE  stack[i].dir \in Wanted
<1>1. stack[i].dir \in Dir /\ stack[i].dir \in Path
  BY FrameTypes
<1>2. CASE stack[i].dir = asked
  <2>1. asked \in Way[asked]
    BY Paths, PathsAssumption DEF TypeInv, TypeChoice
  <2>. QED  BY <1>1, <1>2, <2>1, Paths DEF Wanted
<1>3. CASE stack[i].dir # asked
  BY <1>1, <1>3 DEF WalkInv, StackInv, PlaceInv
<1>. QED  BY <1>2, <1>3

\* A path below q that is wanted has a child of q on its way.
LEMMA OnTheWay ==
  ASSUME NEW p \in Node, NEW q \in Way[p], p # q
  PROVE  \E c \in ChildrenOf(q) : c \in Way[p]
<1>1. p \in Path /\ Way[p] \ {p} \subseteq Dir
  BY Paths, PathsAssumption
<1>2. PICK c \in Way[p] \ {Root} : Parent[c] = q
  BY <1>1, PathsAssumption
<1>3. c \in Node
  BY <1>1, <1>2, Paths
<1>. QED  BY <1>2, <1>3 DEF ChildrenOf

LEMMA FileEndsWay ==
  ASSUME NEW p \in Node, NEW f \in File, f \in Way[p]
  PROVE  p = f
  BY Paths, PathsAssumption

LEMMA NextPlace ==
  TypeInv /\ WalkInv /\ PlaceInv /\ [Next]_vars => PlaceInv'
<1>. SUFFICES ASSUME TypeInv, WalkInv, PlaceInv, [Next]_vars PROVE PlaceInv'
  OBVIOUS
<1>1. UNCHANGED asked
  BY DEF Next, NextFolder, ReadRecord, OpenRecord, OpenRoot, MakeDestination, Walk,
     SkipDeleted, MakeDirectory, TakeFile, EnterTree, LeaveTree, OpenFile, WriteBlob,
     WriteRaises, CloseFile, PassAttribute, ApplyAttribute, SkipAttribute, NodeRestored,
     CallFails, vars
<1>2. Wanted' = Wanted
  BY <1>1 DEF Wanted
<1>3. asked \in Path /\ disk \in [Path -> {"absent", "dir", "file"}]
  BY Paths DEF TypeInv, TypeChoice, TypeFiles
<1>4. ASSUME UNCHANGED disk, pc' \notin {"blobs", "attributes"} PROVE PlaceInv'
  BY <1>1, <1>2, <1>4 DEF PlaceInv
<1>5. ASSUME UNCHANGED <<disk, node, stack>>, pc \in {"blobs", "attributes"} PROVE PlaceInv'
  BY <1>1, <1>2, <1>5 DEF PlaceInv
<1>6. ASSUME NEW c \in Node, MakeDirectory(c) PROVE PlaceInv'
  <2>1. CASE UNCHANGED disk /\ pc' = "done"
    BY <1>4, <2>1
  <2>2. CASE disk' = [disk EXCEPT ![asked] = "dir", ![c] = "dir"] /\ pc' = "load"
    <3>1. TakeChild(c) /\ c \in Dir \ Deleted
      BY <1>6 DEF MakeDirectory
    <3>2. c \in ChildrenOf(Top.dir) /\ Top.dir \in Dir
      BY <3>1, Taken
    <3>3. Len(stack) \in 1..Len(stack)
      BY <3>1, TopType DEF TakeChild
    <3>4. c \in Wanted /\ c \notin File /\ c \in Path
      BY <3>1, <3>2, <3>3, WantedFrame, WantedChild, Paths DEF Top
    <3>5. \A p \in Path : disk'[p] = IF p \in {asked, c} THEN "dir" ELSE disk[p]
      BY <1>3, <2>2, <3>4
    <3>. QED  BY <1>1, <1>2, <1>3, <2>2, <3>4, <3>5 DEF PlaceInv
  <2>. QED  BY <1>6, <2>1, <2>2 DEF MakeDirectory, Continue
<1>7. CASE OpenFile
  <2>1. CASE Return("error")
    BY <1>4, <2>1 DEF Return, files
  <2>2. CASE /\ RoomAt(node) /\ EntryAt(node, "file") /\ pc' = "blobs"
             /\ UNCHANGED <<call, failed>>
    <3>1. pc = "open" /\ node \in File /\ node \in Path /\ UNCHANGED <<node, stack>>
      BY <1>7, <2>2, Paths DEF OpenFile, TypeInv, NodeKind, call
    <3>2. \A p \in Path : disk'[p] = IF p = node THEN "file" ELSE disk[p]
      BY <1>3, <2>2, <3>1 DEF EntryAt
    <3>3. CASE stack = <<>>
      <4>1. node = asked
        BY <3>1, <3>3 DEF WalkInv, NodeInv
      <4>. QED  BY <1>1, <1>2, <1>3, <3>1, <3>2, <3>3, <4>1 DEF PlaceInv
    <3>4. CASE stack # <<>>
      <4>1. Parent[node] = Top.dir /\ node \notin Deleted /\ node # Root
        BY <3>1, <3>4 DEF WalkInv, NodeInv
      <4>2. Len(stack) \in 1..Len(stack) /\ Top.dir \in Dir
        BY <3>4, TopType DEF Frame
      <4>3. node \in ChildrenOf(Top.dir)
        BY <3>1, <4>1, Paths DEF ChildrenOf
      <4>4. Top.dir \in Wanted
        BY <4>2, WantedFrame DEF Top
      <4>5. node \in Wanted /\ asked \in Way[Top.dir]
        BY <4>1, <4>2, <4>3, <4>4, WantedChild DEF Wanted
      <4>6. node # asked
        BY <4>2, <4>3, <4>5, Below
      <4>7. disk[asked] # "absent"
        <5>1. disk[Top.dir] = "dir" /\ Top.dir \in Path
          BY <2>2, <4>1, <4>2, <4>6, Paths DEF RoomAt
        <5>. QED  BY <5>1 DEF PlaceInv
      <4>. QED  BY <1>1, <1>2, <1>3, <2>2, <3>1, <3>2, <3>4, <4>5, <4>6, <4>7 DEF PlaceInv
    <3>. QED  BY <3>3, <3>4
  <2>. QED  BY <1>7, <2>1, <2>2 DEF OpenFile, Continue
<1>8. CASE LeaveTree
  <2>1. CASE Return("success")
    BY <1>4, <2>1 DEF Return, files
  <2>2. CASE Len(stack) # 1 /\ stack' = Front(stack) /\ UNCHANGED disk
    <3>1. stack' # <<>>
      <4>1. stack # <<>> /\ Len(stack) \in Nat \ {0}
        BY <1>8, TopType DEF LeaveTree
      <4>2. Len(stack') = Len(stack) - 1
        BY <2>2, <4>1, PopFrames
      <4>. QED  BY <2>2, <4>1, <4>2, EmptySeq
    <3>. QED  BY <1>1, <1>2, <2>2, <3>1 DEF PlaceInv
  <2>. QED  BY <1>8, <2>1, <2>2 DEF LeaveTree, files
<1>9. CASE MakeDestination
  <2>1. /\ disk' = [disk EXCEPT ![asked] = "dir"] /\ pc' \in {"root", "tree"}
    BY <1>9 DEF MakeDestination, EntryAt, Continue
  <2>. QED  BY <1>1, <1>2, <1>3, <2>1 DEF PlaceInv
<1>10. CASE NextFolder \/ OpenRecord \/ OpenRoot \/ EnterTree \/ WriteRaises \/ CallFails
  BY <1>4, <1>10 DEF NextFolder, OpenRecord, OpenRoot, EnterTree, WriteRaises, CallFails, Return,
     Continue, files
<1>11. CASE Walk
  BY <1>4, <1>11 DEF Walk, Return, Continue, files
<1>12. ASSUME NEW readable \in BOOLEAN, ReadRecord(readable) PROVE PlaceInv'
  BY <1>4, <1>12 DEF ReadRecord, Continue, files
<1>13. ASSUME NEW c \in Node, SkipDeleted(c) \/ TakeFile(c) PROVE PlaceInv'
  BY <1>4, <1>13 DEF SkipDeleted, TakeFile, TakeChild, Continue, files
<1>14. CASE WriteBlob \/ CloseFile \/ PassAttribute \/ ApplyAttribute \/ SkipAttribute
  BY <1>5, <1>14 DEF WriteBlob, CloseFile, PassAttribute, ApplyAttribute, SkipAttribute, call, files
<1>15. CASE NodeRestored
  BY <1>4, <1>15 DEF NodeRestored, Return, Continue, files
<1>16. CASE UNCHANGED vars
  BY <1>2, <1>16 DEF vars, call, files, PlaceInv
<1>. QED
  BY <1>6, <1>7, <1>8, <1>9, <1>10, <1>11, <1>12, <1>13, <1>14, <1>15, <1>16 DEF Next

\* When the walk begins, all that is wanted is below a child of asked.
LEMMA BeginPending ==
  ASSUME TypeInv, asked \in Dir, stack = <<>>, Push(asked), UNCHANGED asked
  PROVE  PendingInv'
<1>1. Len(stack) = 0
  BY EmptySeq
<1>2. Len(stack') = 1 /\ stack'[1].rest = ChildrenOf(asked)
  BY <1>1, PushFrames
<1>3. ASSUME NEW p \in Wanted \ {asked} PROVE Way[p] \cap stack'[1].rest # {}
  <2>1. p \in Node /\ asked \in Way[p] /\ p # asked
    BY DEF Wanted
  <2>. QED  BY <1>2, <2>1, OnTheWay
<1>4. Wanted' = Wanted
  BY DEF Wanted
<1>5. 1 \in 1..Len(stack')
  BY <1>2
<1>. QED  BY <1>3, <1>4, <1>5 DEF PendingInv, Pending

LEMMA TakeKeeps ==
  ASSUME TypeInv, NEW c, TakeChild(c), NEW i \in 1..Len(stack), NEW q \in stack[i].rest, q # c
  PROVE  q \in stack'[i].rest
<1>1. CASE i = Len(stack)
  BY <1>1, TakeFrames DEF Top
<1>2. CASE i # Len(stack)
  BY <1>2, TakeFrames, TopType DEF TakeChild
<1>. QED  BY <1>1, <1>2

LEMMA NextPending ==
  TypeInv /\ WalkInv /\ PlaceInv /\ PendingInv /\ [Next]_vars => PendingInv'
<1>. SUFFICES ASSUME TypeInv, WalkInv, PlaceInv, PendingInv, [Next]_vars PROVE PendingInv'
  OBVIOUS
<1>1. UNCHANGED asked
  BY DEF Next, NextFolder, ReadRecord, OpenRecord, OpenRoot, MakeDestination, Walk,
     SkipDeleted, MakeDirectory, TakeFile, EnterTree, LeaveTree, OpenFile, WriteBlob,
     WriteRaises, CloseFile, PassAttribute, ApplyAttribute, SkipAttribute, NodeRestored,
     CallFails, vars
<1>2. Wanted' = Wanted
  BY <1>1 DEF Wanted
<1>3. \A p \in Wanted : p \in Node /\ p \in Path
  BY Paths DEF Wanted
<1>4. asked \in Path /\ disk \in [Path -> {"absent", "dir", "file"}]
  BY Paths DEF TypeInv, TypeChoice, TypeFiles
<1>5. ASSUME pc' \notin Visiting \/ stack' = <<>> PROVE PendingInv'
  BY <1>5 DEF PendingInv
<1>6. ASSUME pc \in {"blobs", "attributes"}, pc' \in Visiting, UNCHANGED <<stack, disk>>
      PROVE  PendingInv'
  BY <1>1, <1>2, <1>6 DEF PendingInv, Pending, Visiting
<1>7. ASSUME NEW c \in Node, TakeChild(c), c \in Deleted \/ node' = c,
             c \in Deleted \/ (pc' = "open" /\ c \in File) \/ (pc' = "load" /\ c \in Dir),
             \A p \in Path : disk'[p] = "absent" => disk[p] = "absent"
      PROVE  PendingInv'
  <2>. SUFFICES ASSUME NEW p \in Wanted \ {asked}, disk'[p] = "absent" PROVE Pending(p)'
    BY <1>1, <1>2 DEF PendingInv
  <2>1. pc = "tree" /\ stack # <<>> /\ disk[p] = "absent" /\ p \in Node /\ p \in Path
    BY <1>3, <1>7 DEF TakeChild
  <2>2. PICK i \in 1..Len(stack) : \E q \in Way[p] : q \in stack[i].rest
    BY <2>1 DEF PendingInv, Pending, Visiting
  <2>3. PICK q \in Way[p] : q \in stack[i].rest
    BY <2>2
  <2>4. CASE q # c
    <3>1. q \in stack'[i].rest /\ i \in 1..Len(stack')
      BY <1>7, <2>3, <2>4, TakeKeeps, TakeFrames
    <3>. QED  BY <2>3, <3>1 DEF Pending
  <2>5. CASE q = c
    <3>1. c \in ChildrenOf(Top.dir) /\ Top.dir \in Dir /\ asked \in Way[Top.dir]
      BY <1>7, Taken
    <3>2. c \notin Way[asked]
      BY <3>1, Below
    <3>3. c \notin Deleted
      BY <2>3, <2>5, <3>2 DEF Wanted
    <3>4. c \in File => p = c
      BY <2>1, <2>3, <2>5, FileEndsWay
    <3>. QED  BY <1>7, <2>3, <2>5, <3>3, <3>4 DEF Pending
  <2>. QED  BY <2>4, <2>5
<1>8. ASSUME NEW c \in Node, SkipDeleted(c) PROVE PendingInv'
  <2>1. TakeChild(c) /\ c \in Deleted /\ disk' = disk
    BY <1>8 DEF SkipDeleted, files
  <2>. QED  BY <1>7, <2>1
<1>9. ASSUME NEW c \in Node, TakeFile(c) PROVE PendingInv'
  <2>1. TakeChild(c) /\ c \in File /\ node' = c /\ pc' = "open" /\ disk' = disk
    BY <1>9 DEF TakeFile, Continue, files
  <2>. QED  BY <1>7, <2>1
<1>10. ASSUME NEW c \in Node, MakeDirectory(c) PROVE PendingInv'
  <2>1. CASE pc' = "done"
    BY <1>5, <2>1 DEF Visiting
  <2>2. CASE disk' = [disk EXCEPT ![asked] = "dir", ![c] = "dir"] /\ pc' = "load"
    <3>1. \A p \in Path : disk'[p] = "absent" => disk[p] = "absent"
      BY <1>4, <2>2, Paths
    <3>. QED  BY <1>7, <1>10, <2>2, <3>1, Paths DEF MakeDirectory
  <2>. QED  BY <1>10, <2>1, <2>2 DEF MakeDirectory, Continue
<1>11. CASE EnterTree
  <2>1. /\ pc = "load" /\ pc' = "tree" /\ Push(node) /\ node \in Dir /\ disk' = disk
        /\ stack # <<>> /\ disk[node] = "dir"
    BY <1>11 DEF EnterTree, Continue, files, TypeInv, NodeKind, WalkInv, NodeInv
  <2>2. /\ Len(stack') = Len(stack) + 1 /\ Len(stack) \in Nat
        /\ \A i \in 1..Len(stack) : stack'[i] = stack[i]
        /\ stack'[Len(stack) + 1].rest = ChildrenOf(node)
    BY <2>1, PushFrames, TopType
  <2>3. ASSUME NEW p \in Wanted \ {asked}, disk'[p] = "absent" PROVE Pending(p)'
    <3>1. disk[p] = "absent" /\ p \in Node /\ p # node
      BY <1>3, <2>1, <2>3
    <3>2. CASE \E i \in 1..Len(stack) : Way[p] \cap stack[i].rest # {}
      <4>1. PICK i \in 1..Len(stack) : Way[p] \cap stack[i].rest # {}
        BY <3>2
      <4>2. i \in 1..Len(stack') /\ stack'[i] = stack[i]
        BY <2>2
      <4>. QED  BY <4>1, <4>2 DEF Pending
    <3>3. CASE node \in Way[p]
      <4>1. Way[p] \cap stack'[Len(stack')].rest # {}
        BY <2>2, <3>1, <3>3, OnTheWay
      <4>2. Len(stack') \in 1..Len(stack')
        BY <2>2
      <4>. QED  BY <4>1, <4>2 DEF Pending
    <3>. QED  BY <2>1, <3>1, <3>2, <3>3 DEF PendingInv, Pending, Visiting
  <2>. QED  BY <1>1, <1>2, <2>3 DEF PendingInv
<1>12. CASE LeaveTree
  <2>1. CASE pc' = "done"
    BY <1>5, <2>1 DEF Visiting
  <2>2. CASE stack' = Front(stack) /\ disk' = disk /\ pc' = "attributes"
    <3>1. stack # <<>> /\ Top.rest = {} /\ pc = "tree"
      BY <1>12 DEF LeaveTree
    <3>2. /\ Len(stack) \in Nat /\ Len(stack') = Len(stack) - 1
          /\ \A i \in 1..Len(stack') : stack'[i] = stack[i]
      BY <2>2, <3>1, PopFrames, TopType
    <3>3. ASSUME NEW p \in Wanted \ {asked}, disk'[p] = "absent" PROVE Pending(p)'
      <4>1. PICK i \in 1..Len(stack) : Way[p] \cap stack[i].rest # {}
        BY <2>2, <3>1, <3>3 DEF PendingInv, Pending, Visiting
      <4>2. i # Len(stack)
        BY <3>1, <4>1 DEF Top
      <4>3. i \in 1..Len(stack') /\ stack'[i] = stack[i]
        BY <3>2, <4>2
      <4>. QED  BY <4>1, <4>3 DEF Pending
    <3>. QED  BY <1>1, <1>2, <3>3 DEF PendingInv
  <2>. QED  BY <1>12, <2>1, <2>2 DEF LeaveTree, Return, Continue, files
<1>13. CASE OpenFile
  <2>1. CASE Return("error")
    BY <1>5, <2>1 DEF Return, Visiting
  <2>2. CASE EntryAt(node, "file") /\ pc' = "blobs" /\ UNCHANGED <<call, failed>>
    <3>1. pc = "open" /\ node \in Path /\ UNCHANGED stack
      BY <1>13, <2>2, Paths DEF OpenFile, TypeInv, NodeKind, call
    <3>2. \A p \in Path : disk'[p] = IF p = node THEN "file" ELSE disk[p]
      BY <1>4, <2>2, <3>1 DEF EntryAt
    <3>. QED  BY <1>1, <1>2, <1>3, <2>2, <3>1, <3>2 DEF PendingInv, Pending, Visiting
  <2>. QED  BY <1>13, <2>1, <2>2 DEF OpenFile, Continue
<1>14. CASE MakeDestination
  <2>1. stack = <<>>
    BY <1>14 DEF MakeDestination, WalkInv, EarlyInv, Early
  <2>2. CASE format = "Arq6"
    BY <1>5, <1>14, <2>2 DEF MakeDestination, Continue, Visiting
  <2>3. CASE format # "Arq6"
    <3>1. asked = Root /\ Push(Root)
      BY <1>14, <2>3 DEF MakeDestination, WalkInv, EarlyInv, TypeInv, TypeChoice
    <3>. QED  BY <1>1, <2>1, <3>1, Paths, BeginPending
  <2>. QED  BY <2>2, <2>3
<1>15. CASE OpenRoot
  <2>1. stack = <<>>
    BY <1>15 DEF OpenRoot, WalkInv, EarlyInv, Early
  <2>2. CASE asked = Root /\ Push(Root)
    BY <1>1, <2>1, <2>2, Paths, BeginPending
  <2>3. CASE pc' \in {"done", "walk", "destination"}
    BY <1>5, <2>3 DEF Visiting
  <2>. QED  BY <1>15, <2>2, <2>3 DEF OpenRoot, Return, Continue
<1>16. CASE Walk
  <2>1. stack = <<>>
    BY <1>16 DEF Walk, WalkInv, EarlyInv, Early
  <2>2. CASE asked \in Dir /\ Push(asked)
    BY <1>1, <2>1, <2>2, BeginPending
  <2>3. CASE stack' = stack
    BY <1>5, <2>1, <2>3
  <2>. QED  BY <1>16, <2>2, <2>3 DEF Walk, Return, call
<1>17. CASE NextFolder \/ OpenRecord
  <2>1. stack = <<>>
    BY <1>17 DEF NextFolder, OpenRecord, WalkInv, EarlyInv, Early
  <2>. QED  BY <1>5, <1>17, <2>1 DEF NextFolder, OpenRecord, Return, call
<1>18. ASSUME NEW readable \in BOOLEAN, ReadRecord(readable) PROVE PendingInv'
  BY <1>5, <1>18 DEF ReadRecord, call, WalkInv, EarlyInv, Early
<1>19. CASE WriteRaises \/ CallFails
  BY <1>5, <1>19 DEF WriteRaises, CallFails, Return, Visiting
<1>20. CASE WriteBlob \/ CloseFile \/ PassAttribute \/ ApplyAttribute \/ SkipAttribute
  BY <1>6, <1>20 DEF WriteBlob, CloseFile, PassAttribute, ApplyAttribute, SkipAttribute, Continue,
     call, files, Visiting
<1>21. CASE NodeRestored
  BY <1>5, <1>6, <1>21 DEF NodeRestored, Return, Continue, call, files, Visiting
<1>22. CASE UNCHANGED vars
  BY <1>2, <1>22 DEF vars, call, files, PendingInv, Pending
<1>. QED
  BY <1>8, <1>9, <1>10, <1>11, <1>12, <1>13, <1>14, <1>15, <1>16, <1>17, <1>18, <1>19, <1>20,
     <1>21, <1>22 DEF Next

LEMMA NextData ==
  TypeInv /\ WalkInv /\ DataInv /\ [Next]_vars => DataInv'
<1>. SUFFICES ASSUME TypeInv, WalkInv, DataInv, [Next]_vars PROVE DataInv'
  OBVIOUS
<1>1. asked \in Path /\ disk \in [Path -> {"absent", "dir", "file"}] /\ File \subseteq Path
  BY Paths DEF TypeInv, TypeChoice, TypeFiles
<1>2. ASSUME UNCHANGED written, pc \notin {"blobs", "done"},
             \A f \in File : disk'[f] = "file" => disk[f] = "file"
      PROVE  DataInv'
  BY <1>2 DEF DataInv
<1>3. ASSUME pc' = "done" PROVE DataInv'
  BY <1>3 DEF DataInv
<1>4. CASE NextFolder \/ OpenRecord \/ OpenRoot \/ Walk \/ EnterTree \/ LeaveTree
             \/ PassAttribute \/ SkipAttribute \/ NodeRestored
  <2>1. pc \notin {"blobs", "done"}
    BY <1>4 DEF NextFolder, OpenRecord, OpenRoot, Walk, EnterTree, LeaveTree, PassAttribute,
       SkipAttribute, NodeRestored
  <2>2. UNCHANGED files
    BY <1>4 DEF NextFolder, OpenRecord, OpenRoot, Walk, EnterTree, LeaveTree, PassAttribute,
       SkipAttribute, NodeRestored, Return
  <2>. QED  BY <1>2, <2>1, <2>2 DEF files
<1>5. CASE ApplyAttribute
  BY <1>2, <1>5 DEF ApplyAttribute, files
<1>6. ASSUME NEW readable \in BOOLEAN, ReadRecord(readable) PROVE DataInv'
  BY <1>2, <1>6 DEF ReadRecord, files
<1>7. ASSUME NEW c \in Node, SkipDeleted(c) \/ TakeFile(c) PROVE DataInv'
  BY <1>2, <1>7 DEF SkipDeleted, TakeFile, TakeChild, files
<1>8. ASSUME NEW c \in Node, MakeDirectory(c) PROVE DataInv'
  <2>1. pc = "tree" /\ UNCHANGED written /\ c \in Path
    BY <1>8, Paths DEF MakeDirectory, TakeChild
  <2>2. disk' = disk \/ disk' = [disk EXCEPT ![asked] = "dir", ![c] = "dir"]
    BY <1>8 DEF MakeDirectory
  <2>3. \A f \in File : disk'[f] = "file" => disk[f] = "file"
    BY <1>1, <2>1, <2>2
  <2>. QED  BY <1>2, <2>1, <2>3
<1>9. CASE MakeDestination
  <2>1. disk' = [disk EXCEPT ![asked] = "dir"] /\ pc = "destination" /\ UNCHANGED written
    BY <1>9 DEF MakeDestination, EntryAt
  <2>2. \A f \in File : disk'[f] = "file" => disk[f] = "file"
    BY <1>1, <2>1
  <2>. QED  BY <1>2, <2>1, <2>2
<1>10. CASE OpenFile
  <2>1. CASE Return("error")
    BY <1>3, <2>1 DEF Return
  <2>2. CASE /\ EntryAt(node, "file") /\ written' = [written EXCEPT ![node] = 0]
             /\ pc' = "blobs" /\ UNCHANGED <<call, failed>>
    <3>1. pc = "open" /\ node' = node
      BY <1>10, <2>2 DEF OpenFile, call
    <3>2. \A f \in File : f # node => disk'[f] = disk[f] /\ written'[f] = written[f]
      BY <1>1, <2>2 DEF EntryAt, TypeInv, TypeFiles
    <3>. QED  BY <2>2, <3>1, <3>2 DEF DataInv
  <2>. QED  BY <1>10, <2>1, <2>2 DEF OpenFile, Continue
<1>11. CASE WriteBlob
  <2>1. /\ pc = "blobs" /\ UNCHANGED <<pc, node, disk>>
        /\ written' = [written EXCEPT ![node] = written[node] + 1]
    BY <1>11 DEF WriteBlob, call
  <2>2. \A f \in File : f # node => written'[f] = written[f]
    BY <2>1 DEF TypeInv, TypeFiles
  <2>. QED  BY <2>1, <2>2 DEF DataInv
<1>12. CASE CloseFile
  BY <1>12 DEF CloseFile, files, DataInv
<1>13. CASE WriteRaises \/ CallFails
  BY <1>3, <1>13 DEF WriteRaises, CallFails, Return
<1>14. CASE UNCHANGED vars
  BY <1>14 DEF vars, call, files, DataInv
<1>. QED
  BY <1>4, <1>5, <1>6, <1>7, <1>8, <1>9, <1>10, <1>11, <1>12, <1>13, <1>14 DEF Next

LEMMA RestorableTypes ==
  \A p \in Node : /\ Restorable(p) \subseteq Has[p]
                  /\ Restorable(p) \subseteq Attribute
                  /\ p \notin File => Restorable(p) \subseteq Attribute \ {"xattrs"}
  BY RecordRestorerAssumption DEF Restorable

LEMMA SettledStays ==
  TypeInv /\ WalkInv /\ [Next]_vars =>
    \A p \in Node : \A a \in Attribute : Settled(p, a) => Settled(p, a)'
<1>. SUFFICES ASSUME TypeInv, WalkInv, [Next]_vars,
                     NEW p \in Node, NEW a \in Attribute, Settled(p, a)
              PROVE  Settled(p, a)'
  OBVIOUS
<1>1. failed \subseteq failed'
  BY DEF Next, NextFolder, ReadRecord, OpenRecord, OpenRoot, MakeDestination, Walk,
     SkipDeleted, MakeDirectory, TakeFile, EnterTree, LeaveTree, OpenFile, WriteBlob,
     WriteRaises, CloseFile, PassAttribute, ApplyAttribute, SkipAttribute, NodeRestored,
     CallFails, Return, attributes, vars
<1>2. \A b \in Attribute : <<p, b>> \in inPlace =>
        <<p, b>> \in inPlace' \/ (b = "mode" /\ p \in ClearsSetId /\ <<p, "owner">> \in inPlace')
  BY NothingIsLost DEF Lost
<1>3. <<p, "owner">> \in inPlace => <<p, "owner">> \in inPlace'
  BY <1>2 DEF Attribute
<1>. QED  BY <1>1, <1>2, <1>3 DEF Settled

\* After an attribute is dealt with, the others of the node still wait.
LEMMA NextAttributeSettled ==
  ASSUME TypeInv, WalkInv, SettledInv, [Next]_vars, pc = "attributes", todo # <<>>,
         todo' = Tail(todo), UNCHANGED <<asked, pc, stack, node, disk>>,
         \A p \in Node : \A a \in Has[p] :
           p = node /\ a = Head(todo) => Settled(p, a)'
  PROVE  SettledInv'
<1>. DEFINE n == Len(todo)
<1>1. todo \in Seq(Attribute) /\ n \in Nat \ {0} /\ Head(todo) = todo[1]
  BY LenProperties, EmptySeq DEF TypeInv, TypeCall
<1>2. Len(todo') = n - 1 /\ \A i \in 1..(n - 1) : todo'[i] = todo[i + 1]
  BY <1>1, HeadTailProperties
<1>. HIDE DEF n
<1>3. ASSUME NEW p \in Node, disk[p] # "absent", NEW a \in Restorable(p)
      PROVE  Settled(p, a)' \/ Awaiting(p, a)'
  <2>1. a \in Attribute /\ a \in Has[p]
    BY <1>3, RestorableTypes
  <2>2. Settled(p, a) \/ Awaiting(p, a)
    BY <1>3 DEF SettledInv
  <2>3. CASE Settled(p, a)
    BY <2>1, <2>3, SettledStays
  <2>4. CASE p = node /\ \E i \in 1..n : todo[i] = a
    <3>1. PICK i \in 1..n : todo[i] = a
      BY <2>4
    <3>2. CASE i = 1
      BY <1>1, <2>1, <2>4, <3>1, <3>2
    <3>3. CASE i # 1
      <4>1. i - 1 \in 1..(n - 1) /\ (i - 1) + 1 = i
        BY <1>1, <3>3
      <4>2. todo'[i - 1] = a
        BY <1>2, <3>1, <4>1
      <4>. QED  BY <1>2, <2>4, <4>1, <4>2 DEF Awaiting
    <3>. QED  BY <3>2, <3>3
  <2>5. CASE ~(p = node /\ \E i \in 1..n : todo[i] = a) /\ Awaiting(p, a)
    BY <2>5 DEF Awaiting, n
  <2>. QED  BY <2>2, <2>3, <2>4, <2>5
<1>4. \A p \in Node : Restorable(p)' = Restorable(p)
  BY DEF Restorable
<1>. QED  BY <1>3, <1>4 DEF SettledInv

LEMMA MetadataCovers ==
  /\ \A a \in Attribute \ {"xattrs"} : \E i \in 1..Len(Metadata) : Metadata[i] = a
  /\ \A a \in Attribute : \E i \in 1..Len(FileAttributes) : FileAttributes[i] = a
<1>1. /\ Len(Metadata) = 4 /\ Metadata[1] = "mode" /\ Metadata[2] = "owner"
      /\ Metadata[3] = "flags" /\ Metadata[4] = "mtime"
  BY DEF Metadata
<1>2. /\ Len(FileAttributes) = 5 /\ FileAttributes[1] = "xattrs" /\ FileAttributes[2] = "mode"
      /\ FileAttributes[3] = "owner" /\ FileAttributes[4] = "flags" /\ FileAttributes[5] = "mtime"
  BY DEF FileAttributes
<1>3. 1 \in 1..4 /\ 2 \in 1..4 /\ 3 \in 1..4 /\ 4 \in 1..4
  OBVIOUS
<1>4. 1 \in 1..5 /\ 2 \in 1..5 /\ 3 \in 1..5 /\ 4 \in 1..5 /\ 5 \in 1..5
  OBVIOUS
<1>. QED  BY <1>1, <1>2, <1>3, <1>4 DEF Attribute

LEMMA NextSettled ==
  TypeInv /\ WalkInv /\ SettledInv /\ [Next]_vars => SettledInv'
<1>. SUFFICES ASSUME TypeInv, WalkInv, SettledInv, [Next]_vars PROVE SettledInv'
  OBVIOUS
<1>1. asked \in Path /\ disk \in [Path -> {"absent", "dir", "file"}] /\ Node \subseteq Path
  BY Paths DEF TypeInv, TypeChoice, TypeFiles
<1>2. UNCHANGED asked
  BY DEF Next, NextFolder, ReadRecord, OpenRecord, OpenRoot, MakeDestination, Walk,
     SkipDeleted, MakeDirectory, TakeFile, EnterTree, LeaveTree, OpenFile, WriteBlob,
     WriteRaises, CloseFile, PassAttribute, ApplyAttribute, SkipAttribute, NodeRestored,
     CallFails, vars
<1>3. \A p \in Node : Restorable(p)' = Restorable(p)
  BY <1>2 DEF Restorable
\* A step is right if what it makes and what waits no longer are accounted for.
<1>4. ASSUME pc # "done",
             \A p \in Node : disk'[p] # "absent" /\ disk[p] = "absent" =>
               \A a \in Restorable(p) : Awaiting(p, a)',
             \A p \in Node : disk[p] # "absent" =>
               \A a \in Restorable(p) : Awaiting(p, a) => Settled(p, a)' \/ Awaiting(p, a)'
      PROVE  SettledInv'
  <2>. SUFFICES ASSUME NEW p \in Node, disk'[p] # "absent", NEW a \in Restorable(p)
                PROVE  Settled(p, a)' \/ Awaiting(p, a)'
    BY <1>3 DEF SettledInv
  <2>1. a \in Attribute
    BY RestorableTypes
  <2>2. CASE disk[p] # "absent"
    <3>1. Settled(p, a) \/ Awaiting(p, a)
      BY <1>4, <2>2 DEF SettledInv
    <3>. QED  BY <1>4, <2>1, <2>2, <3>1, SettledStays
  <2>3. CASE disk[p] = "absent"
    BY <1>4, <2>3
  <2>. QED  BY <2>2, <2>3
<1>5. ASSUME pc' = "done" PROVE SettledInv'
  BY <1>5 DEF SettledInv
\* A step that takes no call from the stack and finishes no node.
<1>6. ASSUME pc \notin {"load", "blobs", "attributes", "done"}, UNCHANGED disk,
             \A i \in 1..Len(stack) : i \in 1..Len(stack') /\ stack'[i].dir = stack[i].dir
      PROVE  SettledInv'
  BY <1>2, <1>4, <1>6 DEF Awaiting
<1>7. CASE NextFolder \/ OpenRecord \/ OpenRoot \/ Walk
  <2>1. pc \in Early /\ UNCHANGED disk /\ stack = <<>>
    BY <1>7 DEF NextFolder, OpenRecord, OpenRoot, Walk, Return, files, Early, WalkInv, EarlyInv
  <2>2. Len(stack) = 0
    BY <2>1, EmptySeq
  <2>. QED  BY <1>6, <2>1, <2>2 DEF Early
<1>8. ASSUME NEW readable \in BOOLEAN, ReadRecord(readable) PROVE SettledInv'
  BY <1>6, <1>8 DEF ReadRecord, call, files
<1>9. CASE MakeDestination
  <2>1. /\ pc = "destination" /\ disk' = [disk EXCEPT ![asked] = "dir"]
        /\ stack = <<>>
    BY <1>9 DEF MakeDestination, EntryAt, WalkInv, EarlyInv, Early
  <2>2. Len(stack) = 0
    BY <2>1, EmptySeq
  <2>. QED  BY <1>1, <1>2, <1>4, <2>1, <2>2 DEF Awaiting
<1>10. ASSUME NEW c \in Node, SkipDeleted(c) \/ TakeFile(c) PROVE SettledInv'
  BY <1>6, <1>10, TakeFrames DEF SkipDeleted, TakeFile, TakeChild, files
<1>11. ASSUME NEW c \in Node, MakeDirectory(c) PROVE SettledInv'
  <2>1. pc = "tree" /\ node' = c /\ TakeChild(c)
    BY <1>11 DEF MakeDirectory, TakeChild
  <2>2. CASE pc' = "load" /\ disk' = [disk EXCEPT ![asked] = "dir", ![c] = "dir"]
    <3>1. \A p \in Path : disk'[p] = IF p \in {asked, c} THEN "dir" ELSE disk[p]
      BY <1>1, <2>2
    <3>2. \A i \in 1..Len(stack) : i \in 1..Len(stack') /\ stack'[i].dir = stack[i].dir
      BY <2>1, TakeFrames
    <3>. QED  BY <1>1, <1>2, <1>4, <2>1, <2>2, <3>1, <3>2 DEF Awaiting
  <2>. QED  BY <1>5, <1>11, <2>2 DEF MakeDirectory, Continue
<1>12. CASE EnterTree
  <2>1. pc = "load" /\ pc' = "tree" /\ Push(node) /\ node \in Dir /\ UNCHANGED <<disk, node>>
    BY <1>12 DEF EnterTree, Continue, files, TypeInv, NodeKind
  <2>2. /\ Len(stack) \in Nat /\ Len(stack') = Len(stack) + 1
        /\ \A i \in 1..Len(stack) : stack'[i] = stack[i]
        /\ stack'[Len(stack) + 1].dir = node
    BY <2>1, PushFrames, LenProperties DEF TypeInv, TypeCall
  <2>3. \A i \in 1..Len(stack) : i \in 1..Len(stack') /\ stack'[i].dir = stack[i].dir
    BY <2>2
  <2>4. Len(stack') \in 1..Len(stack') /\ stack'[Len(stack')].dir = node
    BY <2>2
  <2>. QED  BY <1>2, <1>4, <2>1, <2>3, <2>4 DEF Awaiting
<1>13. CASE LeaveTree
  <2>1. CASE pc' = "done"
    BY <1>5, <2>1
  <2>2. CASE /\ stack' = Front(stack) /\ node' = Top.dir /\ todo' = Metadata
             /\ pc' = "attributes" /\ UNCHANGED disk
    <3>1. stack # <<>> /\ pc = "tree"
      BY <1>13 DEF LeaveTree
    <3>2. /\ Len(stack) \in Nat /\ Len(stack') = Len(stack) - 1 /\ Top.dir \in Dir
          /\ \A i \in 1..Len(stack') : stack'[i] = stack[i]
      BY <2>2, <3>1, PopFrames, TopType DEF Frame
    <3>3. ASSUME NEW p \in Node, NEW a \in Restorable(p), Awaiting(p, a)
          PROVE  Awaiting(p, a)'
      <4>1. CASE p = asked /\ disk[asked] = "dir"
        BY <1>2, <2>2, <4>1 DEF Awaiting
      <4>2. CASE \E i \in 1..Len(stack) : stack[i].dir = p
        <5>1. PICK i \in 1..Len(stack) : stack[i].dir = p
          BY <4>2
        <5>2. CASE i = Len(stack)
          <6>1. p = node' /\ p \in Dir /\ p \notin File
            BY <2>2, <3>2, <5>1, <5>2, Paths DEF Top
          <6>2. \E k \in 1..Len(todo') : todo'[k] = a
            BY <2>2, <6>1, MetadataCovers, RestorableTypes
          <6>. QED  BY <2>2, <6>1, <6>2 DEF Awaiting
        <5>3. CASE i # Len(stack)
          <6>1. i \in 1..Len(stack') /\ stack'[i].dir = p
            BY <3>2, <5>1, <5>3
          <6>. QED  BY <6>1 DEF Awaiting
        <5>. QED  BY <5>2, <5>3
      <4>. QED  BY <3>1, <3>3, <4>1, <4>2 DEF Awaiting
    <3>. QED  BY <1>4, <2>2, <3>1, <3>3
  <2>. QED  BY <1>13, <2>1, <2>2 DEF LeaveTree, Return, Continue, files
<1>14. CASE OpenFile
  <2>1. CASE Return("error")
    BY <1>5, <2>1 DEF Return
  <2>2. CASE disk[node] # "dir" /\ EntryAt(node, "file") /\ pc' = "blobs" /\ UNCHANGED <<call, failed>>
    <3>1. pc = "open" /\ node \in Path /\ UNCHANGED <<stack, node>>
      BY <1>14, <2>2, Paths DEF OpenFile, TypeInv, NodeKind, call
    <3>2. \A p \in Path : disk'[p] = IF p = node THEN "file" ELSE disk[p]
      BY <1>1, <2>2, <3>1 DEF EntryAt
    <3>. QED  BY <1>1, <1>2, <1>4, <2>2, <3>1, <3>2 DEF Awaiting
  <2>. QED  BY <1>14, <2>1, <2>2 DEF OpenFile, Continue
<1>15. CASE WriteBlob
  <2>1. pc = "blobs" /\ UNCHANGED <<pc, stack, node, disk>>
    BY <1>15 DEF WriteBlob, call
  <2>. QED  BY <1>2, <1>4, <2>1 DEF Awaiting
<1>16. CASE CloseFile
  <2>1. /\ pc = "blobs" /\ pc' = "attributes" /\ todo' = FileAttributes
        /\ UNCHANGED <<stack, node, disk>>
    BY <1>16 DEF CloseFile, Continue, files
  <2>2. \A p \in Node : \A a \in Restorable(p) : \E k \in 1..Len(todo') : todo'[k] = a
    BY <2>1, MetadataCovers, RestorableTypes
  <2>. QED  BY <1>2, <1>4, <2>1, <2>2 DEF Awaiting
<1>17. CASE PassAttribute
  <2>1. /\ pc = "attributes" /\ todo # <<>> /\ todo' = Tail(todo) /\ Head(todo) \notin Has[node]
        /\ UNCHANGED <<asked, pc, stack, node, disk>>
    BY <1>17 DEF PassAttribute, files
  <2>. QED  BY <2>1, NextAttributeSettled
<1>18. CASE ApplyAttribute
  <2>1. /\ pc = "attributes" /\ todo # <<>> /\ todo' = Tail(todo)
        /\ UNCHANGED <<asked, pc, stack, node, disk>>
        /\ inPlace' = (inPlace \cup {<<node, Head(todo)>>})
                        \ (IF Head(todo) = "owner" /\ node \in ClearsSetId
                             THEN {<<node, "mode">>} ELSE {})
    BY <1>18 DEF ApplyAttribute, files
  <2>2. \A p \in Node : \A a \in Has[p] : p = node /\ a = Head(todo) => Settled(p, a)'
    <3>1. <<node, Head(todo)>> \in inPlace'
      BY <2>1
    <3>. QED  BY <3>1 DEF Settled
  <2>. QED  BY <2>1, <2>2, NextAttributeSettled
<1>19. CASE SkipAttribute
  <2>1. /\ pc = "attributes" /\ todo # <<>> /\ todo' = Tail(todo)
        /\ UNCHANGED <<asked, pc, stack, node, disk>>
        /\ failed' = failed \cup {<<node, Head(todo)>>}
    BY <1>19 DEF SkipAttribute, files
  <2>2. \A p \in Node : \A a \in Has[p] : p = node /\ a = Head(todo) => Settled(p, a)'
    BY <2>1 DEF Settled
  <2>. QED  BY <2>1, <2>2, NextAttributeSettled
<1>20. CASE NodeRestored
  <2>1. CASE pc' = "done"
    BY <1>5, <2>1
  <2>2. CASE pc' = "tree" /\ UNCHANGED <<call, files, attributes>>
    <3>1. pc = "attributes" /\ Len(todo) = 0 /\ UNCHANGED <<stack, disk>>
      BY <1>20, <2>2, EmptySeq DEF NodeRestored, call, files
    <3>. QED  BY <1>2, <1>4, <2>2, <3>1 DEF Awaiting
  <2>. QED  BY <1>20, <2>1, <2>2 DEF NodeRestored, Return, Continue
<1>21. CASE WriteRaises \/ CallFails
  BY <1>5, <1>21 DEF WriteRaises, CallFails, Return
<1>22. CASE UNCHANGED vars
  BY <1>3, <1>22 DEF vars, call, files, attributes, SettledInv, Settled, Awaiting
<1>. QED
  BY <1>7, <1>8, <1>9, <1>10, <1>11, <1>12, <1>13, <1>14, <1>15, <1>16, <1>17, <1>18, <1>19,
     <1>20, <1>21, <1>22 DEF Next

\* restoreTree: returns to restore: after nothing is left to visit.
LEMMA TreeComplete ==
  ASSUME TypeInv, WalkInv, CompleteInv, LeaveTree, Len(stack) = 1
  PROVE  SuccessIsComplete'
<1>1. /\ pc = "tree" /\ stack # <<>> /\ Top.rest = {} /\ Top = stack[1]
      /\ UNCHANGED <<asked, files, attributes>>
  BY DEF LeaveTree, Return, Top
<1>2. 1 \in 1..Len(stack) /\ \A i \in 1..Len(stack) : i = 1
  OBVIOUS
<1>3. stack[1].dir = asked /\ asked \in Dir /\ asked \in Path
  BY <1>1, <1>2, FrameTypes DEF WalkInv, StackInv
<1>4. \A p \in Wanted \ {asked} : disk[p] # "absent"
  BY <1>1, <1>2 DEF CompleteInv, PendingInv, Pending, Visiting
<1>5. \A p \in Wanted : p \in Node /\ p \in Path
  BY Paths DEF Wanted
<1>6. asked \in Wanted
  BY <1>2, <1>3, WantedFrame DEF CompleteInv
<1>7. \A p \in Path : disk[p] # "absent" /\ p # asked =>
        p \in Wanted /\ disk[asked] # "absent" /\ (p \in File => disk[p] = "file")
  BY DEF CompleteInv, PlaceInv
<1>8. {p \in Path : disk[p] # "absent"} \in {Wanted, Wanted \ {asked}}
  BY <1>3, <1>4, <1>5, <1>6, <1>7
<1>9. disk[asked] = "absent" => Wanted = {asked}
  BY <1>4, <1>5, <1>6, <1>7
<1>10. ASSUME NEW p \in Wanted \cap File PROVE disk[p] = "file" /\ written[p] = Blobs[p]
  <2>1. p # asked /\ p \in Path
    BY <1>3, <1>5, <1>10, Paths
  <2>2. disk[p] = "file"
    BY <1>4, <1>7, <1>10, <2>1
  <2>. QED  BY <1>1, <1>10, <2>2 DEF CompleteInv, DataInv
<1>11. ASSUME NEW p \in Wanted, NEW a \in Restorable(p) PROVE Settled(p, a)
  <2>1. p # asked
    BY <1>3, <1>11, Paths DEF Restorable
  <2>2. Settled(p, a) \/ Awaiting(p, a)
    BY <1>1, <1>4, <1>5, <1>11, <2>1 DEF CompleteInv, SettledInv
  <2>. QED  BY <1>1, <1>2, <1>3, <2>1, <2>2 DEF Awaiting
<1>12. Wanted' = Wanted /\ \A p \in Node : Restorable(p)' = Restorable(p)
  BY <1>1 DEF Wanted, Restorable
<1>. QED
  BY <1>1, <1>5, <1>8, <1>9, <1>10, <1>11, <1>12 DEF SuccessIsComplete, Settled, files, attributes

\* A file that was asked for is all that is wanted.
LEMMA FileComplete ==
  ASSUME TypeInv, WalkInv, CompleteInv, NodeRestored, stack = <<>>
  PROVE  SuccessIsComplete'
<1>1. pc = "attributes" /\ todo = <<>> /\ UNCHANGED <<asked, files, attributes>>
  BY DEF NodeRestored, Return
<1>2. asked \in File /\ asked \in Node /\ asked \in Path /\ disk[asked] = "file"
  BY <1>1, Paths DEF CompleteInv, PlaceInv
<1>3. Wanted = {asked}
  <2>1. asked \in Way[asked]
    BY <1>2, PathsAssumption
  <2>2. \A p \in Wanted : p \in Node /\ asked \in Way[p]
    BY DEF Wanted
  <2>3. \A p \in Wanted : p = asked
    BY <1>2, <2>2, FileEndsWay
  <2>. QED  BY <1>2, <2>1, <2>3 DEF Wanted
<1>4. {p \in Path : disk[p] # "absent"} = {asked}
  BY <1>2, <1>3 DEF CompleteInv, PlaceInv
<1>5. written[asked] = Blobs[asked]
  BY <1>1, <1>2 DEF CompleteInv, DataInv
<1>6. Len(stack) = 0 /\ Len(todo) = 0
  BY <1>1, EmptySeq
<1>7. \A a \in Restorable(asked) : Settled(asked, a)
  BY <1>1, <1>2, <1>6 DEF CompleteInv, SettledInv, Awaiting
<1>8. Wanted' = Wanted /\ \A p \in Node : Restorable(p)' = Restorable(p)
  BY <1>1 DEF Wanted, Restorable
<1>. QED
  BY <1>1, <1>2, <1>3, <1>4, <1>5, <1>7, <1>8 DEF SuccessIsComplete, Settled, files, attributes

LEMMA NextComplete ==
  TypeInv /\ WalkInv /\ SearchInv /\ ErrorInv /\ CompleteInv /\ [Next]_vars => CompleteInv'
<1>. SUFFICES ASSUME TypeInv, WalkInv, SearchInv, ErrorInv, CompleteInv, [Next]_vars
              PROVE  CompleteInv'
  OBVIOUS
<1>1. PlaceInv' /\ PendingInv' /\ DataInv' /\ SettledInv'
  BY NextPlace, NextPending, NextData, NextSettled DEF CompleteInv
<1>2. outcome # "none" => UNCHANGED vars
  BY NextOutcome DEF ErrorInv
<1>3. CASE UNCHANGED vars
  BY <1>1, <1>3 DEF vars, files, attributes, CompleteInv, SuccessIsComplete, Wanted, Restorable
<1>4. CASE outcome = "none"
  <2>1. CASE outcome' # "success"
    BY <1>1, <2>1 DEF CompleteInv, SuccessIsComplete
  <2>2. CASE outcome' = "success"
    <3>1. CASE LeaveTree
      BY <1>1, <1>4, <2>2, <3>1, TreeComplete DEF LeaveTree, Continue, CompleteInv
    <3>2. CASE NodeRestored
      BY <1>1, <1>4, <2>2, <3>2, FileComplete DEF NodeRestored, Continue, CompleteInv
    <3>3. ASSUME NEW readable \in BOOLEAN, ReadRecord(readable) PROVE FALSE
      BY <1>4, <2>2, <3>3 DEF ReadRecord, Continue
    <3>4. ASSUME NEW c \in Node, SkipDeleted(c) \/ MakeDirectory(c) \/ TakeFile(c) PROVE FALSE
      BY <1>4, <2>2, <3>4 DEF SkipDeleted, MakeDirectory, TakeFile, Continue
    <3>5. CASE NextFolder \/ OpenRecord \/ OpenRoot \/ Walk \/ OpenFile \/ WriteRaises \/ CallFails
      BY <1>4, <2>2, <3>5 DEF NextFolder, OpenRecord, OpenRoot, Walk, OpenFile, WriteRaises,
         CallFails, Return, Continue
    <3>6. CASE MakeDestination \/ EnterTree \/ WriteBlob \/ CloseFile
                 \/ PassAttribute \/ ApplyAttribute \/ SkipAttribute
      BY <1>4, <2>2, <3>6 DEF MakeDestination, EnterTree, WriteBlob, CloseFile, PassAttribute,
         ApplyAttribute, SkipAttribute, Continue
    <3>. QED  BY <1>3, <3>1, <3>2, <3>3, <3>4, <3>5, <3>6 DEF Next
  <2>. QED  BY <2>1, <2>2
<1>. QED  BY <1>1, <1>2, <1>3, <1>4 DEF CompleteInv

(***************************************************************************)
(* Success means that every file and directory that is wanted is there,    *)
(* with its data and its attributes (restoreTree:toPath:error:).           *)
(***************************************************************************)
THEOREM SuccessMeansComplete == Spec => []SuccessIsComplete
<1>1. CompleteInv => SuccessIsComplete
  BY DEF CompleteInv
<1>. QED
  BY <1>1, InitComplete, TypeInvariant, WalkInvariant, SearchInvariant, ErrorInvariant,
     NextComplete, PTL DEF Spec
=============================================================================
