--------------------------- MODULE RemoteFS_proofs ---------------------------
(***************************************************************************)
(* Proofs about RemoteFS, for every tree of paths, every set of processes  *)
(* and what they are used for, and every bound.                            *)
(***************************************************************************)
EXTENDS RemoteFS, Tree_proofs, SequenceTheorems, FiniteSetTheorems

(***************************************************************************)
(* The record of what a process is doing.                                  *)
(***************************************************************************)
Labels == Inside \cup {"idle", "asking", "waiting", "write", "rename", "rmcache"}
CallRecord ==
  [op : Operation \cup {None}, path : Path \cup Dir \cup {None},
   at : Labels, next : Labels \cup {None},
   seen : [dir : Dir \cup {None}, items : SUBSET Path],
   stack : Seq(Dir \ {Top}), left : SUBSET Path, gone : SUBSET File]

Rec(op, path, at, next, seen, stack, left, gone) ==
  [op |-> op, path |-> path, at |-> at, next |-> next, seen |-> seen, stack |-> stack,
   left |-> left, gone |-> gone]

\* What a process is at, or will be at when it has the lock or the listing.
Label(c) == IF c.at \in {"asking", "waiting", "caching"} THEN c.next ELSE c.at

\* What it asks the lock for, and where it removes a directory.
AskedFor == {"parent", "mkdir", "self", "add", "list", "fresh", "clear", "destroy"}
InTree == {"clearing", "sweep", "visit", "deleting", "rmdir", "rmdirEntry"}

\* What is always so, step for step, about the path, the listing and the stack
\* of a call.
Shape(c, loc) ==
  /\ c.at \in {"asking", "waiting"} => c.next \in AskedFor
  /\ c.at = "caching" =>
       /\ c.next \in Looking \cup {"fresh"} /\ c.seen.dir \in Dir
       /\ c.next = "rmdir" /\ loc => c.seen.dir \in Above[c.path]
  /\ c.seen.dir \in Dir => c.at \in Looking \cup {"caching"}
  /\ c.seen.items \subseteq ChildrenOf(c.seen.dir)
  /\ Label(c) \in {"parent", "mkdir", "mkdirEntry", "write", "rename", "add", "unlink", "forget"} =>
       c.path \in File
  /\ Label(c) = "self" => c.path \in Path /\ (c.op = "create" => c.path \in File)
  /\ Label(c) \in {"list", "fresh", "clear"} => c.path \in Dir
  /\ Label(c) \in {"list", "fresh"} => c.op = Label(c)
  /\ Label(c) \in {"mkdir", "mkdirEntry"} => Parent[c.path] # Top
  /\ Label(c) = "rename" => loc
  /\ Label(c) \in InTree =>
       /\ c.op = "remove"
       /\ c.path \in Dir \ {Top}
       /\ c.stack # <<>>
       /\ \A k \in 1..Len(c.stack) : c.stack[k] \in {c.path} \cup Below(c.path)
       /\ loc => c.stack = <<c.path>> /\ c.gone = {}
  /\ Label(c) \notin InTree => c.gone = {}
  /\ \A f \in c.gone : \E k \in 1..Len(c.stack) : c.stack[k] = Parent[f]
  /\ Label(c) \in {"rmdir", "rmdirEntry"} => \A f \in c.gone : Parent[f] # Head(c.stack)
  /\ Label(c) = "clearing" => loc
  /\ Label(c) \in {"sweep", "visit", "deleting"} => ~loc

(***************************************************************************)
(* The type invariant.  The bound of the number of the lock file is the    *)
(* trouble that the calls of clearAllCachedData have cost; those that have *)
(* not come to their end have paid for theirs.                             *)
(***************************************************************************)
TypeDisk ==
  /\ local \in BOOLEAN
  /\ target \subseteq Path /\ (~local => target \subseteq File)
TypeCache == loaded \subseteq Dir /\ items \subseteq Path /\ doubt \subseteq Path
TypeHandles ==
  /\ db \in [Process -> {"none", "open", "moved"}]
  /\ kept \in [Process -> [loaded : SUBSET Dir, items : SUBSET Path]]
TypeCalls == call \in [Process -> CallRecord]
TypeLocks ==
  /\ lockFile \in Nat /\ opened \in [Process -> 0..lockFile] /\ lockLost \in BOOLEAN
  /\ trouble \in 0..MaxTrouble

Clearer(c) == Label(c) \in {"destroy", "rmcache"}
CountInv == lockFile + Cardinality({p \in Process : Clearer(call[p])}) <= trouble

ShapeInv == \A p \in Process : Shape(call[p], local)

TypeInv ==
  TypeDisk /\ TypeCache /\ TypeHandles /\ TypeCalls /\ TypeLocks /\ CountInv /\ ShapeInv

LEMMA TypeInvImpliesTypeOK == TypeInv => TypeOK
<1>. SUFFICES ASSUME TypeInv PROVE TypeOK
  OBVIOUS
<1>1. IsFiniteSet({p \in Process : Clearer(call[p])})
  BY TreeAssumption, FS_Subset
<1>2. Cardinality({p \in Process : Clearer(call[p])}) \in Nat
  BY <1>1, FS_CardinalityType
<1>3. lockFile \in 0..MaxTrouble /\ opened \in [Process -> 0..MaxTrouble]
  BY <1>2, TreeAssumption DEF TypeInv, TypeLocks, CountInv
<1>4. \A p \in Process :
       /\ call[p].op \in Operation \cup {None}
       /\ call[p].path \in Path \cup Dir \cup {None}
       /\ call[p].at \in Inside \cup {"idle", "asking", "waiting", "write", "rename", "rmcache"}
       /\ call[p].seen.items \subseteq Path
       /\ call[p].stack \in Seq(Dir \ {Top})
       /\ call[p].left \subseteq Path /\ call[p].gone \subseteq File
  BY DEF TypeInv, TypeCalls, CallRecord, Labels
<1>. QED
  BY <1>3, <1>4 DEF TypeInv, TypeDisk, TypeCache, TypeHandles, TypeLocks, TypeOK

(***************************************************************************)
(* The tree of paths.                                                      *)
(***************************************************************************)
LEMMA ParentOf ==
  ASSUME NEW q \in Path
  PROVE  Parent[q] \in Dir /\ q # Top /\ Top \notin Path
         /\ (Parent[q] \in Path \/ Parent[q] = Top)
  BY TreeAssumption DEF Path

LEMMA AboveOf ==
  ASSUME NEW q \in Path
  PROVE  /\ Above[q] = {Parent[q]} \cup Above[Parent[q]]
         /\ Above[q] \subseteq Dir
         /\ Top \in Above[q]
         /\ q \notin Above[q]
         /\ \A e \in Above[q] : Above[e] \subseteq Above[q]
<1>1. DOMAIN Parent = Path
  BY TreeAssumption
<1>2. /\ Above[q] = Ancestors(Parent, q)
      /\ Above[Parent[q]] = Ancestors(Parent, Parent[q])
  BY ParentOf DEF Above
<1>3. Inner(Parent) \subseteq Dir
  BY <1>1, TreeAssumption DEF Inner
<1>4. Above[q] \subseteq Dir
  BY <1>2, <1>3, AncestorsClosed
<1>5. \A e \in Above[q] : Above[e] = Ancestors(Parent, e)
  BY <1>4 DEF Above, Path
<1>6. Ancestors(Parent, q) = {Parent[q]} \cup Ancestors(Parent, Parent[q])
  BY <1>1, AncestorsUnfold
<1>7. q \notin Ancestors(Parent, q) /\ Top \in Ancestors(Parent, q)
  BY <1>1, TreeAssumption, NoCycle, RootIsAbove
<1>8. \A e \in Ancestors(Parent, q) : Ancestors(Parent, e) \subseteq Ancestors(Parent, q)
  BY AncestorsOfAncestor
<1>. QED  BY <1>2, <1>4, <1>5, <1>6, <1>7, <1>8

LEMMA AboveTop == Above[Top] = {}
<1>1. Top \notin DOMAIN Parent
  BY TreeAssumption DEF Path
<1>. QED  BY <1>1, NothingAboveRoot DEF Above

LEMMA BelowOf ==
  ASSUME NEW d \in Path \cup Dir
  PROVE  /\ Below(d) \subseteq Path /\ d \notin Below(d)
         /\ \A q \in Path : q \in Below(d) <=> Parent[q] = d \/ Parent[q] \in Below(d)
         /\ \A e \in Below(d) : Below(e) \subseteq Below(d) /\ d \in Above[e]
         /\ d \in File => Below(d) = {}
         /\ ChildrenOf(d) \subseteq Below(d)
<1>1. d \notin Below(d)
  BY AboveOf DEF Below
<1>2. ASSUME NEW q \in Path PROVE q \in Below(d) <=> Parent[q] = d \/ Parent[q] \in Below(d)
  <2>1. q \in Below(d) <=> d \in {Parent[q]} \cup Above[Parent[q]]
    BY AboveOf DEF Below
  <2>2. d \in Above[Parent[q]] <=> Parent[q] \in Below(d)
    BY ParentOf, AboveTop DEF Below
  <2>. QED  BY <2>1, <2>2
<1>3. ASSUME NEW e \in Below(d) PROVE Below(e) \subseteq Below(d) /\ d \in Above[e]
  BY AboveOf DEF Below
<1>4. d \in File => Below(d) = {}
  BY AboveOf, TreeAssumption DEF Below
<1>5. ChildrenOf(d) \subseteq Below(d)
  BY <1>2 DEF ChildrenOf
<1>. QED  BY <1>1, <1>2, <1>3, <1>4, <1>5 DEF Below

\* A file exists when it is at the target.
LEMMA FileExists ==
  ASSUME NEW f \in File, NEW t
  PROVE  ExistsIn(t, f) <=> f \in t
  BY BelowOf DEF ExistsIn, Path

\* A target that has the directories of what it has.
Closed(t) == \A q \in t : Above[q] \ {Top} \subseteq t

LEMMA ExistsInClosed ==
  ASSUME NEW t \in SUBSET Path, Closed(t), NEW q \in Path
  PROVE  ExistsIn(t, q) <=> q \in t
<1>1. ASSUME NEW e \in Below(q) \cap t PROVE q \in t
  <2>1. q \in Above[e] /\ q # Top
    BY BelowOf, ParentOf
  <2>. QED  BY <2>1 DEF Closed
<1>. QED  BY <1>1 DEF ExistsIn

\* Closed sets stay closed when a path comes with its directories, and when
\* one goes with all that is below it.
LEMMA ClosedWith ==
  ASSUME NEW t \in SUBSET Path, Closed(t), NEW q \in Path
  PROVE  /\ Closed(t \cup WithParents(q)) /\ WithParents(q) \subseteq Path
         /\ Closed(t \ ({q} \cup Below(q)))
         /\ Parent[q] \in t \cup {Top} => Closed(t \cup {q})
<1>1. WithParents(q) \subseteq Path
  BY AboveOf DEF WithParents, Path
<1>2. Closed(t \cup WithParents(q))
  <2>. SUFFICES ASSUME NEW e \in WithParents(q) PROVE Above[e] \ {Top} \subseteq WithParents(q)
    BY DEF Closed
  <2>. QED  BY AboveOf DEF WithParents
<1>3. ASSUME NEW e \in t \ ({q} \cup Below(q)), NEW a \in Above[e] \ {Top}
      PROVE  a \in t \ ({q} \cup Below(q))
  <2>1. a \in t /\ e \in Path /\ a \in Path
    BY <1>3 DEF Closed
  <2>2. a # q
    BY <2>1, <1>3 DEF Below
  <2>3. a \notin Below(q)
    <3>. SUFFICES ASSUME q \in Above[a] PROVE FALSE
      BY DEF Below
    <3>1. q \in Above[e]
      BY <1>3, <2>1, AboveOf
    <3>. QED  BY <1>3, <2>1, <3>1 DEF Below
  <2>. QED  BY <2>1, <2>2, <2>3
<1>4. ASSUME Parent[q] \in t \cup {Top} PROVE Closed(t \cup {q})
  <2>1. Above[q] = {Parent[q]} \cup Above[Parent[q]]
    BY AboveOf
  <2>2. Above[Parent[q]] \ {Top} \subseteq t
    BY <1>4, AboveTop DEF Closed
  <2>. QED  BY <1>4, <2>1, <2>2 DEF Closed
<1>. QED  BY <1>1, <1>2, <1>3, <1>4 DEF Closed

(***************************************************************************)
(* How a step changes the record of its process.                           *)
(***************************************************************************)
LEMMA CallSteps ==
  ASSUME TypeCalls, NEW p \in Process, NEW l
  PROVE  LET c == call[p] IN
         /\ c \in CallRecord
         /\ c = Rec(c.op, c.path, c.at, c.next, c.seen, c.stack, c.left, c.gone)
         /\ Goto(p, l) =>
              call' = [call EXCEPT ![p] = Rec(c.op, c.path, l, c.next, NoListing, c.stack, c.left, c.gone)]
         /\ Ask(p, l) =>
              call' = [call EXCEPT ![p] = Rec(c.op, c.path, "asking", l, NoListing, c.stack, c.left, c.gone)]
         /\ Return(p) =>
              call' = [call EXCEPT ![p] = Idle]
<1>1. call \in [Process -> CallRecord] /\ call[p] \in CallRecord
  BY DEF TypeCalls
<1>2. call[p] = Rec(call[p].op, call[p].path, call[p].at, call[p].next, call[p].seen, call[p].stack, call[p].left, call[p].gone)
  BY <1>1 DEF CallRecord, Rec
<1>. QED  BY <1>1, <1>2 DEF Goto, Ask, Return, Rec, CallRecord

\* The record of one process is replaced.
LEMMA OneCall ==
  ASSUME TypeCalls, NEW p \in Process, NEW c, call' = [call EXCEPT ![p] = c]
  PROVE  call'[p] = c /\ (\A r \in Process \ {p} : call'[r] = call[r])
         /\ (c \in CallRecord => call' \in [Process -> CallRecord])
  BY DEF TypeCalls

LEMMA Records ==
  /\ Idle \in CallRecord
  /\ NoListing \in [dir : Dir \cup {None}, items : SUBSET Path]
  /\ NoListing.dir = None /\ NoListing.items = {} /\ None \notin Dir
  /\ ChildrenOf(None) = {}
  /\ \A loc : Shape(Idle, loc)
<1>1. /\ NoListing \in [dir : Dir \cup {None}, items : SUBSET Path]
      /\ NoListing.dir = None /\ NoListing.items = {} /\ None \notin Dir
  BY TreeAssumption DEF NoListing
<1>2. ChildrenOf(None) = {}
  BY TreeAssumption DEF ChildrenOf
<1>3. Idle \in CallRecord
  BY <1>1 DEF Idle, CallRecord, Labels
<1>4. \A loc : Shape(Idle, loc)
  BY <1>1, <1>2 DEF Idle, Shape, Label, AskedFor, InTree, Looking
<1>. QED  BY <1>1, <1>2, <1>3, <1>4

\* Process p goes on with the record c.
StepTo(p, c) ==
  /\ call' = [call EXCEPT ![p] = c]
  /\ c \in CallRecord /\ c.op \in {call[p].op, None}
  /\ Shape(c, local)
  /\ Clearer(c) => Clearer(call[p])

LEMMA ReturnStep ==
  ASSUME TypeInv, NEW p \in Process, Return(p)
  PROVE  StepTo(p, Idle)
<1>1. call' = [call EXCEPT ![p] = Idle]
  BY CallSteps DEF TypeInv
<1>2. Idle.op = None /\ ~Clearer(Idle)
  BY DEF Idle, Clearer, Label
<1>. QED  BY <1>1, <1>2, Records DEF StepTo

\* The record of a process, and what its label says of it.
LEMMA CurrentCall ==
  ASSUME TypeInv, NEW p \in Process
  PROVE  /\ call[p] \in CallRecord /\ Shape(call[p], local)
         /\ call[p].at \notin {"asking", "waiting", "caching"} => Label(call[p]) = call[p].at
         /\ call[p].seen.items \subseteq ChildrenOf(call[p].seen.dir)
  BY DEF TypeInv, TypeCalls, ShapeInv, Label, Shape

\* The directory that a process works on.
LEMMA HeadOfStack ==
  ASSUME TypeInv, NEW p \in Process, Label(call[p]) \in InTree
  PROVE  LET c == call[p] IN
         /\ c.path \in Dir \ {Top} /\ c.path \in Path
         /\ c.stack \in Seq(Dir \ {Top}) /\ c.stack # <<>>
         /\ Head(c.stack) \in Dir \ {Top} /\ Head(c.stack) \in Path
         /\ Head(c.stack) \in {c.path} \cup Below(c.path)
         /\ Tail(c.stack) \in Seq(Dir \ {Top})
         /\ \A k \in 1..Len(Tail(c.stack)) : Tail(c.stack)[k] \in {c.path} \cup Below(c.path)
         /\ local => Head(c.stack) = c.path /\ Tail(c.stack) = <<>>
<1>. DEFINE c == call[p]
            s == c.stack
<1>1. /\ c.path \in Dir \ {Top} /\ s \in Seq(Dir \ {Top}) /\ s # <<>>
      /\ \A k \in 1..Len(s) : s[k] \in {c.path} \cup Below(c.path)
      /\ local => s = <<c.path>>
  BY CurrentCall DEF Shape, CallRecord
<1>2. /\ Head(s) \in Dir \ {Top} /\ Head(s) = s[1]
      /\ Tail(s) \in Seq(Dir \ {Top}) /\ Len(Tail(s)) = Len(s) - 1
      /\ \A k \in 1..Len(Tail(s)) : Tail(s)[k] = s[k + 1]
  BY <1>1, HeadTailProperties
<1>3. Len(s) \in Nat /\ 1 \in 1..Len(s)
  BY <1>1, LenProperties, EmptySeq
<1>4. \A k \in 1..Len(Tail(s)) : k + 1 \in 1..Len(s)
  BY <1>2, <1>3
<1>5. local => Head(s) = c.path /\ Tail(s) = <<>>
  BY <1>1, <1>2
<1>. HIDE DEF s
<1>. QED  BY <1>1, <1>2, <1>3, <1>4, <1>5 DEF s, Path

\* The directory that has to be listed.
LEMMA NeededIs ==
  ASSUME TypeInv, NEW p \in Process, call[p].at \in Looking \cup {"fresh"}
  PROVE  LET c == call[p] IN
         /\ Needed(p) \in Dir
         /\ c.at = "self" => Sought(p) = c.path /\ Needed(p) = Parent[c.path]
         /\ c.at = "parent" => Sought(p) = Parent[c.path]
         /\ c.at = "sweep" => Needed(p) = Head(c.stack)
         /\ c.at = "rmdir" => Needed(p) \in Above[Head(c.stack)]
<1>. DEFINE c == call[p]
<1>0. c.at \notin {"asking", "waiting", "caching"} /\ Label(c) = c.at /\ Shape(c, local)
  BY CurrentCall DEF Looking
<1>1. CASE c.at \in {"list", "fresh"}
  <2>1. c.path \in Dir
    BY <1>0, <1>1 DEF Shape
  <2>2. Sought(p) = c.path
    BY <1>1 DEF Sought
  <2>3. Needed(p) = c.path
    <3>1. CASE c.path = Top
      BY <1>1, <2>2, <3>1 DEF Needed
    <3>2. CASE c.path # Top
      BY <1>1, <2>2, <3>2 DEF Needed
    <3>. QED  BY <3>1, <3>2
  <2>. QED  BY <1>1, <2>1, <2>3
<1>2. CASE c.at = "sweep"
  <2>1. Head(c.stack) \in Dir
    BY <1>0, <1>2, HeadOfStack DEF InTree
  <2>2. Sought(p) = c.path /\ c.path # Top
    BY <1>0, <1>2 DEF Sought, Shape, InTree
  <2>3. Needed(p) = Head(c.stack)
    BY <1>2, <2>2 DEF Needed
  <2>. QED  BY <1>2, <2>1, <2>3
<1>3. CASE c.at = "self"
  <2>1. c.path \in Path
    BY <1>0, <1>3 DEF Shape
  <2>2. Sought(p) = c.path
    BY <1>3 DEF Sought
  <2>3. Needed(p) = Parent[c.path]
    BY <1>3, <2>1, <2>2, ParentOf DEF Needed
  <2>. QED  BY <1>3, <2>1, <2>2, <2>3, ParentOf
<1>4. CASE c.at = "parent"
  <2>1. c.path \in Path
    BY <1>0, <1>4 DEF Shape, Path
  <2>2. Sought(p) = Parent[c.path]
    BY <1>4 DEF Sought
  <2>3. Needed(p) \in Dir
    <3>1. CASE Parent[c.path] = Top
      BY <1>4, <2>2, <3>1, TreeAssumption DEF Needed
    <3>2. CASE Parent[c.path] # Top
      BY <1>4, <2>1, <2>2, <3>2, ParentOf DEF Needed
    <3>. QED  BY <3>1, <3>2
  <2>. QED  BY <1>4, <2>2, <2>3
<1>5. CASE c.at = "rmdir"
  <2>. DEFINE d == Head(c.stack)
  <2>1. d \in Path
    BY <1>0, <1>5, HeadOfStack DEF InTree
  <2>2. Sought(p) = Parent[d]
    BY <1>5 DEF Sought
  <2>3. Needed(p) \in Above[d]
    <3>1. CASE Parent[d] = Top
      BY <1>5, <2>1, <2>2, <3>1, AboveOf DEF Needed
    <3>2. CASE Parent[d] # Top
      <4>1. Needed(p) = Parent[Parent[d]]
        BY <1>5, <2>2, <3>2 DEF Needed
      <4>. QED  BY <2>1, <3>2, <4>1, AboveOf, ParentOf
    <3>. QED  BY <3>1, <3>2
  <2>. QED  BY <1>5, <2>1, <2>3, AboveOf
<1>. QED  BY <1>1, <1>2, <1>3, <1>4, <1>5 DEF Looking

\* What a listing has is in its directory.
LEMMA ItemsInDirectory ==
  ASSUME TypeInv, NEW p \in Process, NEW d \in Dir, Known(p, d)
  PROVE  ItemsIn(p, d) \subseteq ChildrenOf(d) /\ Listing(d) \subseteq ChildrenOf(d)
  BY CurrentCall DEF ItemsIn, Known, Listing

Caching(p, next, seen) ==
  call' = [call EXCEPT ![p].at = "caching", ![p].next = next, ![p].seen = seen]
ToRemove(p, seen, stack, at) ==
  call' = [call EXCEPT ![p].seen = seen, ![p].stack = stack, ![p].at = at]
InDirectory(p, at, stack, left) ==
  call' = [call EXCEPT ![p].at = at, ![p].stack = stack, ![p].left = left]
WithItems(p, at, seen, left) ==
  call' = [call EXCEPT ![p].at = at, ![p].seen = seen, ![p].left = left]
WithFiles(p, left, gone) == call' = [call EXCEPT ![p].left = left, ![p].gone = gone]
NextOnStack(p, at, stack) == call' = [call EXCEPT ![p].at = at, ![p].stack = stack]
NextWithFiles(p, at, gone) == call' = [call EXCEPT ![p].at = at, ![p].gone = gone]

LEMMA ReplacedFields ==
  ASSUME TypeCalls, NEW p \in Process
  PROVE  LET c == call[p] IN
         /\ \A next, seen : Caching(p, next, seen) =>
              call' = [call EXCEPT ![p] = Rec(c.op, c.path, "caching", next, seen, c.stack, c.left, c.gone)]
         /\ \A seen, stack, at : ToRemove(p, seen, stack, at) =>
              call' = [call EXCEPT ![p] = Rec(c.op, c.path, at, c.next, seen, stack, c.left, c.gone)]
         /\ \A at, stack, left : InDirectory(p, at, stack, left) =>
              call' = [call EXCEPT ![p] = Rec(c.op, c.path, at, c.next, c.seen, stack, left, c.gone)]
         /\ \A at, seen, left : WithItems(p, at, seen, left) =>
              call' = [call EXCEPT ![p] = Rec(c.op, c.path, at, c.next, seen, c.stack, left, c.gone)]
         /\ \A left, gone : WithFiles(p, left, gone) =>
              call' = [call EXCEPT ![p] = Rec(c.op, c.path, c.at, c.next, c.seen, c.stack, left, gone)]
         /\ \A at, stack : NextOnStack(p, at, stack) =>
              call' = [call EXCEPT ![p] = Rec(c.op, c.path, at, c.next, c.seen, stack, c.left, c.gone)]
         /\ \A at, gone : NextWithFiles(p, at, gone) =>
              call' = [call EXCEPT ![p] = Rec(c.op, c.path, at, c.next, c.seen, c.stack, c.left, gone)]
<1>1. call \in [Process -> CallRecord] /\ call[p] \in CallRecord
  BY DEF TypeCalls
<1>2. call[p] = Rec(call[p].op, call[p].path, call[p].at, call[p].next, call[p].seen, call[p].stack, call[p].left, call[p].gone)
  BY <1>1 DEF CallRecord, Rec
<1>. DEFINE c == call[p]
<1>3. ASSUME NEW next, NEW seen, Caching(p, next, seen)
      PROVE  call' = [call EXCEPT ![p] = Rec(c.op, c.path, "caching", next, seen, c.stack, c.left, c.gone)]
  <2>1. call' = [call EXCEPT ![p] = [c EXCEPT !.at = "caching", !.next = next, !.seen = seen]]
    BY <1>1, <1>3 DEF Caching
  <2>2. [c EXCEPT !.at = "caching", !.next = next, !.seen = seen] = Rec(c.op, c.path, "caching", next, seen, c.stack, c.left, c.gone)
    <3>. DEFINE x == [c EXCEPT !.at = "caching", !.next = next, !.seen = seen]
    <3>1. /\ x.op = c.op /\ x.path = c.path
          /\ x.at = "caching" /\ x.next = next /\ x.seen = seen /\ x.stack = c.stack /\ x.left = c.left /\ x.gone = c.gone
          /\ x \in [op : {c.op}, path : {c.path}, at : {"caching"}, next : {next}, seen : {seen}, stack : {c.stack}, left : {c.left}, gone : {c.gone}]
      BY <1>1 DEF CallRecord
    <3>. HIDE DEF x
    <3>2. x = Rec(x.op, x.path, x.at, x.next, x.seen, x.stack, x.left, x.gone)
      BY <3>1 DEF Rec
    <3>3. x = Rec(c.op, c.path, "caching", next, seen, c.stack, c.left, c.gone)
      BY <3>1, <3>2
    <3>. QED  BY <3>3 DEF x
  <2>. QED  BY <2>1, <2>2
<1>4. ASSUME NEW seen, NEW stack, NEW at, ToRemove(p, seen, stack, at)
      PROVE  call' = [call EXCEPT ![p] = Rec(c.op, c.path, at, c.next, seen, stack, c.left, c.gone)]
  <2>1. call' = [call EXCEPT ![p] = [c EXCEPT !.seen = seen, !.stack = stack, !.at = at]]
    BY <1>1, <1>4 DEF ToRemove
  <2>2. [c EXCEPT !.seen = seen, !.stack = stack, !.at = at] = Rec(c.op, c.path, at, c.next, seen, stack, c.left, c.gone)
    <3>. DEFINE x == [c EXCEPT !.seen = seen, !.stack = stack, !.at = at]
    <3>1. /\ x.op = c.op /\ x.path = c.path
          /\ x.at = at /\ x.next = c.next /\ x.seen = seen /\ x.stack = stack /\ x.left = c.left /\ x.gone = c.gone
          /\ x \in [op : {c.op}, path : {c.path}, at : {at}, next : {c.next}, seen : {seen}, stack : {stack}, left : {c.left}, gone : {c.gone}]
      BY <1>1 DEF CallRecord
    <3>. HIDE DEF x
    <3>2. x = Rec(x.op, x.path, x.at, x.next, x.seen, x.stack, x.left, x.gone)
      BY <3>1 DEF Rec
    <3>3. x = Rec(c.op, c.path, at, c.next, seen, stack, c.left, c.gone)
      BY <3>1, <3>2
    <3>. QED  BY <3>3 DEF x
  <2>. QED  BY <2>1, <2>2
<1>5. ASSUME NEW at, NEW stack, NEW left, InDirectory(p, at, stack, left)
      PROVE  call' = [call EXCEPT ![p] = Rec(c.op, c.path, at, c.next, c.seen, stack, left, c.gone)]
  <2>1. call' = [call EXCEPT ![p] = [c EXCEPT !.at = at, !.stack = stack, !.left = left]]
    BY <1>1, <1>5 DEF InDirectory
  <2>2. [c EXCEPT !.at = at, !.stack = stack, !.left = left] = Rec(c.op, c.path, at, c.next, c.seen, stack, left, c.gone)
    <3>. DEFINE x == [c EXCEPT !.at = at, !.stack = stack, !.left = left]
    <3>1. /\ x.op = c.op /\ x.path = c.path
          /\ x.at = at /\ x.next = c.next /\ x.seen = c.seen /\ x.stack = stack /\ x.left = left /\ x.gone = c.gone
          /\ x \in [op : {c.op}, path : {c.path}, at : {at}, next : {c.next}, seen : {c.seen}, stack : {stack}, left : {left}, gone : {c.gone}]
      BY <1>1 DEF CallRecord
    <3>. HIDE DEF x
    <3>2. x = Rec(x.op, x.path, x.at, x.next, x.seen, x.stack, x.left, x.gone)
      BY <3>1 DEF Rec
    <3>3. x = Rec(c.op, c.path, at, c.next, c.seen, stack, left, c.gone)
      BY <3>1, <3>2
    <3>. QED  BY <3>3 DEF x
  <2>. QED  BY <2>1, <2>2
<1>6. ASSUME NEW at, NEW seen, NEW left, WithItems(p, at, seen, left)
      PROVE  call' = [call EXCEPT ![p] = Rec(c.op, c.path, at, c.next, seen, c.stack, left, c.gone)]
  <2>1. call' = [call EXCEPT ![p] = [c EXCEPT !.at = at, !.seen = seen, !.left = left]]
    BY <1>1, <1>6 DEF WithItems
  <2>2. [c EXCEPT !.at = at, !.seen = seen, !.left = left] = Rec(c.op, c.path, at, c.next, seen, c.stack, left, c.gone)
    <3>. DEFINE x == [c EXCEPT !.at = at, !.seen = seen, !.left = left]
    <3>1. /\ x.op = c.op /\ x.path = c.path
          /\ x.at = at /\ x.next = c.next /\ x.seen = seen /\ x.stack = c.stack /\ x.left = left /\ x.gone = c.gone
          /\ x \in [op : {c.op}, path : {c.path}, at : {at}, next : {c.next}, seen : {seen}, stack : {c.stack}, left : {left}, gone : {c.gone}]
      BY <1>1 DEF CallRecord
    <3>. HIDE DEF x
    <3>2. x = Rec(x.op, x.path, x.at, x.next, x.seen, x.stack, x.left, x.gone)
      BY <3>1 DEF Rec
    <3>3. x = Rec(c.op, c.path, at, c.next, seen, c.stack, left, c.gone)
      BY <3>1, <3>2
    <3>. QED  BY <3>3 DEF x
  <2>. QED  BY <2>1, <2>2
<1>7. ASSUME NEW left, NEW gone, WithFiles(p, left, gone)
      PROVE  call' = [call EXCEPT ![p] = Rec(c.op, c.path, c.at, c.next, c.seen, c.stack, left, gone)]
  <2>1. call' = [call EXCEPT ![p] = [c EXCEPT !.left = left, !.gone = gone]]
    BY <1>1, <1>7 DEF WithFiles
  <2>2. [c EXCEPT !.left = left, !.gone = gone] = Rec(c.op, c.path, c.at, c.next, c.seen, c.stack, left, gone)
    <3>. DEFINE x == [c EXCEPT !.left = left, !.gone = gone]
    <3>1. /\ x.op = c.op /\ x.path = c.path
          /\ x.at = c.at /\ x.next = c.next /\ x.seen = c.seen /\ x.stack = c.stack /\ x.left = left /\ x.gone = gone
          /\ x \in [op : {c.op}, path : {c.path}, at : {c.at}, next : {c.next}, seen : {c.seen}, stack : {c.stack}, left : {left}, gone : {gone}]
      BY <1>1 DEF CallRecord
    <3>. HIDE DEF x
    <3>2. x = Rec(x.op, x.path, x.at, x.next, x.seen, x.stack, x.left, x.gone)
      BY <3>1 DEF Rec
    <3>3. x = Rec(c.op, c.path, c.at, c.next, c.seen, c.stack, left, gone)
      BY <3>1, <3>2
    <3>. QED  BY <3>3 DEF x
  <2>. QED  BY <2>1, <2>2
<1>8. ASSUME NEW at, NEW stack, NextOnStack(p, at, stack)
      PROVE  call' = [call EXCEPT ![p] = Rec(c.op, c.path, at, c.next, c.seen, stack, c.left, c.gone)]
  <2>1. call' = [call EXCEPT ![p] = [c EXCEPT !.at = at, !.stack = stack]]
    BY <1>1, <1>8 DEF NextOnStack
  <2>2. [c EXCEPT !.at = at, !.stack = stack] = Rec(c.op, c.path, at, c.next, c.seen, stack, c.left, c.gone)
    <3>. DEFINE x == [c EXCEPT !.at = at, !.stack = stack]
    <3>1. /\ x.op = c.op /\ x.path = c.path
          /\ x.at = at /\ x.next = c.next /\ x.seen = c.seen /\ x.stack = stack /\ x.left = c.left /\ x.gone = c.gone
          /\ x \in [op : {c.op}, path : {c.path}, at : {at}, next : {c.next}, seen : {c.seen}, stack : {stack}, left : {c.left}, gone : {c.gone}]
      BY <1>1 DEF CallRecord
    <3>. HIDE DEF x
    <3>2. x = Rec(x.op, x.path, x.at, x.next, x.seen, x.stack, x.left, x.gone)
      BY <3>1 DEF Rec
    <3>3. x = Rec(c.op, c.path, at, c.next, c.seen, stack, c.left, c.gone)
      BY <3>1, <3>2
    <3>. QED  BY <3>3 DEF x
  <2>. QED  BY <2>1, <2>2
<1>9. ASSUME NEW at, NEW gone, NextWithFiles(p, at, gone)
      PROVE  call' = [call EXCEPT ![p] = Rec(c.op, c.path, at, c.next, c.seen, c.stack, c.left, gone)]
  <2>1. call' = [call EXCEPT ![p] = [c EXCEPT !.at = at, !.gone = gone]]
    BY <1>1, <1>9 DEF NextWithFiles
  <2>2. [c EXCEPT !.at = at, !.gone = gone] = Rec(c.op, c.path, at, c.next, c.seen, c.stack, c.left, gone)
    <3>. DEFINE x == [c EXCEPT !.at = at, !.gone = gone]
    <3>1. /\ x.op = c.op /\ x.path = c.path
          /\ x.at = at /\ x.next = c.next /\ x.seen = c.seen /\ x.stack = c.stack /\ x.left = c.left /\ x.gone = gone
          /\ x \in [op : {c.op}, path : {c.path}, at : {at}, next : {c.next}, seen : {c.seen}, stack : {c.stack}, left : {c.left}, gone : {gone}]
      BY <1>1 DEF CallRecord
    <3>. HIDE DEF x
    <3>2. x = Rec(x.op, x.path, x.at, x.next, x.seen, x.stack, x.left, x.gone)
      BY <3>1 DEF Rec
    <3>3. x = Rec(c.op, c.path, at, c.next, c.seen, c.stack, c.left, gone)
      BY <3>1, <3>2
    <3>. QED  BY <3>3 DEF x
  <2>. QED  BY <2>1, <2>2
<1>. QED  BY <1>3, <1>4, <1>5, <1>6, <1>7, <1>8, <1>9

LEMMA ListTargetStep ==
  ASSUME TypeInv, NEW p \in Process, ListTarget(p)
  PROVE  LET c == call[p]
             seen == [dir |-> Needed(p), items |-> Listing(Needed(p))] IN
         /\ StepTo(p, Rec(c.op, c.path, "caching", c.at, seen, c.stack, c.left, c.gone))
         /\ c.at \in Looking \cup {"fresh"} /\ Label(c) = c.at
<1>. DEFINE c == call[p]
            d == Needed(p)
            seen == [dir |-> d, items |-> Listing(d)]
            new == Rec(c.op, c.path, "caching", c.at, seen, c.stack, c.left, c.gone)
<1>1. c.at \in Looking \cup {"fresh"}
  BY DEF ListTarget
<1>2. c \in CallRecord /\ Shape(c, local) /\ Label(c) = c.at /\ call \in [Process -> CallRecord]
  BY <1>1, CurrentCall DEF Looking, TypeInv, TypeCalls
<1>3. call' = [call EXCEPT ![p] = new]
  <2>. HIDE DEF d, seen
  <2>1. Caching(p, c.at, seen)
    BY DEF ListTarget, seen, d, Caching
  <2>. QED  BY <2>1, ReplacedFields DEF TypeInv
<1>4. d \in Dir /\ Listing(d) \subseteq ChildrenOf(d) /\ ChildrenOf(d) \subseteq Path
  BY <1>1, NeededIs DEF Listing, ChildrenOf
<1>5. c.at = "rmdir" /\ local => d \in Above[c.path]
  BY <1>1, <1>2, NeededIs, HeadOfStack DEF InTree
<1>. HIDE DEF d
<1>6. new \in CallRecord
  BY <1>1, <1>2, <1>4 DEF Rec, CallRecord, Labels, Inside, Looking
<1>7. Shape(new, local)
  BY <1>1, <1>2, <1>4, <1>5 DEF Rec, Shape, Label, InTree, Looking
<1>8. new.op = c.op /\ ~Clearer(new)
  BY <1>1 DEF Rec, Clearer, Label, Looking
<1>. QED  BY <1>1, <1>2, <1>3, <1>6, <1>7, <1>8 DEF StepTo, d

LEMMA StoreListingStep ==
  ASSUME TypeInv, NEW p \in Process, StoreListing(p)
  PROVE  LET c == call[p] IN
         /\ \/ StepTo(p, Idle) /\ c.gone = {}
            \/ StepTo(p, Rec(c.op, c.path, c.next, c.next, c.seen, c.stack, c.left, c.gone)) /\ c.next \in Looking
         /\ c.seen.dir \in Dir /\ c.seen.items \subseteq ChildrenOf(c.seen.dir)
         /\ c.at = "caching" /\ c.next \in Looking \cup {"fresh"} /\ Label(c) = c.next
<1>. DEFINE c == call[p]
            new == Rec(c.op, c.path, c.next, c.next, c.seen, c.stack, c.left, c.gone)
<1>1. /\ c.at = "caching" /\ c \in CallRecord /\ Shape(c, local) /\ Label(c) = c.next
      /\ call \in [Process -> CallRecord]
  BY CurrentCall DEF StoreListing, Label, TypeInv, TypeCalls
<1>2. /\ c.seen.dir \in Dir /\ c.seen.items \subseteq ChildrenOf(c.seen.dir)
      /\ c.next \in Looking \cup {"fresh"}
  BY <1>1 DEF Shape
<1>3. CASE c.op \in {"list", "fresh"}
  <2>1. c.gone = {}
    BY <1>1, <1>3 DEF Shape
  <2>. QED  BY <1>1, <1>2, <1>3, <2>1, ReturnStep DEF StoreListing
<1>4. CASE c.op \notin {"list", "fresh"}
  <2>1. c.next \in Looking
    BY <1>1, <1>2, <1>4 DEF Shape
  <2>2. call' = [call EXCEPT ![p] = new]
    BY <1>1, <1>4 DEF StoreListing, Rec, CallRecord
  <2>3. new \in CallRecord
    BY <1>1, <2>1 DEF Rec, CallRecord, Labels, Inside, Looking
  <2>4. Shape(new, local)
    BY <1>1, <2>1 DEF Rec, Shape, Label, InTree, Looking
  <2>5. new.op = c.op /\ ~Clearer(new)
    BY <2>1 DEF Rec, Clearer, Label, Looking
  <2>. QED  BY <1>1, <1>2, <2>1, <2>2, <2>3, <2>4, <2>5 DEF StepTo
<1>. QED  BY <1>3, <1>4

Ends(p) == StepTo(p, Idle)
GoesTo(p, l) ==
  StepTo(p, Rec(call[p].op, call[p].path, l, call[p].next, NoListing, call[p].stack, call[p].left, call[p].gone))
AsksFor(p, l) ==
  StepTo(p, Rec(call[p].op, call[p].path, "asking", l, NoListing, call[p].stack, call[p].left, call[p].gone))

\* A process that has looked, or changed something, goes on at a label.
LEMMA GotoStep ==
  ASSUME TypeInv, NEW p \in Process, NEW l \in Labels,
         l \notin {"asking", "waiting", "caching", "clearing", "sweep", "visit"},
         Clearer(call[p]) \/ l \notin {"destroy", "rmcache"},
         LET c == call[p] IN
         /\ l \in {"parent", "mkdir", "mkdirEntry", "write", "rename", "add", "unlink", "forget"} =>
              c.path \in File
         /\ l = "self" => c.path \in Path /\ (c.op = "create" => c.path \in File)
         /\ l \in {"list", "fresh", "clear"} => c.path \in Dir
         /\ l \in {"list", "fresh"} => c.op = l
         /\ l \in {"mkdir", "mkdirEntry"} => Parent[c.path] # Top
         /\ l = "rename" => local
         /\ l \in {"deleting", "rmdir", "rmdirEntry"} => Label(c) \in InTree
         /\ l \in {"rmdir", "rmdirEntry"} => \A f \in c.gone : Parent[f] # Head(c.stack)
         /\ l \notin {"deleting", "rmdir", "rmdirEntry"} => c.gone = {}
         /\ l = "deleting" => ~local
  PROVE  /\ Goto(p, l) => GoesTo(p, l)
         /\ Ask(p, l) /\ l \in AskedFor => AsksFor(p, l)
<1>. DEFINE c == call[p]
            new == Rec(c.op, c.path, l, c.next, NoListing, c.stack, c.left, c.gone)
            ask == Rec(c.op, c.path, "asking", l, NoListing, c.stack, c.left, c.gone)
<1>1. c \in CallRecord /\ Shape(c, local)
  BY CurrentCall
<1>2. /\ NoListing \in [dir : Dir \cup {None}, items : SUBSET Path]
      /\ NoListing.dir = None /\ NoListing.items = {} /\ None \notin Dir
      /\ ChildrenOf(None) = {}
  BY Records
<1>3. ASSUME Goto(p, l) PROVE GoesTo(p, l)
  <2>1. call' = [call EXCEPT ![p] = new]
    BY <1>3, CallSteps DEF TypeInv
  <2>2. new \in CallRecord
    BY <1>1, <1>2 DEF Rec, CallRecord
  <2>3. Shape(new, local)
    BY <1>1, <1>2 DEF Rec, Shape, Label, InTree
  <2>4. new.op = c.op /\ (Clearer(new) => Clearer(c))
    BY DEF Rec, Clearer, Label
  <2>. QED  BY <2>1, <2>2, <2>3, <2>4 DEF StepTo, GoesTo
<1>4. ASSUME Ask(p, l), l \in AskedFor PROVE AsksFor(p, l)
  <2>1. call' = [call EXCEPT ![p] = ask]
    BY <1>4, CallSteps DEF TypeInv
  <2>2. ask \in CallRecord
    BY <1>1, <1>2 DEF Rec, CallRecord, Labels
  <2>3. Shape(ask, local)
    BY <1>1, <1>2, <1>4 DEF Rec, Shape, Label, InTree, AskedFor
  <2>4. ask.op = c.op /\ (Clearer(ask) => Clearer(c))
    BY DEF Rec, Clearer, Label
  <2>. QED  BY <2>1, <2>2, <2>3, <2>4 DEF StepTo, AsksFor
<1>. QED  BY <1>3, <1>4

(***************************************************************************)
(* The steps of a call, one by one.                                        *)
(***************************************************************************)
\* The path of a file that is made or removed.
\* Only who removes a directory has files to delete.
LEMMA NothingGone ==
  ASSUME TypeInv, NEW p \in Process, local \/ Label(call[p]) \notin InTree
  PROVE  call[p].gone = {}
  BY CurrentCall DEF Shape

LEMMA FileInHand ==
  ASSUME TypeInv, NEW p \in Process,
         Label(call[p]) \in {"parent", "mkdir", "mkdirEntry", "write", "rename", "add", "unlink", "forget"}
  PROVE  /\ call[p].path \in File /\ call[p].path \in Path
         /\ Parent[call[p].path] \in Dir
         /\ Label(call[p]) \in {"mkdir", "mkdirEntry"} =>
              Parent[call[p].path] # Top /\ Parent[call[p].path] \in Path
         /\ Label(call[p]) = "rename" => local
         /\ call[p].gone = {}
<1>1. call[p].path \in File /\ call[p].path \in Path
  BY CurrentCall DEF Shape, Path
<1>2. Parent[call[p].path] \in Dir /\ (Parent[call[p].path] \in Path \/ Parent[call[p].path] = Top)
  BY <1>1, ParentOf
<1>3. call[p].gone = {}
  BY NothingGone DEF InTree
<1>. QED  BY <1>1, <1>2, <1>3, CurrentCall DEF Shape

LEMMA EnterStep ==
  ASSUME TypeInv, NEW p \in Process, Enter(p)
  PROVE  GoesTo(p, call[p].next) /\ call[p].next \in AskedFor /\ Label(call[p]) = call[p].next
<1>. DEFINE c == call[p]
            l == c.next
<1>1. c.at \in {"asking", "waiting"} /\ Goto(p, l)
  BY DEF Enter
<1>2. l \in AskedFor /\ Label(c) = l /\ Shape(c, local)
  BY <1>1, CurrentCall DEF Shape, Label
<1>3. l \in Labels /\ l \notin {"asking", "waiting", "caching", "rename", "rmdir", "rmdirEntry",
                               "clearing", "sweep", "visit", "deleting", "mkdirEntry", "write", "unlink", "forget"}
  BY <1>2 DEF AskedFor, Labels, Inside
<1>4. Clearer(c) \/ l \notin {"destroy", "rmcache"}
  BY <1>2 DEF Clearer
<1>5. /\ l \in {"parent", "mkdir", "add"} => c.path \in File
      /\ l = "self" => c.path \in Path /\ (c.op = "create" => c.path \in File)
      /\ l \in {"list", "fresh", "clear"} => c.path \in Dir
      /\ l \in {"list", "fresh"} => c.op = l
      /\ l = "mkdir" => Parent[c.path] # Top
  BY <1>2 DEF Shape
<1>6. c.gone = {}
  BY <1>2, NothingGone DEF AskedFor, InTree
<1>. QED  BY <1>1, <1>2, <1>3, <1>4, <1>5, <1>6, GotoStep

LEMMA LookedForParentStep ==
  ASSUME TypeInv, NEW p \in Process, LookedForParent(p)
  PROVE  call[p].at = "parent" /\ (AsksFor(p, "self") \/ AsksFor(p, "mkdir"))
<1>. DEFINE c == call[p]
<1>1. c.at = "parent" /\ Label(c) = "parent"
  BY CurrentCall DEF LookedForParent
<1>2. c.path \in File /\ c.path \in Path /\ c.gone = {}
  BY <1>1, FileInHand
<1>3. CASE Found(p, Sought(p))
  <2>1. Ask(p, "self")
    BY <1>3 DEF LookedForParent
  <2>. QED  BY <1>1, <1>2, <2>1, GotoStep DEF Labels, Inside, AskedFor
<1>4. CASE ~Found(p, Sought(p))
  <2>1. Ask(p, "mkdir")
    BY <1>4 DEF LookedForParent
  <2>2. Parent[c.path] # Top
    BY <1>1, <1>4, NeededIs DEF Found, Looking
  <2>. QED  BY <1>1, <1>2, <2>1, <2>2, GotoStep DEF Labels, Inside, AskedFor
<1>. QED  BY <1>1, <1>3, <1>4

LEMMA MakeDirectoryStep ==
  ASSUME TypeInv, NEW p \in Process, MakeDirectory(p)
  PROVE  call[p].at = "mkdir" /\ GoesTo(p, "mkdirEntry")
<1>1. call[p].at = "mkdir" /\ Label(call[p]) = "mkdir" /\ Goto(p, "mkdirEntry")
  BY CurrentCall DEF MakeDirectory
<1>2. call[p].path \in File /\ Parent[call[p].path] # Top /\ call[p].gone = {}
  BY <1>1, FileInHand
<1>. QED  BY <1>1, <1>2, GotoStep DEF Labels, Inside

LEMMA EnterDirectoryStep ==
  ASSUME TypeInv, NEW p \in Process, EnterDirectory(p)
  PROVE  call[p].at = "mkdirEntry" /\ (Ends(p) \/ AsksFor(p, "self"))
<1>1. call[p].at = "mkdirEntry" /\ Label(call[p]) = "mkdirEntry"
  BY CurrentCall DEF EnterDirectory
<1>2. call[p].path \in File /\ call[p].path \in Path /\ call[p].gone = {}
  BY <1>1, FileInHand
<1>3. Return(p) \/ Ask(p, "self")
  BY DEF EnterDirectory
<1>. QED  BY <1>1, <1>2, <1>3, GotoStep, ReturnStep DEF Labels, Inside, AskedFor, Ends

LEMMA LookedForFileStep ==
  ASSUME TypeInv, NEW p \in Process, LookedForFile(p)
  PROVE  call[p].at = "self" /\ GoesTo(p, "write")
<1>1. call[p].at = "self" /\ Label(call[p]) = "self" /\ Goto(p, "write") /\ call[p].op = "create"
  BY CurrentCall DEF LookedForFile
<1>2. call[p].path \in File /\ call[p].gone = {}
  BY <1>1, CurrentCall, NothingGone DEF Shape, InTree
<1>. QED  BY <1>1, <1>2, GotoStep DEF Labels

LEMMA WriteStep ==
  ASSUME TypeInv, NEW p \in Process, Write(p)
  PROVE  /\ call[p].at = "write"
         /\ IF local /\ call[p].path \in target THEN GoesTo(p, "rename") ELSE AsksFor(p, "add")
<1>1. call[p].at = "write" /\ Label(call[p]) = "write"
  BY CurrentCall DEF Write
<1>2. call[p].path \in File /\ call[p].gone = {}
  BY <1>1, FileInHand
<1>3. CASE local /\ call[p].path \in target
  <2>1. Goto(p, "rename")
    BY <1>3 DEF Write
  <2>. QED  BY <1>1, <1>2, <1>3, <2>1, GotoStep DEF Labels
<1>4. CASE ~(local /\ call[p].path \in target)
  <2>1. Ask(p, "add")
    BY <1>4 DEF Write
  <2>. QED  BY <1>1, <1>2, <1>4, <2>1, GotoStep DEF Labels, Inside, AskedFor
<1>. QED  BY <1>3, <1>4

LEMMA RenameStep ==
  ASSUME TypeInv, NEW p \in Process, Rename(p)
  PROVE  /\ call[p].at = "rename"
         /\ IF Parent[call[p].path] \in target \cup {Top} THEN AsksFor(p, "add") ELSE Ends(p)
<1>1. call[p].at = "rename" /\ Label(call[p]) = "rename"
  BY CurrentCall DEF Rename
<1>2. call[p].path \in File /\ call[p].gone = {}
  BY <1>1, FileInHand
<1>3. CASE Parent[call[p].path] \in target \cup {Top}
  <2>1. Ask(p, "add")
    BY <1>3 DEF Rename
  <2>. QED  BY <1>1, <1>2, <1>3, <2>1, GotoStep DEF Labels, Inside, AskedFor
<1>4. CASE Parent[call[p].path] \notin target \cup {Top}
  BY <1>1, <1>4, ReturnStep DEF Rename, Ends
<1>. QED  BY <1>3, <1>4

LEMMA UnlinkFileStep ==
  ASSUME TypeInv, NEW p \in Process, UnlinkFile(p)
  PROVE  /\ call[p].at = "unlink"
         /\ IF local /\ call[p].path \notin target THEN Ends(p) ELSE GoesTo(p, "forget")
<1>1. call[p].at = "unlink" /\ Label(call[p]) = "unlink"
  BY CurrentCall DEF UnlinkFile
<1>2. call[p].path \in File /\ call[p].gone = {}
  BY <1>1, FileInHand
<1>3. CASE local /\ call[p].path \notin target
  BY <1>1, <1>3, ReturnStep DEF UnlinkFile, Ends
<1>4. CASE ~(local /\ call[p].path \notin target)
  <2>1. Goto(p, "forget")
    BY <1>4 DEF UnlinkFile
  <2>. QED  BY <1>1, <1>2, <1>4, <2>1, GotoStep DEF Labels, Inside
<1>. QED  BY <1>3, <1>4

LEMMA ClearBelowStep ==
  ASSUME TypeInv, NEW p \in Process, ClearBelow(p)
  PROVE  /\ call[p].at = "clearing" /\ local
         /\ IF Moved(p) THEN Ends(p) ELSE GoesTo(p, "rmdir")
<1>1. call[p].at = "clearing" /\ Label(call[p]) = "clearing" /\ local
  BY CurrentCall DEF ClearBelow, Shape
<1>2. CASE Moved(p)
  BY <1>1, <1>2, ReturnStep DEF ClearBelow, Ends
<1>3. CASE ~Moved(p)
  <2>1. Goto(p, "rmdir")
    BY <1>3 DEF ClearBelow
  <2>2. call[p].gone = {}
    BY <1>1, NothingGone
  <2>. QED  BY <1>1, <1>3, <2>1, <2>2, GotoStep DEF Labels, Inside, InTree
<1>. QED  BY <1>2, <1>3

LEMMA RemoveDirectoryStep ==
  ASSUME TypeInv, NEW p \in Process, RemoveDirectory(p)
  PROVE  LET d == Head(call[p].stack) IN
         /\ call[p].at = "rmdir"
         /\ IF Found(p, Parent[d]) /\ local /\ d \notin target THEN Ends(p) ELSE GoesTo(p, "rmdirEntry")
<1>. DEFINE d == Head(call[p].stack)
<1>1. call[p].at = "rmdir" /\ Label(call[p]) = "rmdir"
  BY CurrentCall DEF RemoveDirectory
<1>2. CASE Found(p, Parent[d]) /\ local /\ d \notin target
  BY <1>1, <1>2, ReturnStep DEF RemoveDirectory, Ends
<1>3. CASE ~(Found(p, Parent[d]) /\ local /\ d \notin target)
  <2>1. Goto(p, "rmdirEntry")
    BY <1>3 DEF RemoveDirectory
  <2>2. \A f \in call[p].gone : Parent[f] # Head(call[p].stack)
    BY <1>1, CurrentCall DEF Shape
  <2>. QED  BY <1>1, <1>3, <2>1, <2>2, GotoStep DEF Labels, Inside, InTree
<1>. QED  BY <1>2, <1>3

LEMMA DeleteFilesStep ==
  ASSUME TypeInv, NEW p \in Process, DeleteFiles(p)
  PROVE  LET c == call[p]
             found == c.gone \cap ChildrenOf(Head(c.stack)) IN
         /\ c.at = "deleting" /\ ~local
         /\ StepTo(p, Rec(c.op, c.path, "rmdir", c.next, c.seen, c.stack, c.left, c.gone \ found))
<1>. DEFINE c == call[p]
            found == c.gone \cap ChildrenOf(Head(c.stack))
            gone == c.gone \ found
            new == Rec(c.op, c.path, "rmdir", c.next, c.seen, c.stack, c.left, gone)
<1>1. c.at = "deleting" /\ Label(c) = "deleting" /\ c \in CallRecord /\ Shape(c, local) /\ ~local
  BY CurrentCall DEF DeleteFiles, Shape
<1>2. NextWithFiles(p, "rmdir", gone)
  BY DEF DeleteFiles, NextWithFiles
<1>3. gone \subseteq c.gone /\ \A f \in gone : Parent[f] # Head(c.stack)
  BY <1>1 DEF ChildrenOf, CallRecord, Path
<1>. HIDE DEF gone
<1>4. call' = [call EXCEPT ![p] = new]
  BY <1>2, ReplacedFields DEF TypeInv
<1>5. new \in CallRecord
  BY <1>1, <1>3 DEF Rec, CallRecord, Labels, Inside
<1>6. Shape(new, local)
  BY <1>1, <1>3 DEF Rec, Shape, Label, InTree, Looking
<1>7. new.op = c.op /\ ~Clearer(new)
  BY DEF Rec, Clearer, Label
<1>. QED  BY <1>1, <1>4, <1>5, <1>6, <1>7 DEF StepTo, gone

LEMMA DestroyStep ==
  ASSUME TypeInv, NEW p \in Process, Destroy(p)
  PROVE  call[p].at = "destroy" /\ GoesTo(p, "rmcache")
<1>1. call[p].at = "destroy" /\ Label(call[p]) = "destroy" /\ Goto(p, "rmcache")
  BY CurrentCall DEF Destroy
<1>2. Clearer(call[p])
  BY <1>1 DEF Clearer
<1>3. call[p].gone = {}
  BY <1>1, NothingGone DEF InTree
<1>. QED  BY <1>1, <1>2, <1>3, GotoStep DEF Labels

LEMMA LookedForItemStep ==
  ASSUME TypeInv, NEW p \in Process, LookedForItem(p)
  PROVE  LET c == call[p] IN
         /\ c.at = "self" /\ c.path \in Path
         /\ \/ c.path \in File
                 /\ StepTo(p, Rec(c.op, c.path, "unlink", c.next, NoListing, <<>>, c.left, {}))
            \/ c.path \in Dir /\ local
                 /\ StepTo(p, Rec(c.op, c.path, "clearing", c.next, NoListing, <<c.path>>, c.left, {}))
            \/ c.path \in Dir /\ ~local
                 /\ StepTo(p, Rec(c.op, c.path, "sweep", c.next, NoListing, <<c.path>>, c.left, {}))
<1>. DEFINE c == call[p]
            q == c.path
<1>1. /\ c.at = "self" /\ Label(c) = "self" /\ c \in CallRecord /\ Shape(c, local) /\ c.gone = {}
      /\ c.op = "remove"
  BY CurrentCall, NothingGone DEF LookedForItem, Removing, InTree
<1>2. q \in Path /\ q # Top
  BY <1>1, ParentOf DEF Shape
<1>3. /\ NoListing \in [dir : Dir \cup {None}, items : SUBSET Path]
      /\ NoListing.dir = None /\ NoListing.items = {} /\ None \notin Dir
      /\ ChildrenOf(None) = {}
  BY Records
<1>4. CASE q \in File
  <2>. DEFINE new == Rec(c.op, q, "unlink", c.next, NoListing, <<>>, c.left, {})
  <2>1. q \notin Dir
    BY <1>4, TreeAssumption
  <2>2. ToRemove(p, NoListing, <<>>, "unlink")
    BY <1>4, <2>1 DEF LookedForItem, ToRemove
  <2>3. call' = [call EXCEPT ![p] = new]
    <3>. DEFINE s == <<>>
    <3>1. ToRemove(p, NoListing, s, "unlink")
      BY <2>2
    <3>. HIDE DEF s
    <3>2. call' = [call EXCEPT ![p] = Rec(c.op, q, "unlink", c.next, NoListing, s, c.left, c.gone)]
      BY <3>1, ReplacedFields DEF TypeInv
    <3>. QED  BY <1>1, <3>2 DEF s
  <2>4. new \in CallRecord
    BY <1>1, <1>3 DEF Rec, CallRecord, Labels, Inside
  <2>5. Shape(new, local)
    BY <1>1, <1>3, <1>4 DEF Rec, Shape, Label, InTree
  <2>6. new.op = c.op /\ ~Clearer(new)
    BY DEF Rec, Clearer, Label
  <2>. QED  BY <1>1, <1>2, <1>4, <2>3, <2>4, <2>5, <2>6 DEF StepTo
<1>5. CASE q \in Dir
  <2>0. q \notin File
    BY <1>5, TreeAssumption
  <2>. DEFINE l == IF local THEN "clearing" ELSE "sweep"
              new == Rec(c.op, q, l, c.next, NoListing, <<q>>, c.left, {})
  <2>1. l \in {"clearing", "sweep"} /\ (l = "clearing" <=> local)
    OBVIOUS
  <2>2. ToRemove(p, NoListing, <<q>>, l)
    <3>1. CASE local
      BY <1>5, <2>0, <3>1 DEF LookedForItem, ToRemove
    <3>2. CASE ~local
      BY <1>5, <2>0, <3>2 DEF LookedForItem, ToRemove
    <3>. QED  BY <3>1, <3>2
  <2>. HIDE DEF l
  <2>3. call' = [call EXCEPT ![p] = new]
    <3>. DEFINE s == <<q>>
    <3>1. ToRemove(p, NoListing, s, l)
      BY <2>2
    <3>. HIDE DEF s
    <3>2. call' = [call EXCEPT ![p] = Rec(c.op, q, l, c.next, NoListing, s, c.left, c.gone)]
      BY <3>1, ReplacedFields DEF TypeInv
    <3>. QED  BY <1>1, <3>2 DEF s
  <2>4. /\ <<q>> \in Seq(Dir \ {Top}) /\ <<q>> # <<>>
        /\ \A k \in 1..Len(<<q>>) : <<q>>[k] = q
    BY <1>2, <1>5
  <2>5. new \in CallRecord
    BY <1>1, <1>3, <2>1, <2>4 DEF Rec, CallRecord, Labels, Inside
  <2>6. Shape(new, local)
    <3>. DEFINE s == <<q>>
    <3>1. s # <<>> /\ \A k \in 1..Len(s) : s[k] = q
      BY <2>4
    <3>. HIDE DEF s
    <3>2. Shape(Rec(c.op, q, l, c.next, NoListing, s, c.left, {}), local)
      BY <1>1, <1>2, <1>3, <1>5, <2>1, <3>1 DEF Rec, Shape, Label, InTree, Looking, s
    <3>. QED  BY <3>2 DEF s
  <2>7. new.op = c.op /\ ~Clearer(new)
    BY <2>1 DEF Rec, Clearer, Label
  <2>8. StepTo(p, new)
    BY <2>3, <2>5, <2>6, <2>7 DEF StepTo
  <2>. QED  BY <1>1, <1>2, <1>5, <2>8 DEF l
<1>. QED  BY <1>2, <1>4, <1>5 DEF Path

LEMMA ForgetDirectoryStep ==
  ASSUME TypeInv, NEW p \in Process, ForgetDirectory(p)
  PROVE  LET c == call[p]
             d == Head(c.stack) IN
         /\ c.at = "rmdirEntry" /\ d \in Dir /\ d \in Path
         /\ \/ Ends(p) /\ (EntryFails(p, d) \/ c.gone = {})
            \/ ~local /\ StepTo(p, Rec(c.op, c.path, "visit", c.next, c.seen, Tail(c.stack), c.left, c.gone))
<1>. DEFINE c == call[p]
            d == Head(c.stack)
            rest == Tail(c.stack)
<1>1. /\ c.at = "rmdirEntry" /\ Label(c) = "rmdirEntry" /\ c \in CallRecord /\ Shape(c, local)
  BY CurrentCall DEF ForgetDirectory
<1>2. /\ c.path \in Dir \ {Top} /\ rest \in Seq(Dir \ {Top})
      /\ Head(c.stack) \in Dir /\ Head(c.stack) \in Path
      /\ \A k \in 1..Len(rest) : rest[k] \in {c.path} \cup Below(c.path)
      /\ local => rest = <<>>
  BY <1>1, HeadOfStack DEF InTree
<1>3. \A f \in c.gone : \E k \in 1..Len(rest) : rest[k] = Parent[f]
  <2>. SUFFICES ASSUME NEW f \in c.gone PROVE \E k \in 1..Len(rest) : rest[k] = Parent[f]
    OBVIOUS
  <2>. DEFINE s == c.stack
  <2>1. Parent[f] # Head(s) /\ s \in Seq(Dir \ {Top}) /\ s # <<>>
    BY <1>1 DEF Shape, CallRecord, InTree
  <2>2. PICK k \in 1..Len(s) : s[k] = Parent[f]
    BY <1>1 DEF Shape
  <2>3. Head(s) = s[1] /\ Len(rest) = Len(s) - 1 /\ Len(s) \in Nat /\ \A i \in 1..Len(rest) : rest[i] = s[i + 1]
    BY <2>1, HeadTailProperties, LenProperties
  <2>. HIDE DEF s, rest
  <2>4. k # 1
    BY <2>1, <2>2, <2>3
  <2>5. k - 1 \in 1..Len(rest) /\ rest[k - 1] = s[(k - 1) + 1] /\ (k - 1) + 1 = k
    BY <2>3, <2>4
  <2>. QED  BY <2>2, <2>5
<1>4. CASE rest = <<>> \/ EntryFails(p, d)
  <2>1. rest = <<>> => c.gone = {}
    <3>. HIDE DEF rest
    <3>1. rest = <<>> => Len(rest) = 0 /\ 1..0 = {}
      OBVIOUS
    <3>. QED  BY <1>3, <3>1
  <2>. QED  BY <1>1, <1>2, <1>4, <2>1, ReturnStep DEF ForgetDirectory, Ends
<1>5. CASE ~(rest = <<>> \/ EntryFails(p, d))
  <2>. DEFINE new == Rec(c.op, c.path, "visit", c.next, c.seen, rest, c.left, c.gone)
  <2>1. NextOnStack(p, "visit", rest)
    BY <1>5 DEF ForgetDirectory, NextOnStack
  <2>. HIDE DEF rest
  <2>2. call' = [call EXCEPT ![p] = new]
    BY <2>1, ReplacedFields DEF TypeInv
  <2>3. new \in CallRecord
    BY <1>1, <1>2 DEF Rec, CallRecord, Labels, Inside
  <2>4. Shape(new, local)
    BY <1>1, <1>2, <1>3, <1>5 DEF Rec, Shape, Label, InTree, Looking
  <2>5. new.op = c.op /\ ~Clearer(new) /\ ~local
    BY <1>2, <1>5 DEF Rec, Clearer, Label
  <2>. QED  BY <1>1, <1>2, <2>2, <2>3, <2>4, <2>5 DEF StepTo, rest
<1>. QED  BY <1>4, <1>5

LEMMA SweepStep ==
  ASSUME TypeInv, NEW p \in Process, Sweep(p)
  PROVE  LET c == call[p] IN
         /\ c.at = "sweep"
         /\ StepTo(p, Rec(c.op, c.path, "visit", c.next, NoListing, c.stack,
                          c.left \cup ItemsIn(p, Head(c.stack)), c.gone))
<1>. DEFINE c == call[p]
            left == c.left \cup ItemsIn(p, Head(c.stack))
            new == Rec(c.op, c.path, "visit", c.next, NoListing, c.stack, left, c.gone)
<1>1. c.at = "sweep" /\ Label(c) = "sweep" /\ c \in CallRecord /\ Shape(c, local) /\ ~local
  BY CurrentCall DEF Sweep, Shape
<1>2. Head(c.stack) \in Dir
  BY <1>1, HeadOfStack DEF InTree
<1>3. left \subseteq Path
  BY <1>1, <1>2, ItemsInDirectory DEF Sweep, ChildrenOf, CallRecord
<1>4. call' = [call EXCEPT ![p] = new]
  <2>1. WithItems(p, "visit", NoListing, left)
    BY DEF Sweep, WithItems
  <2>. HIDE DEF left
  <2>. QED  BY <2>1, ReplacedFields DEF TypeInv
<1>. HIDE DEF left
<1>5. new \in CallRecord
  BY <1>1, <1>3, Records DEF Rec, CallRecord, Labels, Inside
<1>6. Shape(new, local)
  BY <1>1, Records DEF Rec, Shape, Label, InTree, Looking
<1>7. new.op = c.op /\ ~Clearer(new)
  BY DEF Rec, Clearer, Label
<1>. QED  BY <1>1, <1>4, <1>5, <1>6, <1>7 DEF StepTo, left

\* A child is a directory, which is removed first, or a file.
LEMMA VisitStep ==
  ASSUME TypeInv, NEW p \in Process, Visit(p)
  PROVE  LET c == call[p]
             d == Head(c.stack) IN
         /\ c.at = "visit" /\ ~local /\ d \in Dir
         /\ \/ GoesTo(p, "deleting") /\ UNCHANGED <<items, doubt>>
            \/ /\ \E e \in Dir : \E left : StepTo(p, Rec(c.op, c.path, "sweep", c.next, c.seen, <<e>> \o c.stack, left, c.gone))
               /\ UNCHANGED <<items, doubt>>
            \/ Ends(p) /\ doubt' = doubt \cup c.gone /\ items' = items
            \/ \E f \in File :
                 /\ f \in Path /\ Parent[f] = d /\ d \in loaded
                 /\ \E left : StepTo(p, Rec(c.op, c.path, "visit", c.next, c.seen, c.stack, left, c.gone \cup {f}))
                 /\ items' = items \ {f} /\ doubt' = doubt
<1>. DEFINE c == call[p]
            s == c.stack
            d == Head(s)
            mine == c.left \cap ChildrenOf(d)
<1>1. c.at = "visit" /\ Label(c) = "visit" /\ c \in CallRecord /\ Shape(c, local) /\ ~local
  BY CurrentCall DEF Visit, Shape
<1>2. /\ c.path \in Dir \ {Top} /\ d \in Dir /\ d \in Path /\ d \in {c.path} \cup Below(c.path)
      /\ s \in Seq(Dir \ {Top}) /\ s # <<>>
      /\ \A k \in 1..Len(s) : s[k] \in {c.path} \cup Below(c.path)
  BY <1>1, HeadOfStack DEF InTree, Shape
<1>3. \A q \in mine : q \in Path /\ Parent[q] = d /\ q \in Below(c.path)
  BY <1>2, BelowOf DEF ChildrenOf
<1>4. CASE mine = {} /\ Goto(p, "deleting") /\ UNCHANGED <<items, doubt>>
  <2>1. GoesTo(p, "deleting")
    BY <1>1, <1>4, GotoStep DEF Labels, Inside, InTree
  <2>. QED  BY <1>1, <1>2, <1>4, <2>1
<1>5. ASSUME NEW e \in mine \cap Dir, UNCHANGED <<items, doubt>>,
             call' = [call EXCEPT ![p].at = "sweep", ![p].stack = <<e>> \o @, ![p].left = @ \ {e}]
      PROVE  StepTo(p, Rec(c.op, c.path, "sweep", c.next, c.seen, <<e>> \o s, c.left \ {e}, c.gone))
  <2>. DEFINE t == <<e>> \o s
              left == c.left \ {e}
              new == Rec(c.op, c.path, "sweep", c.next, c.seen, t, left, c.gone)
  <2>1. InDirectory(p, "sweep", t, left)
    BY <1>5 DEF InDirectory
  <2>2. e \in Dir \ {Top} /\ e \in {c.path} \cup Below(c.path)
    BY <1>3, ParentOf
  <2>3. /\ t \in Seq(Dir \ {Top}) /\ Len(t) = Len(s) + 1 /\ Len(s) \in Nat
        /\ \A k \in 1..Len(t) : t[k] = IF k = 1 THEN e ELSE s[k - 1]
    BY <1>2, <2>2
  <2>4. t # <<>> /\ \A k \in 1..Len(t) : t[k] \in {c.path} \cup Below(c.path)
    <3>1. ASSUME NEW k \in 1..Len(t), k # 1 PROVE k - 1 \in 1..Len(s)
      BY <2>3, <3>1
    <3>2. t # <<>>
      BY <2>3
    <3>. QED  BY <1>2, <2>2, <2>3, <3>1, <3>2
  <2>5. \A f \in c.gone : \E k \in 1..Len(t) : t[k] = Parent[f]
    <3>. SUFFICES ASSUME NEW f \in c.gone PROVE \E k \in 1..Len(t) : t[k] = Parent[f]
      OBVIOUS
    <3>1. PICK k \in 1..Len(s) : s[k] = Parent[f]
      BY <1>1 DEF Shape
    <3>. HIDE DEF t, s
    <3>2. k + 1 \in 1..Len(t) /\ k + 1 # 1 /\ t[k + 1] = s[(k + 1) - 1] /\ (k + 1) - 1 = k
      BY <2>3
    <3>. QED  BY <3>1, <3>2
  <2>6. left \subseteq Path
    BY <1>1 DEF CallRecord
  <2>. HIDE DEF t, left
  <2>7. call' = [call EXCEPT ![p] = new]
    BY <2>1, ReplacedFields DEF TypeInv
  <2>8. new \in CallRecord
    BY <1>1, <1>2, <2>3, <2>6 DEF Rec, CallRecord, Labels, Inside
  <2>9. Shape(new, local)
    BY <1>1, <1>2, <2>4, <2>5 DEF Rec, Shape, Label, InTree, Looking
  <2>10. new.op = c.op /\ ~Clearer(new)
    BY DEF Rec, Clearer, Label
  <2>. QED  BY <2>7, <2>8, <2>9, <2>10 DEF StepTo, t, left
<1>6. ASSUME NEW f \in mine \cap File, call' = [call EXCEPT ![p].left = @ \ {f}, ![p].gone = @ \cup {f}]
      PROVE  StepTo(p, Rec(c.op, c.path, "visit", c.next, c.seen, s, c.left \ {f}, c.gone \cup {f}))
  <2>. DEFINE left == c.left \ {f}
              gone == c.gone \cup {f}
              new == Rec(c.op, c.path, "visit", c.next, c.seen, s, left, gone)
  <2>1. WithFiles(p, left, gone)
    BY <1>6 DEF WithFiles
  <2>2. left \subseteq Path /\ gone \subseteq File
    BY <1>1 DEF CallRecord
  <2>3. \A g \in gone : \E k \in 1..Len(s) : s[k] = Parent[g]
    <3>1. \A g \in c.gone : \E k \in 1..Len(s) : s[k] = Parent[g]
      BY <1>1 DEF Shape
    <3>2. 1 \in 1..Len(s) /\ s[1] = d
      <4>. HIDE DEF s
      <4>1. Len(s) \in Nat /\ Len(s) # 0 /\ Head(s) = s[1]
        BY <1>2, LenProperties, EmptySeq, HeadTailProperties
      <4>. QED  BY <4>1
    <3>. QED  BY <1>3, <3>1, <3>2
  <2>. HIDE DEF left, gone
  <2>4. call' = [call EXCEPT ![p] = new]
    BY <1>1, <2>1, ReplacedFields DEF TypeInv
  <2>5. new \in CallRecord
    BY <1>1, <2>2 DEF Rec, CallRecord, Labels, Inside
  <2>6. Shape(new, local)
    BY <1>1, <2>3 DEF Rec, Shape, Label, InTree, Looking
  <2>7. new.op = c.op /\ ~Clearer(new)
    BY DEF Rec, Clearer, Label
  <2>. QED  BY <2>4, <2>5, <2>6, <2>7 DEF StepTo, left, gone
<1>7. ASSUME NEW f \in mine \cap File, Return(p), doubt' = doubt \cup c.gone, items' = items
      PROVE  Ends(p)
  BY <1>7, ReturnStep DEF Ends
<1>. HIDE DEF mine
<1>8. \/ mine = {} /\ Goto(p, "deleting") /\ UNCHANGED <<items, doubt>>
      \/ \E e \in mine \cap Dir :
           /\ call' = [call EXCEPT ![p].at = "sweep", ![p].stack = <<e>> \o @, ![p].left = @ \ {e}]
           /\ UNCHANGED <<items, doubt>>
      \/ \E f \in mine \cap File :
           IF Moved(p) \/ d \notin loaded
             THEN Return(p) /\ doubt' = doubt \cup c.gone /\ items' = items
             ELSE /\ call' = [call EXCEPT ![p].left = @ \ {f}, ![p].gone = @ \cup {f}]
                  /\ items' = items \ {f} /\ doubt' = doubt
  BY DEF Visit, mine
<1>9. CASE \E e \in mine \cap Dir :
           /\ call' = [call EXCEPT ![p].at = "sweep", ![p].stack = <<e>> \o @, ![p].left = @ \ {e}]
           /\ UNCHANGED <<items, doubt>>
  BY <1>1, <1>2, <1>5, <1>9
<1>10. CASE \E f \in mine \cap File :
           IF Moved(p) \/ d \notin loaded
             THEN Return(p) /\ doubt' = doubt \cup c.gone /\ items' = items
             ELSE /\ call' = [call EXCEPT ![p].left = @ \ {f}, ![p].gone = @ \cup {f}]
                  /\ items' = items \ {f} /\ doubt' = doubt
  <2>1. PICK f \in mine \cap File :
           IF Moved(p) \/ d \notin loaded
             THEN Return(p) /\ doubt' = doubt \cup c.gone /\ items' = items
             ELSE /\ call' = [call EXCEPT ![p].left = @ \ {f}, ![p].gone = @ \cup {f}]
                  /\ items' = items \ {f} /\ doubt' = doubt
    BY <1>10
  <2>2. CASE Moved(p) \/ d \notin loaded
    BY <1>1, <1>2, <1>7, <2>1, <2>2
  <2>3. CASE ~(Moved(p) \/ d \notin loaded)
    BY <1>1, <1>2, <1>3, <1>6, <2>1, <2>3
  <2>. QED  BY <2>2, <2>3
<1>. QED  BY <1>4, <1>8, <1>9, <1>10

\* A call begins: it asks for the lock.
LEMMA CallStep ==
  ASSUME TypeInv, NEW p \in Process, Call(p)
  PROVE  \E op \in Operation, path \in Path \cup Dir, label \in AskedFor \ {"mkdir", "add"} :
           LET new == Rec(op, path, "asking", label, NoListing, <<>>, {}, {}) IN
           /\ call[p] = Idle /\ call' = [call EXCEPT ![p] = new]
           /\ new \in CallRecord /\ Shape(new, local)
           /\ UNCHANGED <<disk, cache, handles, locks, doubt>>
           /\ \/ ~Clearer(new) /\ trouble' = trouble
              \/ trouble < MaxTrouble /\ trouble' = trouble + 1
<1>1. /\ NoListing \in [dir : Dir \cup {None}, items : SUBSET Path]
      /\ NoListing.dir = None /\ NoListing.items = {} /\ None \notin Dir
      /\ ChildrenOf(None) = {}
  BY Records
<1>2. ASSUME NEW op, NEW path \in Path \cup Dir, NEW label \in AskedFor \ {"mkdir", "add"},
             Begin(p, op, path, label),
             label = "self" => op \in {"item", "remove"} /\ path \in Path,
             label = "parent" => op = "create" /\ path \in File,
             label \in {"list", "fresh", "clear"} => op = label /\ path \in Dir,
             \/ label # "destroy" /\ trouble' = trouble
             \/ trouble < MaxTrouble /\ trouble' = trouble + 1
      PROVE  LET new == Rec(op, path, "asking", label, NoListing, <<>>, {}, {}) IN
             /\ op \in Operation
             /\ call[p] = Idle /\ call' = [call EXCEPT ![p] = new]
             /\ new \in CallRecord /\ Shape(new, local)
             /\ UNCHANGED <<disk, cache, handles, locks, doubt>>
             /\ \/ ~Clearer(new) /\ trouble' = trouble
                \/ trouble < MaxTrouble /\ trouble' = trouble + 1
  <2>. DEFINE new == Rec(op, path, "asking", label, NoListing, <<>>, {}, {})
  <2>1. /\ <<op, path>> \in Calls[p] /\ call[p] = Idle
        /\ UNCHANGED <<disk, cache, handles, locks, doubt>>
    BY <1>2 DEF Begin
  <2>2. op \in Operation
    BY <2>1, TreeAssumption
  <2>4. label \in Labels /\ label \notin {"rmcache", "mkdir", "add"}
    BY DEF AskedFor, Labels, Inside
  <2>3. call' = [call EXCEPT ![p] = new]
    <3>1. call' = [call EXCEPT ![p] = [Idle EXCEPT !.op = op, !.path = path, !.at = "asking", !.next = label]]
      BY <1>2 DEF Begin
    <3>2. Idle \in CallRecord /\ Idle = Rec(None, None, "idle", None, NoListing, <<>>, {}, {})
      BY Records DEF Idle, Rec
    <3>3. ASSUME NEW I \in CallRecord, I = Rec(None, None, "idle", None, NoListing, <<>>, {}, {})
          PROVE  [I EXCEPT !.op = op, !.path = path, !.at = "asking", !.next = label] = new
      <4>1. I.seen = NoListing /\ I.stack = <<>> /\ I.left = {} /\ I.gone = {}
        BY <3>3 DEF Rec
      <4>. DEFINE J == [I EXCEPT !.op = op, !.path = path, !.at = "asking", !.next = label]
      <4>2. J \in CallRecord
        BY <2>2, <2>4 DEF CallRecord, Labels
      <4>3. /\ J.op = op /\ J.path = path /\ J.at = "asking" /\ J.next = label
            /\ J.seen = NoListing /\ J.stack = <<>> /\ J.left = {} /\ J.gone = {}
        BY <4>1 DEF CallRecord
      <4>4. J = Rec(J.op, J.path, J.at, J.next, J.seen, J.stack, J.left, J.gone)
        <5>. HIDE DEF J
        <5>. QED  BY <4>2 DEF CallRecord, Rec
      <4>. HIDE DEF J
      <4>5. J = new
        BY <4>3, <4>4
      <4>. QED  BY <4>5 DEF J
    <3>. QED  BY <3>1, <3>2, <3>3
  <2>5. new \in CallRecord
    BY <1>1, <2>2, <2>4 DEF Rec, CallRecord, Labels
  <2>6. Shape(new, local)
    BY <1>1, <1>2, <2>4 DEF Rec, Shape, Label, InTree, AskedFor
  <2>7. Clearer(new) => label = "destroy"
    BY <2>4 DEF Clearer, Label, Rec
  <2>. QED  BY <1>2, <2>1, <2>2, <2>3, <2>5, <2>6, <2>7
<1>3. CASE \E q \in Path : Begin(p, "item", q, "self") /\ UNCHANGED trouble
  BY <1>2, <1>3 DEF AskedFor
<1>4. CASE \E q \in Path : Begin(p, "remove", q, "self") /\ UNCHANGED trouble
  BY <1>2, <1>4 DEF AskedFor
<1>5. CASE \E d \in Dir : Begin(p, "list", d, "list") /\ UNCHANGED trouble
  BY <1>2, <1>5 DEF AskedFor
<1>6. CASE \E d \in Dir : Begin(p, "fresh", d, "fresh") /\ UNCHANGED trouble
  BY <1>2, <1>6 DEF AskedFor
<1>7. CASE \E d \in Dir : Begin(p, "clear", d, "clear") /\ UNCHANGED trouble
  BY <1>2, <1>7 DEF AskedFor
<1>8. CASE \E f \in File : Begin(p, "create", f, "parent") /\ UNCHANGED trouble
  <2>1. File \subseteq Path
    BY DEF Path
  <2>. QED  BY <1>2, <1>8, <2>1 DEF AskedFor
<1>9. CASE trouble < MaxTrouble /\ Begin(p, "clearAll", Top, "destroy") /\ trouble' = trouble + 1
  <2>1. Top \in Path \cup Dir
    BY TreeAssumption
  <2>. QED  BY <1>2, <1>9, <2>1 DEF AskedFor
<1>. QED  BY <1>3, <1>4, <1>5, <1>6, <1>7, <1>8, <1>9 DEF Call

Clearers == {p \in Process : Clearer(call[p])}

LEMMA CountClearers ==
  /\ IsFiniteSet(Clearers) /\ Cardinality(Clearers) \in Nat
  /\ IsFiniteSet(Clearers') /\ Cardinality(Clearers') \in Nat
<1>1. IsFiniteSet(Clearers) /\ IsFiniteSet(Clearers')
  BY TreeAssumption, FS_Subset DEF Clearers
<1>. QED  BY <1>1, FS_CardinalityType

LEMMA StepKeepsCalls ==
  ASSUME TypeInv, NEW p \in Process, NEW c, StepTo(p, c), local' = local, lockFile' = lockFile,
         trouble' \in {trouble, trouble + 1}
  PROVE  TypeCalls' /\ CountInv' /\ ShapeInv'
<1>1. /\ call' \in [Process -> CallRecord] /\ call'[p] = c
      /\ \A r \in Process \ {p} : call'[r] = call[r]
  BY OneCall DEF StepTo, TypeInv
<1>2. TypeCalls'
  BY <1>1 DEF TypeCalls, StepTo
<1>3. ShapeInv'
  BY <1>1 DEF ShapeInv, TypeInv, StepTo
<1>4. Clearers' \subseteq Clearers
  BY <1>1 DEF Clearers, StepTo
<1>5. Cardinality(Clearers') <= Cardinality(Clearers)
  BY <1>4, CountClearers, FS_Subset
<1>6. lockFile \in Nat /\ trouble \in Nat /\ lockFile + Cardinality(Clearers) <= trouble
  BY DEF TypeInv, TypeLocks, CountInv, Clearers
<1>7. lockFile' + Cardinality(Clearers') <= trouble'
  BY <1>5, <1>6, CountClearers
<1>. QED  BY <1>2, <1>3, <1>7 DEF CountInv, Clearers

LEMMA CallKeepsTypes ==
  ASSUME TypeInv, NEW p \in Process, Call(p)
  PROVE  TypeInv'
<1>1. PICK op \in Operation, path \in Path \cup Dir, label \in AskedFor \ {"mkdir", "add"} :
           LET new == Rec(op, path, "asking", label, NoListing, <<>>, {}, {}) IN
           /\ call[p] = Idle /\ call' = [call EXCEPT ![p] = new]
           /\ new \in CallRecord /\ Shape(new, local)
           /\ UNCHANGED <<disk, cache, handles, locks, doubt>>
           /\ \/ ~Clearer(new) /\ trouble' = trouble
              \/ trouble < MaxTrouble /\ trouble' = trouble + 1
  BY CallStep
<1>. DEFINE new == Rec(op, path, "asking", label, NoListing, <<>>, {}, {})
<1>. HIDE DEF new
<1>3. /\ call' \in [Process -> CallRecord] /\ call'[p] = new
      /\ \A r \in Process \ {p} : call'[r] = call[r]
  BY <1>1, OneCall DEF TypeInv, new
<1>4. TypeCalls'
  BY <1>3 DEF TypeCalls
<1>5. ShapeInv'
  BY <1>1, <1>3 DEF ShapeInv, TypeInv, new, disk
<1>6. p \notin Clearers
  BY <1>1 DEF Clearers, Clearer, Label, Idle
<1>7. /\ Clearer(new) => Clearers' = Clearers \cup {p}
      /\ ~Clearer(new) => Clearers' = Clearers
  BY <1>3, <1>6 DEF Clearers
<1>8. Cardinality(Clearers \cup {p}) = Cardinality(Clearers) + 1
  BY <1>6, CountClearers, FS_AddElement
<1>9. lockFile \in Nat /\ trouble \in 0..MaxTrouble /\ lockFile + Cardinality(Clearers) <= trouble
  BY DEF TypeInv, TypeLocks, CountInv, Clearers
<1>10. lockFile' + Cardinality(Clearers') <= trouble' /\ trouble' \in 0..MaxTrouble
  <2>1. CASE ~Clearer(new)
    <3>1. trouble' \in {trouble, trouble + 1} /\ (trouble' # trouble => trouble < MaxTrouble)
      BY <1>1
    <3>. QED  BY <1>1, <1>7, <1>9, <2>1, <3>1, CountClearers, TreeAssumption DEF locks
  <2>2. CASE Clearer(new)
    <3>1. trouble < MaxTrouble /\ trouble' = trouble + 1
      BY <1>1, <2>2 DEF new
    <3>2. Cardinality(Clearers') = Cardinality(Clearers) + 1 /\ lockFile' = lockFile
      BY <1>1, <1>7, <1>8, <2>2 DEF locks
    <3>. QED  BY <1>9, <3>1, <3>2, CountClearers, TreeAssumption
  <2>. QED  BY <2>1, <2>2
<1>11. CountInv'
  BY <1>10 DEF CountInv, Clearers
<1>12. TypeDisk' /\ TypeCache' /\ TypeHandles' /\ TypeLocks'
  BY <1>1, <1>10
     DEF TypeInv, TypeDisk, TypeCache, TypeHandles, TypeLocks, disk, cache, handles, locks
<1>. QED  BY <1>4, <1>5, <1>11, <1>12 DEF TypeInv

LEMMA RemoveDatabaseTypes ==
  ASSUME TypeInv, NEW p \in Process, RemoveDatabase(p)
  PROVE  TypeHandles' /\ loaded' = {} /\ items' = {}
<1>1. Nothing \in [loaded : SUBSET Dir, items : SUBSET Path]
  BY DEF Nothing
<1>2. [loaded |-> loaded, items |-> items] \in [loaded : SUBSET Dir, items : SUBSET Path]
  BY DEF TypeInv, TypeCache
<1>. QED  BY <1>1, <1>2 DEF RemoveDatabase, TypeInv, TypeHandles

LEMMA OpenTypes ==
  ASSUME TypeInv, NEW p \in Process, Open(p)
  PROVE  TypeHandles'
  BY DEF Open, TypeInv, TypeHandles

\* Process p has removed the directory of the cache: it is done, and those that
\* had opened the lock file wait for the one that was removed.
CacheRemoved(p, late) ==
  /\ call[p].at = "rmcache"
  /\ late \subseteq {q \in Process : call[q].at = "asking"}
  /\ RemoveDatabase(p)
  /\ lockFile' = lockFile + 1
  /\ call' = [q \in Process |-> IF q = p THEN Idle
                                ELSE IF q \in late THEN [call[q] EXCEPT !.at = "waiting"]
                                ELSE call[q]]
  /\ opened' = [q \in Process |-> IF q \in late THEN lockFile ELSE opened[q]]
  /\ lockLost' = (lockLost \/ late # {} \/ \E q \in Process : call[q].at \in Inside)
  /\ UNCHANGED <<disk, doubt, trouble>>

LEMMA RemoveCacheDirectoryStep ==
  ASSUME TypeInv, NEW p \in Process, RemoveCacheDirectory(p)
  PROVE  \E late : CacheRemoved(p, late)
<1>1. PICK late \in SUBSET {q \in Process : call[q].at = "asking"} :
    /\ call[p].at = "rmcache"
    /\ RemoveDatabase(p)
    /\ lockFile' = lockFile + 1
    /\ call' = [q \in Process |-> IF q = p THEN Idle
                                  ELSE IF q \in late THEN [call[q] EXCEPT !.at = "waiting"]
                                  ELSE call[q]]
    /\ opened' = [q \in Process |-> IF q \in late THEN lockFile ELSE opened[q]]
    /\ lockLost' = (lockLost \/ late # {} \/ \E q \in Process : call[q].at \in Inside)
    /\ UNCHANGED <<disk, doubt, trouble>>
  BY DEF RemoveCacheDirectory
<1>. QED  BY <1>1 DEF CacheRemoved

LEMMA LateCalls ==
  ASSUME TypeInv, NEW p \in Process, NEW late, CacheRemoved(p, late), NEW r \in Process \ {p}
  PROVE  /\ call'[r] \in CallRecord /\ Shape(call'[r], local)
         /\ call'[r].op = call[r].op /\ call'[r].path = call[r].path
         /\ Label(call'[r]) = Label(call[r])
         /\ r \notin late => call'[r] = call[r]
         /\ r \in late => call[r].at = "asking" /\ call'[r].at = "waiting"
<1>. DEFINE c == call[r]
            new == Rec(c.op, c.path, "waiting", c.next, c.seen, c.stack, c.left, c.gone)
<1>1. c \in CallRecord /\ Shape(c, local)
  BY CurrentCall
<1>2. CASE r \notin late
  BY <1>1, <1>2 DEF CacheRemoved
<1>3. CASE r \in late
  <2>1. c.at = "asking"
    BY <1>3 DEF CacheRemoved
  <2>2. call'[r] = [c EXCEPT !.at = "waiting"]
    BY <1>3 DEF CacheRemoved
  <2>3. c = Rec(c.op, c.path, c.at, c.next, c.seen, c.stack, c.left, c.gone)
    BY <1>1 DEF Rec, CallRecord
  <2>4. call'[r] = new
    BY <1>1, <2>2, <2>3 DEF Rec, CallRecord
  <2>5. new \in CallRecord
    BY <1>1 DEF Rec, CallRecord, Labels
  <2>6. Shape(new, local)
    BY <1>1, <2>1 DEF Rec, Shape, Label, InTree, Looking
  <2>7. new.op = c.op /\ new.path = c.path /\ Label(new) = Label(c) /\ new.at = "waiting"
    BY <2>1 DEF Rec, Label
  <2>. QED  BY <1>3, <2>1, <2>4, <2>5, <2>6, <2>7
<1>. QED  BY <1>2, <1>3

LEMMA RemoveCacheDirectoryKeepsTypes ==
  ASSUME TypeInv, NEW p \in Process, RemoveCacheDirectory(p)
  PROVE  TypeInv'
<1>1. PICK late : CacheRemoved(p, late)
  BY RemoveCacheDirectoryStep
<1>2. call'[p] = Idle
  BY <1>1 DEF CacheRemoved
<1>3. TypeCalls'
  <2>1. \A r \in Process : call'[r] \in CallRecord
    BY <1>1, <1>2, LateCalls, Records
  <2>2. \E f : call' = [q \in Process |-> f[q]]
    <3>. DEFINE f == [q \in Process |-> IF q = p THEN Idle
                                  ELSE IF q \in late THEN [call[q] EXCEPT !.at = "waiting"]
                                  ELSE call[q]]
    <3>1. call' = f /\ f = [q \in Process |-> f[q]]
      BY <1>1 DEF CacheRemoved
    <3>. QED  BY <3>1
  <2>. QED  BY <2>1, <2>2 DEF TypeCalls
<1>4. ShapeInv'
  <2>1. local' = local
    BY <1>1 DEF CacheRemoved, disk
  <2>. QED  BY <1>1, <1>2, <2>1, LateCalls, Records DEF ShapeInv
<1>5. p \in Clearers /\ Clearers' = Clearers \ {p}
  <2>1. Clearer(call[p])
    BY <1>1, CurrentCall DEF CacheRemoved, Clearer
  <2>2. ~Clearer(call'[p])
    BY <1>2 DEF Clearer, Idle, Label
  <2>3. \A r \in Process \ {p} : Clearer(call'[r]) <=> Clearer(call[r])
    BY <1>1, LateCalls DEF Clearer
  <2>. QED  BY <2>1, <2>2, <2>3 DEF Clearers
<1>6. Cardinality(Clearers') = Cardinality(Clearers) - 1
  BY <1>5, CountClearers, FS_RemoveElement
<1>7. lockFile \in Nat /\ trouble \in 0..MaxTrouble /\ lockFile + Cardinality(Clearers) <= trouble
  BY DEF TypeInv, TypeLocks, CountInv, Clearers
<1>8. lockFile' = lockFile + 1 /\ trouble' = trouble
  BY <1>1 DEF CacheRemoved
<1>9. CountInv'
  <2>1. lockFile' + Cardinality(Clearers') <= trouble'
    BY <1>6, <1>7, <1>8, CountClearers
  <2>. QED  BY <2>1 DEF CountInv, Clearers
<1>10. TypeLocks'
  <2>1. opened' \in [Process -> 0..lockFile']
    BY <1>1, <1>7, <1>8 DEF CacheRemoved, TypeInv, TypeLocks
  <2>2. lockLost' \in BOOLEAN
    BY <1>1 DEF CacheRemoved
  <2>. QED  BY <1>7, <1>8, <2>1, <2>2 DEF TypeLocks
<1>11. TypeHandles' /\ TypeCache' /\ TypeDisk'
  BY <1>1, RemoveDatabaseTypes DEF CacheRemoved, TypeInv, TypeCache, TypeDisk, disk
<1>. QED  BY <1>3, <1>4, <1>9, <1>10, <1>11 DEF TypeInv

\* Every step of a call but its first and the removal of the cache's directory
\* replaces the record of the process.
LEMMA ActionSteps ==
  ASSUME TypeInv, NEW p \in Process,
         \/ Enter(p) \/ Look(p) \/ Create(p) \/ Remove(p) \/ ClearPath(p) \/ Destroy(p)
         \/ FailRequest(p) \/ Crash(p)
  PROVE  \E c : StepTo(p, c)
<1>1. CASE Enter(p)
  BY <1>1, EnterStep DEF GoesTo
<1>2. CASE Look(p)
  <2>1. CASE ListTarget(p)
    BY <2>1, ListTargetStep
  <2>2. CASE StoreListing(p)
    BY <2>2, StoreListingStep
  <2>3. CASE Answer(p)
    BY <2>3, ReturnStep DEF Answer
  <2>. QED  BY <1>2, <2>1, <2>2, <2>3 DEF Look
<1>3. CASE LookedForParent(p) \/ MakeDirectory(p) \/ EnterDirectory(p) \/ LookedForFile(p)
  BY <1>3, LookedForParentStep, MakeDirectoryStep, EnterDirectoryStep, LookedForFileStep
     DEF GoesTo, AsksFor, Ends
<1>4. CASE Write(p) \/ Rename(p) \/ EnterFile(p)
  BY <1>4, WriteStep, RenameStep, ReturnStep DEF GoesTo, AsksFor, Ends, EnterFile
<1>5. CASE NothingToRemove(p) \/ ForgetFile(p)
  BY <1>5, ReturnStep DEF NothingToRemove, ForgetFile
<1>6. CASE LookedForItem(p)
  BY <1>6, LookedForItemStep
<1>7. CASE UnlinkFile(p) \/ ClearBelow(p) \/ RemoveDirectory(p)
  BY <1>7, UnlinkFileStep, ClearBelowStep, RemoveDirectoryStep DEF GoesTo, Ends
<1>8. CASE ForgetDirectory(p)
  BY <1>8, ForgetDirectoryStep DEF Ends
<1>9. CASE Sweep(p) \/ Visit(p)
  BY <1>9, SweepStep, VisitStep DEF Ends, GoesTo
<1>10. CASE DeleteFiles(p) \/ Destroy(p)
  BY <1>10, DeleteFilesStep, DestroyStep DEF GoesTo
<1>11. CASE ClearPath(p) \/ FailRequest(p) \/ Crash(p)
  BY <1>11, ReturnStep DEF ClearPath, FailRequest, Crash
<1>. QED
  BY <1>1, <1>2, <1>3, <1>4, <1>5, <1>6, <1>7, <1>8, <1>9, <1>10, <1>11 DEF Create, Remove

\* What a process changes is made of paths.
LEMMA ChangingArePaths ==
  ASSUME TypeInv, NEW p \in Process
  PROVE  Changing(p) \subseteq Path
<1>. DEFINE c == call[p]
            at == IF c.at \in {"asking", "waiting", "caching"} THEN c.next ELSE c.at
<1>1. at = Label(c) /\ Shape(c, local)
  BY CurrentCall DEF Label
<1>. HIDE DEF at
<1>2. CASE at \in {"rename", "add"}
  <2>1. Changing(p) = {c.path}
    BY <1>2 DEF Changing, at
  <2>. QED  BY <1>1, <1>2, <2>1, FileInHand
<1>3. CASE at = "mkdirEntry"
  <2>1. Changing(p) = {Parent[c.path]}
    BY <1>3 DEF Changing, at
  <2>. QED  BY <1>1, <1>3, <2>1, FileInHand
<1>4. CASE at \in {"unlink", "forget"} \cup InTree
  <2>1. Changing(p) = {c.path} \cup Below(c.path)
    BY <1>4 DEF Changing, at, InTree
  <2>2. c.path \in Path
    BY <1>1, <1>4, FileInHand, HeadOfStack
  <2>. QED  BY <2>1, <2>2, BelowOf
<1>5. CASE at \notin {"rename", "add", "mkdirEntry", "unlink", "forget"} \cup InTree
  <2>1. Changing(p) = {}
    BY <1>5 DEF Changing, at, InTree
  <2>. QED  BY <2>1
<1>. QED  BY <1>2, <1>3, <1>4, <1>5

LEMMA OthersChangePaths ==
  ASSUME TypeInv, NEW p \in Process
  PROVE  OthersChange(p) \subseteq Path
  BY ChangingArePaths DEF OthersChange

LEMMA UnlistedArePaths == \A new : NewUnlisted(new) \subseteq Path
  BY DEF NewUnlisted, Path

LEMMA CreateTypes ==
  ASSUME TypeInv, NEW p \in Process, Create(p)
  PROVE  TypeDisk' /\ TypeCache' /\ TypeHandles' /\ UNCHANGED <<local, locks, trouble>>
<1>0. TypeDisk /\ TypeCache /\ TypeHandles
  BY DEF TypeInv
<1>1. CASE LookedForParent(p) \/ LookedForFile(p)
  BY <1>0, <1>1, OpenTypes DEF LookedForParent, LookedForFile, TypeDisk, TypeCache, disk, cache
<1>2. CASE MakeDirectory(p)
  <2>. DEFINE d == Parent[call[p].path]
  <2>1. call[p].at = "mkdir" /\ Label(call[p]) = "mkdir"
    BY <1>2, CurrentCall DEF MakeDirectory
  <2>2. d \in Path
    BY <2>1, FileInHand
  <2>3. WithParents(d) \subseteq Path
    BY <2>2, AboveOf DEF WithParents, Path
  <2>4. local' = local /\ target' = IF local THEN target \cup WithParents(d) ELSE target
    BY <1>2 DEF MakeDirectory
  <2>5. TypeDisk'
    BY <1>0, <2>3, <2>4 DEF TypeDisk
  <2>6. doubt' \subseteq doubt \cup NewUnlisted(target') /\ UNCHANGED <<loaded, items, handles, locks, trouble>>
    BY <1>2 DEF MakeDirectory, cache
  <2>. QED  BY <1>0, <2>4, <2>5, <2>6, UnlistedArePaths DEF TypeCache, TypeHandles, handles
<1>3. CASE EnterDirectory(p)
  <2>. DEFINE d == Parent[call[p].path]
  <2>1. call[p].at = "mkdirEntry" /\ Label(call[p]) = "mkdirEntry"
    BY <1>3, CurrentCall DEF EnterDirectory
  <2>2. d \in Path
    BY <2>1, FileInHand
  <2>3. items' \subseteq items \cup {d} /\ doubt' \subseteq doubt \cup {d}
    BY <1>3 DEF EnterDirectory, AddEntry
  <2>. QED  BY <1>0, <1>3, <2>2, <2>3, OpenTypes DEF EnterDirectory, TypeDisk, TypeCache, disk
<1>4. CASE Write(p)
  <2>. DEFINE f == call[p].path
              new == target \cup (IF local THEN WithParents(f) ELSE {f})
  <2>1. call[p].at = "write" /\ Label(call[p]) = "write"
    BY <1>4, CurrentCall DEF Write
  <2>2. f \in File /\ f \in Path
    BY <2>1, FileInHand
  <2>3. WithParents(f) \subseteq Path
    BY <2>2, AboveOf DEF WithParents, Path
  <2>4. UNCHANGED <<local, loaded, items, handles, locks, trouble>>
    BY <1>4 DEF Write, cache
  <2>5. CASE local /\ f \in target
    BY <1>0, <1>4, <2>4, <2>5 DEF Write, TypeDisk, TypeCache, TypeHandles, handles
  <2>6. CASE ~(local /\ f \in target)
    <3>1. target' = new /\ doubt' = doubt \cup NewUnlisted(new)
      BY <1>4, <2>6 DEF Write
    <3>2. TypeDisk'
      BY <1>0, <2>2, <2>3, <2>4, <3>1 DEF TypeDisk
    <3>. QED  BY <1>0, <2>4, <3>1, <3>2, UnlistedArePaths DEF TypeCache, TypeHandles, handles
  <2>. QED  BY <2>5, <2>6
<1>5. CASE Rename(p)
  <2>1. call[p].at = "rename" /\ Label(call[p]) = "rename"
    BY <1>5, CurrentCall DEF Rename
  <2>2. call[p].path \in File /\ call[p].path \in Path
    BY <2>1, FileInHand
  <2>3. target' \subseteq target \cup {call[p].path} /\ doubt' \subseteq doubt \cup {call[p].path}
    BY <1>5 DEF Rename
  <2>. QED  BY <1>0, <1>5, <2>2, <2>3 DEF Rename, TypeDisk, TypeCache, TypeHandles, cache, handles
<1>6. CASE EnterFile(p)
  <2>1. call[p].at = "add" /\ Label(call[p]) = "add"
    BY <1>6, CurrentCall DEF EnterFile
  <2>2. call[p].path \in Path
    BY <2>1, FileInHand
  <2>3. items' \subseteq items \cup {call[p].path} /\ doubt' \subseteq doubt \cup {call[p].path}
    BY <1>6 DEF EnterFile, AddEntry
  <2>. QED  BY <1>0, <1>6, <2>2, <2>3, OpenTypes DEF EnterFile, TypeDisk, TypeCache, disk
<1>7. UNCHANGED <<local, locks, trouble>>
  BY DEF Create, LookedForParent, LookedForFile, MakeDirectory, EnterDirectory, Write, Rename,
         EnterFile, disk
<1>. QED  BY <1>1, <1>2, <1>3, <1>4, <1>5, <1>6, <1>7 DEF Create

LEMMA RemoveTypes ==
  ASSUME TypeInv, NEW p \in Process, Remove(p)
  PROVE  TypeDisk' /\ TypeCache' /\ TypeHandles' /\ UNCHANGED <<local, locks>>
         /\ (trouble' = trouble \/ (trouble < MaxTrouble /\ trouble' = trouble + 1))
<1>0. TypeDisk /\ TypeCache /\ TypeHandles
  BY DEF TypeInv
<1>1. CASE NothingToRemove(p) \/ LookedForItem(p)
  BY <1>0, <1>1, OpenTypes DEF NothingToRemove, LookedForItem, TypeDisk, TypeCache, disk, cache
<1>2. CASE UnlinkFile(p)
  <2>1. target' \subseteq target /\ doubt' \subseteq doubt \cup OthersChange(p)
    BY <1>2 DEF UnlinkFile
  <2>. QED
    BY <1>0, <1>2, <2>1, OthersChangePaths
       DEF UnlinkFile, TypeDisk, TypeCache, TypeHandles, cache, handles
<1>3. CASE ForgetFile(p)
  <2>1. call[p].at = "forget" /\ Label(call[p]) = "forget"
    BY <1>3, CurrentCall DEF ForgetFile
  <2>2. call[p].path \in Path
    BY <2>1, FileInHand
  <2>3. items' \subseteq items /\ doubt' \subseteq doubt \cup {call[p].path}
    BY <1>3 DEF ForgetFile, RemoveEntry
  <2>. QED
    BY <1>0, <1>3, <2>2, <2>3 DEF ForgetFile, TypeDisk, TypeCache, TypeHandles, disk, handles
<1>4. CASE ClearBelow(p)
  <2>1. loaded' \subseteq loaded /\ items' \subseteq items /\ doubt' \subseteq doubt \cup items
    BY <1>4 DEF ClearBelow, Clear, cache
  <2>. QED
    BY <1>0, <1>4, <2>1 DEF ClearBelow, TypeDisk, TypeCache, TypeHandles, disk, handles
<1>5. CASE RemoveDirectory(p)
  <2>1. target' \subseteq target /\ doubt' \subseteq doubt \cup OthersChange(p)
    BY <1>5 DEF RemoveDirectory
  <2>. QED
    BY <1>0, <1>5, <2>1, OthersChangePaths
       DEF RemoveDirectory, TypeDisk, TypeCache, TypeHandles, cache, handles
<1>6. CASE ForgetDirectory(p)
  <2>1. Head(call[p].stack) \in Path /\ call[p].gone \subseteq Path
    BY <1>6, ForgetDirectoryStep, CurrentCall DEF CallRecord, Path
  <2>2. items' \subseteq items /\ doubt' \subseteq doubt \cup {Head(call[p].stack)} \cup call[p].gone
    BY <1>6 DEF ForgetDirectory, RemoveEntry
  <2>. QED
    BY <1>0, <1>6, <2>1, <2>2 DEF ForgetDirectory, TypeDisk, TypeCache, TypeHandles, disk, handles
<1>7. CASE Sweep(p)
  BY <1>0, <1>7 DEF Sweep, TypeDisk, TypeCache, TypeHandles, disk, cache, handles
<1>8. CASE Visit(p)
  <2>1. call[p].gone \subseteq Path
    BY CurrentCall DEF CallRecord, Path
  <2>2. items' \subseteq items /\ doubt' \subseteq doubt \cup call[p].gone
    BY <1>8, VisitStep
  <2>. QED
    BY <1>0, <1>8, <2>1, <2>2 DEF Visit, TypeDisk, TypeCache, TypeHandles, disk, handles
<1>12. CASE DeleteFiles(p)
  <2>. DEFINE found == call[p].gone \cap ChildrenOf(Head(call[p].stack))
  <2>1. found \subseteq Path
    BY DEF ChildrenOf
  <2>2. PICK failed \in SUBSET found :
       /\ failed # {} => trouble < MaxTrouble
       /\ trouble' = IF failed # {} THEN trouble + 1 ELSE trouble
       /\ target' = target \ (found \ failed)
       /\ doubt' = doubt \cup failed \cup (found \cap OthersChange(p))
    BY <1>12 DEF DeleteFiles
  <2>3. doubt' \subseteq Path
    BY <1>0, <2>1, <2>2 DEF TypeCache
  <2>. QED
    BY <1>0, <1>12, <2>2, <2>3 DEF DeleteFiles, TypeDisk, TypeCache, TypeHandles, cache, handles
<1>9. UNCHANGED <<local, locks>>
  BY DEF Remove, NothingToRemove, LookedForItem, UnlinkFile, ForgetFile, ClearBelow,
         RemoveDirectory, ForgetDirectory, Sweep, Visit, DeleteFiles, disk
<1>10. DeleteFiles(p) \/ trouble' = trouble
  BY DEF Remove, NothingToRemove, LookedForItem, UnlinkFile, ForgetFile, ClearBelow,
         RemoveDirectory, ForgetDirectory, Sweep, Visit
<1>11. trouble' = trouble \/ (trouble < MaxTrouble /\ trouble' = trouble + 1)
  BY <1>10 DEF DeleteFiles
<1>. QED
  BY <1>1, <1>2, <1>3, <1>4, <1>5, <1>6, <1>7, <1>8, <1>9, <1>11, <1>12 DEF Remove

\* What a request that fails leaves at the target is made of paths.
LEMMA LeftArePaths ==
  ASSUME TypeInv, NEW p \in Process, NEW new \in LeftAtTarget(p),
         call[p].at \in {"mkdir", "write", "rename", "unlink", "rmdir"} \/ new = target
  PROVE  new \subseteq Path /\ (~local => new \subseteq File)
<1>. DEFINE q == call[p].path
            at == call[p].at
<1>0. target \subseteq Path /\ (~local => target \subseteq File)
  BY DEF TypeInv, TypeDisk
<1>1. ASSUME NEW e \in Path, NEW x \in WithParents(e) PROVE WithParents(x) \subseteq Path
  BY <1>1, AboveOf DEF WithParents, Path
<1>2. CASE new = target
  BY <1>0, <1>2
<1>3. CASE new # target /\ at \in {"mkdir", "write", "rename", "unlink"}
  <2>1. Label(call[p]) = at
    BY <1>3, CurrentCall
  <2>2. q \in File /\ q \in Path /\ (at = "mkdir" => Parent[q] \in Path)
    BY <1>3, <2>1, FileInHand
  <2>3. CASE at = "mkdir"
    <3>1. local /\ \E x \in WithParents(Parent[q]) : new = target \cup WithParents(x)
      BY <1>3, <2>3 DEF LeftAtTarget
    <3>. QED  BY <1>0, <1>1, <2>2, <2>3, <3>1
  <2>4. CASE at = "write" /\ local
    <3>1. \E x \in WithParents(q) : new = target \cup WithParents(x)
      BY <1>3, <2>4 DEF LeftAtTarget
    <3>. QED  BY <1>0, <1>1, <2>2, <2>4, <3>1
  <2>5. CASE (at = "write" /\ ~local) \/ at = "rename"
    <3>1. new = target \cup {q}
      BY <1>3, <2>5 DEF LeftAtTarget
    <3>. QED  BY <1>0, <2>2, <3>1
  <2>6. CASE at = "unlink"
    <3>1. new = target \ {q}
      BY <1>3, <2>6 DEF LeftAtTarget
    <3>. QED  BY <1>0, <3>1
  <2>. QED  BY <1>3, <2>3, <2>4, <2>5, <2>6
<1>4. CASE new # target /\ at = "rmdir"
  <2>1. \E part : new = target \ part
    BY <1>4 DEF LeftAtTarget
  <2>. QED  BY <1>0, <2>1
<1>. QED  BY <1>2, <1>3, <1>4

LEMMA OtherTypes ==
  ASSUME TypeInv, NEW p \in Process,
         Enter(p) \/ Look(p) \/ ClearPath(p) \/ Destroy(p) \/ FailRequest(p) \/ Crash(p)
  PROVE  TypeDisk' /\ TypeCache' /\ TypeHandles' /\ UNCHANGED <<local, lockFile, lockLost>>
         /\ opened' \in [Process -> 0..lockFile]
         /\ (trouble' = trouble \/ (trouble < MaxTrouble /\ trouble' = trouble + 1))
<1>0. /\ TypeDisk /\ TypeCache /\ TypeHandles
      /\ lockFile \in Nat /\ opened \in [Process -> 0..lockFile]
  BY DEF TypeInv, TypeLocks
<1>1. CASE Enter(p)
  <2>1. opened' \in [Process -> 0..lockFile]
    BY <1>0, <1>1 DEF Enter
  <2>. QED
    BY <1>0, <1>1, <2>1 DEF Enter, TypeDisk, TypeCache, TypeHandles, disk, cache, handles
<1>2. CASE ListTarget(p) \/ Answer(p)
  BY <1>0, <1>2, OpenTypes DEF ListTarget, Answer, TypeDisk, TypeCache, disk, cache, locks
<1>3. CASE StoreListing(p)
  <2>1. call[p].seen.dir \in Dir /\ call[p].seen.items \subseteq ChildrenOf(call[p].seen.dir)
    BY <1>3, StoreListingStep
  <2>2. call[p].seen.items \subseteq Path
    BY <2>1 DEF ChildrenOf
  <2>3. /\ loaded' \subseteq loaded \cup {call[p].seen.dir}
        /\ items' \subseteq items \cup call[p].seen.items
        /\ doubt' \subseteq doubt
        /\ trouble' = trouble \/ (trouble < MaxTrouble /\ trouble' = trouble + 1)
    BY <1>3 DEF StoreListing, cache
  <2>. QED
    BY <1>0, <1>3, <2>1, <2>2, <2>3
       DEF StoreListing, TypeDisk, TypeCache, TypeHandles, disk, handles, locks
<1>4. CASE ClearPath(p)
  <2>1. loaded' \subseteq loaded /\ items' \subseteq items /\ doubt' \subseteq doubt \cup items
    BY <1>4 DEF ClearPath, Clear, cache
  <2>. QED
    BY <1>0, <1>4, <2>1, OpenTypes DEF ClearPath, TypeDisk, TypeCache, disk, locks
<1>5. CASE Destroy(p)
  BY <1>0, <1>5, RemoveDatabaseTypes DEF Destroy, TypeDisk, TypeCache, disk, locks
<1>6. CASE FailRequest(p)
  <2>. DEFINE q == call[p].path
  <2>1. /\ trouble < MaxTrouble /\ trouble' = trouble + 1
        /\ UNCHANGED <<local, loaded, items, db, kept, lockFile, opened, lockLost>>
    BY <1>6 DEF FailRequest, cache, handles, locks
  <2>2. PICK new \in LeftAtTarget(p) :
          /\ target' = new
          /\ doubt' = doubt \cup call[p].gone \cup NewUnlisted(new)
                       \cup ((target \ new) \cap OthersChange(p))
                       \cup (IF call[p].at = "rename" \/ (q \in new) # (q \in target) THEN {q} ELSE {})
    BY <1>6 DEF FailRequest
  <2>3. call[p].at \in {"mkdir", "write", "rename", "unlink", "rmdir"} \/ new = target
    BY DEF LeftAtTarget
  <2>4. new \subseteq Path /\ (~local => new \subseteq File)
    BY <2>3, LeftArePaths
  <2>5. TypeDisk'
    BY <1>0, <2>1, <2>2, <2>4 DEF TypeDisk
  <2>6. call[p].gone \subseteq Path
    BY CurrentCall DEF CallRecord, Path
  <2>7. call[p].at = "rename" \/ (q \in new) # (q \in target) => q \in Path
    <3>1. CASE call[p].at = "rename"
      <4>1. Label(call[p]) = "rename"
        BY <3>1, CurrentCall
      <4>. QED  BY <4>1, FileInHand
    <3>2. CASE (q \in new) # (q \in target)
      BY <1>0, <2>4, <3>2 DEF TypeDisk
    <3>. QED  BY <3>1, <3>2
  <2>8. doubt' \subseteq Path
    BY <1>0, <2>2, <2>6, <2>7, UnlistedArePaths, OthersChangePaths DEF TypeCache
  <2>. QED  BY <1>0, <2>1, <2>5, <2>8 DEF TypeCache, TypeHandles
<1>7. CASE Crash(p)
  <2>1. Nothing \in [loaded : SUBSET Dir, items : SUBSET Path]
    BY DEF Nothing
  <2>2. doubt' = doubt \cup Changing(p) /\ doubt' \subseteq Path
    BY <1>0, <1>7, ChangingArePaths DEF Crash, TypeCache
  <2>. QED
    BY <1>0, <1>7, <2>1, <2>2 DEF Crash, TypeDisk, TypeCache, TypeHandles, disk, cache, locks
<1>. QED  BY <1>1, <1>2, <1>3, <1>4, <1>5, <1>6, <1>7 DEF Look

LEMMA InitTypes == Init => TypeInv
<1>. SUFFICES ASSUME Init PROVE TypeInv
  OBVIOUS
<1>1. TypeDisk
  <2>1. local \in BOOLEAN
    BY TreeAssumption DEF Init
  <2>2. \A f \in Stored : f \in Path /\ WithParents(f) \subseteq Path
    BY TreeAssumption, AboveOf DEF WithParents, Path
  <2>3. UNION {WithParents(f) : f \in Stored} \subseteq Path
    BY <2>2
  <2>. QED  BY <2>1, <2>2, <2>3, TreeAssumption DEF Init, TypeDisk
<1>2. TypeCache
  BY DEF Init, TypeCache
<1>3. Nothing \in [loaded : SUBSET Dir, items : SUBSET Path]
  BY DEF Nothing
<1>4. TypeHandles
  BY <1>3 DEF Init, TypeHandles
<1>5. TypeCalls /\ ShapeInv
  BY Records DEF Init, TypeCalls, ShapeInv, Idle
<1>6. TypeLocks
  <2>1. lockFile = 0 /\ trouble = 0 /\ lockLost = FALSE /\ opened = [p \in Process |-> 0]
    BY DEF Init
  <2>2. 0 \in 0..0 /\ 0 \in 0..MaxTrouble
    BY TreeAssumption
  <2>. QED  BY <2>1, <2>2 DEF TypeLocks
<1>7. {p \in Process : Clearer(call[p])} = {}
  BY DEF Init, Clearer, Label, Idle
<1>8. CountInv
  BY <1>7, FS_EmptySet DEF Init, CountInv
<1>. QED  BY <1>1, <1>2, <1>4, <1>5, <1>6, <1>8 DEF TypeInv

LEMMA NextTypes == TypeInv /\ [Next]_vars => TypeInv'
<1>. SUFFICES ASSUME TypeInv, [Next]_vars PROVE TypeInv'
  OBVIOUS
<1>0. lockFile \in Nat /\ opened \in [Process -> 0..lockFile] /\ lockLost \in BOOLEAN
      /\ trouble \in 0..MaxTrouble /\ MaxTrouble \in Nat
  BY TreeAssumption DEF TypeInv, TypeLocks
<1>1. ASSUME NEW p \in Process, NEW c, StepTo(p, c), TypeDisk', TypeCache', TypeHandles',
             UNCHANGED <<local, lockFile, lockLost>>, opened' \in [Process -> 0..lockFile],
             trouble' = trouble \/ (trouble < MaxTrouble /\ trouble' = trouble + 1)
      PROVE  TypeInv'
  <2>1. trouble' \in {trouble, trouble + 1} /\ trouble' \in 0..MaxTrouble
    BY <1>0, <1>1
  <2>2. TypeCalls' /\ CountInv' /\ ShapeInv'
    BY <1>1, <2>1, StepKeepsCalls
  <2>3. TypeLocks'
    BY <1>0, <1>1, <2>1 DEF TypeLocks
  <2>. QED  BY <1>1, <2>2, <2>3 DEF TypeInv
<1>2. ASSUME NEW p \in Process, Call(p) PROVE TypeInv'
  BY <1>2, CallKeepsTypes
<1>3. ASSUME NEW p \in Process, RemoveCacheDirectory(p) PROVE TypeInv'
  BY <1>3, RemoveCacheDirectoryKeepsTypes
<1>4. ASSUME NEW p \in Process, Create(p) PROVE TypeInv'
  <2>1. PICK c : StepTo(p, c)
    BY <1>4, ActionSteps
  <2>. QED  BY <1>0, <1>1, <1>4, <2>1, CreateTypes DEF locks
<1>5. ASSUME NEW p \in Process, Remove(p) PROVE TypeInv'
  <2>1. PICK c : StepTo(p, c)
    BY <1>5, ActionSteps
  <2>. QED  BY <1>0, <1>1, <1>5, <2>1, RemoveTypes DEF locks
<1>6. ASSUME NEW p \in Process,
             Enter(p) \/ Look(p) \/ ClearPath(p) \/ Destroy(p) \/ FailRequest(p) \/ Crash(p)
      PROVE  TypeInv'
  <2>1. PICK c : StepTo(p, c)
    BY <1>6, ActionSteps
  <2>. QED  BY <1>1, <1>6, <2>1, OtherTypes
<1>7. CASE UNCHANGED vars
  <2>1. UNCHANGED <<local, target, loaded, items, db, kept, lockFile, opened, lockLost, call, doubt, trouble>>
    BY <1>7 DEF vars, disk, cache, handles, locks
  <2>. QED
    BY <2>1 DEF TypeInv, TypeDisk, TypeCache, TypeHandles, TypeCalls, TypeLocks, CountInv, ShapeInv
<1>. QED
  BY <1>2, <1>3, <1>4, <1>5, <1>6, <1>7 DEF Next, Step, ClearCache

LEMMA TypeInvariant == Spec => []TypeInv
  BY InitTypes, NextTypes, PTL DEF Spec

\* Every variable keeps its type, and no more lock files are made than
\* clearAllCachedData was called.
THEOREM TypesAreKept == Spec => []TypeOK
  BY TypeInvariant, TypeInvImpliesTypeOK, PTL

(***************************************************************************)
(* The target of a LocalItemFS has the directories of what it has.         *)
(***************************************************************************)
ClosedTarget == local => Closed(target)

LEMMA LocalExists ==
  ASSUME TypeInv, ClosedTarget, local, NEW q \in Path
  PROVE  Exists(q) <=> q \in target
  BY ExistsInClosed DEF TypeInv, TypeDisk, ClosedTarget, Exists

\* No directory is a file, so one file may go.
LEMMA ClosedWithoutFile ==
  ASSUME NEW t \in SUBSET Path, Closed(t), NEW f \in File
  PROVE  Closed(t \ {f})
<1>1. \A q \in t : f \notin Above[q]
  BY AboveOf, TreeAssumption
<1>. QED  BY <1>1 DEF Closed

LEMMA NextClosed == TypeInv /\ ClosedTarget /\ [Next]_vars => ClosedTarget'
<1>. SUFFICES ASSUME TypeInv, ClosedTarget, [Next]_vars, local' PROVE Closed(target')
  BY DEF ClosedTarget
<1>0. target \in SUBSET Path
  BY DEF TypeInv, TypeDisk
<1>1. CASE target' = target /\ local' = local
  BY <1>1 DEF ClosedTarget
<1>2. ASSUME NEW p \in Process, MakeDirectory(p) PROVE Closed(target')
  <2>1. call[p].at = "mkdir" /\ Label(call[p]) = "mkdir"
    BY <1>2, CurrentCall DEF MakeDirectory
  <2>2. Parent[call[p].path] \in Path
    BY <2>1, FileInHand
  <2>3. local /\ target' = target \cup WithParents(Parent[call[p].path])
    BY <1>2 DEF MakeDirectory
  <2>. QED  BY <1>0, <2>2, <2>3, ClosedWith DEF ClosedTarget
<1>3. ASSUME NEW p \in Process, Write(p) PROVE Closed(target')
  <2>1. call[p].at = "write" /\ Label(call[p]) = "write"
    BY <1>3, CurrentCall DEF Write
  <2>2. call[p].path \in Path /\ call[p].path \in File
    BY <2>1, FileInHand
  <2>3. local /\ (target' = target \cup WithParents(call[p].path) \/ target' = target \ {call[p].path})
    BY <1>3 DEF Write
  <2>. QED  BY <1>0, <2>2, <2>3, ClosedWith, ClosedWithoutFile DEF ClosedTarget
<1>4. ASSUME NEW p \in Process, Rename(p) PROVE Closed(target')
  <2>1. call[p].at = "rename" /\ Label(call[p]) = "rename"
    BY <1>4, CurrentCall DEF Rename
  <2>2. call[p].path \in Path
    BY <2>1, FileInHand
  <2>3. /\ local
        /\ \/ target' = target
           \/ Parent[call[p].path] \in target \cup {Top} /\ target' = target \cup {call[p].path}
    BY <1>4 DEF Rename
  <2>. QED  BY <1>0, <2>2, <2>3, ClosedWith DEF ClosedTarget
<1>5. ASSUME NEW p \in Process, UnlinkFile(p) PROVE Closed(target')
  <2>1. call[p].at = "unlink" /\ Label(call[p]) = "unlink"
    BY <1>5, CurrentCall DEF UnlinkFile
  <2>2. call[p].path \in File
    BY <2>1, FileInHand
  <2>3. local /\ target' = target \ {call[p].path}
    BY <1>5 DEF UnlinkFile
  <2>. QED  BY <1>0, <2>2, <2>3, ClosedWithoutFile DEF ClosedTarget
<1>6. ASSUME NEW p \in Process, RemoveDirectory(p) PROVE Closed(target')
  <2>1. call[p].at = "rmdir" /\ Label(call[p]) = "rmdir"
    BY <1>6, CurrentCall DEF RemoveDirectory
  <2>2. Head(call[p].stack) \in Path
    BY <2>1, HeadOfStack DEF InTree
  <2>3. /\ local
        /\ \/ target' = target
           \/ target' = target \ ({Head(call[p].stack)} \cup Below(Head(call[p].stack)))
    BY <1>6 DEF RemoveDirectory
  <2>. QED  BY <1>0, <2>2, <2>3, ClosedWith DEF ClosedTarget
<1>7. ASSUME NEW p \in Process, DeleteFiles(p) PROVE Closed(target')
  <2>1. call[p].at = "deleting" /\ Label(call[p]) = "deleting" /\ local' = local
    BY <1>7, CurrentCall DEF DeleteFiles
  <2>2. ~local
    BY <2>1, CurrentCall DEF Shape
  <2>. QED  BY <2>1, <2>2
<1>8. ASSUME NEW p \in Process, FailRequest(p) PROVE Closed(target')
  <2>. DEFINE q == call[p].path
              at == call[p].at
  <2>1. local' = local /\ target' \in LeftAtTarget(p)
    BY <1>8 DEF FailRequest
  <2>2. local /\ Closed(target)
    BY <2>1 DEF ClosedTarget
  <2>3. CASE target' = target
    BY <1>1, <2>1, <2>3
  <2>4. CASE target' # target /\ at \in {"mkdir", "write", "rename"}
    <3>1. Label(call[p]) = at
      BY <2>4, CurrentCall
    <3>2. q \in Path /\ (at = "mkdir" => Parent[q] \in Path)
      BY <2>4, <3>1, FileInHand
    <3>3. \/ \E e \in Path : \E x \in WithParents(e) : target' = target \cup WithParents(x)
          \/ Parent[q] \in target \cup {Top} /\ target' = target \cup {q}
      BY <2>1, <2>2, <2>4, <3>2 DEF LeftAtTarget
    <3>4. \A e \in Path : WithParents(e) \subseteq Path
      BY AboveOf DEF WithParents, Path
    <3>. QED  BY <1>0, <2>2, <3>2, <3>3, <3>4, ClosedWith
  <2>5. CASE target' # target /\ at \notin {"mkdir", "write", "rename"}
    <3>1. PICK part : target' = target \ part /\ \A e \in part : Below(e) \subseteq part
      BY <2>1, <2>2, <2>5 DEF LeftAtTarget
    <3>. SUFFICES ASSUME NEW e \in target \ part, NEW a \in Above[e] \ {Top} PROVE a \in target \ part
      BY <3>1 DEF Closed
    <3>2. a \in target
      BY <2>2 DEF Closed
    <3>3. e \in Below(a)
      BY <1>0 DEF Below
    <3>. QED  BY <3>1, <3>2, <3>3
  <2>. QED  BY <2>3, <2>4, <2>5
<1>9. ASSUME NEW p \in Process,
             \/ Call(p) \/ Enter(p) \/ Look(p) \/ ClearCache(p) \/ Crash(p)
             \/ LookedForParent(p) \/ EnterDirectory(p) \/ LookedForFile(p) \/ EnterFile(p)
             \/ NothingToRemove(p) \/ LookedForItem(p) \/ ForgetFile(p) \/ ClearBelow(p)
             \/ ForgetDirectory(p) \/ Sweep(p) \/ Visit(p)
      PROVE  target' = target /\ local' = local
  <2>1. Call(p) => UNCHANGED disk
    BY CallStep
  <2>2. Enter(p) \/ Look(p) \/ ClearCache(p) \/ Crash(p) => UNCHANGED disk
    BY DEF Enter, Look, ListTarget, StoreListing, Answer, ClearCache, ClearPath, Destroy,
           RemoveCacheDirectory, Crash
  <2>3. LookedForParent(p) \/ EnterDirectory(p) \/ LookedForFile(p) \/ EnterFile(p)
          \/ NothingToRemove(p) \/ LookedForItem(p) \/ ForgetFile(p) \/ ClearBelow(p)
          \/ ForgetDirectory(p) \/ Sweep(p) \/ Visit(p) => UNCHANGED disk
    BY DEF LookedForParent, EnterDirectory, LookedForFile, EnterFile, NothingToRemove,
           LookedForItem, ForgetFile, ClearBelow, ForgetDirectory, Sweep, Visit
  <2>. QED  BY <1>9, <2>1, <2>2, <2>3 DEF disk
<1>10. CASE UNCHANGED vars
  BY <1>1, <1>10 DEF vars, disk
<1>. QED
  BY <1>1, <1>2, <1>3, <1>4, <1>5, <1>6, <1>7, <1>8, <1>9, <1>10 DEF Next, Step, Create, Remove

(***************************************************************************)
(* The lock.  Until the lock file is removed from under a process, one has *)
(* the lock at a time.                                                     *)
(***************************************************************************)
LockInv ==
  ~lockLost =>
    /\ \A p \in Process : call[p].at # "waiting"
    /\ \A p \in Process : call[p].at \in Inside => opened[p] = lockFile
    /\ \A p, q \in Process : call[p].at \in Inside /\ call[q].at \in Inside => p = q

\* Nobody comes to have the lock but by asking for it.
LEMMA LockSteps ==
  ASSUME TypeInv, NEW p \in Process,
         \/ Look(p) \/ Create(p) \/ Remove(p) \/ ClearPath(p) \/ Destroy(p)
         \/ FailRequest(p) \/ Crash(p)
  PROVE  /\ \A r \in Process \ {p} : call'[r] = call[r]
         /\ call'[p].at # "waiting"
         /\ call'[p].at \in Inside => call[p].at \in Inside
         /\ UNCHANGED locks
<1>0. TypeCalls
  BY DEF TypeInv
<1>1. ASSUME NEW c, StepTo(p, c), c.at # "waiting", c.at \notin Inside \/ call[p].at \in Inside
      PROVE  /\ \A r \in Process \ {p} : call'[r] = call[r]
             /\ call'[p].at # "waiting"
             /\ call'[p].at \in Inside => call[p].at \in Inside
  BY <1>0, <1>1, OneCall DEF StepTo
<1>. DEFINE Goal == /\ \A r \in Process \ {p} : call'[r] = call[r]
                    /\ call'[p].at # "waiting"
                    /\ call'[p].at \in Inside => call[p].at \in Inside
<1>2. Ends(p) => Goal
  <2>1. Idle.at = "idle" /\ "idle" \notin Inside
    BY DEF Idle, Inside
  <2>. QED  BY <1>1, <2>1 DEF Ends
<1>3. \A l : AsksFor(p, l) => Goal
  <2>. SUFFICES ASSUME NEW l, AsksFor(p, l) PROVE Goal
    OBVIOUS
  <2>. DEFINE c == Rec(call[p].op, call[p].path, "asking", l, NoListing, call[p].stack, call[p].left, call[p].gone)
  <2>1. c.at = "asking" /\ "asking" \notin Inside
    BY DEF Rec, Inside
  <2>2. StepTo(p, c)
    BY DEF AsksFor
  <2>. HIDE DEF c
  <2>. QED  BY <1>1, <2>1, <2>2
<1>4. \A l : GoesTo(p, l) /\ l # "waiting" /\ (l \notin Inside \/ call[p].at \in Inside) => Goal
  <2>. SUFFICES ASSUME NEW l, GoesTo(p, l), l # "waiting", l \notin Inside \/ call[p].at \in Inside
                PROVE  Goal
    OBVIOUS
  <2>. DEFINE c == Rec(call[p].op, call[p].path, l, call[p].next, NoListing, call[p].stack, call[p].left, call[p].gone)
  <2>1. c.at = l
    BY DEF Rec
  <2>2. StepTo(p, c)
    BY DEF GoesTo
  <2>. HIDE DEF c
  <2>. QED  BY <1>1, <2>1, <2>2
<1>5. \A path, at, next, seen, stack, left, gone, op :
        StepTo(p, Rec(op, path, at, next, seen, stack, left, gone)) /\ at # "waiting"
          /\ (at \notin Inside \/ call[p].at \in Inside) => Goal
  <2>. SUFFICES ASSUME NEW path, NEW at, NEW next, NEW seen, NEW stack, NEW left, NEW gone, NEW op,
                       StepTo(p, Rec(op, path, at, next, seen, stack, left, gone)), at # "waiting",
                       at \notin Inside \/ call[p].at \in Inside
                PROVE  Goal
    OBVIOUS
  <2>. DEFINE c == Rec(op, path, at, next, seen, stack, left, gone)
  <2>1. c.at = at
    BY DEF Rec
  <2>2. StepTo(p, c)
    OBVIOUS
  <2>. HIDE DEF c
  <2>. QED  BY <1>1, <2>1, <2>2
<1>. HIDE DEF Goal
<1>6. ASSUME Look(p) PROVE Goal
  <2>1. CASE ListTarget(p)
    <3>1. call[p].at \in Inside
      BY <2>1, ListTargetStep DEF Inside, Looking
    <3>. QED  BY <1>5, <2>1, <3>1, ListTargetStep
  <2>2. CASE StoreListing(p)
    <3>1. call[p].at \in Inside /\ call[p].next # "waiting"
      BY <2>2, StoreListingStep DEF Inside, Looking
    <3>. QED  BY <1>2, <1>5, <2>2, <3>1, StoreListingStep DEF Ends
  <2>3. CASE Answer(p)
    BY <1>2, <2>3, ReturnStep DEF Answer, Ends
  <2>. QED  BY <1>6, <2>1, <2>2, <2>3 DEF Look
<1>7. ASSUME Create(p) PROVE Goal
  <2>1. CASE LookedForParent(p) \/ EnterDirectory(p)
    BY <1>2, <1>3, <2>1, LookedForParentStep, EnterDirectoryStep
  <2>2. CASE MakeDirectory(p) \/ LookedForFile(p)
    <3>1. call[p].at \in Inside /\ (GoesTo(p, "mkdirEntry") \/ GoesTo(p, "write"))
      BY <2>2, MakeDirectoryStep, LookedForFileStep DEF Inside
    <3>. QED  BY <1>4, <3>1
  <2>3. CASE Write(p) \/ Rename(p)
    <3>1. Ends(p) \/ AsksFor(p, "add") \/ GoesTo(p, "rename")
      BY <2>3, WriteStep, RenameStep
    <3>. QED  BY <1>2, <1>3, <1>4, <3>1 DEF Inside
  <2>4. CASE EnterFile(p)
    BY <1>2, <2>4, ReturnStep DEF EnterFile, Ends
  <2>. QED  BY <1>7, <2>1, <2>2, <2>3, <2>4 DEF Create
<1>8. ASSUME Remove(p) PROVE Goal
  <2>1. CASE NothingToRemove(p) \/ ForgetFile(p)
    BY <1>2, <2>1, ReturnStep DEF NothingToRemove, ForgetFile, Ends
  <2>2. CASE LookedForItem(p)
    <3>1. call[p].at \in Inside
      BY <2>2, LookedForItemStep DEF Inside
    <3>. QED  BY <1>5, <2>2, <3>1, LookedForItemStep
  <2>3. CASE UnlinkFile(p) \/ ClearBelow(p) \/ RemoveDirectory(p)
    <3>1. /\ call[p].at \in Inside
          /\ Ends(p) \/ GoesTo(p, "forget") \/ GoesTo(p, "rmdir") \/ GoesTo(p, "rmdirEntry")
      BY <2>3, UnlinkFileStep, ClearBelowStep, RemoveDirectoryStep DEF Inside
    <3>. QED  BY <1>2, <1>4, <3>1
  <2>4. CASE ForgetDirectory(p)
    <3>1. call[p].at \in Inside
      BY <2>4, ForgetDirectoryStep DEF Inside
    <3>. QED  BY <1>2, <1>5, <2>4, <3>1, ForgetDirectoryStep
  <2>5. CASE Sweep(p) \/ DeleteFiles(p)
    <3>1. call[p].at \in Inside
      BY <2>5, SweepStep, DeleteFilesStep DEF Inside
    <3>. QED  BY <1>5, <2>5, <3>1, SweepStep, DeleteFilesStep
  <2>6. CASE Visit(p)
    <3>1. call[p].at \in Inside
      BY <2>6, VisitStep DEF Inside
    <3>. QED  BY <1>2, <1>4, <1>5, <2>6, <3>1, VisitStep
  <2>. QED  BY <1>8, <2>1, <2>2, <2>3, <2>4, <2>5, <2>6 DEF Remove
<1>9. ASSUME Destroy(p) PROVE Goal
  <2>1. GoesTo(p, "rmcache")
    BY <1>9, DestroyStep
  <2>. QED  BY <1>4, <2>1 DEF Inside
<1>10. ASSUME ClearPath(p) \/ FailRequest(p) \/ Crash(p) PROVE Goal
  BY <1>2, <1>10, ReturnStep DEF ClearPath, FailRequest, Crash, Ends
<1>11. UNCHANGED locks
  <2>1. Look(p) \/ ClearPath(p) \/ Destroy(p) \/ FailRequest(p) \/ Crash(p) => UNCHANGED locks
    BY DEF Look, ListTarget, StoreListing, Answer, ClearPath, Destroy, FailRequest, Crash
  <2>. QED  BY <2>1, CreateTypes, RemoveTypes
<1>. QED  BY <1>6, <1>7, <1>8, <1>9, <1>10, <1>11 DEF Goal

LEMMA NextLock == TypeInv /\ LockInv /\ [Next]_vars => LockInv'
<1>. SUFFICES ASSUME TypeInv, LockInv, [Next]_vars, ~lockLost' PROVE LockInv'
  BY DEF LockInv
<1>1. ASSUME NEW p \in Process, UNCHANGED locks,
             \A r \in Process \ {p} : call'[r] = call[r],
             call'[p].at # "waiting", call'[p].at \in Inside => call[p].at \in Inside
      PROVE  LockInv'
  BY <1>1 DEF LockInv, locks
<1>2. ASSUME NEW p \in Process, Call(p) PROVE LockInv'
  <2>1. PICK c : call' = [call EXCEPT ![p] = c] /\ c.at = "asking" /\ UNCHANGED locks
    BY <1>2, CallStep DEF Rec
  <2>2. call'[p] = c /\ \A r \in Process \ {p} : call'[r] = call[r]
    BY <2>1, OneCall DEF TypeInv
  <2>. QED  BY <1>1, <2>1, <2>2 DEF Inside
<1>3. ASSUME NEW p \in Process, Enter(p) PROVE LockInv'
  <2>1. GoesTo(p, call[p].next) /\ call[p].next \in AskedFor
    BY <1>3, EnterStep
  <2>2. /\ call'[p].at = call[p].next
        /\ \A r \in Process \ {p} : call'[r] = call[r]
    BY <2>1, OneCall DEF GoesTo, StepTo, Rec, TypeInv
  <2>3. ~lockLost /\ lockLost' = lockLost /\ lockFile' = lockFile
    BY <1>3 DEF Enter
  <2>4. call[p].at = "asking"
    BY <1>3, <2>3 DEF Enter, LockInv
  <2>5. ~Held(lockFile) /\ opened' = [opened EXCEPT ![p] = lockFile]
    BY <1>3, <2>4 DEF Enter
  <2>6. \A r \in Process : call[r].at \notin Inside
    BY <2>3, <2>5 DEF Held, LockInv
  <2>7. opened'[p] = lockFile'
    BY <2>3, <2>5 DEF TypeInv, TypeLocks
  <2>8. call'[p].at # "waiting"
    BY <2>1, <2>2 DEF AskedFor
  <2>. QED  BY <2>2, <2>3, <2>6, <2>7, <2>8 DEF LockInv
<1>4. ASSUME NEW p \in Process,
             \/ Look(p) \/ Create(p) \/ Remove(p) \/ ClearPath(p) \/ Destroy(p)
             \/ FailRequest(p) \/ Crash(p)
      PROVE  LockInv'
  BY <1>1, <1>4, LockSteps
<1>5. ASSUME NEW p \in Process, RemoveCacheDirectory(p) PROVE LockInv'
  <2>1. PICK late : CacheRemoved(p, late)
    BY <1>5, RemoveCacheDirectoryStep
  <2>2. ~lockLost /\ late = {} /\ \A r \in Process : call[r].at \notin Inside
    BY <2>1 DEF CacheRemoved
  <2>3. call'[p] = Idle /\ \A r \in Process \ {p} : call'[r] = call[r]
    BY <2>1, <2>2 DEF CacheRemoved
  <2>4. Idle.at # "waiting" /\ Idle.at \notin Inside
    BY DEF Idle, Inside
  <2>. QED  BY <2>2, <2>3, <2>4 DEF LockInv
<1>6. CASE UNCHANGED vars
  BY <1>6 DEF vars, locks, LockInv
<1>. QED  BY <1>2, <1>3, <1>4, <1>5, <1>6 DEF Next, Step, ClearCache

(***************************************************************************)
(* What the cached listings say.  A path is in flux while the target and   *)
(* its listing may differ because of what a call has done and not entered, *)
(* or entered and not done, a part of what it is changing; of the others   *)
(* that are not in doubt the listings are true.                            *)
(***************************************************************************)
FluxLabels == {"rename", "add", "forget", "mkdirEntry", "rmdirEntry"}
InFlux(c, q) ==
  \/ Label(c) \in {"rename", "add", "forget"} /\ q = c.path
  \/ Label(c) = "mkdirEntry" /\ q = Parent[c.path]
  \/ q \in c.gone
  \/ Label(c) = "rmdirEntry" /\ q = Head(c.stack)
Certain(q) == q \notin doubt /\ \A p \in Process : ~InFlux(call[p], q)

\* What is written is at the target until it is entered, or it is in doubt, or
\* someone is about to put another file in its place.
AddInv ==
  \A p \in Process :
    Label(call[p]) = "add" =>
      \/ call[p].path \in target \cup doubt
      \/ \E q \in Process : call[q].at = "rename" /\ call[q].path = call[p].path

TrueInv ==
  \A q \in Path :
    Parent[q] \in loaded /\ Certain(q) =>
      /\ Exists(q) => q \in items
      /\ q \in items => Exists(q) \/ (q \in Dir /\ ~local)

\* What holds for a process that has the lock: a listing that was read is true
\* until it is cached, and while it cannot be; it is read because there is none;
\* a file that is to be forgotten is gone; a directory that is to be entered was
\* made; files that are to be deleted have left the listing, which is loaded;
\* nothing is listed below a directory that is removed.
SeenFor(p) ==
  /\ call[p].seen.dir \in Dir
  /\ call[p].at = "caching" \/ (~Moved(p) /\ call[p].seen.dir \notin loaded)
  => \A q \in ChildrenOf(call[p].seen.dir) :
       Certain(q) => (q \in call[p].seen.items <=> Exists(q))
UnlistedFor(p) ==
  call[p].at = "caching" /\ call[p].next # "fresh" /\ ~Moved(p) => call[p].seen.dir \notin loaded
ForgetFor(p) ==
  call[p].at = "forget" =>
    \/ call[p].path \notin target
    \/ call[p].path \in doubt
    \/ \E q \in Process \ {p} : InFlux(call[q], call[p].path)
MadeFor(p) ==
  call[p].at = "mkdirEntry" /\ local => Parent[call[p].path] \in target
GoneFor(p) == \A q \in call[p].gone : q \notin items /\ Parent[q] \in loaded
ClearedFor(p) ==
  Label(call[p]) \in {"rmdir", "rmdirEntry"} /\ local =>
    loaded \cap ({call[p].path} \cup Below(call[p].path)) = {}
Owed(p) ==
  SeenFor(p) /\ UnlistedFor(p) /\ ForgetFor(p) /\ MadeFor(p) /\ GoneFor(p) /\ ClearedFor(p)

CacheInv == ~lockLost => TrueInv /\ \A p \in Process : Owed(p)

FSInv == TypeInv /\ ClosedTarget /\ LockInv /\ AddInv /\ CacheInv
Good == FSInv /\ ~lockLost

LEMMA FluxOf ==
  ASSUME NEW c, Label(c) \notin FluxLabels
  PROVE  \A q : InFlux(c, q) <=> q \in c.gone
  BY DEF InFlux, FluxLabels

LEMMA NoFlux ==
  ASSUME TypeInv, NEW p \in Process, Label(call[p]) \notin FluxLabels,
         local \/ Label(call[p]) \notin InTree
  PROVE  \A q : ~InFlux(call[p], q)
  BY FluxOf, NothingGone

\* A path in flux is one that the process is changing.
LEMMA FluxIsChanging ==
  ASSUME TypeInv, NEW p \in Process, NEW q, InFlux(call[p], q)
  PROVE  q \in Changing(p)
<1>. DEFINE c == call[p]
            at == IF c.at \in {"asking", "waiting", "caching"} THEN c.next ELSE c.at
<1>1. at = Label(c) /\ c \in CallRecord /\ Shape(c, local)
  BY CurrentCall DEF Label
<1>. HIDE DEF at
<1>2. at \notin InTree => c.gone = {}
  BY <1>1 DEF Shape
<1>3. CASE at \in {"rename", "add"}
  <2>1. Changing(p) = {c.path}
    BY <1>3 DEF Changing, at
  <2>. QED  BY <1>1, <1>2, <1>3, <2>1 DEF InFlux, InTree
<1>4. CASE at = "mkdirEntry"
  <2>1. Changing(p) = {Parent[c.path]}
    BY <1>4 DEF Changing, at
  <2>. QED  BY <1>1, <1>2, <1>4, <2>1 DEF InFlux, InTree
<1>5. CASE at = "forget"
  <2>1. Changing(p) = {c.path} \cup Below(c.path)
    BY <1>5 DEF Changing, at
  <2>. QED  BY <1>1, <1>2, <1>5, <2>1 DEF InFlux, InTree
<1>6. CASE at \in InTree
  <2>1. Changing(p) = {c.path} \cup Below(c.path)
    BY <1>6 DEF Changing, at, InTree
  <2>2. Head(c.stack) \in {c.path} \cup Below(c.path) /\ c.path \in Path
    BY <1>1, <1>6, HeadOfStack
  <2>3. ASSUME q \in c.gone PROVE q \in Below(c.path)
    <3>1. q \in Path
      BY <1>1, <2>3 DEF CallRecord, Path
    <3>2. PICK k \in 1..Len(c.stack) : c.stack[k] = Parent[q]
      BY <1>1, <2>3 DEF Shape
    <3>3. Parent[q] \in {c.path} \cup Below(c.path)
      BY <1>1, <1>6, <3>2 DEF Shape
    <3>. QED  BY <2>2, <3>1, <3>3, BelowOf
  <2>4. q \in c.gone \/ q = Head(c.stack)
    BY <1>1, <1>6 DEF InFlux, InTree
  <2>. QED  BY <2>1, <2>2, <2>3, <2>4
<1>. QED  BY <1>1, <1>2, <1>3, <1>4, <1>5, <1>6 DEF InFlux, InTree

LEMMA InitInv == Init => FSInv
<1>. SUFFICES ASSUME Init PROVE FSInv
  OBVIOUS
<1>1. TypeInv
  BY InitTypes
<1>2. ClosedTarget
  <2>. SUFFICES ASSUME local, NEW q \in target, NEW a \in Above[q] \ {Top} PROVE a \in target
    BY DEF ClosedTarget, Closed
  <2>1. target = UNION {WithParents(f) : f \in Stored}
    BY DEF Init
  <2>2. PICK f \in Stored : q \in WithParents(f)
    BY <2>1
  <2>3. f \in Path
    BY TreeAssumption DEF Path
  <2>4. a \in WithParents(f)
    BY <2>2, <2>3, AboveOf DEF WithParents
  <2>. QED  BY <2>1, <2>4
<1>3. \A p \in Process : call[p] = Idle
  BY DEF Init
<1>4. /\ Idle.at = "idle" /\ Label(Idle) = "idle" /\ Idle.seen.dir \notin Dir /\ Idle.gone = {}
  BY Records DEF Idle, Label
<1>5. LockInv /\ AddInv
  BY <1>3, <1>4 DEF LockInv, AddInv, Inside
<1>6. TrueInv
  BY DEF Init, TrueInv
<1>7. \A p \in Process : Owed(p)
  BY <1>3, <1>4 DEF Owed, SeenFor, UnlistedFor, ForgetFor, MadeFor, GoneFor, ClearedFor
<1>. QED  BY <1>1, <1>2, <1>5, <1>6, <1>7 DEF FSInv, CacheInv

(***************************************************************************)
(* AddInv: nobody removes what another has written, but to put a file in   *)
(* its place or into doubt.                                                *)
(***************************************************************************)
LEMMA AddKept ==
  ASSUME TypeInv, AddInv, NEW p \in Process,
         \A r \in Process \ {p} : call'[r] = call[r],
         \A x \in OthersChange(p) :
            x \in target \cup doubt =>
              x \in target' \cup doubt' \/ (call'[p].at = "rename" /\ call'[p].path = x),
         call[p].at = "rename" => call[p].path \in target' \cup doubt',
         Label(call'[p]) = "add" => call'[p].path \in target' \cup doubt'
                                      \/ (Label(call[p]) = "add" /\ call'[p].path = call[p].path
                                          /\ target' = target /\ doubt' = doubt)
  PROVE  AddInv'
<1>. DEFINE Kept(x) == \/ x \in target' \cup doubt'
                       \/ \E q \in Process : call'[q].at = "rename" /\ call'[q].path = x
<1>1. ASSUME NEW x, NEW q \in Process, call[q].at = "rename", call[q].path = x
      PROVE  Kept(x)
  BY <1>1
<1>2. ASSUME NEW r \in Process \ {p}, Label(call'[r]) = "add" PROVE Kept(call'[r].path)
  <2>1. call'[r] = call[r] /\ Label(call[r]) = "add"
    BY <1>2
  <2>2. InFlux(call[r], call[r].path)
    BY <2>1 DEF InFlux
  <2>3. call[r].path \in OthersChange(p)
    BY <2>2, FluxIsChanging DEF OthersChange
  <2>. QED  BY <1>1, <2>1, <2>3 DEF AddInv
<1>3. ASSUME Label(call'[p]) = "add" PROVE Kept(call'[p].path)
  BY <1>1, <1>3 DEF AddInv
<1>. HIDE DEF Kept
<1>4. \A r \in Process : Label(call'[r]) = "add" => Kept(call'[r].path)
  BY <1>2, <1>3
<1>. QED  BY <1>4 DEF AddInv, Kept

(***************************************************************************)
(* What a step leaves of the promises.                                     *)
(***************************************************************************)
LEMMA AfterStep ==
  ASSUME TypeInv, NEW p \in Process
  PROVE  /\ \A c : StepTo(p, c) => call'[p] = c /\ \A r \in Process \ {p} : call'[r] = call[r]
         /\ Ends(p) => call'[p] = Idle /\ \A r \in Process \ {p} : call'[r] = call[r]
         /\ \A l : GoesTo(p, l) =>
              /\ call'[p].at = l /\ call'[p].path = call[p].path /\ call'[p].stack = call[p].stack
              /\ call'[p].seen = NoListing /\ call'[p].gone = call[p].gone
              /\ l \notin {"asking", "waiting", "caching"} => Label(call'[p]) = l
              /\ \A r \in Process \ {p} : call'[r] = call[r]
         /\ \A l : AsksFor(p, l) =>
              /\ call'[p].at = "asking" /\ Label(call'[p]) = l /\ call'[p].path = call[p].path
              /\ call'[p].seen = NoListing
              /\ \A r \in Process \ {p} : call'[r] = call[r]
<1>1. \A c : StepTo(p, c) => call'[p] = c /\ \A r \in Process \ {p} : call'[r] = call[r]
  BY OneCall DEF StepTo, TypeInv
<1>2. Ends(p) => call'[p] = Idle /\ \A r \in Process \ {p} : call'[r] = call[r]
  BY <1>1 DEF Ends
<1>3. ASSUME NEW l, GoesTo(p, l)
      PROVE  /\ call'[p].at = l /\ call'[p].path = call[p].path /\ call'[p].stack = call[p].stack
             /\ call'[p].seen = NoListing /\ call'[p].gone = call[p].gone
             /\ l \notin {"asking", "waiting", "caching"} => Label(call'[p]) = l
             /\ \A r \in Process \ {p} : call'[r] = call[r]
  BY <1>1, <1>3 DEF GoesTo, Rec, Label
<1>4. ASSUME NEW l, AsksFor(p, l)
      PROVE  /\ call'[p].at = "asking" /\ Label(call'[p]) = l /\ call'[p].path = call[p].path
             /\ call'[p].seen = NoListing
             /\ \A r \in Process \ {p} : call'[r] = call[r]
  BY <1>1, <1>4 DEF AsksFor, Rec, Label
<1>. QED  BY <1>1, <1>2, <1>3, <1>4

LEMMA IdleRecord ==
  /\ Idle.at = "idle" /\ Label(Idle) = "idle" /\ \A q : ~InFlux(Idle, q)
  /\ Idle.seen = NoListing /\ Idle.gone = {} /\ NoListing.dir \notin Dir
<1>1. /\ Idle.at = "idle" /\ Label(Idle) = "idle" /\ Idle.gone = {} /\ Idle.seen = NoListing
  BY DEF Idle, Label
<1>2. \A q : ~InFlux(Idle, q)
  BY <1>1, FluxOf DEF FluxLabels
<1>. QED  BY <1>1, <1>2, Records

\* At most labels a process owes nothing.
LEMMA OwesNothing ==
  ASSUME NEW r \in Process,
         call'[r].at \notin {"caching", "forget", "mkdirEntry"},
         Label(call'[r]) \notin {"rmdir", "rmdirEntry"},
         call'[r].seen.dir \notin Dir, call'[r].gone = {}
  PROVE  Owed(r)'
  BY DEF Owed, SeenFor, UnlistedFor, ForgetFor, MadeFor, GoneFor, ClearedFor

LEMMA OutsideOwesNothing ==
  ASSUME TypeInv', NEW r \in Process, call'[r].at \notin Inside
  PROVE  Owed(r)'
<1>1. Shape(call'[r], local')
  BY DEF TypeInv, ShapeInv
<1>2. call'[r].at \notin {"caching", "forget", "mkdirEntry"} \cup Looking \cup InTree
  BY DEF Inside, Looking, InTree
<1>3. Label(call'[r]) \notin InTree
  BY <1>1, <1>2 DEF Shape, Label, AskedFor, InTree
<1>4. call'[r].gone = {} /\ call'[r].seen.dir \notin Dir
  BY <1>1, <1>2, <1>3 DEF Shape
<1>. QED  BY <1>2, <1>3, <1>4, OwesNothing DEF InTree

LEMMA EndedOwesNothing ==
  ASSUME NEW r \in Process, call'[r] = Idle
  PROVE  Owed(r)'
  BY OwesNothing, IdleRecord

\* Inside the tree that it removes, a process owes the files that have left the
\* listing.
LEMMA InTreeOwes ==
  ASSUME NEW r \in Process, call'[r].at \in InTree, call'[r].seen.dir \notin Dir,
         GoneFor(r)', ClearedFor(r)'
  PROVE  Owed(r)'
<1>1. call'[r].at \notin {"caching", "forget", "mkdirEntry"}
  BY DEF InTree
<1>. QED  BY <1>1 DEF Owed, SeenFor, UnlistedFor, ForgetFor, MadeFor

\* Who has the lock finds nobody else that owes anything.
LEMMA HolderStep ==
  ASSUME Good, TypeInv', NEW p \in Process, call[p].at \in Inside,
         \A r \in Process \ {p} : call'[r] = call[r],
         TrueInv', Owed(p)'
  PROVE  CacheInv'
<1>1. \A r \in Process \ {p} : call[r].at \notin Inside
  BY DEF Good, FSInv, LockInv
<1>2. \A r \in Process \ {p} : Owed(r)'
  BY <1>1, OutsideOwesNothing
<1>3. \A r \in Process : Owed(r)'
  BY <1>2
<1>. QED  BY <1>3 DEF CacheInv

\* What is certain after a step was so before.
LEMMA CertainBefore ==
  ASSUME NEW p \in Process, \A r \in Process \ {p} : call'[r] = call[r],
         doubt \subseteq doubt',
         \A x : InFlux(call[p], x) => InFlux(call'[p], x) \/ x \in doubt',
         NEW q, Certain(q)'
  PROVE  Certain(q)
<1>1. q \notin doubt' /\ \A r \in Process : ~InFlux(call'[r], q)
  BY DEF Certain
<1>2. q \notin doubt /\ ~InFlux(call[p], q)
  BY <1>1
<1>3. \A r \in Process \ {p} : ~InFlux(call[r], q)
  BY <1>1
<1>. QED  BY <1>2, <1>3 DEF Certain

\* A directory that came to exist is in the listing.
Appeared(q) ==
  /\ q \in Dir /\ Parent[q] \in loaded /\ q \in items
  /\ \A r \in Process : ~(call[r].at = "caching" /\ call[r].seen.dir = Parent[q])

LEMMA ListingsStay ==
  ASSUME TrueInv, NEW p \in Process, \A r \in Process \ {p} : call'[r] = call[r],
         UNCHANGED <<local, loaded, items>>, doubt \subseteq doubt',
         \A x : InFlux(call[p], x) => InFlux(call'[p], x) \/ x \in doubt',
         \A q \in Path : Certain(q)' =>
            \/ (Exists(q)' <=> Exists(q))
            \/ Exists(q)' /\ Appeared(q)
            \/ ~local /\ q \in Dir /\ (Exists(q)' => Exists(q))
  PROVE  TrueInv'
<1>. SUFFICES ASSUME NEW q \in Path, Parent[q] \in loaded, Certain(q)'
              PROVE  /\ Exists(q)' => q \in items
                     /\ q \in items => Exists(q)' \/ (q \in Dir /\ ~local)
  BY DEF TrueInv
<1>1. Certain(q)
  BY CertainBefore
<1>2. /\ Exists(q) => q \in items
      /\ q \in items => Exists(q) \/ (q \in Dir /\ ~local)
  BY <1>1 DEF TrueInv
<1>. QED  BY <1>2 DEF Appeared

\* A step without the lock takes nothing from another that has it.
LEMMA OthersKeep ==
  ASSUME TypeInv, NEW p \in Process, \A r \in Process \ {p} : call'[r] = call[r],
         UNCHANGED <<local, loaded, items>>, doubt \subseteq doubt',
         \A x : InFlux(call[p], x) => InFlux(call'[p], x) \/ x \in doubt',
         \A q \in Path : Certain(q)' => (Exists(q)' <=> Exists(q)) \/ (Exists(q)' /\ Appeared(q)),
         \A f \in File : f \in target' => f \in target \/ f \in doubt' \/ InFlux(call'[p], f),
         \A d \in Dir : d \in target => d \in target',
         NEW r \in Process \ {p}, Owed(r), db'[r] = db[r]
  PROVE  Owed(r)'
<1>. DEFINE c == call[r]
<1>0. call'[r] = c
  OBVIOUS
<1>1. SeenFor(r)'
  <2>. SUFFICES ASSUME c.seen.dir \in Dir, c.at = "caching" \/ (~Moved(r) /\ c.seen.dir \notin loaded),
                       NEW q \in ChildrenOf(c.seen.dir), Certain(q)'
                PROVE  q \in c.seen.items <=> Exists(q)'
    BY <1>0 DEF SeenFor, Moved
  <2>1. q \in Path /\ Parent[q] = c.seen.dir
    BY DEF ChildrenOf
  <2>2. Certain(q)
    BY CertainBefore
  <2>3. q \in c.seen.items <=> Exists(q)
    BY <2>2 DEF Owed, SeenFor
  <2>. QED  BY <2>1, <2>3 DEF Appeared
<1>2. ForgetFor(r)'
  <2>. SUFFICES ASSUME c.at = "forget", c.path \in target', c.path \notin doubt'
                PROVE  \E q \in Process \ {r} : InFlux(call'[q], c.path)
    BY <1>0 DEF ForgetFor
  <2>1. c.path \in File
    BY CurrentCall, FileInHand
  <2>2. CASE InFlux(call'[p], c.path)
    BY <2>2
  <2>3. CASE c.path \in target
    <3>1. PICK q \in Process \ {r} : InFlux(call[q], c.path)
      BY <2>3 DEF Owed, ForgetFor
    <3>2. CASE q = p
      BY <3>1, <3>2
    <3>3. CASE q # p
      BY <3>1, <3>3
    <3>. QED  BY <3>2, <3>3
  <2>. QED  BY <2>1, <2>2, <2>3
<1>3. MadeFor(r)'
  <2>. SUFFICES ASSUME c.at = "mkdirEntry", local PROVE Parent[c.path] \in target'
    BY <1>0 DEF MadeFor
  <2>1. Parent[c.path] \in Dir
    BY CurrentCall, FileInHand
  <2>. QED  BY <2>1 DEF Owed, MadeFor
<1>4. GoneFor(r)' /\ ClearedFor(r)'
  BY <1>0 DEF Owed, GoneFor, ClearedFor
<1>5. UnlistedFor(r)'
  BY <1>0 DEF Owed, UnlistedFor, Moved
<1>. QED  BY <1>1, <1>2, <1>3, <1>4, <1>5 DEF Owed

\* A step of any process that leaves the target and the cache alone.
LEMMA QuietStep ==
  ASSUME FSInv, TypeInv', NEW p \in Process, \A r \in Process \ {p} : call'[r] = call[r],
         UNCHANGED <<local, target, loaded, items, lockLost>>, doubt \subseteq doubt',
         \A r \in Process \ {p} : db'[r] = db[r],
         \A x : InFlux(call[p], x) => InFlux(call'[p], x) \/ x \in doubt',
         ~lockLost => Owed(p)'
  PROVE  CacheInv'
<1>. SUFFICES ASSUME ~lockLost PROVE TrueInv' /\ \A r \in Process : Owed(r)'
  BY DEF CacheInv
<1>1. TypeInv /\ TrueInv /\ \A r \in Process : Owed(r)
  BY DEF FSInv, CacheInv
<1>2. \A q : (Exists(q)' <=> Exists(q))
  BY DEF Exists
<1>3. TrueInv'
  BY <1>1, <1>2, ListingsStay
<1>4. \A r \in Process \ {p} : Owed(r)'
  BY <1>1, <1>2, OthersKeep
<1>. QED  BY <1>3, <1>4

\* A step that leaves the target and the cache alone, and what was written.
LEMMA StillStep ==
  ASSUME FSInv, TypeInv', NEW p \in Process, \A r \in Process \ {p} : call'[r] = call[r],
         UNCHANGED <<local, target, loaded, items, lockLost>>, doubt \subseteq doubt',
         \A r \in Process \ {p} : db'[r] = db[r],
         \A x : InFlux(call[p], x) => InFlux(call'[p], x) \/ x \in doubt',
         ~lockLost => Owed(p)',
         call[p].at = "rename" => call[p].path \in target' \cup doubt',
         \/ Label(call'[p]) # "add"
         \/ Label(call[p]) = "add" /\ call'[p].path = call[p].path /\ doubt' = doubt
  PROVE  AddInv' /\ CacheInv'
<1>1. CacheInv'
  BY QuietStep
<1>2. TypeInv /\ AddInv
  BY DEF FSInv
<1>3. AddInv'
  BY <1>2, AddKept
<1>. QED  BY <1>1, <1>3

\* An open database does not move by being opened.
LEMMA OpenMoves ==
  ASSUME TypeInv, NEW p \in Process, Open(p)
  PROVE  /\ \A r \in Process \ {p} : db'[r] = db[r]
         /\ \A r \in Process : Moved(r)' = Moved(r)
  BY DEF Open, Moved, TypeInv, TypeHandles

LEMMA CallKeeps ==
  ASSUME FSInv, TypeInv', NEW p \in Process, Call(p)
  PROVE  AddInv' /\ CacheInv'
<1>1. PICK op \in Operation, path \in Path \cup Dir, label \in AskedFor \ {"mkdir", "add"} :
           LET new == Rec(op, path, "asking", label, NoListing, <<>>, {}, {}) IN
           /\ call[p] = Idle /\ call' = [call EXCEPT ![p] = new]
           /\ new \in CallRecord /\ Shape(new, local)
           /\ UNCHANGED <<disk, cache, handles, locks, doubt>>
           /\ \/ ~Clearer(new) /\ trouble' = trouble
              \/ trouble < MaxTrouble /\ trouble' = trouble + 1
  BY CallStep DEF FSInv
<1>2. /\ call'[p] = Rec(op, path, "asking", label, NoListing, <<>>, {}, {})
      /\ \A r \in Process \ {p} : call'[r] = call[r]
  BY <1>1, OneCall DEF FSInv, TypeInv
<1>3. call'[p].at = "asking" /\ Label(call'[p]) = label /\ label # "add"
  BY <1>2 DEF Rec, Label
<1>4. Owed(p)'
  BY <1>3, OutsideOwesNothing DEF Inside
<1>5. /\ UNCHANGED <<local, target, loaded, items, lockLost, doubt, db>>
      /\ \A x : ~InFlux(call[p], x) /\ call[p].at # "rename"
  BY <1>1, IdleRecord DEF disk, cache, handles, locks
<1>. QED  BY <1>2, <1>3, <1>4, <1>5, StillStep

LEMMA EnterKeeps ==
  ASSUME FSInv, TypeInv', NEW p \in Process, Enter(p)
  PROVE  AddInv' /\ CacheInv'
<1>. DEFINE l == call[p].next
<1>0. TypeInv
  BY DEF FSInv
<1>1. GoesTo(p, l) /\ l \in AskedFor /\ Label(call[p]) = l /\ call[p].gone = {}
  BY <1>0, EnterStep, NothingGone DEF AskedFor, InTree
<1>2. l \notin {"asking", "waiting", "caching", "forget", "mkdirEntry", "deleting", "rmdir",
                "rmdirEntry", "rename"}
  BY <1>1 DEF AskedFor
<1>3. /\ call'[p].at = l /\ call'[p].path = call[p].path /\ Label(call'[p]) = l
      /\ call'[p].seen = NoListing /\ call'[p].gone = {}
      /\ \A r \in Process \ {p} : call'[r] = call[r]
  BY <1>0, <1>1, <1>2, AfterStep
<1>4. Owed(p)'
  BY <1>2, <1>3, IdleRecord, OwesNothing
<1>5. \A x : InFlux(call[p], x) => InFlux(call'[p], x)
  BY <1>1, <1>2, <1>3 DEF InFlux
<1>6. UNCHANGED <<local, target, loaded, items, lockLost, doubt, db>> /\ call[p].at # "rename"
  BY DEF Enter, disk, cache, handles
<1>. QED  BY <1>1, <1>3, <1>4, <1>5, <1>6, StillStep

LEMMA ListTargetKeeps ==
  ASSUME FSInv, TypeInv', NEW p \in Process, ListTarget(p)
  PROVE  AddInv' /\ CacheInv'
<1>. DEFINE c == call[p]
            seen == [dir |-> Needed(p), items |-> Listing(Needed(p))]
            new == Rec(c.op, c.path, "caching", c.at, seen, c.stack, c.left, c.gone)
<1>0. TypeInv
  BY DEF FSInv
<1>1. StepTo(p, new) /\ c.at \in Looking \cup {"fresh"} /\ Label(c) = c.at
  BY <1>0, ListTargetStep
<1>2. call'[p] = new /\ \A r \in Process \ {p} : call'[r] = call[r]
  BY <1>0, <1>1, AfterStep
<1>3. /\ call'[p].at = "caching" /\ Label(call'[p]) = c.at /\ call'[p].path = c.path
      /\ call'[p].seen.dir = Needed(p) /\ call'[p].seen.items = Listing(Needed(p))
      /\ call'[p].next = c.at /\ call'[p].gone = c.gone
  BY <1>2 DEF Rec, Label
<1>4. UNCHANGED <<local, target, loaded, items, lockLost, doubt>>
  BY DEF ListTarget, disk, cache, locks
<1>5. \A r \in Process \ {p} : db'[r] = db[r]
  BY <1>0, OpenMoves DEF ListTarget
<1>6. c.at \notin FluxLabels
  BY <1>1 DEF FluxLabels, Looking
<1>7. \A x : InFlux(call[p], x) => InFlux(call'[p], x)
  BY <1>1, <1>3, <1>6, FluxOf
<1>8. ASSUME ~lockLost PROVE Owed(p)'
  <2>1. SeenFor(p)'
    BY <1>3, <1>4 DEF SeenFor, Listing, Exists
  <2>2. ClearedFor(p)'
    BY <1>1, <1>3, <1>4, <1>8 DEF ClearedFor, FSInv, CacheInv, Owed
  <2>3. ForgetFor(p)' /\ MadeFor(p)'
    BY <1>3 DEF ForgetFor, MadeFor
  <2>4. GoneFor(p)'
    BY <1>3, <1>4, <1>8 DEF GoneFor, FSInv, CacheInv, Owed
  <2>5. UnlistedFor(p)'
    <3>. SUFFICES ASSUME c.at # "fresh", ~Moved(p) PROVE Needed(p) \notin loaded
      <4>1. Moved(p)' = Moved(p)
        BY <1>0, OpenMoves DEF ListTarget
      <4>. QED  BY <1>3, <1>4, <4>1 DEF UnlistedFor
    <3>. QED  BY DEF ListTarget, Looked, Known, LoadedFor
  <2>. QED  BY <2>1, <2>2, <2>3, <2>4, <2>5 DEF Owed
<1>9. Label(call'[p]) # "add" /\ c.at # "rename"
  BY <1>3, <1>6 DEF FluxLabels
<1>. QED  BY <1>2, <1>4, <1>5, <1>7, <1>8, <1>9, StillStep

\* Steps after which a call has found out what it wants to know, or ends.
LEMMA LookedKeeps ==
  ASSUME FSInv, TypeInv', NEW p \in Process,
         Answer(p) \/ LookedForParent(p) \/ LookedForFile(p) \/ NothingToRemove(p) \/ LookedForItem(p)
  PROVE  AddInv' /\ CacheInv'
<1>0. TypeInv
  BY DEF FSInv
<1>1. call[p].at \in {"self", "list", "parent"}
  BY DEF Answer, LookedForParent, LookedForFile, NothingToRemove, LookedForItem
<1>2. Label(call[p]) = call[p].at
  BY <1>0, <1>1, CurrentCall
<1>3. \A x : ~InFlux(call[p], x)
  BY <1>0, <1>1, <1>2, NoFlux DEF FluxLabels, InTree
<1>4. Open(p) /\ UNCHANGED <<local, target, loaded, items, lockLost, doubt>>
  BY DEF Answer, LookedForParent, LookedForFile, NothingToRemove, LookedForItem, disk, cache, locks
<1>5. \A r \in Process \ {p} : db'[r] = db[r]
  BY <1>0, <1>4, OpenMoves
<1>6. ASSUME \A r \in Process \ {p} : call'[r] = call[r], Owed(p)', Label(call'[p]) # "add"
      PROVE  AddInv' /\ CacheInv'
  BY <1>1, <1>3, <1>4, <1>5, <1>6, StillStep
<1>7. CASE Answer(p) \/ NothingToRemove(p)
  <2>1. Ends(p)
    BY <1>0, <1>7, ReturnStep DEF Answer, NothingToRemove, Ends
  <2>2. call'[p] = Idle /\ \A r \in Process \ {p} : call'[r] = call[r]
    BY <1>0, <2>1, AfterStep
  <2>. QED  BY <1>6, <2>2, EndedOwesNothing, IdleRecord
<1>8. CASE LookedForParent(p)
  <2>1. PICK l \in {"self", "mkdir"} : AsksFor(p, l)
    BY <1>0, <1>8, LookedForParentStep
  <2>2. /\ call'[p].at = "asking" /\ Label(call'[p]) = l
        /\ \A r \in Process \ {p} : call'[r] = call[r]
    BY <1>0, <2>1, AfterStep
  <2>. QED  BY <1>6, <2>2, OutsideOwesNothing DEF Inside
<1>9. CASE LookedForFile(p)
  <2>1. GoesTo(p, "write")
    BY <1>0, <1>9, LookedForFileStep
  <2>2. /\ call'[p].at = "write" /\ Label(call'[p]) = "write"
        /\ \A r \in Process \ {p} : call'[r] = call[r]
    BY <1>0, <2>1, AfterStep
  <2>. QED  BY <1>6, <2>2, OutsideOwesNothing DEF Inside
<1>10. CASE LookedForItem(p)
  <2>. DEFINE new(l, s) == Rec(call[p].op, call[p].path, l, call[p].next, NoListing, s, call[p].left, {})
  <2>0. PICK l \in {"unlink", "clearing", "sweep"} : \E s : StepTo(p, new(l, s))
    BY <1>0, <1>10, LookedForItemStep
  <2>1. PICK s : StepTo(p, new(l, s))
    BY <2>0
  <2>2. call'[p] = new(l, s) /\ \A r \in Process \ {p} : call'[r] = call[r]
    BY <1>0, <2>1, AfterStep
  <2>3. call'[p].at = l /\ Label(call'[p]) = l /\ call'[p].seen = NoListing /\ call'[p].gone = {}
    BY <2>2 DEF Rec, Label
  <2>4. Owed(p)'
    BY <2>3, IdleRecord, OwesNothing
  <2>. QED  BY <1>6, <2>2, <2>3, <2>4
<1>. QED  BY <1>7, <1>8, <1>9, <1>10

\* A process that crashes leaves what it was changing in doubt.
LEMMA CrashKeeps ==
  ASSUME FSInv, TypeInv', NEW p \in Process, Crash(p)
  PROVE  AddInv' /\ CacheInv'
<1>0. TypeInv
  BY DEF FSInv
<1>1. Ends(p)
  BY <1>0, ReturnStep DEF Crash, Ends
<1>2. call'[p] = Idle /\ \A r \in Process \ {p} : call'[r] = call[r]
  BY <1>0, <1>1, AfterStep
<1>3. /\ UNCHANGED <<local, target, loaded, items, lockLost>> /\ doubt' = doubt \cup Changing(p)
      /\ \A r \in Process \ {p} : db'[r] = db[r]
  BY <1>0 DEF Crash, disk, cache, locks, TypeInv, TypeHandles
<1>4. \A x : InFlux(call[p], x) => x \in doubt'
  BY <1>0, <1>3, FluxIsChanging
<1>5. ASSUME call[p].at = "rename" PROVE call[p].path \in doubt'
  <2>1. InFlux(call[p], call[p].path)
    BY <1>0, <1>5, CurrentCall DEF InFlux
  <2>. QED  BY <1>4, <2>1
<1>. QED  BY <1>2, <1>3, <1>4, <1>5, EndedOwesNothing, IdleRecord, StillStep

(***************************************************************************)
(* Steps with the lock.                                                    *)
(***************************************************************************)
LEMMA HolderKeeps ==
  ASSUME FSInv, TypeInv', NEW p \in Process, call[p].at \in Inside, lockLost' = lockLost,
         \A r \in Process \ {p} : call'[r] = call[r],
         Good => TrueInv' /\ Owed(p)'
  PROVE  CacheInv'
<1>1. CASE lockLost
  BY <1>1 DEF CacheInv
<1>2. CASE ~lockLost
  BY <1>2, HolderStep DEF Good
<1>. QED  BY <1>1, <1>2

LEMMA StoreListingKeeps ==
  ASSUME FSInv, TypeInv', NEW p \in Process, StoreListing(p)
  PROVE  AddInv' /\ CacheInv'
<1>. DEFINE c == call[p]
            d == c.seen.dir
            found == c.seen.items
            new == Rec(c.op, c.path, c.next, c.next, c.seen, c.stack, c.left, c.gone)
<1>0. TypeInv /\ AddInv
  BY DEF FSInv
<1>1. /\ d \in Dir /\ found \subseteq ChildrenOf(d)
      /\ c.at = "caching" /\ c.next \in Looking \cup {"fresh"} /\ Label(c) = c.next
      /\ (StepTo(p, Idle) /\ c.gone = {}) \/ (StepTo(p, new) /\ c.next \in Looking)
  BY <1>0, StoreListingStep
<1>2. /\ \A r \in Process \ {p} : call'[r] = call[r]
      /\ (call'[p] = Idle /\ c.gone = {}) \/ (call'[p] = new /\ c.next \in Looking)
  BY <1>0, <1>1, AfterStep
<1>3. new.at = c.next /\ (c.next \in Looking => Label(new) = c.next) /\ new.seen = c.seen /\ new.path = c.path
      /\ new.gone = c.gone
  BY DEF Rec, Label, Looking
<1>. HIDE DEF new
<1>4. c.next \notin FluxLabels
  BY <1>1 DEF FluxLabels, Looking
<1>5. \A x : InFlux(call'[p], x) <=> InFlux(call[p], x)
  BY <1>1, <1>2, <1>3, <1>4, FluxOf, IdleRecord
<1>6. UNCHANGED <<local, target, lockLost, db>>
  BY DEF StoreListing, disk, handles, locks
<1>7. \/ /\ ~Moved(p)
         /\ loaded' = loaded \cup {d} /\ items' = (items \ ChildrenOf(d)) \cup found
         /\ doubt' = {x \in doubt : \/ Parent[x] # d \/ x \in OthersChange(p)
                                    \/ (x \in found) # Exists(x)}
      \/ UNCHANGED <<loaded, items, doubt>>
  BY DEF StoreListing, cache
<1>8. Label(call'[p]) # "add"
  BY <1>2, <1>3, <1>4, IdleRecord DEF FluxLabels
<1>9. AddInv'
  BY <1>0, <1>1, <1>2, <1>6, <1>7, <1>8, AddKept
<1>10. ASSUME Good PROVE TrueInv'
  <2>. SUFFICES ASSUME NEW q \in Path, Parent[q] \in loaded', Certain(q)'
                PROVE  /\ Exists(q) => q \in items'
                       /\ q \in items' => Exists(q) \/ (q \in Dir /\ ~local)
    BY <1>6 DEF TrueInv, Exists
  <2>0. TrueInv /\ SeenFor(p)
    BY <1>10 DEF Good, FSInv, CacheInv, Owed
  <2>1. q \notin doubt' /\ \A r \in Process : ~InFlux(call'[r], q)
    BY DEF Certain
  <2>2. q \notin doubt => Certain(q)
    BY <1>2, <1>5, <2>1 DEF Certain
  <2>3. CASE UNCHANGED <<loaded, items, doubt>>
    BY <2>0, <2>1, <2>2, <2>3 DEF TrueInv
  <2>4. CASE ~UNCHANGED <<loaded, items, doubt>>
    <3>1. /\ loaded' = loaded \cup {d} /\ items' = (items \ ChildrenOf(d)) \cup found
          /\ doubt' = {x \in doubt : \/ Parent[x] # d \/ x \in OthersChange(p)
                                     \/ (x \in found) # Exists(x)}
      BY <1>7, <2>4
    <3>2. CASE Parent[q] # d
      <4>1. q \notin ChildrenOf(d) /\ q \notin doubt
        BY <2>1, <3>1, <3>2 DEF ChildrenOf
      <4>. QED  BY <1>1, <2>0, <2>2, <3>1, <3>2, <4>1 DEF TrueInv
    <3>3. CASE Parent[q] = d
      <4>1. q \in ChildrenOf(d)
        BY <3>3 DEF ChildrenOf
      <4>2. q \in found <=> Exists(q)
        <5>1. CASE q \in doubt
          BY <2>1, <3>1, <5>1
        <5>2. CASE q \notin doubt
          BY <1>1, <2>0, <2>2, <4>1, <5>2 DEF SeenFor
        <5>. QED  BY <5>1, <5>2
      <4>. QED  BY <3>1, <4>1, <4>2
    <3>. QED  BY <3>2, <3>3
  <2>. QED  BY <2>3, <2>4
<1>11. ASSUME Good PROVE Owed(p)'
  <2>1. CASE call'[p] = Idle
    BY <2>1, EndedOwesNothing
  <2>2. CASE call'[p] = new /\ c.next \in Looking
    <3>1. /\ call'[p].at = c.next /\ Label(call'[p]) = c.next /\ call'[p].path = c.path
          /\ call'[p].seen = c.seen /\ call'[p].gone = c.gone
      BY <1>3, <2>2
    <3>2. UnlistedFor(p)' /\ ForgetFor(p)' /\ MadeFor(p)'
      BY <2>2, <3>1 DEF UnlistedFor, ForgetFor, MadeFor, Looking
    <3>3. SeenFor(p)'
      <4>. SUFFICES ASSUME d \notin loaded', NEW q \in ChildrenOf(d), Certain(q)'
                    PROVE  q \in found <=> Exists(q)'
        BY <2>2, <3>1 DEF SeenFor, Looking
      <4>1. doubt' = doubt
        BY <1>7
      <4>2. Certain(q)
        BY <1>2, <1>5, <4>1 DEF Certain
      <4>3. Exists(q)' <=> Exists(q)
        BY <1>6 DEF Exists
      <4>. QED  BY <1>1, <1>11, <4>2, <4>3 DEF Good, FSInv, CacheInv, Owed, SeenFor
    <3>5. GoneFor(p)'
      <4>. SUFFICES ASSUME NEW q \in c.gone PROVE q \notin items' /\ Parent[q] \in loaded'
        BY <3>1 DEF GoneFor
      <4>1. q \notin items /\ Parent[q] \in loaded /\ (~Moved(p) => d \notin loaded)
        BY <1>1, <1>11, <2>2 DEF Good, FSInv, CacheInv, Owed, GoneFor, UnlistedFor, Looking
      <4>2. ~Moved(p) => q \notin found
        BY <1>1, <4>1 DEF ChildrenOf
      <4>. QED  BY <1>7, <4>1, <4>2
    <3>4. ClearedFor(p)'
      <4>. SUFFICES ASSUME c.next = "rmdir", local
                    PROVE  loaded' \cap ({c.path} \cup Below(c.path)) = {}
        BY <1>6, <2>2, <3>1 DEF ClearedFor, Looking
      <4>1. loaded \cap ({c.path} \cup Below(c.path)) = {}
        BY <1>1, <1>11 DEF Good, FSInv, CacheInv, Owed, ClearedFor
      <4>2. c.path \in Path /\ d \in Above[c.path]
        BY <1>0, <1>1, HeadOfStack, CurrentCall DEF Shape, InTree
      <4>3. d # c.path
        BY <4>2, AboveOf
      <4>4. d \notin Below(c.path)
        <5>. SUFFICES ASSUME d \in Below(c.path) PROVE FALSE
          OBVIOUS
        <5>1. c.path \in Above[d]
          BY DEF Below
        <5>. QED  BY <4>2, <5>1, AboveOf
      <4>5. loaded' \subseteq loaded \cup {d}
        BY <1>7
      <4>. QED  BY <4>1, <4>3, <4>4, <4>5
    <3>. QED  BY <3>2, <3>3, <3>4, <3>5 DEF Owed
  <2>. QED  BY <1>2, <2>1, <2>2
<1>12. CacheInv'
  BY <1>1, <1>2, <1>6, <1>10, <1>11, HolderKeeps DEF Inside
<1>. QED  BY <1>9, <1>12

\* The directories that are made with one are entered, or in doubt.
LEMMA MakeDirectoryKeeps ==
  ASSUME FSInv, TypeInv', ClosedTarget', NEW p \in Process, MakeDirectory(p)
  PROVE  AddInv' /\ CacheInv'
<1>. DEFINE d == Parent[call[p].path]
<1>0. TypeInv /\ AddInv /\ ClosedTarget
  BY DEF FSInv
<1>1. call[p].at = "mkdir" /\ Label(call[p]) = "mkdir" /\ GoesTo(p, "mkdirEntry")
  BY <1>0, MakeDirectoryStep, CurrentCall
<1>2. /\ call'[p].at = "mkdirEntry" /\ Label(call'[p]) = "mkdirEntry" /\ call'[p].path = call[p].path
      /\ call'[p].seen = NoListing /\ call'[p].gone = {}
      /\ \A r \in Process \ {p} : call'[r] = call[r]
  BY <1>0, <1>1, AfterStep, FileInHand
<1>3. d \in Path /\ d \in Dir /\ d # Top
  BY <1>0, <1>1, FileInHand
<1>4. \A x : ~InFlux(call[p], x)
  BY <1>0, <1>1, NoFlux DEF FluxLabels, InTree
<1>5. InFlux(call'[p], d)
  BY <1>2 DEF InFlux
<1>6. /\ UNCHANGED <<local, loaded, items, lockLost, db>>
      /\ target' = IF local THEN target \cup WithParents(d) ELSE target
      /\ doubt' = doubt \cup (NewUnlisted(target') \ (IF Moved(p) THEN {} ELSE {d}))
  BY DEF MakeDirectory, cache, handles, locks
<1>7. target \subseteq target' /\ doubt \subseteq doubt'
  BY <1>6
<1>8. AddInv'
  BY <1>0, <1>1, <1>2, <1>7, AddKept
<1>9. ASSUME Good PROVE TrueInv'
  <2>1. ASSUME NEW q \in Path, Certain(q)' PROVE (Exists(q)' <=> Exists(q)) \/ (Exists(q)' /\ Appeared(q))
    <3>1. q # d /\ q \notin doubt'
      BY <1>5, <2>1 DEF Certain
    <3>2. q \notin NewUnlisted(target')
      BY <1>6, <3>1
    <3>3. CASE ~local
      BY <1>6, <3>3 DEF Exists
    <3>4. CASE local
      <4>1. Exists(q) <=> q \in target
        BY <1>0, <3>4, LocalExists
      <4>2. target' \in SUBSET Path /\ Closed(target')
        BY <1>6, <3>4 DEF TypeInv, TypeDisk, ClosedTarget
      <4>3. (Exists(q)' <=> q \in target') /\ (Exists(q)' <=> ExistsIn(target', q))
        <5>1. (Exists(q)' <=> ExistsIn(target', q))
          BY DEF Exists
        <5>. QED  BY <4>2, <5>1, ExistsInClosed
      <4>4. CASE q \in WithParents(d) /\ q \notin target
        <5>1. q \in Dir \ {Top}
          BY <1>3, <4>4, AboveOf DEF WithParents
        <5>2. /\ Parent[q] \in loaded /\ q \in items
              /\ \A r \in Process : ~(call[r].at = "caching" /\ call[r].seen.dir = Parent[q])
          BY <3>2, <4>1, <4>3, <4>4, <5>1, <1>6, <3>4 DEF NewUnlisted
        <5>. QED  BY <1>6, <3>4, <4>3, <4>4, <5>1, <5>2 DEF Appeared
      <4>5. CASE ~(q \in WithParents(d) /\ q \notin target)
        BY <1>6, <3>4, <4>1, <4>3, <4>5
      <4>. QED  BY <4>4, <4>5
    <3>. QED  BY <3>3, <3>4
  <2>2. TrueInv
    BY <1>9 DEF Good, FSInv, CacheInv
  <2>. QED  BY <1>2, <1>4, <1>6, <1>7, <2>1, <2>2, ListingsStay
<1>10. Owed(p)'
  <2>1. MadeFor(p)'
    <3>. SUFFICES ASSUME local PROVE d \in target'
      BY <1>2, <1>6 DEF MadeFor
    <3>. QED  BY <1>6 DEF WithParents
  <2>2. SeenFor(p)' /\ UnlistedFor(p)' /\ ForgetFor(p)' /\ GoneFor(p)' /\ ClearedFor(p)'
    BY <1>2, Records DEF SeenFor, UnlistedFor, ForgetFor, GoneFor, ClearedFor
  <2>. QED  BY <2>1, <2>2 DEF Owed
<1>11. CacheInv'
  BY <1>1, <1>2, <1>6, <1>9, <1>10, HolderKeeps DEF Inside
<1>. QED  BY <1>8, <1>11

LEMMA EnterDirectoryKeeps ==
  ASSUME FSInv, TypeInv', NEW p \in Process, EnterDirectory(p)
  PROVE  AddInv' /\ CacheInv'
<1>. DEFINE d == Parent[call[p].path]
<1>0. TypeInv /\ AddInv /\ ClosedTarget
  BY DEF FSInv
<1>1. call[p].at = "mkdirEntry" /\ Label(call[p]) = "mkdirEntry" /\ (Ends(p) \/ AsksFor(p, "self"))
  BY <1>0, EnterDirectoryStep, CurrentCall
<1>2. /\ call'[p].at \in {"idle", "asking"} /\ Label(call'[p]) \in {"idle", "self"}
      /\ \A r \in Process \ {p} : call'[r] = call[r]
  BY <1>0, <1>1, AfterStep, IdleRecord
<1>3. d \in Path /\ d \in Dir
  BY <1>0, <1>1, FileInHand
<1>4. \A x : InFlux(call[p], x) => x = d
  BY <1>0, <1>1, FileInHand DEF InFlux
<1>5. /\ UNCHANGED <<local, target, loaded, lockLost>>
      /\ items' = IF ~Moved(p) /\ Parent[d] \in loaded THEN items \cup {d} ELSE items
      /\ doubt' = IF Moved(p) THEN doubt \cup {d} ELSE doubt
  BY DEF EnterDirectory, AddEntry, disk, locks
<1>6. AddInv'
  BY <1>0, <1>1, <1>2, <1>5, AddKept
<1>7. ASSUME Good PROVE TrueInv'
  <2>. SUFFICES ASSUME NEW q \in Path, Parent[q] \in loaded, Certain(q)'
                PROVE  /\ Exists(q) => q \in items'
                       /\ q \in items' => Exists(q) \/ (q \in Dir /\ ~local)
    BY <1>5 DEF TrueInv, Exists
  <2>1. CASE q # d
    <3>1. Certain(q)
      BY <1>2, <1>4, <1>5, <2>1 DEF Certain
    <3>. QED  BY <1>5, <1>7, <2>1, <3>1 DEF Good, FSInv, CacheInv, TrueInv
  <2>2. CASE q = d
    <3>1. ~Moved(p) /\ d \in items'
      BY <1>5, <2>2 DEF Certain
    <3>2. local => d \in target
      BY <1>1, <1>7 DEF Good, FSInv, CacheInv, Owed, MadeFor
    <3>. QED  BY <1>0, <1>3, <2>2, <3>1, <3>2, LocalExists
  <2>. QED  BY <2>1, <2>2
<1>8. Owed(p)'
  BY <1>2, OutsideOwesNothing DEF Inside
<1>9. CacheInv'
  BY <1>1, <1>2, <1>5, <1>7, <1>8, HolderKeeps DEF Inside
<1>. QED  BY <1>6, <1>9

LEMMA EnterFileKeeps ==
  ASSUME FSInv, TypeInv', NEW p \in Process, EnterFile(p)
  PROVE  AddInv' /\ CacheInv'
<1>. DEFINE f == call[p].path
<1>0. TypeInv /\ AddInv
  BY DEF FSInv
<1>1. call[p].at = "add" /\ Label(call[p]) = "add" /\ Ends(p)
  BY <1>0, ReturnStep, CurrentCall DEF EnterFile, Ends
<1>2. call'[p] = Idle /\ \A r \in Process \ {p} : call'[r] = call[r]
  BY <1>0, <1>1, AfterStep
<1>3. f \in Path /\ f \in File
  BY <1>0, <1>1, FileInHand
<1>4. \A x : InFlux(call[p], x) => x = f
  BY <1>0, <1>1, FileInHand DEF InFlux
<1>5. /\ UNCHANGED <<local, target, loaded, lockLost>>
      /\ items' = IF ~Moved(p) /\ Parent[f] \in loaded THEN items \cup {f} ELSE items
      /\ doubt' = IF Moved(p) THEN doubt \cup {f} ELSE doubt
  BY DEF EnterFile, AddEntry, disk, locks
<1>6. AddInv'
  BY <1>0, <1>1, <1>2, <1>5, AddKept, IdleRecord
<1>7. ASSUME Good PROVE TrueInv'
  <2>. SUFFICES ASSUME NEW q \in Path, Parent[q] \in loaded, Certain(q)'
                PROVE  /\ Exists(q) => q \in items'
                       /\ q \in items' => Exists(q) \/ (q \in Dir /\ ~local)
    BY <1>5 DEF TrueInv, Exists
  <2>1. CASE q # f
    <3>1. Certain(q)
      BY <1>2, <1>4, <1>5, <2>1 DEF Certain
    <3>. QED  BY <1>5, <1>7, <2>1, <3>1 DEF Good, FSInv, CacheInv, TrueInv
  <2>2. CASE q = f
    <3>1. ~Moved(p) /\ f \in items' /\ f \notin doubt
      BY <1>5, <2>2 DEF Certain
    <3>2. f \in target
      <4>. SUFFICES ASSUME NEW r \in Process, call[r].at = "rename", call[r].path = f PROVE FALSE
        BY <1>0, <1>1, <3>1 DEF AddInv
      <4>1. r # p /\ InFlux(call[r], f)
        BY <1>0, <1>1, CurrentCall DEF InFlux
      <4>. QED  BY <1>2, <2>2, <4>1 DEF Certain
    <3>. QED  BY <2>2, <3>1, <3>2 DEF Exists, ExistsIn
  <2>. QED  BY <2>1, <2>2
<1>8. Owed(p)'
  BY <1>2, EndedOwesNothing
<1>9. CacheInv'
  BY <1>1, <1>2, <1>5, <1>7, <1>8, HolderKeeps DEF Inside
<1>. QED  BY <1>6, <1>9

LEMMA LocalExistsThen ==
  ASSUME TypeInv', ClosedTarget', local', NEW q \in Path
  PROVE  Exists(q)' <=> q \in target'
<1>1. target' \in SUBSET Path /\ Closed(target')
  BY DEF TypeInv, TypeDisk, ClosedTarget
<1>2. Exists(q)' <=> ExistsIn(target', q)
  BY DEF Exists
<1>. QED  BY <1>1, <1>2, ExistsInClosed

\* What becomes of the other paths when files go.  A directory of S3 may go
\* with its last file.
LEMMA WithoutFiles ==
  ASSUME TypeInv, ClosedTarget, TypeInv', ClosedTarget', local' = local,
         NEW F \in SUBSET File, target' = target \ F, NEW q \in Path
  PROVE  /\ q \in F => ~Exists(q)'
         /\ q \notin F => \/ (Exists(q)' <=> Exists(q))
                          \/ ~local /\ q \in Dir /\ (Exists(q)' => Exists(q))
<1>1. Exists(q)' <=> ExistsIn(target', q)
  BY DEF Exists
<1>2. q \in F => ~Exists(q)'
  BY <1>1, FileExists
<1>3. CASE local
  <2>1. (Exists(q)' <=> q \in target') /\ (Exists(q) <=> q \in target)
    BY <1>3, LocalExists, LocalExistsThen
  <2>. QED  BY <1>2, <2>1
<1>4. CASE ~local /\ q \in File
  <2>1. (Exists(q)' <=> q \in target') /\ (Exists(q) <=> q \in target)
    BY <1>1, <1>4, FileExists DEF Exists
  <2>. QED  BY <1>2, <2>1
<1>5. CASE ~local /\ q \in Dir
  BY <1>1, <1>2, <1>5 DEF Exists, ExistsIn
<1>. QED  BY <1>3, <1>4, <1>5 DEF Path

LEMMA UnlinkFileKeeps ==
  ASSUME FSInv, TypeInv', ClosedTarget', NEW p \in Process, UnlinkFile(p)
  PROVE  AddInv' /\ CacheInv'
<1>. DEFINE f == call[p].path
<1>0. TypeInv /\ AddInv /\ ClosedTarget
  BY DEF FSInv
<1>1. /\ call[p].at = "unlink" /\ Label(call[p]) = "unlink"
      /\ IF local /\ f \notin target THEN Ends(p) ELSE GoesTo(p, "forget")
  BY <1>0, UnlinkFileStep, CurrentCall
<1>2. f \in File
  BY <1>0, <1>1, FileInHand
<1>3. \A x : ~InFlux(call[p], x)
  BY <1>0, <1>1, NoFlux DEF FluxLabels, InTree
<1>4. /\ UNCHANGED <<local, loaded, items, lockLost, db>>
      /\ target' = target \ {f} /\ doubt' = doubt \cup ({f} \cap OthersChange(p))
  BY DEF UnlinkFile, cache, handles, locks
<1>5. CASE local /\ f \notin target
  <2>1. call'[p] = Idle /\ \A r \in Process \ {p} : call'[r] = call[r]
    BY <1>0, <1>1, <1>5, AfterStep
  <2>2. target' = target /\ doubt \subseteq doubt' /\ call[p].at # "rename"
    BY <1>1, <1>4, <1>5
  <2>. QED  BY <1>3, <1>4, <2>1, <2>2, EndedOwesNothing, IdleRecord, StillStep
<1>6. CASE ~(local /\ f \notin target)
  <2>1. /\ call'[p].at = "forget" /\ Label(call'[p]) = "forget" /\ call'[p].path = f
        /\ call'[p].seen = NoListing /\ call'[p].gone = {}
        /\ \A r \in Process \ {p} : call'[r] = call[r]
    BY <1>0, <1>1, <1>6, AfterStep, FileInHand
  <2>2. AddInv'
    BY <1>0, <1>1, <1>4, <2>1, AddKept
  <2>3. InFlux(call'[p], f)
    BY <2>1 DEF InFlux
  <2>4. ASSUME Good PROVE TrueInv'
    <3>1. ASSUME NEW q \in Path, Certain(q)'
          PROVE  (Exists(q)' <=> Exists(q)) \/ (~local /\ q \in Dir /\ (Exists(q)' => Exists(q)))
      <4>1. q \notin {f}
        BY <2>3, <3>1 DEF Certain
      <4>. QED  BY <1>0, <1>2, <1>4, <4>1, WithoutFiles
    <3>2. TrueInv
      BY <2>4 DEF Good, FSInv, CacheInv
    <3>. QED  BY <1>3, <1>4, <2>1, <3>1, <3>2, ListingsStay
  <2>5. Owed(p)'
    <3>1. ForgetFor(p)'
      BY <1>4, <2>1 DEF ForgetFor
    <3>2. SeenFor(p)' /\ UnlistedFor(p)' /\ MadeFor(p)' /\ GoneFor(p)' /\ ClearedFor(p)'
      BY <2>1, Records DEF SeenFor, UnlistedFor, MadeFor, GoneFor, ClearedFor
    <3>. QED  BY <3>1, <3>2 DEF Owed
  <2>6. CacheInv'
    BY <1>1, <1>4, <2>1, <2>4, <2>5, HolderKeeps DEF Inside
  <2>. QED  BY <2>2, <2>6
<1>. QED  BY <1>5, <1>6

LEMMA ForgetFileKeeps ==
  ASSUME FSInv, TypeInv', NEW p \in Process, ForgetFile(p)
  PROVE  AddInv' /\ CacheInv'
<1>. DEFINE f == call[p].path
<1>0. TypeInv /\ AddInv
  BY DEF FSInv
<1>1. call[p].at = "forget" /\ Label(call[p]) = "forget" /\ Ends(p)
  BY <1>0, ReturnStep, CurrentCall DEF ForgetFile, Ends
<1>2. call'[p] = Idle /\ \A r \in Process \ {p} : call'[r] = call[r]
  BY <1>0, <1>1, AfterStep
<1>3. f \in Path /\ f \in File
  BY <1>0, <1>1, FileInHand
<1>4. \A x : InFlux(call[p], x) => x = f
  BY <1>0, <1>1, FileInHand DEF InFlux
<1>5. /\ UNCHANGED <<local, target, loaded, lockLost>>
      /\ items' = IF ~Moved(p) /\ Parent[f] \in loaded THEN items \ {f} ELSE items
      /\ doubt' = IF Moved(p) THEN doubt \cup {f} ELSE doubt
  BY DEF ForgetFile, RemoveEntry, disk, locks
<1>6. AddInv'
  BY <1>0, <1>1, <1>2, <1>5, AddKept, IdleRecord
<1>7. ASSUME Good PROVE TrueInv'
  <2>. SUFFICES ASSUME NEW q \in Path, Parent[q] \in loaded, Certain(q)'
                PROVE  /\ Exists(q) => q \in items'
                       /\ q \in items' => Exists(q) \/ (q \in Dir /\ ~local)
    BY <1>5 DEF TrueInv, Exists
  <2>1. CASE q # f
    <3>1. Certain(q)
      BY <1>2, <1>4, <1>5, <2>1 DEF Certain
    <3>. QED  BY <1>5, <1>7, <2>1, <3>1 DEF Good, FSInv, CacheInv, TrueInv
  <2>2. CASE q = f
    <3>1. ~Moved(p) /\ f \notin items' /\ f \notin doubt
      BY <1>5, <2>2 DEF Certain
    <3>2. f \notin target
      <4>. SUFFICES ASSUME NEW r \in Process \ {p}, InFlux(call[r], f) PROVE FALSE
        BY <1>1, <1>7, <3>1 DEF Good, FSInv, CacheInv, Owed, ForgetFor
      <4>. QED  BY <1>2, <2>2 DEF Certain
    <3>3. ~Exists(f)
      BY <1>3, <3>2, FileExists DEF Exists
    <3>. QED  BY <2>2, <3>1, <3>3
  <2>. QED  BY <2>1, <2>2
<1>8. Owed(p)'
  BY <1>2, EndedOwesNothing
<1>9. CacheInv'
  BY <1>1, <1>2, <1>5, <1>7, <1>8, HolderKeeps DEF Inside
<1>. QED  BY <1>6, <1>9

\* What is no longer loaded says nothing.
LEMMA ClearedListings ==
  ASSUME TypeInv, TrueInv, NEW d \in Path \cup Dir, Clear(d), UNCHANGED <<local, target>>,
         \A q : Certain(q)' => Certain(q)
  PROVE  TrueInv'
<1>. SUFFICES ASSUME NEW q \in Path, Parent[q] \in loaded', Certain(q)'
              PROVE  /\ Exists(q) => q \in items'
                     /\ q \in items' => Exists(q) \/ (q \in Dir /\ ~local)
  BY DEF TrueInv, Exists
<1>1. Parent[q] \in loaded /\ items' \subseteq items
  BY DEF Clear
<1>2. q \notin doubt'
  BY DEF Certain
<1>3. q \in items => q \in items'
  BY <1>2 DEF Clear
<1>. QED  BY <1>1, <1>3 DEF TrueInv

LEMMA ClearBelowKeeps ==
  ASSUME FSInv, TypeInv', NEW p \in Process, ClearBelow(p)
  PROVE  AddInv' /\ CacheInv'
<1>. DEFINE d == call[p].path
<1>0. TypeInv /\ AddInv
  BY DEF FSInv
<1>1. /\ call[p].at = "clearing" /\ Label(call[p]) = "clearing" /\ local
      /\ IF Moved(p) THEN Ends(p) ELSE GoesTo(p, "rmdir")
  BY <1>0, ClearBelowStep, CurrentCall
<1>2. \A x : ~InFlux(call[p], x)
  BY <1>0, <1>1, NoFlux DEF FluxLabels
<1>3. UNCHANGED <<local, target, lockLost, db>> /\ doubt \subseteq doubt'
  BY DEF ClearBelow, Clear, disk, handles, locks
<1>4. CASE Moved(p)
  <2>1. call'[p] = Idle /\ \A r \in Process \ {p} : call'[r] = call[r]
    BY <1>0, <1>1, <1>4, AfterStep
  <2>2. UNCHANGED <<loaded, items>>
    BY <1>4 DEF ClearBelow, cache
  <2>. QED  BY <1>1, <1>2, <1>3, <2>1, <2>2, EndedOwesNothing, IdleRecord, StillStep
<1>5. CASE ~Moved(p)
  <2>1. /\ call'[p].at = "rmdir" /\ Label(call'[p]) = "rmdir" /\ call'[p].path = d
        /\ call'[p].seen = NoListing /\ call'[p].gone = {}
        /\ \A r \in Process \ {p} : call'[r] = call[r]
    BY <1>0, <1>1, <1>5, AfterStep, NothingGone
  <2>2. Clear(d) /\ d \in Path
    BY <1>0, <1>1, <1>5, HeadOfStack DEF ClearBelow, InTree
  <2>3. AddInv'
    BY <1>0, <1>1, <1>3, <2>1, AddKept
  <2>4. ASSUME Good PROVE TrueInv'
    <3>1. \A q : Certain(q)' => Certain(q)
      BY <1>2, <1>3, <2>1, CertainBefore
    <3>. QED  BY <1>0, <1>3, <2>2, <2>4, <3>1, ClearedListings DEF Good, FSInv, CacheInv
  <2>5. Owed(p)'
    <3>1. ClearedFor(p)'
      BY <2>1, <2>2 DEF ClearedFor, Clear
    <3>2. SeenFor(p)' /\ UnlistedFor(p)' /\ ForgetFor(p)' /\ MadeFor(p)' /\ GoneFor(p)'
      BY <2>1, IdleRecord DEF SeenFor, UnlistedFor, ForgetFor, MadeFor, GoneFor
    <3>. QED  BY <3>1, <3>2 DEF Owed
  <2>6. CacheInv'
    BY <1>1, <1>3, <2>1, <2>4, <2>5, HolderKeeps DEF Inside
  <2>. QED  BY <2>3, <2>6
<1>. QED  BY <1>4, <1>5

LEMMA ClearPathKeeps ==
  ASSUME FSInv, TypeInv', NEW p \in Process, ClearPath(p)
  PROVE  AddInv' /\ CacheInv'
<1>. DEFINE d == call[p].path
<1>0. TypeInv /\ AddInv
  BY DEF FSInv
<1>1. call[p].at = "clear" /\ Label(call[p]) = "clear" /\ Ends(p)
  BY <1>0, ReturnStep, CurrentCall DEF ClearPath, Ends
<1>2. call'[p] = Idle /\ \A r \in Process \ {p} : call'[r] = call[r]
  BY <1>0, <1>1, AfterStep
<1>3. \A x : ~InFlux(call[p], x)
  BY <1>0, <1>1, NoFlux DEF FluxLabels, InTree
<1>4. UNCHANGED <<local, target, lockLost>> /\ doubt \subseteq doubt'
  BY DEF ClearPath, Clear, disk, locks
<1>5. AddInv'
  BY <1>0, <1>1, <1>2, <1>4, AddKept, IdleRecord
<1>6. ASSUME Good PROVE TrueInv'
  <2>1. \A q : Certain(q)' => Certain(q)
    BY <1>2, <1>3, <1>4, CertainBefore
  <2>2. TrueInv
    BY <1>6 DEF Good, FSInv, CacheInv
  <2>3. CASE Moved(p)
    <3>1. UNCHANGED <<loaded, items>>
      BY <2>3 DEF ClearPath, cache
    <3>. QED  BY <1>4, <2>1, <2>2, <3>1 DEF TrueInv, Exists
  <2>4. CASE ~Moved(p)
    <3>1. Clear(d) /\ d \in Dir
      BY <1>0, <1>1, <2>4, CurrentCall DEF ClearPath, Shape
    <3>. QED  BY <1>0, <1>4, <2>1, <2>2, <3>1, ClearedListings
  <2>. QED  BY <2>3, <2>4
<1>7. CacheInv'
  BY <1>1, <1>2, <1>4, <1>6, EndedOwesNothing, HolderKeeps DEF Inside
<1>. QED  BY <1>5, <1>7

LEMMA DestroyKeeps ==
  ASSUME FSInv, TypeInv', NEW p \in Process, Destroy(p)
  PROVE  AddInv' /\ CacheInv'
<1>0. TypeInv /\ AddInv
  BY DEF FSInv
<1>1. call[p].at = "destroy" /\ GoesTo(p, "rmcache")
  BY <1>0, DestroyStep
<1>2. /\ call'[p].at = "rmcache" /\ Label(call'[p]) = "rmcache"
      /\ \A r \in Process \ {p} : call'[r] = call[r]
  BY <1>0, <1>1, AfterStep
<1>3. UNCHANGED <<local, target, lockLost, doubt>> /\ loaded' = {}
  BY DEF Destroy, RemoveDatabase, disk, locks
<1>4. AddInv'
  BY <1>0, <1>1, <1>2, <1>3, AddKept
<1>5. TrueInv' /\ Owed(p)'
  BY <1>2, <1>3, OutsideOwesNothing DEF TrueInv, Inside
<1>6. CacheInv'
  BY <1>1, <1>2, <1>3, <1>5, HolderKeeps DEF Inside
<1>. QED  BY <1>4, <1>6

LEMMA RemoveCacheDirectoryKeeps ==
  ASSUME FSInv, TypeInv', NEW p \in Process, RemoveCacheDirectory(p)
  PROVE  AddInv' /\ CacheInv'
<1>0. TypeInv /\ AddInv
  BY DEF FSInv
<1>1. PICK late : CacheRemoved(p, late)
  BY <1>0, RemoveCacheDirectoryStep
<1>2. call'[p] = Idle /\ call[p].at = "rmcache" /\ loaded' = {} /\ UNCHANGED <<target, doubt>>
  BY <1>1 DEF CacheRemoved, RemoveDatabase, disk
<1>3. \A r \in Process \ {p} :
        /\ Label(call'[r]) = Label(call[r]) /\ call'[r].path = call[r].path
        /\ call[r].at = "rename" => call'[r].at = "rename"
  BY <1>0, <1>1, LateCalls
<1>4. AddInv'
  <2>. SUFFICES ASSUME NEW r \in Process, Label(call'[r]) = "add"
                PROVE  \/ call'[r].path \in target \cup doubt
                       \/ \E q \in Process : call'[q].at = "rename" /\ call'[q].path = call'[r].path
    BY <1>2 DEF AddInv
  <2>1. r # p
    BY <1>2, IdleRecord
  <2>2. \/ call[r].path \in target \cup doubt
        \/ \E q \in Process : call[q].at = "rename" /\ call[q].path = call[r].path
    BY <1>0, <1>3, <2>1 DEF AddInv
  <2>3. ASSUME NEW q \in Process, call[q].at = "rename" PROVE q # p
    BY <1>2, <2>3
  <2>. QED  BY <1>3, <2>1, <2>2, <2>3
<1>5. ASSUME ~lockLost' PROVE TrueInv' /\ \A r \in Process : Owed(r)'
  <2>1. TrueInv'
    BY <1>2 DEF TrueInv
  <2>2. late = {} /\ \A r \in Process : call[r].at \notin Inside
    BY <1>1, <1>5 DEF CacheRemoved
  <2>3. \A r \in Process : call'[r].at \notin Inside
    <3>1. \A r \in Process \ {p} : call'[r] = call[r]
      BY <1>0, <1>1, <2>2, LateCalls
    <3>. QED  BY <1>2, <2>2, <3>1, IdleRecord DEF Inside
  <2>. QED  BY <2>1, <2>3, OutsideOwesNothing
<1>. QED  BY <1>4, <1>5 DEF CacheInv

LEMMA RemoveDirectoryKeeps ==
  ASSUME FSInv, TypeInv', ClosedTarget', NEW p \in Process, RemoveDirectory(p)
  PROVE  AddInv' /\ CacheInv'
<1>. DEFINE d == Head(call[p].stack)
            found == Found(p, Parent[d])
            gone == {d} \cup Below(d)
<1>0. TypeInv /\ AddInv /\ ClosedTarget
  BY DEF FSInv
<1>1. /\ call[p].at = "rmdir" /\ Label(call[p]) = "rmdir"
      /\ IF found /\ local /\ d \notin target THEN Ends(p) ELSE GoesTo(p, "rmdirEntry")
  BY <1>0, RemoveDirectoryStep, CurrentCall
<1>2. d \in Path /\ (local => d = call[p].path)
  BY <1>0, <1>1, HeadOfStack DEF InTree
<1>3. /\ \A x : InFlux(call[p], x) <=> x \in call[p].gone
      /\ local => call[p].gone = {}
  BY <1>0, <1>1, FluxOf, NothingGone DEF FluxLabels
<1>4. /\ UNCHANGED <<local, loaded, items, lockLost, db>>
      /\ IF found /\ local
           THEN target' = target \ gone /\ doubt' = doubt \cup (gone \cap OthersChange(p))
           ELSE UNCHANGED <<target, doubt>>
  BY DEF RemoveDirectory, cache, handles, locks
<1>. HIDE DEF found
<1>5. CASE found /\ local /\ d \notin target
  <2>1. call'[p] = Idle /\ \A r \in Process \ {p} : call'[r] = call[r]
    BY <1>0, <1>1, <1>5, AfterStep
  <2>2. \A x \in target : x \notin gone
    <3>. SUFFICES ASSUME NEW x \in target, x \in Below(d) PROVE FALSE
      BY <1>5
    <3>1. d \in Above[x] /\ d # Top
      BY <1>2, ParentOf DEF Below
    <3>. QED  BY <1>0, <1>5, <3>1 DEF ClosedTarget, Closed
  <2>3. target' = target /\ doubt \subseteq doubt'
    BY <1>4, <1>5, <2>2
  <2>4. \A x : ~InFlux(call[p], x)
    BY <1>3, <1>5
  <2>. QED  BY <1>1, <1>4, <2>1, <2>3, <2>4, EndedOwesNothing, IdleRecord, StillStep
<1>6. CASE ~(found /\ local /\ d \notin target)
  <2>1. /\ call'[p].at = "rmdirEntry" /\ Label(call'[p]) = "rmdirEntry" /\ call'[p].path = call[p].path
        /\ call'[p].stack = call[p].stack /\ call'[p].seen = NoListing /\ call'[p].gone = call[p].gone
        /\ \A r \in Process \ {p} : call'[r] = call[r]
    BY <1>0, <1>1, <1>6, AfterStep
  <2>2. AddInv'
    <3>1. \A x \in OthersChange(p) : x \in target \cup doubt => x \in target' \cup doubt'
      BY <1>4
    <3>. QED  BY <1>0, <1>1, <2>1, <3>1, AddKept
  <2>3. InFlux(call'[p], d) /\ \A x : InFlux(call[p], x) => InFlux(call'[p], x)
    BY <1>3, <2>1 DEF InFlux
  <2>4. doubt \subseteq doubt'
    BY <1>4
  <2>5. ASSUME Good PROVE TrueInv'
    <3>0. TrueInv /\ ClearedFor(p)
      BY <2>5 DEF Good, FSInv, CacheInv, Owed
    <3>1. CASE ~(found /\ local)
      <4>1. \A q : (Exists(q)' <=> Exists(q))
        BY <1>4, <3>1 DEF Exists
      <4>. QED  BY <1>4, <2>1, <2>3, <2>4, <3>0, <4>1, ListingsStay
    <3>2. CASE found /\ local
      <4>. SUFFICES ASSUME NEW q \in Path, Parent[q] \in loaded, Certain(q)'
                    PROVE  /\ Exists(q)' => q \in items
                           /\ q \in items => Exists(q)' \/ (q \in Dir /\ ~local)
        BY <1>4 DEF TrueInv
      <4>1. q # d
        BY <2>3 DEF Certain
      <4>2. q \notin Below(d)
        BY <1>1, <1>2, <3>0, <3>2, BelowOf DEF ClearedFor
      <4>3. (Exists(q)' <=> q \in target') /\ (Exists(q) <=> q \in target)
        BY <1>0, <1>4, <3>2, LocalExists, LocalExistsThen
      <4>4. Exists(q)' <=> Exists(q)
        BY <1>4, <3>2, <4>1, <4>2, <4>3
      <4>5. Certain(q)
        BY <2>1, <2>3, <2>4, CertainBefore
      <4>. QED  BY <3>0, <4>4, <4>5 DEF TrueInv
    <3>. QED  BY <3>1, <3>2
  <2>6. ASSUME Good PROVE Owed(p)'
    <3>1. ClearedFor(p)'
      BY <1>1, <1>4, <2>1, <2>6 DEF Good, FSInv, CacheInv, Owed, ClearedFor
    <3>2. GoneFor(p)'
      BY <1>4, <2>1, <2>6 DEF Good, FSInv, CacheInv, Owed, GoneFor
    <3>. QED  BY <2>1, <3>1, <3>2, InTreeOwes, Records DEF InTree
  <2>7. CacheInv'
    BY <1>1, <1>4, <2>1, <2>5, <2>6, HolderKeeps DEF Inside
  <2>. QED  BY <2>2, <2>7
<1>. QED  BY <1>5, <1>6

LEMMA ForgetDirectoryKeeps ==
  ASSUME FSInv, TypeInv', NEW p \in Process, ForgetDirectory(p)
  PROVE  AddInv' /\ CacheInv'
<1>. DEFINE c == call[p]
            d == Head(c.stack)
            new == Rec(c.op, c.path, "visit", c.next, c.seen, Tail(c.stack), c.left, c.gone)
<1>0. TypeInv /\ AddInv
  BY DEF FSInv
<1>1. /\ c.at = "rmdirEntry" /\ Label(c) = "rmdirEntry" /\ d \in Dir /\ d \in Path
      /\ \/ Ends(p) /\ (EntryFails(p, d) \/ c.gone = {})
         \/ ~local /\ StepTo(p, new)
  BY <1>0, ForgetDirectoryStep, CurrentCall
<1>2. /\ \/ call'[p] = Idle /\ (EntryFails(p, d) \/ c.gone = {})
         \/ ~local /\ call'[p] = new
      /\ \A r \in Process \ {p} : call'[r] = call[r]
  BY <1>0, <1>1, AfterStep
<1>3. new.at = "visit" /\ Label(new) = "visit" /\ new.seen = c.seen /\ new.gone = c.gone
  BY DEF Rec, Label
<1>. HIDE DEF new
<1>4. c.seen.dir \notin Dir
  BY <1>0, <1>1, CurrentCall DEF Shape, Looking
<1>6. Label(call'[p]) # "add"
  BY <1>2, <1>3, IdleRecord
<1>8. /\ UNCHANGED <<local, target, loaded, lockLost>>
      /\ items' = IF ~Moved(p) /\ Parent[d] \in loaded THEN items \ {d} ELSE items
      /\ doubt' = doubt \cup (IF Moved(p) \/ Exists(d) THEN {d} ELSE {})
                       \cup (IF EntryFails(p, d) THEN c.gone ELSE {})
  BY DEF ForgetDirectory, RemoveEntry, disk, locks
<1>7. \A x : InFlux(call[p], x) => x = d \/ InFlux(call'[p], x) \/ x \in doubt'
  <2>. SUFFICES ASSUME NEW x \in c.gone PROVE InFlux(call'[p], x) \/ x \in doubt'
    BY <1>1 DEF InFlux
  <2>1. CASE call'[p] = new
    BY <1>3, <2>1 DEF InFlux
  <2>2. CASE EntryFails(p, d)
    BY <1>8, <2>2
  <2>. QED  BY <1>2, <2>1, <2>2
<1>5. ASSUME Good PROVE Owed(p)'
  <2>1. CASE call'[p] = new
    <3>1. GoneFor(p)'
      <4>1. items' \subseteq items
        BY <1>8
      <4>. QED  BY <1>3, <1>5, <1>8, <2>1, <4>1 DEF Good, FSInv, CacheInv, Owed, GoneFor
    <3>2. ClearedFor(p)'
      BY <1>3, <2>1 DEF ClearedFor
    <3>. QED  BY <1>3, <1>4, <2>1, <3>1, <3>2, InTreeOwes DEF InTree
  <2>. QED  BY <1>2, <2>1, EndedOwesNothing
<1>9. AddInv'
  <2>1. doubt \subseteq doubt'
    BY <1>8
  <2>. QED  BY <1>0, <1>1, <1>2, <1>6, <1>8, <2>1, AddKept
<1>10. ASSUME Good PROVE TrueInv'
  <2>. SUFFICES ASSUME NEW q \in Path, Parent[q] \in loaded, Certain(q)'
                PROVE  /\ Exists(q) => q \in items'
                       /\ q \in items' => Exists(q) \/ (q \in Dir /\ ~local)
    BY <1>8 DEF TrueInv, Exists
  <2>1. CASE q # d
    <3>1. Certain(q)
      <4>1. q \notin doubt' /\ \A r \in Process : ~InFlux(call'[r], q)
        BY DEF Certain
      <4>2. q \notin doubt
        BY <1>8, <4>1
      <4>3. \A r \in Process : ~InFlux(call[r], q)
        <5>1. \A r \in Process \ {p} : ~InFlux(call[r], q)
          BY <1>2, <4>1
        <5>2. ~InFlux(call[p], q)
          BY <1>7, <2>1, <4>1
        <5>. QED  BY <5>1, <5>2
      <4>. QED  BY <4>2, <4>3 DEF Certain
    <3>2. q \in items' <=> q \in items
      BY <1>8, <2>1
    <3>. QED  BY <1>10, <3>1, <3>2 DEF Good, FSInv, CacheInv, TrueInv
  <2>2. CASE q = d
    <3>1. ~Moved(p) /\ ~Exists(d)
      BY <1>8, <2>2 DEF Certain
    <3>2. d \notin items'
      BY <1>8, <2>2, <3>1
    <3>. QED  BY <2>2, <3>1, <3>2
  <2>. QED  BY <2>1, <2>2
<1>11. CacheInv'
  BY <1>1, <1>2, <1>5, <1>8, <1>10, HolderKeeps DEF Inside
<1>. QED  BY <1>9, <1>11

LEMMA SweepKeeps ==
  ASSUME FSInv, TypeInv', NEW p \in Process, Sweep(p)
  PROVE  AddInv' /\ CacheInv'
<1>. DEFINE c == call[p]
            left == c.left \cup ItemsIn(p, Head(c.stack))
            new == Rec(c.op, c.path, "visit", c.next, NoListing, c.stack, left, c.gone)
<1>0. TypeInv
  BY DEF FSInv
<1>1. c.at = "sweep" /\ Label(c) = "sweep" /\ StepTo(p, new)
  BY <1>0, SweepStep, CurrentCall
<1>2. call'[p] = new /\ \A r \in Process \ {p} : call'[r] = call[r]
  BY <1>0, <1>1, AfterStep
<1>. HIDE DEF left
<1>3. new.at = "visit" /\ Label(new) = "visit" /\ new.seen = NoListing /\ new.gone = c.gone
  BY DEF Rec, Label
<1>. HIDE DEF new
<1>4. \A x : InFlux(call[p], x) => InFlux(call'[p], x)
  BY <1>1, <1>2, <1>3, FluxOf DEF FluxLabels
<1>5. UNCHANGED <<local, target, loaded, items, lockLost, db, doubt>>
  BY DEF Sweep, disk, cache, handles, locks
<1>6. ASSUME ~lockLost PROVE Owed(p)'
  <2>1. GoneFor(p)' /\ ClearedFor(p)'
    BY <1>2, <1>3, <1>5, <1>6 DEF FSInv, CacheInv, Owed, GoneFor, ClearedFor
  <2>. QED  BY <1>2, <1>3, <2>1, InTreeOwes, Records DEF InTree
<1>. QED  BY <1>1, <1>2, <1>3, <1>4, <1>5, <1>6, StillStep

\* A file that leaves the listing is in flux until it is deleted.
LEMMA VisitKeeps ==
  ASSUME FSInv, TypeInv', NEW p \in Process, Visit(p)
  PROVE  AddInv' /\ CacheInv'
<1>. DEFINE c == call[p]
            d == Head(c.stack)
<1>0. TypeInv /\ AddInv
  BY DEF FSInv
<1>1. /\ c.at = "visit" /\ Label(c) = "visit" /\ ~local
      /\ \/ GoesTo(p, "deleting") /\ UNCHANGED <<items, doubt>>
         \/ /\ \E e \in Dir : \E left : StepTo(p, Rec(c.op, c.path, "sweep", c.next, c.seen, <<e>> \o c.stack, left, c.gone))
            /\ UNCHANGED <<items, doubt>>
         \/ Ends(p) /\ doubt' = doubt \cup c.gone /\ items' = items
         \/ \E f \in File :
              /\ f \in Path /\ Parent[f] = d /\ d \in loaded
              /\ \E left : StepTo(p, Rec(c.op, c.path, "visit", c.next, c.seen, c.stack, left, c.gone \cup {f}))
              /\ items' = items \ {f} /\ doubt' = doubt
  BY <1>0, VisitStep, CurrentCall
<1>2. \A x : InFlux(c, x) <=> x \in c.gone
  BY <1>1, FluxOf DEF FluxLabels
<1>3. UNCHANGED <<local, target, loaded, lockLost, db>>
  BY DEF Visit, disk, handles, locks
<1>4. c.seen.dir \notin Dir
  BY <1>0, <1>1, CurrentCall DEF Shape, Looking
<1>5. Good => GoneFor(p)
  BY DEF Good, FSInv, CacheInv, Owed
<1>6. ASSUME UNCHANGED <<items, doubt>>, call'[p].at \in {"sweep", "deleting"}, Label(call'[p]) = call'[p].at,
             call'[p].gone = c.gone, call'[p].seen.dir \notin Dir,
             \A r \in Process \ {p} : call'[r] = call[r]
      PROVE  AddInv' /\ CacheInv'
  <2>1. \A x : InFlux(call[p], x) => InFlux(call'[p], x)
    BY <1>2, <1>6 DEF InFlux
  <2>2. ASSUME ~lockLost PROVE Owed(p)'
    <3>1. GoneFor(p)' /\ ClearedFor(p)'
      BY <1>3, <1>5, <1>6, <2>2 DEF Good, GoneFor, ClearedFor
    <3>. QED  BY <1>6, <3>1, InTreeOwes DEF InTree
  <2>. QED  BY <1>1, <1>3, <1>6, <2>1, <2>2, StillStep
<1>7. CASE GoesTo(p, "deleting") /\ UNCHANGED <<items, doubt>>
  <2>1. /\ call'[p].at = "deleting" /\ Label(call'[p]) = "deleting" /\ call'[p].gone = c.gone
        /\ call'[p].seen = NoListing /\ \A r \in Process \ {p} : call'[r] = call[r]
    BY <1>0, <1>7, AfterStep
  <2>. QED  BY <1>6, <1>7, <2>1, Records
<1>8. ASSUME NEW e \in Dir, NEW left, UNCHANGED <<items, doubt>>,
             StepTo(p, Rec(c.op, c.path, "sweep", c.next, c.seen, <<e>> \o c.stack, left, c.gone))
      PROVE  AddInv' /\ CacheInv'
  <2>. DEFINE new == Rec(c.op, c.path, "sweep", c.next, c.seen, <<e>> \o c.stack, left, c.gone)
  <2>1. new.at = "sweep" /\ Label(new) = "sweep" /\ new.seen = c.seen /\ new.gone = c.gone
    BY DEF Rec, Label
  <2>2. StepTo(p, new)
    BY <1>8
  <2>. HIDE DEF new
  <2>3. call'[p] = new /\ \A r \in Process \ {p} : call'[r] = call[r]
    BY <1>0, <2>2, AfterStep
  <2>. QED  BY <1>4, <1>6, <1>8, <2>1, <2>3
<1>9. CASE Ends(p) /\ doubt' = doubt \cup c.gone /\ items' = items
  <2>1. call'[p] = Idle /\ \A r \in Process \ {p} : call'[r] = call[r]
    BY <1>0, <1>9, AfterStep
  <2>. QED  BY <1>1, <1>2, <1>3, <1>9, <2>1, EndedOwesNothing, IdleRecord, StillStep
<1>10. ASSUME NEW f \in File, f \in Path, Parent[f] = d, d \in loaded, NEW left,
              StepTo(p, Rec(c.op, c.path, "visit", c.next, c.seen, c.stack, left, c.gone \cup {f})),
              items' = items \ {f}, doubt' = doubt
       PROVE  AddInv' /\ CacheInv'
  <2>. DEFINE gone == c.gone \cup {f}
              new == Rec(c.op, c.path, "visit", c.next, c.seen, c.stack, left, gone)
  <2>1. new.at = "visit" /\ Label(new) = "visit" /\ new.seen = c.seen /\ new.gone = gone
    BY DEF Rec, Label
  <2>2. StepTo(p, new)
    BY <1>10
  <2>. HIDE DEF new
  <2>3. call'[p] = new /\ \A r \in Process \ {p} : call'[r] = call[r]
    BY <1>0, <2>2, AfterStep
  <2>4. InFlux(call'[p], f) /\ \A x : InFlux(call[p], x) => InFlux(call'[p], x)
    BY <1>2, <2>1, <2>3 DEF InFlux
  <2>5. AddInv'
    BY <1>0, <1>1, <1>3, <1>10, <2>1, <2>3, AddKept
  <2>6. ASSUME Good PROVE TrueInv'
    <3>. SUFFICES ASSUME NEW q \in Path, Parent[q] \in loaded, Certain(q)'
                  PROVE  /\ Exists(q) => q \in items'
                         /\ q \in items' => Exists(q) \/ (q \in Dir /\ ~local)
      BY <1>3 DEF TrueInv, Exists
    <3>1. q # f
      BY <2>4 DEF Certain
    <3>2. Certain(q)
      BY <1>10, <2>3, <2>4, CertainBefore
    <3>3. q \in items' <=> q \in items
      BY <1>10, <3>1
    <3>. QED  BY <2>6, <3>2, <3>3 DEF Good, FSInv, CacheInv, TrueInv
  <2>7. ASSUME Good PROVE Owed(p)'
    <3>1. GoneFor(p)'
      BY <1>3, <1>5, <1>10, <2>1, <2>3, <2>7 DEF GoneFor
    <3>2. ClearedFor(p)'
      BY <2>1, <2>3 DEF ClearedFor
    <3>. QED  BY <1>4, <2>1, <2>3, <3>1, <3>2, InTreeOwes DEF InTree
  <2>8. CacheInv'
    BY <1>1, <1>3, <2>3, <2>6, <2>7, HolderKeeps DEF Inside
  <2>. QED  BY <2>5, <2>8
<1>. QED  BY <1>1, <1>7, <1>8, <1>9, <1>10

\* What was to be deleted is gone, or in doubt.
LEMMA DeleteFilesKeeps ==
  ASSUME FSInv, TypeInv', ClosedTarget', NEW p \in Process, DeleteFiles(p)
  PROVE  AddInv' /\ CacheInv'
<1>. DEFINE c == call[p]
            found == c.gone \cap ChildrenOf(Head(c.stack))
            new == Rec(c.op, c.path, "rmdir", c.next, c.seen, c.stack, c.left, c.gone \ found)
<1>0. TypeInv /\ AddInv /\ ClosedTarget
  BY DEF FSInv
<1>1. c.at = "deleting" /\ Label(c) = "deleting" /\ ~local /\ StepTo(p, new)
  BY <1>0, DeleteFilesStep, CurrentCall
<1>2. call'[p] = new /\ \A r \in Process \ {p} : call'[r] = call[r]
  BY <1>0, <1>1, AfterStep
<1>4. PICK failed \in SUBSET found :
        /\ target' = target \ (found \ failed)
        /\ doubt' = doubt \cup failed \cup (found \cap OthersChange(p))
  BY DEF DeleteFiles
<1>3. found \subseteq File /\ found \subseteq c.gone
  BY <1>0, CurrentCall DEF CallRecord
<1>. HIDE DEF found
<1>11. new.at = "rmdir" /\ Label(new) = "rmdir" /\ new.seen = c.seen /\ new.gone = c.gone \ found
  BY DEF Rec, Label
<1>. HIDE DEF new
<1>5. UNCHANGED <<local, loaded, items, lockLost>>
  BY DEF DeleteFiles, cache, locks
<1>6. \A x : InFlux(call[p], x) => x \in found \/ InFlux(call'[p], x)
  BY <1>1, <1>2, <1>11, FluxOf DEF FluxLabels, InFlux
<1>7. AddInv'
  <2>1. \A x \in OthersChange(p) : x \in target \cup doubt => x \in target' \cup doubt'
    BY <1>4
  <2>. QED  BY <1>0, <1>1, <1>2, <1>11, <2>1, AddKept
<1>8. ASSUME Good PROVE TrueInv'
  <2>. SUFFICES ASSUME NEW q \in Path, Parent[q] \in loaded, Certain(q)'
                PROVE  /\ Exists(q)' => q \in items
                       /\ q \in items => Exists(q)' \/ (q \in Dir /\ ~local)
    BY <1>5 DEF TrueInv
  <2>0. TrueInv /\ GoneFor(p)
    BY <1>8 DEF Good, FSInv, CacheInv, Owed
  <2>1. q \notin doubt' /\ \A r \in Process : ~InFlux(call'[r], q)
    BY DEF Certain
  <2>2. CASE q \in found
    <3>1. q \in found \ failed
      BY <1>4, <2>1, <2>2
    <3>2. ~Exists(q)'
      BY <1>0, <1>3, <1>4, <1>5, <3>1, WithoutFiles
    <3>. QED  BY <1>3, <2>0, <2>2, <3>2 DEF GoneFor
  <2>3. CASE q \notin found
    <3>1. q \notin doubt /\ \A r \in Process : ~InFlux(call[r], q)
      BY <1>2, <1>4, <1>6, <2>1, <2>3
    <3>2. Certain(q)
      BY <3>1 DEF Certain
    <3>3. (Exists(q)' <=> Exists(q)) \/ (~local /\ q \in Dir /\ (Exists(q)' => Exists(q)))
      BY <1>0, <1>3, <1>4, <1>5, <2>3, WithoutFiles
    <3>. QED  BY <2>0, <3>2, <3>3 DEF TrueInv
  <2>. QED  BY <2>2, <2>3
<1>9. ASSUME Good PROVE Owed(p)'
  <2>1. GoneFor(p)' /\ ClearedFor(p)'
    BY <1>1, <1>2, <1>5, <1>9, <1>11 DEF Good, FSInv, CacheInv, Owed, GoneFor, ClearedFor
  <2>2. c.seen.dir \notin Dir
    BY <1>0, <1>1, CurrentCall DEF Shape, Looking
  <2>. QED  BY <1>2, <1>11, <2>1, <2>2, InTreeOwes DEF InTree
<1>10. CacheInv'
  BY <1>1, <1>2, <1>5, <1>8, <1>9, HolderKeeps DEF Inside
<1>. QED  BY <1>7, <1>10

(***************************************************************************)
(* Steps without the lock: the file is written, and put in the place of    *)
(* another; and requests that fail.                                        *)
(***************************************************************************)
LEMMA PathsCome ==
  ASSUME FSInv, TypeInv', NEW p \in Process, \A r \in Process \ {p} : call'[r] = call[r],
         UNCHANGED <<local, loaded, items, lockLost, db>>, NEW N \in SUBSET Path,
         target' = target \cup N, doubt \cup NewUnlisted(target') \subseteq doubt',
         \A f \in N \cap File : f \in target \/ f \in doubt' \/ InFlux(call'[p], f),
         \A x : InFlux(call[p], x) => InFlux(call'[p], x) \/ x \in doubt',
         call[p].at = "rename" => call[p].path \in target' \cup doubt', Owed(p)',
         Label(call'[p]) = "add" => call'[p].path \in target'
  PROVE  AddInv' /\ CacheInv'
<1>0. TypeInv /\ AddInv
  BY DEF FSInv
<1>1. /\ target \subseteq target'
      /\ \A f \in File : f \in target' => f \in target \/ f \in doubt' \/ InFlux(call'[p], f)
  OBVIOUS
<1>2. AddInv'
  BY <1>0, <1>1, AddKept
<1>3. ASSUME NEW q \in Path, Certain(q)' PROVE (Exists(q)' <=> Exists(q)) \/ (Exists(q)' /\ Appeared(q))
  <2>1. q \notin doubt' /\ ~InFlux(call'[p], q) /\ q \notin NewUnlisted(target')
    BY <1>3 DEF Certain
  <2>2. Exists(q)' <=> ExistsIn(target', q)
    BY DEF Exists
  <2>3. Exists(q) => Exists(q)'
    BY <1>1, <2>2 DEF Exists, ExistsIn
  <2>. SUFFICES ASSUME ExistsIn(target', q), ~Exists(q) PROVE Appeared(q)
    BY <2>2, <2>3
  <2>4. q \notin File
    <3>. SUFFICES ASSUME q \in File PROVE FALSE
      OBVIOUS
    <3>1. q \in target' /\ q \notin target
      BY FileExists DEF Exists
    <3>. QED  BY <1>1, <2>1, <3>1
  <2>5. q \in Dir \ {Top}
    BY <2>4 DEF Path
  <2>. QED  BY <2>1, <2>5 DEF NewUnlisted, Appeared
<1>4. ASSUME ~lockLost PROVE TrueInv' /\ \A r \in Process : Owed(r)'
  <2>1. TrueInv /\ \A r \in Process : Owed(r)
    BY <1>4 DEF FSInv, CacheInv
  <2>2. TrueInv'
    BY <1>3, <2>1, ListingsStay
  <2>3. \A r \in Process \ {p} : Owed(r)'
    BY <1>0, <1>1, <1>3, <2>1, OthersKeep
  <2>. QED  BY <2>2, <2>3
<1>. QED  BY <1>2, <1>4 DEF CacheInv

LEMMA LocalFileChanges ==
  ASSUME FSInv, TypeInv', ClosedTarget', NEW p \in Process,
         \A r \in Process \ {p} : call'[r] = call[r], local,
         UNCHANGED <<local, loaded, items, lockLost, db, doubt>>, NEW f \in File,
         \A x : x # f => (x \in target' <=> x \in target),
         InFlux(call'[p], f), \A x : InFlux(call[p], x) => x = f, Owed(p)'
  PROVE  CacheInv'
<1>. SUFFICES ASSUME ~lockLost PROVE TrueInv' /\ \A r \in Process : Owed(r)'
  BY DEF CacheInv
<1>0. TypeInv /\ ClosedTarget /\ TrueInv /\ \A r \in Process : Owed(r)
  BY DEF FSInv, CacheInv
<1>1. ASSUME NEW q \in Path, Certain(q)' PROVE Exists(q)' <=> Exists(q)
  <2>1. q # f
    BY <1>1 DEF Certain
  <2>2. (Exists(q)' <=> q \in target') /\ (Exists(q) <=> q \in target)
    BY <1>0, LocalExists, LocalExistsThen
  <2>. QED  BY <2>1, <2>2
<1>2. \A x : InFlux(call[p], x) => InFlux(call'[p], x)
  OBVIOUS
<1>3. TrueInv'
  BY <1>0, <1>1, <1>2, ListingsStay
<1>4. /\ \A g \in File : g \in target' => g \in target \/ InFlux(call'[p], g)
      /\ \A d \in Dir : d \in target => d \in target'
  BY TreeAssumption
<1>5. \A r \in Process \ {p} : Owed(r)'
  BY <1>0, <1>1, <1>2, <1>4, OthersKeep
<1>. QED  BY <1>3, <1>5

LEMMA WriteKeeps ==
  ASSUME FSInv, TypeInv', ClosedTarget', NEW p \in Process, Write(p)
  PROVE  AddInv' /\ CacheInv'
<1>. DEFINE f == call[p].path
            N == IF local THEN WithParents(f) ELSE {f}
<1>0. TypeInv /\ AddInv
  BY DEF FSInv
<1>1. /\ call[p].at = "write" /\ Label(call[p]) = "write"
      /\ IF local /\ f \in target THEN GoesTo(p, "rename") ELSE AsksFor(p, "add")
  BY <1>0, WriteStep, CurrentCall
<1>2. f \in File
  BY <1>0, <1>1, FileInHand
<1>3. \A x : ~InFlux(call[p], x)
  BY <1>0, <1>1, NoFlux DEF FluxLabels, InTree
<1>4. UNCHANGED <<local, loaded, items, lockLost, db>>
  BY DEF Write, cache, handles, locks
<1>5. CASE local /\ f \in target
  <2>1. target' = target \ {f} /\ doubt' = doubt
    BY <1>5 DEF Write
  <2>2. /\ call'[p].at = "rename" /\ Label(call'[p]) = "rename" /\ call'[p].path = f
        /\ \A r \in Process \ {p} : call'[r] = call[r]
    BY <1>0, <1>1, <1>5, AfterStep
  <2>3. InFlux(call'[p], f)
    BY <2>2 DEF InFlux
  <2>4. Owed(p)'
    BY <2>2, OutsideOwesNothing DEF Inside
  <2>5. AddInv'
    <3>1. \A x \in OthersChange(p) :
            x \in target \cup doubt =>
              x \in target' \cup doubt' \/ (call'[p].at = "rename" /\ call'[p].path = x)
      BY <2>1, <2>2
    <3>. QED  BY <1>0, <1>1, <2>2, <3>1, AddKept
  <2>6. CacheInv'
    BY <1>2, <1>3, <1>4, <1>5, <2>1, <2>2, <2>3, <2>4, LocalFileChanges
  <2>. QED  BY <2>5, <2>6
<1>6. CASE ~(local /\ f \in target)
  <2>1. target' = target \cup N /\ doubt' = doubt \cup NewUnlisted(target')
    BY <1>6 DEF Write
  <2>5. N \subseteq Path /\ N \cap File \subseteq {f} /\ f \in N
    BY <1>2, AboveOf, TreeAssumption DEF WithParents, Path
  <2>. HIDE DEF N
  <2>2. /\ call'[p].at = "asking" /\ Label(call'[p]) = "add" /\ call'[p].path = f
        /\ \A r \in Process \ {p} : call'[r] = call[r]
    BY <1>0, <1>1, <1>6, AfterStep
  <2>3. InFlux(call'[p], f)
    BY <2>2 DEF InFlux
  <2>4. Owed(p)'
    BY <2>2, OutsideOwesNothing DEF Inside
  <2>. QED  BY <1>1, <1>3, <1>4, <2>1, <2>2, <2>3, <2>4, <2>5, PathsCome
<1>. QED  BY <1>5, <1>6

LEMMA RenameKeeps ==
  ASSUME FSInv, TypeInv', ClosedTarget', NEW p \in Process, Rename(p)
  PROVE  AddInv' /\ CacheInv'
<1>. DEFINE f == call[p].path
<1>0. TypeInv /\ AddInv
  BY DEF FSInv
<1>1. /\ call[p].at = "rename" /\ Label(call[p]) = "rename"
      /\ IF Parent[f] \in target \cup {Top} THEN AsksFor(p, "add") ELSE Ends(p)
  BY <1>0, RenameStep, CurrentCall
<1>2. f \in File /\ local
  BY <1>0, <1>1, FileInHand
<1>3. \A x : InFlux(call[p], x) => x = f
  BY <1>0, <1>1, FileInHand DEF InFlux
<1>4. UNCHANGED <<local, loaded, items, lockLost, db>>
  BY DEF Rename, cache, handles, locks
<1>5. CASE Parent[f] \in target \cup {Top}
  <2>1. target' = target \cup {f} /\ doubt' = doubt
    BY <1>5 DEF Rename
  <2>2. /\ call'[p].at = "asking" /\ Label(call'[p]) = "add" /\ call'[p].path = f
        /\ \A r \in Process \ {p} : call'[r] = call[r]
    BY <1>0, <1>1, <1>5, AfterStep
  <2>3. InFlux(call'[p], f)
    BY <2>2 DEF InFlux
  <2>4. Owed(p)'
    BY <2>2, OutsideOwesNothing DEF Inside
  <2>5. AddInv'
    BY <1>0, <2>1, <2>2, AddKept
  <2>6. CacheInv'
    BY <1>2, <1>3, <1>4, <2>1, <2>2, <2>3, <2>4, LocalFileChanges
  <2>. QED  BY <2>5, <2>6
<1>6. CASE Parent[f] \notin target \cup {Top}
  <2>1. target' = target /\ doubt' = doubt \cup {f}
    BY <1>6 DEF Rename
  <2>2. call'[p] = Idle /\ \A r \in Process \ {p} : call'[r] = call[r]
    BY <1>0, <1>1, <1>6, AfterStep
  <2>. QED  BY <1>3, <1>4, <2>1, <2>2, EndedOwesNothing, IdleRecord, StillStep
<1>. QED  BY <1>5, <1>6

\* What a request that fails leaves: all as it was, more, or less.
LEMMA LeftKinds ==
  ASSUME TypeInv, NEW p \in Process, NEW new \in LeftAtTarget(p)
  PROVE  LET q == call[p].path
             at == call[p].at IN
         \/ new = target
         \/ /\ at \in {"mkdir", "write", "rename"}
            /\ \E N \in SUBSET Path : new = target \cup N /\ N \cap File \subseteq {q}
         \/ at = "unlink" /\ q \in File /\ new = target \ {q}
         \/ /\ at = "rmdir" /\ local
            /\ \E part \in SUBSET Below(Head(call[p].stack)) : new = target \ part
<1>. DEFINE q == call[p].path
            at == call[p].at
<1>1. ASSUME NEW e \in Path, NEW x \in WithParents(e)
      PROVE  WithParents(x) \subseteq Path /\ WithParents(x) \cap File \subseteq {e}
  BY <1>1, AboveOf, TreeAssumption DEF WithParents, Path
<1>2. at \in {"mkdir", "write", "rename", "unlink", "rmdir"} \/ new = target
  BY DEF LeftAtTarget
<1>3. CASE new # target /\ at \in {"mkdir", "write", "rename", "unlink"}
  <2>1. Label(call[p]) = at
    BY <1>3, CurrentCall
  <2>2. q \in File /\ q \in Path /\ (at = "mkdir" => Parent[q] \in Path /\ Parent[q] \in Dir)
    BY <1>3, <2>1, FileInHand
  <2>3. CASE at = "mkdir"
    <3>1. PICK x \in WithParents(Parent[q]) : new = target \cup WithParents(x)
      BY <1>3, <2>3 DEF LeftAtTarget
    <3>2. WithParents(x) \subseteq Path /\ WithParents(x) \cap File \subseteq {Parent[q]}
      BY <1>1, <2>2, <2>3, <3>1
    <3>3. WithParents(x) \cap File \subseteq {q}
      BY <2>2, <2>3, <3>2, TreeAssumption
    <3>. QED  BY <2>3, <3>1, <3>2, <3>3
  <2>4. CASE at = "write" /\ local
    <3>1. PICK x \in WithParents(q) : new = target \cup WithParents(x)
      BY <1>3, <2>4 DEF LeftAtTarget
    <3>. QED  BY <1>1, <2>2, <2>4, <3>1
  <2>5. CASE (at = "write" /\ ~local) \/ at = "rename"
    <3>1. new = target \cup {q}
      BY <1>3, <2>5 DEF LeftAtTarget
    <3>. QED  BY <2>2, <2>5, <3>1
  <2>6. CASE at = "unlink"
    <3>1. new = target \ {q}
      BY <1>3, <2>6 DEF LeftAtTarget
    <3>. QED  BY <2>2, <2>6, <3>1
  <2>. QED  BY <1>3, <2>3, <2>4, <2>5, <2>6
<1>4. CASE new # target /\ at = "rmdir"
  BY <1>4 DEF LeftAtTarget
<1>. QED  BY <1>2, <1>3, <1>4

LEMMA FailRequestKeeps ==
  ASSUME FSInv, TypeInv', ClosedTarget', NEW p \in Process, FailRequest(p)
  PROVE  AddInv' /\ CacheInv'
<1>. DEFINE c == call[p]
            q == c.path
            at == c.at
<1>0. TypeInv /\ AddInv /\ ClosedTarget
  BY DEF FSInv
<1>1. Ends(p)
  BY <1>0, ReturnStep DEF FailRequest, Ends
<1>2. call'[p] = Idle /\ \A r \in Process \ {p} : call'[r] = call[r]
  BY <1>0, <1>1, AfterStep
<1>3. Owed(p)' /\ Label(call'[p]) # "add"
  BY <1>2, EndedOwesNothing, IdleRecord
<1>4. at \in {"fresh", "mkdir", "write", "rename", "unlink", "rmdir"} \cup Looking
  BY DEF FailRequest
<1>5. Label(c) = at /\ at \notin FluxLabels \ {"rename"}
  BY <1>0, <1>4, CurrentCall DEF FluxLabels, Looking
<1>6. UNCHANGED <<local, loaded, items, lockLost, db>>
  BY DEF FailRequest, cache, handles, locks
<1>7. /\ target' \in LeftAtTarget(p)
      /\ doubt' = doubt \cup c.gone \cup NewUnlisted(target')
                   \cup ((target \ target') \cap OthersChange(p))
                   \cup (IF at = "rename" \/ (q \in target') # (q \in target) THEN {q} ELSE {})
  BY DEF FailRequest
<1>8. doubt \subseteq doubt' /\ c.gone \subseteq doubt' /\ (at = "rename" => q \in doubt')
  BY <1>7
<1>9. \A x : InFlux(c, x) => x \in doubt'
  BY <1>5, <1>8 DEF InFlux, FluxLabels
<1>10. AddInv'
  <2>1. \A x \in OthersChange(p) : x \in target \cup doubt => x \in target' \cup doubt'
    BY <1>7
  <2>. QED  BY <1>0, <1>2, <1>3, <1>8, <2>1, AddKept
<1>11. CASE target' = target
  BY <1>2, <1>3, <1>6, <1>8, <1>9, <1>11, StillStep
<1>12. ASSUME NEW N \in SUBSET Path, target' = target \cup N, N \cap File \subseteq {q}
       PROVE  CacheInv'
  <2>1. \A f \in N \cap File : f \in target \/ f \in doubt'
    BY <1>7, <1>12
  <2>2. doubt \cup NewUnlisted(target') \subseteq doubt'
    BY <1>7
  <2>. QED  BY <1>2, <1>3, <1>6, <1>8, <1>9, <1>12, <2>1, <2>2, PathsCome
<1>13. CASE at = "unlink" /\ q \in File /\ target' = target \ {q}
  <2>1. ASSUME Good PROVE TrueInv'
    <3>1. ASSUME NEW x \in Path, Certain(x)'
          PROVE  (Exists(x)' <=> Exists(x)) \/ (~local /\ x \in Dir /\ (Exists(x)' => Exists(x)))
      <4>1. CASE x = q /\ q \in target
        <5>1. q \in doubt'
          BY <1>7, <1>13, <4>1
        <5>. QED  BY <3>1, <4>1, <5>1 DEF Certain
      <4>2. CASE q \notin target
        <5>1. target' = target
          BY <1>13, <4>2
        <5>. QED  BY <5>1 DEF Exists
      <4>3. CASE x # q
        <5>1. {q} \in SUBSET File /\ x \notin {q} /\ local' = local
          BY <1>6, <1>13, <4>3
        <5>. QED  BY <1>0, <1>13, <5>1, WithoutFiles
      <4>. QED  BY <4>1, <4>2, <4>3
    <3>2. TrueInv
      BY <2>1 DEF Good, FSInv, CacheInv
    <3>. QED  BY <1>2, <1>6, <1>8, <1>9, <3>1, <3>2, ListingsStay
  <2>2. call[p].at \in Inside /\ lockLost' = lockLost
    BY <1>6, <1>13 DEF Inside
  <2>. QED  BY <1>2, <1>3, <1>10, <2>1, <2>2, HolderKeeps
<1>14. ASSUME at = "rmdir", local, NEW part \in SUBSET Below(Head(c.stack)), target' = target \ part
       PROVE  CacheInv'
  <2>1. Head(c.stack) = q /\ q \in Path
    BY <1>0, <1>5, <1>14, HeadOfStack DEF InTree
  <2>2. ASSUME Good PROVE TrueInv'
    <3>. SUFFICES ASSUME NEW x \in Path, Parent[x] \in loaded, Certain(x)'
                  PROVE  /\ Exists(x)' => x \in items
                         /\ x \in items => Exists(x)' \/ (x \in Dir /\ ~local)
      BY <1>6 DEF TrueInv
    <3>1. TrueInv /\ loaded \cap ({q} \cup Below(q)) = {}
      BY <1>5, <1>14, <2>2 DEF Good, FSInv, CacheInv, Owed, ClearedFor
    <3>2. x \notin Below(q)
      BY <2>1, <3>1, BelowOf
    <3>3. (Exists(x)' <=> x \in target') /\ (Exists(x) <=> x \in target)
      BY <1>0, <1>6, <1>14, LocalExists, LocalExistsThen
    <3>4. Exists(x)' <=> Exists(x)
      BY <1>14, <2>1, <3>2, <3>3
    <3>5. Certain(x)
      BY <1>2, <1>8, <1>9, CertainBefore
    <3>. QED  BY <3>1, <3>4, <3>5 DEF TrueInv
  <2>. QED  BY <1>2, <1>3, <1>6, <1>14, <2>2, HolderKeeps DEF Inside
<1>. QED  BY <1>0, <1>7, <1>10, <1>11, <1>12, <1>13, <1>14, LeftKinds

(***************************************************************************)
(* The theorems.                                                           *)
(***************************************************************************)
LEMMA NextInv == FSInv /\ [Next]_vars => FSInv'
<1>. SUFFICES ASSUME FSInv, [Next]_vars PROVE FSInv'
  OBVIOUS
<1>1. TypeInv' /\ ClosedTarget' /\ LockInv'
  BY NextTypes, NextClosed, NextLock DEF FSInv
<1>. SUFFICES AddInv' /\ CacheInv'
  BY <1>1 DEF FSInv
<1>2. ASSUME NEW p \in Process, Call(p) \/ Enter(p) \/ FailRequest(p) \/ Crash(p)
      PROVE  AddInv' /\ CacheInv'
  BY <1>1, <1>2, CallKeeps, EnterKeeps, FailRequestKeeps, CrashKeeps
<1>3. ASSUME NEW p \in Process, Look(p) PROVE AddInv' /\ CacheInv'
  BY <1>1, <1>3, ListTargetKeeps, StoreListingKeeps, LookedKeeps DEF Look
<1>4. ASSUME NEW p \in Process, Create(p) PROVE AddInv' /\ CacheInv'
  BY <1>1, <1>4, LookedKeeps, MakeDirectoryKeeps, EnterDirectoryKeeps, WriteKeeps, RenameKeeps,
     EnterFileKeeps DEF Create
<1>5. ASSUME NEW p \in Process, Remove(p) PROVE AddInv' /\ CacheInv'
  BY <1>1, <1>5, LookedKeeps, UnlinkFileKeeps, ForgetFileKeeps, ClearBelowKeeps,
     RemoveDirectoryKeeps, ForgetDirectoryKeeps, SweepKeeps, VisitKeeps, DeleteFilesKeeps DEF Remove
<1>6. ASSUME NEW p \in Process, ClearCache(p) PROVE AddInv' /\ CacheInv'
  BY <1>1, <1>6, ClearPathKeeps, DestroyKeeps, RemoveCacheDirectoryKeeps DEF ClearCache
<1>7. CASE UNCHANGED vars
  <2>1. UNCHANGED <<local, target, loaded, items, db, lockLost, call, doubt>>
    BY <1>7 DEF vars, disk, cache, handles, locks
  <2>2. AddInv'
    BY <2>1 DEF FSInv, AddInv
  <2>3. \A q : (Certain(q)' <=> Certain(q)) /\ (Exists(q)' <=> Exists(q))
    BY <2>1 DEF Certain, Exists
  <2>4. TrueInv => TrueInv'
    BY <2>1, <2>3 DEF TrueInv
  <2>5. \A p \in Process : Owed(p) => Owed(p)'
    BY <2>1, <2>3
       DEF Owed, SeenFor, UnlistedFor, ForgetFor, MadeFor, GoneFor, ClearedFor, Moved
  <2>. QED  BY <2>1, <2>2, <2>4, <2>5 DEF FSInv, CacheInv
<1>. QED  BY <1>2, <1>3, <1>4, <1>5, <1>6, <1>7 DEF Next, Step

LEMMA Invariant == Spec => []FSInv
  BY InitInv, NextInv, PTL DEF Spec

\* FlockFile excludes: until clearAllCachedData removes the lock file from under
\* a process, no two processes are in the critical sections of RemoteFS.
OneHolder ==
  ~lockLost =>
    \A p, q \in Process : call[p].at \in Inside /\ call[q].at \in Inside => p = q

THEOREM LockExcludes == Spec => []OneHolder
<1>1. FSInv => OneHolder
  BY DEF FSInv, LockInv, OneHolder
<1>. QED  BY <1>1, Invariant, PTL

\* Until the lock file is removed from under a process, a listing in the
\* database of TargetItemsDB has what is at the target, and no more, however
\* many processes write, list and remove, except for paths that someone is
\* changing or that the code leaves in doubt.
THEOREM ListingsTellTheTruth == Spec => []ListingsAreTrue
<1>1. FSInv => ListingsAreTrue
  <2>. SUFFICES ASSUME FSInv, ~lockLost, NEW d \in loaded, NEW q \in ChildrenOf(d), Safe(q)
                PROVE  /\ Exists(q) => q \in items
                       /\ q \in items => Exists(q) \/ (q \in Dir /\ ~local)
    BY DEF ListingsAreTrue
  <2>1. TypeInv /\ TrueInv
    BY DEF FSInv, CacheInv
  <2>2. q \in Path /\ Parent[q] = d
    BY DEF ChildrenOf
  <2>3. Certain(q)
    BY <2>1, FluxIsChanging DEF Safe, Certain
  <2>. QED  BY <2>1, <2>2, <2>3 DEF TrueInv
<1>. QED  BY <1>1, Invariant, PTL

\* Where a path is not certain, it is in doubt or another is changing it.
LEMMA Uncertain ==
  ASSUME TypeInv, NEW p \in Process, NEW q, ~Certain(q), ~InFlux(call[p], q)
  PROVE  q \in doubt \/ q \in OthersChange(p)
<1>. SUFFICES ASSUME NEW r \in Process, InFlux(call[r], q) PROVE q \in OthersChange(p)
  BY DEF Certain
<1>1. r # p /\ q \in Changing(r)
  BY FluxIsChanging
<1>. QED  BY <1>1 DEF OthersChange

\* removeItemAtPath reports that it removed a path, or that there was nothing to
\* remove, only when the path is gone, unless another process is changing it, it
\* is in doubt, or the process has lost its lock or its database.
THEOREM WhatIsRemovedIsGone == Spec => RemovalIsReal
<1>1. ASSUME FSInv, NEW p \in Process, RemovalSucceeds(p)
      PROVE  LET q == call[p].path IN
             \/ ~Exists(q) \/ lockLost \/ Moved(p)
             \/ q \in doubt \cup OthersChange(p)
  <2>. DEFINE q == call[p].path
  <2>. SUFFICES ASSUME ~lockLost, ~Moved(p), Exists(q)
                PROVE  q \in doubt \/ q \in OthersChange(p)
    OBVIOUS
  <2>1. TypeInv /\ TrueInv /\ Owed(p)
    BY <1>1 DEF FSInv, CacheInv
  <2>2. CASE NothingToRemove(p)
    <3>1. call[p].at = "self" /\ Label(call[p]) = "self" /\ Looked(p) /\ ~Found(p, q)
      BY <2>1, <2>2, CurrentCall DEF NothingToRemove
    <3>2. q \in Path /\ q # Top /\ Parent[q] \in Dir
      BY <2>1, <3>1, CurrentCall, ParentOf DEF Shape
    <3>3. Sought(p) = q /\ Needed(p) = Parent[q]
      BY <2>1, <3>1, NeededIs DEF Looking
    <3>4. Known(p, Parent[q]) /\ q \notin ItemsIn(p, Parent[q])
      BY <3>1, <3>2, <3>3 DEF Looked, Found
    <3>5. ~Certain(q)
      <4>1. CASE Parent[q] \in loaded
        <5>1. q \notin items
          BY <3>2, <3>4, <4>1 DEF ItemsIn, LoadedFor, ItemsFor, ChildrenOf
        <5>. QED  BY <2>1, <3>2, <4>1, <5>1 DEF TrueInv
      <4>2. CASE Parent[q] \notin loaded
        <5>1. call[p].seen.dir = Parent[q] /\ q \notin call[p].seen.items
          BY <3>4, <4>2 DEF Known, LoadedFor, ItemsIn
        <5>2. q \in ChildrenOf(call[p].seen.dir)
          BY <3>2, <5>1 DEF ChildrenOf
        <5>. QED  BY <2>1, <3>2, <4>2, <5>1, <5>2 DEF Owed, SeenFor
      <4>. QED  BY <4>1, <4>2
    <3>6. ~InFlux(call[p], q)
      BY <2>1, <3>1, NoFlux DEF FluxLabels, InTree
    <3>. QED  BY <2>1, <3>5, <3>6, Uncertain
  <2>3. CASE ForgetFile(p)
    <3>1. call[p].at = "forget" /\ Label(call[p]) = "forget"
      BY <2>1, <2>3, CurrentCall DEF ForgetFile
    <3>2. q \in File
      BY <2>1, <3>1, FileInHand
    <3>3. q \in target
      BY <3>2, FileExists DEF Exists
    <3>4. q \in doubt \/ \E r \in Process \ {p} : InFlux(call[r], q)
      BY <2>1, <3>1, <3>3 DEF Owed, ForgetFor
    <3>. QED  BY <2>1, <3>4, FluxIsChanging DEF OthersChange
  <2>. QED  BY <1>1, <2>2, <2>3 DEF RemovalSucceeds
<1>2. FSInv => \A p \in Process :
        RemovalSucceeds(p) =>
          LET q == call[p].path IN
          \/ ~Exists(q) \/ lockLost \/ Moved(p)
          \/ q \in doubt \cup OthersChange(p)
  BY <1>1
<1>. QED  BY <1>2, Invariant, PTL DEF RemovalIsReal
=============================================================================
