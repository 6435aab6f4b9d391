----------------------------- MODULE Tree_proofs -----------------------------
(***************************************************************************)
(* What is above a node of a tree.  Ancestors is a least set rather than a *)
(* recursive function, so that these facts need no induction; where one is *)
(* needed, IsTree provides it.                                             *)
(***************************************************************************)
EXTENDS Tree, TLAPS

\* The root has no ancestors.
LEMMA NothingAboveRoot ==
  ASSUME NEW parent, NEW p, p \notin DOMAIN parent
  PROVE  Ancestors(parent, p) = {}
<1>1. ClosedAbove(parent, p, {})
  BY DEF ClosedAbove
<1>. QED  BY <1>1 DEF Ancestors

LEMMA AncestorsClosed ==
  ASSUME NEW parent, NEW p
  PROVE  /\ p \in DOMAIN parent => parent[p] \in Ancestors(parent, p)
         /\ \A e \in Ancestors(parent, p) : e \in DOMAIN parent => parent[e] \in Ancestors(parent, p)
         /\ Ancestors(parent, p) \subseteq Inner(parent)
BY DEF Ancestors, ClosedAbove, Inner

\* It is the least such set.
LEMMA AncestorsLeast ==
  ASSUME NEW parent, NEW p, NEW up \in SUBSET Inner(parent), ClosedAbove(parent, p, up)
  PROVE  Ancestors(parent, p) \subseteq up
BY DEF Ancestors

\* What is above a node is its parent and what is above that.
LEMMA AncestorsUnfold ==
  ASSUME NEW parent, NEW p \in DOMAIN parent
  PROVE  Ancestors(parent, p) = {parent[p]} \cup Ancestors(parent, parent[p])
<1>. DEFINE up == {parent[p]} \cup Ancestors(parent, parent[p])
<1>1. up \in SUBSET Inner(parent)
  BY AncestorsClosed DEF Inner
<1>2. ClosedAbove(parent, p, up)
  BY AncestorsClosed DEF ClosedAbove
<1>3. Ancestors(parent, p) \subseteq up
  BY <1>1, <1>2, AncestorsLeast
<1>4. parent[p] \in Ancestors(parent, p)
  BY AncestorsClosed
<1>5. ClosedAbove(parent, parent[p], Ancestors(parent, p))
  BY <1>4, AncestorsClosed DEF ClosedAbove
<1>6. Ancestors(parent, parent[p]) \subseteq Ancestors(parent, p)
  BY <1>5, AncestorsClosed, AncestorsLeast
<1>. QED  BY <1>3, <1>4, <1>6

\* Above is transitive.
LEMMA AncestorsOfAncestor ==
  ASSUME NEW parent, NEW p, NEW e \in Ancestors(parent, p)
  PROVE  Ancestors(parent, e) \subseteq Ancestors(parent, p)
<1>1. ClosedAbove(parent, e, Ancestors(parent, p))
  BY AncestorsClosed DEF ClosedAbove
<1>. QED  BY <1>1, AncestorsClosed, AncestorsLeast

\* A node that is above p has a child on the way to p.
LEMMA WayDown ==
  ASSUME NEW parent, NEW p, NEW d \in Ancestors(parent, p)
  PROVE  \E c \in DOMAIN parent : parent[c] = d /\ (c = p \/ c \in Ancestors(parent, p))
<1>. SUFFICES ASSUME \A c \in DOMAIN parent :
                       c = p \/ c \in Ancestors(parent, p) => parent[c] # d
              PROVE  FALSE
  OBVIOUS
<1>. DEFINE up == Ancestors(parent, p) \ {d}
<1>1. up \in SUBSET Inner(parent)
  BY AncestorsClosed
<1>2. ClosedAbove(parent, p, up)
  BY AncestorsClosed DEF ClosedAbove
<1>. QED  BY <1>1, <1>2, AncestorsLeast

\* In a tree no node is above itself.
LEMMA NoCycle ==
  ASSUME NEW parent, NEW root, IsTree(parent, root)
  PROVE  \A p \in DOMAIN parent : p \notin Ancestors(parent, p)
<1>. DEFINE seen == {p \in DOMAIN parent \cup {root} : p \notin Ancestors(parent, p)}
<1>1. root \in seen
  BY NothingAboveRoot DEF IsTree
<1>2. ASSUME NEW p \in DOMAIN parent, parent[p] \in seen
      PROVE  p \in seen
  <2>. SUFFICES ASSUME p \in Ancestors(parent, p) PROVE FALSE
    OBVIOUS
  <2>1. p = parent[p] \/ p \in Ancestors(parent, parent[p])
    BY AncestorsUnfold
  <2>2. p # parent[p]
    BY <1>2
  <2>3. Ancestors(parent, p) \subseteq Ancestors(parent, parent[p])
    BY <2>1, <2>2, AncestorsOfAncestor
  <2>4. parent[p] \in Ancestors(parent, parent[p])
    BY <2>3, AncestorsClosed
  <2>. QED  BY <1>2, <2>4
<1>3. DOMAIN parent \subseteq seen
  BY <1>1, <1>2 DEF IsTree
<1>. QED  BY <1>3

\* The root is above every other node.
LEMMA RootIsAbove ==
  ASSUME NEW parent, NEW root, IsTree(parent, root)
  PROVE  \A p \in DOMAIN parent : root \in Ancestors(parent, p)
<1>. DEFINE seen == {p \in DOMAIN parent \cup {root} : p = root \/ root \in Ancestors(parent, p)}
<1>1. \A p \in DOMAIN parent : parent[p] \in seen => p \in seen
  BY AncestorsUnfold
<1>2. DOMAIN parent \subseteq seen
  BY <1>1 DEF IsTree
<1>. QED  BY <1>2 DEF IsTree

\* Two siblings are not both on the way to one node.
LEMMA OneWayDown ==
  ASSUME NEW parent, NEW root, IsTree(parent, root)
  PROVE  \A p \in DOMAIN parent \cup {root} : \A a, b \in DOMAIN parent :
           /\ parent[a] = parent[b]
           /\ a = p \/ a \in Ancestors(parent, p)
           /\ b = p \/ b \in Ancestors(parent, p)
           => a = b
<1>. DEFINE OnWay(c, p) == c = p \/ c \in Ancestors(parent, p)
            One(p) == \A a, b \in DOMAIN parent :
                        parent[a] = parent[b] /\ OnWay(a, p) /\ OnWay(b, p) => a = b
            seen == {p \in DOMAIN parent \cup {root} : One(p)}
<1>1. root \in seen
  BY NothingAboveRoot DEF IsTree
<1>2. ASSUME NEW p \in DOMAIN parent, parent[p] \in seen
      PROVE  p \in seen
  <2>1. \A c : OnWay(c, p) <=> c = p \/ OnWay(c, parent[p])
    BY AncestorsUnfold
  <2>2. ASSUME NEW c \in DOMAIN parent, parent[c] = parent[p], OnWay(c, parent[p])
        PROVE  FALSE
    <3>1. parent[c] \in Ancestors(parent, c)
      BY AncestorsClosed
    <3>2. parent[p] \in Ancestors(parent, parent[p])
      BY <2>2, <3>1, AncestorsOfAncestor
    <3>3. parent[p] \in DOMAIN parent
      BY <3>2, NothingAboveRoot
    <3>. QED  BY <3>2, <3>3, NoCycle
  <2>3. One(parent[p])
    BY <1>2
  <2>. QED  BY <2>1, <2>2, <2>3
<1>3. DOMAIN parent \subseteq seen
  BY <1>1, <1>2 DEF IsTree
<1>. QED  BY <1>1, <1>3
=============================================================================
