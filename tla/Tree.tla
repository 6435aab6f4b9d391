--------------------------------- MODULE Tree ---------------------------------
(***************************************************************************)
(* Trees as functions: parent[p] is the node above p, and the root is      *)
(* outside the function's domain.                                          *)
(***************************************************************************)

Inner(parent) == {parent[p] : p \in DOMAIN parent}

\* The set up has what is above p and, with a node, what is above that.
ClosedAbove(parent, p, up) ==
  /\ p \in DOMAIN parent => parent[p] \in up
  /\ \A e \in up \cap DOMAIN parent : parent[e] \in up

Ancestors(parent, p) ==
  {d \in Inner(parent) :
     \A up \in SUBSET Inner(parent) : ClosedAbove(parent, p, up) => d \in up}

\* Going down from the root one comes to every node.
IsTree(parent, root) ==
  /\ root \notin DOMAIN parent
  /\ \A seen \in SUBSET (DOMAIN parent \cup {root}) :
       /\ root \in seen
       /\ \A p \in DOMAIN parent : parent[p] \in seen => p \in seen
       => DOMAIN parent \subseteq seen
=============================================================================
