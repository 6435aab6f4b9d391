------------------------------ MODULE WorkPool ------------------------------
(***************************************************************************)
(* What the worker threads of a restore promise, whatever their number and *)
(* their schedule: every piece of work is taken at most once, taking a     *)
(* piece of work may uncover the pieces below it, and the restore is       *)
(* closed only when nothing is left, unless it was told to stop.           *)
(***************************************************************************)
CONSTANTS
  Item,     \* the pieces of work
  First,    \* the piece the restore starts with
  Below     \* Below[i], a subset of Item: the pieces that taking i uncovers

VARIABLES
  pool,     \* uncovered and not yet taken
  taken,    \* taken by some worker
  stopped,  \* told to stop: what is left may be left
  closed    \* the restore is over

vars == <<pool, taken, stopped, closed>>

Init ==
  /\ pool = {First}
  /\ taken = {}
  /\ stopped = FALSE
  /\ closed = FALSE

\* A worker takes i. What is below i is uncovered, or cannot be read and is
\* lost with i.
Take(i) ==
  /\ ~closed
  /\ i \in pool \ taken
  /\ taken' = taken \cup {i}
  /\ pool' \in {pool \ {i}, (pool \ {i}) \cup Below[i]}
  /\ UNCHANGED <<stopped, closed>>

Stop ==
  /\ ~closed
  /\ stopped' = TRUE
  /\ UNCHANGED <<pool, taken, closed>>

Close ==
  /\ ~closed
  /\ stopped' \in {stopped, TRUE}
  /\ pool = {} \/ stopped'
  /\ closed' = TRUE
  /\ UNCHANGED <<pool, taken>>

Next ==
  \/ \E i \in Item : Take(i)
  \/ Stop
  \/ Close

Spec == Init /\ [][Next]_vars
=============================================================================
