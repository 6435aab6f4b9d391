----------------------------- MODULE MCPackSet ------------------------------
(***************************************************************************)
(* A restore and a backup agent that use one pack set.                     *)
(***************************************************************************)
EXTENDS PackSet, TLC

CONSTANTS restore, agent, good, bad, new, t1, t2

TwoProcs == {restore, agent}
TwoThreads == {t1, t2}
OnePack == {{good, bad}}
BothRead == [p \in TwoProcs |-> {good}]
AgentPuts == restore :> {} @@ agent :> {new}
BothDelete == [p \in TwoProcs |-> {bad}]
=============================================================================
