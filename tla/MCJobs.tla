------------------------------- MODULE MCJobs -------------------------------
(***************************************************************************)
(* Small instances of JobLifecycle: every request has the same hash.  The   *)
(* more requests a behaviour has, the fewer failures it may suffer.         *)
(***************************************************************************)
EXTENDS JobLifecycle, FiniteSets, TLC

CONSTANT TheHash

MCHashes      == {TheHash}
MCRequestHash == [j \in Jobs |-> TheHash]

FaultsWith == <<3, 1, 0>>  \* failures with one, two and three requests

Budget ==
    LET requests == Cardinality({r \in Jobs : mpc[r] # "idle"})
    IN  requests > 0 => faults <= FaultsWith[requests]

BudgetNext == Next /\ Budget'
BudgetSpec == Init /\ [][BudgetNext]_vars

Symmetry == Permutations(Jobs) \cup Permutations(Workers)
=============================================================================
