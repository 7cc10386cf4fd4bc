------------------------------- MODULE ApiBase -------------------------------
(***************************************************************************)
(* What the components behind the Manager's connection API share: requests  *)
(* in flight, tenants, config names, the clock and the budget of faults.    *)
(***************************************************************************)
EXTENDS Integers

CONSTANTS
    Requests,    \* requests in flight at the same time
    Tenants,
    Ids,         \* connection ids that will ever exist
    Names,       \* config names
    None,
    MaxTime,     \* bound: ticks of the clock
    MaxFaults    \* bound: calls that fail

VARIABLES now, faults

Fails == faults < MaxFaults /\ faults' = faults + 1
Works == UNCHANGED faults

=============================================================================
