--------------------------- MODULE PublishContract ---------------------------
(***************************************************************************)
(* What a publish promises its caller: success means that the broker has    *)
(* the message; after an error the broker may have it all the same, once    *)
(* per attempt at most.  CreateFetcherJob relies on exactly this.           *)
(***************************************************************************)
EXTENDS Naturals

CONSTANTS Producers, MaxPublishAttempts

VARIABLES
    call,   \* each producer's call: idle, calling, ok or error
    copies  \* copies of its message the broker took

Init ==
    /\ call = [p \in Producers |-> "idle"]
    /\ copies = [p \in Producers |-> 0]

Begin(p) ==
    /\ call[p] = "idle"
    /\ \E next \in {"calling", "error"} : call' = [call EXCEPT ![p] = next]
    /\ UNCHANGED copies

Take(p) ==
    /\ call[p] = "calling"
    /\ copies[p] < MaxPublishAttempts
    /\ copies' = [copies EXCEPT ![p] = copies[p] + 1]
    /\ UNCHANGED call

End(p) ==
    /\ call[p] = "calling"
    /\ \/ copies[p] > 0 /\ call' = [call EXCEPT ![p] = "ok"]
       \/ call' = [call EXCEPT ![p] = "error"]
    /\ UNCHANGED copies

Next == \E p \in Producers : Begin(p) \/ Take(p) \/ End(p)

Spec == Init /\ [][Next]_<<call, copies>>
=============================================================================
