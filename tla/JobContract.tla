---------------------------- MODULE JobContract -----------------------------
(***************************************************************************)
(* What the services promise of a job, whoever runs them: it is accepted    *)
(* once while no job for the same request is active, it ends at most once,  *)
(* and the only terminal event announced for it is that of its end.         *)
(***************************************************************************)
CONSTANTS Jobs, RequestHash

VARIABLES
    state,     \* the status of each job
    announced  \* the terminal events announced

Active   == {"pending", "processing"}
Terminal == {"completed", "failed"}

Init ==
    /\ state = [j \in Jobs |-> "absent"]
    /\ announced = {}

Accept(j) ==
    /\ state[j] = "absent"
    /\ \A k \in Jobs : RequestHash[k] = RequestHash[j] => state[k] \notin Active
    /\ state' = [state EXCEPT ![j] = "pending"]
    /\ UNCHANGED announced

Start(j) ==
    /\ state[j] = "pending"
    /\ state' = [state EXCEPT ![j] = "processing"]
    /\ UNCHANGED announced

Finish(j) ==
    /\ state[j] \in Active
    /\ \E s \in Terminal : state' = [state EXCEPT ![j] = s]
    /\ UNCHANGED announced

Announce(j) ==
    /\ state[j] \in Terminal
    /\ announced' = announced \cup {<<j, state[j]>>}
    /\ UNCHANGED state

Next == \E j \in Jobs : Accept(j) \/ Start(j) \/ Finish(j) \/ Announce(j)

Spec == Init /\ [][Next]_<<state, announced>>
=============================================================================
