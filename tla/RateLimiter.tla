----------------------------- MODULE RateLimiter -----------------------------
(***************************************************************************)
(* RateLimiter: one token bucket for each key, made by whoever asks first.  *)
(* A bucket is named by the request that made it.  One token is added at    *)
(* every tick of the clock, up to Tokens: a tick is interval/tokens.        *)
(*                                                                         *)
(* External: golang.org/x/time/rate.  A bucket holds its tokens, which may  *)
(* be negative, and the time of the latest event it granted or promised.    *)
(***************************************************************************)
EXTENDS ApiBase

CONSTANTS
    Keys,        \* tenant-scoped connection ids
    Tokens       \* burst: tests allowed at once

ASSUME LimiterAssumption == Tokens \in Nat \ {0} /\ MaxTime \in Nat

VARIABLES limiters, buckets

limiterVars == <<limiters, buckets>>

LimiterInit ==
    /\ limiters = [k \in Keys |-> None]
    /\ buckets = [r \in Requests |-> [tokens |-> Tokens, last |-> 0]]

(* External: what the passing of one tick adds to a bucket. *)
Refilled(b) == [b EXCEPT !.tokens = IF @ < Tokens THEN @ + 1 ELSE @]
Refill == buckets' = [r \in Requests |-> Refilled(buckets[r])]

(* Mutation: a request that loses the race keeps the bucket it made. *)
AlwaysOwn(k, r) == r

(* getLimiter: a bucket that is there is used, and of two requests that     *)
(* found none the first to store its own decides for both.                  *)
Load(k) == limiters[k]
LoadOrStore(k, r) ==
    limiters' = [limiters EXCEPT ![k] = IF @ = None THEN r ELSE @]
Stored(k, r) == IF limiters[k] = None THEN r ELSE limiters[k]

(* External: Allow grants a token that is there, and only that. *)
Allows(b) == buckets[b].tokens >= 1
Allow(b) == buckets' = [buckets EXCEPT ![b] = [tokens |-> @.tokens - 1, last |-> now]]

(* External: Reserve takes a token, be it one that will be there only later, *)
(* and says when.                                                           *)
TimeToAct(b) == IF buckets[b].tokens >= 1 THEN now ELSE now + (1 - buckets[b].tokens)
Reserve(b) ==
    buckets' = [buckets EXCEPT ![b] = [tokens |-> @.tokens - 1, last |-> TimeToAct(b)]]

(* External: Cancel gives the token back, unless its time has passed (and   *)
(* within a tick it may have) or a later reservation was counted from it.   *)
Cancel(b, at) ==
    LET restore == 1 - (buckets[b].last - at) IN
    \/ (at <= now \/ restore <= 0) /\ UNCHANGED buckets
    \/ /\ at >= now /\ restore > 0
       /\ buckets' = [buckets EXCEPT ![b] =
            [tokens |-> IF @.tokens + restore > Tokens THEN Tokens ELSE @.tokens + restore,
             last |-> IF at = @.last /\ at - 1 >= now THEN at - 1 ELSE @.last]]

=============================================================================
