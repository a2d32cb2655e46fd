----------------------------- MODULE RateBudget -----------------------------
(***************************************************************************)
(* The token buckets of backend/pkg/middleware/rate_limit.go: a request    *)
(* spends its cost in the bucket of its network, address, account, session *)
(* and media credential, or in none of them.  The clock is read before the *)
(* lock is taken, so a request may spend at an earlier moment than the one *)
(* before it.  stream_admission.go spends from buckets of the same kind.   *)
(***************************************************************************)
EXTENDS Integers, FiniteSets

CONSTANTS
    Keys,         \* bucket keys
    Classes,      \* the sets of keys a request may be charged to
    Capacity,     \* capacity of a key's bucket
    PerTick,      \* refill of a key's bucket in a unit of time
    Costs,        \* what requests may cost
    Spenders,     \* requests in flight
    MaxBuckets,   \* bound of the map
    Idle,         \* age at which a bucket may go when the map is full
    MaxClock      \* bound on time

ASSUME RateAssumption ==
    /\ Classes \subseteq SUBSET Keys
    /\ Capacity \in [Keys -> Nat] /\ PerTick \in [Keys -> Nat]
    /\ Costs \subseteq Nat

VARIABLES
    clock,
    bucket,    \* limiter.buckets; present tells whether the key is in the map
    spender,   \* requests between reading the clock and taking the lock
    ledger     \* history: what was spent from a bucket, and when it was made

rvars == <<clock, bucket, spender, ledger>>

NoBucket == [present |-> FALSE, tokens |-> 0, updated |-> 0, seen |-> 0]
AtRest == [waiting |-> FALSE, at |-> 0]

RateInit ==
    /\ clock = 0
    /\ bucket = [k \in Keys |-> NoBucket]
    /\ spender = [r \in Spenders |-> AtRest]
    /\ ledger = [k \in Keys |-> [spent |-> 0, born |-> 0]]

Least(a, b) == IF a <= b THEN a ELSE b

Present(b) == {k \in Keys : b[k].present}
Full(b) == Cardinality(Present(b)) >= MaxBuckets

\* Every bucket not seen for long, and if that is not enough the oldest one.
WithoutIdle(b, now) ==
    [k \in Keys |-> IF b[k].present /\ now - b[k].seen > Idle THEN NoBucket ELSE b[k]]

Oldest(b) == {k \in Present(b) : \A j \in Present(b) : b[k].seen <= b[j].seen}

Pruned(b, now) == IF Full(b) THEN WithoutIdle(b, now) ELSE b

Evictions(b, now) ==
    LET kept == Pruned(b, now) IN
    IF Full(kept) THEN {[kept EXCEPT ![k] = NoBucket] : k \in Oldest(kept)} ELSE {kept}

Refilled_Twice(b, k, now) ==
    IF b[k].present
    THEN [b[k] EXCEPT !.tokens = Least(Capacity[k], b[k].tokens + (now - b[k].updated) * PerTick[k]), !.seen = now]
    ELSE [present |-> TRUE, tokens |-> Capacity[k], updated |-> now, seen |-> now]

\* The bucket of a key at this moment; a key that is not in the map has a full one.
Refilled(b, k, now) ==
    IF b[k].present
    THEN [b[k] EXCEPT !.tokens = Least(Capacity[k], b[k].tokens + (now - b[k].updated) * PerTick[k]),
                      !.updated = now, !.seen = now]
    ELSE [present |-> TRUE, tokens |-> Capacity[k], updated |-> now, seen |-> now]

ReadClock(r) ==
    /\ ~spender[r].waiting
    /\ spender' = [spender EXCEPT ![r] = [waiting |-> TRUE, at |-> clock]]
    /\ UNCHANGED <<clock, bucket, ledger>>

\* All of the buckets are refilled, and charged when every one has the cost.
Consume(r, keys, cost) ==
    /\ spender[r].waiting
    /\ \E kept \in Evictions(bucket, spender[r].at) :
          LET now == spender[r].at
              full == [k \in keys |-> Refilled(kept, k, now)]
              paid == IF \A k \in keys : full[k].tokens >= cost THEN cost ELSE 0
          IN /\ bucket' = [k \in Keys |-> IF k \in keys
                                          THEN [full[k] EXCEPT !.tokens = @ - paid] ELSE kept[k]]
             /\ ledger' = [k \in Keys |->
                   IF k \notin keys THEN ledger[k]
                   ELSE IF kept[k].present THEN [ledger[k] EXCEPT !.spent = @ + paid]
                   ELSE [spent |-> paid, born |-> now]]
    /\ spender' = [spender EXCEPT ![r] = AtRest]
    /\ UNCHANGED clock

ClockTicks ==
    /\ clock < MaxClock
    /\ clock' = clock + 1
    /\ UNCHANGED <<bucket, spender, ledger>>

RateNext ==
    \/ \E r \in Spenders : ReadClock(r)
    \/ \E r \in Spenders, keys \in Classes, cost \in Costs : Consume(r, keys, cost)
    \/ ClockTicks

RateSpec == RateInit /\ [][RateNext]_rvars

-----------------------------------------------------------------------------
(* From no bucket is more spent than its capacity and what flowed in since *)
(* it was made, whatever other dimensions refused, however often it was    *)
(* looked at and in whatever order requests got the lock.                  *)
SpentWithinBudget ==
    \A k \in Keys : bucket[k].present =>
        ledger[k].spent <= Capacity[k] + (clock - ledger[k].born) * PerTick[k]

=============================================================================
