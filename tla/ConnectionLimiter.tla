------------------------- MODULE ConnectionLimiter -------------------------
(***************************************************************************)
(* The connection coordinator of backend/pkg/streaming: a non-blocking     *)
(* counter of upstream connections per provider pool.  A start attempt     *)
(* either gets a lease at once or is refused; the lease is given back      *)
(* exactly once, however often Release is called on it.                    *)
(*                                                                         *)
(* The limit is not a property of the pool: every attempt carries the one  *)
(* of the source it starts, and the pool remembers the last.  A limit may  *)
(* therefore drop below the number of leases that are out.                 *)
(*                                                                         *)
(* A definition named Operation_Flaw is Operation with a plausible bug; no *)
(* specification uses it.  Substituted for Operation it must break one of  *)
(* the properties, which shows that the property depends on the code.      *)
(***************************************************************************)
EXTENDS Integers, FiniteSets

CONSTANTS
    Pools,      \* provider pools (PoolID # 0)
    Leases,     \* identities of the leases that may be out at one time
    MaxLimit,   \* largest ConnectionLimit a playlist is configured with
    NoPool      \* PoolID = 0: a source of no playlist, never limited

ASSUME PoolAssumption == NoPool \notin Pools
ASSUME LeaseAssumption == IsFiniteSet(Leases)
ASSUME LimitAssumption == MaxLimit \in Nat \ {0}

VARIABLES
    known,      \* the keys of coordinator.pools
    active,     \* pool.active, 0 for a pool that has no entry
    limit,      \* pool.limit, 0 for a pool that has no entry
    lease       \* the leases handed out

vars == <<known, active, limit, lease>>

-----------------------------------------------------------------------------

(* A normal start reserves nothing, a prewarm leaves one connection unused. *)
Reserves == {0, 1}

(* No lease, or one that has been released. *)
Unused == [held |-> FALSE, pool |-> NoPool, reserve |-> 0]
Held(p, r) == [held |-> TRUE, pool |-> p, reserve |-> r]

HeldOn(p) == {l \in Leases : lease[l].held /\ lease[l].pool = p}
PrewarmedOn(p) == {l \in HeldOn(p) : lease[l].reserve = 1}

(* A limit below one counts as one. *)
Effective(configured) == IF configured < 1 THEN 1 ELSE configured

(* How many connections an attempt with this reserve may occupy. *)
Usable(bound, reserve) == IF bound > reserve THEN bound - reserve ELSE 0

HasCapacity(p, configured) ==
    \/ p = NoPool
    \/ p \notin known
    \/ active[p] < Effective(configured)

Init ==
    /\ known = {}
    /\ active = [p \in Pools |-> 0]
    /\ limit = [p \in Pools |-> 0]
    /\ lease = [l \in Leases |-> Unused]

AcquireUnpooled(l) ==
    /\ ~lease[l].held
    /\ lease' = [lease EXCEPT ![l] = Held(NoPool, 0)]
    /\ UNCHANGED <<known, active, limit>>

(* Every attempt on a pool records its limit, granted or not. *)
Touch(p, configured) ==
    /\ known' = known \cup {p}
    /\ limit' = [limit EXCEPT ![p] = Effective(configured)]

Grant(l, p, configured, reserve) ==
    /\ ~lease[l].held
    /\ active[p] < Usable(Effective(configured), reserve)
    /\ Touch(p, configured)
    /\ active' = [active EXCEPT ![p] = @ + 1]
    /\ lease' = [lease EXCEPT ![l] = Held(p, reserve)]

Refuse(p, configured, reserve) ==
    /\ active[p] >= Usable(Effective(configured), reserve)
    /\ Touch(p, configured)
    /\ UNCHANGED <<active, lease>>

GiveBack_ForgetsCount(p) ==
    /\ active' = [active EXCEPT ![p] = 0]
    /\ known' = known \ {p}
    /\ limit' = [limit EXCEPT ![p] = 0]

(* coordinator.release: an empty pool loses its entry. *)
GiveBack(p) ==
    /\ active' = [active EXCEPT ![p] = IF @ > 0 THEN @ - 1 ELSE @]
    /\ known' = IF active[p] = 1 THEN known \ {p} ELSE known
    /\ limit' = IF active[p] = 1 THEN [limit EXCEPT ![p] = 0] ELSE limit

(* lease.Release: sync.Once makes the second and later calls no-ops. *)
Release(l) ==
    \/ /\ lease[l].held
       /\ lease' = [lease EXCEPT ![l] = Unused]
       /\ IF lease[l].pool = NoPool THEN UNCHANGED <<known, active, limit>>
                                    ELSE GiveBack(lease[l].pool)
    \/ /\ ~lease[l].held
       /\ UNCHANGED vars

Next ==
    \/ \E l \in Leases : AcquireUnpooled(l)
    \/ \E l \in Leases, p \in Pools, c \in 0..MaxLimit, r \in Reserves :
          Grant(l, p, c, r)
    \/ \E p \in Pools, c \in 0..MaxLimit, r \in Reserves : Refuse(p, c, r)
    \/ \E l \in Leases : Release(l)

Spec == Init /\ [][Next]_vars

-----------------------------------------------------------------------------

(* Type invariant. *)
TypeOK ==
    /\ known \in SUBSET Pools
    /\ active \in [Pools -> Nat]
    /\ limit \in [Pools -> 0..MaxLimit]
    /\ lease \in [Leases -> [held: BOOLEAN, pool: Pools \cup {NoPool},
                             reserve: Reserves]]

(* The counter of a pool is the number of leases that are out on it: none  *)
(* is lost by a double Release, a refusal or a pool entry being recreated. *)
CountsLeases == \A p \in Pools : active[p] = Cardinality(HeldOn(p))

(* A pool that has leases out has an entry, so that usage() reports it and *)
(* a later attempt counts from the leases that are out.                    *)
BusyPoolsKnown == \A p \in Pools : HeldOn(p) # {} => p \in known

(* However the configured limit moves, a pool never has more connections   *)
(* open than the largest limit it was ever given.                          *)
WithinLargestLimit == \A p \in Pools : Cardinality(HeldOn(p)) <= MaxLimit

(* Prewarmed channels never occupy every slot of a provider: one stays for *)
(* an actual tune (the comment of acquirePrewarm).                         *)
PrewarmLeavesRoom == \A p \in Pools : Cardinality(PrewarmedOn(p)) < MaxLimit

(* A lease is only granted inside the limit of the attempt that asks, less *)
(* its reserve, counting every lease that is out at that moment.           *)
GrantsWithinBudget ==
    [][\A l \in Leases, p \in Pools :
          (l \notin HeldOn(p) /\ l \in HeldOn(p)')
             => Cardinality(HeldOn(p)') <= limit'[p] - lease'[l].reserve]_vars

=============================================================================
