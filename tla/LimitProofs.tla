----------------------------- MODULE LimitProofs -----------------------------
(***************************************************************************)
(* Safety of what bounds the load: the connection coordinator              *)
(* (ConnectionLimiter), the token buckets (RateBudget), the gate in front  *)
(* of new streams (StreamAdmission) and sign-in protection (LoginThrottle).*)
(***************************************************************************)
EXTENDS ConnectionLimiter, RateBudget, StreamAdmission, LoginThrottle, FilteringProofs,
        FiniteSetTheorems, SequenceTheorems, TLAPS

-----------------------------------------------------------------------------
(***************************************************************************)
(* Safety of the connection coordinator for every set of pools, every      *)
(* finite set of leases and every largest limit.                           *)
(*                                                                         *)
(* The inductive invariant is Inv: the type invariant, the bookkeeping     *)
(* (counter = leases out, busy pools have an entry) and the two bounds.    *)
(* The bounds need the bookkeeping: the code compares the counter with     *)
(* the limit, the bounds speak of the leases.                              *)
(***************************************************************************)

Inv ==
    /\ TypeOK
    /\ CountsLeases
    /\ BusyPoolsKnown
    /\ WithinLargestLimit
    /\ PrewarmLeavesRoom

-----------------------------------------------------------------------------

(* The leases on a pool, and the prewarmed ones among them, are finite. *)
LEMMA HeldFinite ==
    ASSUME NEW p \in Pools
    PROVE  /\ IsFiniteSet(HeldOn(p)) /\ IsFiniteSet(HeldOn(p)')
           /\ IsFiniteSet(PrewarmedOn(p)) /\ IsFiniteSet(PrewarmedOn(p)')
           /\ Cardinality(HeldOn(p)) \in Nat /\ Cardinality(HeldOn(p)') \in Nat
           /\ Cardinality(PrewarmedOn(p)) \in Nat
           /\ Cardinality(PrewarmedOn(p)') \in Nat
  <1>1. /\ HeldOn(p) \subseteq Leases /\ HeldOn(p)' \subseteq Leases
        /\ PrewarmedOn(p) \subseteq Leases /\ PrewarmedOn(p)' \subseteq Leases
    BY DEF HeldOn, PrewarmedOn
  <1>2. /\ IsFiniteSet(HeldOn(p)) /\ IsFiniteSet(HeldOn(p)')
        /\ IsFiniteSet(PrewarmedOn(p)) /\ IsFiniteSet(PrewarmedOn(p)')
    BY <1>1, LeaseAssumption, FS_Subset
  <1>. QED  BY <1>2, FS_CardinalityType

(* What an attempt may occupy never exceeds its limit less its reserve. *)
LEMMA UsableBound ==
    ASSUME NEW c \in 0..MaxLimit, NEW r \in Reserves
    PROVE  /\ Effective(c) \in 1..MaxLimit
           /\ Usable(Effective(c), r) \in 0..MaxLimit
           /\ Usable(Effective(c), r) <= Effective(c) - r
  BY LimitAssumption DEF Effective, Usable, Reserves

(* A state with the same leases has the same leases on every pool. *)
LEMMA SameLeases ==
    ASSUME UNCHANGED lease
    PROVE  \A p \in Pools : HeldOn(p)' = HeldOn(p) /\ PrewarmedOn(p)' = PrewarmedOn(p)
  BY DEF HeldOn, PrewarmedOn

(* A grant adds exactly the granted lease, to exactly the pool asked for. *)
LEMMA GrantAddsOne ==
    ASSUME Inv, NEW l \in Leases, NEW p \in Pools, NEW c \in 0..MaxLimit,
           NEW r \in Reserves, Grant(l, p, c, r)
    PROVE  /\ Cardinality(HeldOn(p)') = Cardinality(HeldOn(p)) + 1
           /\ HeldOn(p)' = HeldOn(p) \cup {l}
           /\ r = 0 => PrewarmedOn(p)' = PrewarmedOn(p)
           /\ \A q \in Pools \ {p} : /\ HeldOn(q)' = HeldOn(q)
                                     /\ PrewarmedOn(q)' = PrewarmedOn(q)
  <1>1. /\ lease' = [lease EXCEPT ![l] = Held(p, r)]
        /\ ~lease[l].held
        /\ lease \in [Leases -> [held: BOOLEAN, pool: Pools \cup {NoPool},
                                 reserve: Reserves]]
    BY DEF Grant, Inv, TypeOK
  <1>2. l \notin HeldOn(p)
    BY <1>1 DEF HeldOn
  <1>3. HeldOn(p)' = HeldOn(p) \cup {l}
    BY <1>1 DEF HeldOn, Held
  <1>4. r = 0 => PrewarmedOn(p)' = PrewarmedOn(p)
    BY <1>1, <1>2, <1>3 DEF PrewarmedOn, HeldOn, Held
  <1>5. \A q \in Pools \ {p} : HeldOn(q)' = HeldOn(q) /\ PrewarmedOn(q)' = PrewarmedOn(q)
    BY <1>1 DEF PrewarmedOn, HeldOn, Held
  <1>6. Cardinality(HeldOn(p)') = Cardinality(HeldOn(p)) + 1
    BY <1>2, <1>3, HeldFinite, FS_AddElement
  <1>. QED  BY <1>3, <1>4, <1>5, <1>6

(* Release takes away exactly the released lease. *)
LEMMA ReleaseRemovesOne ==
    ASSUME Inv, NEW l \in Leases, lease[l].held,
           lease' = [lease EXCEPT ![l] = Unused]
    PROVE  /\ \A q \in Pools : q # lease[l].pool => HeldOn(q)' = HeldOn(q)
           /\ \A q \in Pools : q = lease[l].pool =>
                 Cardinality(HeldOn(q)') = Cardinality(HeldOn(q)) - 1
           /\ \A q \in Pools : HeldOn(q)' \subseteq HeldOn(q)
           /\ \A q \in Pools : PrewarmedOn(q)' \subseteq PrewarmedOn(q)
  <1>1. lease \in [Leases -> [held: BOOLEAN, pool: Pools \cup {NoPool},
                              reserve: Reserves]]
    BY DEF Inv, TypeOK
  <1>2. \A q \in Pools : q # lease[l].pool => HeldOn(q)' = HeldOn(q)
    BY <1>1 DEF HeldOn, Unused
  <1>3. ASSUME NEW q \in Pools, q = lease[l].pool
        PROVE  Cardinality(HeldOn(q)') = Cardinality(HeldOn(q)) - 1
    <2>1. l \in HeldOn(q) /\ HeldOn(q)' = HeldOn(q) \ {l}
      BY <1>1, <1>3 DEF HeldOn, Unused
    <2>. QED  BY <2>1, HeldFinite, FS_RemoveElement
  <1>4. \A q \in Pools : /\ HeldOn(q)' \subseteq HeldOn(q)
                         /\ PrewarmedOn(q)' \subseteq PrewarmedOn(q)
    BY <1>1 DEF PrewarmedOn, HeldOn, Unused
  <1>. QED  BY <1>2, <1>3, <1>4

-----------------------------------------------------------------------------

LEMMA InitInv == Init => Inv
  <1>. SUFFICES ASSUME Init PROVE Inv
    OBVIOUS
  <1>1. TypeOK
    BY LimitAssumption DEF Init, TypeOK, Unused, Reserves
  <1>2. \A p \in Pools : HeldOn(p) = {} /\ PrewarmedOn(p) = {}
    BY DEF Init, HeldOn, PrewarmedOn, Unused
  <1>3. \A p \in Pools : Cardinality(HeldOn(p)) = 0 /\ Cardinality(PrewarmedOn(p)) = 0
    BY <1>2, FS_EmptySet
  <1>4. CountsLeases /\ BusyPoolsKnown
    BY <1>2, <1>3 DEF Init, CountsLeases, BusyPoolsKnown
  <1>5. WithinLargestLimit /\ PrewarmLeavesRoom
    BY <1>3, LimitAssumption DEF WithinLargestLimit, PrewarmLeavesRoom
  <1>. QED  BY <1>1, <1>4, <1>5 DEF Inv

(* A step that hands out and takes back nothing keeps the invariant. *)
LEMMA QuietStep ==
    ASSUME Inv, UNCHANGED <<active, lease>>, known \subseteq known', TypeOK'
    PROVE  Inv'
  <1>1. \A p \in Pools : HeldOn(p)' = HeldOn(p) /\ PrewarmedOn(p)' = PrewarmedOn(p)
    BY SameLeases
  <1>. QED
    BY <1>1 DEF Inv, CountsLeases, BusyPoolsKnown, WithinLargestLimit, PrewarmLeavesRoom

LEMMA GrantInv ==
    ASSUME Inv, NEW l \in Leases, NEW p \in Pools, NEW c \in 0..MaxLimit,
           NEW r \in Reserves, Grant(l, p, c, r)
    PROVE  Inv'
  <1>1. TypeOK'
    BY UsableBound, LimitAssumption
    DEF Inv, TypeOK, Grant, Touch, Held, Reserves
  <1>2. active[p] = Cardinality(HeldOn(p)) /\ active[p] \in Nat
    BY DEF Inv, CountsLeases, TypeOK
  <1>3. /\ active' = [active EXCEPT ![p] = @ + 1] /\ known' = known \cup {p}
        /\ active[p] < Usable(Effective(c), r)
    BY DEF Grant, Touch
  <1>4. Cardinality(HeldOn(p)') <= MaxLimit - r
    BY <1>2, <1>3, GrantAddsOne, UsableBound, LimitAssumption DEF Reserves
  <1>5. CountsLeases'
    BY <1>2, <1>3, GrantAddsOne DEF Inv, TypeOK, CountsLeases
  <1>6. BusyPoolsKnown'
    BY <1>3, GrantAddsOne DEF Inv, BusyPoolsKnown
  <1>7. WithinLargestLimit'
    <2>. SUFFICES ASSUME NEW q \in Pools
                  PROVE  Cardinality(HeldOn(q)') <= MaxLimit
      BY DEF WithinLargestLimit
    <2>1. CASE q = p
      BY <2>1, <1>4, HeldFinite, LimitAssumption DEF Reserves
    <2>2. CASE q # p
      BY <2>2, GrantAddsOne DEF Inv, WithinLargestLimit
    <2>. QED  BY <2>1, <2>2
  <1>8. PrewarmLeavesRoom'
    <2>. SUFFICES ASSUME NEW q \in Pools
                  PROVE  Cardinality(PrewarmedOn(q)') < MaxLimit
      BY DEF PrewarmLeavesRoom
    <2>1. CASE q # p
      BY <2>1, GrantAddsOne DEF Inv, PrewarmLeavesRoom
    <2>2. CASE q = p /\ r = 0
      BY <2>2, GrantAddsOne DEF Inv, PrewarmLeavesRoom
    <2>3. CASE q = p /\ r = 1
      <3>1. PrewarmedOn(p)' \subseteq HeldOn(p)'
        BY DEF PrewarmedOn
      <3>2. Cardinality(PrewarmedOn(p)') <= Cardinality(HeldOn(p)')
        BY <3>1, HeldFinite, FS_Subset
      <3>. QED  BY <2>3, <3>2, <1>4, HeldFinite, LimitAssumption
    <2>. QED  BY <2>1, <2>2, <2>3 DEF Reserves
  <1>. QED  BY <1>1, <1>5, <1>6, <1>7, <1>8 DEF Inv

LEMMA RefuseInv ==
    ASSUME Inv, NEW p \in Pools, NEW c \in 0..MaxLimit, NEW r \in Reserves,
           Refuse(p, c, r)
    PROVE  Inv'
  <1>1. TypeOK'
    BY UsableBound, LimitAssumption DEF Inv, TypeOK, Refuse, Touch
  <1>. QED  BY <1>1, QuietStep DEF Refuse, Touch

LEMMA UnpooledInv ==
    ASSUME Inv, NEW l \in Leases, AcquireUnpooled(l)
    PROVE  Inv'
  <1>1. TypeOK'
    BY DEF Inv, TypeOK, AcquireUnpooled, Held, Reserves
  <1>2. \A p \in Pools : /\ HeldOn(p)' = HeldOn(p)
                         /\ PrewarmedOn(p)' = PrewarmedOn(p)
    BY PoolAssumption DEF Inv, TypeOK, AcquireUnpooled, HeldOn, PrewarmedOn, Held
  <1>. QED
    BY <1>1, <1>2 DEF Inv, AcquireUnpooled, CountsLeases, BusyPoolsKnown,
                      WithinLargestLimit, PrewarmLeavesRoom

LEMMA ReleaseInv ==
    ASSUME Inv, NEW l \in Leases, Release(l)
    PROVE  Inv'
  <1>1. CASE lease[l].held /\ lease[l].pool = NoPool
                /\ lease' = [lease EXCEPT ![l] = Unused]
                /\ UNCHANGED <<known, active, limit>>
    <2>1. TypeOK'
      BY <1>1 DEF Inv, TypeOK, Unused, Reserves
    <2>2. \A p \in Pools : p # lease[l].pool
      BY <1>1, PoolAssumption
    <2>3. \A p \in Pools : /\ HeldOn(p)' = HeldOn(p)
                           /\ PrewarmedOn(p)' = PrewarmedOn(p)
      BY <1>1, <2>2 DEF Inv, TypeOK, HeldOn, PrewarmedOn, Unused
    <2>. QED
      BY <1>1, <2>1, <2>3 DEF Inv, CountsLeases, BusyPoolsKnown,
                              WithinLargestLimit, PrewarmLeavesRoom
  <1>2. CASE lease[l].held /\ lease[l].pool # NoPool
                /\ lease' = [lease EXCEPT ![l] = Unused]
                /\ GiveBack(lease[l].pool)
    <2>1. PICK p \in Pools : p = lease[l].pool
      BY <1>2 DEF Inv, TypeOK
    <2>2. l \in HeldOn(p)
      BY <1>2, <2>1 DEF HeldOn
    <2>3. active[p] = Cardinality(HeldOn(p)) /\ active[p] \in Nat \ {0}
      <3>1. active[p] = Cardinality(HeldOn(p)) /\ active[p] \in Nat
        BY <2>1 DEF Inv, CountsLeases, TypeOK
      <3>2. Cardinality(HeldOn(p)) # 0
        BY <2>1, <2>2, HeldFinite, FS_EmptySet
      <3>. QED  BY <3>1, <3>2
    <2>4. /\ active' = [active EXCEPT ![p] = @ - 1]
          /\ known' = IF active[p] = 1 THEN known \ {p} ELSE known
          /\ limit' = IF active[p] = 1 THEN [limit EXCEPT ![p] = 0] ELSE limit
      <3>1. GiveBack(p) /\ active[p] > 0
        BY <1>2, <2>1, <2>3
      <3>2. active' = [active EXCEPT ![p] = @ - 1]
        BY <3>1, Zenon DEF GiveBack
      <3>. QED  BY <3>1, <3>2 DEF GiveBack
    <2>5. TypeOK'
      BY <1>2, <2>1, <2>3, <2>4, LimitAssumption DEF Inv, TypeOK, Unused, Reserves
    <2>6. /\ Cardinality(HeldOn(p)') = Cardinality(HeldOn(p)) - 1
          /\ \A q \in Pools : q # p => HeldOn(q)' = HeldOn(q)
          /\ \A q \in Pools : HeldOn(q)' \subseteq HeldOn(q)
          /\ \A q \in Pools : PrewarmedOn(q)' \subseteq PrewarmedOn(q)
      BY <1>2, <2>1, ReleaseRemovesOne
    <2>7. CountsLeases'
      BY <2>1, <2>3, <2>4, <2>6 DEF Inv, TypeOK, CountsLeases
    <2>8. BusyPoolsKnown'
      <3>. SUFFICES ASSUME NEW q \in Pools, HeldOn(q)' # {} PROVE q \in known'
        BY DEF BusyPoolsKnown
      <3>1. q \in known
        BY <2>6 DEF Inv, BusyPoolsKnown
      <3>2. CASE q # p
        BY <3>1, <3>2, <2>4
      <3>3. CASE q = p
        <4>1. Cardinality(HeldOn(p)') # 0
          BY <3>3, <2>1, HeldFinite, FS_EmptySet
        <4>. QED  BY <4>1, <3>1, <3>3, <2>3, <2>4, <2>6
      <3>. QED  BY <3>2, <3>3
    <2>9. \A q \in Pools : /\ Cardinality(HeldOn(q)') <= Cardinality(HeldOn(q))
                           /\ Cardinality(PrewarmedOn(q)') <= Cardinality(PrewarmedOn(q))
      BY <2>6, HeldFinite, FS_Subset
    <2>10. WithinLargestLimit' /\ PrewarmLeavesRoom'
      BY <2>9, HeldFinite, LimitAssumption DEF Inv, WithinLargestLimit, PrewarmLeavesRoom
    <2>. QED  BY <2>5, <2>7, <2>8, <2>10 DEF Inv
  <1>3. CASE UNCHANGED vars
    BY <1>3, QuietStep DEF vars, Inv, TypeOK
  <1>. QED  BY <1>1, <1>2, <1>3 DEF Release

-----------------------------------------------------------------------------

LEMMA NextInv == Inv /\ [Next]_vars => Inv'
  <1>. SUFFICES ASSUME Inv, [Next]_vars PROVE Inv'
    OBVIOUS
  <1>1. ASSUME NEW l \in Leases, AcquireUnpooled(l) PROVE Inv'
    BY <1>1, UnpooledInv
  <1>2. ASSUME NEW l \in Leases, NEW p \in Pools, NEW c \in 0..MaxLimit,
               NEW r \in Reserves, Grant(l, p, c, r)
        PROVE  Inv'
    BY <1>2, GrantInv
  <1>3. ASSUME NEW p \in Pools, NEW c \in 0..MaxLimit, NEW r \in Reserves,
               Refuse(p, c, r)
        PROVE  Inv'
    BY <1>3, RefuseInv
  <1>4. ASSUME NEW l \in Leases, Release(l) PROVE Inv'
    BY <1>4, ReleaseInv
  <1>5. CASE UNCHANGED vars
    BY <1>5, QuietStep DEF vars, Inv, TypeOK
  <1>. QED  BY <1>1, <1>2, <1>3, <1>4, <1>5 DEF Next

(* The inductive invariant holds in every reachable state. *)
THEOREM Safety == Spec => []Inv
  BY InitInv, NextInv, PTL DEF Spec

(* The variables keep their types whatever the limits do. *)
THEOREM TypeCorrect == Spec => []TypeOK
  <1>1. Inv => TypeOK
    BY DEF Inv
  <1>. QED  BY <1>1, Safety, PTL

(* pool.active is exactly the number of unreleased leases on the pool.     *)
THEOREM CountersExact == Spec => []CountsLeases
  <1>1. Inv => CountsLeases
    BY DEF Inv
  <1>. QED  BY <1>1, Safety, PTL

(* usage() never misses a pool that has connections open.                  *)
THEOREM BusyPoolsReported == Spec => []BusyPoolsKnown
  <1>1. Inv => BusyPoolsKnown
    BY DEF Inv
  <1>. QED  BY <1>1, Safety, PTL

(* No interleaving of starts, refusals and releases overcommits a pool.    *)
THEOREM NeverOvercommitted == Spec => [](WithinLargestLimit /\ PrewarmLeavesRoom)
  <1>1. Inv => WithinLargestLimit /\ PrewarmLeavesRoom
    BY DEF Inv
  <1>. QED  BY <1>1, Safety, PTL

(* A start is granted only inside the limit of the source it starts, less  *)
(* the connection a prewarm leaves free, counting every lease that is out. *)
THEOREM BudgetRespected == Spec => GrantsWithinBudget
  <1>. DEFINE A == \A l \in Leases, p \in Pools :
                     (l \notin HeldOn(p) /\ l \in HeldOn(p)')
                       => Cardinality(HeldOn(p)') <= limit'[p] - lease'[l].reserve
  <1>1. Inv /\ [Next]_vars => A \/ UNCHANGED vars
    <2>. SUFFICES ASSUME Inv, Next, NEW l \in Leases, NEW p \in Pools,
                         l \notin HeldOn(p), l \in HeldOn(p)'
                  PROVE  Cardinality(HeldOn(p)') <= limit'[p] - lease'[l].reserve
      BY DEF vars
    <2>1. ASSUME NEW m \in Leases, AcquireUnpooled(m) PROVE FALSE
      BY <2>1, PoolAssumption DEF AcquireUnpooled, HeldOn, Held, Inv, TypeOK
    <2>2. ASSUME NEW m \in Leases, NEW q \in Pools, NEW c \in 0..MaxLimit,
                 NEW r \in Reserves, Grant(m, q, c, r)
          PROVE  Cardinality(HeldOn(p)') <= limit'[p] - lease'[l].reserve
      <3>1. q = p /\ m = l
        BY <2>2, GrantAddsOne
      <3>2. lease'[l].reserve = r /\ limit'[p] = Effective(c)
        BY <2>2, <3>1 DEF Grant, Touch, Held, Inv, TypeOK
      <3>3. active[p] = Cardinality(HeldOn(p)) /\ active[p] < Usable(Effective(c), r)
        BY <2>2, <3>1 DEF Grant, Inv, CountsLeases
      <3>. QED
        BY <2>2, <3>1, <3>2, <3>3, GrantAddsOne, UsableBound, HeldFinite,
           LimitAssumption DEF Reserves
    <2>3. ASSUME NEW q \in Pools, NEW c \in 0..MaxLimit, NEW r \in Reserves,
                 Refuse(q, c, r)
          PROVE  FALSE
      BY <2>3, SameLeases DEF Refuse
    <2>4. ASSUME NEW m \in Leases, Release(m) PROVE FALSE
      <3>1. CASE lease' = [lease EXCEPT ![m] = Unused]
        BY <3>1 DEF HeldOn, Inv, TypeOK, Unused
      <3>2. CASE UNCHANGED vars
        BY <3>2, SameLeases DEF vars
      <3>. QED  BY <2>4, <3>1, <3>2 DEF Release
    <2>. QED  BY <2>1, <2>2, <2>3, <2>4 DEF Next
  <1>. QED  BY <1>1, Safety, PTL DEF Spec, GrantsWithinBudget

-----------------------------------------------------------------------------
(***************************************************************************)
(* No token bucket gives more than it got, for every set of keys, every    *)
(* capacity, refill, cost and bound of the map.                            *)
(*                                                                         *)
(* SpentWithinBudget speaks of what was spent and of the clock; the code   *)
(* knows only tokens and the moment of the last refill, which may lie      *)
(* before the bucket was made when readings of the clock get the lock out  *)
(* of order.  Balanced relates them, from above (what was spent and what   *)
(* is left fit the refills up to that moment) and from below (a bucket in  *)
(* debt owes no more than will have flowed in by now).                     *)
(***************************************************************************)

TokenBuckets == [present : BOOLEAN, tokens : Int, updated : Nat, seen : Nat]

RateTypeOK ==
    /\ clock \in Nat
    /\ bucket \in [Keys -> TokenBuckets]
    /\ spender \in [Spenders -> [waiting : BOOLEAN, at : Nat]]
    /\ ledger \in [Keys -> [spent : Nat, born : Nat]]

(* Nobody has read a later clock than this one. *)
Timely ==
    /\ \A r \in Spenders : spender[r].at <= clock
    /\ \A k \in Keys : bucket[k].updated <= clock

(* A bucket whose tokens were last refilled at this moment, against what   *)
(* the ledger says of it.                                                  *)
Covered(k, b, l) == l.spent + b.tokens <= Capacity[k] + (b.updated - l.born) * PerTick[k]
Solvent(k, b, now) == 0 <= b.tokens + (now - b.updated) * PerTick[k]
Balanced ==
    \A k \in Keys : bucket[k].present => Covered(k, bucket[k], ledger[k]) /\ Solvent(k, bucket[k], clock)

RateInv == RateTypeOK /\ Timely /\ Balanced

-----------------------------------------------------------------------------

(* What flows in between two moments flows in before and after a third.    *)
LEMMA FlowsAddUp ==
    ASSUME NEW x \in Int, NEW y \in Int, NEW z \in Int, NEW rate \in Nat
    PROVE  /\ (x - y) * rate + (y - z) * rate = (x - z) * rate
           /\ (x - y) * rate \in Int /\ (y - z) * rate \in Int /\ (x - z) * rate \in Int
  OBVIOUS

(* Time that does not run back lets nothing flow out.                      *)
LEMMA FlowsGrow ==
    ASSUME NEW x \in Int, NEW y \in Int, NEW rate \in Nat, y <= x
    PROVE  (x - y) * rate \in Nat
  OBVIOUS

(* Eviction leaves a bucket alone or takes it out.                         *)
LEMMA EvictionTakesOrLeaves ==
    ASSUME NEW b \in [Keys -> TokenBuckets], NEW now \in Nat, NEW kept \in Evictions(b, now)
    PROVE  /\ kept \in [Keys -> TokenBuckets]
           /\ \A k \in Keys : kept[k] = b[k] \/ kept[k] = NoBucket
  <1>1. NoBucket \in TokenBuckets  BY DEF NoBucket, TokenBuckets
  <1>2. /\ Pruned(b, now) \in [Keys -> TokenBuckets]
        /\ \A k \in Keys : Pruned(b, now)[k] = b[k] \/ Pruned(b, now)[k] = NoBucket
    BY <1>1 DEF Pruned, WithoutIdle
  <1>3. CASE Full(Pruned(b, now))
    <2>1. PICK k \in Oldest(Pruned(b, now)) : kept = [Pruned(b, now) EXCEPT ![k] = NoBucket]
      BY <1>3 DEF Evictions
    <2>. QED  BY <1>1, <1>2, <2>1
  <1>4. CASE ~Full(Pruned(b, now))
    <2>1. kept = Pruned(b, now)  BY <1>4 DEF Evictions
    <2>. QED  BY <1>2, <2>1
  <1>. QED  BY <1>3, <1>4

(* A refill keeps a bucket covered and solvent, whichever way the clock of *)
(* this request lies from the last one's.                                  *)
LEMMA RefillKeepsBalance ==
    ASSUME NEW k \in Keys, NEW b \in [Keys -> TokenBuckets], NEW l \in [spent : Nat, born : Nat],
           NEW at \in Nat, NEW now \in Nat, at <= now, b[k].present,
           Covered(k, b[k], l), Solvent(k, b[k], now)
    PROVE  /\ Refilled(b, k, at) \in TokenBuckets
           /\ Refilled(b, k, at).updated = at /\ Refilled(b, k, at).present
           /\ Covered(k, Refilled(b, k, at), l) /\ Solvent(k, Refilled(b, k, at), now)
  <1>1. /\ b[k] \in TokenBuckets /\ b[k].tokens \in Int /\ b[k].updated \in Nat /\ b[k].present \in BOOLEAN
        /\ l.spent \in Nat /\ l.born \in Nat
        /\ Capacity[k] \in Nat /\ PerTick[k] \in Nat
    BY RateAssumption DEF TokenBuckets
  <1>2. PICK flow \in Int : flow = (at - b[k].updated) * PerTick[k]
    BY <1>1
  <1>3. PICK before \in Int : before = (b[k].updated - l.born) * PerTick[k]
    BY <1>1
  <1>4. PICK after \in Int : after = (now - at) * PerTick[k]
    BY <1>1
  <1>5. /\ (at - l.born) * PerTick[k] = flow + before
        /\ (now - b[k].updated) * PerTick[k] = after + flow
        /\ after \in Nat
    <2>1. (at - b[k].updated) * PerTick[k] + (b[k].updated - l.born) * PerTick[k] = (at - l.born) * PerTick[k]
      BY <1>1, FlowsAddUp
    <2>2. (now - at) * PerTick[k] + (at - b[k].updated) * PerTick[k] = (now - b[k].updated) * PerTick[k]
      BY <1>1, FlowsAddUp
    <2>3. after \in Nat  BY <1>1, <1>4, FlowsGrow
    <2>. QED  BY <1>2, <1>3, <1>4, <2>1, <2>2, <2>3
  <1>6. PICK tokens \in Int : tokens = Least(Capacity[k], b[k].tokens + flow)
    BY <1>1 DEF Least
  <1>7. Refilled(b, k, at) = [b[k] EXCEPT !.tokens = tokens, !.updated = at, !.seen = at]
    BY <1>2, <1>6 DEF Refilled
  <1>8. /\ Refilled(b, k, at) \in TokenBuckets /\ Refilled(b, k, at).present
        /\ Refilled(b, k, at).updated = at /\ Refilled(b, k, at).tokens = tokens
    BY <1>1, <1>7 DEF TokenBuckets
  <1>9. /\ tokens <= Capacity[k] /\ tokens <= b[k].tokens + flow
        /\ tokens = Capacity[k] \/ tokens = b[k].tokens + flow
    BY <1>1, <1>6 DEF Least
  <1>10. /\ l.spent + b[k].tokens <= Capacity[k] + before
         /\ 0 <= b[k].tokens + (after + flow)
    BY <1>3, <1>5 DEF Covered, Solvent
  <1>11. l.spent + tokens <= Capacity[k] + (flow + before) /\ 0 <= tokens + after
    BY <1>1, <1>5, <1>9, <1>10
  <1>12. Covered(k, Refilled(b, k, at), l) /\ Solvent(k, Refilled(b, k, at), now)
    BY <1>4, <1>5, <1>8, <1>11 DEF Covered, Solvent
  <1>. QED  BY <1>8, <1>12

(* A bucket that is made is full.                                          *)
LEMMA NewIsBalanced ==
    ASSUME NEW k \in Keys, NEW b \in [Keys -> TokenBuckets], NEW at \in Nat, NEW now \in Nat, at <= now, ~b[k].present
    PROVE  /\ Refilled(b, k, at) \in TokenBuckets
           /\ Refilled(b, k, at).updated = at /\ Refilled(b, k, at).present
           /\ Covered(k, Refilled(b, k, at), [spent |-> 0, born |-> at])
           /\ Solvent(k, Refilled(b, k, at), now)
  <1>1. Capacity[k] \in Nat /\ PerTick[k] \in Nat  BY RateAssumption
  <1>2. Refilled(b, k, at) = [present |-> TRUE, tokens |-> Capacity[k], updated |-> at, seen |-> at]
    BY DEF Refilled
  <1>3. (at - at) * PerTick[k] = 0 /\ (now - at) * PerTick[k] \in Nat
    BY <1>1, FlowsGrow
  <1>. QED  BY <1>1, <1>2, <1>3 DEF Covered, Solvent, TokenBuckets

(* Paying what a bucket has.                                               *)
LEMMA PayingKeepsBalance ==
    ASSUME NEW k \in Keys, NEW b \in TokenBuckets, NEW l \in [spent : Nat, born : Nat],
           NEW now \in Nat, NEW paid \in Nat, b.updated <= now,
           Covered(k, b, l), Solvent(k, b, now), paid = 0 \/ paid <= b.tokens
    PROVE  /\ [b EXCEPT !.tokens = @ - paid] \in TokenBuckets
           /\ [l EXCEPT !.spent = @ + paid] \in [spent : Nat, born : Nat]
           /\ Covered(k, [b EXCEPT !.tokens = @ - paid], [l EXCEPT !.spent = @ + paid])
           /\ Solvent(k, [b EXCEPT !.tokens = @ - paid], now)
  <1>1. /\ b.tokens \in Int /\ b.updated \in Nat /\ l.spent \in Nat /\ l.born \in Nat
        /\ Capacity[k] \in Nat /\ PerTick[k] \in Nat
    BY RateAssumption DEF TokenBuckets
  <1>2. PICK before \in Int : before = (b.updated - l.born) * PerTick[k]
    BY <1>1
  <1>3. PICK after \in Nat : after = (now - b.updated) * PerTick[k]
    BY <1>1, FlowsGrow
  <1>4. l.spent + b.tokens <= Capacity[k] + before /\ 0 <= b.tokens + after
    BY <1>2, <1>3 DEF Covered, Solvent
  <1>5. /\ (l.spent + paid) + (b.tokens - paid) <= Capacity[k] + before
        /\ 0 <= (b.tokens - paid) + after
    BY <1>1, <1>4
  <1>6. /\ [b EXCEPT !.tokens = @ - paid] \in TokenBuckets
        /\ [b EXCEPT !.tokens = @ - paid].tokens = b.tokens - paid
        /\ [b EXCEPT !.tokens = @ - paid].updated = b.updated
        /\ [l EXCEPT !.spent = @ + paid] \in [spent : Nat, born : Nat]
        /\ [l EXCEPT !.spent = @ + paid].spent = l.spent + paid
        /\ [l EXCEPT !.spent = @ + paid].born = l.born
    BY <1>1 DEF TokenBuckets
  <1>. QED  BY <1>2, <1>3, <1>5, <1>6 DEF Covered, Solvent

-----------------------------------------------------------------------------

LEMMA RateInitInv == RateInit => RateInv
  BY DEF RateInit, RateInv, RateTypeOK, Timely, Balanced, NoBucket, AtRest, TokenBuckets

(* A request: each of its buckets is kept, taken out, refilled or made,    *)
(* and then charged; the others are kept or taken out.                     *)
LEMMA ConsumeKeepsInv ==
    ASSUME RateInv, NEW r \in Spenders, NEW keys \in Classes, NEW cost \in Costs, Consume(r, keys, cost)
    PROVE  RateInv'
  <1>. DEFINE at == spender[r].at
  <1>1. /\ clock \in Nat /\ at \in Nat /\ at <= clock /\ clock' = clock
        /\ bucket \in [Keys -> TokenBuckets] /\ ledger \in [Keys -> [spent : Nat, born : Nat]]
        /\ keys \subseteq Keys /\ cost \in Nat
    BY RateAssumption DEF RateInv, RateTypeOK, Timely, Consume
  <1>2. PICK kept \in Evictions(bucket, at) :
          LET full == [k \in keys |-> Refilled(kept, k, at)]
              paid == IF \A k \in keys : full[k].tokens >= cost THEN cost ELSE 0
          IN /\ bucket' = [k \in Keys |-> IF k \in keys
                                          THEN [full[k] EXCEPT !.tokens = @ - paid] ELSE kept[k]]
             /\ ledger' = [k \in Keys |->
                   IF k \notin keys THEN ledger[k]
                   ELSE IF kept[k].present THEN [ledger[k] EXCEPT !.spent = @ + paid]
                   ELSE [spent |-> paid, born |-> at]]
    BY DEF Consume
  <1>3. PICK paid \in Nat :
          /\ bucket' = [k \in Keys |-> IF k \in keys
                                       THEN [Refilled(kept, k, at) EXCEPT !.tokens = @ - paid] ELSE kept[k]]
          /\ ledger' = [k \in Keys |->
                IF k \notin keys THEN ledger[k]
                ELSE IF kept[k].present THEN [ledger[k] EXCEPT !.spent = @ + paid]
                ELSE [spent |-> paid, born |-> at]]
          /\ paid = 0 \/ \A k \in keys : paid <= Refilled(kept, k, at).tokens
    <2>. DEFINE full == [k \in keys |-> Refilled(kept, k, at)]
                due == IF \A k \in keys : full[k].tokens >= cost THEN cost ELSE 0
    <2>1. due \in Nat  BY <1>1
    <2>2. due = 0 \/ \A k \in keys : cost = due /\ full[k].tokens >= due
      OBVIOUS
    <2>3. \A k \in keys : full[k] = Refilled(kept, k, at)
      OBVIOUS
    <2>4. \A k \in keys : full[k].tokens \in Int
      <3>. SUFFICES ASSUME NEW k \in keys PROVE Refilled(kept, k, at).tokens \in Int
        BY <2>3
      <3>1. kept \in [Keys -> TokenBuckets] /\ kept[k] \in TokenBuckets /\ k \in Keys
        BY <1>1, EvictionTakesOrLeaves
      <3>2. Capacity[k] \in Nat /\ PerTick[k] \in Nat  BY <3>1, RateAssumption
      <3>3. CASE kept[k].present
        <4>1. PICK flow \in Int : flow = (at - kept[k].updated) * PerTick[k]
          BY <1>1, <3>1, <3>2 DEF TokenBuckets
        <4>2. Least(Capacity[k], kept[k].tokens + flow) \in Int
          BY <3>1, <3>2 DEF Least, TokenBuckets
        <4>. QED  BY <3>1, <3>3, <4>1, <4>2 DEF Refilled, TokenBuckets
      <3>4. CASE ~kept[k].present
        BY <3>2, <3>4 DEF Refilled
      <3>. QED  BY <3>3, <3>4
    <2>5. due = 0 \/ \A k \in keys : due <= full[k].tokens
      BY <2>1, <2>2, <2>4
    <2>6. /\ bucket' = [k \in Keys |-> IF k \in keys
                                       THEN [Refilled(kept, k, at) EXCEPT !.tokens = @ - due] ELSE kept[k]]
          /\ ledger' = [k \in Keys |->
                IF k \notin keys THEN ledger[k]
                ELSE IF kept[k].present THEN [ledger[k] EXCEPT !.spent = @ + due]
                ELSE [spent |-> due, born |-> at]]
      BY <1>2
    <2>. QED  BY <2>1, <2>3, <2>5, <2>6
  <1>4. /\ kept \in [Keys -> TokenBuckets]
        /\ \A k \in Keys : kept[k] = bucket[k] \/ kept[k] = NoBucket
    BY <1>1, EvictionTakesOrLeaves
  <1>5. ASSUME NEW k \in Keys
        PROVE  /\ bucket'[k] \in TokenBuckets /\ bucket'[k].updated <= clock
               /\ ledger'[k] \in [spent : Nat, born : Nat]
               /\ bucket'[k].present => Covered(k, bucket'[k], ledger'[k]) /\ Solvent(k, bucket'[k], clock)
    <2>0. /\ kept[k] \in TokenBuckets /\ kept[k].updated <= clock /\ ledger[k] \in [spent : Nat, born : Nat]
          /\ kept[k].present => Covered(k, kept[k], ledger[k]) /\ Solvent(k, kept[k], clock)
      BY <1>1, <1>4 DEF RateInv, Timely, Balanced, NoBucket
    <2>1. CASE k \notin keys
      <3>1. bucket'[k] = kept[k] /\ ledger'[k] = ledger[k]  BY <1>3, <2>1
      <3>. QED  BY <2>0, <3>1
    <2>2. CASE k \in keys
      <3>. DEFINE full == Refilled(kept, k, at)
                  old == IF kept[k].present THEN ledger[k] ELSE [spent |-> 0, born |-> at]
      <3>1. /\ full \in TokenBuckets /\ full.updated = at /\ full.present
            /\ old \in [spent : Nat, born : Nat]
            /\ Covered(k, full, old) /\ Solvent(k, full, clock)
        <4>1. CASE kept[k].present
          BY <1>1, <1>4, <2>0, <4>1, RefillKeepsBalance
        <4>2. CASE ~kept[k].present
          BY <1>1, <1>4, <4>2, NewIsBalanced
        <4>. QED  BY <4>1, <4>2
      <3>2. paid = 0 \/ paid <= full.tokens  BY <1>3, <2>2
      <3>3. bucket'[k] = [full EXCEPT !.tokens = @ - paid]  BY <1>3, <2>2
      <3>4. ledger'[k] = [old EXCEPT !.spent = @ + paid]
        BY <1>3, <2>2
      <3>5. bucket'[k].updated = at
        BY <3>1, <3>3 DEF TokenBuckets
      <3>. HIDE DEF full, old
      <3>6. /\ [full EXCEPT !.tokens = @ - paid] \in TokenBuckets
            /\ [old EXCEPT !.spent = @ + paid] \in [spent : Nat, born : Nat]
            /\ Covered(k, [full EXCEPT !.tokens = @ - paid], [old EXCEPT !.spent = @ + paid])
            /\ Solvent(k, [full EXCEPT !.tokens = @ - paid], clock)
        BY <1>1, <3>1, <3>2, PayingKeepsBalance
      <3>. QED  BY <1>1, <3>3, <3>4, <3>5, <3>6
    <2>. QED  BY <2>1, <2>2
  <1>6. RateTypeOK'
    <2>1. spender' \in [Spenders -> [waiting : BOOLEAN, at : Nat]]
      BY DEF RateInv, RateTypeOK, Consume, AtRest
    <2>2. bucket' \in [Keys -> TokenBuckets]
      BY <1>3, <1>5
    <2>3. ledger' \in [Keys -> [spent : Nat, born : Nat]]
      BY <1>3, <1>5
    <2>. QED  BY <1>1, <2>1, <2>2, <2>3 DEF RateTypeOK
  <1>7. Timely'
    <2>1. \A q \in Spenders : spender'[q].at <= clock
      BY <1>1 DEF RateInv, RateTypeOK, Timely, Consume, AtRest
    <2>. QED  BY <1>1, <1>5, <2>1 DEF Timely
  <1>8. Balanced'
    BY <1>1, <1>5 DEF Balanced, Covered, Solvent
  <1>. QED  BY <1>6, <1>7, <1>8 DEF RateInv

(* Time only lets tokens flow in.                                          *)
LEMMA TickKeepsInv ==
    ASSUME RateInv, ClockTicks
    PROVE  RateInv'
  <1>1. clock \in Nat /\ clock' = clock + 1 /\ UNCHANGED <<bucket, spender, ledger>>
    BY DEF RateInv, RateTypeOK, ClockTicks
  <1>2. RateTypeOK'  BY <1>1 DEF RateInv, RateTypeOK
  <1>3. Timely'
    BY <1>1 DEF RateInv, RateTypeOK, Timely, TokenBuckets
  <1>4. ASSUME NEW k \in Keys, bucket[k].present
        PROVE  Covered(k, bucket[k], ledger[k]) /\ Solvent(k, bucket[k], clock + 1)
    <2>1. /\ bucket[k].tokens \in Int /\ bucket[k].updated \in Nat /\ PerTick[k] \in Nat
      BY RateAssumption DEF RateInv, RateTypeOK, TokenBuckets
    <2>2. Covered(k, bucket[k], ledger[k]) /\ 0 <= bucket[k].tokens + (clock - bucket[k].updated) * PerTick[k]
      BY <1>4 DEF RateInv, Balanced, Solvent
    <2>3. ((clock + 1) - clock) * PerTick[k] + (clock - bucket[k].updated) * PerTick[k]
             = ((clock + 1) - bucket[k].updated) * PerTick[k]
      <3>1. PICK x \in Int, y \in Int, z \in Int, rate \in Nat :
              x = clock + 1 /\ y = clock /\ z = bucket[k].updated /\ rate = PerTick[k]
        BY <1>1, <2>1
      <3>2. (x - y) * rate + (y - z) * rate = (x - z) * rate
        BY FlowsAddUp
      <3>. QED  BY <3>1, <3>2
    <2>4. ((clock + 1) - clock) * PerTick[k] \in Nat
      BY <1>1, <2>1, FlowsGrow
    <2>5. PICK flow \in Int : flow = (clock - bucket[k].updated) * PerTick[k]
      BY <1>1, <2>1
    <2>6. PICK more \in Nat : more = ((clock + 1) - clock) * PerTick[k]
      BY <2>4
    <2>7. 0 <= bucket[k].tokens + (more + flow)
      BY <2>1, <2>2, <2>5, <2>6
    <2>. QED  BY <2>2, <2>3, <2>5, <2>6, <2>7 DEF Solvent
  <1>5. Balanced'
    BY <1>1, <1>4 DEF Balanced, Covered, Solvent
  <1>. QED  BY <1>2, <1>3, <1>5 DEF RateInv

LEMMA RateStepInv == RateInv /\ [RateNext]_rvars => RateInv'
  <1>. SUFFICES ASSUME RateInv, [RateNext]_rvars PROVE RateInv'
    OBVIOUS
  <1>1. CASE \E r \in Spenders : ReadClock(r)
    BY <1>1 DEF RateInv, RateTypeOK, Timely, Balanced, ReadClock, Covered, Solvent
  <1>2. CASE \E r \in Spenders, keys \in Classes, cost \in Costs : Consume(r, keys, cost)
    BY <1>2, ConsumeKeepsInv
  <1>3. CASE ClockTicks
    BY <1>3, TickKeepsInv
  <1>4. CASE UNCHANGED rvars
    BY <1>4 DEF rvars, RateInv, RateTypeOK, Timely, Balanced, Covered, Solvent
  <1>. QED  BY <1>1, <1>2, <1>3, <1>4 DEF RateNext

(* The inductive invariant gives the budget.                               *)
LEMMA BalancedIsWithinBudget == RateInv => SpentWithinBudget
  <1>. SUFFICES ASSUME RateInv, NEW k \in Keys, bucket[k].present
                PROVE  ledger[k].spent <= Capacity[k] + (clock - ledger[k].born) * PerTick[k]
    BY DEF SpentWithinBudget
  <1>1. /\ bucket[k].tokens \in Int /\ bucket[k].updated \in Nat /\ clock \in Nat
        /\ ledger[k].spent \in Nat /\ ledger[k].born \in Nat
        /\ Capacity[k] \in Nat /\ PerTick[k] \in Nat
    BY RateAssumption DEF RateInv, RateTypeOK, TokenBuckets
  <1>2. PICK before \in Int : before = (bucket[k].updated - ledger[k].born) * PerTick[k]
    BY <1>1
  <1>3. PICK after \in Int : after = (clock - bucket[k].updated) * PerTick[k]
    BY <1>1
  <1>4. (clock - ledger[k].born) * PerTick[k] = after + before
    <2>1. (clock - bucket[k].updated) * PerTick[k] + (bucket[k].updated - ledger[k].born) * PerTick[k]
             = (clock - ledger[k].born) * PerTick[k]
      BY <1>1, FlowsAddUp
    <2>. QED  BY <1>2, <1>3, <2>1
  <1>5. ledger[k].spent + bucket[k].tokens <= Capacity[k] + before /\ 0 <= bucket[k].tokens + after
    BY <1>2, <1>3 DEF RateInv, Balanced, Covered, Solvent
  <1>6. ledger[k].spent <= Capacity[k] + (after + before)
    BY <1>1, <1>5
  <1>. QED  BY <1>4, <1>6

-----------------------------------------------------------------------------

(* Types, clock readings and balance hold of every reachable state of the  *)
(* limiter that backend/pkg/middleware/rate_limit.go keeps.                *)
THEOREM RateSafety == RateSpec => []RateInv
  <1>. QED  BY RateInitInv, RateStepInv, PTL DEF RateSpec

(* From no bucket is more spent than its capacity and the refill since it  *)
(* was made, however requests overtake one another between reading the     *)
(* clock and taking the lock, and whatever is evicted.                     *)
THEOREM BudgetKept == RateSpec => []SpentWithinBudget
  <1>. QED  BY RateSafety, BalancedIsWithinBudget, PTL

-----------------------------------------------------------------------------
(***************************************************************************)
(* Safety of the admission gate, for every number of handlers, viewers,    *)
(* accounts and credentials.                                               *)
(*                                                                         *)
(* OverLimitOnlyByOverlap is not inductive: the gate adds a count it took  *)
(* before its lock to the length of a list of expiries, neither of which   *)
(* names anybody.  CountsFresh says what an old count is still worth, and  *)
(* ReservationsMatch whom the list stands for.                             *)
(***************************************************************************)

Handling == {"admitted", "registered", "failed"}
Stages == {"new", "arrived", "counted", "refused", "throttled", "done"} \cup Handling

Counts == {<<>>} \cup UNION {[K -> Nat] : K \in SUBSET Places}
Handlers == [pc : Stages, by : Credentials \cup {NoOwner}, viewer : Viewers \cup {NoOwner},
             count : Counts, keys : SUBSET Places, overlapped : BOOLEAN]

AdmissionTypeOK ==
    /\ request \in [Requests -> Handlers]
    /\ viewer \in [Viewers -> [by : Credentials \cup {NoOwner}, active : BOOLEAN]]
    /\ reservations \in [Places -> Seq(Requests)]

(* A handler knows its credential and its viewer, and holds no place       *)
(* before it is admitted; only a viewer somebody registered is active.     *)
HandlersOK ==
    /\ \A r \in Requests :
         /\ request[r].pc \in {"arrived", "counted"} \cup Handling =>
              request[r].by \in Credentials /\ request[r].viewer \in Viewers
         /\ request[r].pc \in {"new", "arrived", "counted"} => request[r].keys = {}
    /\ \A v \in Viewers : Active(v) => viewer[v].by \in Credentials

(* The viewers and the requests that count against a place are finite.     *)
CountsFinite ==
    \A k \in Places : IsFiniteSet(Watching(k)) /\ IsFiniteSet(Holding(k))

(* A count that nobody has overlapped is no smaller than the truth.        *)
CountsFresh ==
    \A r \in Requests : request[r].pc = "counted" =>
        /\ request[r].count \in [KeysOf(request[r].by) -> Nat]
        /\ ~request[r].overlapped =>
             \A k \in KeysOf(request[r].by) : Cardinality(Watching(k)) <= request[r].count[k]

AdmissionInv ==
    /\ AdmissionTypeOK
    /\ HandlersOK
    /\ CountsFinite
    /\ ReservationsMatch
    /\ CountsFresh
    /\ OverLimitOnlyByOverlap

-----------------------------------------------------------------------------

LEMMA KeysArePlaces == ASSUME NEW c \in Credentials \cup {NoOwner} PROVE KeysOf(c) \subseteq Places
  BY AdmissionAssumption DEF KeysOf, Places

LEMMA LimitsPositive == ASSUME NEW k \in Places PROVE LimitOf(k) \in Nat /\ LimitOf(k) > 0
  BY AdmissionAssumption DEF LimitOf

(* Some viewers and those of some requests are no more than both together. *)
LEMMA ViewersAndRequests ==
    ASSUME NEW W, IsFiniteSet(W), NEW H, IsFiniteSet(H), NEW q
    PROVE  /\ IsFiniteSet(W \cup {q[r].viewer : r \in H})
           /\ Cardinality(W \cup {q[r].viewer : r \in H}) \in Nat
           /\ Cardinality(W \cup {q[r].viewer : r \in H}) <= Cardinality(W) + Cardinality(H)
  <1>1. PICK V : V = {q[r].viewer : r \in H}
    OBVIOUS
  <1>2. PICK f : f = [r \in H |-> q[r].viewer]
    OBVIOUS
  <1>3. f \in Surjection(H, V)
    BY <1>1, <1>2 DEF Surjection
  <1>4. IsFiniteSet(V) /\ Cardinality(V) <= Cardinality(H)
    BY <1>3, FS_Surjection
  <1>5. IsFiniteSet(W \cup V)
        /\ Cardinality(W \cup V) = Cardinality(W) + Cardinality(V) - Cardinality(W \cap V)
    BY <1>4, FS_Union
  <1>6. IsFiniteSet(W \cap V)
    BY FS_Subset
  <1>7. Cardinality(W) \in Nat /\ Cardinality(V) \in Nat /\ Cardinality(H) \in Nat
        /\ Cardinality(W \cap V) \in Nat /\ Cardinality(W \cup V) \in Nat
    BY <1>4, <1>5, <1>6, FS_CardinalityType
  <1>. QED  BY <1>1, <1>4, <1>5, <1>7

(* The streams of a place are the viewers that watch and those of the      *)
(* requests that hold it, before a step and after it.                      *)
LEMMA StreamsFinite ==
    ASSUME NEW k
    PROVE  /\ IsFiniteSet(Watching(k)) /\ IsFiniteSet(Holding(k)) =>
                /\ IsFiniteSet(Watching(k) \cup {request[r].viewer : r \in Holding(k)})
                /\ Streams(k) \in Nat
                /\ Streams(k) <= Cardinality(Watching(k)) + Cardinality(Holding(k))
           /\ IsFiniteSet(Watching(k)') /\ IsFiniteSet(Holding(k)') =>
                /\ Streams(k)' \in Nat
                /\ Streams(k)' <= Cardinality(Watching(k)') + Cardinality(Holding(k)')
  <1>1. ASSUME NEW W, IsFiniteSet(W), NEW H, IsFiniteSet(H), NEW q,
               NEW S, S = W \cup {q[r].viewer : r \in H}
        PROVE  IsFiniteSet(S) /\ Cardinality(S) \in Nat /\ Cardinality(S) <= Cardinality(W) + Cardinality(H)
    BY <1>1, ViewersAndRequests
  <1>2. IsFiniteSet(Watching(k)) /\ IsFiniteSet(Holding(k)) =>
          /\ IsFiniteSet(Watching(k) \cup {request[r].viewer : r \in Holding(k)})
          /\ Cardinality(Watching(k) \cup {request[r].viewer : r \in Holding(k)}) \in Nat
          /\ Cardinality(Watching(k) \cup {request[r].viewer : r \in Holding(k)})
               <= Cardinality(Watching(k)) + Cardinality(Holding(k))
    BY <1>1
  <1>3. IsFiniteSet(Watching(k)') /\ IsFiniteSet(Holding(k)') =>
          /\ Cardinality(Watching(k)' \cup {request'[r].viewer : r \in Holding(k)'}) \in Nat
          /\ Cardinality(Watching(k)' \cup {request'[r].viewer : r \in Holding(k)'})
               <= Cardinality(Watching(k)') + Cardinality(Holding(k)')
    BY <1>1
  <1>. QED  BY <1>2, <1>3 DEF Streams

(* Fewer viewers and fewer requests make fewer streams.                    *)
LEMMA FewerStreams ==
    ASSUME AdmissionInv, NEW k \in Places,
           Watching(k)' \cup {request'[r].viewer : r \in Holding(k)'}
             \subseteq Watching(k) \cup {request[r].viewer : r \in Holding(k)}
    PROVE  Streams(k)' \in Nat /\ Streams(k)' <= Streams(k)
  <1>1. IsFiniteSet(Watching(k) \cup {request[r].viewer : r \in Holding(k)}) /\ Streams(k) \in Nat
    BY StreamsFinite DEF AdmissionInv, CountsFinite
  <1>2. PICK S : S = Watching(k) \cup {request[r].viewer : r \in Holding(k)}
    OBVIOUS
  <1>3. PICK T : T = Watching(k)' \cup {request'[r].viewer : r \in Holding(k)'}
    OBVIOUS
  <1>4. IsFiniteSet(T) /\ Cardinality(T) <= Cardinality(S)
    BY <1>1, <1>2, <1>3, FS_Subset
  <1>5. Cardinality(T) \in Nat
    BY <1>4, FS_CardinalityType
  <1>. QED  BY <1>2, <1>3, <1>4, <1>5 DEF Streams

(* What a step has to show about the viewers and the handlers it leaves.   *)
LEMMA StillWatching ==
    ASSUME UNCHANGED viewer
    PROVE  \A k : Watching(k)' = Watching(k)
  BY DEF Watching, Active

LEMMA LiveWhileNoneExpires ==
    ASSUME AdmissionInv
    PROVE  /\ LiveReservations \in [Places -> Seq(Requests)]
           /\ expired = {} => LiveReservations = reservations
  <1>1. ASSUME NEW k \in Places
        PROVE  Omitting(reservations[k], expired) \in Seq(Requests)
    <2>1. reservations[k] \in Seq(Requests)
      BY DEF AdmissionInv, AdmissionTypeOK
    <2>. QED  BY <2>1, OmittingMembers
  <1>2. ASSUME NEW k \in Places, expired = {}
        PROVE  Omitting(reservations[k], expired) = reservations[k]
    <2>1. reservations[k] \in Seq(Requests)
      BY DEF AdmissionInv, AdmissionTypeOK
    <2>. QED  BY <1>2, <2>1, OmittingNothing
  <1>. QED  BY <1>1, <1>2 DEF LiveReservations, AdmissionInv, AdmissionTypeOK

-----------------------------------------------------------------------------

(* A step that moves one handler and lets nobody watch nor hold: the rest  *)
(* of the invariant follows.                                               *)
LEMMA NobodyGains ==
    ASSUME AdmissionInv, AdmissionTypeOK', HandlersOK',
           UNCHANGED expired,
           \A r \in Requests : request[r].overlapped => request'[r].overlapped,
           \A k \in Places : Watching(k)' \subseteq Watching(k),
           \A k \in Places : Holding(k)' \subseteq Holding(k),
           \A r \in Requests, k \in Places : r \in Holding(k)' => request'[r].viewer = request[r].viewer,
           expired = {} => \A k \in Places : Len(reservations'[k]) = Cardinality(Holding(k)'),
           \A r \in Requests : request'[r].pc = "counted" =>
              \/ /\ request[r] = request'[r]
              \/ /\ request'[r].count = [k \in KeysOf(request'[r].by) |-> Cardinality(Watching(k)')]
    PROVE  AdmissionInv'
  <1>1. CountsFinite'
    BY FS_Subset DEF AdmissionInv, CountsFinite
  <1>2. ReservationsMatch'
    BY DEF ReservationsMatch
  <1>3. ASSUME NEW k \in Places
        PROVE  Cardinality(Watching(k)') \in Nat /\ Cardinality(Watching(k)) \in Nat
               /\ Cardinality(Watching(k)') <= Cardinality(Watching(k))
    BY <1>1, FS_Subset, FS_CardinalityType DEF AdmissionInv, CountsFinite
  <1>4. ASSUME NEW r \in Requests, request'[r].pc = "counted"
        PROVE  /\ request'[r].count \in [KeysOf(request'[r].by) -> Nat]
               /\ ~request'[r].overlapped =>
                    \A k \in KeysOf(request'[r].by) : Cardinality(Watching(k)') <= request'[r].count[k]
    <2>0. KeysOf(request'[r].by) \subseteq Places
      BY KeysArePlaces DEF AdmissionTypeOK, Handlers
    <2>1. CASE request[r] = request'[r]
      <3>1. /\ request[r].count \in [KeysOf(request[r].by) -> Nat]
            /\ ~request[r].overlapped =>
                 \A k \in KeysOf(request[r].by) : Cardinality(Watching(k)) <= request[r].count[k]
        BY <1>4, <2>1 DEF AdmissionInv, CountsFresh
      <3>. QED  BY <3>1, <2>0, <2>1, <1>3
    <2>2. CASE request'[r].count = [k \in KeysOf(request'[r].by) |-> Cardinality(Watching(k)')]
      BY <2>0, <2>2, <1>3
    <2>. QED  BY <1>4, <2>1, <2>2
  <1>5. CountsFresh'
    BY <1>4 DEF CountsFresh
  <1>6. ASSUME NEW k \in Places
        PROVE  Streams(k)' > LimitOf(k) => Overlapped' \/ expired' # {}
    <2>0. Watching(k)' \cup {request'[r].viewer : r \in Holding(k)'}
             \subseteq Watching(k) \cup {request[r].viewer : r \in Holding(k)}
      BY DEF Holding
    <2>1. Streams(k)' \in Nat /\ Streams(k)' <= Streams(k)
      BY <2>0, FewerStreams
    <2>2. Streams(k) \in Nat
      BY StreamsFinite DEF AdmissionInv, CountsFinite
    <2>3. Streams(k) > LimitOf(k) => Overlapped \/ expired # {}
      BY DEF AdmissionInv, OverLimitOnlyByOverlap
    <2>4. Overlapped => Overlapped'
      BY DEF Overlapped
    <2>. QED  BY <2>1, <2>2, <2>3, <2>4, LimitsPositive
  <1>7. OverLimitOnlyByOverlap'
    BY <1>6 DEF OverLimitOnlyByOverlap, LimitOf
  <1>. QED  BY <1>1, <1>2, <1>5, <1>7 DEF AdmissionInv


(* One handler goes on and nobody watches or holds anything else.          *)
LEMMA OneHandler ==
    ASSUME AdmissionInv, UNCHANGED <<viewer, expired>>,
           NEW r \in Requests, NEW h \in Handlers, request' = [request EXCEPT ![r] = h],
           reservations' = reservations \/ reservations' = LiveReservations,
           h.pc \in {"arrived", "counted"} \cup Handling => h.by \in Credentials /\ h.viewer \in Viewers,
           h.pc \in {"new", "arrived", "counted"} => h.keys = {},
           h.overlapped = request[r].overlapped,
           IF h.pc \in Handling /\ request[r].pc \in Handling
           THEN h.keys = request[r].keys /\ h.viewer = request[r].viewer
           ELSE /\ h.pc \in Handling => h.keys = {}
                /\ request[r].pc \in Handling => request[r].keys = {},
           h.pc = "counted" => h.count = [k \in KeysOf(h.by) |-> Cardinality(Watching(k))]
    PROVE  AdmissionInv'
  <1>0. request \in [Requests -> Handlers] /\ request'[r] = h
        /\ \A q \in Requests \ {r} : request'[q] = request[q]
    BY DEF AdmissionInv, AdmissionTypeOK
  <1>1. AdmissionTypeOK'
    BY LiveWhileNoneExpires DEF AdmissionInv, AdmissionTypeOK
  <1>2. HandlersOK'
    BY <1>0 DEF AdmissionInv, HandlersOK, Active
  <1>3. \A k \in Places : Watching(k)' = Watching(k)
    BY StillWatching
  <1>4. ASSUME NEW k \in Places, NEW q \in Requests
        PROVE  q \in Holding(k)' <=> q \in Holding(k)
    <2>1. CASE q = r
      BY <1>0, <2>1 DEF Holding, Handling
    <2>2. CASE q # r
      BY <1>0, <2>2 DEF Holding
    <2>. QED  BY <2>1, <2>2
  <1>5. \A k \in Places : Holding(k)' = Holding(k)
    BY <1>4 DEF Holding
  <1>6. expired = {} => reservations' = reservations
    BY LiveWhileNoneExpires
  <1>7. expired = {} => \A k \in Places : Len(reservations'[k]) = Cardinality(Holding(k)')
    BY <1>5, <1>6 DEF AdmissionInv, ReservationsMatch
  <1>8. ASSUME NEW q \in Requests, NEW k \in Places, q \in Holding(k)'
        PROVE  request'[q].viewer = request[q].viewer
    <2>1. CASE q = r
      BY <1>0, <2>1, <1>8 DEF Holding, Handling
    <2>2. CASE q # r
      BY <1>0, <2>2
    <2>. QED  BY <2>1, <2>2
  <1>9. ASSUME NEW q \in Requests, request'[q].pc = "counted"
        PROVE  \/ request[q] = request'[q]
               \/ request'[q].count = [k \in KeysOf(request'[q].by) |-> Cardinality(Watching(k)')]
    <2>1. CASE q = r
      <3>1. KeysOf(h.by) \subseteq Places
        BY KeysArePlaces DEF Handlers
      <3>. QED  BY <1>0, <1>3, <1>9, <2>1, <3>1
    <2>2. CASE q # r
      BY <1>0, <2>2
    <2>. QED  BY <2>1, <2>2
  <1>10. \A q \in Requests : request[q].overlapped => request'[q].overlapped
    BY <1>0
  <1>. QED  BY <1>1, <1>2, <1>3, <1>5, <1>7, <1>8, <1>9, <1>10, NobodyGains

(* A handler that has answered keeps no locals.                            *)
LEMMA Answered ==
    ASSUME AdmissionInv, NEW r \in Requests, NEW pc \in {"refused", "throttled", "done"}
    PROVE  \E h \in Handlers : /\ Answer(r, pc) = [request EXCEPT ![r] = h]
                               /\ h.pc = pc /\ h.keys = {} /\ h.overlapped = request[r].overlapped
  <1>1. PICK o \in BOOLEAN : o = request[r].overlapped
    BY DEF AdmissionInv, AdmissionTypeOK, Handlers
  <1>2. NewRequest \in Handlers /\ NewRequest.keys = {}
    BY DEF NewRequest, Handlers, Counts, Stages
  <1>3. PICK g : g = [NewRequest EXCEPT !.pc = pc]
    OBVIOUS
  <1>4. g \in Handlers /\ g.pc = pc /\ g.keys = {}
    BY <1>2, <1>3 DEF Handlers, Stages
  <1>5. PICK h : h = [g EXCEPT !.overlapped = o]
    OBVIOUS
  <1>6. h \in Handlers /\ h.pc = pc /\ h.keys = {} /\ h.overlapped = o
    BY <1>1, <1>4, <1>5 DEF Handlers
  <1>7. Answer(r, pc) = [request EXCEPT ![r] = h]
    BY <1>1, <1>3, <1>5 DEF Answer
  <1>. QED  BY <1>1, <1>6, <1>7

LEMMA ArriveKeeps ==
    ASSUME AdmissionInv, NEW r \in Requests, NEW c \in Credentials, NEW v \in Viewers, Arrive(r, c, v)
    PROVE  AdmissionInv'
  <1>0. request[r] \in Handlers /\ request[r].pc = "new" /\ request[r].keys = {}
    BY DEF AdmissionInv, AdmissionTypeOK, HandlersOK, Arrive
  <1>1. PICK pc \in {"admitted", "arrived"} :
          request' = [request EXCEPT ![r].pc = pc, ![r].by = c, ![r].viewer = v]
    BY DEF Arrive
  <1>2. PICK h : h = [request[r] EXCEPT !.pc = pc, !.by = c, !.viewer = v]
    OBVIOUS
  <1>3. h \in Handlers /\ h.pc = pc /\ h.by = c /\ h.viewer = v /\ h.keys = {}
        /\ h.overlapped = request[r].overlapped
    BY <1>0, <1>2 DEF Handlers, Stages, Handling
  <1>4. request' = [request EXCEPT ![r] = h]
    BY <1>1, <1>2 DEF AdmissionInv, AdmissionTypeOK
  <1>. QED  BY <1>0, <1>3, <1>4, OneHandler DEF Arrive, Handling

LEMMA CountKeeps ==
    ASSUME AdmissionInv, NEW r \in Requests, CountViewers(r)
    PROVE  AdmissionInv'
  <1>0. request[r] \in Handlers /\ request[r].pc = "arrived" /\ request[r].keys = {}
        /\ request[r].by \in Credentials /\ request[r].viewer \in Viewers
    BY DEF AdmissionInv, AdmissionTypeOK, HandlersOK, CountViewers
  <1>1. PICK n : n = [k \in KeysOf(request[r].by) |-> Cardinality(Watching(k))]
    OBVIOUS
  <1>2. n \in Counts
    <2>1. KeysOf(request[r].by) \in SUBSET Places
      BY <1>0, KeysArePlaces
    <2>2. \A k \in Places : Cardinality(Watching(k)) \in Nat
      BY FS_CardinalityType DEF AdmissionInv, CountsFinite
    <2>3. n \in [KeysOf(request[r].by) -> Nat]
      BY <1>1, <2>1, <2>2
    <2>. QED  BY <2>1, <2>3 DEF Counts
  <1>3. PICK h : h = [request[r] EXCEPT !.pc = "counted", !.count = n]
    OBVIOUS
  <1>4. h \in Handlers /\ h.pc = "counted" /\ h.by = request[r].by /\ h.viewer = request[r].viewer
        /\ h.keys = {} /\ h.overlapped = request[r].overlapped /\ h.count = n
    BY <1>0, <1>2, <1>3 DEF Handlers, Stages
  <1>5. request' = [request EXCEPT ![r] = h]
    BY <1>1, <1>3 DEF AdmissionInv, AdmissionTypeOK, CountViewers
  <1>. QED  BY <1>0, <1>1, <1>4, <1>5, OneHandler DEF CountViewers, Handling

LEMMA RefuseKeeps ==
    ASSUME AdmissionInv, NEW r \in Requests, RefuseStart(r) \/ RefuseRate(r)
    PROVE  AdmissionInv'
  <1>1. PICK pc \in {"refused", "throttled"} : request' = Answer(r, pc)
    BY DEF RefuseStart, RefuseRate
  <1>2. PICK h \in Handlers : /\ Answer(r, pc) = [request EXCEPT ![r] = h]
                              /\ h.pc = pc /\ h.keys = {} /\ h.overlapped = request[r].overlapped
    BY Answered
  <1>3. request[r].pc = "counted" /\ UNCHANGED <<viewer, expired>> /\ reservations' = LiveReservations
    BY DEF RefuseStart, RefuseRate
  <1>. QED  BY <1>1, <1>2, <1>3, OneHandler DEF Handling

LEMMA StartFailsKeeps ==
    ASSUME AdmissionInv, NEW r \in Requests, StartFails(r)
    PROVE  AdmissionInv'
  <1>0. request[r] \in Handlers /\ request[r].pc = "admitted"
        /\ request[r].by \in Credentials /\ request[r].viewer \in Viewers
    BY DEF AdmissionInv, AdmissionTypeOK, HandlersOK, StartFails, Handling
  <1>3. PICK h : h = [request[r] EXCEPT !.pc = "failed"]
    OBVIOUS
  <1>4. h \in Handlers /\ h.pc = "failed" /\ h.by = request[r].by /\ h.viewer = request[r].viewer
        /\ h.keys = request[r].keys /\ h.overlapped = request[r].overlapped
    BY <1>0, <1>3 DEF Handlers, Stages, Handling
  <1>5. request' = [request EXCEPT ![r] = h]
    BY <1>3 DEF AdmissionInv, AdmissionTypeOK, StartFails
  <1>. QED  BY <1>0, <1>4, <1>5, OneHandler DEF StartFails, Handling


LEMMA AdmitKeeps ==
    ASSUME AdmissionInv, NEW r \in Requests, AdmitStreamStart(r)
    PROVE  AdmissionInv'
  <1>0. request[r] \in Handlers /\ request[r].pc = "counted" /\ request[r].keys = {}
        /\ request[r].by \in Credentials /\ request[r].viewer \in Viewers
    BY DEF AdmissionInv, AdmissionTypeOK, HandlersOK, AdmitStreamStart
  <1>1. PICK K \in SUBSET Places : K = KeysOf(request[r].by)
    BY <1>0, KeysArePlaces
  <1>2. PICK h : h = [request[r] EXCEPT !.pc = "admitted", !.keys = K, !.count = <<>>]
    OBVIOUS
  <1>3. h \in Handlers /\ h.pc = "admitted" /\ h.by = request[r].by /\ h.viewer = request[r].viewer
        /\ h.keys = K /\ h.overlapped = request[r].overlapped
    BY <1>0, <1>1, <1>2 DEF Handlers, Stages, Handling, Counts
  <1>4. request' = [request EXCEPT ![r] = h]
    BY <1>1, <1>2 DEF AdmissionInv, AdmissionTypeOK, AdmitStreamStart
  <1>5. request'[r] = h /\ \A q \in Requests \ {r} : request'[q] = request[q]
    BY <1>4 DEF AdmissionInv, AdmissionTypeOK
  <1>6. UNCHANGED <<viewer, expired>>
        /\ reservations' = [k \in Places |-> IF k \in K THEN Append(LiveReservations[k], r)
                                             ELSE LiveReservations[k]]
    BY <1>1 DEF AdmitStreamStart
  <1>7. AdmissionTypeOK'
    <2>1. reservations' \in [Places -> Seq(Requests)]
      BY <1>6, LiveWhileNoneExpires
    <2>. QED  BY <2>1, <1>3, <1>4, <1>6 DEF AdmissionInv, AdmissionTypeOK
  <1>8. HandlersOK'
    BY <1>0, <1>3, <1>5, <1>6 DEF AdmissionInv, HandlersOK, Active, Handling
  <1>9. \A k \in Places : Watching(k)' = Watching(k)
    BY <1>6, StillWatching
  <1>10. ASSUME NEW k \in Places
         PROVE  Holding(k)' = IF k \in K THEN Holding(k) \cup {r} ELSE Holding(k)
    <2>1. r \notin Holding(k)
      BY <1>0 DEF Holding
    <2>2. r \in Holding(k)' <=> k \in K
      BY <1>3, <1>5 DEF Holding
    <2>3. \A q \in Requests \ {r} : q \in Holding(k)' <=> q \in Holding(k)
      BY <1>5 DEF Holding
    <2>. QED  BY <2>1, <2>2, <2>3 DEF Holding
  <1>11. ASSUME NEW k \in Places
         PROVE  /\ IsFiniteSet(Holding(k)') /\ Cardinality(Holding(k)) \in Nat
                /\ Cardinality(Holding(k)') = IF k \in K THEN Cardinality(Holding(k)) + 1
                                              ELSE Cardinality(Holding(k))
    <2>1. IsFiniteSet(Holding(k)) /\ r \notin Holding(k)
      BY <1>0 DEF AdmissionInv, CountsFinite, Holding
    <2>. QED  BY <1>10, <2>1, FS_AddElement, FS_CardinalityType
  <1>12. CountsFinite'
    BY <1>9, <1>11 DEF AdmissionInv, CountsFinite
  <1>13. ASSUME NEW k \in Places, expired = {}
         PROVE  Len(reservations'[k]) = Cardinality(Holding(k)')
    <2>1. LiveReservations = reservations /\ reservations[k] \in Seq(Requests)
      BY <1>13, LiveWhileNoneExpires DEF AdmissionInv, AdmissionTypeOK
    <2>2. Len(reservations[k]) = Cardinality(Holding(k))
      BY <1>13 DEF AdmissionInv, ReservationsMatch
    <2>3. CASE k \in K
      <3>1. reservations'[k] = Append(reservations[k], r)
        BY <1>6, <2>1, <2>3
      <3>. QED  BY <3>1, <2>1, <2>2, <2>3, <1>11
    <2>4. CASE k \notin K
      BY <1>6, <1>11, <2>1, <2>2, <2>4
    <2>. QED  BY <2>3, <2>4
  <1>14. ReservationsMatch'
    BY <1>6, <1>13 DEF ReservationsMatch
  <1>15. CountsFresh'
    <2>1. ASSUME NEW q \in Requests, request'[q].pc = "counted"
          PROVE  /\ request'[q].count \in [KeysOf(request'[q].by) -> Nat]
                 /\ ~request'[q].overlapped =>
                      \A k \in KeysOf(request'[q].by) : Cardinality(Watching(k)') <= request'[q].count[k]
      <3>1. q # r /\ request'[q] = request[q]
        BY <1>3, <1>5, <2>1
      <3>2. KeysOf(request[q].by) \subseteq Places
        BY KeysArePlaces DEF AdmissionInv, AdmissionTypeOK, Handlers
      <3>. QED  BY <3>1, <3>2, <2>1, <1>9 DEF AdmissionInv, CountsFresh
    <2>. QED  BY <2>1 DEF CountsFresh
  <1>16. ASSUME NEW k \in Places, ~Overlapped', expired' = {}
         PROVE  Streams(k)' <= LimitOf(k)
    <2>0. ~Overlapped /\ ~request[r].overlapped /\ expired = {}
      BY <1>16, <1>3, <1>5, <1>6 DEF Overlapped
    <2>1. CASE k \in K
      <3>1. Streams(k)' \in Nat /\ Streams(k)' <= Cardinality(Watching(k)') + Cardinality(Holding(k)')
        <4>1. IsFiniteSet(Watching(k)') /\ IsFiniteSet(Holding(k)')
          BY <1>12 DEF CountsFinite
        <4>. QED  BY <4>1, StreamsFinite
      <3>2. request[r].count \in [K -> Nat] /\ Cardinality(Watching(k)) <= request[r].count[k]
        BY <1>0, <1>1, <2>0, <2>1 DEF AdmissionInv, CountsFresh
      <3>3. ~(request[r].count[k] + Len(LiveReservations[k]) >= LimitOf(k))
        BY <1>1, <2>1 DEF AdmitStreamStart, AtLimit
      <3>4. Len(LiveReservations[k]) = Cardinality(Holding(k))
        BY <2>0, LiveWhileNoneExpires DEF AdmissionInv, ReservationsMatch
      <3>5. Cardinality(Watching(k)) \in Nat /\ request[r].count[k] \in Nat /\ LimitOf(k) \in Nat
        BY <2>1, <3>2, FS_CardinalityType, LimitsPositive DEF AdmissionInv, CountsFinite
      <3>. QED  BY <3>1, <3>2, <3>3, <3>4, <3>5, <2>1, <1>9, <1>11
    <2>2. CASE k \notin K
      <3>1. Watching(k)' \cup {request'[q].viewer : q \in Holding(k)'}
              \subseteq Watching(k) \cup {request[q].viewer : q \in Holding(k)}
        <4>1. \A q \in Holding(k) : q \in Requests /\ q # r
          BY <1>0 DEF Holding
        <4>. QED  BY <4>1, <1>5, <1>9, <1>10, <2>2
      <3>2. Streams(k)' \in Nat /\ Streams(k)' <= Streams(k)
        BY <3>1, FewerStreams
      <3>3. Streams(k) \in Nat
        BY StreamsFinite DEF AdmissionInv, CountsFinite
      <3>4. ~(Streams(k) > LimitOf(k))
        BY <2>0 DEF AdmissionInv, OverLimitOnlyByOverlap
      <3>. QED  BY <3>2, <3>3, <3>4, LimitsPositive
    <2>. QED  BY <2>1, <2>2
  <1>17. ASSUME NEW k \in Places
         PROVE  Streams(k)' \in Nat
    <2>1. IsFiniteSet(Watching(k)') /\ IsFiniteSet(Holding(k)')
      BY <1>12 DEF CountsFinite
    <2>. QED  BY <2>1, StreamsFinite
  <1>18. OverLimitOnlyByOverlap'
    BY <1>16, <1>17, LimitsPositive DEF OverLimitOnlyByOverlap, LimitOf
  <1>. QED  BY <1>7, <1>8, <1>12, <1>14, <1>15, <1>18 DEF AdmissionInv


(* RegisterClient: the new viewer was counted for the request that brings  *)
(* it, or the request is marked; whoever has counted without it is marked. *)
LEMMA RegisterKeeps ==
    ASSUME AdmissionInv, NEW r \in Requests, RegisterClient(r)
    PROVE  AdmissionInv'
  <1>0. request[r] \in Handlers /\ request[r].pc = "admitted"
        /\ request[r].by \in Credentials /\ request[r].viewer \in Viewers
        /\ \A q \in Requests : request[q] \in Handlers
    BY DEF AdmissionInv, AdmissionTypeOK, HandlersOK, RegisterClient, Handling
  <1>1. PICK v \in Viewers : v = request[r].viewer
    BY <1>0
  <1>2. PICK w : w = Registered(r)
    OBVIOUS
  <1>3. PICK late \in BOOLEAN : late = (Adds(r) /\ ~(KeysOf(w.by) \subseteq request[r].keys))
    OBVIOUS
  <1>4. w \in [by : Credentials, active : BOOLEAN] /\ w.active
        /\ (Active(v) => w = viewer[v])
    <2>0. viewer[v] \in [by : Credentials \cup {NoOwner}, active : BOOLEAN]
          /\ (viewer[v].active => viewer[v].by \in Credentials)
      BY DEF AdmissionInv, AdmissionTypeOK, HandlersOK, Active
    <2>1. CASE viewer[v].by = NoOwner
      <3>1. w = [by |-> request[r].by, active |-> TRUE]
        BY <1>1, <1>2, <2>1 DEF Registered
      <3>2. ~Active(v)
        BY <2>0, <2>1, AdmissionAssumption DEF Active
      <3>. QED  BY <3>1, <3>2, <1>0
    <2>2. CASE viewer[v].by # NoOwner
      <3>1. w = [viewer[v] EXCEPT !.active = TRUE]
        BY <1>1, <1>2, <2>2 DEF Registered
      <3>2. w = [by |-> viewer[v].by, active |-> TRUE] /\ viewer[v].by \in Credentials
        BY <2>0, <2>2, <3>1
      <3>3. Active(v) => viewer[v] = [by |-> viewer[v].by, active |-> TRUE]
        BY <2>0 DEF Active
      <3>. QED  BY <3>2, <3>3
    <2>. QED  BY <2>1, <2>2
  <1>5. viewer' = [viewer EXCEPT ![v] = w] /\ UNCHANGED <<reservations, expired>>
    BY <1>1, <1>2 DEF RegisterClient
  <1>6. PICK o \in BOOLEAN : o = (request[r].overlapped \/ late)
    OBVIOUS
  <1>7. PICK g : g = [request[r] EXCEPT !.pc = "registered"]
    OBVIOUS
  <1>8. PICK h : h = [g EXCEPT !.overlapped = o]
    OBVIOUS
  <1>9. g \in Handlers /\ h \in Handlers /\ h.pc = "registered" /\ h.by = request[r].by
        /\ h.viewer = v /\ h.keys = request[r].keys /\ h.overlapped = o
    <2>1. g \in Handlers /\ g.pc = "registered" /\ g.by = request[r].by /\ g.viewer = v
          /\ g.keys = request[r].keys
      BY <1>0, <1>1, <1>7 DEF Handlers, Stages, Handling
    <2>. QED  BY <2>1, <1>8, <1>6 DEF Handlers
  <1>10. request' = [q \in Requests |->
           CASE q = r -> h
             [] q # r /\ request[q].pc = "counted" /\ Adds(r) -> [request[q] EXCEPT !.overlapped = TRUE]
             [] OTHER -> request[q]]
    <2>1. h = [request[r] EXCEPT !.pc = "registered",
                 !.overlapped = @ \/ (Adds(r) /\ ~(KeysOf(Registered(r).by) \subseteq request[r].keys))]
      BY <1>2, <1>3, <1>6, <1>7, <1>8
    <2>. QED  BY <2>1 DEF RegisterClient
  <1>11. request'[r] = h
    BY <1>10
  <1>12. ASSUME NEW q \in Requests \ {r}
         PROVE  IF request[q].pc = "counted" /\ Adds(r)
                THEN request'[q] = [request[q] EXCEPT !.overlapped = TRUE]
                ELSE request'[q] = request[q]
    BY <1>10, <1>12
  <1>13. ASSUME NEW q \in Requests \ {r}
         PROVE  /\ request'[q] \in Handlers
                /\ request'[q].pc = request[q].pc /\ request'[q].by = request[q].by
                /\ request'[q].viewer = request[q].viewer /\ request'[q].count = request[q].count
                /\ request'[q].keys = request[q].keys
                /\ request[q].overlapped => request'[q].overlapped
                /\ request[q].pc = "counted" /\ ~request'[q].overlapped => ~Adds(r)
    <2>1. CASE request[q].pc = "counted" /\ Adds(r)
      <3>1. request'[q] = [request[q] EXCEPT !.overlapped = TRUE]
        BY <1>12, <2>1
      <3>. QED  BY <3>1, <1>0 DEF Handlers
    <2>2. CASE ~(request[q].pc = "counted" /\ Adds(r))
      <3>1. request'[q] = request[q]
        BY <1>12, <2>2
      <3>. QED  BY <3>1, <2>2, <1>0
    <2>. QED  BY <2>1, <2>2
  <1>14. AdmissionTypeOK'
    <2>1. request' \in [Requests -> Handlers]
      BY <1>9, <1>10, <1>11, <1>13
    <2>2. viewer' \in [Viewers -> [by : Credentials \cup {NoOwner}, active : BOOLEAN]]
      BY <1>4, <1>5 DEF AdmissionInv, AdmissionTypeOK
    <2>. QED  BY <2>1, <2>2, <1>5 DEF AdmissionInv, AdmissionTypeOK
  <1>15. HandlersOK'
    <2>1. ASSUME NEW q \in Requests
          PROVE  /\ request'[q].pc \in {"arrived", "counted"} \cup Handling =>
                      request'[q].by \in Credentials /\ request'[q].viewer \in Viewers
                 /\ request'[q].pc \in {"new", "arrived", "counted"} => request'[q].keys = {}
      <3>1. CASE q = r
        BY <3>1, <1>0, <1>9, <1>11
      <3>2. CASE q # r
        BY <3>2, <1>13 DEF AdmissionInv, HandlersOK
      <3>. QED  BY <3>1, <3>2
    <2>2. ASSUME NEW u \in Viewers, viewer'[u].active
          PROVE  viewer'[u].by \in Credentials
      BY <2>2, <1>4, <1>5 DEF AdmissionInv, AdmissionTypeOK, HandlersOK, Active
    <2>. QED  BY <2>1, <2>2 DEF HandlersOK, Active
  <1>16. ASSUME NEW k \in Places
         PROVE  /\ Watching(k)' \subseteq Watching(k) \cup {v}
                /\ v \in Watching(k)' => v \in Watching(k) \/ (Adds(r) /\ k \in KeysOf(w.by))
                /\ ~Adds(r) => Watching(k)' = Watching(k)
    <2>1. viewer'[v] = w /\ \A u \in Viewers \ {v} : viewer'[u] = viewer[u]
      BY <1>5 DEF AdmissionInv, AdmissionTypeOK
    <2>2. \A u \in Viewers \ {v} : u \in Watching(k)' <=> u \in Watching(k)
      BY <2>1 DEF Watching, Active
    <2>3. v \in Watching(k)' <=> k \in KeysOf(w.by)
      BY <2>1, <1>4 DEF Watching, Active
    <2>4. Adds(r) <=> ~Active(v)
      BY <1>1 DEF Adds
    <2>5. ~Adds(r) => (v \in Watching(k) <=> k \in KeysOf(w.by))
      BY <2>4, <1>4 DEF Watching
    <2>6. Watching(k) \subseteq Viewers /\ Watching(k)' \subseteq Viewers
      BY DEF Watching
    <2>. QED  BY <2>2, <2>3, <2>5, <2>6
  <1>17. ASSUME NEW k \in Places
         PROVE  Holding(k)' = Holding(k)
    <2>1. r \in Holding(k)' <=> r \in Holding(k)
      BY <1>0, <1>9, <1>11 DEF Holding
    <2>2. \A q \in Requests \ {r} : q \in Holding(k)' <=> q \in Holding(k)
      BY <1>13 DEF Holding
    <2>. QED  BY <2>1, <2>2 DEF Holding
  <1>18. CountsFinite'
    <2>1. ASSUME NEW k \in Places
          PROVE  IsFiniteSet(Watching(k)')
      <3>1. IsFiniteSet(Watching(k) \cup {v})
        BY FS_AddElement DEF AdmissionInv, CountsFinite
      <3>. QED  BY <3>1, <1>16, FS_Subset
    <2>. QED  BY <2>1, <1>17 DEF AdmissionInv, CountsFinite
  <1>19. ReservationsMatch'
    BY <1>5, <1>17 DEF AdmissionInv, ReservationsMatch
  <1>20. CountsFresh'
    <2>1. ASSUME NEW q \in Requests, request'[q].pc = "counted"
          PROVE  /\ request'[q].count \in [KeysOf(request'[q].by) -> Nat]
                 /\ ~request'[q].overlapped =>
                      \A k \in KeysOf(request'[q].by) : Cardinality(Watching(k)') <= request'[q].count[k]
      <3>1. q # r
        BY <2>1, <1>9, <1>11
      <3>2. /\ request[q].count \in [KeysOf(request[q].by) -> Nat]
            /\ ~request[q].overlapped =>
                 \A k \in KeysOf(request[q].by) : Cardinality(Watching(k)) <= request[q].count[k]
        BY <3>1, <2>1, <1>13 DEF AdmissionInv, CountsFresh
      <3>3. KeysOf(request[q].by) \subseteq Places
        BY <1>0, KeysArePlaces DEF Handlers
      <3>4. ~request'[q].overlapped => \A k \in Places : Watching(k)' = Watching(k)
        BY <3>1, <2>1, <1>13, <1>16
      <3>. QED  BY <3>1, <3>2, <3>3, <3>4, <1>13
    <2>. QED  BY <2>1 DEF CountsFresh
  <1>21. ASSUME NEW k \in Places, ~Overlapped', expired' = {}
         PROVE  Streams(k)' <= LimitOf(k)
    <2>1. ~o /\ \A q \in Requests : ~request'[q].overlapped
      BY <1>9, <1>11, <1>21 DEF Overlapped
    <2>2. ~Overlapped /\ expired = {}
      <3>1. ~request[r].overlapped
        BY <2>1, <1>6
      <3>. QED  BY <3>1, <2>1, <1>5, <1>13, <1>21 DEF Overlapped
    <2>3. v \in Watching(k)' => v \in Watching(k) \/ r \in Holding(k)
      <3>1. Adds(r) => KeysOf(w.by) \subseteq request[r].keys
        BY <2>1, <1>3, <1>6
      <3>2. k \in request[r].keys => r \in Holding(k)
        BY <1>0 DEF Holding
      <3>. QED  BY <3>1, <3>2, <1>16
    <2>4. \A q \in Holding(k) : request'[q].viewer = request[q].viewer
      BY <1>1, <1>9, <1>11, <1>13 DEF Holding
    <2>5. Watching(k)' \cup {request'[q].viewer : q \in Holding(k)'}
            \subseteq Watching(k) \cup {request[q].viewer : q \in Holding(k)}
      BY <2>3, <2>4, <1>1, <1>16, <1>17
    <2>6. Streams(k)' \in Nat /\ Streams(k)' <= Streams(k)
      BY <2>5, FewerStreams
    <2>7. Streams(k) \in Nat
      BY StreamsFinite DEF AdmissionInv, CountsFinite
    <2>8. ~(Streams(k) > LimitOf(k))
      BY <2>2 DEF AdmissionInv, OverLimitOnlyByOverlap
    <2>. QED  BY <2>6, <2>7, <2>8, LimitsPositive
  <1>22. ASSUME NEW k \in Places
         PROVE  Streams(k)' \in Nat
    <2>1. IsFiniteSet(Watching(k)') /\ IsFiniteSet(Holding(k)')
      BY <1>18 DEF CountsFinite
    <2>. QED  BY <2>1, StreamsFinite
  <1>23. OverLimitOnlyByOverlap'
    BY <1>21, <1>22, LimitsPositive DEF OverLimitOnlyByOverlap, LimitOf
  <1>. QED  BY <1>14, <1>15, <1>18, <1>19, <1>20, <1>23 DEF AdmissionInv

(* Release: each place loses one entry and one holder.                     *)
LEMMA ReleaseKeeps ==
    ASSUME AdmissionInv, NEW r \in Requests, ReleaseReservation(r)
    PROVE  AdmissionInv'
  <1>0. request[r] \in Handlers /\ request[r].pc \in {"registered", "failed"}
        /\ request[r].keys \subseteq Places
    BY DEF AdmissionInv, AdmissionTypeOK, ReleaseReservation, Handlers
  <1>1. PICK h \in Handlers : /\ Answer(r, "done") = [request EXCEPT ![r] = h]
                              /\ h.pc = "done" /\ h.keys = {} /\ h.overlapped = request[r].overlapped
    BY Answered
  <1>2. /\ request' = [request EXCEPT ![r] = h] /\ UNCHANGED <<viewer, expired>>
        /\ reservations' = [k \in Places |-> IF k \in request[r].keys THEN Shortened(k) ELSE reservations[k]]
    BY <1>1 DEF ReleaseReservation, Released
  <1>3. request'[r] = h /\ \A q \in Requests \ {r} : request'[q] = request[q]
    BY <1>2 DEF AdmissionInv, AdmissionTypeOK
  <1>4. ASSUME NEW k \in Places
        PROVE  /\ Shortened(k) \in Seq(Requests)
               /\ Len(reservations[k]) # 0 => Len(Shortened(k)) = Len(reservations[k]) - 1
    <2>1. reservations[k] \in Seq(Requests)
      BY DEF AdmissionInv, AdmissionTypeOK
    <2>2. CASE Len(reservations[k]) <= 1
      <3>1. Shortened(k) = <<>> /\ Len(reservations[k]) \in Nat
        BY <2>1, <2>2 DEF Shortened
      <3>2. <<>> \in Seq(Requests) /\ Len(<<>>) = 0
        OBVIOUS
      <3>3. PICK n \in Nat : n = Len(reservations[k])
        BY <3>1
      <3>4. n <= 1
        BY <2>2, <3>3
      <3>5. n # 0 => 0 = n - 1
        BY <3>4
      <3>6. PICK e : e = Shortened(k)
        OBVIOUS
      <3>7. e \in Seq(Requests) /\ Len(e) = 0
        BY <3>1, <3>2, <3>6
      <3>. QED  BY <3>3, <3>5, <3>6, <3>7
    <2>3. CASE ~(Len(reservations[k]) <= 1)
      <3>1. reservations[k] # <<>> /\ Shortened(k) = Tail(reservations[k])
        BY <2>1, <2>3 DEF Shortened
      <3>2. Tail(reservations[k]) \in Seq(Requests) /\ Len(Tail(reservations[k])) = Len(reservations[k]) - 1
        BY <2>1, <3>1, HeadTailProperties
      <3>. QED  BY <3>1, <3>2
    <2>. QED  BY <2>2, <2>3
  <1>5. AdmissionTypeOK'
    BY <1>2, <1>4 DEF AdmissionInv, AdmissionTypeOK
  <1>6. HandlersOK'
    BY <1>1, <1>2, <1>3 DEF AdmissionInv, HandlersOK, Active, Handling
  <1>7. \A k \in Places : Watching(k)' = Watching(k)
    BY <1>2, StillWatching
  <1>8. ASSUME NEW k \in Places
        PROVE  Holding(k)' = Holding(k) \ {r} /\ (r \in Holding(k) <=> k \in request[r].keys)
    <2>1. r \notin Holding(k)' /\ (r \in Holding(k) <=> k \in request[r].keys)
      BY <1>0, <1>1, <1>3 DEF Holding
    <2>2. \A q \in Requests \ {r} : q \in Holding(k)' <=> q \in Holding(k)
      BY <1>3 DEF Holding
    <2>. QED  BY <2>1, <2>2 DEF Holding
  <1>9. ASSUME NEW k \in Places, expired = {}
        PROVE  Len(reservations'[k]) = Cardinality(Holding(k)')
    <2>1. IsFiniteSet(Holding(k)) /\ Len(reservations[k]) = Cardinality(Holding(k))
      BY <1>9 DEF AdmissionInv, CountsFinite, ReservationsMatch
    <2>2. Cardinality(Holding(k)') = IF r \in Holding(k) THEN Cardinality(Holding(k)) - 1
                                     ELSE Cardinality(Holding(k))
      BY <1>8, <2>1, FS_RemoveElement
    <2>3. CASE k \in request[r].keys
      <3>1. Cardinality(Holding(k)) # 0
        BY <1>8, <2>1, <2>3, FS_EmptySet
      <3>. QED  BY <3>1, <2>1, <2>2, <2>3, <1>2, <1>4, <1>8
    <2>4. CASE k \notin request[r].keys
      BY <2>1, <2>2, <2>4, <1>2, <1>8
    <2>. QED  BY <2>3, <2>4
  <1>10. ASSUME NEW q \in Requests, NEW k \in Places, q \in Holding(k)'
         PROVE  request'[q].viewer = request[q].viewer
    BY <1>10, <1>8, <1>3
  <1>11. ASSUME NEW q \in Requests, request'[q].pc = "counted"
         PROVE  request[q] = request'[q]
    BY <1>11, <1>1, <1>3
  <1>12. \A q \in Requests : request[q].overlapped => request'[q].overlapped
    BY <1>1, <1>3
  <1>13. \A k \in Places : Holding(k)' \subseteq Holding(k)
    BY <1>8
  <1>. QED  BY <1>2, <1>5, <1>6, <1>7, <1>9, <1>10, <1>11, <1>12, <1>13, NobodyGains

LEMMA LeavesKeeps ==
    ASSUME AdmissionInv, NEW v \in Viewers, ViewerLeaves(v)
    PROVE  AdmissionInv'
  <1>1. PICK w \in [by : Credentials \cup {NoOwner}, active : BOOLEAN] :
          viewer' = [viewer EXCEPT ![v] = w] /\ ~w.active
    <2>1. viewer[v] \in [by : Credentials \cup {NoOwner}, active : BOOLEAN]
      BY DEF AdmissionInv, AdmissionTypeOK
    <2>2. PICK w : w = [viewer[v] EXCEPT !.active = FALSE]
      OBVIOUS
    <2>3. w \in [by : Credentials \cup {NoOwner}, active : BOOLEAN] /\ ~w.active
      BY <2>1, <2>2
    <2>4. CASE viewer' = [viewer EXCEPT ![v].active = FALSE]
      <3>1. viewer' = [viewer EXCEPT ![v] = w]
        BY <2>2, <2>4
      <3>. QED  BY <2>3, <3>1
    <2>5. CASE viewer' = [viewer EXCEPT ![v] = Absent]
      <3>1. Absent \in [by : Credentials \cup {NoOwner}, active : BOOLEAN] /\ ~Absent.active
        BY DEF Absent
      <3>. QED  BY <2>5, <3>1
    <2>. QED  BY <2>4, <2>5 DEF ViewerLeaves
  <1>2. UNCHANGED <<request, reservations, expired>>
    BY DEF ViewerLeaves
  <1>3. viewer'[v] = w /\ \A u \in Viewers \ {v} : viewer'[u] = viewer[u]
    BY <1>1 DEF AdmissionInv, AdmissionTypeOK
  <1>4. AdmissionTypeOK'
    BY <1>1, <1>2 DEF AdmissionInv, AdmissionTypeOK
  <1>5. HandlersOK'
    BY <1>1, <1>2, <1>3 DEF AdmissionInv, HandlersOK, Active
  <1>6. ASSUME NEW k \in Places, NEW u \in Watching(k)'
        PROVE  u \in Watching(k)
    BY <1>1, <1>3 DEF Watching, Active
  <1>7. \A k \in Places : Holding(k)' = Holding(k)
    BY <1>2 DEF Holding
  <1>8. expired = {} => \A k \in Places : Len(reservations'[k]) = Cardinality(Holding(k)')
    BY <1>2, <1>7 DEF AdmissionInv, ReservationsMatch
  <1>. QED  BY <1>2, <1>4, <1>5, <1>6, <1>7, <1>8, NobodyGains

LEMMA ExpiresKeeps ==
    ASSUME AdmissionInv, NEW r \in Requests, ReservationExpires(r)
    PROVE  AdmissionInv'
  <1>1. expired' # {} /\ UNCHANGED <<request, viewer, reservations>>
    BY DEF ReservationExpires
  <1>2. \A k \in Places : Watching(k)' = Watching(k) /\ Holding(k)' = Holding(k)
    BY <1>1 DEF Watching, Holding, Active
  <1>3. CountsFinite' /\ ReservationsMatch' /\ OverLimitOnlyByOverlap'
    BY <1>1, <1>2 DEF AdmissionInv, CountsFinite, ReservationsMatch, OverLimitOnlyByOverlap
  <1>4. CountsFresh'
    <2>1. \A q \in Requests : KeysOf(request[q].by) \subseteq Places
      BY KeysArePlaces DEF AdmissionInv, AdmissionTypeOK, Handlers
    <2>. QED  BY <1>1, <1>2, <2>1 DEF AdmissionInv, CountsFresh
  <1>. QED  BY <1>1, <1>3, <1>4 DEF AdmissionInv, AdmissionTypeOK, HandlersOK, Active

LEMMA AdmissionStarts == AdmissionInit => AdmissionInv
  <1>. SUFFICES ASSUME AdmissionInit
                PROVE  AdmissionInv
    OBVIOUS
  <1>1. NewRequest \in Handlers
    BY DEF NewRequest, Handlers, Counts, Stages
  <1>2. AdmissionTypeOK
    BY <1>1 DEF AdmissionInit, AdmissionTypeOK, Absent
  <1>3. HandlersOK
    BY DEF AdmissionInit, HandlersOK, Active, Absent, NewRequest, Handling
  <1>4. \A k \in Places : Watching(k) = {} /\ Holding(k) = {}
    BY DEF AdmissionInit, Watching, Holding, Active, Absent, NewRequest
  <1>5. CountsFinite
    BY <1>4, FS_EmptySet DEF CountsFinite
  <1>6. ReservationsMatch
    BY <1>4, FS_EmptySet DEF ReservationsMatch, AdmissionInit
  <1>7. CountsFresh
    BY DEF CountsFresh, AdmissionInit, NewRequest
  <1>8. ASSUME NEW k \in Places
        PROVE  ~(Streams(k) > LimitOf(k))
    <2>1. IsFiniteSet({}) /\ Cardinality({}) = 0
      BY FS_EmptySet
    <2>2. IsFiniteSet(Watching(k)) /\ IsFiniteSet(Holding(k))
          /\ Cardinality(Watching(k)) = 0 /\ Cardinality(Holding(k)) = 0
      BY <1>4, <2>1
    <2>3. Streams(k) \in Nat /\ Streams(k) <= Cardinality(Watching(k)) + Cardinality(Holding(k))
      BY <2>2, StreamsFinite
    <2>. QED  BY <2>2, <2>3, LimitsPositive
  <1>9. OverLimitOnlyByOverlap
    BY <1>8 DEF OverLimitOnlyByOverlap
  <1>. QED  BY <1>2, <1>3, <1>5, <1>6, <1>7, <1>9 DEF AdmissionInv

(* The gate's bookkeeping is an invariant of every interleaving of the     *)
(* handlers, for any number of them, of accounts and of credentials.       *)
THEOREM AdmissionSafety == AdmissionSpec => []AdmissionInv
  <1>1. ASSUME AdmissionInv, [AdmissionNext]_admissionVars
        PROVE  AdmissionInv'
    <2>1. ASSUME NEW r \in Requests, Handle(r)
          PROVE  AdmissionInv'
      BY <1>1, <2>1, ArriveKeeps, CountKeeps, RefuseKeeps, AdmitKeeps, RegisterKeeps,
         StartFailsKeeps, ReleaseKeeps DEF Handle
    <2>2. CASE UNCHANGED admissionVars
      <3>1. \A k \in Places : Watching(k)' = Watching(k) /\ Holding(k)' = Holding(k)
        BY <2>2 DEF Watching, Holding, Active, admissionVars
      <3>2. expired = {} => \A k \in Places : Len(reservations'[k]) = Cardinality(Holding(k)')
        BY <1>1, <2>2, <3>1 DEF AdmissionInv, ReservationsMatch, admissionVars
      <3>3. AdmissionTypeOK' /\ HandlersOK'
        BY <1>1, <2>2 DEF AdmissionInv, AdmissionTypeOK, HandlersOK, Active, admissionVars
      <3>. QED  BY <1>1, <2>2, <3>1, <3>2, <3>3, NobodyGains DEF admissionVars
    <2>. QED  BY <1>1, <2>1, <2>2, ExpiresKeeps, LeavesKeeps DEF AdmissionNext
  <1>. QED  BY <1>1, AdmissionStarts, PTL DEF AdmissionSpec

(* Release takes the oldest entry of a place and not its own, and still    *)
(* every place counts exactly the requests that hold it.                   *)
THEOREM ReservationsStayMatched == AdmissionSpec => []ReservationsMatch
  <1>1. AdmissionInv => ReservationsMatch
    BY DEF AdmissionInv
  <1>. QED  BY <1>1, AdmissionSafety, PTL

(* beginStreamAdmission keeps every account and credential inside its      *)
(* limit, unless a viewer registers while another request decides.         *)
THEOREM LimitsHold == AdmissionSpec => []OverLimitOnlyByOverlap
  <1>1. AdmissionInv => OverLimitOnlyByOverlap
    BY DEF AdmissionInv
  <1>. QED  BY <1>1, AdmissionSafety, PTL

-----------------------------------------------------------------------------
(***************************************************************************)
(* Sign-in protection, for every set of names, addresses and puzzles, every *)
(* finite set of sign-ins and all limits and windows.                      *)
(*                                                                         *)
(* The inductive invariant relates the guesses counted in a bucket to its  *)
(* row: below the limit they are at most its failures; once a cooldown is  *)
(* over or the window has passed they start again; and during a cooldown   *)
(* they are, with the sign-ins still inside, at most the limit and the     *)
(* other sign-ins: nobody enters then, so each more guess costs one of     *)
(* those that are inside.                                                  *)
(***************************************************************************)

BucketRow == [failed : Nat, last : Nat, until : Nat]

Progress == {"idle", "challenged", "consume", "verify", "record"}

ThrottleTypeOK ==
    /\ moment \in Nat \ {0}
    /\ tally \in [Buckets -> BucketRow]
    /\ guesses \in [Buckets -> Nat]
    /\ signIn \in [SignIns -> [pc : Progress, name : Names \cup {Nobody}, addr : Addresses \cup {Nobody}, at : Nat \cup Puzzles]]
    /\ \A g \in SignIns :
          /\ signIn[g].pc # "idle" => signIn[g].name \in Names /\ signIn[g].addr \in Addresses
          /\ signIn[g].pc = "record" => signIn[g].at \in Nat /\ moment - 1 <= signIn[g].at /\ signIn[g].at <= moment

\* The sign-ins that were let in and may still count a failure in b.
Inside(b) ==
    {g \in SignIns : signIn[g].pc # "idle" /\ b \in BucketsOf(signIn[g].name, signIn[g].addr)}

\* What the row of a bucket of kind k says of x guesses, with s sign-ins inside.
GuessesFit(row, k, x, s, now) ==
    /\ row.last <= now
    /\ row.until > 0 => row.failed >= Limit[k] /\ row.until <= row.last + Window
    /\ row.failed < Limit[k] => x <= row.failed
    /\ row.until <= now /\ row.failed >= Limit[k] => x = 0
    /\ now > row.last + Window => x = 0
    /\ row.until > now => x + s <= Limit[k] + Cardinality(SignIns) - 1

BucketFits(b) == GuessesFit(tally[b], b.kind, guesses[b], Cardinality(Inside(b)), moment)

ThrottleInv == ThrottleTypeOK /\ \A b \in Buckets : BucketFits(b)

-----------------------------------------------------------------------------

LEMMA BucketsAre ==
    /\ \A b \in Buckets : b.kind \in BucketKinds /\ Limit[b.kind] \in Nat /\ Limit[b.kind] > 0
    /\ \A n \in Names, i \in Addresses : BucketsOf(n, i) \subseteq Buckets
  <1>1. \A n \in Names, i \in Addresses : BucketsOf(n, i) \subseteq Buckets
    BY DEF Buckets
  <1>2. ASSUME NEW b \in Buckets PROVE b.kind \in BucketKinds
    <2>1. PICK n \in Names, i \in Addresses : b \in BucketsOf(n, i)  BY DEF Buckets
    <2>. QED  BY <2>1 DEF BucketsOf, Account, Address, Network, Pair, BucketKinds
  <1>. QED  BY <1>1, <1>2, ThrottleAssumption

LEMMA InsideIs ==
    /\ Cardinality(SignIns) \in Nat
    /\ \A b : /\ IsFiniteSet(Inside(b)) /\ Cardinality(Inside(b)) \in Nat
              /\ Cardinality(Inside(b)) <= Cardinality(SignIns)
    /\ \A b : /\ IsFiniteSet(Inside(b)') /\ Cardinality(Inside(b)') \in Nat
              /\ Cardinality(Inside(b)') <= Cardinality(SignIns)
  <1>1. ASSUME NEW S, S \subseteq SignIns
        PROVE  IsFiniteSet(S) /\ Cardinality(S) \in Nat /\ Cardinality(S) <= Cardinality(SignIns)
    BY <1>1, ThrottleAssumption, FS_Subset, FS_CardinalityType
  <1>2. \A b : Inside(b) \subseteq SignIns /\ Inside(b)' \subseteq SignIns
    BY DEF Inside
  <1>. QED  BY <1>1, <1>2, ThrottleAssumption, FS_CardinalityType

\* A cooldown lasts from one unit to the window.
LEMMA CooldownIs ==
    ASSUME NEW k \in BucketKinds, NEW f \in Nat
    PROVE  /\ Cooldown(k, f) \in Nat /\ Cooldown(k, f) <= Window
           /\ f < Limit[k] <=> Cooldown(k, f) = 0
  <1>1. Limit[k] \in Nat /\ Window \in Nat /\ Window > 0
    BY ThrottleAssumption
  <1>2. CASE f < Limit[k]
    BY <1>1, <1>2 DEF Cooldown
  <1>3. CASE f >= Limit[k]
    <2>1. PICK o \in Nat : o = f - Limit[k]  BY <1>1, <1>3
    <2>2. PICK s \in 0..5 : s = IF o < 5 THEN o ELSE 5  OBVIOUS
    <2>3. \A j \in 0..5 : Doubled[1 + j] \in Nat /\ Doubled[1 + j] > 0
      <3>1. \A j \in 0..5 : j = 0 \/ j = 1 \/ j = 2 \/ j = 3 \/ j = 4 \/ j = 5  OBVIOUS
      <3>2. Doubled[1] = 1 /\ Doubled[2] = 2 /\ Doubled[3] = 4 /\ Doubled[4] = 8 /\ Doubled[5] = 16 /\ Doubled[6] = 32
        BY DEF Doubled
      <3>. QED  BY <3>1, <3>2
    <2>4. PICK d \in Nat : d = Doubled[1 + s] /\ d > 0  BY <2>3
    <2>5. Cooldown(k, f) = IF k \in {"account", "pair"} /\ d < Window THEN d ELSE Window
      BY <1>1, <1>3, <2>1, <2>2, <2>4 DEF Cooldown
    <2>. QED  BY <1>1, <1>3, <2>4, <2>5
  <1>. QED  BY <1>1, <1>2, <1>3

\* A failure that is counted while a sign-in of the bucket is inside.
LEMMA FailureFits ==
    ASSUME NEW row \in BucketRow, NEW k \in BucketKinds, NEW x \in Nat, NEW s \in Nat, s > 0, s <= Cardinality(SignIns),
           NEW t \in Nat \ {0}, NEW now \in Nat, t - 1 <= now, now <= t,
           GuessesFit(row, k, x, s, t),
           NEW y, y = IF Failed(row, k, now).until \in 1 .. t THEN 0 ELSE x + 1
    PROVE  /\ Failed(row, k, now) \in BucketRow /\ y \in Nat
           /\ GuessesFit(Failed(row, k, now), k, y, s - 1, t)
  <1>1. PICK L \in Nat, W \in Nat, N \in Nat : L = Limit[k] /\ W = Window /\ N = Cardinality(SignIns) /\ L > 0 /\ W > 0
    BY ThrottleAssumption, InsideIs
  <1>2. PICK rf \in Nat, rl \in Nat, ru \in Nat : rf = row.failed /\ rl = row.last /\ ru = row.until
    BY DEF BucketRow
  <1>3. PICK f \in Nat : f = IF rf = 0 \/ now > rl + W THEN 1 ELSE rf + 1
    OBVIOUS
  <1>4. PICK c \in Nat : c = Cooldown(k, f) /\ c <= W /\ (f < L <=> c = 0)
    BY <1>1, CooldownIs
  <1>5. PICK u \in Nat : u = IF c > 0 THEN now + c ELSE IF ru > now THEN ru ELSE 0
    OBVIOUS
  <1>6. Failed(row, k, now) = [failed |-> f, last |-> now, until |-> u]
    BY <1>1, <1>2, <1>3, <1>4, <1>5 DEF Failed
  <1>7. /\ rl <= t /\ (ru > 0 => rf >= L /\ ru <= rl + W) /\ (rf < L => x <= rf)
        /\ (ru <= t /\ rf >= L => x = 0) /\ (t > rl + W => x = 0)
        /\ (ru > t => x + s <= L + N - 1) /\ s <= N
    BY <1>1, <1>2 DEF GuessesFit
  <1>8. y = IF u \in 1 .. t THEN 0 ELSE x + 1
    BY <1>6
  <1>9. c = 0 => u = 0
    BY <1>3, <1>4, <1>5, <1>7
  <1>10. c > 0 => f >= L /\ u = now + c
    BY <1>4, <1>5
  <1>11. /\ now <= t /\ (u > 0 => f >= L /\ u <= now + W) /\ (f < L => y <= f)
         /\ (u <= t /\ f >= L => y = 0) /\ t <= now + W
    <2>1. u > 0 => f >= L /\ u <= now + W  BY <1>4, <1>9, <1>10
    <2>2. f < L => y <= f  BY <1>3, <1>4, <1>7, <1>8, <1>9
    <2>3. u <= t /\ f >= L => y = 0  BY <1>4, <1>8, <1>10
    <2>. QED  BY <1>1, <2>1, <2>2, <2>3
  <1>12. u > t => y + (s - 1) <= L + N - 1
    <2>. SUFFICES ASSUME u > t PROVE x <= L + N - 1 - s
      BY <1>8
    <2>1. CASE ru > t  BY <1>7, <2>1
    <2>2. CASE ru <= t /\ rf >= L  BY <1>1, <1>7, <2>2
    <2>3. CASE rf < L  BY <1>1, <1>7, <2>3
    <2>. QED  BY <2>1, <2>2, <2>3
  <1>13. y \in Nat  BY <1>8
  <1>. QED  BY <1>1, <1>6, <1>11, <1>12, <1>13 DEF GuessesFit, BucketRow

\* Time that passes.
LEMMA LaterFits ==
    ASSUME NEW row \in BucketRow, NEW k \in BucketKinds, NEW x \in Nat, NEW s \in Nat, NEW t \in Nat,
           GuessesFit(row, k, x, s, t),
           NEW y, y = IF row.until = t + 1 \/ row.last + Window = t THEN 0 ELSE x
    PROVE  y \in Nat /\ GuessesFit(row, k, y, s, t + 1)
  <1>1. PICK L \in Nat, W \in Nat, N \in Nat : L = Limit[k] /\ W = Window /\ N = Cardinality(SignIns) /\ L > 0 /\ W > 0
    BY ThrottleAssumption, InsideIs
  <1>2. PICK rf \in Nat, rl \in Nat, ru \in Nat : rf = row.failed /\ rl = row.last /\ ru = row.until
    BY DEF BucketRow
  <1>3. /\ rl <= t /\ (ru > 0 => rf >= L /\ ru <= rl + W) /\ (rf < L => x <= rf)
        /\ (ru <= t /\ rf >= L => x = 0) /\ (t > rl + W => x = 0)
        /\ (ru > t => x + s <= L + N - 1)
    BY <1>1, <1>2 DEF GuessesFit
  <1>4. y = IF ru = t + 1 \/ rl + W = t THEN 0 ELSE x
    BY <1>1, <1>2
  <1>5. /\ rl <= t + 1 /\ (ru > 0 => rf >= L /\ ru <= rl + W) /\ (rf < L => y <= rf)
        /\ (ru <= t + 1 /\ rf >= L => y = 0) /\ (t + 1 > rl + W => y = 0)
        /\ (ru > t + 1 => y + s <= L + N - 1)
    BY <1>3, <1>4
  <1>. QED  BY <1>1, <1>2, <1>4, <1>5 DEF GuessesFit

\* A row without failures, and a count of sign-ins that does not grow or does
\* not matter.
LEMMA OthersFit ==
    ASSUME NEW k \in BucketKinds, NEW t \in Nat
    PROVE  /\ \A s : NoRow \in BucketRow /\ GuessesFit(NoRow, k, 0, s, t)
           /\ \A row \in BucketRow, x \in Nat, s \in Nat, r \in Nat :
                 GuessesFit(row, k, x, s, t) /\ (r <= s \/ row.until <= t) => GuessesFit(row, k, x, r, t)
  <1>1. Limit[k] \in Nat /\ Window \in Nat /\ Limit[k] > 0 /\ Cardinality(SignIns) \in Nat
    BY ThrottleAssumption, InsideIs
  <1>2. \A s : NoRow \in BucketRow /\ GuessesFit(NoRow, k, 0, s, t)
    BY <1>1 DEF NoRow, GuessesFit, BucketRow
  <1>3. ASSUME NEW row \in BucketRow, NEW x \in Nat, NEW s \in Nat, NEW r \in Nat,
               GuessesFit(row, k, x, s, t), r <= s \/ row.until <= t
        PROVE  GuessesFit(row, k, x, r, t)
    <2>1. row.until \in Nat  BY DEF BucketRow
    <2>2. row.until > t => x + r <= Limit[k] + Cardinality(SignIns) - 1
      BY <1>1, <1>3, <2>1 DEF GuessesFit
    <2>. QED  BY <1>3, <2>2 DEF GuessesFit
  <1>. QED  BY <1>2, <1>3

-----------------------------------------------------------------------------

\* A sign-in that goes on is inside no more buckets than before, and one that
\* ends is inside none.
LEMMA GoingOn ==
    ASSUME ThrottleTypeOK, NEW g \in SignIns, NEW v, signIn' = [signIn EXCEPT ![g] = v],
           v \in [pc : Progress, name : Names \cup {Nobody}, addr : Addresses \cup {Nobody}, at : Nat \cup Puzzles],
           UNCHANGED moment,
           v.pc # "idle" => v.name \in Names /\ v.addr \in Addresses,
           v.pc = "record" => v.at \in Nat /\ moment - 1 <= v.at /\ v.at <= moment
    PROVE  /\ signIn' \in [SignIns -> [pc : Progress, name : Names \cup {Nobody}, addr : Addresses \cup {Nobody}, at : Nat \cup Puzzles]]
           /\ \A h \in SignIns :
                /\ signIn'[h].pc # "idle" => signIn'[h].name \in Names /\ signIn'[h].addr \in Addresses
                /\ signIn'[h].pc = "record" => signIn'[h].at \in Nat /\ moment' - 1 <= signIn'[h].at /\ signIn'[h].at <= moment'
           /\ \A b : v.pc = "idle" => Inside(b)' = Inside(b) \ {g}
           /\ \A b : v.pc = "idle" \/ b \notin BucketsOf(v.name, v.addr)
                     \/ (signIn[g].pc # "idle" /\ v.name = signIn[g].name /\ v.addr = signIn[g].addr)
                       => Inside(b)' \subseteq Inside(b)
  <1>1. signIn'[g] = v /\ \A h \in SignIns \ {g} : signIn'[h] = signIn[h]
    BY DEF ThrottleTypeOK
  <1>2. signIn' \in [SignIns -> [pc : Progress, name : Names \cup {Nobody}, addr : Addresses \cup {Nobody}, at : Nat \cup Puzzles]]
    BY DEF ThrottleTypeOK
  <1>3. ASSUME NEW h \in SignIns
        PROVE  /\ signIn'[h].pc # "idle" => signIn'[h].name \in Names /\ signIn'[h].addr \in Addresses
               /\ signIn'[h].pc = "record" => signIn'[h].at \in Nat /\ moment' - 1 <= signIn'[h].at /\ signIn'[h].at <= moment'
    <2>1. CASE h = g  BY <1>1, <2>1
    <2>2. CASE h # g  BY <1>1, <2>2 DEF ThrottleTypeOK
    <2>. QED  BY <2>1, <2>2
  <1>4. ASSUME NEW b, v.pc = "idle" PROVE Inside(b)' = Inside(b) \ {g}
    BY <1>1, <1>4 DEF Inside
  <1>5. ASSUME NEW b, \/ v.pc = "idle" \/ b \notin BucketsOf(v.name, v.addr)
                      \/ signIn[g].pc # "idle" /\ v.name = signIn[g].name /\ v.addr = signIn[g].addr
        PROVE  Inside(b)' \subseteq Inside(b)
    BY <1>1, <1>5 DEF Inside
  <1>. QED  BY <1>2, <1>3, <1>4, <1>5

\* A step that counts nothing, and lets somebody in only where nothing blocks.
LEMMA NothingCounted ==
    ASSUME ThrottleInv, UNCHANGED <<moment, tally, guesses>>,
           \A b \in Buckets : Inside(b)' \subseteq Inside(b) \/ ~Blocked(b, moment)
    PROVE  \A b \in Buckets : BucketFits(b)'
  <1>. SUFFICES ASSUME NEW b \in Buckets PROVE BucketFits(b)'
    OBVIOUS
  <1>1. b.kind \in BucketKinds /\ tally[b] \in BucketRow /\ guesses[b] \in Nat /\ moment \in Nat /\ tally[b].until \in Nat
    BY BucketsAre DEF ThrottleInv, ThrottleTypeOK, BucketRow
  <1>2. PICK s \in Nat, r \in Nat : s = Cardinality(Inside(b)) /\ r = Cardinality(Inside(b)')
    BY InsideIs
  <1>3. Inside(b)' \subseteq Inside(b) => r <= s
    BY <1>2, InsideIs, FS_Subset
  <1>4. r <= s \/ tally[b].until <= moment
    BY <1>1, <1>3 DEF Blocked
  <1>5. GuessesFit(tally[b], b.kind, guesses[b], s, moment)
    BY <1>2 DEF ThrottleInv, BucketFits
  <1>6. GuessesFit(tally[b], b.kind, guesses[b], r, moment)
    BY <1>1, <1>4, <1>5, OthersFit
  <1>. QED  BY <1>2, <1>6 DEF BucketFits

\* A sign-in that moves without counting.
LEMMA MovingKeeps ==
    ASSUME ThrottleInv, NEW g \in SignIns, NEW v, signIn' = [signIn EXCEPT ![g] = v],
           v \in [pc : Progress, name : Names \cup {Nobody}, addr : Addresses \cup {Nobody}, at : Nat \cup Puzzles],
           UNCHANGED <<moment, tally, guesses>>,
           v.pc # "idle" => v.name \in Names /\ v.addr \in Addresses,
           v.pc = "record" => v.at \in Nat /\ moment - 1 <= v.at /\ v.at <= moment,
           \/ v.pc = "idle"
           \/ signIn[g].pc # "idle" /\ v.name = signIn[g].name /\ v.addr = signIn[g].addr
           \/ \A b \in BucketsOf(v.name, v.addr) : ~Blocked(b, moment)
    PROVE  ThrottleInv'
  <1>1. ThrottleTypeOK  BY DEF ThrottleInv
  <1>2. ThrottleTypeOK'
    BY <1>1, GoingOn DEF ThrottleTypeOK
  <1>3. \A b \in Buckets : Inside(b)' \subseteq Inside(b) \/ ~Blocked(b, moment)
    BY <1>1, GoingOn
  <1>4. \A b \in Buckets : BucketFits(b)'
    BY <1>3, NothingCounted
  <1>. QED  BY <1>2, <1>4 DEF ThrottleInv

LEMMA RecordingKeeps ==
    ASSUME ThrottleInv, NEW g \in SignIns, RecordAuthFailure(g)
    PROVE  ThrottleInv'
  <1>1. PICK n, i, at : n = signIn[g].name /\ i = signIn[g].addr /\ at = signIn[g].at  OBVIOUS
  <1>2. /\ ThrottleTypeOK /\ n \in Names /\ i \in Addresses /\ at \in Nat /\ moment - 1 <= at /\ at <= moment
        /\ moment \in Nat \ {0} /\ signIn[g].pc = "record"
    BY <1>1 DEF ThrottleInv, ThrottleTypeOK, RecordAuthFailure
  <1>3. PICK own : own = BucketsOf(n, i) /\ own \subseteq Buckets
    BY <1>2, BucketsAre
  <1>4. /\ tally' = [b \in Buckets |-> IF b \in own THEN Failed(tally[b], b.kind, at) ELSE tally[b]]
        /\ guesses' = [b \in Buckets |-> IF b \notin own THEN guesses[b]
                           ELSE IF tally'[b].until \in 1 .. moment THEN 0 ELSE guesses[b] + 1]
        /\ UNCHANGED moment
    BY <1>1, <1>3 DEF RecordAuthFailure, Guessed
  <1>5. PICK v : v = [pc |-> "idle", name |-> Nobody, addr |-> Nobody, at |-> 0]  OBVIOUS
  <1>6. signIn' = [signIn EXCEPT ![g] = v]  BY <1>5 DEF RecordAuthFailure, Goes
  <1>7. v \in [pc : Progress, name : Names \cup {Nobody}, addr : Addresses \cup {Nobody}, at : Nat \cup Puzzles] /\ v.pc = "idle"
    BY <1>5 DEF Progress
  <1>8. ASSUME NEW b \in Buckets
        PROVE  tally'[b] \in BucketRow /\ guesses'[b] \in Nat /\ BucketFits(b)'
    <2>1. b.kind \in BucketKinds /\ tally[b] \in BucketRow /\ guesses[b] \in Nat
      BY BucketsAre, <1>2 DEF ThrottleTypeOK
    <2>2. PICK s \in Nat : s = Cardinality(Inside(b)) /\ s <= Cardinality(SignIns)
      BY InsideIs
    <2>3. GuessesFit(tally[b], b.kind, guesses[b], s, moment)
      BY <2>2 DEF ThrottleInv, BucketFits
    <2>4. Inside(b)' = Inside(b) \ {g}
      BY <1>2, <1>4, <1>6, <1>7, GoingOn
    <2>5. CASE b \in own
      <3>1. g \in Inside(b)  BY <1>1, <1>2, <1>3, <2>5 DEF Inside
      <3>2. Cardinality(Inside(b)') = s - 1
        <4>1. PICK I : I = Inside(b) /\ IsFiniteSet(I) /\ g \in I  BY <3>1, InsideIs
        <4>2. Cardinality(I \ {g}) = Cardinality(I) - 1  BY <4>1, FS_RemoveElement
        <4>. QED  BY <2>2, <2>4, <4>1, <4>2
      <3>3. s > 0  BY <2>2, <3>1, <3>2, InsideIs
      <3>4. tally'[b] = Failed(tally[b], b.kind, at)  BY <1>4, <2>5
      <3>5. PICK y : y = guesses'[b]  OBVIOUS
      <3>6. y = IF Failed(tally[b], b.kind, at).until \in 1 .. moment THEN 0 ELSE guesses[b] + 1
        BY <1>4, <2>5, <3>4, <3>5
      <3>7. /\ Failed(tally[b], b.kind, at) \in BucketRow /\ y \in Nat
            /\ GuessesFit(Failed(tally[b], b.kind, at), b.kind, y, s - 1, moment)
        BY <1>2, <2>1, <2>2, <2>3, <3>3, <3>6, FailureFits
      <3>. QED  BY <1>4, <3>2, <3>4, <3>5, <3>7 DEF BucketFits
    <2>6. CASE b \notin own
      <3>1. tally'[b] = tally[b] /\ guesses'[b] = guesses[b]  BY <1>4, <2>6
      <3>2. PICK r \in Nat : r = Cardinality(Inside(b)') /\ r <= s
        BY <2>2, <2>4, InsideIs, FS_Subset
      <3>3. GuessesFit(tally[b], b.kind, guesses[b], r, moment)
        BY <1>2, <2>1, <2>3, <3>2, OthersFit
      <3>. QED  BY <1>4, <2>1, <3>1, <3>2, <3>3 DEF BucketFits
    <2>. QED  BY <2>5, <2>6
  <1>9. tally' \in [Buckets -> BucketRow] /\ guesses' \in [Buckets -> Nat]
    <2>1. \A b \in Buckets : tally'[b] \in BucketRow /\ guesses'[b] \in Nat  BY <1>8
    <2>2. PICK X, Y : X = tally' /\ Y = guesses'  OBVIOUS
    <2>3. X = [b \in Buckets |-> X[b]]  BY <1>4, <2>2
    <2>4. Y = [b \in Buckets |-> Y[b]]  BY <1>4, <2>2
    <2>. QED  BY <2>1, <2>2, <2>3, <2>4
  <1>10. ThrottleTypeOK'
    BY <1>2, <1>4, <1>6, <1>7, <1>9, GoingOn DEF ThrottleTypeOK
  <1>. QED  BY <1>8, <1>10 DEF ThrottleInv

\* Rows that are deleted.
LEMMA ForgettingKeeps ==
    ASSUME ThrottleInv, NEW bs, Forget(bs), UNCHANGED moment,
           \A b \in Buckets : Inside(b)' \subseteq Inside(b),
           NEW g, UNCHANGED signIn \/ (g \in SignIns /\ Goes(g, "idle", Nobody, Nobody))
    PROVE  ThrottleInv'
  <1>1. ThrottleTypeOK /\ moment \in Nat  BY DEF ThrottleInv, ThrottleTypeOK
  <1>2. ASSUME NEW b \in Buckets
        PROVE  tally'[b] \in BucketRow /\ guesses'[b] \in Nat /\ BucketFits(b)'
    <2>1. b.kind \in BucketKinds /\ tally[b] \in BucketRow /\ guesses[b] \in Nat
      BY BucketsAre, <1>1 DEF ThrottleTypeOK
    <2>2. PICK s \in Nat, r \in Nat : s = Cardinality(Inside(b)) /\ r = Cardinality(Inside(b)') /\ r <= s
      BY InsideIs, FS_Subset
    <2>3. GuessesFit(tally[b], b.kind, guesses[b], s, moment)
      BY <2>2 DEF ThrottleInv, BucketFits
    <2>4. NoRow \in BucketRow /\ GuessesFit(NoRow, b.kind, 0, r, moment) /\ GuessesFit(tally[b], b.kind, guesses[b], r, moment)
      BY <1>1, <2>1, <2>2, <2>3, OthersFit
    <2>5. \/ tally'[b] = NoRow /\ guesses'[b] = 0
          \/ tally'[b] = tally[b] /\ guesses'[b] = guesses[b]
      BY DEF Forget
    <2>. QED  BY <2>1, <2>2, <2>4, <2>5 DEF BucketFits
  <1>3. tally' \in [Buckets -> BucketRow] /\ guesses' \in [Buckets -> Nat]
    <2>1. \A b \in Buckets : tally'[b] \in BucketRow /\ guesses'[b] \in Nat  BY <1>2
    <2>2. PICK X, Y : X = tally' /\ Y = guesses'  OBVIOUS
    <2>3. X = [b \in Buckets |-> X[b]]  BY <2>2 DEF Forget
    <2>4. Y = [b \in Buckets |-> Y[b]]  BY <2>2 DEF Forget
    <2>. QED  BY <2>1, <2>2, <2>3, <2>4
  <1>4. ThrottleTypeOK'
    <2>1. CASE UNCHANGED signIn  BY <1>1, <1>3, <2>1 DEF ThrottleTypeOK
    <2>2. CASE g \in SignIns /\ Goes(g, "idle", Nobody, Nobody)
      <3>1. PICK v : v = [pc |-> "idle", name |-> Nobody, addr |-> Nobody, at |-> 0]  OBVIOUS
      <3>2. signIn' = [signIn EXCEPT ![g] = v]  BY <2>2, <3>1 DEF Goes
      <3>3. v \in [pc : Progress, name : Names \cup {Nobody}, addr : Addresses \cup {Nobody}, at : Nat \cup Puzzles] /\ v.pc = "idle"
        BY <3>1 DEF Progress
      <3>. QED  BY <1>1, <1>3, <3>2, <3>3, GoingOn DEF ThrottleTypeOK
    <2>. QED  BY <2>1, <2>2
  <1>. QED  BY <1>2, <1>4 DEF ThrottleInv

LEMMA MomentKeeps ==
    ASSUME ThrottleInv, MomentPasses
    PROVE  ThrottleInv'
  <1>1. /\ ThrottleTypeOK /\ moment \in Nat /\ moment' = moment + 1 /\ UNCHANGED <<tally, signIn>>
        /\ guesses' = [b \in Buckets |->
              IF tally[b].until = moment + 1 \/ tally[b].last + Window = moment THEN 0 ELSE guesses[b]]
    BY DEF ThrottleInv, ThrottleTypeOK, MomentPasses
  <1>2. ASSUME NEW b \in Buckets
        PROVE  guesses'[b] \in Nat /\ BucketFits(b)'
    <2>1. b.kind \in BucketKinds /\ tally[b] \in BucketRow /\ guesses[b] \in Nat
      BY BucketsAre, <1>1 DEF ThrottleTypeOK
    <2>2. PICK s \in Nat : s = Cardinality(Inside(b)) /\ Inside(b)' = Inside(b)
      BY <1>1, InsideIs DEF Inside
    <2>3. GuessesFit(tally[b], b.kind, guesses[b], s, moment)
      BY <2>2 DEF ThrottleInv, BucketFits
    <2>4. PICK y : y = guesses'[b]  OBVIOUS
    <2>5. y = IF tally[b].until = moment + 1 \/ tally[b].last + Window = moment THEN 0 ELSE guesses[b]
      BY <1>1, <2>4
    <2>6. y \in Nat /\ GuessesFit(tally[b], b.kind, y, s, moment + 1)
      BY <1>1, <2>1, <2>3, <2>5, LaterFits
    <2>. QED  BY <1>1, <2>2, <2>4, <2>6 DEF BucketFits
  <1>3. guesses' \in [Buckets -> Nat]
    <2>1. PICK Y : Y = guesses'  OBVIOUS
    <2>2. Y = [b \in Buckets |-> Y[b]] /\ \A b \in Buckets : Y[b] \in Nat  BY <1>1, <1>2, <2>1
    <2>. QED  BY <2>1, <2>2
  <1>4. \A g \in SignIns : signIn[g].pc = "record" =>
            signIn[g].at \in Nat /\ moment' - 1 <= signIn[g].at /\ signIn[g].at <= moment'
    BY <1>1 DEF MomentPasses
  <1>5. ThrottleTypeOK'
    BY <1>1, <1>3, <1>4 DEF ThrottleTypeOK
  <1>. QED  BY <1>2, <1>5 DEF ThrottleInv

LEMMA ThrottleInitInv == ThrottleInit => ThrottleInv
  <1>. SUFFICES ASSUME ThrottleInit PROVE ThrottleInv
    OBVIOUS
  <1>1. ThrottleTypeOK
    BY DEF ThrottleInit, ThrottleTypeOK, NoRow, BucketRow, Waiting, Progress
  <1>2. ASSUME NEW b \in Buckets PROVE BucketFits(b)
    <2>1. b.kind \in BucketKinds /\ tally[b] = NoRow /\ guesses[b] = 0 /\ moment = 1
      BY BucketsAre DEF ThrottleInit
    <2>. QED  BY <2>1, OthersFit DEF BucketFits
  <1>. QED  BY <1>1, <1>2 DEF ThrottleInv

LEMMA ThrottleStepInv == ThrottleInv /\ [ThrottleNext]_thvars => ThrottleInv'
  <1>. SUFFICES ASSUME ThrottleInv, [ThrottleNext]_thvars PROVE ThrottleInv'
    OBVIOUS
  <1>0. ThrottleTypeOK /\ moment \in Nat \ {0}  BY DEF ThrottleInv, ThrottleTypeOK
  <1>. DEFINE SignInType == [pc : Progress, name : Names \cup {Nobody}, addr : Addresses \cup {Nobody}, at : Nat \cup Puzzles]
  <1>1. ASSUME NEW g \in SignIns, NEW n \in Names, NEW i \in Addresses, Enforce(g, n, i) PROVE ThrottleInv'
    <2>1. PICK v : v = [pc |-> IF NeedsChallenge(n, i, moment) THEN "challenged" ELSE "verify",
                        name |-> n, addr |-> i, at |-> 0]
      OBVIOUS
    <2>2. v \in SignInType /\ v.name = n /\ v.addr = i /\ v.pc \in {"challenged", "verify"}  BY <2>1 DEF Progress
    <2>3. signIn' = [signIn EXCEPT ![g] = v] /\ UNCHANGED <<moment, tally, guesses>>  BY <1>1, <2>1 DEF Enforce, Goes
    <2>4. \A b \in BucketsOf(v.name, v.addr) : ~Blocked(b, moment)  BY <1>1, <2>2 DEF Enforce
    <2>. QED  BY <2>2, <2>3, <2>4, MovingKeeps
  <1>2. ASSUME NEW g \in SignIns, NEW z \in Puzzles, GetBotChallenge(g, z) PROVE ThrottleInv'
    <2>1. PICK q : q = signIn[g]  OBVIOUS
    <2>2. q \in SignInType /\ q.pc = "challenged" /\ q.name \in Names /\ q.addr \in Addresses
      BY <1>0, <1>2, <2>1 DEF ThrottleTypeOK, GetBotChallenge
    <2>3. PICK v : v = [pc |-> "consume", name |-> q.name, addr |-> q.addr, at |-> z]  OBVIOUS
    <2>4. v \in SignInType /\ v.pc = "consume" /\ v.name = q.name /\ v.addr = q.addr  BY <2>2, <2>3 DEF Progress
    <2>5. signIn' = [signIn EXCEPT ![g] = v]
      <3>1. PICK v1 : v1 = [q EXCEPT !.pc = "consume"]  OBVIOUS
      <3>0. v1 \in SignInType /\ v1.pc = v.pc /\ v1.name = q.name /\ v1.addr = q.addr  BY <2>2, <2>3, <3>1 DEF Progress
      <3>2. v = [v1 EXCEPT !.at = z]  BY <2>2, <2>3, <3>0
      <3>3. signIn' = [signIn EXCEPT ![g].pc = "consume", ![g].at = z] /\ signIn \in [SignIns -> SignInType]
        BY <1>0, <1>2 DEF GetBotChallenge, ThrottleTypeOK
      <3>. QED  BY <2>1, <3>1, <3>2, <3>3
    <2>6. UNCHANGED <<moment, tally, guesses>>  BY <1>2 DEF GetBotChallenge
    <2>. QED  BY <2>1, <2>2, <2>4, <2>5, <2>6, MovingKeeps
  <1>3. ASSUME NEW g \in SignIns, NEW z \in Puzzles, IssueBotChallenge(g, z) PROVE ThrottleInv'
    <2>1. PICK v : v = [pc |-> "idle", name |-> Nobody, addr |-> Nobody, at |-> 0]  OBVIOUS
    <2>2. v \in SignInType /\ v.pc = "idle"  BY <2>1 DEF Progress
    <2>3. signIn' = [signIn EXCEPT ![g] = v] /\ UNCHANGED <<moment, tally, guesses>>  BY <1>3, <2>1 DEF IssueBotChallenge, Goes
    <2>. QED  BY <2>2, <2>3, MovingKeeps
  <1>4. ASSUME NEW g \in SignIns, ConsumeBotChallenge(g) PROVE ThrottleInv'
    <2>1. signIn[g].pc = "consume" /\ signIn[g].name \in Names /\ signIn[g].addr \in Addresses
      BY <1>0, <1>4 DEF ThrottleTypeOK, ConsumeBotChallenge
    <2>2. UNCHANGED <<moment, tally, guesses>>  BY <1>4 DEF ConsumeBotChallenge
    <2>3. PICK v : v = [pc |-> "verify", name |-> signIn[g].name, addr |-> signIn[g].addr, at |-> 0]  OBVIOUS
    <2>4. v \in SignInType /\ v.pc = "verify" /\ v.name = signIn[g].name /\ v.addr = signIn[g].addr
      BY <2>1, <2>3 DEF Progress
    <2>5. PICK w : w = [pc |-> "idle", name |-> Nobody, addr |-> Nobody, at |-> 0]  OBVIOUS
    <2>6. w \in SignInType /\ w.pc = "idle"  BY <2>5 DEF Progress
    <2>7. signIn' = [signIn EXCEPT ![g] = v] \/ signIn' = [signIn EXCEPT ![g] = w]
      BY <1>4, <2>3, <2>5 DEF ConsumeBotChallenge, Goes
    <2>8. CASE signIn' = [signIn EXCEPT ![g] = v]  BY <2>1, <2>2, <2>4, <2>8, MovingKeeps
    <2>9. CASE signIn' = [signIn EXCEPT ![g] = w]  BY <2>2, <2>6, <2>9, MovingKeeps
    <2>. QED  BY <2>7, <2>8, <2>9
  <1>5. ASSUME NEW g \in SignIns, Wrong(g) PROVE ThrottleInv'
    <2>1. PICK q : q = signIn[g]  OBVIOUS
    <2>2. q \in SignInType /\ q.pc = "verify" /\ q.name \in Names /\ q.addr \in Addresses
      BY <1>0, <1>5, <2>1 DEF ThrottleTypeOK, Wrong
    <2>3. PICK v : v = [pc |-> "record", name |-> q.name, addr |-> q.addr, at |-> moment]  OBVIOUS
    <2>4. v \in SignInType /\ v.pc = "record" /\ v.name = q.name /\ v.addr = q.addr /\ v.at = moment
      BY <1>0, <2>2, <2>3 DEF Progress
    <2>5. signIn' = [signIn EXCEPT ![g] = v]
      <3>1. PICK v1 : v1 = [q EXCEPT !.pc = "record"]  OBVIOUS
      <3>0. v1 \in SignInType /\ v1.pc = v.pc /\ v1.name = q.name /\ v1.addr = q.addr  BY <2>2, <2>3, <3>1 DEF Progress
      <3>2. v = [v1 EXCEPT !.at = moment]  BY <2>2, <2>3, <3>0
      <3>3. signIn' = [signIn EXCEPT ![g].pc = "record", ![g].at = moment] /\ signIn \in [SignIns -> SignInType]
        BY <1>0, <1>5 DEF Wrong, ThrottleTypeOK
      <3>. QED  BY <2>1, <3>1, <3>2, <3>3
    <2>6. UNCHANGED <<moment, tally, guesses>>  BY <1>5 DEF Wrong
    <2>7. v.at \in Nat /\ moment - 1 <= v.at /\ v.at <= moment  BY <1>0, <2>4
    <2>8. v.name \in Names /\ v.addr \in Addresses /\ v.name = signIn[g].name /\ v.addr = signIn[g].addr
      BY <2>1, <2>2, <2>4
    <2>9. signIn[g].pc # "idle"  BY <2>1, <2>2
    <2>. QED  BY <2>4, <2>5, <2>6, <2>7, <2>8, <2>9, MovingKeeps
  <1>6. ASSUME NEW g \in SignIns, FinishAuthentication(g) PROVE ThrottleInv'
    <2>1. PICK bs : Forget(bs)  BY <1>6 DEF FinishAuthentication
    <2>2. Goes(g, "idle", Nobody, Nobody) /\ UNCHANGED moment  BY <1>6 DEF FinishAuthentication
    <2>3. PICK w : w = [pc |-> "idle", name |-> Nobody, addr |-> Nobody, at |-> 0]  OBVIOUS
    <2>4. w \in SignInType /\ w.pc = "idle"  BY <2>3 DEF Progress
    <2>5. signIn' = [signIn EXCEPT ![g] = w]  BY <2>2, <2>3 DEF Goes
    <2>6. \A b : Inside(b)' \subseteq Inside(b)  BY <1>0, <2>2, <2>4, <2>5, GoingOn
    <2>7. g \in SignIns /\ Goes(g, "idle", Nobody, Nobody)  BY <2>2
    <2>. QED  BY <2>1, <2>2, <2>6, <2>7, ForgettingKeeps
  <1>7. ASSUME NEW bs, Forget(bs), UNCHANGED <<moment, signIn>> PROVE ThrottleInv'
    <2>1. \A b : Inside(b)' \subseteq Inside(b)  BY <1>7 DEF Inside
    <2>2. UNCHANGED moment /\ UNCHANGED signIn  BY <1>7
    <2>. QED  BY <1>7, <2>1, <2>2, ForgettingKeeps
  <1>8. ASSUME NEW b \in Buckets, ClearAuthThrottleBucket(b) PROVE ThrottleInv'
    BY <1>7, <1>8 DEF ClearAuthThrottleBucket
  <1>9. ASSUME NEW b \in Buckets, PruneBucket(b) PROVE ThrottleInv'
    BY <1>7, <1>9 DEF PruneBucket
  <1>10. CASE UNCHANGED thvars
    <2>1. UNCHANGED <<moment, tally, guesses, signIn>>  BY <1>10 DEF thvars
    <2>2. \A b : Inside(b)' = Inside(b)  BY <2>1 DEF Inside
    <2>3. \A b \in Buckets : BucketFits(b)'  BY <2>1, <2>2, NothingCounted
    <2>4. ThrottleTypeOK'  BY <1>0, <2>1 DEF ThrottleTypeOK
    <2>. QED  BY <2>3, <2>4 DEF ThrottleInv
  <1>. QED  BY <1>1, <1>2, <1>3, <1>4, <1>5, <1>6, <1>8, <1>9, <1>10, RecordingKeeps, MomentKeeps DEF ThrottleNext

(* The invariant that relates guesses, rows and the sign-ins in flight      *)
(* (RecordAuthFailure and the checks before it).                           *)
THEOREM ThrottleSafety == ThrottleSpec => []ThrottleInv
  <1>. QED  BY ThrottleInitInv, ThrottleStepInv, PTL DEF ThrottleSpec

(* Between two times at which a bucket may be tried again, no more wrong   *)
(* guesses are counted in it than its limit and the other sign-ins that    *)
(* were in flight, whatever they do in the meantime (RecordAuthFailure).   *)
THEOREM GuessesStayBounded == ThrottleSpec => []GuessesBounded
  <1>1. ThrottleInv => GuessesBounded
    <2>. SUFFICES ASSUME ThrottleInv, NEW b \in Buckets
                  PROVE  guesses[b] <= Limit[b.kind] + Cardinality(SignIns) - 1
      BY DEF GuessesBounded
    <2>1. /\ b.kind \in BucketKinds /\ Limit[b.kind] \in Nat /\ Limit[b.kind] > 0 /\ tally[b] \in BucketRow
          /\ guesses[b] \in Nat /\ moment \in Nat
      BY BucketsAre DEF ThrottleInv, ThrottleTypeOK
    <2>2. PICK s \in Nat : s = Cardinality(Inside(b))  BY InsideIs
    <2>3. GuessesFit(tally[b], b.kind, guesses[b], s, moment)
      BY <2>2 DEF ThrottleInv, BucketFits
    <2>4. Cardinality(SignIns) \in Nat  BY InsideIs
    <2>5. tally[b].until \in Nat /\ tally[b].failed \in Nat  BY <2>1 DEF BucketRow
    <2>. QED  BY <2>1, <2>3, <2>4, <2>5 DEF GuessesFit
  <1>. QED  BY <1>1, ThrottleSafety, PTL

=============================================================================
