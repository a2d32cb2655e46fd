---------------------------- MODULE LoginThrottle ----------------------------
(***************************************************************************)
(* Sign-in protection: the buckets of auth_throttle_bucket and the one-use *)
(* challenges of auth_bot_challenge (security_query.go), and the steps of  *)
(* a sign-in around them (auth_controller.go).  Many sign-ins are in       *)
(* flight: each is checked once, and reads the clock again before the      *)
(* transaction that records its failure.                                   *)
(***************************************************************************)
EXTENDS Naturals, Sequences, FiniteSets

CONSTANTS
    Names,         \* user names asked for
    Addresses,     \* client addresses, all of one network
    SignIns,       \* handlers in flight
    Puzzles,       \* rows of auth_bot_challenge
    Gate,          \* failures that ask for a challenge, for each kind of bucket
    Limit,         \* failures that start a cooldown, for each kind
    Window,        \* fifteen minutes: the longest cooldown, and when failures are forgotten
    MaxMoment,     \* bound on time
    MaxFailed,     \* bound on the failures of a bucket
    Nobody

\* The kinds of a bucket: subject_type.
BucketKinds == {"account", "address", "network", "pair"}

ASSUME ThrottleAssumption ==
    /\ IsFiniteSet(SignIns)
    /\ Limit \in [BucketKinds -> Nat \ {0}]
    /\ Window \in Nat \ {0}

VARIABLES moment, tally, puzzle, signIn, guesses

thvars == <<moment, tally, puzzle, signIn, guesses>>

\* The buckets of a sign-in.  Those of an account and of its pairs belong to one
\* user (the case of a name nobody has differs in what an administrator clears).
Account(n) == [kind |-> "account", name |-> n, addr |-> Nobody]
Address(i) == [kind |-> "address", name |-> Nobody, addr |-> i]
Network == [kind |-> "network", name |-> Nobody, addr |-> Nobody]
Pair(n, i) == [kind |-> "pair", name |-> n, addr |-> i]

BucketsOf(n, i) == {Account(n), Address(i), Network, Pair(n, i)}
Buckets == UNION {BucketsOf(n, i) : n \in Names, i \in Addresses}

\* failed: consecutive_failures; last: last_failed_at; until: blocked_until (0: NULL).
NoRow == [failed |-> 0, last |-> 0, until |-> 0]
Waiting == [pc |-> "idle", name |-> Nobody, addr |-> Nobody, at |-> 0]

ThrottleInit ==
    /\ moment = 1
    /\ tally = [b \in Buckets |-> NoRow]
    /\ puzzle = [z \in Puzzles |-> [state |-> "free", name |-> Nobody, addr |-> Nobody]]
    /\ signIn = [g \in SignIns |-> Waiting]
    /\ guesses = [b \in Buckets |-> 0]

Blocked(b, now) == tally[b].until > now

\* authCooldown: for an account and a pair it doubles with each failure, up to five
\* times; for the others it is the whole window.
Doubled == <<1, 2, 4, 8, 16, 32>>
Cooldown(kind, failed) ==
    LET over == failed - Limit[kind]
        doubled == Doubled[1 + IF over < 5 THEN over ELSE 5]
    IN IF failed < Limit[kind] THEN 0
       ELSE IF kind \in {"account", "pair"} /\ doubled < Window THEN doubled ELSE Window

\* CheckAuthThrottle: whether one of the buckets has had enough failures lately.
NeedsChallenge(n, i, now) ==
    \E b \in BucketsOf(n, i) : now - tally[b].last <= Window /\ tally[b].failed >= Gate[b.kind]

Goes(g, pc, n, i) == signIn' = [signIn EXCEPT ![g] = [pc |-> pc, name |-> n, addr |-> i, at |-> 0]]

(***************************************************************************)
(* enforceLoginProtection.  A blocked sign-in only counts a denial.        *)
(***************************************************************************)
Enforce_AddressOnly(g, n, i) ==
    /\ signIn[g].pc = "idle"
    /\ \A b \in BucketsOf(n, i) : b.kind \in {"address", "network"} => ~Blocked(b, moment)
    /\ Goes(g, IF NeedsChallenge(n, i, moment) THEN "challenged" ELSE "verify", n, i)
    /\ UNCHANGED <<moment, tally, puzzle, guesses>>

Enforce(g, n, i) ==
    /\ signIn[g].pc = "idle"
    /\ \A b \in BucketsOf(n, i) : ~Blocked(b, moment)
    /\ Goes(g, IF NeedsChallenge(n, i, moment) THEN "challenged" ELSE "verify", n, i)
    /\ UNCHANGED <<moment, tally, puzzle, guesses>>

\* verifyBotChallenge reads an answered challenge of the same name and address ...
GetBotChallenge(g, z) ==
    LET q == signIn[g] IN
    /\ q.pc = "challenged"
    /\ puzzle[z].state = "open" /\ puzzle[z].name = q.name /\ puzzle[z].addr = q.addr
    /\ signIn' = [signIn EXCEPT ![g].pc = "consume", ![g].at = z]
    /\ UNCHANGED <<moment, tally, puzzle, guesses>>

\* issueBotChallenge: no valid answer came with the sign-in, it ends with a challenge.
\* Used rows are deleted when one is inserted (a row is named again when no sign-in
\* refers to it any more).
IssueBotChallenge(g, z) ==
    LET q == signIn[g] IN
    /\ q.pc = "challenged"
    /\ puzzle[z].state # "open" /\ \A h \in SignIns : signIn[h].pc = "consume" => signIn[h].at # z
    /\ puzzle' = [puzzle EXCEPT ![z] = [state |-> "open", name |-> q.name, addr |-> q.addr]]
    /\ Goes(g, "idle", Nobody, Nobody)
    /\ UNCHANGED <<moment, tally, guesses>>

\* ... and uses it up if nobody else has.
ConsumeBotChallenge(g) ==
    LET z == signIn[g].at IN
    /\ signIn[g].pc = "consume"
    /\ IF puzzle[z].state = "open"
       THEN /\ puzzle' = [puzzle EXCEPT ![z].state = "used"]
            /\ Goes(g, "verify", signIn[g].name, signIn[g].addr)
       ELSE Goes(g, "idle", Nobody, Nobody) /\ UNCHANGED puzzle
    /\ UNCHANGED <<moment, tally, guesses>>

(***************************************************************************)
(* The password or the second factor is verified.                          *)
(***************************************************************************)

\* It was wrong: recordAuthenticationFailure reads the clock ...
Wrong(g) ==
    /\ signIn[g].pc = "verify"
    /\ signIn' = [signIn EXCEPT ![g].pc = "record", ![g].at = moment]
    /\ UNCHANGED <<moment, tally, puzzle, guesses>>

\* The row of a bucket after a failure at now.
Failed(row, kind, now) ==
    LET failed == IF row.failed = 0 \/ now > row.last + Window THEN 1 ELSE row.failed + 1
        cooldown == Cooldown(kind, failed)
    IN [failed |-> failed, last |-> now,
        until |-> IF cooldown > 0 THEN now + cooldown
                  ELSE IF row.until > now THEN row.until ELSE 0]

\* A cooldown that is over when it is written gives the bucket new guesses.
Guessed(own) ==
    [b \in Buckets |-> IF b \notin own THEN guesses[b]
                       ELSE IF tally'[b].until \in 1 .. moment THEN 0 ELSE guesses[b] + 1]

\* ... and one transaction counts the failure in each of the four buckets.
RecordAuthFailure(g) ==
    LET q == signIn[g]  own == BucketsOf(q.name, q.addr) IN
    /\ q.pc = "record" /\ \A b \in own : tally[b].failed < MaxFailed
    /\ tally' = [b \in Buckets |-> IF b \in own THEN Failed(tally[b], b.kind, q.at) ELSE tally[b]]
    /\ guesses' = Guessed(own)
    /\ Goes(g, "idle", Nobody, Nobody)
    /\ UNCHANGED <<moment, puzzle>>

Forget(bs) ==
    /\ tally' = [b \in Buckets |-> IF b \in bs THEN NoRow ELSE tally[b]]
    /\ guesses' = [b \in Buckets |-> IF b \in bs THEN 0 ELSE guesses[b]]

\* It was right: finishAuthentication resets the account and the pair.
FinishAuthentication(g) ==
    LET q == signIn[g] IN
    /\ q.pc = "verify"
    /\ Forget({Account(q.name), Pair(q.name, q.addr)})
    /\ Goes(g, "idle", Nobody, Nobody)
    /\ UNCHANGED <<moment, puzzle>>

\* An administrator clears a bucket, and those that would keep its subject out.
ClearAuthThrottleBucket(b) ==
    /\ tally[b] # NoRow
    /\ Forget(CASE b.kind \in {"account", "pair"} -> {c \in Buckets : c.name = b.name}
                [] b.kind = "address" -> {c \in Buckets : c.addr = b.addr}
                [] b.kind = "network" -> {c \in Buckets : c.kind # "account"})
    /\ UNCHANGED <<moment, puzzle, signIn>>

\* PruneSecurityData and the bound on the table take rows that do not block.
PruneBucket(b) ==
    /\ tally[b] # NoRow /\ ~Blocked(b, moment)
    /\ Forget({b})
    /\ UNCHANGED <<moment, puzzle, signIn>>

\* A cooldown or the window that passes gives a bucket new guesses.  The unit is
\* the shortest cooldown, and a failure is recorded within it.
MomentPasses ==
    /\ moment < MaxMoment
    /\ \A g \in SignIns : signIn[g].pc = "record" => signIn[g].at = moment
    /\ moment' = moment + 1
    /\ guesses' = [b \in Buckets |->
          IF tally[b].until = moment + 1 \/ tally[b].last + Window = moment THEN 0 ELSE guesses[b]]
    /\ UNCHANGED <<tally, puzzle, signIn>>

ThrottleNext ==
    \/ \E g \in SignIns :
          \/ \E n \in Names, i \in Addresses : Enforce(g, n, i)
          \/ \E z \in Puzzles : GetBotChallenge(g, z) \/ IssueBotChallenge(g, z)
          \/ ConsumeBotChallenge(g) \/ Wrong(g) \/ RecordAuthFailure(g) \/ FinishAuthentication(g)
    \/ \E b \in Buckets : ClearAuthThrottleBucket(b) \/ PruneBucket(b)
    \/ MomentPasses

ThrottleSpec == ThrottleInit /\ [][ThrottleNext]_thvars

-----------------------------------------------------------------------------
(* Between two times at which a bucket may be tried again, no more wrong   *)
(* guesses are counted in it than its limit and one for each other sign-in *)
(* that was let in before the cooldown began.                              *)
GuessesBounded ==
    \A b \in Buckets : guesses[b] <= Limit[b.kind] + Cardinality(SignIns) - 1

=============================================================================
