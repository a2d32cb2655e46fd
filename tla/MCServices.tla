------------------------------ MODULE MCServices ------------------------------
(* Model-checking instance of the services around the streams: provider     *)
(* connections, sign-in protection, request budgets, channel matching,      *)
(* operation jobs and settings.  A behaviour is one of one of them.         *)
EXTENDS ConnectionLimiter, LoginThrottle, RateBudget, Matching, JobLedger, LiveSettings, TLC

CONSTANTS net, a1, a2

VARIABLE part

(* Small limits in the order of the code's: 3 and 5, 10 and 30, 25 and 100. *)
SmallGate == [account |-> 1, pair |-> 1, address |-> 2, network |-> 2]
SmallLimit == [account |-> 2, pair |-> 2, address |-> 3, network |-> 3]

(* Two addresses of one network. *)
AddressesInNetwork == {{net, a1}, {net, a2}}
SmallCapacity == [k \in Keys |-> IF k = net THEN 2 ELSE 1]
OnePerTick == [k \in Keys |-> 1]

NoMatching ==
    /\ canon = [c \in Canonical |-> Unborn] /\ plrow = <<>> /\ stack = [c \in Canonical |-> <<>>]
    /\ rejection = {} /\ asked = {} /\ matching = {}
    /\ accepting = {} /\ merging = NoMerge /\ decisions = MaxDecisions /\ removed = {}

(* Names: two canonical forms of one base, one of them with a locale.       *)
Parsed(canonical, base, locales) ==
    [canonical |-> canonical, base |-> base, numbers |-> {}, locales |-> locales, regions |-> {}, feeds |-> {}]
News == Parsed("news", "news", {})
UsNews == Parsed("us news", "news", {"us"})
TwoTitles == {News, UsNews}
OneSimilarity == [a \in TwoTitles |-> [b \in TwoTitles |-> 97]]
TwoPlaylists == 1 :> "p" @@ 2 :> "p" @@ 3 :> "q"

(* Lineup channels of one base with a source each, and a row that was just  *)
(* refreshed.                                                               *)
HeldMatching ==
    \E t, u \in GuideIds \cup {NoGuideId}, two \in BOOLEAN, r \in {2, 3} :
        /\ canon = [c \in Canonical |-> IF c = 1 THEN [name |-> News, tvg |-> t, managed |-> FALSE]
                                        ELSE IF two THEN [name |-> UsNews, tvg |-> t, managed |-> FALSE] ELSE Unborn]
        /\ plrow = [q \in {1, r} |-> [name |-> IF q = 1 THEN News ELSE UsNews, tvg |-> IF q = 1 THEN t ELSE u, enabled |-> TRUE]]
        /\ stack = [c \in Canonical |-> IF c = 1 THEN <<[row |-> 1, auto |-> TRUE]>>
                                        ELSE IF two THEN <<[row |-> r, auto |-> FALSE]>> ELSE <<>>]
        /\ rejection = {} /\ asked = {ForRow(r)}
        /\ matching = {} /\ accepting = {} /\ merging = NoMerge
        /\ decisions = 0 /\ removed = {}
NoJobs ==
    /\ job = <<>> /\ worker = [i \in Jobs |-> [at |-> "unborn"]]
    /\ expired = {} /\ abandoned = {} /\ server = "serving" /\ crashes = MaxCrashes

NoSettings ==
    /\ file = 0 /\ current = 0 /\ schedule = 0 /\ accepted = 0 /\ existing = {} /\ enabled = {}
    /\ discovery = [running |-> FALSE, open |-> FALSE, closing |-> {}]
    /\ request = [r \in Requests |-> NotRequested] /\ upset = FALSE /\ crossed = FALSE
    /\ budget = [saves |-> MaxSaves, toggles |-> MaxToggles, troubles |-> MaxTroubles]

OthersIdle == NoMatching /\ NoJobs /\ NoSettings

ServicesInit ==
    /\ part \in {"pools", "signin", "budget", "matching", "jobs", "settings"}
    /\ Init /\ ThrottleInit /\ RateInit
    /\ \/ part \in {"pools", "signin", "budget"} /\ OthersIdle
       \/ part = "matching" /\ HeldMatching /\ NoJobs /\ NoSettings
       \/ part = "jobs" /\ JobInit /\ NoMatching /\ NoSettings
       \/ part = "settings" /\ SettingsInit /\ NoMatching /\ NoJobs

ServicesNext ==
    \/ part = "pools" /\ Next /\ UNCHANGED <<part, thvars, rvars, mvars, jobVars, settingsVars>>
    \/ part = "signin" /\ ThrottleNext /\ UNCHANGED <<part, vars, rvars, mvars, jobVars, settingsVars>>
    \/ part = "budget" /\ RateNext /\ UNCHANGED <<part, vars, thvars, mvars, jobVars, settingsVars>>
    \/ part = "matching" /\ MatchingNext /\ UNCHANGED <<part, vars, thvars, rvars, jobVars, settingsVars>>
    \/ part = "jobs" /\ JobNext /\ UNCHANGED <<part, vars, thvars, rvars, mvars, settingsVars>>
    \/ part = "settings" /\ SettingsNext /\ UNCHANGED <<part, vars, thvars, rvars, mvars, jobVars>>

ServicesSpec == ServicesInit /\ [][ServicesNext]_<<part, vars, thvars, rvars, mvars, jobVars, settingsVars>>

=============================================================================
