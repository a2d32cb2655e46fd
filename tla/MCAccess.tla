------------------------------- MODULE MCAccess -------------------------------
(* Model-checking instance of what decides who has access: accounts and the *)
(* credentials that depend on them, a television and a phone.  A behaviour  *)
(* is one of one of them.                                                   *)
EXTENDS Accounts, TvPairing, MobileRefresh

CONSTANTS u1, u2, h1, p1, p2, b1, b2, k1, k2

VARIABLE part

Scenario(users, creds, challenges, requests, client, temp, ops) ==
    [users |-> users, creds |-> creds, challenges |-> challenges, requests |-> requests,
     client |-> client, temp |-> temp, ops |-> ops]

(* Administrators against each other; passwords, second factors and names  *)
(* against sign-ins.  (MCViewing has the streams.)                         *)
AllScenarios ==
    {Scenario({u1, u2}, {}, {}, Requests, "browser", TRUE, {"update", "delete"}),
     Scenario({u1}, Creds, {}, Requests, "mobile", TRUE, {"passwords", "login", "prune"}),
     Scenario({u1}, Creds, {h1}, Requests, "browser", FALSE, {"enrol", "unenrol", "login"}),
     Scenario({u1}, Creds, Challenges, Requests, "mobile", FALSE, {"enrol", "login"}),
     Scenario({u1}, Creds, {}, Requests, "browser", FALSE, {"identity", "login"})}

TvScenario(users, pairings, browsers, calls, withMedia) ==
    [users |-> users, pairings |-> pairings, browsers |-> browsers, calls |-> calls, media |-> withMedia]

(* Two pairings and a stale media request; calls that overtake one another; *)
(* and two accounts that decide on one code.                                *)
AllHouseholds ==
    {TvScenario({u1}, {p1, p2}, {b1}, {k1}, TRUE),
     TvScenario({u1}, {p1}, {b1}, {k1, k2}, FALSE),
     TvScenario({u1, u2}, {p1}, {b1, b2}, {k1}, FALSE)}

(* The parts that a behaviour does not use stand still in one initial state. *)
AnyScenario == CHOOSE s \in Scenarios : TRUE
AnyHousehold == CHOOSE h \in TvScenarios : TRUE

AccessInit ==
    /\ part \in {"accounts", "tv", "phone"}
    /\ Init /\ TvInit /\ PhoneInit
    /\ part # "accounts" => scenario = AnyScenario
    /\ part # "tv" => household = AnyHousehold

AccessNext ==
    \/ part = "accounts" /\ Next /\ UNCHANGED <<part, tvars, mvars>>
    \/ part = "tv" /\ TvNext /\ UNCHANGED <<part, vars, mvars>>
    \/ part = "phone" /\ PhoneNext /\ UNCHANGED <<part, vars, tvars>>

AccessSpec == AccessInit /\ [][AccessNext]_<<part, vars, tvars, mvars>>

=============================================================================
