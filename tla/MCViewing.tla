------------------------------ MODULE MCViewing ------------------------------
(* Model-checking instance of what a viewer is given: the hub that feeds a   *)
(* response, the account and credentials that allow it, and the programme    *)
(* guide.  A behaviour is one of one of them.                                *)
EXTENDS ClientHub, Accounts, GuideImport, TLC

CONSTANTS u1, u2, c1, q1

VARIABLE part

(* Video with a budget large enough for two whole access units; a source    *)
(* that is a television, then a radio channel, or the other way round; and  *)
(* radio, where every table is a place to start, on a small budget.         *)
VideoMixedAndRadio ==
    {[kinds |-> {"tv", "headers", "access", "delta"}, maxClient |-> 6, maxPublished |-> 5],
     [kinds |-> {"tv", "radio", "headers", "access"}, maxClient |-> 6, maxPublished |-> 5],
     [kinds |-> {"radio", "delta"}, maxClient |-> 2, maxPublished |-> 6]}

(* One response against everything that ends its credential.                *)
Watched == {[users |-> {u1, u2}, creds |-> {c1}, challenges |-> {}, requests |-> {q1}, client |-> "mobile",
             temp |-> FALSE, ops |-> {"update", "login", "key", "logout", "watch", "prune"}]}

(* A guide that holds one hour, under another title than the document that  *)
(* is imported next gives it.                                               *)
HeldGuide ==
    LET t == CHOOSE l \in Labels : TRUE
        u == CHOOSE l \in Labels : l # t IN
    /\ epgDocument = [channels |-> [n \in {Showing} |-> t],
                      programmes |-> {[start |-> 1, stop |-> 2, title |-> t], [start |-> 2, stop |-> 3, title |-> t]}]
    /\ epgChannel = <<>>
    /\ epgProgramme = 1 :> [start |-> 0, stop |-> 1, zone |-> 0, title |-> u]
    /\ zone = 0 /\ hour = History + 1 /\ fillMissing = TRUE
    /\ guideJob = [j \in GuideJobs |-> NoGuideJob]
    /\ xmltv = NoGuideFile
    /\ guideTally = [id |-> 2, edits |-> 0, runs |-> 0]

AnySetting == CHOOSE s \in Settings : TRUE

(* The parts that a behaviour does not use stand still in one initial state. *)
ViewingInit ==
    /\ part \in {"hub", "accounts", "guide"}
    /\ Init /\ HubInit /\ HeldGuide
    /\ part # "hub" => setting = AnySetting

ViewingNext ==
    \/ part = "hub" /\ HubNext /\ UNCHANGED <<part, vars, guideVars>>
    \/ part = "accounts" /\ Next /\ UNCHANGED <<part, hubVars, guideVars>>
    \/ part = "guide" /\ GuideNext /\ UNCHANGED <<part, vars, hubVars>>

(* Fairness as in Accounts.                                                  *)
ViewingSpec ==
    /\ ViewingInit /\ [][ViewingNext]_<<part, vars, hubVars, guideVars>>
    /\ \A s \in Streams : WF_vars(part = "accounts" /\ RecheckStream(s))

=============================================================================
