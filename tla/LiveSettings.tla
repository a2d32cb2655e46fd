----------------------------- MODULE LiveSettings -----------------------------
(* Settings and device outputs that are changed while the server runs.  A   *)
(* save replaces the configuration file, publishes the new settings and     *)
(* reconfigures the scheduler and tuner discovery (UpdateSettings); an      *)
(* administrator enables or disables the virtual tuner of a lineup          *)
(* (V2SetLineupVirtualTunerEnabled) or deletes the lineup (DeleteTemplate), *)
(* which reconfigures discovery too.  A refused request puts back what it   *)
(* had read first.  Settings are versions: one for each save.               *)
EXTENDS Integers, FiniteSets

CONSTANTS
    Requests,    \* requests that may be in progress at once
    Outputs,     \* lineups with a virtual tuner
    MaxSaves,    \* saves in a behaviour: bounds the state
    MaxToggles,  \* output changes in a behaviour: bounds the state
    MaxTroubles  \* failures of the file system, of the scheduler or of the port: bounds the state

ASSUME SettingsAssumption == {MaxSaves, MaxToggles, MaxTroubles} \subseteq Nat

VARIABLES
    file,       \* version in config.yaml
    current,    \* version published by settings.Current
    schedule,   \* version the active scheduler was built from
    enabled,    \* lineups whose virtual tuner is enabled
    existing,   \* lineups that are not deleted
    discovery,  \* running: Service.running; open: sockets held; closing: sockets of stopped services not closed yet
    request,    \* requests in progress
    accepted,   \* last version a save was answered with success for
    upset,      \* whether saves overlapped, or what a save left could not be put back
    crossed,    \* the same for the requests that reconfigure discovery
    budget      \* saves, changes and troubles so far
settingsVars == <<file, current, schedule, enabled, existing, discovery, request, accepted, upset, crossed, budget>>

NotRequested == [kind |-> "none", at |-> "idle", undo |-> FALSE, value |-> 0, old |-> 0, lineup |-> {}, read |-> 0]
InFlight == {r \in Requests : request[r].kind # "none"}
Saving == {r \in InFlight : request[r].kind = "save"}

SettingsInit ==
    /\ file = 0 /\ current = 0 /\ schedule = 0 /\ accepted = 0
    /\ existing = Outputs
    /\ enabled \in SUBSET Outputs
    /\ discovery = [running |-> enabled # {}, open |-> enabled # {}, closing |-> {}]
    /\ request = [r \in Requests |-> NotRequested]
    /\ upset = FALSE /\ crossed = FALSE
    /\ budget = [saves |-> 0, toggles |-> 0, troubles |-> 0]

MayFail == budget.troubles < MaxTroubles
Spend(what) == budget' = [budget EXCEPT ![what] = @ + 1]

---------------------------------------------------------------------------
(* Requests.  A save that validates keeps the settings published then, to   *)
(* go back to; an output change keeps the value it read.                    *)
BeginSave_ReadsLate(r) ==
    /\ request[r].kind = "none" /\ budget.saves < MaxSaves
    /\ request' = [request EXCEPT ![r] = [NotRequested EXCEPT !.kind = "save", !.at = "write",
                                          !.value = budget.saves + 1, !.old = budget.saves + 1]]
    /\ upset' = (upset \/ Saving # {}) /\ crossed' = (crossed \/ InFlight # {})
    /\ Spend("saves")
    /\ UNCHANGED <<file, current, schedule, enabled, existing, discovery, accepted>>

BeginSave(r) ==
    /\ request[r].kind = "none" /\ budget.saves < MaxSaves
    /\ request' = [request EXCEPT ![r] = [NotRequested EXCEPT !.kind = "save", !.at = "write",
                                          !.value = budget.saves + 1, !.old = current]]
    /\ upset' = (upset \/ Saving # {}) /\ crossed' = (crossed \/ InFlight # {})
    /\ Spend("saves")
    /\ UNCHANGED <<file, current, schedule, enabled, existing, discovery, accepted>>

BeginToggle(r, l) ==
    /\ request[r].kind = "none" /\ l \in existing /\ budget.toggles < MaxToggles
    /\ request' = [request EXCEPT ![r] = [NotRequested EXCEPT !.kind = "toggle", !.at = "store", !.lineup = {l},
                                          !.value = IF l \in enabled THEN 0 ELSE 1, !.old = IF l \in enabled THEN 1 ELSE 0]]
    /\ crossed' = (crossed \/ InFlight # {})
    /\ Spend("toggles")
    /\ UNCHANGED <<file, current, schedule, enabled, existing, discovery, accepted, upset>>

BeginDelete(r, l) ==
    /\ request[r].kind = "none" /\ l \in existing /\ budget.toggles < MaxToggles
    /\ request' = [request EXCEPT ![r] = [NotRequested EXCEPT !.kind = "delete", !.at = "store", !.lineup = {l}]]
    /\ crossed' = (crossed \/ InFlight # {})
    /\ Spend("toggles")
    /\ UNCHANGED <<file, current, schedule, enabled, existing, discovery, accepted, upset>>

(* What comes after a failed step: a save or a change in progress undoes    *)
(* what it did; one that is undoing already goes on to its next step, or is *)
(* refused after its last; a deletion only logs.                            *)
StepFails(r, last) ==
    LET q == request[r] IN
    IF q.kind = "delete" \/ (q.undo /\ last) THEN NotRequested
    ELSE IF q.undo THEN [q EXCEPT !.at = IF q.at = "write" THEN "build" ELSE "devices"]
    ELSE [q EXCEPT !.undo = TRUE, !.at = IF q.kind = "save" THEN "write" ELSE "store", !.value = q.old]

---------------------------------------------------------------------------
(* WriteSettings: the file is replaced, then the settings are published.    *)
(* It can fail before the file is replaced, and after: the mode of the new  *)
(* file is set last.  A first write that fails is answered at once, with    *)
(* nothing to undo.                                                         *)
WriteFile(r) ==
    /\ request[r].at = "write"
    /\ file' = request[r].value
    /\ request' = [request EXCEPT ![r].at = "publish"]
    /\ UNCHANGED <<current, schedule, enabled, existing, discovery, accepted, upset, crossed, budget>>

WriteFails(r) ==
    /\ request[r].at = "write" /\ MayFail /\ Spend("troubles")
    /\ \E replaced \in BOOLEAN :
        /\ file' = IF replaced THEN request[r].value ELSE file
        /\ upset' = (upset \/ replaced \/ request[r].undo)
    /\ request' = [request EXCEPT ![r] = IF request[r].undo THEN StepFails(r, FALSE) ELSE NotRequested]
    /\ UNCHANGED <<current, schedule, enabled, existing, discovery, accepted, crossed>>

Publish(r) ==
    /\ request[r].at = "publish"
    /\ current' = request[r].value
    /\ request' = [request EXCEPT ![r].at = "build"]
    /\ UNCHANGED <<file, schedule, enabled, existing, discovery, accepted, upset, crossed, budget>>

(* cron.Reconfigure: the scheduler is built from the settings published     *)
(* then, before the mutex that replaces the active one is taken.            *)
BuildScheduler(r) ==
    /\ request[r].at = "build"
    /\ request' = [request EXCEPT ![r].at = "apply", ![r].read = current]
    /\ UNCHANGED <<file, current, schedule, enabled, existing, discovery, accepted, upset, crossed, budget>>

BuildFails(r) ==
    /\ request[r].at = "build" /\ MayFail /\ Spend("troubles")
    /\ upset' = (upset \/ request[r].undo)
    /\ request' = [request EXCEPT ![r] = StepFails(r, FALSE)]
    /\ UNCHANGED <<file, current, schedule, enabled, existing, discovery, accepted, crossed>>

ApplySchedule(r) ==
    /\ request[r].at = "apply"
    /\ schedule' = request[r].read
    /\ request' = [request EXCEPT ![r].at = "devices"]
    /\ UNCHANGED <<file, current, enabled, existing, discovery, accepted, upset, crossed, budget>>

(* The row of the lineup is written, put back, or deleted.                  *)
StoreOutput(r) ==
    /\ request[r].at = "store"
    /\ LET q == request[r] IN
        /\ enabled' = IF q.kind = "toggle" /\ q.value = 1 THEN enabled \cup (q.lineup \cap existing) ELSE enabled \ q.lineup
        /\ existing' = IF q.kind = "delete" THEN existing \ q.lineup ELSE existing
    /\ request' = [request EXCEPT ![r].at = "devices"]
    /\ UNCHANGED <<file, current, schedule, discovery, accepted, upset, crossed, budget>>

---------------------------------------------------------------------------
(* virtualtuner.Reconfigure: the enabled lineups are read, then the service *)
(* is started or stopped.                                                   *)
ReadDevices(r) ==
    /\ request[r].at = "devices"
    /\ request' = [request EXCEPT ![r].at = IF enabled # {} THEN "start" ELSE "stop"]
    /\ UNCHANGED <<file, current, schedule, enabled, existing, discovery, accepted, upset, crossed, budget>>

Complete(r) ==
    /\ request' = [request EXCEPT ![r] = NotRequested]
    /\ accepted' = IF request[r].kind = "save" /\ ~request[r].undo THEN request[r].value ELSE accepted

(* Service.Start, under the mutex of the service: a service that runs is    *)
(* left alone.  The port cannot be bound while another program holds it, or *)
(* a socket of this service that is being stopped.                          *)
StartService(r) ==
    /\ request[r].at = "start"
    /\ discovery.running \/ ~discovery.open
    /\ discovery' = [discovery EXCEPT !.running = TRUE, !.open = TRUE]
    /\ Complete(r)
    /\ UNCHANGED <<file, current, schedule, enabled, existing, upset, crossed, budget>>

StartFails(r) ==
    /\ request[r].at = "start" /\ ~discovery.running
    /\ IF discovery.open THEN UNCHANGED budget ELSE MayFail /\ Spend("troubles")
    /\ request' = [request EXCEPT ![r] = StepFails(r, TRUE)]
    /\ crossed' = (crossed \/ request[r].undo \/ request[r].kind = "delete")
    /\ UNCHANGED <<file, current, schedule, enabled, existing, discovery, accepted, upset>>

(* Service.Stop: the service is marked as stopped under the mutex, and its  *)
(* socket is closed after it is released.                                   *)
StopService(r) ==
    /\ request[r].at = "stop"
    /\ IF discovery.running
       THEN /\ discovery' = [discovery EXCEPT !.running = FALSE, !.closing = @ \cup {r}]
            /\ request' = [request EXCEPT ![r].at = "closing"]
            /\ UNCHANGED accepted
       ELSE Complete(r) /\ UNCHANGED discovery
    /\ UNCHANGED <<file, current, schedule, enabled, existing, upset, crossed, budget>>

CloseSocket(r) ==
    /\ request[r].at = "closing"
    /\ discovery' = [discovery EXCEPT !.open = FALSE, !.closing = @ \ {r}]
    /\ Complete(r)
    /\ UNCHANGED <<file, current, schedule, enabled, existing, upset, crossed, budget>>

SettingsNext ==
    \E r \in Requests :
        \/ BeginSave(r) \/ WriteFile(r) \/ WriteFails(r) \/ Publish(r)
        \/ BuildScheduler(r) \/ BuildFails(r) \/ ApplySchedule(r)
        \/ StoreOutput(r) \/ ReadDevices(r) \/ StartService(r) \/ StartFails(r)
        \/ StopService(r) \/ CloseSocket(r)
        \/ \E l \in Outputs : BeginToggle(r, l) \/ BeginDelete(r, l)
SettingsSpec == SettingsInit /\ [][SettingsNext]_settingsVars

---------------------------------------------------------------------------
(* What runs is what is configured.  The file, the published settings and   *)
(* the schedule are the ones of the last save that was accepted, whatever a *)
(* refused one had done by the time it failed; not so after saves that      *)
(* overlapped (there is no lock around a save: one may replace the file     *)
(* last and publish first), after a file whose mode could not be set, or    *)
(* when putting something back failed.  Discovery runs exactly while some   *)
(* lineup is enabled, and its socket is open exactly while it runs; not so  *)
(* after requests that overlapped (one may stop what another has started,   *)
(* from an older reading of the lineups), or when the port was taken while  *)
(* a lineup was deleted or a change undone.                                 *)
SettingsAgree ==
    /\ Saving = {} /\ ~upset => file = accepted /\ current = accepted /\ schedule = accepted
    /\ discovery.closing = {} => discovery.running = discovery.open
    /\ InFlight = {} /\ ~crossed => discovery.running = (enabled # {})
=============================================================================
