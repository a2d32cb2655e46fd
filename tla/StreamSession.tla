--------------------------- MODULE StreamSession ---------------------------
(***************************************************************************)
(* One shared stream of backend/pkg/streaming/manager.go: the supervisor   *)
(* goroutine (Session.run), the start attempts it makes or delegates to    *)
(* the two goroutines of the cold-start race, the cleanup goroutine of     *)
(* each producer, and the requests that arrive meanwhile: stop, failover,  *)
(* restart, a tune that brings a new list of sources, viewers.             *)
(*                                                                         *)
(* A step is what one goroutine does between two waits or two sections     *)
(* under Session.mu.  Data (media, URLs, event texts) is left out, timers  *)
(* may fire at any moment they are armed.  All sources belong to one pool  *)
(* whose other connections are in use by other sessions.                   *)
(*                                                                         *)
(* Operation_Flaw is Operation with a plausible bug (ConnectionLimiter).   *)
(***************************************************************************)
EXTENDS Integers, Sequences, FiniteSets

CONSTANTS
    SourceLists,  \* the ordered source lists tunes bring (sequences, no repeats)
    Producers,    \* identities for the producers alive at one time
    OtherLeases,  \* identities for the leases of other sessions on the pool
    Limit,        \* ConnectionLimit of the pool
    RetryLimit,   \* config.RetryLimit
    Clients,      \* viewers
    HlsClients,   \* the viewers that use HLS
    Scenarios,    \* configurations, each with a bound: the requests that arrive
    NoProducer    \* a nil *managedProducer or Producer

ASSUME SourceAssumption ==
    /\ SourceLists # {}
    /\ \A list \in SourceLists : list # <<>> /\ list \in Seq(UNION {{list[i] : i \in DOMAIN list}})
ASSUME LimitAssumption == Limit \in Nat \ {0} /\ RetryLimit \in Nat \ {0}
ASSUME IdentityAssumption ==
    /\ NoProducer \notin Producers
    /\ Producers \cap OtherLeases = {}
    /\ IsFiniteSet(Producers) /\ IsFiniteSet(OtherLeases)
    /\ HlsClients \subseteq Clients
    /\ Scenarios \subseteq
         [coldRace: BOOLEAN, sources: SourceLists,
          requests: SUBSET {"tune", "failover", "restart", "stop", "viewer", "other"}]

VARIABLES
    sources,        \* Session.sources
    state,          \* Session.state
    stop,           \* how far requestStop has come
    everReady,      \* Session.everReady
    initial,        \* what WaitReady answers once initialDone is closed
    current,        \* Session.current
    prewarm,        \* Session.prewarm
    forceNext,      \* the message in Session.forceNext (capacity 1)
    restartSource,  \* Session.restartSource
    restarting,     \* a RestartSource call between its flag and its send
    client,         \* Session.clients: endReason of each
    producer,       \* the managedProducers
    others,         \* leases of other sessions on the pool
    thr,            \* the goroutines that run startManagedProducer
    sup,            \* the locals of Session.run
    scenario        \* fixed: config.StartupHedge > 0, the first tune's list, the bound

requests == <<forceNext, restartSource, restarting>>
shared   == <<sources, prewarm, client, others, stop, requests>>
vars     == <<sources, state, stop, everReady, initial, current, prewarm,
              forceNext, restartSource, restarting, client, producer, others,
              thr, sup>>

-----------------------------------------------------------------------------

Threads == {"run", "first", "second"}
Racers  == {"first", "second"}

Idle == [pc |-> "idle", idx |-> 1, prod |-> NoProducer, err |-> "none"]
Free == [phase |-> "free", idx |-> 1, reserve |-> 0, failed |-> FALSE,
         bridged |-> FALSE, hedged |-> FALSE]

Cancelled == stop \in {"cancelled", "done"}
Leased    == {p \in Producers : producer[p].phase # "free"}
Active    == sup.active

CanAcquire_Inclusive(reserve) ==
    Cardinality(Leased) + Cardinality(others) <= Limit - reserve

(* The coordinator, seen through the leases of this pool. *)
CanAcquire(reserve) ==
    Cardinality(Leased) + Cardinality(others) < Limit - reserve

HasActiveHls == \E c \in HlsClients : client[c] = "active"

(* The next ordered variant; i may lie beyond a list that has shrunk. *)
Following(list, i) == (i % Len(list)) + 1

(* Call startManagedProducer(sources[i], i, ...) in a goroutine. *)
Begin(i) == [Idle EXCEPT !.pc = "begin", !.idx = i]

(* Call stopManagedProducer(p) in goroutine t. *)
Stopping(p) == [Idle EXCEPT !.pc = "stop", !.prod = p]

(* stopManagedProducer up to its wait: the bridge ends, the cleanup starts. *)
Quiesce(p) == [producer EXCEPT ![p].bridged = FALSE, ![p].phase = "stopping"]

(* clearProducer. *)
ClearCurrent(p) == current' = IF current = p THEN NoProducer ELSE current

Init ==
    /\ scenario \in Scenarios
    /\ sources = scenario.sources
    /\ prewarm \in BOOLEAN
    /\ state = "starting" /\ stop = "no"
    /\ everReady = FALSE /\ initial = "pending" /\ current = NoProducer
    /\ forceNext = "none" /\ restartSource = FALSE /\ restarting = FALSE
    /\ client = [c \in Clients |-> "none"]
    /\ producer = [p \in Producers |-> Free]
    /\ others = {}
    /\ thr = [t \in Threads |-> Idle]
    /\ sup = [pc |-> "top", list |-> sources, active |-> NoProducer, next |-> 1,
              attempt |-> 0, target |-> 1, reason |-> "none", stuck |-> FALSE]

-----------------------------------------------------------------------------
(* startManagedProducer, in goroutine t *)

ThreadStep(t, next) == thr' = [thr EXCEPT ![t] = next]

(* The outbound policy or the health cooldown rejects the source. *)
SourceRejected(t) ==
    /\ thr[t].pc = "begin"
    /\ ThreadStep(t, [thr[t] EXCEPT !.pc = "err", !.err = "other"])
    /\ UNCHANGED <<shared, state, everReady, initial, current, producer, sup>>

LeaseGranted(t, p, reserve) ==
    /\ producer[p].phase = "free"
    /\ CanAcquire(reserve)
    /\ producer' = [producer EXCEPT ![p] = [Free EXCEPT !.phase = "leased",
                                            !.idx = thr[t].idx, !.reserve = reserve]]
    /\ ThreadStep(t, [Idle EXCEPT !.pc = "leased", !.prod = p])

LeaseRefused(t, reserve, next) ==
    /\ ~CanAcquire(reserve)
    /\ ThreadStep(t, [thr[t] EXCEPT !.pc = next, !.err = "limit"])
    /\ UNCHANGED producer

(* The lease: a prewarm must leave one connection unused. *)
AcquireLease(t) ==
    /\ thr[t].pc = "begin"
    /\ LET reserve == IF prewarm THEN 1 ELSE 0
       IN  \/ \E p \in Producers : LeaseGranted(t, p, reserve)
           \/ LeaseRefused(t, reserve, IF prewarm THEN "recheck" ELSE "err")
    /\ UNCHANGED <<shared, state, everReady, initial, current, sup>>

(* A viewer may have claimed the session while the prewarm lease was refused. *)
RecheckPrewarm(t) ==
    /\ thr[t].pc = "recheck"
    /\ \/ /\ prewarm
          /\ ThreadStep(t, [thr[t] EXCEPT !.pc = "err"])
          /\ UNCHANGED producer
       \/ /\ ~prewarm
          /\ \/ \E p \in Producers : LeaseGranted(t, p, 0)
             \/ LeaseRefused(t, 0, "err")
    /\ UNCHANGED <<shared, state, everReady, initial, current, sup>>

RelayFails_KeepsLease(t) ==
    /\ thr[t].pc = "leased"
    /\ ThreadStep(t, [thr[t] EXCEPT !.pc = "err", !.prod = NoProducer, !.err = "other"])
    /\ UNCHANGED <<shared, state, everReady, initial, current, producer, sup>>

(* The protected relay cannot be created: the lease goes straight back. *)
RelayFails(t) ==
    /\ thr[t].pc = "leased"
    /\ producer' = [producer EXCEPT ![thr[t].prod] = Free]
    /\ ThreadStep(t, [thr[t] EXCEPT !.pc = "err", !.prod = NoProducer, !.err = "other"])
    /\ UNCHANGED <<shared, state, everReady, initial, current, sup>>

(* The state is published and the producer's Start runs. *)
Launch(t) ==
    /\ thr[t].pc = "leased"
    /\ state' = IF everReady THEN "reconnecting" ELSE "starting"
    /\ producer' = [producer EXCEPT ![thr[t].prod].phase = "running"]
    /\ ThreadStep(t, [thr[t] EXCEPT !.pc = "waiting"])
    /\ UNCHANGED <<shared, everReady, initial, current, sup>>

(* The decoder bootstrap is complete: Ready is closed. *)
StartSucceeds(t) ==
    /\ thr[t].pc = "waiting"
    /\ ThreadStep(t, [thr[t] EXCEPT !.pc = "ok"])
    /\ UNCHANGED <<shared, state, everReady, initial, current, producer, sup>>

(* Start or Errors reports a failure, the startup timer fires or the       *)
(* session is cancelled: the producer is stopped before the error returns. *)
StartFails(t) ==
    /\ thr[t].pc = "waiting"
    /\ producer' = Quiesce(thr[t].prod)
    /\ ThreadStep(t, [thr[t] EXCEPT !.pc = "cleanup", !.err = "other"])
    /\ UNCHANGED <<shared, state, everReady, initial, current, sup>>

(* The cleanup deadline passes first; the lease stays with the cleanup. *)
CleanupTimesOut(t) ==
    /\ thr[t].pc \in {"cleanup", "stop"}
    /\ ClearCurrent(thr[t].prod)
    /\ ThreadStep(t, IF thr[t].pc = "cleanup"
                     THEN [thr[t] EXCEPT !.pc = "err", !.prod = NoProducer, !.err = "stuck"]
                     ELSE [thr[t] EXCEPT !.pc = "stuck", !.prod = NoProducer])
    /\ UNCHANGED <<shared, state, everReady, initial, producer, sup>>

StartStep(t) ==
    \/ SourceRejected(t) \/ AcquireLease(t) \/ RecheckPrewarm(t) \/ RelayFails(t)
    \/ Launch(t) \/ StartSucceeds(t) \/ StartFails(t) \/ CleanupTimesOut(t)

-----------------------------------------------------------------------------
(* Producers and their cleanup goroutines *)

(* A producer queues one error (end of stream, stall, decoder ...).  One   *)
(* queued before the promotion is read right after it, if startup did not  *)
(* fail with it.                                                           *)
ProducerFails(p) ==
    /\ producer[p].bridged /\ ~producer[p].failed
    /\ producer' = [producer EXCEPT ![p].failed = TRUE]
    /\ UNCHANGED <<shared, state, everReady, initial, current, thr, sup>>

(* producer.Stop returns: the upstream connection is closed. *)
ProducerHalts(p) ==
    /\ producer[p].phase = "stopping"
    /\ producer' = [producer EXCEPT ![p].phase = "halted"]
    /\ UNCHANGED <<shared, state, everReady, initial, current, thr, sup>>

(* The lease is released, current cleared and whoever waits is woken. *)
CleanupDone(p) ==
    /\ producer[p].phase = "halted"
    /\ producer' = [producer EXCEPT ![p] = Free]
    /\ ClearCurrent(p)
    /\ thr' = [t \in Threads |->
                 IF thr[t].prod # p THEN thr[t]
                 ELSE [thr[t] EXCEPT !.prod = NoProducer,
                                     !.pc = IF @ = "cleanup" THEN "err" ELSE "stopped"]]
    /\ UNCHANGED <<shared, state, everReady, initial, sup>>

ProducerStep(p) == ProducerFails(p) \/ ProducerHalts(p) \/ CleanupDone(p)

-----------------------------------------------------------------------------
(* Session.run: cold start *)

Goto(pc) == sup' = [sup EXCEPT !.pc = pc]

Finish_Silent(final) ==
    /\ state' = final
    /\ UNCHANGED initial
    /\ Goto("ending")

(* Session.finish and failInitial: WaitReady gets its answer. *)
Finish(final) ==
    /\ state' = final
    /\ initial' = IF initial = "pending" THEN "failed" ELSE initial
    /\ Goto("ending")

ColdStart(list, i, attempt) ==
    LET race == scenario.coldRace /\ ~everReady /\ Len(list) > 1
    IN  /\ ThreadStep(IF race THEN "first" ELSE "run", Begin(i))
        /\ sup' = [sup EXCEPT !.pc = IF race THEN "race" ELSE "cold", !.list = list,
                              !.next = i, !.attempt = attempt, !.target = 1,
                              !.reason = "none", !.stuck = FALSE]

(* The head of the loop, with a fresh copy of the sources. *)
LoopTop ==
    /\ sup.pc = "top"
    /\ LET i == IF sup.next > Len(sources) THEN 1 ELSE sup.next
       IN  \/ /\ Active # NoProducer
              /\ sup' = [sup EXCEPT !.pc = "monitor", !.list = sources,
                                    !.target = 1, !.reason = "none"]
              /\ UNCHANGED <<state, initial, thr>>
           \/ /\ Active = NoProducer /\ sup.attempt < RetryLimit
              /\ ColdStart(sources, i, sup.attempt)
              /\ UNCHANGED <<state, initial>>
           \/ /\ Active = NoProducer /\ sup.attempt >= RetryLimit /\ ~everReady
              /\ Finish("failed")
              /\ UNCHANGED thr
           \/ /\ Active = NoProducer /\ sup.attempt >= RetryLimit /\ everReady
              /\ state' = "failed"
              /\ sup' = [sup EXCEPT !.pc = "retryWait", !.list = sources, !.next = i]
              /\ UNCHANGED <<initial, thr>>
    /\ UNCHANGED <<shared, everReady, current, producer>>

(* A backoff ends by its timer or by the cancelled context. *)
BackoffEnds ==
    /\ \/ /\ sup.pc = "retryWait"
          /\ ColdStart(sup.list, sup.next, 0)
          /\ UNCHANGED <<state, initial>>
       \/ /\ sup.pc = "failWait"
          /\ Goto("top")
          /\ UNCHANGED <<state, initial, thr>>
       \/ /\ sup.pc \in {"retryWait", "failWait"} /\ Cancelled
          /\ Finish("stopped")
          /\ UNCHANGED thr
    /\ UNCHANGED <<shared, everReady, current, producer>>

(* StartupHedge elapses: the backup source starts beside the primary. *)
HedgeColdStart ==
    /\ sup.pc = "race"
    /\ ThreadStep("second", Begin(Following(sup.list, sup.next)))
    /\ Goto("raceBoth")
    /\ UNCHANGED <<shared, state, everReady, initial, current, producer>>

(* The primary fails before that: the supervisor tries the backup itself. *)
PrimaryFails ==
    /\ sup.pc = "race" /\ thr["first"].pc = "err"
    /\ thr' = [thr EXCEPT !["first"] = Idle,
                          !["run"] = Begin(Following(sup.list, sup.next))]
    /\ Goto("cold")
    /\ UNCHANGED <<shared, state, everReady, initial, current, producer>>

(* One of two racers fails, the other one still runs. *)
RacerFails(t) ==
    /\ sup.pc = "raceBoth" /\ thr[t].pc = "err"
    /\ \E other \in Racers \ {t} : thr[other].pc # "idle"
    /\ ThreadStep(t, Idle)
    /\ sup' = [sup EXCEPT !.stuck = @ \/ thr[t].err = "stuck"]
    /\ UNCHANGED <<shared, state, everReady, initial, current, producer>>

(* t brings the last outcome of this cold start. *)
Decides(t) ==
    \/ sup.pc = "cold" /\ t = "run"
    \/ sup.pc = "race" /\ t = "first" /\ thr[t].pc = "ok"
    \/ /\ sup.pc = "raceBoth" /\ t \in Racers
       /\ thr[t].pc = "ok" \/ \A other \in Racers \ {t} : thr[other].pc = "idle"

ColdFails(t) ==
    /\ Decides(t) /\ thr[t].pc = "err"
    /\ ThreadStep(t, Idle)
    /\ \/ /\ Cancelled
          /\ Finish(IF sup.stuck \/ thr[t].err = "stuck" THEN "failed" ELSE "stopped")
       \/ /\ ~Cancelled
          /\ state' = "reconnecting"
          /\ LET i == Following(sup.list, sup.next)
             IN  sup' = [sup EXCEPT !.pc = IF i = 1 THEN "failWait" ELSE "top",
                                    !.next = i, !.attempt = @ + 1]
          /\ UNCHANGED initial
    /\ UNCHANGED <<shared, everReady, current, producer>>

(* promoteProducer, up to the wait for the previous producer's cleanup. *)
Promote(t, cleared) ==
    LET next == thr[t].prod
    IN  /\ producer' = [cleared EXCEPT ![next].bridged = TRUE]
        /\ current' = next
        /\ everReady' = TRUE
        /\ state' = "running"
        /\ initial' = IF initial = "pending" THEN "ok" ELSE initial

ColdSucceeds(t) ==
    /\ Decides(t) /\ thr[t].pc = "ok"
    /\ Promote(t, producer)
    /\ ThreadStep(t, Idle)
    /\ sup' = [sup EXCEPT !.pc = "monitor", !.active = thr[t].prod, !.attempt = 0,
                          !.next = 1, !.stuck = FALSE]
    /\ UNCHANGED shared

StopLoser_Forgets(t) ==
    /\ sup.pc \notin {"race", "raceBoth"}
    /\ thr[t].pc \in {"ok", "err"}
    /\ ThreadStep(t, Idle)
    /\ UNCHANGED <<shared, state, everReady, initial, current, producer, sup>>

(* The loser of the race is stopped by the goroutine that waits for it. *)
StopLoser(t) ==
    /\ sup.pc \notin {"race", "raceBoth"}
    /\ \/ /\ thr[t].pc = "ok"
          /\ producer' = Quiesce(thr[t].prod)
          /\ ThreadStep(t, Stopping(thr[t].prod))
       \/ /\ thr[t].pc \in {"err", "stopped", "stuck"}
          /\ ThreadStep(t, Idle)
          /\ UNCHANGED producer
    /\ UNCHANGED <<shared, state, everReady, initial, current, sup>>

-----------------------------------------------------------------------------
(* Session.run: monitoring and replacement *)

(* The supervisor stops p and waits for it in control state pc. *)
StopAndWait(p, pc) ==
    /\ producer' = Quiesce(p)
    /\ ThreadStep("run", Stopping(p))
    /\ Goto(pc)

RunStopped == thr["run"].pc \in {"stopped", "stuck"}

(* monitorProducer returns a reason, or goes on after the stall is over. *)
Monitor ==
    /\ sup.pc = "monitor"
    /\ \/ /\ producer[Active].failed
          /\ producer' = [producer EXCEPT ![Active].failed = FALSE]
          /\ sup' = [sup EXCEPT !.pc = "decide", !.reason = "error"]
          /\ UNCHANGED <<forceNext, thr>>
       \/ /\ forceNext # "none"
          /\ forceNext' = "none"
          /\ sup' = [sup EXCEPT !.pc = "decide", !.reason = forceNext]
          /\ UNCHANGED <<producer, thr>>
       \/ /\ ~producer[Active].hedged
          /\ sup' = [sup EXCEPT !.pc = "decide", !.reason = "hedge"]
          /\ UNCHANGED <<forceNext, producer, thr>>
       \/ /\ producer[Active].hedged
          /\ producer' = [producer EXCEPT ![Active].hedged = FALSE]
          /\ UNCHANGED <<forceNext, sup, thr>>
       \/ /\ Cancelled
          /\ StopAndWait(Active, "exit")
          /\ UNCHANGED forceNext
    /\ UNCHANGED <<sources, prewarm, client, others, stop, restartSource, restarting,
                   state, everReady, initial, current>>

Decide_IgnoresStop ==
    /\ sup.pc = "decide"
    /\ restartSource' = FALSE
    /\ LET target == Following(sup.list, producer[Active].idx)
       IN  \/ /\ sup.reason = "error"
              /\ StopAndWait(Active, "break")
           \/ /\ sup.reason # "error"
              /\ ThreadStep("run", Begin(target))
              /\ Goto("replace")
              /\ UNCHANGED producer
    /\ UNCHANGED <<sources, prewarm, client, others, stop, forceNext, restarting,
                   state, everReady, initial, current>>

(* The flag says whether to reconnect the same position or to move on.     *)
(* sources[target] beyond the list is a run-time panic.                    *)
Decide ==
    /\ sup.pc = "decide"
    /\ \/ /\ Cancelled
          /\ StopAndWait(Active, "exit")
          /\ UNCHANGED restartSource
       \/ /\ ~Cancelled
          /\ restartSource' = FALSE
          /\ LET i      == producer[Active].idx
                 target == IF restartSource THEN i ELSE Following(sup.list, i)
             IN  \/ /\ sup.reason = "error"
                    /\ producer' = Quiesce(Active)
                    /\ ThreadStep("run", Stopping(Active))
                    /\ sup' = [sup EXCEPT !.pc = "break", !.target = target]
                 \/ /\ sup.reason # "error" /\ target \in DOMAIN sup.list
                    /\ ThreadStep("run", Begin(target))
                    /\ sup' = [sup EXCEPT !.pc = "replace", !.target = target]
                    /\ UNCHANGED producer
                 \/ /\ sup.reason # "error" /\ target \notin DOMAIN sup.list
                    /\ Goto("panic")
                    /\ UNCHANGED <<producer, thr>>
    /\ UNCHANGED <<sources, prewarm, client, others, stop, forceNext, restarting,
                   state, everReady, initial, current>>

(* The replacement is ready; HLS viewers also need its first segment. *)
AwaitHls ==
    /\ sup.pc = "replace" /\ thr["run"].pc = "ok" /\ HasActiveHls
    /\ Goto("replaceHls")
    /\ UNCHANGED <<shared, state, everReady, initial, current, producer, thr>>

(* An error, the timer or the context ends the wait: drop the candidate. *)
HlsFails ==
    /\ sup.pc = "replaceHls"
    /\ StopAndWait(thr["run"].prod, "drop")
    /\ UNCHANGED <<shared, state, everReady, initial, current>>

ReplacementSucceeds_KeepsBridge ==
    /\ sup.pc = "replaceHls" \/ (sup.pc = "replace" /\ thr["run"].pc = "ok" /\ ~HasActiveHls)
    /\ Promote("run", producer)
    /\ ThreadStep("run", Stopping(Active))
    /\ sup' = [sup EXCEPT !.pc = "promoted", !.active = thr["run"].prod, !.attempt = 0]
    /\ UNCHANGED shared

(* promoteProducer(candidate, active): the old bridge ends first. *)
ReplacementSucceeds ==
    /\ sup.pc = "replaceHls" \/ (sup.pc = "replace" /\ thr["run"].pc = "ok" /\ ~HasActiveHls)
    /\ Promote("run", Quiesce(Active))
    /\ ThreadStep("run", Stopping(Active))
    /\ sup' = [sup EXCEPT !.pc = "promoted", !.active = thr["run"].prod, !.attempt = 0]
    /\ UNCHANGED shared

ReplacementFails_AlwaysBreaks ==
    /\ \/ sup.pc = "replace" /\ thr["run"].pc = "err"
       \/ sup.pc = "drop" /\ RunStopped
    /\ StopAndWait(Active, "break")
    /\ UNCHANGED <<shared, state, everReady, initial, current>>

ReplacementFails ==
    /\ \/ sup.pc = "replace" /\ thr["run"].pc = "err"
       \/ sup.pc = "drop" /\ RunStopped
    /\ LET manual == sup.reason \in {"next", "restart"}
           limited == thr["run"].err = "limit"
       IN  \/ /\ sup.reason = "hedge"     \* the original source has recovered
              /\ producer' = [producer EXCEPT ![Active].hedged = FALSE]
              /\ state' = "running"
              /\ ThreadStep("run", Idle)
              /\ Goto("top")
           \/ /\ sup.reason = "hedge"
              /\ producer' = [producer EXCEPT ![Active].hedged = TRUE]
              /\ ThreadStep("run", Idle)
              /\ Goto("top")
              /\ UNCHANGED state
           \/ /\ manual /\ ~limited       \* the current source is retained
              /\ state' = "running"
              /\ ThreadStep("run", Idle)
              /\ Goto("top")
              /\ UNCHANGED producer
           \/ /\ manual /\ limited        \* break before make
              /\ StopAndWait(Active, "break")
              /\ UNCHANGED state
    /\ UNCHANGED <<shared, everReady, initial, current>>

(* The previous producer has stopped, or its cleanup takes too long. *)
PreviousStopped ==
    /\ sup.pc = "promoted" /\ RunStopped
    /\ ThreadStep("run", Idle)
    /\ Goto("top")
    /\ UNCHANGED <<shared, state, everReady, initial, current, producer>>

ActiveStopped ==
    /\ sup.pc = "break" /\ RunStopped
    /\ ThreadStep("run", Idle)
    /\ state' = "reconnecting"
    /\ sup' = [sup EXCEPT !.pc = "top", !.active = NoProducer, !.next = sup.target,
                          !.attempt = @ + 1]
    /\ UNCHANGED <<shared, everReady, initial, current, producer>>

Exit ==
    /\ sup.pc = "exit" /\ RunStopped
    /\ Finish(IF thr["run"].pc = "stuck" THEN "failed" ELSE "stopped")
    /\ ThreadStep("run", Idle)
    /\ UNCHANGED <<shared, everReady, current, producer>>

(* onDone: the viewers end, then the manager forgets the session. *)
CloseClients(reason) ==
    client' = [c \in Clients |-> IF client[c] = "active" THEN reason ELSE client[c]]

Complete ==
    /\ \/ sup.pc = "ending" /\ Goto("ended") /\ CloseClients("ended")
       \/ sup.pc = "ended" /\ Goto("gone") /\ UNCHANGED client
    /\ UNCHANGED <<sources, prewarm, others, stop, requests, state, everReady,
                   initial, current, producer, thr>>

Supervise ==
    \/ LoopTop \/ BackoffEnds \/ HedgeColdStart \/ PrimaryFails
    \/ \E t \in Racers : RacerFails(t)
    \/ \E t \in Threads : ColdFails(t) \/ ColdSucceeds(t)
    \/ Monitor \/ Decide \/ AwaitHls \/ HlsFails \/ ReplacementSucceeds
    \/ ReplacementFails \/ PreviousStopped \/ ActiveStopped \/ Exit \/ Complete

-----------------------------------------------------------------------------
(* Requests from other goroutines *)

Registered == sup.pc # "gone"
Closing == state \in {"stopping", "stopped"}

(* acquireSources finds the session: the tune brings its own source list,  *)
(* and a viewer's tune claims a prewarmed session.                         *)
Reuse(list, viewer) ==
    /\ Registered /\ ~Closing
    /\ sources' = list
    /\ prewarm' = (prewarm /\ ~viewer)
    /\ UNCHANGED <<client, others, stop, requests, state, everReady, initial, current,
                   producer, thr, sup>>

ForceNextSource ==
    /\ Registered /\ forceNext = "none"
    /\ forceNext' = "next"
    /\ UNCHANGED <<sources, prewarm, client, others, stop, restartSource, restarting,
                   state, everReady, initial, current, producer, thr, sup>>

(* RestartSource sets its flag, then sends; a full channel refuses the     *)
(* request and takes the flag back.                                        *)
RestartSource ==
    /\ \/ /\ Registered /\ ~restarting
          /\ restartSource' = TRUE /\ restarting' = TRUE
          /\ UNCHANGED forceNext
       \/ /\ restarting /\ forceNext = "none"
          /\ forceNext' = "restart" /\ restarting' = FALSE
          /\ UNCHANGED restartSource
       \/ /\ restarting /\ forceNext # "none"
          /\ restartSource' = FALSE /\ restarting' = FALSE
          /\ UNCHANGED forceNext
    /\ UNCHANGED <<sources, prewarm, client, others, stop, state, everReady, initial,
                   current, producer, thr, sup>>

(* requestStop: the state, then the context, then the viewers. *)
RequestStop ==
    /\ stop = "no" /\ Registered
    /\ stop' = "marked"
    /\ state' = "stopping"
    /\ UNCHANGED <<sources, prewarm, client, others, requests, everReady, initial,
                   current, producer, thr, sup>>

StopProceeds ==
    /\ \/ stop = "marked" /\ stop' = "cancelled" /\ UNCHANGED client
       \/ stop = "cancelled" /\ stop' = "done" /\ CloseClients("ended")
    /\ UNCHANGED <<sources, prewarm, others, requests, state, everReady, initial,
                   current, producer, thr, sup>>

(* RegisterClient, on a session a request got hold of earlier. *)
RegisterClient(c) ==
    /\ ~Closing
    /\ client[c] \in {"none", "ended"}
    /\ client' = [client EXCEPT ![c] = "active"]
    /\ UNCHANGED <<sources, prewarm, others, stop, requests, state, everReady, initial,
                   current, producer, thr, sup>>

(* CloseClient and ReleaseClient; a terminated viewer may not come back. *)
CloseClient(c, reason) ==
    /\ client[c] = "active"
    /\ client' = [client EXCEPT ![c] = reason]
    /\ UNCHANGED <<sources, prewarm, others, stop, requests, state, everReady, initial,
                   current, producer, thr, sup>>

OtherSession(l) ==
    /\ \/ l \notin others /\ CanAcquire(0) /\ others' = others \cup {l}
       \/ l \in others /\ others' = others \ {l}
    /\ UNCHANGED <<sources, prewarm, client, stop, requests, state, everReady, initial,
                   current, producer, thr, sup>>

Request ==
    \/ "tune" \in scenario.requests /\ \E list \in SourceLists, viewer \in BOOLEAN : Reuse(list, viewer)
    \/ "failover" \in scenario.requests /\ ForceNextSource
    \/ "restart" \in scenario.requests /\ RestartSource
    \/ "stop" \in scenario.requests /\ (RequestStop \/ StopProceeds)
    \/ /\ "viewer" \in scenario.requests
       /\ \E c \in Clients : \/ RegisterClient(c)
                             \/ CloseClient(c, "ended") \/ CloseClient(c, "terminated")
    \/ "other" \in scenario.requests /\ \E l \in OtherLeases : OtherSession(l)

(* A panic of the supervisor goroutine takes the whole process down. *)
Next ==
    /\ sup.pc # "panic"
    /\ UNCHANGED scenario
    /\ \/ Supervise
       \/ \E t \in Threads : StartStep(t)
       \/ \E t \in Racers : StopLoser(t)
       \/ \E p \in Producers : ProducerStep(p)
       \/ Request

Spec == Init /\ [][Next]_<<vars, scenario>>

-----------------------------------------------------------------------------
(* The goroutines of the program keep running and timers fire.  Nothing is *)
(* assumed of the upstream (a producer may never be ready and its Stop may *)
(* hang) nor of requests, except that a requestStop under way completes.   *)
Fairness ==
    /\ WF_vars(Supervise)
    /\ \A t \in Threads : WF_vars(StartStep(t))
    /\ \A t \in Racers : WF_vars(StopLoser(t))
    /\ \A p \in Producers : WF_vars(CleanupDone(p))
    /\ WF_vars(StopProceeds)

FairSpec == Spec /\ Fairness

-----------------------------------------------------------------------------

(* The producer the supervisor, or one of the start goroutines, answers for. *)
Owned(p) == p = Active \/ \E t \in Threads : thr[t].prod = p

(* No upstream connection is forgotten: every running pipeline is the      *)
(* active one or in the hands of a goroutine that will promote or stop it  *)
(* - the loser of a cold-start race included - and none outlives the       *)
(* session except in a cleanup goroutine.                                  *)
NoForgottenProducer ==
    \A p \in Producers :
        producer[p].phase \in {"leased", "running"} =>
            /\ Owned(p)
            /\ sup.pc \in {"ending", "ended", "gone"} =>
                  \E t \in Racers : thr[t].prod = p

(* One producer feeds the public hub: the active one, promoted last, whose *)
(* pipeline is running, so viewers never get two interleaved transport     *)
(* streams.  While it is monitored, HLS requests and snapshots see the     *)
(* same one; cleanups of others, however late, neither clear it nor leave  *)
(* behind a producer whose slot has been given back.                       *)
OneFeed ==
    /\ \A p \in Producers :
         producer[p].bridged => p = Active /\ producer[p].phase = "running"
    /\ sup.pc \in {"monitor", "decide", "replace", "replaceHls", "promoted"} =>
         current = Active /\ producer[Active].bridged
    /\ current # NoProducer => producer[current].phase # "free"

(* The requested switch of a working source is made before the break: the  *)
(* bridge of the active producer is given up without a replacement only    *)
(* after an upstream error, for a session being stopped, or because the    *)
(* pool has no connection for a replacement.                               *)
MakeBeforeBreak ==
    [][\A p \in Producers :
          (producer[p].bridged /\ ~producer'[p].bridged) =>
              \/ \E q \in Producers : producer'[q].bridged
              \/ sup.reason = "error"
              \/ Cancelled
              \/ sup.pc = "replace" /\ thr["run"].err = "limit"]_vars

(* The leases of this session and of the others, as the coordinator of     *)
(* module ConnectionLimiter sees them: one pool, every source with Limit.  *)
LeaseOf(l) ==
    CASE l \in Leased -> [held |-> TRUE, pool |-> "pool", reserve |-> producer[l].reserve]
      [] l \in others -> [held |-> TRUE, pool |-> "pool", reserve |-> 0]
      [] OTHER        -> [held |-> FALSE, pool |-> "unpooled", reserve |-> 0]

LeaseMap == [l \in Producers \cup OtherLeases |-> LeaseOf(l)]
Used == Cardinality(Leased) + Cardinality(others)

Limiter ==
    INSTANCE ConnectionLimiter WITH
        Pools    <- {"pool"},
        Leases   <- Producers \cup OtherLeases,
        MaxLimit <- Limit,
        NoPool   <- "unpooled",
        known    <- IF Used = 0 THEN {} ELSE {"pool"},
        active   <- [p \in {"pool"} |-> Used],
        limit    <- [p \in {"pool"} |-> IF Used = 0 THEN 0 ELSE Limit],
        lease    <- LeaseMap

(* The session takes and gives back its leases as the coordinator allows:  *)
(* each is granted inside the limit (a prewarm's with its reserve) and     *)
(* released once, after a failed relay or when the pipeline has stopped.   *)
(* (This is Limiter!Spec: its other variables are functions of LeaseMap.)  *)
LimiterSpec ==
    /\ Limiter!Init
    /\ [][LeaseMap' # LeaseMap => Limiter!Next]_<<producer, others>>

-----------------------------------------------------------------------------
(* Every caller of WaitReady gets an answer, however the sources behave.   *)
ReadyAnswered == <>(initial # "pending")

(* A stopped session is gone after bounded waits, even if a pipeline hangs. *)
StopCompletes == (stop = "cancelled") ~> (sup.pc = "gone")

(* Once the session is gone its leases come back, if no pipeline hangs on   *)
(* its way to NULL for ever.                                               *)
LeasesReturn ==
    (\A p \in Producers : []<>(producer[p].phase # "stopping"))
        => (sup.pc = "gone") ~> (Leased = {})

(* Manual source selection never takes the process down.                   *)
NeverPanics == sup.pc # "panic"

=============================================================================
