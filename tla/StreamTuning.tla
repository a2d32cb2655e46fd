---------------------------- MODULE StreamTuning ----------------------------
(***************************************************************************)
(* How players tune (backend/pkg/streaming/playback.go and the Manager of  *)
(* manager.go, driven by backend/app/controllers/stream_controller.go):    *)
(* a playback identity moves from one shared session to another, source    *)
(* capacity is reclaimed from prewarms and idle sessions, viewers register *)
(* with the session they were given, HLS segment requests arrive late, and *)
(* the cleanup loop stops idle sessions.                                   *)
(*                                                                         *)
(* A session is the abstraction of module StreamSession: it takes a lease  *)
(* of its pool, becomes ready, fails or stops.  A handler keeps a pointer  *)
(* to the session it read under the manager's lock, and uses it later.     *)
(* Both callers of acquirePlaybackSources pass waitReady = false.          *)
(*                                                                         *)
(* Operation_Flaw is Operation with a plausible bug (ConnectionLimiter).   *)
(***************************************************************************)
EXTENDS Integers, FiniteSets, FiniteSetsExt

CONSTANTS
    Streams,          \* channel UUIDs
    Players,          \* playback identities
    Requests,         \* bound: the requests made; also the fresh client ids
    Pool,             \* the provider pool of each stream's source
    PrewarmChannels,  \* config.PrewarmChannels
    Scenarios,        \* bound: each has the pools' ConnectionLimit, and the
                      \* kinds of requests and protocols of its players
    Zapping,          \* may a player send a request before the last is answered
    None              \* a nil pointer or a missing map entry

ASSUME PoolAssumption == DOMAIN Pool = Streams
ASSUME NoneAssumption ==
    /\ None \notin Streams /\ None \notin Players /\ None \notin 1..Cardinality(Requests)
    /\ None \notin [stream: Streams, client: Requests, protocol: {"hls", "mpegts"}]
ASSUME BoundAssumption ==
    /\ IsFiniteSet(Requests) /\ PrewarmChannels \in Nat /\ Zapping \in BOOLEAN
    /\ Scenarios \subseteq [limit: Nat \ {0},
                             kinds: SUBSET {"tune", "release", "prewarm", "asset"},
                             protocols: SUBSET {"hls", "mpegts"}]

VARIABLES
    registry,   \* Manager.sessions
    session,    \* every Session made so far
    playback,   \* Manager.playbacks
    stripe,     \* who holds the playback stripe of a player
    client,     \* the viewers: status and the session they registered with
    req,        \* the locals of each request handler
    sweep,      \* the stream whose idle session the cleanup loop is to stop
    scenario    \* the member of Scenarios this behaviour is about: it is fixed

vars == <<registry, session, playback, stripe, client, req, sweep>>

-----------------------------------------------------------------------------

Sessions == 1..Cardinality(Requests)
NoPool == 0

Unused == [stream |-> None, state |-> "unused", leased |-> FALSE,
           positioned |-> FALSE, prewarm |-> FALSE]

Registered(i) == \E s \in Streams : registry[s] = i
Closing(i) == session[i].state \in {"stopping", "stopped"}
Viewers(i) == {c \in Requests : client[c].status = "active" /\ client[c].session = i}

(* connectionCoordinator.hasCapacityAny. *)
LeasesOn(pool) ==
    {i \in Sessions : session[i].leased /\ Pool[session[i].stream] = pool}
HasCapacity(s) == Pool[s] = NoPool \/ Cardinality(LeasesOn(Pool[s])) < scenario.limit

(* The pool a session shows to others: none until a producer was promoted. *)
PoolSeen(i) == IF session[i].positioned THEN Pool[session[i].stream] ELSE NoPool
Competes(i, s) == Pool[s] # NoPool /\ PoolSeen(i) = Pool[s]

(* An ended viewer may register again like one that never did. *)
NoViewer == [status |-> "none", session |-> None]
Ended(cs) == [c \in Requests |-> IF c \in cs THEN NoViewer ELSE client[c]]

(* What is left of a session the manager has forgotten. *)
Gone(i) == [Unused EXCEPT !.state = IF session[i].state = "failed" THEN "failed"
                                    ELSE "stopped",
                          !.stream = IF session[i].leased THEN session[i].stream ELSE None,
                          !.leased = session[i].leased]

(* Session.Stop, by any of its callers. *)
StopSession(i) ==
    /\ session' = [session EXCEPT ![i].state = IF @ = "stopped" THEN @ ELSE "stopping"]
    /\ client' = Ended(Viewers(i))

At(r, pc) == req[r].pc = pc

(* The locals of a handler before its first step and after its answer. *)
Blank(r, p, pc) ==
    [pc |-> pc, kind |-> "tune", player |-> p, stream |-> None, protocol |-> "hls",
     plan |-> "none", prev |-> None, client |-> r, session |-> None, cand |-> {}]

Move(r, pc) ==
    req' = [req EXCEPT ![r] = IF pc = "end" THEN Blank(r, @.player, "end")
                              ELSE [@ EXCEPT !.pc = pc]]

(* The playback lease of the tune generation r starts. *)
Lease(r) == [stream |-> req[r].stream, client |-> r, protocol |-> req[r].protocol]

Answered(r) == req[r].pc \in {"new", "end"}

Init ==
    /\ registry = [s \in Streams |-> None]
    /\ session = [i \in Sessions |-> Unused]
    /\ playback = [p \in Players |-> None]
    /\ stripe = [p \in Players |-> None]
    /\ client = [c \in Requests |-> NoViewer]
    /\ req = [r \in Requests |-> Blank(r, None, "new")]
    /\ sweep = None
    /\ scenario \in Scenarios

-----------------------------------------------------------------------------
(* A request arrives and takes the stripe of its player *)

Arrive(r, p, s, protocol, kind) ==
    /\ At(r, "new")
    /\ Zapping \/ \A q \in Requests : req[q].player = p => Answered(q)
    /\ req' = [req EXCEPT ![r] = [@ EXCEPT
                 !.kind = kind, !.player = p, !.stream = s, !.protocol = protocol,
                 !.pc = CASE kind = "prewarm" -> "attach" [] kind = "asset" -> "resolve"
                          [] OTHER -> "lock",
                 !.plan = IF kind = "prewarm" THEN "prewarm" ELSE "none"]]
    /\ UNCHANGED <<registry, session, playback, stripe, client, sweep>>

TakeStripe(r) ==
    /\ At(r, "lock")
    /\ stripe[req[r].player] = None
    /\ stripe' = [stripe EXCEPT ![req[r].player] = r]

(* An HLS manifest reload belongs to the tune generation it reloads. *)
SameTune(r) ==
    LET prev == playback[req[r].player]
    IN  /\ prev # None /\ prev.stream = req[r].stream
        /\ prev.protocol = "hls" /\ req[r].protocol = "hls"

StartTune(r) ==
    /\ req[r].kind = "tune"
    /\ TakeStripe(r)
    /\ LET prev == playback[req[r].player]
       IN req' = [req EXCEPT ![r] = [@ EXCEPT
            !.prev   = prev,
            !.client = IF SameTune(r) THEN prev.client ELSE r,
            !.plan   = CASE SameTune(r) -> "reload" [] prev = None -> "store"
                         [] OTHER -> "replace",
            !.pc     = IF SameTune(r) \/ prev = None THEN "acquire" ELSE "assess"]]
    /\ UNCHANGED <<registry, session, playback, client, sweep>>

(* ReleasePlayback: a player minimizes, navigates or unloads. *)
StartRelease(r) ==
    /\ req[r].kind = "release"
    /\ TakeStripe(r)
    /\ LET p    == req[r].player
           held == playback[p] # None /\ playback[p].stream = req[r].stream
       IN  /\ playback' = IF held THEN [playback EXCEPT ![p] = None] ELSE playback
           /\ req' = [req EXCEPT ![r] = [@ EXCEPT !.prev = playback[p], !.plan = "release",
                                            !.pc = IF held THEN "detach" ELSE "unlock"]]
    /\ UNCHANGED <<registry, session, client, sweep>>

(* Make before break when the target exists or the pool has room. *)
Assess(r) ==
    /\ At(r, "assess")
    /\ Move(r, IF registry[req[r].stream] # None \/ HasCapacity(req[r].stream)
               THEN "acquire" ELSE "weigh")
    /\ UNCHANGED <<registry, session, playback, stripe, client, sweep>>

(* playbackCanFreeSources. *)
CanFree(prev, s) ==
    /\ registry[prev.stream] # None
    /\ Cardinality(Viewers(registry[prev.stream])) <= 1
    /\ Competes(registry[prev.stream], s)

(* Break before make, the new generation first; or leave the old one alone. *)
Weigh(r) ==
    /\ At(r, "weigh")
    /\ \/ /\ CanFree(req[r].prev, req[r].stream)
          /\ playback' = [playback EXCEPT ![req[r].player] = Lease(r)]
          /\ req' = [req EXCEPT ![r].pc = "detach", ![r].plan = "handover"]
       \/ /\ ~CanFree(req[r].prev, req[r].stream)
          /\ Move(r, "acquire")
          /\ UNCHANGED playback
    /\ UNCHANGED <<registry, session, stripe, client, sweep>>

-----------------------------------------------------------------------------
(* detachPlayback: release the client, count the viewers, stop, wait *)

(* Where the handler goes once the old session is dealt with. *)
Detached(r) == IF req[r].plan = "handover" THEN "acquire" ELSE "unlock"

(* A transport replaced on its own stream never stops the session. *)
StopsWhenEmpty(r) == ~(req[r].plan = "replace" /\ req[r].prev.stream = req[r].stream)

Detach_Forgets(r) ==
    /\ At(r, "detach")
    /\ Move(r, Detached(r))
    /\ UNCHANGED <<registry, session, playback, stripe, client, sweep>>

Detach(r) ==
    /\ At(r, "detach")
    /\ LET i == registry[req[r].prev.stream]
           c == req[r].prev.client
       IN  /\ client' = IF i # None /\ c \in Viewers(i) THEN Ended({c}) ELSE client
           /\ req' = [req EXCEPT
                ![r].cand = IF i = None THEN {} ELSE {i},
                ![r].pc   = IF i # None /\ StopsWhenEmpty(r) THEN "count" ELSE Detached(r)]
    /\ UNCHANGED <<registry, session, playback, stripe, sweep>>

Count(r) ==
    /\ At(r, "count")
    /\ Move(r, IF \E i \in req[r].cand : Viewers(i) # {} THEN Detached(r) ELSE "halt")
    /\ UNCHANGED <<registry, session, playback, stripe, client, sweep>>

(* The waits for the session's end are cut short by the request's context. *)
Halt(r) ==
    /\ At(r, "halt")
    /\ \E i \in req[r].cand : StopSession(i)
    /\ Move(r, IF req[r].plan = "replace" THEN "unlock" ELSE "await")
    /\ UNCHANGED <<registry, playback, stripe, sweep>>

Await(r) ==
    /\ At(r, "await")
    /\ Move(r, Detached(r))
    /\ UNCHANGED <<registry, session, playback, stripe, client, sweep>>

-----------------------------------------------------------------------------
(* acquireSources *)

(* Only a new session needs room in the pool. *)
Reclaimed(r) == IF registry[req[r].stream] # None THEN "attach" ELSE "capacity"

(* reclaimPrewarms: the candidates are read under the lock, stopped after. *)
Acquire(r) ==
    /\ At(r, "acquire")
    /\ LET prewarms == {i \in Sessions : /\ Registered(i) /\ session[i].stream # req[r].stream
                                          /\ session[i].prewarm /\ Competes(i, req[r].stream)}
       IN  req' = [req EXCEPT ![r].cand = prewarms,
                              ![r].pc = IF prewarms = {} THEN Reclaimed(r) ELSE "reclaim"]
    /\ UNCHANGED <<registry, session, playback, stripe, client, sweep>>

StopCandidate(r) ==
    /\ \E i \in req[r].cand :
          /\ StopSession(i)
          /\ req' = [req EXCEPT ![r].cand = @ \ {i}]
    /\ UNCHANGED <<registry, playback, stripe, sweep>>

Reclaim(r) ==
    /\ At(r, "reclaim")
    /\ \/ StopCandidate(r)
       \/ /\ req[r].cand = {}
          /\ Move(r, Reclaimed(r))
          /\ UNCHANGED <<registry, session, playback, stripe, client, sweep>>

(* ensureSourceCapacity: until the pool has room or the deadline passes,   *)
(* sessions without viewers are stopped.                                   *)
EnsureCapacity(r) ==
    /\ At(r, "capacity")
    /\ LET idle == {i \in Sessions : /\ Registered(i) /\ session[i].stream # req[r].stream
                                      /\ Viewers(i) = {} /\ ~Closing(i)
                                      /\ Competes(i, req[r].stream)}
       IN  \/ Move(r, "attach")
           \/ /\ ~HasCapacity(req[r].stream) /\ idle # {}
              /\ req' = [req EXCEPT ![r].pc = "evict", ![r].cand = idle]
    /\ UNCHANGED <<registry, session, playback, stripe, client, sweep>>

Evict(r) ==
    /\ At(r, "evict")
    /\ \/ StopCandidate(r)
       \/ /\ req[r].cand = {}
          /\ Move(r, "capacity")
          /\ UNCHANGED <<registry, session, playback, stripe, client, sweep>>

Fresh == Min({i \in Sessions : session[i].state = "unused"})

Prewarms == {i \in Sessions : Registered(i) /\ session[i].prewarm}

(* The handler's next step after it was given session i, or refused. *)
Given(r, i) ==
    IF req[r].plan = "prewarm" THEN Move(r, "end")
    ELSE req' = [req EXCEPT
             ![r].session = i,
             ![r].pc = IF req[r].plan = "replace" THEN "detach" ELSE "unlock"]

Reused(s, prewarm) == [session EXCEPT ![registry[s]].prewarm = @ /\ prewarm]
Created(s, prewarm) ==
    [session EXCEPT ![Fresh] = [Unused EXCEPT !.stream = s, !.state = "starting",
                                              !.prewarm = prewarm]]

Attach_StoresFirst(r) ==
    /\ At(r, "attach")
    /\ LET s == req[r].stream
       IN  /\ \/ /\ registry[s] # None /\ ~Closing(registry[s])
                 /\ session' = Reused(s, FALSE)
                 /\ Given(r, registry[s])
                 /\ UNCHANGED registry
              \/ /\ registry[s] = None
                 /\ session' = Created(s, FALSE)
                 /\ registry' = [registry EXCEPT ![s] = Fresh]
                 /\ Given(r, Fresh)
              \/ /\ registry[s] # None /\ Closing(registry[s])
                 /\ req' = [req EXCEPT ![r].pc = "unlock"]
                 /\ UNCHANGED <<registry, session>>
           /\ playback' = [playback EXCEPT ![req[r].player] = Lease(r)]
    /\ UNCHANGED <<stripe, client, sweep>>

(* Under the manager's lock: reuse the session, refuse one that is being   *)
(* stopped, or create one; then the playback moves to the new generation   *)
(* (a handover has moved it before, and takes it back on an error).        *)
Attach(r) ==
    /\ At(r, "attach")
    /\ LET s       == req[r].stream
           p       == req[r].player
           prewarm == req[r].plan = "prewarm"
           moves   == req[r].plan \in {"store", "replace"}
       IN  \/ /\ registry[s] # None /\ ~Closing(registry[s])
              /\ session' = Reused(s, prewarm)
              /\ Given(r, registry[s])
              /\ playback' = IF moves THEN [playback EXCEPT ![p] = Lease(r)] ELSE playback
              /\ UNCHANGED registry
           \/ /\ registry[s] = None
              /\ prewarm => Cardinality(Prewarms) < PrewarmChannels
              /\ session' = Created(s, prewarm)
              /\ registry' = [registry EXCEPT ![s] = Fresh]
              /\ Given(r, Fresh)
              /\ playback' = IF moves THEN [playback EXCEPT ![p] = Lease(r)] ELSE playback
           \/ /\ \/ registry[s] # None /\ Closing(registry[s])
                 \/ registry[s] = None /\ prewarm /\ Cardinality(Prewarms) >= PrewarmChannels
              /\ Move(r, IF prewarm THEN "end" ELSE "unlock")
              /\ playback' = IF req[r].plan = "handover" /\ playback[p] = Lease(r)
                             THEN [playback EXCEPT ![p] = None] ELSE playback
              /\ UNCHANGED <<registry, session>>
    /\ UNCHANGED <<stripe, client, sweep>>

Unlock_OnSuccess(r) ==
    /\ At(r, "unlock")
    /\ stripe' = IF req[r].session = None THEN stripe
                 ELSE [stripe EXCEPT ![req[r].player] = None]
    /\ Move(r, IF req[r].session # None THEN "register" ELSE "end")
    /\ UNCHANGED <<registry, session, playback, client, sweep>>

Unlock(r) ==
    /\ At(r, "unlock")
    /\ stripe' = [stripe EXCEPT ![req[r].player] = None]
    /\ Move(r, IF req[r].session # None THEN "register" ELSE "end")
    /\ UNCHANGED <<registry, session, playback, client, sweep>>

-----------------------------------------------------------------------------
(* RegisterClient, and the way of an HLS segment request to it *)

(* GetHlsAsset: the session is touched and the playback resolved. *)
Resolve(r) ==
    /\ At(r, "resolve")
    /\ LET s    == req[r].stream
           p    == req[r].player
           live == registry[s] # None /\ ~Closing(registry[s])
           held == playback[p] # None /\ playback[p].stream = s
       IN  \/ /\ live /\ held
              /\ req' = [req EXCEPT ![r].pc = "register", ![r].session = registry[s],
                                    ![r].client = playback[p].client]
           \/ /\ ~(live /\ held)
              /\ Move(r, "end")
    /\ UNCHANGED <<registry, session, playback, stripe, client, sweep>>

(* A failed session closes its viewers at once: its hub is closed and      *)
(* WaitReady has its error.                                                *)
Register(r) ==
    /\ At(r, "register")
    /\ Move(r, "end")
    /\ LET i == req[r].session
           c == req[r].client
           terminated == client[c].status = "terminated" /\ client[c].session = i
       IN  client' = IF Closing(i) \/ session[i].state = "failed" \/ terminated THEN client
                     ELSE [client EXCEPT ![c] = [status |-> "active", session |-> i]]
    /\ UNCHANGED <<registry, session, playback, stripe, sweep>>

(* The viewer's socket closes or it times out, or an operator disconnects  *)
(* it for as long as the session lives.                                    *)
Leave(c) ==
    /\ client[c].status = "active"
    /\ \/ client' = Ended({c})
       \/ client' = [client EXCEPT ![c].status = "terminated"]
    /\ UNCHANGED <<registry, session, playback, stripe, req, sweep>>

-----------------------------------------------------------------------------
(* Sessions by themselves, and the cleanup loop *)

Connect(i) ==
    /\ session[i].state = "starting" /\ ~session[i].leased
    /\ HasCapacity(session[i].stream)
    /\ session' = [session EXCEPT ![i].leased = TRUE]
    /\ UNCHANGED <<registry, playback, stripe, client, req, sweep>>

BecomeReady(i) ==
    /\ session[i].state = "starting" /\ session[i].leased
    /\ session' = [session EXCEPT ![i].state = "running", ![i].positioned = TRUE]
    /\ UNCHANGED <<registry, playback, stripe, client, req, sweep>>

(* The source is lost, or the attempts of a session never ready run out.   *)
LoseSource(i) ==
    /\ \/ /\ session[i].state = "running"
          /\ session' = [session EXCEPT ![i].state = "starting", ![i].leased = FALSE]
       \/ /\ session[i].state = "starting" /\ ~session[i].positioned
          /\ session' = [session EXCEPT ![i].state = "failed"]
    /\ UNCHANGED <<registry, playback, stripe, client, req, sweep>>

(* onDone: the viewers end and the manager forgets the session.            *)
End(i) ==
    /\ Registered(i)
    /\ session[i].state \in {"stopping", "failed"}
    /\ registry' = [registry EXCEPT ![session[i].stream] = None]
    /\ session' = [session EXCEPT ![i] = Gone(i)]
    /\ client' = Ended({c \in Requests : client[c].session = i})
    /\ UNCHANGED <<playback, stripe, req, sweep>>

(* The cleanup of its producer ends before or after that. *)
ReturnLease(i) ==
    /\ session[i].leased /\ session[i].state \in {"failed", "stopping", "stopped"}
    /\ session' = [session EXCEPT ![i].leased = FALSE,
                                  ![i].stream = IF Registered(i) THEN @ ELSE None]
    /\ UNCHANGED <<registry, playback, stripe, client, req, sweep>>

(* cleanupLoop: a snapshot without viewers whose last access is long ago   *)
(* (never while a handler is between its session and its registration)...  *)
FindIdle_Running ==
    /\ sweep = None
    /\ \E i \in Sessions :
          /\ Registered(i) /\ Viewers(i) = {} /\ session[i].state = "running"
          /\ \A r \in Requests : req[r].session = i => Answered(r)
          /\ sweep' = session[i].stream
    /\ UNCHANGED <<registry, session, playback, stripe, client, req>>

FindIdle ==
    /\ sweep = None
    /\ \E i \in Sessions :
          /\ Registered(i) /\ Viewers(i) = {} /\ ~Closing(i)
          /\ \A r \in Requests : req[r].session = i => Answered(r)
          /\ sweep' = session[i].stream
    /\ UNCHANGED <<registry, session, playback, stripe, client, req>>

(* ... and whatever session its stream has by now is stopped, without a    *)
(* second look.                                                            *)
StopIdle ==
    /\ sweep # None
    /\ IF registry[sweep] # None THEN StopSession(registry[sweep])
       ELSE UNCHANGED <<session, client>>
    /\ sweep' = None
    /\ UNCHANGED <<registry, playback, stripe, req>>

(* prunePlaybacks: a lease not seen for ten minutes whose viewer is gone.  *)
PrunePlayback(p) ==
    /\ playback[p] # None
    /\ \A r \in Requests : req[r].client = playback[p].client => Answered(r)
    /\ LET i == registry[playback[p].stream]
       IN  i # None => playback[p].client \notin Viewers(i)
    /\ playback' = [playback EXCEPT ![p] = None]
    /\ UNCHANGED <<registry, session, stripe, client, req, sweep>>

Handle(r) ==
    \/ StartTune(r) \/ StartRelease(r) \/ Assess(r) \/ Weigh(r)
    \/ Detach(r) \/ Count(r) \/ Halt(r) \/ Await(r)
    \/ Acquire(r) \/ Reclaim(r) \/ EnsureCapacity(r) \/ Evict(r) \/ Attach(r) \/ Unlock(r)
    \/ Resolve(r) \/ Register(r)

Live(i) == Connect(i) \/ BecomeReady(i) \/ LoseSource(i) \/ End(i) \/ ReturnLease(i)

Next ==
    /\ \/ \E r \in Requests, p \in Players, s \in Streams :
             \E protocol \in scenario.protocols, kind \in scenario.kinds :
                Arrive(r, p, s, protocol, kind)
       \/ \E r \in Requests : Handle(r)
       \/ \E c \in Requests : Leave(c)
       \/ \E i \in Sessions : Live(i)
       \/ FindIdle \/ StopIdle
       \/ \E p \in Players : PrunePlayback(p)
    /\ UNCHANGED scenario

Spec == Init /\ [][Next]_<<vars, scenario>>

-----------------------------------------------------------------------------
(* Handlers, the cleanup loop and the supervisors keep running (that a     *)
(* stopped session ends is StopCompletes of StreamSession); nothing is     *)
(* assumed of players, viewers and upstreams.                              *)
Fairness ==
    /\ \A r \in Requests : WF_vars(Handle(r))
    /\ \A i \in Sessions : WF_vars(End(i))
    /\ WF_vars(FindIdle) /\ WF_vars(StopIdle)

FairSpec == Spec /\ Fairness

-----------------------------------------------------------------------------

Leases == [stream: Streams, client: Requests, protocol: {"hls", "mpegts"}] \cup {None}

Quiet(p) == \A r \in Requests : req[r].player = p => Answered(r)

(* A player that waits for its answers has one connection at most, the one *)
(* of its playback lease: a tune, a reconnect or a release ends the former *)
(* one, whatever session it is on, and pruning keeps the lease of a viewer *)
(* that still watches (it is what the next tune would end).                *)
OneTransport ==
    \A p \in Players : Quiet(p) =>
        \A c \in Requests :
            (req[c].player = p /\ client[c].status = "active")
                => playback[p] # None /\ playback[p].client = c

(* A tune that is refused leaves the player on the channel it watches,     *)
(* unless it has already given that one up to make room.                   *)
RefusedTuneKeepsPlayback ==
    [][\A r \in Requests :
          (At(r, "attach") /\ req[r].plan # "handover" /\ req'[r].session = None
             /\ req'[r].pc = "unlock")
             => playback' = playback]_vars

(* Every request gets its answer and gives the stripe of its player back,  *)
(* although it waits for sessions, capacity and other requests.            *)
RequestsAnswered == \A r \in Requests : At(r, "lock") ~> Answered(r)

(* A session nobody watches does not keep its upstream: it ends, or gets   *)
(* a viewer again.                                                         *)
UnwatchedSessionsEnd ==
    \A i \in Sessions : Registered(i) ~> (~Registered(i) \/ Viewers(i) # {})

-----------------------------------------------------------------------------
(* A switch or release that stops its old session evicts no other viewer.  *)
SharedViewersSpared ==
    [][\A r \in Requests, i \in Sessions :
          (At(r, "halt") /\ ~At(r, "halt")' /\ i \in req[r].cand) => Viewers(i) = {}]_vars

=============================================================================
