--------------------------- MODULE PlaybackProofs ---------------------------
(***************************************************************************)
(* Two models of playback: the pipeline that makes a stream, and the       *)
(* tuning that hands streams to players.                                   *)
(*                                                                         *)
(* The layout of a pipeline is left alone once it is sealed, and once Stop *)
(* has drained the edits of the graph, for any set of tracks and media.    *)
(* Two callbacks change the layout half way through a step of their own    *)
(* (routePadToMux), so the property needs to know when no track is being   *)
(* linked: LockedLink ties that to graphMu, QuietOnceSealed and            *)
(* QuietOnceDrained say that nobody is behind the two steps that look at   *)
(* the lock.  CallbacksWhilePlaying is for a Stop that finds no pipeline,  *)
(* and CarrierFirst for the demultiplexer, without which there are no      *)
(* tracks.                                                                 *)
(*                                                                         *)
(* The second half has the theorems of tuning: what HandlersInv and        *)
(* TuningInv say is explained where they are defined.                      *)
(***************************************************************************)
EXTENDS StreamTuning, MediaPipeline, FilteringProofs, FiniteSetTheorems, TLAPS

PipelineTypeOK ==
    /\ track \in [Tracks -> {"hidden", "added", "asking", "linking", "syncing", "flowing", "over"}]
    /\ pipeline \in [state : {"none", "playing", "null"}, started : {"no", "holding", "yes", "failed"}]
    /\ stop \in {"no", "called", "draining", "drained", "late", "done"}
    /\ graphMu \in Tracks \cup {"free"}

NobodyLinks == \A t \in Tracks : track[t] # "linking"

LockedLink == \A t \in Tracks : track[t] = "linking" => graphMu = t
QuietOnceSealed == sealed => NobodyLinks
QuietOnceDrained == stop \in {"drained", "done"} => NobodyLinks
CallbacksWhilePlaying == \A t \in Tracks : InCallback(t) => Playing
CarrierFirst ==
    source.transport /\ ~carrier =>
        (\A t \in Tracks : track[t] = "hidden") /\ routed = {} /\ ~sealed

PipelineInv ==
    /\ PipelineTypeOK /\ LockedLink /\ QuietOnceSealed /\ QuietOnceDrained
    /\ CallbacksWhilePlaying /\ CarrierFirst

-----------------------------------------------------------------------------

LEMMA PipelineInitInv == PipelineInit => PipelineInv
  BY DEF PipelineInit, PipelineInv, PipelineTypeOK, NobodyLinks, LockedLink, QuietOnceSealed,
         QuietOnceDrained, CallbacksWhilePlaying, InCallback, CarrierFirst

(* Start touches no track; the pipeline it starts was not playing before.  *)
LEMMA StartKeepsInv == PipelineInv /\ StartStep => PipelineInv'
  BY DEF StartStep, BeginStart, Play, StartReturns, StartIsRefused, Playing,
         PipelineInv, PipelineTypeOK, NobodyLinks, LockedLink, QuietOnceSealed,
         QuietOnceDrained, CallbacksWhilePlaying, InCallback, CarrierFirst

(* A callback that links no track.                                         *)
LEMMA OtherCallbacksKeepInv ==
    ASSUME PipelineInv, NEW t \in Tracks,
           \/ DemuxPadAdded(t) \/ AttachSourcePad(t) \/ CapsAreFixed(t) \/ LeaveOut(t)
           \/ RefuseLateTrack(t) \/ SyncTrack(t) \/ PublishSample(t)
    PROVE  PipelineInv'
  <1>1. CASE DemuxPadAdded(t) \/ AttachSourcePad(t) \/ CapsAreFixed(t)
    BY <1>1 DEF DemuxPadAdded, AttachSourcePad, CapsAreFixed, Playing,
         PipelineInv, PipelineTypeOK, NobodyLinks, LockedLink, QuietOnceSealed,
         QuietOnceDrained, CallbacksWhilePlaying, InCallback, CarrierFirst
  <1>2. CASE LeaveOut(t) \/ RefuseLateTrack(t)
    BY <1>2 DEF LeaveOut, RefuseLateTrack, Routable, Playing,
         PipelineInv, PipelineTypeOK, NobodyLinks, LockedLink, QuietOnceSealed,
         QuietOnceDrained, CallbacksWhilePlaying, InCallback, CarrierFirst
  <1>3. CASE SyncTrack(t) \/ PublishSample(t)
    BY <1>3 DEF SyncTrack, PublishSample, Playing,
         PipelineInv, PipelineTypeOK, NobodyLinks, LockedLink, QuietOnceSealed,
         QuietOnceDrained, CallbacksWhilePlaying, InCallback, CarrierFirst
  <1>. QED  BY <1>1, <1>2, <1>3

(* routeElementaryPad takes the lock for a track; it does so only while    *)
(* nothing is sealed and nothing stops.                                    *)
LEMMA ClaimKeepsInv ==
    ASSUME PipelineInv, NEW t \in Tracks, ClaimTrack(t)
    PROVE  PipelineInv'
  <1>1. /\ track' = [track EXCEPT ![t] = "linking"] /\ graphMu = "free" /\ graphMu' = t
        /\ ~sealed /\ ~sealed' /\ stop = "no" /\ stop' = "no"
        /\ track[t] = "asking" /\ UNCHANGED <<source, pipeline, carrier>>
    BY DEF ClaimTrack, Routable, stopping
  <1>2. NobodyLinks
    BY <1>1, PipelineAssumption DEF PipelineInv, LockedLink, NobodyLinks
  <1>3. PipelineTypeOK'
    BY <1>1 DEF PipelineInv, PipelineTypeOK
  <1>4. LockedLink' /\ CallbacksWhilePlaying'
    BY <1>1, <1>2 DEF PipelineInv, PipelineTypeOK, LockedLink, NobodyLinks, CallbacksWhilePlaying, InCallback, Playing
  <1>5. QuietOnceSealed' /\ QuietOnceDrained'
    BY <1>1 DEF QuietOnceSealed, QuietOnceDrained
  <1>6. CarrierFirst'
    BY <1>1 DEF PipelineInv, CarrierFirst
  <1>. QED  BY <1>3, <1>4, <1>5, <1>6 DEF PipelineInv

(* ... and gives it back when the track is linked or has failed.           *)
LEMMA LinkKeepsInv ==
    ASSUME PipelineInv, NEW t \in Tracks, LinkTrack(t) \/ LinkFails(t)
    PROVE  PipelineInv'
  <1>1. /\ track[t] = "linking" /\ graphMu' = "free"
        /\ \/ track' = [track EXCEPT ![t] = "syncing"]
           \/ track' = [track EXCEPT ![t] = "over"]
        /\ routed' \subseteq routed
        /\ UNCHANGED <<source, pipeline, carrier, sealed, stop>>
    BY DEF LinkTrack, LinkFails
  <1>2. \A q \in Tracks : track[q] = "linking" => q = t
    BY <1>1 DEF PipelineInv, LockedLink
  <1>3. NobodyLinks'
    BY <1>1, <1>2 DEF PipelineInv, PipelineTypeOK, NobodyLinks
  <1>4. PipelineTypeOK'
    BY <1>1 DEF PipelineInv, PipelineTypeOK
  <1>5. CarrierFirst'
    BY <1>1 DEF PipelineInv, CarrierFirst
  <1>6. CallbacksWhilePlaying'
    BY <1>1 DEF PipelineInv, PipelineTypeOK, CallbacksWhilePlaying, InCallback, Playing
  <1>. QED  BY <1>3, <1>4, <1>5, <1>6 DEF PipelineInv, NobodyLinks, LockedLink, QuietOnceSealed, QuietOnceDrained

(* The loops.  startHLSInputs looks at the lock before it seals.           *)
LEMMA LoopKeepsInv == PipelineInv /\ LoopStep => PipelineInv'
  <1>. SUFFICES ASSUME PipelineInv, LoopStep PROVE PipelineInv'
    OBVIOUS
  <1>1. CASE StartHLSInputs
    <2>1. NobodyLinks
      BY <1>1, PipelineAssumption DEF StartHLSInputs, PipelineInv, LockedLink, NobodyLinks
    <2>. QED  BY <1>1, <2>1 DEF StartHLSInputs, Playing,
         PipelineInv, PipelineTypeOK, NobodyLinks, LockedLink, QuietOnceSealed,
         QuietOnceDrained, CallbacksWhilePlaying, InCallback, CarrierFirst
  <1>2. CASE TimePasses \/ DecoderReady \/ BusLoopEnds \/ SourceStalls \/ AttachTransport
    BY <1>2 DEF TimePasses, DecoderReady, BusLoopEnds, SourceStalls, AttachTransport, Playing,
         PipelineInv, PipelineTypeOK, NobodyLinks, LockedLink, QuietOnceSealed,
         QuietOnceDrained, CallbacksWhilePlaying, InCallback, CarrierFirst
  <1>. QED  BY <1>1, <1>2 DEF LoopStep

(* Stop.  It goes on to NULL from a free lock, or from a pipeline that has *)
(* no callback left.                                                       *)
LEMMA StopKeepsInv == PipelineInv /\ (BeginStop \/ StopStep) => PipelineInv'
  <1>. SUFFICES ASSUME PipelineInv, BeginStop \/ StopStep PROVE PipelineInv'
    OBVIOUS
  <1>1. CASE BeginStop \/ PassLifecycle
    BY <1>1 DEF BeginStop, PassLifecycle, Playing,
         PipelineInv, PipelineTypeOK, NobodyLinks, LockedLink, QuietOnceSealed,
         QuietOnceDrained, CallbacksWhilePlaying, InCallback, CarrierFirst
  <1>2. CASE DrainGraph
    <2>1. /\ stop' = "done" => pipeline.state = "none"
          /\ stop' = "drained" => graphMu = "free"
          /\ stop' \in {"done", "drained", "late"}
          /\ UNCHANGED <<source, pipeline, track, carrier, routed, sealed, graphMu>>
      BY <1>2 DEF DrainGraph
    <2>2. stop' \in {"drained", "done"} => NobodyLinks
      BY <2>1, PipelineAssumption DEF PipelineInv, LockedLink, CallbacksWhilePlaying, InCallback, Playing, NobodyLinks
    <2>. QED  BY <2>1, <2>2 DEF Playing,
         PipelineInv, PipelineTypeOK, NobodyLinks, LockedLink, QuietOnceSealed,
         QuietOnceDrained, CallbacksWhilePlaying, InCallback, CarrierFirst
  <1>3. CASE ReachNull
    <2>1. NobodyLinks
      BY <1>3 DEF ReachNull, InCallback, NobodyLinks
    <2>. QED  BY <1>3, <2>1 DEF ReachNull, Playing,
         PipelineInv, PipelineTypeOK, NobodyLinks, LockedLink, QuietOnceSealed,
         QuietOnceDrained, CallbacksWhilePlaying, InCallback, CarrierFirst
  <1>4. CASE DisposePipeline
    <2>1. NobodyLinks
      BY <1>4 DEF DisposePipeline, PipelineInv, CallbacksWhilePlaying, InCallback, Playing, NobodyLinks
    <2>. QED  BY <1>4, <2>1 DEF DisposePipeline, Playing,
         PipelineInv, PipelineTypeOK, NobodyLinks, LockedLink, QuietOnceSealed,
         QuietOnceDrained, CallbacksWhilePlaying, InCallback, CarrierFirst
  <1>. QED  BY <1>1, <1>2, <1>3, <1>4 DEF StopStep

LEMMA PipelineStepInv == PipelineInv /\ [PipelineNext]_pipelineVars => PipelineInv'
  <1>. SUFFICES ASSUME PipelineInv, [PipelineNext]_pipelineVars PROVE PipelineInv'
    OBVIOUS
  <1>1. CASE StartStep
    BY <1>1, StartKeepsInv
  <1>2. CASE LoopStep
    BY <1>2, LoopKeepsInv
  <1>3. CASE BeginStop \/ StopStep
    BY <1>3, StopKeepsInv
  <1>4. ASSUME NEW t \in Tracks, TrackStep(t) PROVE PipelineInv'
    BY <1>4, OtherCallbacksKeepInv, ClaimKeepsInv, LinkKeepsInv DEF TrackStep
  <1>5. CASE UNCHANGED pipelineVars
    BY <1>5 DEF pipelineVars, Playing,
         PipelineInv, PipelineTypeOK, NobodyLinks, LockedLink, QuietOnceSealed,
         QuietOnceDrained, CallbacksWhilePlaying, InCallback, CarrierFirst
  <1>. QED  BY <1>1, <1>2, <1>3, <1>4, <1>5 DEF PipelineNext

(* From a state of the invariant only a track that links, one that claims  *)
(* the lock and the transport source change the layout, and none of them   *)
(* can once it is sealed or drained.                                       *)
LEMMA StepLeavesLayout ==
    ASSUME PipelineInv, [PipelineNext]_pipelineVars, sealed \/ stop \in {"drained", "done"}
    PROVE  UNCHANGED <<inputs, routed, carrier>>
  <1>1. NobodyLinks
    BY DEF PipelineInv, QuietOnceSealed, QuietOnceDrained
  <1>2. CASE StartStep
    BY <1>2 DEF StartStep, BeginStart, Play, StartReturns, StartIsRefused
  <1>3. CASE LoopStep
    <2>1. CASE AttachTransport
      <3>1. ~stopping /\ source.transport /\ ~carrier  BY <2>1 DEF AttachTransport
      <3>2. ~sealed  BY <3>1 DEF PipelineInv, CarrierFirst
      <3>. QED  BY <3>1, <3>2 DEF stopping
    <2>2. CASE TimePasses \/ StartHLSInputs \/ DecoderReady \/ BusLoopEnds \/ SourceStalls
      BY <2>2 DEF TimePasses, StartHLSInputs, DecoderReady, BusLoopEnds, SourceStalls
    <2>. QED  BY <1>3, <2>1, <2>2 DEF LoopStep
  <1>4. CASE BeginStop \/ StopStep
    BY <1>4 DEF BeginStop, StopStep, PassLifecycle, DrainGraph, ReachNull, DisposePipeline
  <1>5. ASSUME NEW t \in Tracks, TrackStep(t) PROVE UNCHANGED <<inputs, routed, carrier>>
    <2>1. ~LinkTrack(t) /\ ~LinkFails(t)
      BY <1>1 DEF LinkTrack, LinkFails, NobodyLinks
    <2>2. ~ClaimTrack(t)
      BY DEF ClaimTrack, Routable, stopping
    <2>3. CASE DemuxPadAdded(t) \/ AttachSourcePad(t) \/ CapsAreFixed(t) \/ SyncTrack(t) \/ PublishSample(t)
      BY <2>3 DEF DemuxPadAdded, AttachSourcePad, CapsAreFixed, SyncTrack, PublishSample
    <2>4. CASE LeaveOut(t) \/ RefuseLateTrack(t)
      BY <2>4 DEF LeaveOut, RefuseLateTrack
    <2>. QED  BY <1>5, <2>1, <2>2, <2>3, <2>4 DEF TrackStep
  <1>6. CASE UNCHANGED pipelineVars
    BY <1>6 DEF pipelineVars
  <1>. QED  BY <1>2, <1>3, <1>4, <1>5, <1>6 DEF PipelineNext

-----------------------------------------------------------------------------

(* Types and the bookkeeping of graphMu hold in every reachable state of a *)
(* gstProducer.                                                            *)
THEOREM PipelineSafety == PipelineSpec => []PipelineInv
  <1>. QED  BY PipelineInitInv, PipelineStepInv, PTL DEF PipelineSpec

(* Once startHLSInputs has let data into the segmenter, and once Stop has  *)
(* drained the edits of the graph, no callback changes what is linked.     *)
THEOREM LayoutStaysSealed == PipelineSpec => LayoutSealed
  <1>1. PipelineInv /\ [PipelineNext]_pipelineVars
          => [sealed \/ stop \in {"drained", "done"} => UNCHANGED <<inputs, routed, carrier>>]_pipelineVars
    BY StepLeavesLayout
  <1>. QED  BY <1>1, PipelineSafety, PTL DEF PipelineSpec, LayoutSealed

-----------------------------------------------------------------------------
(***************************************************************************)
(* Tuning, for every set of streams, players and requests and every pool.  *)
(*                                                                         *)
(* The inductive invariant says of each player whose connection is whose:  *)
(* an active viewer is the one of the playback lease, or the one a handler *)
(* of the player is just about to detach, and its session is the one the   *)
(* registry has for that stream, so that the handler finds it there; a     *)
(* handler that was given a session, or that keeps the tune it reloads,    *)
(* has the lease the registration will be judged by, and one that will     *)
(* replace the lease has read the one that is there (or it was pruned).    *)
(***************************************************************************)

RealLeases == [stream : Streams, client : Requests, protocol : {"hls", "mpegts"}]
States == {"unused", "starting", "running", "stopping", "failed", "stopped"}
Searching == {"acquire", "reclaim", "capacity", "evict", "attach"}
Emptying == {"detach", "count", "halt", "await"}
Kinds == {"tune", "release", "prewarm", "asset"}
Protocols == {"hls", "mpegts"}
SessionRecords ==
    [stream : Streams \cup {None}, state : States, leased : BOOLEAN,
     positioned : BOOLEAN, prewarm : BOOLEAN]
ClientRecords == [status : {"none", "active", "terminated"}, session : Sessions \cup {None}]
HandlerRecords ==
    [pc : {"new", "lock", "assess", "weigh", "unlock", "resolve", "register", "end"} \cup Searching \cup Emptying,
     kind : Kinds, player : Players \cup {None}, stream : Streams \cup {None}, protocol : Protocols,
     plan : {"none", "store", "replace", "reload", "handover", "release", "prewarm"},
     prev : Leases, client : Requests, session : Sessions \cup {None}, cand : SUBSET Sessions]

TuningTypeOK ==
    /\ registry \in [Streams -> Sessions \cup {None}]
    /\ session \in [Sessions -> SessionRecords]
    /\ playback \in [Players -> Leases]
    /\ client \in [Requests -> ClientRecords]
    /\ req \in [Requests -> HandlerRecords]
    /\ sweep \in Streams \cup {None}
    /\ scenario \in Scenarios

\* Who is at which step, with what plan.
HandlerShape(q, r) ==
    /\ (q.pc = "new" <=> q.player = None)
    /\ q.pc # "new" /\ q.pc # "end" => q.stream \in Streams
    /\ q.pc \in {"new", "end", "lock", "resolve"} => q.plan = "none"
    /\ q.pc \in {"new", "end", "lock", "resolve", "assess", "weigh"} \cup Searching => q.session = None
    /\ q.pc \in {"assess", "weigh"} => q.plan = "replace"
    /\ q.pc \in Searching => q.plan \in {"store", "replace", "reload", "handover"} \cup IF q.pc = "attach" THEN {"prewarm"} ELSE {}
    /\ q.plan = "prewarm" => q.pc = "attach"
    /\ q.pc \in Emptying => /\ q.plan \in {"replace", "handover", "release"} /\ q.prev # None
                            /\ (q.plan = "replace" <=> q.session # None)
                            /\ q.pc = "await" => q.plan # "replace"
    /\ q.pc = "unlock" => q.plan # "none" /\ q.plan # "prewarm"
    /\ q.plan = "release" => q.session = None
    /\ q.pc = "register" => q.session # None
    /\ q.plan \in {"store", "replace", "handover"} \/ q.pc \in {"new", "end", "lock"} => q.client = r
    /\ q.plan = "store" => q.prev = None
    /\ q.plan = "replace" => q.prev # None

HandlersShaped == \A r \in Requests : HandlerShape(req[r], r)

\* A handler that has been past the manager's lock with a session to ask for.
Served(q) ==
    \/ q.pc \in {"unlock", "register", "end"}
    \/ q.plan = "replace" /\ q.pc \in Emptying

Used == {i \in Sessions : session[i].state # "unused"}
ServedRequests == {r \in Requests : Served(req[r])}

(* Each session the registry names is one of its stream and not gone, and  *)
(* each session at work is in the registry.                                *)
SessionsRegistered ==
    /\ \A s \in Streams : registry[s] # None =>
          /\ session[registry[s]].stream = s
          /\ session[registry[s]].state \in {"starting", "running", "stopping", "failed"}
    /\ \A i \in Sessions : session[i].state \in {"starting", "running"} =>
          session[i].stream \in Streams /\ registry[session[i].stream] = i

(* A handler points to sessions that were made, and to one of its stream   *)
(* as long as that is at work.                                             *)
PointsWell(q) ==
    /\ q.session # None =>
          /\ session[q.session].state # "unused"
          /\ session[q.session].state \in {"starting", "running"} =>
                session[q.session].stream = q.stream
    /\ \A i \in q.cand : session[i].state # "unused"

PointersGood == \A r \in Requests : PointsWell(req[r])

(* Every session was made for a request of its own.                        *)
RoomLeft == Cardinality(Used) <= Cardinality(ServedRequests)

HandlersInv ==
    /\ TuningTypeOK /\ HandlersShaped /\ SessionsRegistered /\ PointersGood /\ RoomLeft

OneAtATime ==
    \A r, q \in Requests :
       req[r].player = req[q].player /\ ~Answered(r) /\ ~Answered(q) => r = q

(* The clients of leases and handlers are those of the same player.        *)
ClientsOfPlayer ==
    /\ \A p \in Players : playback[p] # None => req[playback[p].client].player = p
    /\ \A r \in Requests : req[req[r].client].player = req[r].player

(* The lease l is the one a handler relies on, or was when it looked.      *)
LeaseHeld(q, l) == l # None /\ l.client = q.client /\ l.stream = q.stream

LeaseGood(q, l) ==
    /\ q.session # None \/ q.plan = "reload" \/ (q.plan = "handover" /\ q.pc # "unlock")
          => LeaseHeld(q, l)
    /\ q.plan \in {"store", "replace"} /\ ~Served(q) => l = None \/ l = q.prev

LeasesKept == \A r \in Requests : ~Answered(r) => LeaseGood(req[r], playback[req[r].player])

(* The viewer c of session i is the one of the lease l.                    *)
LeaseOf(l, c, i) == l # None /\ l.client = c /\ l.stream = session[i].stream

(* A viewer is with the session its stream has, its own request is over... *)
ViewersRegistered ==
    \A c \in Requests : client[c].status # "none" =>
       /\ client[c].session # None /\ session[client[c].session].stream \in Streams
       /\ registry[session[client[c].session].stream] = client[c].session
       /\ req[c].pc = "end"

(* ... and it is the one of its player's lease, or about to be detached.   *)
Detaching(r, c) ==
    /\ req[r].pc = "detach" /\ req[r].player = req[c].player
    /\ LeaseOf(req[r].prev, c, client[c].session)

ViewersLeased ==
    \A c \in Requests : client[c].status = "active" =>
       \/ LeaseOf(playback[req[c].player], c, client[c].session)
       \/ \E r \in Requests : Detaching(r, c)

TuningInv ==
    /\ HandlersInv /\ OneAtATime /\ ClientsOfPlayer /\ LeasesKept
    /\ ViewersRegistered /\ ViewersLeased

-----------------------------------------------------------------------------
(* Handlers, one at a time *)

LEMMA NoneApart ==
    /\ None \notin Streams /\ None \notin Players /\ None \notin Sessions /\ None \notin RealLeases
    /\ Leases = RealLeases \cup {None}
  BY NoneAssumption DEF Sessions, RealLeases, Leases

(* The handler q, that r runs, goes on as h.                               *)
StepOf(q, h, r) ==
    /\ h \in HandlerRecords /\ HandlerShape(h, r)
    /\ q.pc # "end" /\ h.pc # "new" /\ (q.pc # "new" => h.player = q.player)
    /\ Served(q) => Served(h)

(* What Blank and Move make of a handler.                                  *)
LEMMA OverStep ==
    ASSUME NEW r \in Requests, NEW q \in HandlerRecords, HandlerShape(q, r),
           q.pc \notin {"new", "end"}, NEW h, h = Blank(r, q.player, "end")
    PROVE  /\ StepOf(q, h, r) /\ h.pc = "end" /\ h.client = r /\ h.session = None /\ h.cand = {}
           /\ h.plan = "none"
  <1>1. h \in HandlerRecords
    BY DEF Blank, HandlerRecords, Leases, Kinds, Protocols
  <1>2. h.pc = "end" /\ h.client = r /\ h.session = None /\ h.cand = {} /\ h.player = q.player
        /\ h.plan = "none"
    BY DEF Blank
  <1>3. h.player # None
    BY <1>2 DEF HandlerShape
  <1>4. HandlerShape(h, r)
    BY <1>2, <1>3, NoneApart DEF HandlerShape, Searching, Emptying
  <1>. QED  BY <1>1, <1>2, <1>4 DEF StepOf, Served

LEMMA MoveStep ==
    ASSUME NEW r \in Requests, TuningTypeOK, NEW pc, pc # "end", Move(r, pc)
    PROVE  req' = [req EXCEPT ![r] = [req[r] EXCEPT !.pc = pc]]
  BY DEF Move

LEMMA MoveOver ==
    ASSUME NEW r \in Requests, TuningTypeOK, Move(r, "end")
    PROVE  req' = [req EXCEPT ![r] = Blank(r, req[r].player, "end")]
  BY DEF Move, TuningTypeOK

(* Where a handler may be sent.                                           *)
Steps == {"assess", "weigh", "unlock", "register"} \cup Searching \cup Emptying

(* The handler q elsewhere, with other candidates.                         *)
Placed(q, pc, cand) == [q EXCEPT !.pc = pc, !.cand = cand]

(* A handler that changes nothing but where it is and its candidates.      *)
LEMMA PlaceStep ==
    ASSUME NEW r \in Requests, NEW q \in HandlerRecords, HandlerShape(q, r),
           NEW pc \in Steps, NEW cand \in SUBSET Sessions, NEW h, h = Placed(q, pc, cand),
           q.pc \notin {"new", "end"}, HandlerShape(h, r),
           Served(q) => Served(h)
    PROVE  /\ StepOf(q, h, r) /\ h.pc = pc /\ h.cand = cand
           /\ h.kind = q.kind /\ h.player = q.player /\ h.stream = q.stream /\ h.plan = q.plan
           /\ h.protocol = q.protocol /\ h.prev = q.prev /\ h.client = q.client /\ h.session = q.session
  <1>1. h \in HandlerRecords
    BY DEF HandlerRecords, Placed, Steps
  <1>2. pc # "new"
    BY DEF Steps, Searching, Emptying
  <1>. QED  BY <1>1, <1>2 DEF HandlerRecords, StepOf, Placed

LEMMA RequestsFinite ==
    /\ IsFiniteSet(Requests) /\ Cardinality(Requests) \in Nat
    /\ IsFiniteSet(Sessions) /\ Cardinality(Sessions) = Cardinality(Requests)
  <1>1. IsFiniteSet(Requests) /\ Cardinality(Requests) \in Nat
    BY BoundAssumption, FS_CardinalityType
  <1>2. PICK n \in Nat : n = Cardinality(Requests)
    BY <1>1
  <1>3. IsFiniteSet(1..n) /\ Cardinality(1..n) = n
    BY FS_Interval
  <1>. QED  BY <1>1, <1>2, <1>3 DEF Sessions

(* The requests that have been past the manager's lock only get more.      *)
LEMMA RoomKept ==
    ASSUME TuningTypeOK, RoomLeft, Used' = Used,
           \A r \in Requests : Served(req[r]) => Served(req'[r])
    PROVE  RoomLeft'
  <1>1. ServedRequests \subseteq ServedRequests' /\ ServedRequests' \subseteq Requests
    BY DEF ServedRequests
  <1>2. IsFiniteSet(ServedRequests')
    BY <1>1, RequestsFinite, FS_Subset
  <1>3. Cardinality(ServedRequests) <= Cardinality(ServedRequests')
        /\ IsFiniteSet(ServedRequests)
    BY <1>1, <1>2, FS_Subset
  <1>4. Used \subseteq Sessions
    BY DEF Used
  <1>5. IsFiniteSet(Used)
    BY <1>4, RequestsFinite, FS_Subset
  <1>6. PICK u, s, t : u = Cardinality(Used) /\ s = Cardinality(ServedRequests)
                       /\ t = Cardinality(ServedRequests')
    OBVIOUS
  <1>7. u \in Nat /\ s \in Nat /\ t \in Nat
    BY <1>2, <1>3, <1>5, <1>6, FS_CardinalityType
  <1>8. Cardinality(Used') = u
    BY <1>6
  <1>. QED  BY <1>3, <1>6, <1>7, <1>8 DEF RoomLeft

(* One handler goes a step.                                                *)
LEMMA HandlerGoes ==
    ASSUME NEW r \in Requests, NEW h, TuningTypeOK, HandlersShaped,
           StepOf(req[r], h, r), req' = [req EXCEPT ![r] = h]
    PROVE  /\ req' \in [Requests -> HandlerRecords] /\ HandlersShaped'
           /\ \A q \in Requests : Served(req[q]) => Served(req'[q])
           /\ \A q \in Requests : q # r => req'[q] = req[q]
           /\ req'[r] = h
  <1>1. req' \in [Requests -> HandlerRecords] /\ req'[r] = h
        /\ \A q \in Requests : q # r => req'[q] = req[q]
    BY DEF TuningTypeOK, StepOf
  <1>2. HandlersShaped'
    BY <1>1 DEF HandlersShaped, StepOf
  <1>. QED  BY <1>1, <1>2 DEF StepOf

(* A step of a handler that leaves the sessions and the registry alone.    *)
LEMMA HandlerOnly ==
    ASSUME NEW r \in Requests, NEW h, HandlersInv, StepOf(req[r], h, r),
           req' = [req EXCEPT ![r] = h], PointsWell(h), registry' = registry, session' = session,
           playback' \in [Players -> Leases], client' \in [Requests -> ClientRecords],
           sweep' \in Streams \cup {None}, scenario' = scenario
    PROVE  HandlersInv'
  <1>1. /\ req' \in [Requests -> HandlerRecords] /\ HandlersShaped'
        /\ \A q \in Requests : Served(req[q]) => Served(req'[q])
        /\ \A q \in Requests : q # r => req'[q] = req[q]
        /\ req'[r] = h
    BY HandlerGoes DEF HandlersInv
  <1>2. TuningTypeOK'
    BY <1>1 DEF HandlersInv, TuningTypeOK
  <1>3. SessionsRegistered'
    BY DEF HandlersInv, SessionsRegistered
  <1>4. PointersGood'
    <2>. SUFFICES ASSUME NEW q \in Requests PROVE PointsWell(req[q])'
      BY DEF PointersGood
    <2>1. PointsWell(req'[q])
      BY <1>1 DEF HandlersInv, PointersGood
    <2>. QED  BY <2>1 DEF PointsWell
  <1>5. RoomLeft'
    <2>1. Used' = Used
      BY DEF Used
    <2>. QED  BY <1>1, <2>1, RoomKept DEF HandlersInv
  <1>. QED  BY <1>1, <1>2, <1>3, <1>4, <1>5 DEF HandlersInv

(* The session i becomes n, which is no more at work than it was...        *)
Ages(i, n) ==
    /\ n \in SessionRecords /\ n.state # "unused" /\ session[i].state # "unused"
    /\ n.state \in {"starting", "running"} =>
         session[i].state \in {"starting", "running"} /\ n.stream = session[i].stream

(* ... and stays where the registry has it.                                *)
Stays(i, n) ==
    /\ Ages(i, n)
    /\ Registered(i) => n.stream = session[i].stream /\ n.state # "stopped"

LEMMA SessionGoes ==
    ASSUME NEW i \in Sessions, NEW n, TuningTypeOK, SessionsRegistered, Stays(i, n),
           registry' = registry, session' = [session EXCEPT ![i] = n]
    PROVE  /\ session' \in [Sessions -> SessionRecords] /\ SessionsRegistered' /\ Used' = Used
           /\ session'[i] = n /\ \A j \in Sessions : j # i => session'[j] = session[j]
           /\ \A s \in Streams : registry[s] # None =>
                 session'[registry[s]].stream = session[registry[s]].stream
  <1>1. /\ session' \in [Sessions -> SessionRecords]
        /\ session'[i] = n /\ \A j \in Sessions : j # i => session'[j] = session[j]
    BY DEF TuningTypeOK, Stays, Ages
  <1>2. \A s \in Streams : registry[s] # None => registry[s] \in Sessions
    BY DEF TuningTypeOK
  <1>3. ASSUME NEW s \in Streams, registry[s] # None
        PROVE  /\ session'[registry[s]].stream = session[registry[s]].stream
               /\ session'[registry[s]].stream = s
               /\ session'[registry[s]].state \in {"starting", "running", "stopping", "failed"}
    <2>1. session[registry[s]].stream = s
          /\ session[registry[s]].state \in {"starting", "running", "stopping", "failed"}
      BY <1>3 DEF SessionsRegistered
    <2>2. CASE registry[s] = i
      <3>1. Registered(i)
        BY <2>2 DEF Registered
      <3>2. n.stream = s /\ n.state \in States \ {"unused", "stopped"}
        BY <2>1, <2>2, <3>1 DEF Stays, Ages, SessionRecords
      <3>. QED  BY <1>1, <2>1, <2>2, <3>2 DEF States
    <2>3. CASE registry[s] # i
      BY <1>1, <1>2, <1>3, <2>1, <2>3
    <2>. QED  BY <2>2, <2>3
  <1>4. ASSUME NEW j \in Sessions, session'[j].state \in {"starting", "running"}
        PROVE  session'[j].stream \in Streams /\ registry[session'[j].stream] = j
    BY <1>1, <1>4 DEF Stays, Ages, SessionsRegistered
  <1>5. SessionsRegistered'
    BY <1>3, <1>4 DEF SessionsRegistered
  <1>6. Used' = Used
    BY <1>1 DEF Used, Stays, Ages
  <1>. QED  BY <1>1, <1>3, <1>5, <1>6

LEMMA PointersStay ==
    ASSUME NEW i \in Sessions, NEW n, TuningTypeOK, Ages(i, n),
           session' = [session EXCEPT ![i] = n], NEW q \in HandlerRecords, PointsWell(q)
    PROVE  PointsWell(q)'
  <1>1. /\ session'[i] = n /\ \A j \in Sessions : j # i => session'[j] = session[j]
    BY DEF TuningTypeOK, Stays, Ages
  <1>2. q.session \in Sessions \cup {None} /\ q.cand \subseteq Sessions
    BY DEF HandlerRecords
  <1>3. \A j \in q.cand : session'[j].state # "unused"
    BY <1>1, <1>2 DEF PointsWell, Stays, Ages
  <1>4. ASSUME q.session # None
        PROVE  /\ session'[q.session].state # "unused"
               /\ session'[q.session].state \in {"starting", "running"} =>
                     session'[q.session].stream = q.stream
    BY <1>1, <1>2, <1>4 DEF PointsWell, Stays, Ages
  <1>. QED  BY <1>3, <1>4 DEF PointsWell

(* A session changes by itself.                                            *)
LEMMA SessionOnly ==
    ASSUME NEW i \in Sessions, NEW n, HandlersInv, Stays(i, n),
           registry' = registry, session' = [session EXCEPT ![i] = n],
           req' = req, playback' = playback, client' \in [Requests -> ClientRecords],
           sweep' \in Streams \cup {None}, scenario' = scenario
    PROVE  HandlersInv'
  <1>1. session' \in [Sessions -> SessionRecords] /\ SessionsRegistered' /\ Used' = Used
    BY SessionGoes DEF HandlersInv
  <1>2. TuningTypeOK' /\ HandlersShaped'
    BY <1>1 DEF HandlersInv, TuningTypeOK, HandlersShaped
  <1>3. PointersGood'
    <2>. SUFFICES ASSUME NEW q \in Requests PROVE PointsWell(req[q])'
      BY DEF PointersGood
    <2>1. req[q] \in HandlerRecords /\ PointsWell(req[q])
      BY DEF HandlersInv, TuningTypeOK, PointersGood
    <2>2. PICK x : x = req[q]
      OBVIOUS
    <2>3. PointsWell(x)'
      BY <2>1, <2>2, PointersStay DEF HandlersInv, Stays
    <2>4. req'[q] = x
      BY <2>2
    <2>. QED  BY <2>3, <2>4 DEF PointsWell
  <1>4. RoomLeft'
    BY <1>1, RoomKept DEF HandlersInv
  <1>. QED  BY <1>1, <1>2, <1>3, <1>4 DEF HandlersInv

(* A handler goes a step and changes a session.                            *)
LEMMA HandlerAndSession ==
    ASSUME NEW r \in Requests, NEW h, NEW i \in Sessions, NEW n, HandlersInv, Stays(i, n),
           StepOf(req[r], h, r), req' = [req EXCEPT ![r] = h], PointsWell(h),
           registry' = registry, session' = [session EXCEPT ![i] = n],
           playback' \in [Players -> Leases], client' \in [Requests -> ClientRecords],
           sweep' = sweep, scenario' = scenario
    PROVE  HandlersInv'
  <1>1. session' \in [Sessions -> SessionRecords] /\ SessionsRegistered' /\ Used' = Used
    BY SessionGoes DEF HandlersInv
  <1>2. /\ req' \in [Requests -> HandlerRecords] /\ HandlersShaped'
        /\ \A q \in Requests : Served(req[q]) => Served(req'[q])
        /\ \A q \in Requests : q # r => req'[q] = req[q]
        /\ req'[r] = h
    BY HandlerGoes DEF HandlersInv
  <1>3. TuningTypeOK'
    BY <1>1, <1>2 DEF HandlersInv, TuningTypeOK
  <1>4. PointersGood'
    <2>. SUFFICES ASSUME NEW q \in Requests PROVE PointsWell(req[q])'
      BY DEF PointersGood
    <2>1. req'[q] \in HandlerRecords /\ PointsWell(req'[q])
      BY <1>2 DEF HandlersInv, PointersGood
    <2>2. PICK x : x = req'[q]
      OBVIOUS
    <2>3. PointsWell(x)'
      BY <2>1, <2>2, PointersStay DEF HandlersInv, Stays
    <2>. QED  BY <2>2, <2>3 DEF PointsWell
  <1>5. RoomLeft'
    BY <1>1, <1>2, RoomKept DEF HandlersInv
  <1>. QED  BY <1>1, <1>2, <1>3, <1>4, <1>5 DEF HandlersInv

-----------------------------------------------------------------------------
(* The steps of a handler that change neither lease nor viewer *)

Keeps(q, h) ==
    h.stream = q.stream /\ h.prev = q.prev /\ h.client = q.client /\ h.session = q.session
Carries(q, h) == Keeps(q, h) /\ h.plan = q.plan

CalmStep(q, h, r) ==
    /\ StepOf(q, h, r) /\ q.pc \notin {"new", "detach"}
    /\ \/ h.pc = "end" /\ h.client = r
       \/ Carries(q, h) /\ (q.pc = "unlock" => h.session # None)

LEMMA CalmPlace ==
    ASSUME NEW r \in Requests, HandlersInv, NEW pc \in Steps, NEW cand \in SUBSET Sessions, NEW h,
           h = Placed(req[r], pc, cand),
           \A i \in cand : session[i].state # "unused",
           req[r].pc \notin {"new", "end", "detach"}, HandlerShape(h, r),
           Served(req[r]) => Served(h), req[r].pc = "unlock" => req[r].session # None
    PROVE  CalmStep(req[r], h, r) /\ PointsWell(h) /\ h.pc = pc
  <1>1. req[r] \in HandlerRecords /\ HandlerShape(req[r], r) /\ PointsWell(req[r])
    BY DEF HandlersInv, TuningTypeOK, HandlersShaped, PointersGood
  <1>2. PICK q \in HandlerRecords : q = req[r]
    BY <1>1
  <1>3. StepOf(q, h, r) /\ h.pc = pc /\ h.cand = cand /\ Carries(q, h)
    <2>1. /\ HandlerShape(q, r) /\ h = Placed(q, pc, cand)
          /\ q.pc \notin {"new", "end"} /\ HandlerShape(h, r) /\ (Served(q) => Served(h))
      BY <1>1, <1>2
    <2>. QED  BY <2>1, PlaceStep DEF Carries, Keeps
  <1>4. PointsWell(h)
    BY <1>1, <1>2, <1>3 DEF Carries, Keeps, PointsWell
  <1>. QED  BY <1>2, <1>3, <1>4 DEF CalmStep, Carries, Keeps

(* What Move does to a handler between its first step and its last.        *)
LEMMA CalmMove ==
    ASSUME NEW r \in Requests, HandlersInv, NEW pc \in Steps \cup {"end"}, Move(r, pc),
           req[r].pc \notin {"new", "end", "detach"},
           pc # "end" => LET h == [req[r] EXCEPT !.pc = pc]
                         IN  HandlerShape(h, r) /\ (Served(req[r]) => Served(h)),
           req[r].pc = "unlock" /\ pc # "end" => req[r].session # None
    PROVE  \E h : CalmStep(req[r], h, r) /\ PointsWell(h) /\ req' = [req EXCEPT ![r] = h]
  <1>1. req[r] \in HandlerRecords /\ HandlerShape(req[r], r) /\ PointsWell(req[r])
    BY DEF HandlersInv, TuningTypeOK, HandlersShaped, PointersGood
  <1>2. CASE pc = "end"
    <2>1. PICK h : h = Blank(r, req[r].player, "end")
      OBVIOUS
    <2>2. StepOf(req[r], h, r) /\ h.pc = "end" /\ h.client = r /\ h.session = None /\ h.cand = {}
      BY <1>1, <2>1, OverStep
    <2>3. CalmStep(req[r], h, r) /\ PointsWell(h)
      BY <2>2 DEF CalmStep, PointsWell
    <2>. QED  BY <1>2, <2>1, <2>3, MoveOver DEF HandlersInv
  <1>3. CASE pc # "end"
    <2>1. PICK h : h = [req[r] EXCEPT !.pc = pc]
      OBVIOUS
    <2>9. PICK cand \in SUBSET Sessions : cand = req[r].cand
      BY <1>1 DEF HandlerRecords
    <2>2. h = Placed(req[r], pc, cand)
      BY <1>1, <2>1, <2>9 DEF HandlerRecords, Placed
    <2>3. \A i \in cand : session[i].state # "unused"
      BY <1>1, <2>9 DEF PointsWell
    <2>4. CalmStep(req[r], h, r) /\ PointsWell(h)
      <3>1. /\ pc \in Steps
            /\ HandlerShape(h, r) /\ (Served(req[r]) => Served(h))
            /\ req[r].pc = "unlock" => req[r].session # None
        BY <1>3, <2>1
      <3>2. req[r].pc \notin {"new", "end", "detach"}
        OBVIOUS
      <3>3. CASE req[r].pc = "unlock"
        BY <2>2, <2>3, <3>1, <3>2, <3>3, CalmPlace
      <3>4. CASE req[r].pc # "unlock"
        BY <2>2, <2>3, <3>1, <3>2, <3>4, CalmPlace
      <3>. QED  BY <3>3, <3>4
    <2>5. req' = [req EXCEPT ![r] = h]
      BY <1>3, <2>1, MoveStep DEF HandlersInv
    <2>. QED  BY <2>4, <2>5
  <1>. QED  BY <1>2, <1>3

LEMMA RegisteredUsed ==
    ASSUME HandlersInv, NEW i \in Sessions, Registered(i)
    PROVE  /\ session[i].state \in {"starting", "running", "stopping", "failed"}
           /\ session[i].stream \in Streams /\ registry[session[i].stream] = i
  <1>1. PICK s \in Streams : registry[s] = i
    BY DEF Registered
  <1>2. registry[s] # None
    BY <1>1, NoneApart
  <1>. QED  BY <1>1, <1>2 DEF HandlersInv, SessionsRegistered

LEMMA CalmGoes ==
    ASSUME NEW r \in Requests, HandlersInv,
           \/ Assess(r) \/ Count(r) \/ Await(r) \/ Acquire(r) \/ EnsureCapacity(r) \/ Unlock(r)
    PROVE  \E h : CalmStep(req[r], h, r) /\ PointsWell(h) /\ req' = [req EXCEPT ![r] = h]
  <1>1. req[r] \in HandlerRecords /\ HandlerShape(req[r], r) /\ PointsWell(req[r])
    BY DEF HandlersInv, TuningTypeOK, HandlersShaped, PointersGood
  <1>2. CASE Assess(r)
    <2>1. PICK pc \in {"acquire", "weigh"} : Move(r, pc)
      BY <1>2 DEF Assess
    <2>2. req[r].pc = "assess"
      BY <1>2 DEF Assess, At
    <2>3. LET h == [req[r] EXCEPT !.pc = pc] IN HandlerShape(h, r) /\ (Served(req[r]) => Served(h))
      BY <1>1, <2>2 DEF HandlerRecords, HandlerShape, Served, Searching, Emptying, Placed
    <2>. QED  BY <2>1, <2>2, <2>3, CalmMove DEF Steps, Searching
  <1>3. CASE Count(r)
    <2>1. PICK pc \in {Detached(r), "halt"} : Move(r, pc)
      BY <1>3 DEF Count
    <2>2. req[r].pc = "count"
      BY <1>3 DEF Count, At
    <2>3. pc \in {"acquire", "unlock", "halt"} /\ (pc = "acquire" => req[r].plan = "handover")
          /\ (pc = "unlock" => req[r].plan # "handover")
      BY <2>1 DEF Detached
    <2>4. LET h == [req[r] EXCEPT !.pc = pc] IN HandlerShape(h, r) /\ (Served(req[r]) => Served(h))
      BY <1>1, <2>2, <2>3 DEF HandlerRecords, HandlerShape, Served, Searching, Emptying, Placed
    <2>. QED  BY <2>1, <2>2, <2>3, <2>4, CalmMove DEF Steps, Searching, Emptying
  <1>4. CASE Await(r)
    <2>1. Move(r, Detached(r)) /\ req[r].pc = "await"
      BY <1>4 DEF Await, At
    <2>2. PICK pc : pc = Detached(r)
      OBVIOUS
    <2>3. pc \in {"acquire", "unlock"} /\ (pc = "acquire" => req[r].plan = "handover")
          /\ (pc = "unlock" => req[r].plan # "handover")
      BY <2>2 DEF Detached
    <2>4. LET h == [req[r] EXCEPT !.pc = pc] IN HandlerShape(h, r) /\ (Served(req[r]) => Served(h))
      BY <1>1, <2>1, <2>3 DEF HandlerRecords, HandlerShape, Served, Searching, Emptying, Placed
    <2>. QED  BY <2>1, <2>2, <2>3, <2>4, CalmMove DEF Steps, Searching
  <1>5. CASE Acquire(r)
    <2>1. PICK cand \in SUBSET Sessions, pc \in {"attach", "capacity", "reclaim"} :
             /\ req' = [req EXCEPT ![r].cand = cand, ![r].pc = pc]
             /\ \A i \in cand : Registered(i)
      <3>1. PICK cand : cand = {i \in Sessions : /\ Registered(i) /\ session[i].stream # req[r].stream
                                                  /\ session[i].prewarm /\ Competes(i, req[r].stream)}
        OBVIOUS
      <3>2. PICK pc : pc = IF cand = {} THEN Reclaimed(r) ELSE "reclaim"
        OBVIOUS
      <3>3. pc \in {"attach", "capacity", "reclaim"}
        BY <3>2 DEF Reclaimed
      <3>4. cand \in SUBSET Sessions /\ \A i \in cand : Registered(i)
        BY <3>1
      <3>5. req' = [req EXCEPT ![r].cand = cand, ![r].pc = pc]
        BY <1>5, <3>1, <3>2, Zenon DEF Acquire
      <3>. QED  BY <3>3, <3>4, <3>5
    <2>2. req[r].pc = "acquire"
      BY <1>5 DEF Acquire, At
    <2>3. PICK h : h = Placed(req[r], pc, cand)
      OBVIOUS
    <2>4. HandlerShape(h, r) /\ (Served(req[r]) => Served(h))
      BY <1>1, <2>2, <2>3 DEF HandlerRecords, HandlerShape, Served, Searching, Emptying, Placed
    <2>5. \A i \in cand : session[i].state # "unused"
      BY <2>1, RegisteredUsed
    <2>6. CalmStep(req[r], h, r) /\ PointsWell(h)
      <3>1. /\ pc \in Steps
            /\ req[r].pc \notin {"new", "end", "detach"} /\ req[r].pc # "unlock"
        BY <2>2 DEF Steps, Searching
      <3>. QED  BY <2>3, <2>4, <2>5, <3>1, CalmPlace
    <2>7. req' = [req EXCEPT ![r] = h]
      BY <1>1, <2>1, <2>3 DEF HandlersInv, TuningTypeOK, HandlerRecords, Placed
    <2>. QED  BY <2>6, <2>7
  <1>6. CASE EnsureCapacity(r)
    <2>2. req[r].pc = "capacity"
      BY <1>6 DEF EnsureCapacity, At
    <2>3. ASSUME Move(r, "attach")
          PROVE  \E h : CalmStep(req[r], h, r) /\ PointsWell(h) /\ req' = [req EXCEPT ![r] = h]
      <3>1. LET h == [req[r] EXCEPT !.pc = "attach"] IN HandlerShape(h, r) /\ (Served(req[r]) => Served(h))
        BY <1>1, <2>2 DEF HandlerRecords, HandlerShape, Served, Searching, Emptying, Placed
      <3>. QED  BY <2>2, <2>3, <3>1, CalmMove DEF Steps, Searching
    <2>4. ASSUME NEW cand \in SUBSET Sessions, \A i \in cand : Registered(i),
                 req' = [req EXCEPT ![r].pc = "evict", ![r].cand = cand]
          PROVE  \E h : CalmStep(req[r], h, r) /\ PointsWell(h) /\ req' = [req EXCEPT ![r] = h]
      <3>1. PICK h : h = Placed(req[r], "evict", cand)
        OBVIOUS
      <3>2. HandlerShape(h, r) /\ (Served(req[r]) => Served(h))
        BY <1>1, <2>2, <3>1 DEF HandlerRecords, HandlerShape, Served, Searching, Emptying, Placed
      <3>3. \A i \in cand : session[i].state # "unused"
        BY <2>4, RegisteredUsed
      <3>4. CalmStep(req[r], h, r) /\ PointsWell(h)
        <4>1. /\ "evict" \in Steps
              /\ req[r].pc \notin {"new", "end", "detach"} /\ req[r].pc # "unlock"
          BY <2>2 DEF Steps, Searching
        <4>. QED  BY <3>1, <3>2, <3>3, <4>1, CalmPlace
      <3>5. req' = [req EXCEPT ![r] = h]
        BY <1>1, <2>4, <3>1 DEF HandlersInv, TuningTypeOK, HandlerRecords, Placed
      <3>. QED  BY <3>4, <3>5
    <2>5. CASE Move(r, "attach")
      BY <2>3, <2>5
    <2>6. CASE ~Move(r, "attach")
      <3>1. PICK cand : cand = {i \in Sessions : /\ Registered(i) /\ session[i].stream # req[r].stream
                                                  /\ Viewers(i) = {} /\ ~Closing(i)
                                                  /\ Competes(i, req[r].stream)}
        OBVIOUS
      <3>2. cand \in SUBSET Sessions /\ \A i \in cand : Registered(i)
        BY <3>1
      <3>3. req' = [req EXCEPT ![r].pc = "evict", ![r].cand = cand]
        BY <1>6, <2>6, <3>1, Zenon DEF EnsureCapacity
      <3>. QED  BY <2>4, <3>2, <3>3
    <2>. QED  BY <2>5, <2>6
  <1>7. CASE Unlock(r)
    <2>1. PICK pc \in {"register", "end"} : Move(r, pc) /\ (pc = "register" => req[r].session # None)
      BY <1>7 DEF Unlock
    <2>2. req[r].pc = "unlock"
      BY <1>7 DEF Unlock, At
    <2>3. pc # "end" => LET h == [req[r] EXCEPT !.pc = pc]
                        IN  HandlerShape(h, r) /\ (Served(req[r]) => Served(h))
      BY <1>1, <2>1, <2>2 DEF HandlerRecords, HandlerShape, Served, Searching, Emptying, Placed
    <2>. QED  BY <2>1, <2>2, <2>3, CalmMove DEF Steps
  <1>. QED  BY <1>2, <1>3, <1>4, <1>5, <1>6, <1>7

-----------------------------------------------------------------------------
(* The other steps of a handler *)

LEMMA ArriveGoes ==
    ASSUME NEW r \in Requests, NEW p \in Players, NEW s \in Streams, HandlersInv,
           NEW protocol \in scenario.protocols, NEW kind \in scenario.kinds,
           Arrive(r, p, s, protocol, kind)
    PROVE  \E h : /\ StepOf(req[r], h, r) /\ PointsWell(h) /\ req' = [req EXCEPT ![r] = h]
                  /\ req[r].pc = "new" /\ h.pc # "end" /\ h.player = p /\ h.client = r
                  /\ h.session = None /\ h.plan \in {"none", "prewarm"}
  <1>1. req[r] \in HandlerRecords /\ HandlerShape(req[r], r) /\ PointsWell(req[r]) /\ req[r].pc = "new"
    BY DEF HandlersInv, TuningTypeOK, HandlersShaped, PointersGood, Arrive, At
  <1>2. protocol \in Protocols /\ kind \in Kinds
    BY BoundAssumption DEF HandlersInv, TuningTypeOK, Protocols, Kinds
  <1>3. PICK pc \in {"attach", "resolve", "lock"}, plan \in {"prewarm", "none"} :
           /\ plan = IF kind = "prewarm" THEN "prewarm" ELSE "none"
           /\ pc = CASE kind = "prewarm" -> "attach" [] kind = "asset" -> "resolve"
                     [] OTHER -> "lock"
    BY <1>2 DEF Kinds
  <1>4. PICK h : h = [req[r] EXCEPT !.kind = kind, !.player = p, !.stream = s, !.protocol = protocol,
                                    !.pc = pc, !.plan = plan]
    OBVIOUS
  <1>5. req' = [req EXCEPT ![r] = h]
    BY <1>1, <1>3, <1>4 DEF Arrive, HandlersInv, TuningTypeOK
  <1>6. h \in HandlerRecords
    BY <1>1, <1>2, <1>4 DEF HandlerRecords, Searching
  <1>7. /\ h.pc = pc /\ h.plan = plan /\ h.player = p /\ h.stream = s /\ h.client = req[r].client
        /\ h.session = req[r].session /\ h.cand = req[r].cand
    BY <1>1, <1>4 DEF HandlerRecords
  <1>8. (pc = "attach" <=> plan = "prewarm")
    BY <1>2, <1>3 DEF Kinds
  <1>9. req[r].client = r /\ req[r].session = None
    BY <1>1 DEF HandlerShape
  <1>10. HandlerShape(h, r)
    BY <1>7, <1>8, <1>9, NoneApart DEF HandlerShape, Searching, Emptying
  <1>11. PointsWell(h)
    BY <1>1, <1>7, <1>9 DEF PointsWell
  <1>12. StepOf(req[r], h, r)
    BY <1>1, <1>6, <1>7, <1>10 DEF StepOf, Served, HandlerShape
  <1>. QED  BY <1>1, <1>5, <1>7, <1>9, <1>11, <1>12

(* The step of a tune or a release that has taken its stripe.              *)
Started(q, l, c, plan, pc) == [q EXCEPT !.prev = l, !.client = c, !.plan = plan, !.pc = pc]

LEMMA StartedStep ==
    ASSUME NEW r \in Requests, HandlersInv, req[r].pc = "lock",
           NEW l \in Leases, NEW c \in Requests, NEW h,
           NEW plan \in {"store", "replace", "reload", "release"},
           NEW pc \in {"acquire", "assess", "detach", "unlock"}, h = Started(req[r], l, c, plan, pc),
           plan \in {"store", "replace"} => c = r,
           plan = "store" => l = None /\ pc = "acquire",
           plan = "replace" => l # None /\ pc = "assess",
           plan = "reload" => l # None /\ pc = "acquire",
           plan = "release" => pc \in {"unlock", "detach"}, pc = "detach" => l # None
    PROVE  /\ StepOf(req[r], h, r) /\ PointsWell(h)
           /\ h.pc = pc /\ h.plan = plan /\ h.prev = l /\ h.client = c /\ h.session = None
           /\ h.stream = req[r].stream
  <1>1. req[r] \in HandlerRecords /\ HandlerShape(req[r], r) /\ PointsWell(req[r])
    BY DEF HandlersInv, TuningTypeOK, HandlersShaped, PointersGood
  <1>2. h \in HandlerRecords
    BY <1>1 DEF HandlerRecords, Started, Searching, Emptying
  <1>3. /\ h.pc = pc /\ h.plan = plan /\ h.prev = l /\ h.client = c /\ h.player = req[r].player
        /\ h.session = req[r].session /\ h.cand = req[r].cand /\ h.stream = req[r].stream
    BY <1>1 DEF HandlerRecords, Started
  <1>4. req[r].session = None /\ req[r].player # None /\ req[r].stream \in Streams
    BY <1>1 DEF HandlerShape
  <1>5. HandlerShape(h, r)
    BY <1>3, <1>4 DEF HandlerShape, Searching, Emptying
  <1>6. PointsWell(h)
    BY <1>1, <1>3 DEF PointsWell
  <1>7. ~Served(req[r])
    BY DEF Served, Emptying
  <1>. QED  BY <1>2, <1>3, <1>4, <1>5, <1>6, <1>7 DEF StepOf

LEMMA PlayersOwn ==
    ASSUME HandlersInv, NEW r \in Requests, req[r].pc # "new"
    PROVE  req[r].player \in Players /\ playback[req[r].player] \in Leases
  BY DEF HandlersInv, TuningTypeOK, HandlersShaped, HandlerShape, HandlerRecords

LEMMA StartTuneGoes ==
    ASSUME NEW r \in Requests, HandlersInv, StartTune(r)
    PROVE  \E h : /\ StepOf(req[r], h, r) /\ PointsWell(h) /\ req' = [req EXCEPT ![r] = h]
                  /\ req[r].pc = "lock" /\ h.prev = playback[req[r].player] /\ h.session = None
                  /\ \/ h.plan \in {"store", "replace"} /\ h.client = r
                     \/ /\ h.plan = "reload" /\ h.prev # None /\ h.client = h.prev.client
                        /\ h.prev.stream = h.stream
  <1>1. PICK p, l : p = req[r].player /\ l = playback[p]
    OBVIOUS
  <1>2. req[r].pc = "lock" /\ req[r] \in HandlerRecords
    BY DEF StartTune, TakeStripe, At, HandlersInv, TuningTypeOK
  <1>3. p \in Players /\ l \in Leases
    BY <1>1, <1>2, PlayersOwn
  <1>4. CASE SameTune(r)
    <2>1. l # None /\ l.client \in Requests /\ l.stream = req[r].stream
      BY <1>1, <1>3, <1>4 DEF SameTune, Leases
    <2>2. PICK h : h = Started(req[r], l, l.client, "reload", "acquire")
      OBVIOUS
    <2>3. req' = [req EXCEPT ![r] = h]
      <3>1. req' = [req EXCEPT ![r] = [@ EXCEPT !.prev = l, !.client = l.client, !.plan = "reload",
                                                !.pc = "acquire"]]
        BY <1>1, <1>4, <2>1 DEF StartTune
      <3>. QED  BY <1>2, <2>2, <3>1 DEF Started, HandlersInv, TuningTypeOK
    <2>4. PICK c \in Requests : c = l.client
      BY <2>1
    <2>5. /\ StepOf(req[r], h, r) /\ PointsWell(h)
          /\ h.plan = "reload" /\ h.prev = l /\ h.client = c /\ h.session = None
          /\ h.stream = req[r].stream
      BY <1>2, <1>3, <2>1, <2>2, <2>4, StartedStep
    <2>. QED  BY <1>1, <1>2, <2>1, <2>3, <2>4, <2>5
  <1>5. CASE ~SameTune(r) /\ l = None
    <2>2. PICK h : h = Started(req[r], l, r, "store", "acquire")
      OBVIOUS
    <2>3. req' = [req EXCEPT ![r] = h]
      BY <1>1, <1>2, <1>5, <2>2 DEF StartTune, Started, HandlersInv, TuningTypeOK
    <2>5. /\ StepOf(req[r], h, r) /\ PointsWell(h)
          /\ h.plan = "store" /\ h.prev = l /\ h.client = r /\ h.session = None
      BY <1>2, <1>3, <1>5, <2>2, StartedStep
    <2>. QED  BY <1>1, <1>2, <2>3, <2>5
  <1>6. CASE ~SameTune(r) /\ l # None
    <2>2. PICK h : h = Started(req[r], l, r, "replace", "assess")
      OBVIOUS
    <2>3. req' = [req EXCEPT ![r] = h]
      BY <1>1, <1>2, <1>6, <2>2 DEF StartTune, Started, HandlersInv, TuningTypeOK
    <2>5. /\ StepOf(req[r], h, r) /\ PointsWell(h)
          /\ h.plan = "replace" /\ h.prev = l /\ h.client = r /\ h.session = None
      BY <1>2, <1>3, <1>6, <2>2, StartedStep
    <2>. QED  BY <1>1, <1>2, <2>3, <2>5
  <1>. QED  BY <1>4, <1>5, <1>6

LEMMA StartReleaseGoes ==
    ASSUME NEW r \in Requests, HandlersInv, StartRelease(r)
    PROVE  \E h : /\ StepOf(req[r], h, r) /\ PointsWell(h) /\ req' = [req EXCEPT ![r] = h]
                  /\ req[r].pc = "lock" /\ h.plan = "release" /\ h.client = r
                  /\ h.prev = playback[req[r].player] /\ h.session = None
                  /\ \/ h.pc = "unlock" /\ playback' = playback
                     \/ h.pc = "detach" /\ playback' = [playback EXCEPT ![req[r].player] = None]
  <1>1. PICK p, l : p = req[r].player /\ l = playback[p]
    OBVIOUS
  <1>2. req[r].pc = "lock" /\ req[r] \in HandlerRecords /\ req[r].client = r
    BY DEF StartRelease, TakeStripe, At, HandlersInv, TuningTypeOK, HandlersShaped, HandlerShape
  <1>3. p \in Players /\ l \in Leases
    BY <1>1, <1>2, PlayersOwn
  <1>4. CASE l # None /\ l.stream = req[r].stream
    <2>2. PICK h : h = Started(req[r], l, r, "release", "detach")
      OBVIOUS
    <2>3. /\ req' = [req EXCEPT ![r] = [@ EXCEPT !.prev = l, !.plan = "release", !.pc = "detach"]]
          /\ playback' = [playback EXCEPT ![p] = None]
      BY <1>1, <1>4 DEF StartRelease
    <2>4. req' = [req EXCEPT ![r] = h]
      BY <1>2, <2>2, <2>3 DEF Started, HandlersInv, TuningTypeOK, HandlerRecords
    <2>5. /\ StepOf(req[r], h, r) /\ PointsWell(h) /\ h.pc = "detach"
          /\ h.plan = "release" /\ h.prev = l /\ h.client = r /\ h.session = None
      BY <1>2, <1>3, <1>4, <2>2, StartedStep
    <2>. QED  BY <1>1, <1>2, <2>3, <2>4, <2>5
  <1>5. CASE ~(l # None /\ l.stream = req[r].stream)
    <2>2. PICK h : h = Started(req[r], l, r, "release", "unlock")
      OBVIOUS
    <2>3. /\ req' = [req EXCEPT ![r] = [@ EXCEPT !.prev = l, !.plan = "release", !.pc = "unlock"]]
          /\ playback' = playback
      BY <1>1, <1>5 DEF StartRelease
    <2>4. req' = [req EXCEPT ![r] = h]
      BY <1>2, <2>2, <2>3 DEF Started, HandlersInv, TuningTypeOK, HandlerRecords
    <2>5. /\ StepOf(req[r], h, r) /\ PointsWell(h) /\ h.pc = "unlock"
          /\ h.plan = "release" /\ h.prev = l /\ h.client = r /\ h.session = None
      BY <1>2, <1>3, <2>2, StartedStep
    <2>. QED  BY <1>1, <1>2, <2>3, <2>4, <2>5
  <1>. QED  BY <1>4, <1>5

(* Nobody but Register makes a viewer.                                     *)
ClientsFade ==
    /\ client' \in [Requests -> ClientRecords]
    /\ \A c \in Requests : client'[c].status # "none" =>
          /\ client[c].status # "none" /\ client'[c].session = client[c].session
          /\ client'[c].status = "active" => client[c].status = "active"

LEMMA EndedFade ==
    ASSUME TuningTypeOK, NEW cs, client' = Ended(cs)
    PROVE  ClientsFade /\ \A c \in Requests : client'[c].status = "active" => c \notin cs
  <1>1. NoViewer \in ClientRecords
    BY DEF NoViewer, ClientRecords
  <1>2. client' = [c \in Requests |-> IF c \in cs THEN NoViewer ELSE client[c]]
    BY DEF Ended
  <1>3. \A c \in Requests : client'[c] = IF c \in cs THEN NoViewer ELSE client[c]
    BY <1>2
  <1>4. client' \in [Requests -> ClientRecords]
    BY <1>1, <1>2 DEF TuningTypeOK
  <1>5. NoViewer.status = "none"
    BY DEF NoViewer
  <1>. QED  BY <1>3, <1>4, <1>5 DEF ClientsFade

LEMMA UnchangedFade ==
    ASSUME TuningTypeOK, client' = client
    PROVE  ClientsFade
  BY DEF ClientsFade, TuningTypeOK

LEMMA StopStays ==
    ASSUME HandlersInv, NEW i \in Sessions, session[i].state # "unused", StopSession(i)
    PROVE  /\ \E n : /\ Stays(i, n) /\ session' = [session EXCEPT ![i] = n]
                     /\ n.stream = session[i].stream
           /\ ClientsFade
  <1>1. session[i] \in SessionRecords
    BY DEF HandlersInv, TuningTypeOK
  <1>2. PICK n : n = [session[i] EXCEPT !.state = IF @ = "stopped" THEN @ ELSE "stopping"]
    OBVIOUS
  <1>3. /\ n \in SessionRecords /\ n.stream = session[i].stream
        /\ n.state = IF session[i].state = "stopped" THEN "stopped" ELSE "stopping"
    BY <1>1, <1>2 DEF SessionRecords, States
  <1>4. session' = [session EXCEPT ![i] = n]
    BY <1>2 DEF StopSession, HandlersInv, TuningTypeOK
  <1>5. Registered(i) => session[i].state # "stopped"
    BY RegisteredUsed
  <1>6. Stays(i, n)
    BY <1>3, <1>5 DEF Stays, Ages
  <1>7. ClientsFade
    BY EndedFade DEF StopSession, HandlersInv
  <1>. QED  BY <1>3, <1>4, <1>6, <1>7

LEMMA WeighGoes ==
    ASSUME NEW r \in Requests, HandlersInv, Weigh(r)
    PROVE  \E h : /\ StepOf(req[r], h, r) /\ PointsWell(h) /\ req' = [req EXCEPT ![r] = h]
                  /\ req[r].pc = "weigh" /\ req[r].plan = "replace"
                  /\ Keeps(req[r], h)
                  /\ \/ h.plan = "replace" /\ h.pc = "acquire" /\ playback' = playback
                     \/ /\ h.plan = "handover" /\ h.pc = "detach" /\ h.session = None
                        /\ playback' = [playback EXCEPT ![req[r].player] = Lease(r)]
  <1>1. req[r] \in HandlerRecords /\ HandlerShape(req[r], r) /\ PointsWell(req[r]) /\ req[r].pc = "weigh"
    BY DEF HandlersInv, TuningTypeOK, HandlersShaped, PointersGood, Weigh, At
  <1>2. req[r].plan = "replace" /\ req[r].prev # None /\ req[r].player # None
        /\ req[r].session = None
    BY <1>1 DEF HandlerShape
  <1>3. ~Served(req[r])
    BY <1>1 DEF Served, Emptying
  <1>4. PICK h, plan, pc :
           /\ h = [req[r] EXCEPT !.pc = pc, !.plan = plan] /\ req' = [req EXCEPT ![r] = h]
           /\ \/ plan = "replace" /\ pc = "acquire" /\ playback' = playback
              \/ /\ plan = "handover" /\ pc = "detach"
                 /\ playback' = [playback EXCEPT ![req[r].player] = Lease(r)]
    <2>1. CASE CanFree(req[r].prev, req[r].stream)
      <3>1. req' = [req EXCEPT ![r].pc = "detach", ![r].plan = "handover"]
            /\ playback' = [playback EXCEPT ![req[r].player] = Lease(r)]
        BY <2>1 DEF Weigh
      <3>2. req' = [req EXCEPT ![r] = [req[r] EXCEPT !.pc = "detach", !.plan = "handover"]]
        BY <3>1 DEF HandlersInv, TuningTypeOK
      <3>. QED  BY <3>1, <3>2
    <2>2. CASE ~CanFree(req[r].prev, req[r].stream)
      <3>1. Move(r, "acquire") /\ playback' = playback
        BY <2>2 DEF Weigh
      <3>2. req' = [req EXCEPT ![r] = [req[r] EXCEPT !.pc = "acquire"]]
        BY <3>1, MoveStep DEF HandlersInv
      <3>3. [req[r] EXCEPT !.pc = "acquire"] = [req[r] EXCEPT !.pc = "acquire", !.plan = "replace"]
        BY <1>1, <1>2 DEF HandlerRecords
      <3>. QED  BY <3>1, <3>2, <3>3
    <2>. QED  BY <2>1, <2>2
  <1>5. h \in HandlerRecords
    BY <1>1, <1>4 DEF HandlerRecords, Searching, Emptying
  <1>6. /\ h.pc = pc /\ h.plan = plan /\ h.player = req[r].player /\ h.session = req[r].session
        /\ h.stream = req[r].stream /\ h.client = req[r].client /\ h.prev = req[r].prev
        /\ h.cand = req[r].cand
    BY <1>1, <1>4 DEF HandlerRecords
  <1>7. HandlerShape(h, r)
    BY <1>1, <1>2, <1>4, <1>6 DEF HandlerShape, Searching, Emptying
  <1>8. PointsWell(h)
    BY <1>1, <1>6 DEF PointsWell
  <1>9. StepOf(req[r], h, r)
    BY <1>1, <1>3, <1>4, <1>5, <1>6, <1>7 DEF StepOf
  <1>10. Keeps(req[r], h)
    BY <1>6 DEF Keeps
  <1>. QED  BY <1>1, <1>2, <1>4, <1>6, <1>8, <1>9, <1>10

LEMMA DetachGoes ==
    ASSUME NEW r \in Requests, HandlersInv, Detach(r)
    PROVE  \E h : /\ StepOf(req[r], h, r) /\ PointsWell(h) /\ req' = [req EXCEPT ![r] = h]
                  /\ req[r].pc = "detach" /\ h.pc \in {"count", "acquire", "unlock"}
                  /\ Carries(req[r], h) /\ (h.pc = "unlock" => h.plan # "handover")
  <1>1. req[r] \in HandlerRecords /\ HandlerShape(req[r], r) /\ PointsWell(req[r]) /\ req[r].pc = "detach"
    BY DEF HandlersInv, TuningTypeOK, HandlersShaped, PointersGood, Detach, At
  <1>2. PICK q \in HandlerRecords : q = req[r]
    BY <1>1
  <1>3. q.prev \in RealLeases /\ q.plan \in {"replace", "handover", "release"}
    BY <1>1, <1>2 DEF HandlerShape, Emptying, HandlerRecords, Leases, RealLeases
  <1>4. PICK i : i = registry[q.prev.stream]
    OBVIOUS
  <1>5. i \in Sessions \cup {None} /\ (i # None => session[i].state # "unused")
    BY <1>3, <1>4 DEF HandlersInv, TuningTypeOK, SessionsRegistered, RealLeases
  <1>6. PICK pc, cand : /\ req' = [req EXCEPT ![r].cand = cand, ![r].pc = pc]
                        /\ cand = IF i = None THEN {} ELSE {i}
                        /\ pc = IF i # None /\ StopsWhenEmpty(r) THEN "count" ELSE Detached(r)
    BY <1>2, <1>4, Zenon DEF Detach
  <1>7. pc \in {"count", "acquire", "unlock"} /\ (pc = "acquire" => q.plan = "handover")
        /\ (pc = "unlock" => q.plan # "handover")
    BY <1>2, <1>6 DEF Detached
  <1>8. pc \in Steps
    BY <1>7 DEF Steps, Searching, Emptying
  <1>9. cand \in SUBSET Sessions /\ \A j \in cand : session[j].state # "unused"
    BY <1>5, <1>6
  <1>10. PICK h : h = Placed(q, pc, cand)
    OBVIOUS
  <1>11. HandlerShape(h, r) /\ (Served(q) => Served(h))
    BY <1>1, <1>2, <1>7, <1>10 DEF HandlerRecords, HandlerShape, Served, Searching, Emptying, Placed
  <1>12. /\ StepOf(q, h, r) /\ h.pc = pc /\ h.cand = cand
         /\ h.stream = q.stream /\ h.plan = q.plan
         /\ h.prev = q.prev /\ h.client = q.client /\ h.session = q.session
    <2>1. HandlerShape(q, r) /\ q.pc \notin {"new", "end"}
      BY <1>1, <1>2
    <2>. QED  BY <1>8, <1>9, <1>10, <1>11, <2>1, PlaceStep
  <1>13. PointsWell(h)
    BY <1>1, <1>2, <1>9, <1>12 DEF PointsWell
  <1>14. req' = [req EXCEPT ![r] = h]
    BY <1>1, <1>2, <1>6, <1>10 DEF HandlersInv, TuningTypeOK, HandlerRecords, Placed
  <1>. QED  BY <1>1, <1>2, <1>7, <1>12, <1>13, <1>14 DEF Carries, Keeps

(* A stop of a candidate, with the step of the handler that goes with it.  *)
LEMMA HaltGoes ==
    ASSUME NEW r \in Requests, HandlersInv, Halt(r)
    PROVE  /\ \E h : CalmStep(req[r], h, r) /\ PointsWell(h) /\ req' = [req EXCEPT ![r] = h]
           /\ \E i \in Sessions : session[i].state # "unused" /\ StopSession(i)
  <1>1. req[r] \in HandlerRecords /\ HandlerShape(req[r], r) /\ PointsWell(req[r]) /\ req[r].pc = "halt"
    BY DEF HandlersInv, TuningTypeOK, HandlersShaped, PointersGood, Halt, At
  <1>2. PICK i \in req[r].cand : StopSession(i)
    BY DEF Halt
  <1>3. i \in Sessions /\ session[i].state # "unused"
    BY <1>1, <1>2 DEF HandlerRecords, PointsWell
  <1>4. PICK pc \in {"unlock", "await"} : Move(r, pc) /\ (pc = "await" => req[r].plan # "replace")
                                          /\ (pc = "unlock" => req[r].plan = "replace")
    BY DEF Halt
  <1>5. LET h == [req[r] EXCEPT !.pc = pc] IN HandlerShape(h, r) /\ (Served(req[r]) => Served(h))
    BY <1>1, <1>4 DEF HandlerRecords, HandlerShape, Served, Searching, Emptying, Placed
  <1>6. \E h : CalmStep(req[r], h, r) /\ PointsWell(h) /\ req' = [req EXCEPT ![r] = h]
    BY <1>1, <1>4, <1>5, CalmMove DEF Steps, Emptying
  <1>. QED  BY <1>2, <1>3, <1>6

LEMMA StopCandidateGoes ==
    ASSUME NEW r \in Requests, HandlersInv, StopCandidate(r), req[r].pc \in {"reclaim", "evict"}
    PROVE  /\ \E h : CalmStep(req[r], h, r) /\ PointsWell(h) /\ req' = [req EXCEPT ![r] = h]
           /\ \E i \in Sessions : session[i].state # "unused" /\ StopSession(i)
  <1>1. req[r] \in HandlerRecords /\ HandlerShape(req[r], r) /\ PointsWell(req[r])
    BY DEF HandlersInv, TuningTypeOK, HandlersShaped, PointersGood
  <1>2. PICK i \in req[r].cand : StopSession(i) /\ req' = [req EXCEPT ![r].cand = @ \ {i}]
    BY DEF StopCandidate
  <1>3. i \in Sessions /\ session[i].state # "unused"
    BY <1>1, <1>2 DEF HandlerRecords, PointsWell
  <1>4. PICK pc \in {"reclaim", "evict"} : pc = req[r].pc
    OBVIOUS
  <1>5. PICK cand \in SUBSET Sessions : cand = req[r].cand \ {i} /\ cand \subseteq req[r].cand
    BY <1>1 DEF HandlerRecords
  <1>6. PICK h : h = Placed(req[r], pc, cand)
    OBVIOUS
  <1>7. HandlerShape(h, r) /\ (Served(req[r]) => Served(h))
    BY <1>1, <1>4, <1>6 DEF HandlerRecords, HandlerShape, Served, Searching, Emptying, Placed
  <1>8. CalmStep(req[r], h, r) /\ PointsWell(h)
    <2>1. \A j \in cand : session[j].state # "unused"
      BY <1>1, <1>5 DEF PointsWell
    <2>2. pc \in Steps
      BY DEF Steps, Searching
    <2>3. req[r].pc \notin {"new", "end", "detach"} /\ req[r].pc # "unlock"
      OBVIOUS
    <2>. QED  BY <1>6, <1>7, <2>1, <2>2, <2>3, CalmPlace
  <1>9. req' = [req EXCEPT ![r] = h]
    BY <1>1, <1>2, <1>4, <1>5, <1>6 DEF HandlersInv, TuningTypeOK, HandlerRecords, Placed
  <1>. QED  BY <1>2, <1>3, <1>8, <1>9

(* When no candidate is left the handler goes on.                          *)
LEMMA NextGoes ==
    ASSUME NEW r \in Requests, HandlersInv, req[r].pc \in {"reclaim", "evict"},
           NEW pc \in {"attach", "capacity"}, Move(r, pc)
    PROVE  \E h : CalmStep(req[r], h, r) /\ PointsWell(h) /\ req' = [req EXCEPT ![r] = h]
  <1>1. req[r] \in HandlerRecords /\ HandlerShape(req[r], r) /\ PointsWell(req[r])
    BY DEF HandlersInv, TuningTypeOK, HandlersShaped, PointersGood
  <1>2. LET h == [req[r] EXCEPT !.pc = pc] IN HandlerShape(h, r) /\ (Served(req[r]) => Served(h))
    BY <1>1 DEF HandlerRecords, HandlerShape, Served, Searching, Emptying
  <1>. QED  BY <1>2, CalmMove DEF Steps, Searching

LEMMA ResolveGoes ==
    ASSUME NEW r \in Requests, HandlersInv, Resolve(r)
    PROVE  \E h : /\ StepOf(req[r], h, r) /\ PointsWell(h) /\ req' = [req EXCEPT ![r] = h]
                  /\ req[r].pc = "resolve"
                  /\ \/ h.pc = "end" /\ h.client = r
                     \/ /\ h.plan = "none"
                        /\ LeaseHeld(h, playback[req[r].player])
                        /\ h.client = playback[req[r].player].client
  <1>1. req[r] \in HandlerRecords /\ HandlerShape(req[r], r) /\ PointsWell(req[r])
        /\ req[r].pc = "resolve"
    BY DEF HandlersInv, TuningTypeOK, HandlersShaped, PointersGood, Resolve, At
  <1>2. PICK s, p, i, l : s = req[r].stream /\ p = req[r].player /\ i = registry[s] /\ l = playback[p]
    OBVIOUS
  <1>3. req[r].plan = "none" /\ req[r].session = None /\ p \in Players /\ s \in Streams
    BY <1>1, <1>2, PlayersOwn DEF HandlerShape
  <1>4. l \in Leases /\ i \in Sessions \cup {None}
    BY <1>2, <1>3 DEF HandlersInv, TuningTypeOK
  <1>5. CASE Move(r, "end")
    <2>1. PICK h : h = Blank(r, req[r].player, "end")
      OBVIOUS
    <2>2. StepOf(req[r], h, r) /\ h.pc = "end" /\ h.client = r /\ h.session = None /\ h.cand = {}
      BY <1>1, <2>1, OverStep
    <2>3. PointsWell(h)
      BY <2>2 DEF PointsWell
    <2>. QED  BY <1>1, <1>5, <2>1, <2>2, <2>3, MoveOver DEF HandlersInv
  <1>6. CASE ~Move(r, "end")
    <2>1. /\ i # None /\ l # None /\ l.stream = s
          /\ req' = [req EXCEPT ![r].pc = "register", ![r].session = i, ![r].client = l.client]
      BY <1>2, <1>6, Zenon DEF Resolve
    <2>2. l.client \in Requests
      BY <1>4, <2>1 DEF Leases
    <2>3. PICK h : h = [req[r] EXCEPT !.pc = "register", !.session = i, !.client = l.client]
      OBVIOUS
    <2>4. req' = [req EXCEPT ![r] = h]
      BY <1>1, <2>1, <2>3 DEF HandlersInv, TuningTypeOK
    <2>5. h \in HandlerRecords
      BY <1>1, <1>4, <2>2, <2>3 DEF HandlerRecords
    <2>6. /\ h.pc = "register" /\ h.session = i /\ h.client = l.client /\ h.plan = "none"
          /\ h.stream = s /\ h.player = p /\ h.cand = req[r].cand
      BY <1>1, <1>2, <1>3, <2>3 DEF HandlerRecords
    <2>7. HandlerShape(h, r)
      BY <1>3, <2>1, <2>6, NoneApart DEF HandlerShape, Searching, Emptying
    <2>8. session[i].stream = s /\ session[i].state # "unused"
      BY <1>2, <1>3, <2>1 DEF HandlersInv, SessionsRegistered
    <2>9. PointsWell(h)
      BY <1>1, <2>6, <2>8 DEF PointsWell
    <2>10. StepOf(req[r], h, r)
      BY <1>1, <1>2, <1>3, <2>5, <2>6, <2>7 DEF StepOf, Served
    <2>. QED  BY <1>1, <1>2, <2>1, <2>4, <2>6, <2>9, <2>10 DEF LeaseHeld
  <1>. QED  BY <1>5, <1>6

LEMMA RegisterGoes ==
    ASSUME NEW r \in Requests, HandlersInv, Register(r)
    PROVE  /\ \E h : /\ StepOf(req[r], h, r) /\ PointsWell(h) /\ req' = [req EXCEPT ![r] = h]
                     /\ req[r].pc = "register" /\ h.pc = "end" /\ h.client = r
           /\ client' \in [Requests -> ClientRecords]
           /\ \/ client' = client
              \/ /\ ~Closing(req[r].session) /\ session[req[r].session].state # "failed"
                 /\ client' = [client EXCEPT ![req[r].client] = [status |-> "active",
                                                                 session |-> req[r].session]]
  <1>1. req[r] \in HandlerRecords /\ HandlerShape(req[r], r) /\ PointsWell(req[r])
        /\ req[r].pc = "register"
    BY DEF HandlersInv, TuningTypeOK, HandlersShaped, PointersGood, Register, At
  <1>2. PICK h : h = Blank(r, req[r].player, "end")
    OBVIOUS
  <1>3. StepOf(req[r], h, r) /\ h.pc = "end" /\ h.client = r /\ h.session = None /\ h.cand = {}
    BY <1>1, <1>2, OverStep
  <1>4. PointsWell(h)
    BY <1>3 DEF PointsWell
  <1>5. req' = [req EXCEPT ![r] = h]
    BY <1>2, MoveOver DEF Register, HandlersInv
  <1>6. \/ client' = client
        \/ /\ ~Closing(req[r].session) /\ session[req[r].session].state # "failed"
           /\ client' = [client EXCEPT ![req[r].client] = [status |-> "active",
                                                           session |-> req[r].session]]
    BY DEF Register
  <1>7. client' \in [Requests -> ClientRecords]
    <2>1. [status |-> "active", session |-> req[r].session] \in ClientRecords
      BY <1>1 DEF ClientRecords, HandlerRecords
    <2>. QED  BY <1>6, <2>1 DEF HandlersInv, TuningTypeOK
  <1>. QED  BY <1>1, <1>3, <1>4, <1>5, <1>6, <1>7

-----------------------------------------------------------------------------
(* The step under the manager's lock, and the end of a session *)

LEMMA FreshOne ==
    ASSUME HandlersInv, NEW r \in Requests, ~Served(req[r])
    PROVE  Fresh \in Sessions /\ session[Fresh].state = "unused"
  <1>1. PICK T : T = {i \in Sessions : session[i].state = "unused"}
    OBVIOUS
  <1>2. T # {}
    <2>. SUFFICES ASSUME T = {} PROVE FALSE
      OBVIOUS
    <2>1. Used = Sessions
      BY <1>1 DEF Used
    <2>2. PICK O : O = Requests \ {r}
      OBVIOUS
    <2>3. IsFiniteSet(O) /\ Cardinality(O) = Cardinality(Requests) - 1
      BY <2>2, RequestsFinite, FS_RemoveElement
    <2>4. ServedRequests \subseteq O
      BY <2>2 DEF ServedRequests
    <2>5. IsFiniteSet(ServedRequests) /\ Cardinality(ServedRequests) <= Cardinality(O)
      BY <2>3, <2>4, FS_Subset
    <2>6. PICK n, s : n = Cardinality(Requests) /\ s = Cardinality(ServedRequests)
      OBVIOUS
    <2>7. n \in Nat /\ s \in Nat /\ s <= n - 1
      BY <2>3, <2>5, <2>6, RequestsFinite, FS_CardinalityType
    <2>8. Cardinality(Sessions) = n
      BY <2>6, RequestsFinite
    <2>9. n <= s
      BY <2>1, <2>6, <2>8 DEF HandlersInv, RoomLeft
    <2>. QED  BY <2>7, <2>9
  <1>3. T \subseteq Nat
    BY <1>1 DEF Sessions
  <1>4. \E x \in T : \A y \in T : x <= y
    BY <1>2, <1>3, LeastNumber
  <1>5. Fresh = CHOOSE x \in T : \A y \in T : x <= y
    BY <1>1 DEF Fresh, Min
  <1>6. Fresh \in T
    BY <1>4, <1>5
  <1>. QED  BY <1>1, <1>6

LEMMA GivenGoes ==
    ASSUME NEW r \in Requests, HandlersInv, req[r].pc = "attach", NEW i \in Sessions, Given(r, i)
    PROVE  \E h : /\ StepOf(req[r], h, r) /\ req' = [req EXCEPT ![r] = h] /\ Served(h)
                  /\ h.cand \subseteq req[r].cand
                  /\ \/ /\ req[r].plan = "prewarm" /\ h.pc = "end" /\ h.client = r
                        /\ h.session = None
                     \/ /\ req[r].plan # "prewarm" /\ h.session = i /\ h.stream = req[r].stream
                        /\ h.client = req[r].client /\ h.prev = req[r].prev /\ h.plan = req[r].plan
                        /\ h.pc = IF req[r].plan = "replace" THEN "detach" ELSE "unlock"
  <1>1. req[r] \in HandlerRecords /\ HandlerShape(req[r], r)
    BY DEF HandlersInv, TuningTypeOK, HandlersShaped
  <1>2. CASE req[r].plan = "prewarm"
    <2>1. PICK h : h = Blank(r, req[r].player, "end")
      OBVIOUS
    <2>2. StepOf(req[r], h, r) /\ h.pc = "end" /\ h.client = r /\ h.session = None /\ h.cand = {}
      BY <1>1, <2>1, OverStep
    <2>3. req' = [req EXCEPT ![r] = h]
      BY <1>2, <2>1, MoveOver DEF Given, HandlersInv
    <2>. QED  BY <1>2, <2>2, <2>3 DEF Served
  <1>3. CASE req[r].plan # "prewarm"
    <2>1. PICK pc \in {"detach", "unlock"} : pc = IF req[r].plan = "replace" THEN "detach" ELSE "unlock"
      OBVIOUS
    <2>2. PICK h : h = [req[r] EXCEPT !.session = i, !.pc = pc]
      OBVIOUS
    <2>3. req' = [req EXCEPT ![r] = h]
      BY <1>1, <1>3, <2>1, <2>2 DEF Given, HandlersInv, TuningTypeOK
    <2>4. h \in HandlerRecords
      BY <1>1, <2>2 DEF HandlerRecords, Emptying
    <2>5. /\ h.pc = pc /\ h.session = i /\ h.stream = req[r].stream /\ h.client = req[r].client
          /\ h.prev = req[r].prev /\ h.plan = req[r].plan /\ h.player = req[r].player
          /\ h.cand = req[r].cand
      BY <1>1, <2>2 DEF HandlerRecords
    <2>6. HandlerShape(h, r)
      BY <1>1, <1>3, <2>1, <2>5, NoneApart DEF HandlerShape, Searching, Emptying
    <2>7. Served(h)
      BY <2>1, <2>5 DEF Served, Emptying
    <2>8. StepOf(req[r], h, r)
      BY <1>1, <2>1, <2>4, <2>5, <2>6, <2>7 DEF StepOf
    <2>. QED  BY <1>3, <2>1, <2>3, <2>5, <2>7, <2>8
  <1>. QED  BY <1>2, <1>3

LEMMA LeaseMade ==
    ASSUME HandlersInv, NEW r \in Requests, req[r].pc \notin {"new", "end"}
    PROVE  /\ Lease(r) \in RealLeases /\ Lease(r).client = r /\ Lease(r).stream = req[r].stream
           /\ Lease(r) # None
  <1>1. req[r].stream \in Streams /\ req[r].protocol \in {"hls", "mpegts"}
    BY DEF HandlersInv, TuningTypeOK, HandlersShaped, HandlerShape, HandlerRecords, Protocols
  <1>. QED  BY <1>1, NoneApart DEF Lease, RealLeases

(* What the handler of r has after the manager's lock: the session i...    *)
GivenStep(q, h, r, i) ==
    \/ q.plan = "prewarm" /\ h.pc = "end" /\ h.client = r /\ h.session = None
    \/ /\ q.plan # "prewarm" /\ h.session = i /\ h.stream = q.stream
       /\ h.client = q.client /\ h.prev = q.prev /\ h.plan = q.plan
       /\ h.pc = IF q.plan = "replace" THEN "detach" ELSE "unlock"

(* ... or a refusal.                                                       *)
RefusedStep(q, h, r) ==
    \/ q.plan = "prewarm" /\ h.pc = "end" /\ h.client = r
    \/ q.plan # "prewarm" /\ h.pc = "unlock" /\ Carries(q, h)

Moves(r) ==
    playback' = IF req[r].plan \in {"store", "replace"}
                THEN [playback EXCEPT ![req[r].player] = Lease(r)] ELSE playback
TakenBack(r) ==
    playback' = IF req[r].plan = "handover" /\ playback[req[r].player] = Lease(r)
                THEN [playback EXCEPT ![req[r].player] = None] ELSE playback

LEMMA LeasesTyped ==
    ASSUME HandlersInv, NEW r \in Requests, req[r].pc \notin {"new", "end"},
           Moves(r) \/ TakenBack(r)
    PROVE  playback' \in [Players -> Leases]
  <1>1. playback \in [Players -> Leases] /\ Lease(r) \in Leases /\ None \in Leases
    BY LeaseMade, NoneApart DEF HandlersInv, TuningTypeOK
  <1>2. PICK p, l : p = req[r].player /\ l = Lease(r)
    OBVIOUS
  <1>3. \/ playback' = playback \/ playback' = [playback EXCEPT ![p] = l]
        \/ playback' = [playback EXCEPT ![p] = None]
    BY <1>2 DEF Moves, TakenBack
  <1>. QED  BY <1>1, <1>2, <1>3

(* The session of its stream is at work: it is reused.                     *)
AttachReuses(r) ==
    LET s == req[r].stream
    IN  /\ registry[s] # None /\ ~Closing(registry[s])
        /\ session' = Reused(s, req[r].plan = "prewarm")
        /\ Given(r, registry[s]) /\ Moves(r) /\ registry' = registry

AttachCreates(r) ==
    LET s == req[r].stream
    IN  /\ registry[s] = None /\ session' = Created(s, req[r].plan = "prewarm")
        /\ registry' = [registry EXCEPT ![s] = Fresh] /\ Given(r, Fresh) /\ Moves(r)

AttachRefuses(r) ==
    /\ Move(r, IF req[r].plan = "prewarm" THEN "end" ELSE "unlock") /\ TakenBack(r)
    /\ registry' = registry /\ session' = session

LEMMA AttachCases ==
    ASSUME NEW r \in Requests, Attach(r)
    PROVE  /\ req[r].pc = "attach" /\ client' = client /\ sweep' = sweep
           /\ AttachReuses(r) \/ AttachCreates(r) \/ AttachRefuses(r)
  <1>1. req[r].pc = "attach" /\ client' = client /\ sweep' = sweep
    BY DEF Attach, At
  <1>2. AttachReuses(r) \/ AttachCreates(r) \/ AttachRefuses(r)
    BY Zenon DEF Attach, AttachReuses, AttachCreates, AttachRefuses, Moves, TakenBack
  <1>. QED  BY <1>1, <1>2

LEMMA ReusesGoes ==
    ASSUME NEW r \in Requests, HandlersInv, req[r].pc = "attach", AttachReuses(r)
    PROVE  /\ \E h, i : /\ StepOf(req[r], h, r) /\ PointsWell(h) /\ req' = [req EXCEPT ![r] = h]
                        /\ GivenStep(req[r], h, r, i) /\ i \in Sessions
           /\ \E i \in Sessions : \E n : /\ Stays(i, n) /\ session' = [session EXCEPT ![i] = n]
                                          /\ n.stream = session[i].stream
  <1>1. PICK s, i : s = req[r].stream /\ i = registry[s]
    OBVIOUS
  <1>2. s \in Streams /\ i \in Sessions /\ i # None /\ registry[s] # None
    BY <1>1 DEF AttachReuses, HandlersInv, TuningTypeOK, HandlersShaped, HandlerShape
  <1>3. /\ session[i].stream = s /\ session[i].state \in {"starting", "running", "stopping", "failed"}
        /\ session[i] \in SessionRecords
    BY <1>1, <1>2 DEF HandlersInv, SessionsRegistered, TuningTypeOK
  <1>4. PICK h : /\ StepOf(req[r], h, r) /\ req' = [req EXCEPT ![r] = h]
                 /\ GivenStep(req[r], h, r, i) /\ h.cand \subseteq req[r].cand
    BY <1>1, <1>2, GivenGoes DEF AttachReuses, GivenStep
  <1>5. PointsWell(h)
    <2>1. \A j \in h.cand : session[j].state # "unused"
      BY <1>4 DEF HandlersInv, PointersGood, PointsWell
    <2>. QED  BY <1>1, <1>3, <1>4, <2>1 DEF PointsWell, GivenStep
  <1>6. PICK n : n = [session[i] EXCEPT !.prewarm = @ /\ (req[r].plan = "prewarm")]
    OBVIOUS
  <1>7. n \in SessionRecords /\ n.state = session[i].state /\ n.stream = session[i].stream
    BY <1>3, <1>6 DEF SessionRecords
  <1>8. Stays(i, n)
    BY <1>3, <1>7 DEF Stays, Ages
  <1>9. session' = [session EXCEPT ![i] = n]
    BY <1>1, <1>6 DEF AttachReuses, Reused, HandlersInv, TuningTypeOK
  <1>. QED  BY <1>2, <1>4, <1>5, <1>7, <1>8, <1>9

LEMMA RefusesGoes ==
    ASSUME NEW r \in Requests, HandlersInv, req[r].pc = "attach", AttachRefuses(r)
    PROVE  \E h : /\ StepOf(req[r], h, r) /\ PointsWell(h) /\ req' = [req EXCEPT ![r] = h]
                  /\ RefusedStep(req[r], h, r)
  <1>1. req[r] \in HandlerRecords /\ HandlerShape(req[r], r) /\ PointsWell(req[r])
    BY DEF HandlersInv, TuningTypeOK, HandlersShaped, PointersGood
  <1>2. CASE req[r].plan = "prewarm"
    <2>1. PICK h : h = Blank(r, req[r].player, "end")
      OBVIOUS
    <2>2. StepOf(req[r], h, r) /\ h.pc = "end" /\ h.client = r /\ h.session = None /\ h.cand = {}
      BY <1>1, <2>1, OverStep
    <2>3. req' = [req EXCEPT ![r] = h]
      BY <1>2, <2>1, MoveOver DEF AttachRefuses, HandlersInv
    <2>4. PointsWell(h)
      BY <2>2 DEF PointsWell
    <2>. QED  BY <1>2, <2>2, <2>3, <2>4 DEF RefusedStep
  <1>3. CASE req[r].plan # "prewarm"
    <2>1. PICK h : h = [req[r] EXCEPT !.pc = "unlock"]
      OBVIOUS
    <2>2. /\ h \in HandlerRecords /\ h.pc = "unlock" /\ Carries(req[r], h)
          /\ h.player = req[r].player /\ h.cand = req[r].cand
      BY <1>1, <2>1 DEF HandlerRecords, Carries, Keeps
    <2>3. req' = [req EXCEPT ![r] = h]
      BY <1>3, <2>1, MoveStep DEF AttachRefuses, HandlersInv
    <2>4. HandlerShape(h, r)
      BY <1>1, <1>3, <2>2 DEF HandlerShape, Searching, Emptying, Carries, Keeps
    <2>5. PointsWell(h)
      BY <1>1, <2>2 DEF PointsWell, Carries, Keeps
    <2>6. StepOf(req[r], h, r)
      BY <2>2, <2>4 DEF StepOf, Served
    <2>. QED  BY <1>3, <2>2, <2>3, <2>5, <2>6 DEF RefusedStep
  <1>. QED  BY <1>2, <1>3

LEMMA CreatesGoes ==
    ASSUME NEW r \in Requests, HandlersInv, req[r].pc = "attach", AttachCreates(r),
           playback' \in [Players -> Leases], client' = client, sweep' = sweep, scenario' = scenario
    PROVE  /\ HandlersInv'
           /\ \E h, i : /\ StepOf(req[r], h, r) /\ req' = [req EXCEPT ![r] = h]
                        /\ GivenStep(req[r], h, r, i) /\ i \in Sessions
           /\ \A j \in Sessions : session[j].state # "unused" => session'[j] = session[j]
           /\ \A s \in Streams : registry[s] # None => registry'[s] = registry[s]
  <1>1. PICK s, i : s = req[r].stream /\ i = Fresh
    OBVIOUS
  <1>2. s \in Streams /\ req[r] \in HandlerRecords /\ req[r].session = None
    BY <1>1 DEF HandlersInv, TuningTypeOK, HandlersShaped, HandlerShape, Searching
  <1>3. ~Served(req[r])
    BY DEF Served, Emptying
  <1>4. i \in Sessions /\ session[i].state = "unused"
    BY <1>1, <1>3, FreshOne
  <1>5. PICK h : /\ StepOf(req[r], h, r) /\ req' = [req EXCEPT ![r] = h] /\ Served(h)
                 /\ GivenStep(req[r], h, r, i) /\ h.cand \subseteq req[r].cand
    BY <1>1, <1>4, GivenGoes DEF AttachCreates, GivenStep
  <1>6. PICK n : n = [Unused EXCEPT !.stream = s, !.state = "starting",
                                    !.prewarm = (req[r].plan = "prewarm")]
    OBVIOUS
  <1>7. n \in SessionRecords /\ n.state = "starting" /\ n.stream = s
    BY <1>2, <1>6 DEF Unused, SessionRecords, States
  <1>8. /\ session' = [session EXCEPT ![i] = n] /\ registry' = [registry EXCEPT ![s] = i]
        /\ registry[s] = None
    BY <1>1, <1>6 DEF AttachCreates, Created
  <1>9. /\ session' \in [Sessions -> SessionRecords] /\ session'[i] = n
        /\ \A j \in Sessions : j # i => session'[j] = session[j]
        /\ registry' \in [Streams -> Sessions \cup {None}] /\ registry'[s] = i
        /\ \A t \in Streams : t # s => registry'[t] = registry[t]
    BY <1>2, <1>4, <1>7, <1>8 DEF HandlersInv, TuningTypeOK
  <1>10. /\ req' \in [Requests -> HandlerRecords] /\ HandlersShaped'
         /\ \A q \in Requests : Served(req[q]) => Served(req'[q])
         /\ \A q \in Requests : q # r => req'[q] = req[q]
         /\ req'[r] = h
    BY <1>5, HandlerGoes DEF HandlersInv
  <1>11. TuningTypeOK'
    BY <1>9, <1>10 DEF HandlersInv, TuningTypeOK
  <1>12. SessionsRegistered'
    <2>1. ASSUME NEW t \in Streams, registry'[t] # None
          PROVE  /\ session'[registry'[t]].stream = t
                 /\ session'[registry'[t]].state \in {"starting", "running", "stopping", "failed"}
      <3>1. CASE t = s
        BY <1>7, <1>9, <3>1
      <3>2. CASE t # s
        <4>1. /\ registry'[t] = registry[t] /\ session[registry[t]].stream = t
              /\ session[registry[t]].state \in {"starting", "running", "stopping", "failed"}
              /\ registry[t] \in Sessions
          BY <1>9, <2>1, <3>2 DEF HandlersInv, SessionsRegistered, TuningTypeOK
        <4>2. registry[t] # i
          BY <1>4, <4>1
        <4>. QED  BY <1>9, <4>1, <4>2
      <3>. QED  BY <3>1, <3>2
    <2>2. ASSUME NEW j \in Sessions, session'[j].state \in {"starting", "running"}
          PROVE  session'[j].stream \in Streams /\ registry'[session'[j].stream] = j
      <3>1. CASE j = i
        BY <1>2, <1>7, <1>9, <3>1
      <3>2. CASE j # i
        <4>1. session'[j] = session[j] /\ session[j].stream \in Streams
              /\ registry[session[j].stream] = j
          BY <1>9, <2>2, <3>2 DEF HandlersInv, SessionsRegistered
        <4>2. session[j].stream # s
          BY <1>8, <4>1, NoneApart
        <4>. QED  BY <1>9, <4>1, <4>2
      <3>. QED  BY <3>1, <3>2
    <2>. QED  BY <2>1, <2>2 DEF SessionsRegistered
  <1>13. PointersGood'
    <2>. SUFFICES ASSUME NEW q \in Requests PROVE PointsWell(req[q])'
      BY DEF PointersGood
    <2>1. PICK x \in HandlerRecords : x = req'[q]
      BY <1>10
    <2>2. x.cand \subseteq Sessions /\ x.session \in Sessions \cup {None}
      BY <2>1 DEF HandlerRecords
    <2>3. \A j \in x.cand : session[j].state # "unused"
      BY <1>5, <1>10, <2>1 DEF HandlersInv, PointersGood, PointsWell
    <2>4. \A j \in x.cand : session'[j].state # "unused"
      BY <1>4, <1>9, <2>2, <2>3
    <2>5. ASSUME x.session # None
          PROVE  /\ session'[x.session].state # "unused"
                 /\ session'[x.session].state \in {"starting", "running"} =>
                      session'[x.session].stream = x.stream
      <3>1. CASE q = r
        <4>1. x.session = i /\ x.stream = s
          BY <1>1, <1>5, <1>10, <2>1, <2>5, <3>1 DEF GivenStep
        <4>. QED  BY <1>7, <1>9, <4>1
      <3>2. CASE q # r
        <4>1. x = req[q] /\ PointsWell(x)
          BY <1>10, <2>1, <3>2 DEF HandlersInv, PointersGood
        <4>2. x.session # i /\ x.session \in Sessions
          BY <1>4, <2>2, <2>5, <4>1 DEF PointsWell
        <4>. QED  BY <1>9, <2>5, <4>1, <4>2 DEF PointsWell
      <3>. QED  BY <3>1, <3>2
    <2>. QED  BY <2>1, <2>4, <2>5 DEF PointsWell
  <1>14. RoomLeft'
    <2>1. Used' = Used \cup {i} /\ i \notin Used
      BY <1>4, <1>7, <1>9 DEF Used
    <2>2. ServedRequests \cup {r} \subseteq ServedRequests' /\ r \notin ServedRequests
      BY <1>3, <1>5, <1>10 DEF ServedRequests
    <2>3. Used \subseteq Sessions /\ ServedRequests \subseteq Requests /\ ServedRequests' \subseteq Requests
      BY DEF Used, ServedRequests
    <2>4. PICK U, S, V : U = Used /\ S = ServedRequests /\ V = ServedRequests'
      OBVIOUS
    <2>5. IsFiniteSet(U) /\ IsFiniteSet(S) /\ IsFiniteSet(V)
      BY <2>3, <2>4, RequestsFinite, FS_Subset
    <2>6. /\ Cardinality(U \cup {i}) = Cardinality(U) + 1
          /\ Cardinality(S \cup {r}) = Cardinality(S) + 1 /\ IsFiniteSet(S \cup {r})
      BY <2>1, <2>2, <2>4, <2>5, FS_AddElement
    <2>7. S \cup {r} \subseteq V
      BY <2>2, <2>4
    <2>8. Cardinality(S \cup {r}) <= Cardinality(V)
      BY <2>5, <2>7, FS_Subset
    <2>9. Cardinality(U) \in Nat /\ Cardinality(S) \in Nat /\ Cardinality(V) \in Nat
      BY <2>5, FS_CardinalityType
    <2>10. Cardinality(U) <= Cardinality(S)
      BY <2>4 DEF HandlersInv, RoomLeft
    <2>11. Cardinality(U \cup {i}) <= Cardinality(V)
      BY <2>6, <2>8, <2>9, <2>10
    <2>12. Used' = U \cup {i} /\ ServedRequests' = V
      BY <2>1, <2>4
    <2>. QED  BY <2>11, <2>12 DEF RoomLeft
  <1>15. \A j \in Sessions : session[j].state # "unused" => session'[j] = session[j]
    BY <1>4, <1>9
  <1>16. \A t \in Streams : registry[t] # None => registry'[t] = registry[t]
    BY <1>8, <1>9
  <1>. QED  BY <1>4, <1>5, <1>10, <1>11, <1>12, <1>13, <1>14, <1>15, <1>16 DEF HandlersInv

LEMMA EndGoes ==
    ASSUME NEW i \in Sessions, HandlersInv, End(i), scenario' = scenario
    PROVE  /\ HandlersInv' /\ ClientsFade
           /\ \A c \in Requests : client'[c].status # "none" => client[c].session # i
           /\ \A j \in Sessions : j # i => session'[j] = session[j]
           /\ \A s \in Streams : registry[s] # i => registry'[s] = registry[s]
  <1>1. PICK s : s = session[i].stream
    OBVIOUS
  <1>2. /\ s \in Streams /\ registry[s] = i /\ session[i].state # "unused"
        /\ session[i] \in SessionRecords
    BY <1>1, RegisteredUsed DEF End, HandlersInv, TuningTypeOK
  <1>3. PICK n : n = Gone(i)
    OBVIOUS
  <1>4. n \in SessionRecords /\ n.state \in {"failed", "stopped"}
    BY <1>2, <1>3 DEF Gone, Unused, SessionRecords, States
  <1>5. Ages(i, n)
    BY <1>2, <1>4 DEF Ages
  <1>6. session' = [session EXCEPT ![i] = n] /\ registry' = [registry EXCEPT ![s] = None]
    BY <1>1, <1>3 DEF End
  <1>7. /\ session' \in [Sessions -> SessionRecords] /\ session'[i] = n
        /\ \A j \in Sessions : j # i => session'[j] = session[j]
        /\ registry' \in [Streams -> Sessions \cup {None}] /\ registry'[s] = None
        /\ \A t \in Streams : t # s => registry'[t] = registry[t]
    BY <1>2, <1>4, <1>6 DEF HandlersInv, TuningTypeOK
  <1>8. ClientsFade /\ \A c \in Requests : client'[c].status # "none" => client[c].session # i
    <2>1. PICK cs : cs = {c \in Requests : client[c].session = i}
      OBVIOUS
    <2>2. client' = [c \in Requests |-> IF c \in cs THEN NoViewer ELSE client[c]]
      BY <2>1 DEF End, Ended
    <2>3. client' = Ended(cs)
      BY <2>2 DEF Ended
    <2>. QED  BY <2>1, <2>2, <2>3, EndedFade DEF HandlersInv, NoViewer
  <1>9. TuningTypeOK' /\ HandlersShaped'
    BY <1>7, <1>8 DEF End, HandlersInv, TuningTypeOK, HandlersShaped, ClientsFade
  <1>10. SessionsRegistered'
    <2>1. ASSUME NEW t \in Streams, registry'[t] # None
          PROVE  /\ session'[registry'[t]].stream = t
                 /\ session'[registry'[t]].state \in {"starting", "running", "stopping", "failed"}
      <3>1. t # s /\ registry'[t] = registry[t]
        BY <1>7, <2>1
      <3>2. /\ session[registry[t]].stream = t /\ registry[t] \in Sessions
            /\ session[registry[t]].state \in {"starting", "running", "stopping", "failed"}
        BY <2>1, <3>1 DEF HandlersInv, SessionsRegistered, TuningTypeOK
      <3>3. registry[t] # i
        BY <1>1, <3>1, <3>2
      <3>. QED  BY <1>7, <3>1, <3>2, <3>3
    <2>2. ASSUME NEW j \in Sessions, session'[j].state \in {"starting", "running"}
          PROVE  session'[j].stream \in Streams /\ registry'[session'[j].stream] = j
      <3>1. j # i
        BY <1>4, <1>7, <2>2
      <3>2. session'[j] = session[j] /\ session[j].stream \in Streams
            /\ registry[session[j].stream] = j
        BY <1>7, <2>2, <3>1 DEF HandlersInv, SessionsRegistered
      <3>3. session[j].stream # s
        BY <1>2, <3>1, <3>2
      <3>. QED  BY <1>7, <3>2, <3>3
    <2>. QED  BY <2>1, <2>2 DEF SessionsRegistered
  <1>11. PointersGood'
    <2>. SUFFICES ASSUME NEW q \in Requests PROVE PointsWell(req[q])'
      BY DEF PointersGood
    <2>1. PICK x \in HandlerRecords : x = req[q] /\ PointsWell(x)
      BY DEF HandlersInv, TuningTypeOK, PointersGood
    <2>2. PointsWell(x)'
      BY <1>5, <1>6, <2>1, PointersStay DEF HandlersInv
    <2>3. req'[q] = x
      BY <2>1 DEF End
    <2>. QED  BY <2>2, <2>3 DEF PointsWell
  <1>12. RoomLeft'
    <2>1. Used' = Used
      BY <1>2, <1>4, <1>7 DEF Used
    <2>2. \A r \in Requests : Served(req[r]) => Served(req'[r])
      BY DEF End
    <2>. QED  BY <2>1, <2>2, RoomKept DEF HandlersInv
  <1>13. \A t \in Streams : registry[t] # i => registry'[t] = registry[t]
    BY <1>2, <1>7
  <1>. QED  BY <1>7, <1>8, <1>9, <1>10, <1>11, <1>12, <1>13 DEF HandlersInv

(* Nothing but leases, viewers and the sweep change.                       *)
LEMMA Standing ==
    ASSUME HandlersInv, req' = req, session' = session, registry' = registry,
           playback' \in [Players -> Leases], client' \in [Requests -> ClientRecords],
           sweep' \in Streams \cup {None}, scenario' = scenario
    PROVE  HandlersInv'
  <1>1. TuningTypeOK' /\ HandlersShaped' /\ SessionsRegistered'
    BY DEF HandlersInv, TuningTypeOK, HandlersShaped, SessionsRegistered
  <1>2. PointersGood'
    BY DEF HandlersInv, PointersGood, PointsWell
  <1>3. RoomLeft'
    <2>1. Used' = Used
      BY DEF Used
    <2>. QED  BY <2>1, RoomKept DEF HandlersInv
  <1>. QED  BY <1>1, <1>2, <1>3 DEF HandlersInv

LEMMA LiveGoes ==
    ASSUME HandlersInv, NEW i \in Sessions,
           Connect(i) \/ BecomeReady(i) \/ LoseSource(i) \/ ReturnLease(i)
    PROVE  \E n : Stays(i, n) /\ session' = [session EXCEPT ![i] = n]
  <1>1. session[i] \in SessionRecords
    BY DEF HandlersInv, TuningTypeOK
  <1>2. PICK x \in SessionRecords : x = session[i]
    BY <1>1
  <1>3. CASE Connect(i)
    <2>1. PICK n : n = [x EXCEPT !.leased = TRUE]
      OBVIOUS
    <2>2. n \in SessionRecords /\ n.state = x.state /\ n.stream = x.stream /\ x.state = "starting"
      BY <1>2, <1>3, <2>1 DEF SessionRecords, Connect
    <2>3. session' = [session EXCEPT ![i] = n]
      BY <1>2, <1>3, <2>1 DEF Connect, HandlersInv, TuningTypeOK
    <2>. QED  BY <1>2, <2>2, <2>3 DEF Stays, Ages
  <1>4. CASE BecomeReady(i)
    <2>1. PICK n : n = [x EXCEPT !.state = "running", !.positioned = TRUE]
      OBVIOUS
    <2>2. n \in SessionRecords /\ n.state = "running" /\ n.stream = x.stream /\ x.state = "starting"
      BY <1>2, <1>4, <2>1 DEF SessionRecords, States, BecomeReady
    <2>3. session' = [session EXCEPT ![i] = n]
      BY <1>2, <1>4, <2>1 DEF BecomeReady, HandlersInv, TuningTypeOK
    <2>. QED  BY <1>2, <2>2, <2>3 DEF Stays, Ages
  <1>5. CASE LoseSource(i)
    <2>1. PICK n : /\ n = [x EXCEPT !.state = "starting", !.leased = FALSE]
                        \/ n = [x EXCEPT !.state = "failed"]
                   /\ x.state \in {"running", "starting"} /\ session' = [session EXCEPT ![i] = n]
      <3>1. CASE session[i].state = "running"
                 /\ session' = [session EXCEPT ![i].state = "starting", ![i].leased = FALSE]
        BY <1>2, <3>1 DEF HandlersInv, TuningTypeOK
      <3>2. CASE session[i].state = "starting" /\ session' = [session EXCEPT ![i].state = "failed"]
        BY <1>2, <3>2 DEF HandlersInv, TuningTypeOK
      <3>. QED  BY <1>5, <3>1, <3>2 DEF LoseSource
    <2>2. n \in SessionRecords /\ n.state \in {"starting", "failed"} /\ n.stream = x.stream
      BY <2>1 DEF SessionRecords, States
    <2>. QED  BY <1>2, <2>1, <2>2 DEF Stays, Ages
  <1>6. CASE ReturnLease(i)
    <2>1. PICK n : n = [x EXCEPT !.leased = FALSE, !.stream = IF Registered(i) THEN @ ELSE None]
      OBVIOUS
    <2>2. /\ n \in SessionRecords /\ n.state = x.state /\ x.state \in {"failed", "stopping", "stopped"}
          /\ Registered(i) => n.stream = x.stream
      BY <1>2, <1>6, <2>1 DEF SessionRecords, States, ReturnLease
    <2>3. session' = [session EXCEPT ![i] = n]
      BY <1>2, <1>6, <2>1 DEF ReturnLease, HandlersInv, TuningTypeOK
    <2>4. Registered(i) => x.state # "stopped"
      BY <1>2, RegisteredUsed
    <2>. QED  BY <1>2, <2>2, <2>3, <2>4 DEF Stays, Ages
  <1>. QED  BY <1>3, <1>4, <1>5, <1>6

LEMMA HandleKeeps ==
    ASSUME HandlersInv, NEW r \in Requests, Handle(r), scenario' = scenario
    PROVE  HandlersInv'
  <1>. USE DEF Handle
  <1>0. /\ playback \in [Players -> Leases] /\ client \in [Requests -> ClientRecords]
        /\ sweep \in Streams \cup {None} /\ TuningTypeOK
    BY DEF HandlersInv, TuningTypeOK
  <1>1. CASE StartTune(r)
    <2>1. PICK h : StepOf(req[r], h, r) /\ PointsWell(h) /\ req' = [req EXCEPT ![r] = h]
      BY <1>1, StartTuneGoes
    <2>. QED  BY <1>0, <1>1, <2>1, HandlerOnly DEF StartTune
  <1>2. CASE StartRelease(r)
    <2>1. PICK h : StepOf(req[r], h, r) /\ PointsWell(h) /\ req' = [req EXCEPT ![r] = h]
      BY <1>2, StartReleaseGoes
    <2>2. playback' \in [Players -> Leases]
      <3>1. playback' = playback \/ playback' = [playback EXCEPT ![req[r].player] = None]
        BY <1>2, StartReleaseGoes
      <3>. QED  BY <1>0, <3>1, NoneApart
    <2>. QED  BY <1>0, <1>2, <2>1, <2>2, HandlerOnly DEF StartRelease
  <1>3. CASE Assess(r) \/ Count(r) \/ Await(r) \/ Acquire(r) \/ EnsureCapacity(r) \/ Unlock(r)
    <2>1. PICK h : StepOf(req[r], h, r) /\ PointsWell(h) /\ req' = [req EXCEPT ![r] = h]
      BY <1>3, CalmGoes DEF CalmStep
    <2>2. UNCHANGED <<registry, session, playback, client, sweep>>
      BY <1>3 DEF Assess, Count, Await, Acquire, EnsureCapacity, Unlock
    <2>. QED  BY <1>0, <2>1, <2>2, HandlerOnly
  <1>4. CASE Weigh(r)
    <2>1. PICK h : StepOf(req[r], h, r) /\ PointsWell(h) /\ req' = [req EXCEPT ![r] = h]
      BY <1>4, WeighGoes
    <2>2. playback' \in [Players -> Leases]
      <3>1. req[r].pc = "weigh"
        BY <1>4, WeighGoes
      <3>2. Lease(r) \in Leases
        BY <3>1, LeaseMade, NoneApart
      <3>3. playback' = playback \/ playback' = [playback EXCEPT ![req[r].player] = Lease(r)]
        BY <1>4, WeighGoes
      <3>. QED  BY <1>0, <3>2, <3>3
    <2>. QED  BY <1>0, <1>4, <2>1, <2>2, HandlerOnly DEF Weigh
  <1>5. CASE Detach(r)
    <2>1. PICK h : StepOf(req[r], h, r) /\ PointsWell(h) /\ req' = [req EXCEPT ![r] = h]
      BY <1>5, DetachGoes
    <2>2. client' \in [Requests -> ClientRecords]
      <3>1. client' = client \/ client' = Ended({req[r].prev.client})
        BY <1>5 DEF Detach
      <3>. QED  BY <1>0, <3>1, EndedFade DEF ClientsFade
    <2>. QED  BY <1>0, <1>5, <2>1, <2>2, HandlerOnly DEF Detach
  <1>6. CASE Halt(r) \/ (Reclaim(r) /\ StopCandidate(r)) \/ (Evict(r) /\ StopCandidate(r))
    <2>1. /\ \E h : CalmStep(req[r], h, r) /\ PointsWell(h) /\ req' = [req EXCEPT ![r] = h]
          /\ \E i \in Sessions : session[i].state # "unused" /\ StopSession(i)
      <3>1. CASE Halt(r)
        BY <3>1, HaltGoes
      <3>2. CASE StopCandidate(r) /\ (Reclaim(r) \/ Evict(r))
        BY <3>2, StopCandidateGoes DEF Reclaim, Evict, At
      <3>. QED  BY <1>6, <3>1, <3>2
    <2>2. PICK h : StepOf(req[r], h, r) /\ PointsWell(h) /\ req' = [req EXCEPT ![r] = h]
      BY <2>1 DEF CalmStep
    <2>3. PICK i \in Sessions : session[i].state # "unused" /\ StopSession(i)
      BY <2>1
    <2>4. PICK n : Stays(i, n) /\ session' = [session EXCEPT ![i] = n]
      BY <2>3, StopStays
    <2>5. client' \in [Requests -> ClientRecords]
      BY <2>3, StopStays DEF ClientsFade
    <2>6. UNCHANGED <<registry, playback, sweep>>
      BY <1>6 DEF Halt, StopCandidate
    <2>. QED  BY <1>0, <2>2, <2>4, <2>5, <2>6, HandlerAndSession
  <1>7. CASE (Reclaim(r) \/ Evict(r)) /\ ~StopCandidate(r)
    <2>1. PICK pc \in {"attach", "capacity"} : Move(r, pc)
      BY <1>7 DEF Reclaim, Evict, Reclaimed
    <2>2. UNCHANGED <<registry, session, playback, client, sweep>> /\ req[r].pc \in {"reclaim", "evict"}
      BY <1>7 DEF Reclaim, Evict, At
    <2>3. PICK h : StepOf(req[r], h, r) /\ PointsWell(h) /\ req' = [req EXCEPT ![r] = h]
      BY <2>1, <2>2, NextGoes DEF CalmStep
    <2>. QED  BY <1>0, <2>2, <2>3, HandlerOnly
  <1>8. CASE Attach(r)
    <2>1. /\ req[r].pc = "attach" /\ client' = client /\ sweep' = sweep
          /\ AttachReuses(r) \/ AttachCreates(r) \/ AttachRefuses(r)
      BY <1>8, AttachCases
    <2>2. playback' \in [Players -> Leases]
      <3>1. Moves(r) \/ TakenBack(r)
        BY <2>1 DEF AttachReuses, AttachCreates, AttachRefuses
      <3>. QED  BY <2>1, <3>1, LeasesTyped
    <2>3. CASE AttachReuses(r)
      <3>1. PICK h : StepOf(req[r], h, r) /\ PointsWell(h) /\ req' = [req EXCEPT ![r] = h]
        BY <2>1, <2>3, ReusesGoes
      <3>2. PICK i \in Sessions, n \in SessionRecords : Stays(i, n) /\ session' = [session EXCEPT ![i] = n]
        BY <2>1, <2>3, ReusesGoes DEF Stays, Ages
      <3>. QED  BY <1>0, <2>1, <2>2, <2>3, <3>1, <3>2, HandlerAndSession DEF AttachReuses
    <2>4. CASE AttachCreates(r)
      BY <2>1, <2>2, <2>4, CreatesGoes
    <2>5. CASE AttachRefuses(r)
      <3>1. PICK h : StepOf(req[r], h, r) /\ PointsWell(h) /\ req' = [req EXCEPT ![r] = h]
        BY <2>1, <2>5, RefusesGoes
      <3>. QED  BY <1>0, <2>1, <2>2, <2>5, <3>1, HandlerOnly DEF AttachRefuses
    <2>. QED  BY <2>1, <2>3, <2>4, <2>5
  <1>9. CASE Resolve(r)
    <2>1. PICK h : StepOf(req[r], h, r) /\ PointsWell(h) /\ req' = [req EXCEPT ![r] = h]
      BY <1>9, ResolveGoes
    <2>. QED  BY <1>0, <1>9, <2>1, HandlerOnly DEF Resolve
  <1>10. CASE Register(r)
    <2>1. PICK h : /\ StepOf(req[r], h, r) /\ PointsWell(h) /\ req' = [req EXCEPT ![r] = h]
                   /\ req[r].pc = "register" /\ h.pc = "end" /\ h.client = r
      BY <1>10, RegisterGoes
    <2>2. client' \in [Requests -> ClientRecords]
      BY <1>10, RegisterGoes
    <2>. QED  BY <1>0, <1>10, <2>1, <2>2, HandlerOnly DEF Register
  <1>. QED  BY <1>1, <1>2, <1>3, <1>4, <1>5, <1>6, <1>7, <1>8, <1>9, <1>10

LEMMA LeaveFade ==
    ASSUME TuningTypeOK, NEW c \in Requests, Leave(c)
    PROVE  ClientsFade
  <1>1. CASE client' = Ended({c})
    BY <1>1, EndedFade
  <1>2. CASE client' = [client EXCEPT ![c].status = "terminated"]
    <2>1. PICK x : x = [client[c] EXCEPT !.status = "terminated"]
      OBVIOUS
    <2>2. x \in ClientRecords /\ x.status = "terminated" /\ x.session = client[c].session
      BY <2>1 DEF TuningTypeOK, ClientRecords
    <2>3. client' = [client EXCEPT ![c] = x]
      BY <1>2, <2>1 DEF TuningTypeOK
    <2>4. client' \in [Requests -> ClientRecords] /\ client'[c] = x
          /\ \A b \in Requests : b # c => client'[b] = client[b]
      BY <2>2, <2>3 DEF TuningTypeOK
    <2>5. client[c].status = "active"
      BY DEF Leave
    <2>. QED  BY <2>2, <2>4, <2>5 DEF ClientsFade
  <1>. QED  BY <1>1, <1>2 DEF Leave

LEMMA HandlersNext ==
    ASSUME HandlersInv, [Next]_<<vars, scenario>>
    PROVE  HandlersInv'
  <1>0. /\ playback \in [Players -> Leases] /\ client \in [Requests -> ClientRecords]
        /\ sweep \in Streams \cup {None} /\ TuningTypeOK
    BY DEF HandlersInv, TuningTypeOK
  <1>1. ASSUME NEW r \in Requests, NEW p \in Players, NEW s \in Streams,
               NEW protocol \in scenario.protocols, NEW kind \in scenario.kinds,
               Arrive(r, p, s, protocol, kind), scenario' = scenario
        PROVE  HandlersInv'
    <2>1. PICK h : StepOf(req[r], h, r) /\ PointsWell(h) /\ req' = [req EXCEPT ![r] = h]
      BY <1>1, ArriveGoes
    <2>. QED  BY <1>0, <1>1, <2>1, HandlerOnly DEF Arrive
  <1>2. ASSUME NEW c \in Requests, Leave(c), scenario' = scenario
        PROVE  HandlersInv'
    BY <1>0, <1>2, LeaveFade, Standing DEF Leave, ClientsFade
  <1>3. ASSUME NEW i \in Sessions, Live(i), scenario' = scenario
        PROVE  HandlersInv'
    <2>1. CASE End(i)
      BY <1>3, <2>1, EndGoes
    <2>2. CASE Connect(i) \/ BecomeReady(i) \/ LoseSource(i) \/ ReturnLease(i)
      <3>1. PICK n : Stays(i, n) /\ session' = [session EXCEPT ![i] = n]
        BY <2>2, LiveGoes
      <3>2. UNCHANGED <<registry, playback, client, req, sweep>>
        BY <2>2 DEF Connect, BecomeReady, LoseSource, ReturnLease
      <3>. QED  BY <1>0, <1>3, <3>1, <3>2, SessionOnly
    <2>. QED  BY <1>3, <2>1, <2>2 DEF Live
  <1>4. ASSUME FindIdle, scenario' = scenario
        PROVE  HandlersInv'
    <2>1. sweep' \in Streams \cup {None}
      BY <1>4, RegisteredUsed DEF FindIdle
    <2>. QED  BY <1>0, <1>4, <2>1, Standing DEF FindIdle
  <1>5. ASSUME StopIdle, scenario' = scenario
        PROVE  HandlersInv'
    <2>1. PICK i : i = registry[sweep]
      OBVIOUS
    <2>2. CASE i # None
      <3>1. sweep \in Streams
        BY <1>0, <1>5 DEF StopIdle
      <3>2. i \in Sessions /\ session[i].state # "unused"
        BY <2>1, <2>2, <3>1 DEF HandlersInv, TuningTypeOK, SessionsRegistered
      <3>3. StopSession(i)
        BY <1>5, <2>1, <2>2 DEF StopIdle
      <3>4. PICK n : Stays(i, n) /\ session' = [session EXCEPT ![i] = n]
        BY <3>2, <3>3, StopStays
      <3>5. client' \in [Requests -> ClientRecords]
        BY <3>2, <3>3, StopStays DEF ClientsFade
      <3>6. sweep' = None
        BY <1>5 DEF StopIdle
      <3>. QED  BY <1>5, <3>2, <3>4, <3>5, <3>6, SessionOnly DEF StopIdle
    <2>3. CASE i = None
      BY <1>0, <1>5, <2>1, <2>3, Standing DEF StopIdle
    <2>. QED  BY <2>2, <2>3
  <1>6. ASSUME NEW p \in Players, PrunePlayback(p), scenario' = scenario
        PROVE  HandlersInv'
    <2>1. playback' \in [Players -> Leases]
      BY <1>0, <1>6, NoneApart DEF PrunePlayback
    <2>. QED  BY <1>0, <1>6, <2>1, Standing DEF PrunePlayback
  <1>7. CASE UNCHANGED <<vars, scenario>>
    BY <1>0, <1>7, Standing DEF vars
  <1>. QED  BY <1>1, <1>2, <1>3, <1>4, <1>5, <1>6, <1>7, HandleKeeps DEF Next

LEMMA HandlersStart == Init => HandlersInv
  <1>. SUFFICES ASSUME Init PROVE HandlersInv
    OBVIOUS
  <1>1. TuningTypeOK
    BY DEF Init, TuningTypeOK, Unused, NoViewer, Blank, SessionRecords, States, ClientRecords,
           HandlerRecords, Leases, Kinds, Protocols
  <1>2. HandlersShaped
    BY NoneApart DEF Init, HandlersShaped, HandlerShape, Blank, Searching, Emptying
  <1>3. SessionsRegistered
    BY DEF Init, SessionsRegistered, Unused
  <1>4. PointersGood
    BY DEF Init, PointersGood, PointsWell, Blank
  <1>5. RoomLeft
    <2>1. Used = {}
      BY DEF Init, Used, Unused
    <2>2. ServedRequests = {}
      BY DEF Init, ServedRequests, Served, Blank, Emptying
    <2>. QED  BY <2>1, <2>2, FS_EmptySet DEF RoomLeft
  <1>. QED  BY <1>1, <1>2, <1>3, <1>4, <1>5 DEF HandlersInv

(* Whatever its players do, a handler points to sessions that were made,   *)
(* the manager has each session at work under its stream, and no more      *)
(* sessions were made than requests were served.                           *)
THEOREM TuningTypes == Spec => []HandlersInv
  <1>1. HandlersInv /\ [Next]_<<vars, scenario>> => HandlersInv'
    BY HandlersNext
  <1>. QED  BY <1>1, HandlersStart, PTL DEF Spec

-----------------------------------------------------------------------------
(* Refusals *)

LEMMA HandleGoes ==
    ASSUME HandlersInv, NEW r \in Requests, Handle(r)
    PROVE  \E h : StepOf(req[r], h, r) /\ req[r].pc # "new" /\ req' = [req EXCEPT ![r] = h]
  <1>. USE DEF Handle
  <1>1. CASE StartTune(r)
    BY <1>1, StartTuneGoes
  <1>2. CASE StartRelease(r)
    BY <1>2, StartReleaseGoes
  <1>3. CASE Assess(r) \/ Count(r) \/ Await(r) \/ Acquire(r) \/ EnsureCapacity(r) \/ Unlock(r)
    BY <1>3, CalmGoes DEF CalmStep
  <1>4. CASE Weigh(r)
    BY <1>4, WeighGoes
  <1>5. CASE Detach(r)
    BY <1>5, DetachGoes
  <1>6. CASE Halt(r)
    BY <1>6, HaltGoes DEF CalmStep
  <1>7. CASE Reclaim(r) \/ Evict(r)
    <2>1. req[r].pc \in {"reclaim", "evict"}
      BY <1>7 DEF Reclaim, Evict, At
    <2>2. CASE StopCandidate(r)
      BY <2>1, <2>2, StopCandidateGoes DEF CalmStep
    <2>3. CASE ~StopCandidate(r)
      <3>1. PICK pc \in {"attach", "capacity"} : Move(r, pc)
        BY <1>7, <2>3 DEF Reclaim, Evict, Reclaimed
      <3>. QED  BY <2>1, <3>1, NextGoes DEF CalmStep
    <2>. QED  BY <2>2, <2>3
  <1>8. CASE Attach(r)
    <2>1. /\ req[r].pc = "attach"
          /\ AttachReuses(r) \/ AttachCreates(r) \/ AttachRefuses(r)
      BY <1>8, AttachCases
    <2>2. CASE AttachReuses(r)
      BY <2>1, <2>2, ReusesGoes
    <2>3. CASE AttachCreates(r)
      <3>1. PICK i : i = Fresh
        OBVIOUS
      <3>2. ~Served(req[r])
        BY <2>1 DEF Served, Emptying
      <3>3. i \in Sessions /\ Given(r, i)
        BY <2>3, <3>1, <3>2, FreshOne DEF AttachCreates
      <3>. QED  BY <2>1, <3>3, GivenGoes
    <2>4. CASE AttachRefuses(r)
      BY <2>1, <2>4, RefusesGoes
    <2>. QED  BY <2>1, <2>2, <2>3, <2>4
  <1>9. CASE Resolve(r)
    BY <1>9, ResolveGoes
  <1>10. CASE Register(r)
    <2>1. PICK h : /\ StepOf(req[r], h, r) /\ PointsWell(h) /\ req' = [req EXCEPT ![r] = h]
                   /\ req[r].pc = "register" /\ h.pc = "end" /\ h.client = r
      BY <1>10, RegisterGoes
    <2>. QED  BY <2>1
  <1>. QED  BY <1>1, <1>2, <1>3, <1>4, <1>5, <1>6, <1>7, <1>8, <1>9, <1>10

LEMMA RefusalKeeps ==
    ASSUME HandlersInv, Next, NEW r \in Requests, At(r, "attach"), req[r].plan # "handover",
           req'[r].session = None, req'[r].pc = "unlock"
    PROVE  playback' = playback
  <1>1. req[r].pc = "attach" /\ req' # req
    BY DEF At
  <1>2. ASSUME NEW q \in Requests, NEW h, q # r, req' = [req EXCEPT ![q] = h]
        PROVE  FALSE
    BY <1>1, <1>2 DEF HandlersInv, TuningTypeOK
  <1>3. CASE \E q \in Requests : Handle(q)
    <2>1. PICK q \in Requests : Handle(q)
      BY <1>3
    <2>2. q = r
      <3>1. PICK h : req' = [req EXCEPT ![q] = h]
        BY <2>1, HandleGoes
      <3>. QED  BY <1>2, <3>1
    <2>3. Attach(r)
      BY <1>1, <2>1, <2>2
         DEF Handle, At, StartTune, StartRelease, TakeStripe, Assess, Weigh, Detach, Count, Halt, Await,
             Acquire, Reclaim, EnsureCapacity, Evict, Unlock, Resolve, Register
    <2>4. AttachReuses(r) \/ AttachCreates(r) \/ AttachRefuses(r)
      BY <2>3, AttachCases
    <2>5. ASSUME NEW i \in Sessions, Given(r, i)
          PROVE  FALSE
      <3>1. PICK h : /\ req' = [req EXCEPT ![r] = h]
                     /\ \/ h.pc = "end"
                        \/ h.session = i
        BY <1>1, <2>5, GivenGoes
      <3>2. req'[r] = h
        BY <3>1 DEF HandlersInv, TuningTypeOK
      <3>. QED  BY <3>1, <3>2, NoneApart
    <2>6. CASE AttachReuses(r)
      <3>1. PICK i : i = registry[req[r].stream]
        OBVIOUS
      <3>2. i \in Sessions /\ Given(r, i)
        BY <1>1, <2>6, <3>1 DEF AttachReuses, HandlersInv, TuningTypeOK, HandlersShaped, HandlerShape
      <3>. QED  BY <2>5, <3>2
    <2>7. CASE AttachCreates(r)
      <3>1. PICK i : i = Fresh
        OBVIOUS
      <3>2. ~Served(req[r])
        BY <1>1 DEF Served, Emptying
      <3>3. i \in Sessions /\ Given(r, i)
        BY <2>7, <3>1, <3>2, FreshOne DEF AttachCreates
      <3>. QED  BY <2>5, <3>3
    <2>8. CASE AttachRefuses(r)
      BY <2>8 DEF AttachRefuses, TakenBack
    <2>. QED  BY <2>4, <2>6, <2>7, <2>8
  <1>4. ASSUME NEW q \in Requests, NEW p \in Players, NEW s \in Streams,
               NEW protocol \in scenario.protocols, NEW kind \in scenario.kinds,
               Arrive(q, p, s, protocol, kind)
        PROVE  FALSE
    <2>1. PICK h : req' = [req EXCEPT ![q] = h]
      BY <1>4, ArriveGoes
    <2>2. q # r
      BY <1>1, <1>4 DEF Arrive, At
    <2>. QED  BY <1>2, <2>1, <2>2
  <1>5. req' = req \/ (\E q \in Requests : Handle(q))
        \/ \E q \in Requests, p \in Players, s \in Streams :
             \E protocol \in scenario.protocols, kind \in scenario.kinds :
                Arrive(q, p, s, protocol, kind)
    BY DEF Next, Leave, Live, Connect, BecomeReady, LoseSource, End, ReturnLease, FindIdle, StopIdle,
           PrunePlayback
  <1>. QED  BY <1>1, <1>3, <1>4, <1>5

(* A tune that is refused under the manager's lock leaves the player's     *)
(* lease as it is, unless the lease had moved to make room.                *)
THEOREM RefusalsHarmless == Spec => RefusedTuneKeepsPlayback
  <1>1. HandlersInv /\ [Next]_<<vars, scenario>>
           => [\A r \in Requests :
                 (At(r, "attach") /\ req[r].plan # "handover" /\ req'[r].session = None
                    /\ req'[r].pc = "unlock")
                    => playback' = playback]_vars
    <2>. SUFFICES ASSUME HandlersInv, [Next]_<<vars, scenario>>, NEW r \in Requests, At(r, "attach"),
                         req[r].plan # "handover", req'[r].session = None, req'[r].pc = "unlock"
                  PROVE  playback' = playback \/ UNCHANGED vars
      OBVIOUS
    <2>1. CASE Next
      BY <2>1, RefusalKeeps
    <2>2. CASE UNCHANGED <<vars, scenario>>
      BY <2>2
    <2>. QED  BY <2>1, <2>2
  <1>. QED  BY <1>1, TuningTypes, PTL DEF Spec, RefusedTuneKeepsPlayback

-----------------------------------------------------------------------------
(* Whose connection is whose, for players that wait for their answers *)

LEMMA OneKept ==
    ASSUME HandlersInv, OneAtATime, NEW r \in Requests, NEW h, StepOf(req[r], h, r),
           req[r].pc # "new", req' = [req EXCEPT ![r] = h]
    PROVE  /\ OneAtATime'
           /\ \A q \in Requests : req'[q].player = req[q].player
           /\ \A q \in Requests : req[q].pc = "end" => req'[q] = req[q]
  <1>1. req'[r] = h /\ \A q \in Requests : q # r => req'[q] = req[q]
    BY HandlerGoes DEF HandlersInv
  <1>2. h.player = req[r].player /\ h.pc # "new" /\ req[r].pc # "end"
    BY DEF StepOf
  <1>3. \A q \in Requests : req'[q].player = req[q].player /\ (Answered(q) => Answered(q)')
    BY <1>1, <1>2 DEF Answered
  <1>4. OneAtATime'
    BY <1>3 DEF OneAtATime
  <1>. QED  BY <1>1, <1>2, <1>3, <1>4

LEMMA ClientsKept ==
    ASSUME HandlersInv, ClientsOfPlayer, NEW r \in Requests, NEW h, StepOf(req[r], h, r),
           req[r].pc # "new", req' = [req EXCEPT ![r] = h],
           \/ h.client \in {r, req[r].client}
           \/ playback[req[r].player] # None /\ h.client = playback[req[r].player].client,
           playback' \in [Players -> Leases],
           \A p \in Players : \/ playback'[p] \in {playback[p], None}
                              \/ p = req[r].player /\ playback'[p].client = r
    PROVE  ClientsOfPlayer'
  <1>1. req'[r] = h /\ \A q \in Requests : q # r => req'[q] = req[q]
    BY HandlerGoes DEF HandlersInv
  <1>2. h.player = req[r].player
    BY DEF StepOf
  <1>3. \A q \in Requests : req'[q].player = req[q].player
    BY <1>1, <1>2
  <1>4. \A q \in Requests : req[q].client \in Requests
    BY DEF HandlersInv, TuningTypeOK, HandlerRecords
  <1>5. req[r].player \in Players
    BY PlayersOwn
  <1>6. \A p \in Players : playback[p] # None => playback[p].client \in Requests
    BY DEF HandlersInv, TuningTypeOK, Leases
  <1>7. h.client \in Requests /\ req[h.client].player = req[r].player
    BY <1>4, <1>5, <1>6 DEF ClientsOfPlayer
  <1>8. \A q \in Requests : req'[req'[q].client].player = req'[q].player
    BY <1>1, <1>2, <1>3, <1>4, <1>7 DEF ClientsOfPlayer
  <1>9. ASSUME NEW p \in Players, playback'[p] # None
        PROVE  req'[playback'[p].client].player = p
    <2>1. CASE playback'[p] = playback[p]
      BY <1>3, <1>6, <1>9, <2>1 DEF ClientsOfPlayer
    <2>2. CASE p = req[r].player /\ playback'[p].client = r
      BY <1>3, <2>2
    <2>. QED  BY <1>9, <2>1, <2>2
  <1>. QED  BY <1>8, <1>9 DEF ClientsOfPlayer

LEMMA LeasesMove ==
    ASSUME HandlersInv, OneAtATime, LeasesKept, NEW r \in Requests, NEW h, StepOf(req[r], h, r),
           req[r].pc # "new", req' = [req EXCEPT ![r] = h],
           h.pc = "end" \/ LeaseGood(h, playback'[req[r].player]),
           \A p \in Players : p # req[r].player => playback'[p] = playback[p]
    PROVE  LeasesKept'
  <1>1. req'[r] = h /\ \A q \in Requests : q # r => req'[q] = req[q]
    BY HandlerGoes DEF HandlersInv
  <1>2. h.player = req[r].player /\ h.pc # "new" /\ req[r].pc # "end"
    BY DEF StepOf
  <1>3. SUFFICES ASSUME NEW q \in Requests, ~(req'[q].pc \in {"new", "end"})
                 PROVE  LeaseGood(req'[q], playback'[req'[q].player])
    BY DEF LeasesKept, Answered
  <1>4. CASE q = r
    BY <1>1, <1>2, <1>3, <1>4
  <1>5. CASE q # r
    <2>1. req'[q] = req[q] /\ ~Answered(q) /\ ~Answered(r)
      BY <1>1, <1>2, <1>3, <1>5 DEF Answered
    <2>2. req[q].player # req[r].player /\ LeaseGood(req[q], playback[req[q].player])
      BY <1>5, <2>1 DEF OneAtATime, LeasesKept
    <2>3. req[q].player \in Players
      BY <2>1, PlayersOwn DEF Answered
    <2>4. playback'[req[q].player] = playback[req[q].player]
      BY <2>2, <2>3
    <2>. QED  BY <2>1, <2>2, <2>4
  <1>. QED  BY <1>4, <1>5

(* The sessions that the registry has keep their streams.                  *)
StreamsStay ==
    \A s \in Streams : registry[s] # None =>
        session'[registry[s]].stream = session[registry[s]].stream

LEMMA ViewersRegisteredKept ==
    ASSUME HandlersInv, ViewersRegistered, ClientsFade,
           \A q \in Requests : req[q].pc = "end" => req'[q].pc = "end",
           \A c \in Requests : client'[c].status # "none" =>
              /\ session'[client[c].session].stream = session[client[c].session].stream
              /\ registry'[session[client[c].session].stream] = client[c].session
    PROVE  ViewersRegistered'
  BY DEF ViewersRegistered, ClientsFade

LEMMA ViewersStreams ==
    ASSUME HandlersInv, ViewersRegistered, StreamsStay, NEW c \in Requests, client[c].status # "none"
    PROVE  /\ session'[client[c].session].stream = session[client[c].session].stream
           /\ client[c].session # None
  BY DEF ViewersRegistered, StreamsStay

(* The lease of a viewer is still there, or one that is to be detached.    *)
LEMMA ViewersLeasedKept ==
    ASSUME HandlersInv, ViewersRegistered, ViewersLeased, ClientsFade,
           \A c \in Requests : client'[c].status # "none" =>
              session'[client[c].session].stream = session[client[c].session].stream,
           \A q \in Requests : req[q].pc = "end" => req'[q] = req[q],
           \A c, q \in Requests : client'[c].status = "active" /\ Detaching(q, c) => req'[q] = req[q],
           \A c \in Requests :
              client'[c].status = "active" /\ req[c].pc = "end"
                 /\ LeaseOf(playback[req[c].player], c, client[c].session)
              => \/ LeaseOf(playback'[req[c].player], c, client[c].session)
                 \/ \E q \in Requests : /\ req'[q].pc = "detach" /\ req'[q].player = req[c].player
                                        /\ LeaseOf(req'[q].prev, c, client[c].session)
    PROVE  ViewersLeased'
  <1>. SUFFICES ASSUME NEW c \in Requests, client'[c].status = "active"
                PROVE  \/ LeaseOf(playback[req[c].player], c, client[c].session)'
                       \/ \E q \in Requests : Detaching(q, c)'
    BY DEF ViewersLeased
  <1>1. /\ client[c].status = "active" /\ client'[c].session = client[c].session
        /\ req[c].pc = "end" /\ req'[c] = req[c]
        /\ session'[client[c].session].stream = session[client[c].session].stream
    BY DEF ClientsFade, ViewersRegistered
  <1>2. ASSUME NEW l, LeaseOf(l, c, client[c].session)
        PROVE  l # None /\ l.client = c /\ l.stream = session'[client'[c].session].stream
    BY <1>1, <1>2 DEF LeaseOf
  <1>3. CASE LeaseOf(playback'[req[c].player], c, client[c].session)
    BY <1>1, <1>2, <1>3 DEF LeaseOf
  <1>4. CASE \E q \in Requests : /\ req'[q].pc = "detach" /\ req'[q].player = req[c].player
                                 /\ LeaseOf(req'[q].prev, c, client[c].session)
    BY <1>1, <1>2, <1>4 DEF LeaseOf, Detaching
  <1>5. CASE \E q \in Requests : Detaching(q, c)
    <2>1. PICK q \in Requests : Detaching(q, c)
      BY <1>5
    <2>2. req'[q] = req[q]
      BY <2>1
    <2>. QED  BY <1>1, <2>1, <2>2 DEF Detaching, LeaseOf
  <1>6. LeaseOf(playback[req[c].player], c, client[c].session) \/ \E q \in Requests : Detaching(q, c)
    BY <1>1 DEF ViewersLeased
  <1>. QED  BY <1>1, <1>3, <1>4, <1>5, <1>6

LEMMA SameRegistered ==
    ASSUME HandlersInv, ViewersRegistered, ClientsFade, StreamsStay,
           \A s \in Streams : registry[s] # None => registry'[s] = registry[s]
    PROVE  \A c \in Requests : client'[c].status # "none" =>
              /\ session'[client[c].session].stream = session[client[c].session].stream
              /\ registry'[session[client[c].session].stream] = client[c].session
  BY ViewersStreams DEF ViewersRegistered, ClientsFade

LEMMA StillKeeps ==
    ASSUME TuningInv, HandlersInv', NEW r \in Requests, NEW h, StepOf(req[r], h, r),
           req[r].pc \notin {"new", "detach"}, req' = [req EXCEPT ![r] = h],
           \/ h.client \in {r, req[r].client}
           \/ playback[req[r].player] # None /\ h.client = playback[req[r].player].client,
           h.pc = "end" \/ LeaseGood(h, playback[req[r].player]),
           playback' = playback, ClientsFade, StreamsStay,
           \A s \in Streams : registry[s] # None => registry'[s] = registry[s]
    PROVE  TuningInv'
  <1>1. /\ OneAtATime'
        /\ \A q \in Requests : req[q].pc = "end" => req'[q] = req[q]
    BY OneKept DEF TuningInv
  <1>2. playback \in [Players -> Leases]
    BY DEF TuningInv, HandlersInv, TuningTypeOK
  <1>3. ClientsOfPlayer'
    BY <1>2, ClientsKept DEF TuningInv
  <1>4. LeasesKept'
    BY LeasesMove DEF TuningInv
  <1>5. \A c \in Requests : client'[c].status # "none" =>
           /\ session'[client[c].session].stream = session[client[c].session].stream
           /\ registry'[session[client[c].session].stream] = client[c].session
    BY SameRegistered DEF TuningInv
  <1>6. ViewersRegistered'
    BY <1>1, <1>5, ViewersRegisteredKept DEF TuningInv
  <1>7. ViewersLeased'
    <2>1. \A q \in Requests : q # r => req'[q] = req[q]
      BY HandlerGoes DEF TuningInv, HandlersInv
    <2>2. \A c, q \in Requests : client'[c].status = "active" /\ Detaching(q, c) => req'[q] = req[q]
      BY <2>1 DEF Detaching
    <2>. QED  BY <1>1, <1>5, <2>2, ViewersLeasedKept DEF TuningInv
  <1>. QED  BY <1>1, <1>3, <1>4, <1>6, <1>7 DEF TuningInv

LEMMA CalmKeeps ==
    ASSUME TuningInv, HandlersInv', NEW r \in Requests, NEW h, CalmStep(req[r], h, r),
           req' = [req EXCEPT ![r] = h],
           playback' = playback, registry' = registry, ClientsFade, StreamsStay
    PROVE  TuningInv'
  <1>1. StepOf(req[r], h, r) /\ req[r].pc \notin {"new", "detach", "end"}
        /\ h.client \in {r, req[r].client}
    BY DEF CalmStep, StepOf, Carries, Keeps
  <1>2. CASE h.pc = "end"
    BY <1>1, <1>2, StillKeeps
  <1>3. CASE h.pc # "end"
    <2>1. Carries(req[r], h) /\ (req[r].pc = "unlock" => h.session # None)
      BY <1>3 DEF CalmStep
    <2>2. LeaseGood(req[r], playback[req[r].player])
      BY <1>1 DEF TuningInv, LeasesKept, Answered
    <2>3. Served(req[r]) => Served(h)
      BY <1>1 DEF StepOf
    <2>4. LeaseGood(h, playback[req[r].player])
      BY <2>1, <2>2, <2>3 DEF LeaseGood, LeaseHeld, Carries, Keeps
    <2>. QED  BY <1>1, <2>4, StillKeeps
  <1>. QED  BY <1>2, <1>3

(* A handler moves the lease l to its player, and has the former one still *)
(* to detach, if there is one whose viewer might be watching.              *)
LEMMA MoveKeeps ==
    ASSUME TuningInv, HandlersInv', NEW r \in Requests, NEW h, StepOf(req[r], h, r),
           req[r].pc \notin {"new", "detach"}, req' = [req EXCEPT ![r] = h],
           h.client \in {r, req[r].client}, NEW l \in Leases,
           playback' = [playback EXCEPT ![req[r].player] = l], l = None \/ l.client = r,
           LeaseGood(h, l),
           LET old == playback[req[r].player]
           IN  old = None \/ old.client = r \/ (h.pc = "detach" /\ h.prev = old),
           StreamsStay, client' = client,
           \A s \in Streams : registry[s] # None => registry'[s] = registry[s]
    PROVE  TuningInv'
  <1>0. PICK p \in Players : p = req[r].player
    BY PlayersOwn DEF TuningInv
  <1>1. /\ OneAtATime'
        /\ \A q \in Requests : req'[q].player = req[q].player
        /\ \A q \in Requests : req[q].pc = "end" => req'[q] = req[q]
    BY OneKept DEF TuningInv
  <1>2. playback' \in [Players -> Leases] /\ playback'[p] = l
        /\ \A o \in Players : o # p => playback'[o] = playback[o]
    BY <1>0 DEF TuningInv, HandlersInv, TuningTypeOK
  <1>3. ClientsOfPlayer'
    <2>1. \A o \in Players : \/ playback'[o] \in {playback[o], None}
                             \/ o = req[r].player /\ playback'[o].client = r
      BY <1>0, <1>2
    <2>. QED  BY <1>2, <2>1, ClientsKept DEF TuningInv
  <1>4. LeasesKept'
    <2>1. LeaseGood(h, playback'[req[r].player])
      BY <1>0, <1>2
    <2>. QED  BY <1>0, <1>2, <2>1, LeasesMove DEF TuningInv
  <1>5. ClientsFade
    BY UnchangedFade DEF TuningInv, HandlersInv
  <1>6. \A c \in Requests : client'[c].status # "none" =>
           /\ session'[client[c].session].stream = session[client[c].session].stream
           /\ registry'[session[client[c].session].stream] = client[c].session
    BY <1>5, SameRegistered DEF TuningInv
  <1>7. ViewersRegistered'
    BY <1>1, <1>5, <1>6, ViewersRegisteredKept DEF TuningInv
  <1>8. req'[r] = h /\ \A q \in Requests : q # r => req'[q] = req[q]
    BY HandlerGoes DEF TuningInv, HandlersInv
  <1>9. \A c, q \in Requests : client'[c].status = "active" /\ Detaching(q, c) => req'[q] = req[q]
    BY <1>8 DEF Detaching
  <1>10. ASSUME NEW c \in Requests, client'[c].status = "active", req[c].pc = "end",
                LeaseOf(playback[req[c].player], c, client[c].session)
         PROVE  \/ LeaseOf(playback'[req[c].player], c, client[c].session)
                \/ \E q \in Requests : /\ req'[q].pc = "detach" /\ req'[q].player = req[c].player
                                       /\ LeaseOf(req'[q].prev, c, client[c].session)
    <2>1. req[c].player \in Players
      BY <1>10, PlayersOwn DEF TuningInv
    <2>2. CASE req[c].player # p
      BY <1>2, <1>10, <2>1, <2>2
    <2>3. CASE req[c].player = p
      <3>1. playback[p] # None /\ playback[p].client = c /\ c # r
        BY <1>10, <2>3 DEF LeaseOf, StepOf
      <3>2. h.pc = "detach" /\ h.prev = playback[p]
        BY <1>0, <3>1
      <3>3. req'[r].pc = "detach" /\ req'[r].player = req[c].player /\ req'[r].prev = playback[req[c].player]
        BY <1>0, <1>1, <1>8, <2>3, <3>2
      <3>. QED  BY <1>10, <3>3
    <2>. QED  BY <2>2, <2>3
  <1>11. ViewersLeased'
    BY <1>1, <1>5, <1>6, <1>9, <1>10, ViewersLeasedKept DEF TuningInv
  <1>. QED  BY <1>1, <1>3, <1>4, <1>7, <1>11 DEF TuningInv

LEMMA SameStreams ==
    ASSUME session' = session
    PROVE  StreamsStay
  BY DEF StreamsStay

LEMMA StaysStreams ==
    ASSUME HandlersInv, NEW i \in Sessions, NEW n, Stays(i, n), registry' = registry,
           session' = [session EXCEPT ![i] = n]
    PROVE  StreamsStay
  BY SessionGoes DEF HandlersInv, StreamsStay

LEMMA DetachKeeps ==
    ASSUME TuningInv, HandlersInv', NEW r \in Requests, Detach(r)
    PROVE  TuningInv'
  <1>1. PICK h : /\ StepOf(req[r], h, r) /\ PointsWell(h) /\ req' = [req EXCEPT ![r] = h]
                 /\ req[r].pc = "detach" /\ h.pc \in {"count", "acquire", "unlock"}
                 /\ Carries(req[r], h) /\ (h.pc = "unlock" => h.plan # "handover")
    BY DetachGoes DEF TuningInv
  <1>2. registry' = registry /\ session' = session /\ playback' = playback
    BY DEF Detach
  <1>3. /\ OneAtATime'
        /\ \A q \in Requests : req[q].pc = "end" => req'[q] = req[q]
    BY <1>1, OneKept DEF TuningInv
  <1>4. ClientsOfPlayer'
    <2>1. playback \in [Players -> Leases] /\ h.client = req[r].client
      BY <1>1 DEF TuningInv, HandlersInv, TuningTypeOK, Carries, Keeps
    <2>. QED  BY <1>1, <1>2, <2>1, ClientsKept DEF TuningInv
  <1>5. LeasesKept'
    <2>1. LeaseGood(req[r], playback[req[r].player])
      BY <1>1 DEF TuningInv, LeasesKept, Answered
    <2>2. Served(req[r]) => Served(h)
      BY <1>1 DEF StepOf
    <2>3. LeaseGood(h, playback[req[r].player])
      BY <1>1, <2>1, <2>2 DEF LeaseGood, LeaseHeld, Carries, Keeps
    <2>. QED  BY <1>1, <1>2, <2>3, LeasesMove DEF TuningInv
  <1>6. PICK i, c : i = registry[req[r].prev.stream] /\ c = req[r].prev.client
    OBVIOUS
  <1>7. client' = IF i # None /\ c \in Viewers(i) THEN Ended({c}) ELSE client
    BY <1>6 DEF Detach
  <1>8. ClientsFade
    BY <1>7, EndedFade, UnchangedFade DEF TuningInv, HandlersInv
  <1>9. \A b \in Requests : client'[b].status # "none" =>
           /\ session'[client[b].session].stream = session[client[b].session].stream
           /\ registry'[session[client[b].session].stream] = client[b].session
    BY <1>2, <1>8, SameStreams, SameRegistered DEF TuningInv
  <1>10. ViewersRegistered'
    BY <1>3, <1>8, <1>9, ViewersRegisteredKept DEF TuningInv
  <1>11. ASSUME NEW b \in Requests, client'[b].status = "active", Detaching(r, b)
         PROVE  FALSE
    <2>1. /\ client[b].status = "active" /\ client[b].session # None
          /\ registry[session[client[b].session].stream] = client[b].session
      BY <1>8, <1>11 DEF ClientsFade, TuningInv, ViewersRegistered
    <2>2. c = b /\ i = client[b].session
      BY <1>6, <1>11, <2>1 DEF Detaching, LeaseOf
    <2>3. c \in Viewers(i) /\ i # None
      BY <2>1, <2>2 DEF Viewers
    <2>4. client' = Ended({c})
      BY <1>7, <2>3
    <2>. QED  BY <1>11, <2>2, <2>4, EndedFade DEF TuningInv, HandlersInv
  <1>12. \A q \in Requests : q # r => req'[q] = req[q]
    BY <1>1, HandlerGoes DEF TuningInv, HandlersInv
  <1>13. ViewersLeased'
    BY <1>2, <1>3, <1>8, <1>9, <1>11, <1>12, ViewersLeasedKept DEF TuningInv
  <1>. QED  BY <1>3, <1>4, <1>5, <1>10, <1>13 DEF TuningInv

LEMMA RegisterKeeps ==
    ASSUME TuningInv, HandlersInv', NEW r \in Requests, Register(r)
    PROVE  TuningInv'
  <1>1. PICK h : /\ StepOf(req[r], h, r) /\ PointsWell(h) /\ req' = [req EXCEPT ![r] = h]
                 /\ req[r].pc = "register" /\ h.pc = "end" /\ h.client = r
    BY RegisterGoes DEF TuningInv
  <1>2. registry' = registry /\ session' = session /\ playback' = playback
    BY DEF Register
  <1>3. CASE client' = client
    <2>1. ClientsFade /\ StreamsStay
      BY <1>2, <1>3, UnchangedFade, SameStreams DEF TuningInv, HandlersInv
    <2>. QED  BY <1>1, <1>2, <2>1, StillKeeps
  <1>4. CASE /\ ~Closing(req[r].session) /\ session[req[r].session].state # "failed"
             /\ client' = [client EXCEPT ![req[r].client] = [status |-> "active",
                                                             session |-> req[r].session]]
    <2>1. PICK i, c, p : i = req[r].session /\ c = req[r].client /\ p = req[r].player
      OBVIOUS
    <2>2. /\ req[r] \in HandlerRecords /\ HandlerShape(req[r], r) /\ PointsWell(req[r])
          /\ LeaseGood(req[r], playback[p]) /\ p \in Players
      BY <1>1, <2>1, PlayersOwn DEF TuningInv, HandlersInv, TuningTypeOK, HandlersShaped,
                                    PointersGood, LeasesKept, Answered
    <2>3. i \in Sessions /\ i # None /\ c \in Requests
      BY <1>1, <2>1, <2>2, NoneApart DEF HandlerRecords, HandlerShape
    <2>4. session[i].state \in {"starting", "running"} /\ session[i].stream = req[r].stream
      <3>1. session[i].state \in States /\ session[i].state # "unused"
        BY <2>1, <2>2, <2>3 DEF TuningInv, HandlersInv, TuningTypeOK, SessionRecords, PointsWell
      <3>2. session[i].state \in {"starting", "running"}
        BY <1>4, <2>1, <3>1 DEF Closing, States
      <3>. QED  BY <2>1, <2>2, <2>3, <3>2 DEF PointsWell
    <2>5. session[i].stream \in Streams /\ registry[session[i].stream] = i
      BY <2>3, <2>4 DEF TuningInv, HandlersInv, SessionsRegistered
    <2>6. req[c].player = p
      BY <2>1 DEF TuningInv, ClientsOfPlayer
    <2>7. playback[p] # None /\ playback[p].client = c /\ playback[p].stream = session[i].stream
      BY <2>1, <2>2, <2>3, <2>4 DEF LeaseGood, LeaseHeld
    <2>8. req'[r] = h /\ \A q \in Requests : q # r => req'[q] = req[q]
      BY <1>1, HandlerGoes DEF TuningInv, HandlersInv
    <2>9. /\ OneAtATime'
          /\ \A q \in Requests : req'[q].player = req[q].player
          /\ \A q \in Requests : req[q].pc = "end" => req'[q] = req[q]
      BY <1>1, OneKept DEF TuningInv
    <2>10. req'[c].pc = "end"
      <3>1. CASE c = r
        BY <1>1, <2>8, <3>1
      <3>2. CASE c # r
        <4>1. Answered(c)
          BY <1>1, <2>1, <2>3, <2>6, <3>2 DEF TuningInv, OneAtATime, Answered
        <4>2. req[c].pc # "new"
          BY <2>2, <2>3, <2>6, NoneApart DEF TuningInv, HandlersInv, HandlersShaped, HandlerShape
        <4>. QED  BY <2>3, <2>8, <3>2, <4>1, <4>2 DEF Answered
      <3>. QED  BY <3>1, <3>2
    <2>11. ClientsOfPlayer'
      <3>1. playback \in [Players -> Leases]
        BY DEF TuningInv, HandlersInv, TuningTypeOK
      <3>. QED  BY <1>1, <1>2, <3>1, ClientsKept DEF TuningInv
    <2>12. LeasesKept'
      BY <1>1, <1>2, LeasesMove DEF TuningInv
    <2>13. /\ client'[c] = [status |-> "active", session |-> i]
           /\ \A b \in Requests : b # c => client'[b] = client[b]
      BY <1>4, <2>1, <2>3 DEF TuningInv, HandlersInv, TuningTypeOK
    <2>14. ViewersRegistered'
      <3>. SUFFICES ASSUME NEW b \in Requests, client'[b].status # "none"
                    PROVE  /\ client'[b].session # None
                           /\ session[client'[b].session].stream \in Streams
                           /\ registry[session[client'[b].session].stream] = client'[b].session
                           /\ req'[b].pc = "end"
        BY <1>2 DEF ViewersRegistered
      <3>1. CASE b = c
        BY <2>3, <2>5, <2>10, <2>13, <3>1
      <3>2. CASE b # c
        BY <2>9, <2>13, <3>2 DEF TuningInv, ViewersRegistered
      <3>. QED  BY <3>1, <3>2
    <2>15. ViewersLeased'
      <3>. SUFFICES ASSUME NEW b \in Requests, client'[b].status = "active"
                    PROVE  \/ LeaseOf(playback[req[b].player], b, client[b].session)'
                           \/ \E q \in Requests : Detaching(q, b)'
        BY DEF ViewersLeased
      <3>1. CASE b = c
        BY <1>2, <2>6, <2>7, <2>9, <2>13, <3>1 DEF LeaseOf
      <3>2. CASE b # c
        <4>1. client'[b] = client[b] /\ req'[b].player = req[b].player
          BY <2>9, <2>13, <3>2
        <4>2. CASE LeaseOf(playback[req[b].player], b, client[b].session)
          BY <1>2, <4>1, <4>2 DEF LeaseOf
        <4>3. CASE \E q \in Requests : Detaching(q, b)
          <5>1. PICK q \in Requests : Detaching(q, b)
            BY <4>3
          <5>2. req'[q] = req[q]
            BY <1>1, <2>8, <5>1 DEF Detaching
          <5>. QED  BY <1>2, <4>1, <5>1, <5>2 DEF Detaching, LeaseOf
        <4>. QED  BY <4>1, <4>2, <4>3 DEF TuningInv, ViewersLeased
      <3>. QED  BY <3>1, <3>2
    <2>. QED  BY <2>9, <2>11, <2>12, <2>14, <2>15 DEF TuningInv
  <1>. QED  BY <1>3, <1>4, RegisterGoes DEF TuningInv

LEMMA StartReleaseKeeps ==
    ASSUME TuningInv, HandlersInv', NEW r \in Requests, StartRelease(r)
    PROVE  TuningInv'
  <1>1. PICK h : /\ StepOf(req[r], h, r) /\ PointsWell(h) /\ req' = [req EXCEPT ![r] = h]
                 /\ req[r].pc = "lock" /\ h.plan = "release" /\ h.client = r
                 /\ h.prev = playback[req[r].player] /\ h.session = None
                 /\ \/ h.pc = "unlock" /\ playback' = playback
                    \/ h.pc = "detach" /\ playback' = [playback EXCEPT ![req[r].player] = None]
    BY StartReleaseGoes DEF TuningInv
  <1>2. registry' = registry /\ client' = client /\ session' = session
    BY DEF StartRelease
  <1>3. StreamsStay /\ ClientsFade
    BY <1>2, SameStreams, UnchangedFade DEF TuningInv, HandlersInv
  <1>4. \A l : LeaseGood(h, l)
    BY <1>1 DEF LeaseGood
  <1>5. CASE playback' = playback
    BY <1>1, <1>2, <1>3, <1>4, <1>5, StillKeeps
  <1>6. CASE h.pc = "detach" /\ playback' = [playback EXCEPT ![req[r].player] = None]
    <2>1. PICK l \in Leases : l = None
      BY NoneApart
    <2>. QED  BY <1>1, <1>2, <1>3, <1>4, <1>6, <2>1, MoveKeeps
  <1>. QED  BY <1>1, <1>5, <1>6

LEMMA WeighKeeps ==
    ASSUME TuningInv, HandlersInv', NEW r \in Requests, Weigh(r)
    PROVE  TuningInv'
  <1>1. PICK h : /\ StepOf(req[r], h, r) /\ PointsWell(h) /\ req' = [req EXCEPT ![r] = h]
                 /\ req[r].pc = "weigh" /\ req[r].plan = "replace"
                 /\ Keeps(req[r], h)
                 /\ \/ h.plan = "replace" /\ h.pc = "acquire" /\ playback' = playback
                    \/ /\ h.plan = "handover" /\ h.pc = "detach" /\ h.session = None
                       /\ playback' = [playback EXCEPT ![req[r].player] = Lease(r)]
    BY WeighGoes DEF TuningInv
  <1>2. registry' = registry /\ client' = client /\ session' = session
    BY DEF Weigh
  <1>3. StreamsStay /\ ClientsFade
    BY <1>2, SameStreams, UnchangedFade DEF TuningInv, HandlersInv
  <1>4. req[r].client = r /\ h.client = r /\ h.stream = req[r].stream /\ h.prev = req[r].prev
        /\ req[r].session = None /\ h.session = None
    BY <1>1 DEF TuningInv, HandlersInv, HandlersShaped, HandlerShape, Keeps
  <1>5. playback[req[r].player] = None \/ playback[req[r].player] = req[r].prev
    <2>1. ~Served(req[r]) /\ LeaseGood(req[r], playback[req[r].player])
      BY <1>1 DEF Served, Emptying, TuningInv, LeasesKept, Answered
    <2>. QED  BY <1>1, <2>1 DEF LeaseGood
  <1>6. CASE h.plan = "replace" /\ h.pc = "acquire" /\ playback' = playback
    <2>1. LeaseGood(h, playback[req[r].player])
      BY <1>4, <1>5, <1>6 DEF LeaseGood
    <2>. QED  BY <1>1, <1>2, <1>3, <1>4, <1>6, <2>1, StillKeeps
  <1>7. CASE /\ h.plan = "handover" /\ h.pc = "detach" /\ h.session = None
             /\ playback' = [playback EXCEPT ![req[r].player] = Lease(r)]
    <2>1. PICK l \in Leases : l = Lease(r) /\ l # None /\ l.client = r /\ l.stream = req[r].stream
      BY <1>1, LeaseMade, NoneApart DEF TuningInv
    <2>2. LeaseGood(h, l)
      BY <1>4, <1>7, <2>1 DEF LeaseGood, LeaseHeld
    <2>3. PICK old : old = playback[req[r].player]
      OBVIOUS
    <2>4. old = None \/ (h.pc = "detach" /\ h.prev = old)
      BY <1>4, <1>5, <1>7, <2>3
    <2>. QED  BY <1>1, <1>2, <1>3, <1>4, <1>7, <2>1, <2>2, <2>3, <2>4, MoveKeeps
  <1>. QED  BY <1>1, <1>6, <1>7

LEMMA StartTuneKeeps ==
    ASSUME TuningInv, HandlersInv', NEW r \in Requests, StartTune(r)
    PROVE  TuningInv'
  <1>1. PICK h : /\ StepOf(req[r], h, r) /\ PointsWell(h) /\ req' = [req EXCEPT ![r] = h]
                 /\ req[r].pc = "lock" /\ h.prev = playback[req[r].player] /\ h.session = None
                 /\ \/ h.plan \in {"store", "replace"} /\ h.client = r
                    \/ /\ h.plan = "reload" /\ h.prev # None /\ h.client = h.prev.client
                       /\ h.prev.stream = h.stream
    BY StartTuneGoes DEF TuningInv
  <1>2. registry' = registry /\ client' = client /\ session' = session /\ playback' = playback
    BY DEF StartTune
  <1>3. StreamsStay /\ ClientsFade
    BY <1>2, SameStreams, UnchangedFade DEF TuningInv, HandlersInv
  <1>4. LeaseGood(h, playback[req[r].player])
    BY <1>1 DEF LeaseGood, LeaseHeld
  <1>. QED  BY <1>1, <1>2, <1>3, <1>4, StillKeeps

LEMMA ResolveKeeps ==
    ASSUME TuningInv, HandlersInv', NEW r \in Requests, Resolve(r)
    PROVE  TuningInv'
  <1>1. PICK h : /\ StepOf(req[r], h, r) /\ PointsWell(h) /\ req' = [req EXCEPT ![r] = h]
                 /\ req[r].pc = "resolve"
                 /\ \/ h.pc = "end" /\ h.client = r
                    \/ /\ h.plan = "none"
                       /\ LeaseHeld(h, playback[req[r].player])
                       /\ h.client = playback[req[r].player].client
    BY ResolveGoes DEF TuningInv
  <1>2. registry' = registry /\ client' = client /\ session' = session /\ playback' = playback
    BY DEF Resolve
  <1>3. StreamsStay /\ ClientsFade
    BY <1>2, SameStreams, UnchangedFade DEF TuningInv, HandlersInv
  <1>4. h.pc = "end" \/ LeaseGood(h, playback[req[r].player])
    BY <1>1 DEF LeaseGood
  <1>. QED  BY <1>1, <1>2, <1>3, <1>4, StillKeeps DEF LeaseHeld

(* A handler with the lock was given a session: its lease moves.           *)
LEMMA GivenKeeps ==
    ASSUME TuningInv, HandlersInv', NEW r \in Requests, NEW h, NEW i \in Sessions,
           req[r].pc = "attach", StepOf(req[r], h, r), req' = [req EXCEPT ![r] = h],
           GivenStep(req[r], h, r, i), Moves(r), StreamsStay, client' = client,
           \A s \in Streams : registry[s] # None => registry'[s] = registry[s]
    PROVE  TuningInv'
  <1>1. ClientsFade
    BY UnchangedFade DEF TuningInv, HandlersInv
  <1>2. PICK old : old = playback[req[r].player]
    OBVIOUS
  <1>3. HandlerShape(req[r], r) /\ LeaseGood(req[r], old) /\ ~Served(req[r])
    BY <1>2 DEF TuningInv, HandlersInv, HandlersShaped, LeasesKept, Answered, Served, Emptying
  <1>4. CASE req[r].plan = "prewarm"
    <2>1. playback' = playback /\ h.pc = "end" /\ h.client = r
      BY <1>4 DEF Moves, GivenStep
    <2>. QED  BY <1>1, <2>1, StillKeeps
  <1>5. CASE req[r].plan \in {"reload", "handover"}
    <2>1. playback' = playback /\ h.client = req[r].client /\ h.plan = req[r].plan
          /\ h.stream = req[r].stream
      BY <1>5 DEF Moves, GivenStep
    <2>2. LeaseHeld(req[r], old)
      BY <1>3, <1>5 DEF LeaseGood
    <2>3. LeaseGood(h, old)
      BY <1>5, <2>1, <2>2 DEF LeaseGood, LeaseHeld
    <2>. QED  BY <1>1, <1>2, <2>1, <2>3, StillKeeps
  <1>6. CASE req[r].plan \in {"store", "replace"}
    <2>1. playback' = [playback EXCEPT ![req[r].player] = Lease(r)]
      BY <1>6 DEF Moves
    <2>2. /\ h.client = r /\ h.plan = req[r].plan /\ h.stream = req[r].stream /\ h.prev = req[r].prev
          /\ req[r].client = r
          /\ h.pc = IF req[r].plan = "replace" THEN "detach" ELSE "unlock"
      BY <1>3, <1>6 DEF GivenStep, HandlerShape
    <2>3. PICK l \in Leases : l = Lease(r) /\ l # None /\ l.client = r /\ l.stream = req[r].stream
      BY LeaseMade, NoneApart DEF TuningInv
    <2>4. LeaseGood(h, l)
      <3>1. Served(h)
        BY <1>6, <2>2 DEF Served, Emptying
      <3>. QED  BY <2>2, <2>3, <3>1 DEF LeaseGood, LeaseHeld
    <2>5. old = None \/ old = req[r].prev
      BY <1>3, <1>6 DEF LeaseGood
    <2>6. old = None \/ (h.pc = "detach" /\ h.prev = old)
      BY <1>3, <1>6, <2>2, <2>5 DEF HandlerShape
    <2>. QED  BY <1>2, <2>1, <2>2, <2>3, <2>4, <2>6, MoveKeeps
  <1>7. req[r].plan \in {"store", "replace", "reload", "handover", "prewarm"}
    BY <1>3 DEF HandlerShape, Searching
  <1>. QED  BY <1>4, <1>5, <1>6, <1>7

LEMMA AttachKeeps ==
    ASSUME TuningInv, HandlersInv', NEW r \in Requests, Attach(r), scenario' = scenario
    PROVE  TuningInv'
  <1>1. /\ req[r].pc = "attach" /\ client' = client /\ sweep' = sweep
        /\ AttachReuses(r) \/ AttachCreates(r) \/ AttachRefuses(r)
    BY AttachCases
  <1>2. CASE AttachReuses(r)
    <2>1. Moves(r) /\ registry' = registry
      BY <1>2 DEF AttachReuses
    <2>2. PICK i \in Sessions, n \in SessionRecords : Stays(i, n) /\ session' = [session EXCEPT ![i] = n]
      BY <1>1, <1>2, ReusesGoes DEF TuningInv, Stays, Ages
    <2>3. StreamsStay
      BY <2>1, <2>2, StaysStreams DEF TuningInv
    <2>4. PICK h, j : /\ StepOf(req[r], h, r) /\ PointsWell(h) /\ req' = [req EXCEPT ![r] = h]
                      /\ GivenStep(req[r], h, r, j) /\ j \in Sessions
      BY <1>1, <1>2, ReusesGoes DEF TuningInv
    <2>. QED  BY <1>1, <2>1, <2>3, <2>4, GivenKeeps
  <1>3. CASE AttachCreates(r)
    <2>1. Moves(r)
      BY <1>3 DEF AttachCreates
    <2>2. playback' \in [Players -> Leases]
      BY <1>1, <2>1, LeasesTyped DEF TuningInv
    <2>3. /\ \E h, i : /\ StepOf(req[r], h, r) /\ req' = [req EXCEPT ![r] = h]
                       /\ GivenStep(req[r], h, r, i) /\ i \in Sessions
          /\ \A j \in Sessions : session[j].state # "unused" => session'[j] = session[j]
          /\ \A s \in Streams : registry[s] # None => registry'[s] = registry[s]
      BY <1>1, <1>3, <2>2, CreatesGoes DEF TuningInv
    <2>4. StreamsStay
      <3>. SUFFICES ASSUME NEW s \in Streams, registry[s] # None
                    PROVE  session'[registry[s]].stream = session[registry[s]].stream
        BY DEF StreamsStay
      <3>1. registry[s] \in Sessions /\ session[registry[s]].state # "unused"
        BY DEF TuningInv, HandlersInv, TuningTypeOK, SessionsRegistered
      <3>. QED  BY <2>3, <3>1
    <2>5. PICK h, j : /\ StepOf(req[r], h, r) /\ req' = [req EXCEPT ![r] = h]
                      /\ GivenStep(req[r], h, r, j) /\ j \in Sessions
      BY <2>3
    <2>. QED  BY <1>1, <2>1, <2>3, <2>4, <2>5, GivenKeeps
  <1>4. CASE AttachRefuses(r)
    <2>1. TakenBack(r) /\ registry' = registry /\ session' = session
      BY <1>4 DEF AttachRefuses
    <2>2. StreamsStay /\ ClientsFade
      BY <1>1, <2>1, SameStreams, UnchangedFade DEF TuningInv, HandlersInv
    <2>3. PICK h : /\ StepOf(req[r], h, r) /\ PointsWell(h) /\ req' = [req EXCEPT ![r] = h]
                   /\ RefusedStep(req[r], h, r)
      BY <1>1, <1>4, RefusesGoes DEF TuningInv
    <2>4. PICK old : old = playback[req[r].player]
      OBVIOUS
    <2>5. HandlerShape(req[r], r) /\ LeaseGood(req[r], old)
      BY <1>1, <2>4 DEF TuningInv, HandlersInv, HandlersShaped, LeasesKept, Answered
    <2>6. h.client \in {r, req[r].client}
      BY <2>3 DEF RefusedStep, Carries, Keeps
    <2>7. CASE req[r].plan = "handover" /\ old = Lease(r)
      <3>1. h.pc = "unlock" /\ h.plan = "handover" /\ h.session = None
        BY <1>1, <2>3, <2>5, <2>7 DEF RefusedStep, Carries, Keeps, HandlerShape, Searching
      <3>2. PICK l \in Leases : l = None
        BY NoneApart
      <3>3. LeaseGood(h, l)
        BY <3>1 DEF LeaseGood
      <3>4. playback' = [playback EXCEPT ![req[r].player] = l]
        BY <2>1, <2>4, <2>7, <3>2 DEF TakenBack
      <3>5. old.client = r
        BY <1>1, <2>7, LeaseMade DEF TuningInv
      <3>. QED  BY <1>1, <2>1, <2>2, <2>3, <2>4, <2>6, <3>2, <3>3, <3>4, <3>5, MoveKeeps
    <2>8. CASE ~(req[r].plan = "handover" /\ old = Lease(r))
      <3>1. playback' = playback
        BY <2>1, <2>4, <2>8 DEF TakenBack
      <3>2. h.pc = "end" \/ LeaseGood(h, old)
        <4>1. CASE h.pc = "unlock" /\ Carries(req[r], h)
          <5>1. Served(h) /\ h.session = None /\ req[r].session = None
            BY <1>1, <2>5, <4>1 DEF Served, Carries, Keeps, HandlerShape, Searching
          <5>. QED  BY <1>1, <2>5, <4>1, <5>1 DEF LeaseGood, LeaseHeld, Carries, Keeps
        <4>. QED  BY <2>3, <4>1 DEF RefusedStep
      <3>. QED  BY <1>1, <2>1, <2>2, <2>3, <2>4, <2>6, <3>1, <3>2, StillKeeps
    <2>. QED  BY <2>7, <2>8
  <1>. QED  BY <1>1, <1>2, <1>3, <1>4

LEMMA HandleKeepsLeases ==
    ASSUME TuningInv, HandlersInv', NEW r \in Requests, Handle(r), scenario' = scenario
    PROVE  TuningInv'
  <1>. USE DEF Handle
  <1>0. HandlersInv
    BY DEF TuningInv
  <1>1. CASE StartTune(r) \/ StartRelease(r) \/ Weigh(r) \/ Detach(r) \/ Attach(r) \/ Resolve(r) \/ Register(r)
    BY <1>1, StartTuneKeeps, StartReleaseKeeps, WeighKeeps, DetachKeeps, AttachKeeps, ResolveKeeps,
       RegisterKeeps
  <1>2. CASE Assess(r) \/ Count(r) \/ Await(r) \/ Acquire(r) \/ EnsureCapacity(r) \/ Unlock(r)
    <2>1. PICK h : CalmStep(req[r], h, r) /\ PointsWell(h) /\ req' = [req EXCEPT ![r] = h]
      BY <1>0, <1>2, CalmGoes
    <2>2. UNCHANGED <<registry, session, playback, client>>
      BY <1>2 DEF Assess, Count, Await, Acquire, EnsureCapacity, Unlock
    <2>3. StreamsStay /\ ClientsFade
      BY <1>0, <2>2, SameStreams, UnchangedFade DEF HandlersInv
    <2>. QED  BY <2>1, <2>2, <2>3, CalmKeeps
  <1>3. CASE Halt(r) \/ (Reclaim(r) /\ StopCandidate(r)) \/ (Evict(r) /\ StopCandidate(r))
    <2>1. /\ \E h : CalmStep(req[r], h, r) /\ PointsWell(h) /\ req' = [req EXCEPT ![r] = h]
          /\ \E i \in Sessions : session[i].state # "unused" /\ StopSession(i)
      <3>1. CASE Halt(r)
        BY <1>0, <3>1, HaltGoes
      <3>2. CASE StopCandidate(r) /\ (Reclaim(r) \/ Evict(r))
        BY <1>0, <3>2, StopCandidateGoes DEF Reclaim, Evict, At
      <3>. QED  BY <1>3, <3>1, <3>2
    <2>2. PICK h : CalmStep(req[r], h, r) /\ PointsWell(h) /\ req' = [req EXCEPT ![r] = h]
      BY <2>1
    <2>3. PICK i \in Sessions : session[i].state # "unused" /\ StopSession(i)
      BY <2>1
    <2>4. PICK n : Stays(i, n) /\ session' = [session EXCEPT ![i] = n]
      BY <1>0, <2>3, StopStays
    <2>5. UNCHANGED <<registry, playback>>
      BY <1>3 DEF Halt, StopCandidate
    <2>6. ClientsFade /\ StreamsStay
      BY <1>0, <2>3, <2>4, <2>5, StopStays, StaysStreams
    <2>. QED  BY <2>2, <2>5, <2>6, CalmKeeps
  <1>4. CASE (Reclaim(r) \/ Evict(r)) /\ ~StopCandidate(r)
    <2>1. PICK pc \in {"attach", "capacity"} : Move(r, pc)
      BY <1>4 DEF Reclaim, Evict, Reclaimed
    <2>2. UNCHANGED <<registry, session, playback, client>> /\ req[r].pc \in {"reclaim", "evict"}
      BY <1>4 DEF Reclaim, Evict, At
    <2>3. PICK h : CalmStep(req[r], h, r) /\ PointsWell(h) /\ req' = [req EXCEPT ![r] = h]
      BY <1>0, <2>1, <2>2, NextGoes
    <2>4. StreamsStay /\ ClientsFade
      BY <1>0, <2>2, SameStreams, UnchangedFade DEF HandlersInv
    <2>. QED  BY <2>2, <2>3, <2>4, CalmKeeps
  <1>. QED  BY <1>1, <1>2, <1>3, <1>4

LEMMA ArriveKeeps ==
    ASSUME TuningInv, HandlersInv', ~Zapping,
           NEW r \in Requests, NEW p \in Players, NEW s \in Streams,
           NEW protocol \in scenario.protocols, NEW kind \in scenario.kinds,
           Arrive(r, p, s, protocol, kind)
    PROVE  TuningInv'
  <1>1. PICK h : /\ StepOf(req[r], h, r) /\ PointsWell(h) /\ req' = [req EXCEPT ![r] = h]
                 /\ req[r].pc = "new" /\ h.pc # "end" /\ h.player = p /\ h.client = r
                 /\ h.session = None /\ h.plan \in {"none", "prewarm"}
    BY ArriveGoes DEF TuningInv
  <1>2. registry' = registry /\ client' = client /\ session' = session /\ playback' = playback
    BY DEF Arrive
  <1>3. StreamsStay /\ ClientsFade
    BY <1>2, SameStreams, UnchangedFade DEF TuningInv, HandlersInv
  <1>4. req'[r] = h /\ \A q \in Requests : q # r => req'[q] = req[q]
    BY <1>1, HandlerGoes DEF TuningInv, HandlersInv
  <1>5. \A q \in Requests : req[q].player = p => Answered(q)
    BY DEF Arrive
  <1>6. /\ req[r].player = None
        /\ \A q \in Requests : req[q].player = None => req[q].pc = "new" /\ req[q].client = q
    BY <1>1 DEF TuningInv, HandlersInv, HandlersShaped, HandlerShape
  <1>7. OneAtATime'
    <2>. SUFFICES ASSUME NEW a \in Requests, NEW b \in Requests, req'[a].player = req'[b].player,
                         ~Answered(a)', ~Answered(b)'
                  PROVE  a = b
      BY DEF OneAtATime
    <2>1. \A q \in Requests : q # r => Answered(q)' = Answered(q)
      BY <1>4 DEF Answered
    <2>. QED  BY <1>1, <1>4, <1>5, <2>1 DEF TuningInv, OneAtATime
  <1>8. ClientsOfPlayer'
    <2>1. ASSUME NEW o \in Players, playback[o] # None
          PROVE  req'[playback[o].client].player = o
      <3>1. playback[o].client \in Requests /\ req[playback[o].client].player = o
        BY <2>1 DEF TuningInv, HandlersInv, TuningTypeOK, Leases, ClientsOfPlayer
      <3>2. playback[o].client # r
        BY <1>6, <3>1, NoneApart
      <3>. QED  BY <1>4, <3>1, <3>2
    <2>2. ASSUME NEW q \in Requests
          PROVE  req'[req'[q].client].player = req'[q].player
      <3>1. CASE q = r
        BY <1>1, <1>4, <3>1
      <3>2. CASE q # r
        <4>1. req[q].client \in Requests /\ req[req[q].client].player = req[q].player
          BY DEF TuningInv, HandlersInv, TuningTypeOK, HandlerRecords, ClientsOfPlayer
        <4>2. req[q].client # r
          BY <1>6, <3>2, <4>1
        <4>. QED  BY <1>4, <3>2, <4>1, <4>2
      <3>. QED  BY <3>1, <3>2
    <2>. QED  BY <1>2, <2>1, <2>2 DEF ClientsOfPlayer
  <1>9. LeasesKept'
    <2>. SUFFICES ASSUME NEW q \in Requests, ~(req'[q].pc \in {"new", "end"})
                  PROVE  LeaseGood(req'[q], playback'[req'[q].player])
      BY DEF LeasesKept, Answered
    <2>1. CASE q = r
      BY <1>1, <1>4, <2>1 DEF LeaseGood
    <2>2. CASE q # r
      BY <1>2, <1>4, <2>2 DEF TuningInv, LeasesKept, Answered
    <2>. QED  BY <2>1, <2>2
  <1>10. \A c \in Requests : client'[c].status # "none" =>
            /\ session'[client[c].session].stream = session[client[c].session].stream
            /\ registry'[session[client[c].session].stream] = client[c].session
    BY <1>2, <1>3, SameRegistered DEF TuningInv
  <1>11. \A q \in Requests : req[q].pc = "end" => req'[q] = req[q]
    BY <1>1, <1>4
  <1>12. ViewersRegistered'
    BY <1>3, <1>10, <1>11, ViewersRegisteredKept DEF TuningInv
  <1>13. ViewersLeased'
    <2>1. \A c, q \in Requests : client'[c].status = "active" /\ Detaching(q, c) => req'[q] = req[q]
      BY <1>1, <1>4 DEF Detaching
    <2>. QED  BY <1>2, <1>3, <1>10, <1>11, <2>1, ViewersLeasedKept DEF TuningInv
  <1>. QED  BY <1>7, <1>8, <1>9, <1>12, <1>13 DEF TuningInv

(* Sessions, viewers and the cleanup loop, with no handler.                *)
LEMMA StandKeeps ==
    ASSUME TuningInv, HandlersInv', req' = req, playback' = playback, ClientsFade,
           \A c \in Requests : client'[c].status # "none" =>
              /\ session'[client[c].session].stream = session[client[c].session].stream
              /\ registry'[session[client[c].session].stream] = client[c].session
    PROVE  TuningInv'
  <1>1. OneAtATime' /\ ClientsOfPlayer' /\ LeasesKept'
    BY DEF TuningInv, OneAtATime, ClientsOfPlayer, LeasesKept, Answered
  <1>2. ViewersRegistered'
    BY ViewersRegisteredKept DEF TuningInv
  <1>3. ViewersLeased'
    BY ViewersLeasedKept DEF TuningInv
  <1>. QED  BY <1>1, <1>2, <1>3 DEF TuningInv

LEMMA LiveKeeps ==
    ASSUME TuningInv, HandlersInv', NEW i \in Sessions, Live(i), scenario' = scenario
    PROVE  TuningInv'
  <1>0. HandlersInv /\ ViewersRegistered
    BY DEF TuningInv
  <1>1. CASE End(i)
    <2>1. /\ ClientsFade
          /\ \A c \in Requests : client'[c].status # "none" => client[c].session # i
          /\ \A j \in Sessions : j # i => session'[j] = session[j]
          /\ \A s \in Streams : registry[s] # i => registry'[s] = registry[s]
      BY <1>0, <1>1, EndGoes
    <2>2. \A c \in Requests : client'[c].status # "none" =>
             /\ session'[client[c].session].stream = session[client[c].session].stream
             /\ registry'[session[client[c].session].stream] = client[c].session
      <3>. SUFFICES ASSUME NEW c \in Requests, client'[c].status # "none"
                    PROVE  /\ session'[client[c].session].stream = session[client[c].session].stream
                           /\ registry'[session[client[c].session].stream] = client[c].session
        OBVIOUS
      <3>1. /\ client[c].session \in Sessions /\ session[client[c].session].stream \in Streams
            /\ registry[session[client[c].session].stream] = client[c].session
        BY <1>0, <2>1 DEF ClientsFade, ViewersRegistered, HandlersInv, TuningTypeOK, ClientRecords
      <3>. QED  BY <2>1, <3>1
    <2>3. req' = req /\ playback' = playback
      BY <1>1 DEF End
    <2>. QED  BY <2>1, <2>2, <2>3, StandKeeps
  <1>2. CASE Connect(i) \/ BecomeReady(i) \/ LoseSource(i) \/ ReturnLease(i)
    <2>1. PICK n : Stays(i, n) /\ session' = [session EXCEPT ![i] = n]
      BY <1>0, <1>2, LiveGoes
    <2>2. UNCHANGED <<registry, playback, client, req>>
      BY <1>2 DEF Connect, BecomeReady, LoseSource, ReturnLease
    <2>3. StreamsStay /\ ClientsFade
      BY <1>0, <2>1, <2>2, StaysStreams, UnchangedFade DEF HandlersInv
    <2>4. \A c \in Requests : client'[c].status # "none" =>
             /\ session'[client[c].session].stream = session[client[c].session].stream
             /\ registry'[session[client[c].session].stream] = client[c].session
      BY <1>0, <2>2, <2>3, SameRegistered
    <2>. QED  BY <2>2, <2>3, <2>4, StandKeeps
  <1>. QED  BY <1>1, <1>2 DEF Live

LEMMA StopIdleKeeps ==
    ASSUME TuningInv, HandlersInv', StopIdle
    PROVE  TuningInv'
  <1>0. HandlersInv /\ ViewersRegistered
    BY DEF TuningInv
  <1>1. registry' = registry /\ req' = req /\ playback' = playback
    BY DEF StopIdle
  <1>2. StreamsStay /\ ClientsFade
    <2>1. PICK i : i = registry[sweep]
      OBVIOUS
    <2>2. CASE i # None
      <3>1. sweep \in Streams
        BY <1>0 DEF StopIdle, HandlersInv, TuningTypeOK
      <3>2. i \in Sessions /\ session[i].state # "unused"
        BY <1>0, <2>1, <2>2, <3>1 DEF HandlersInv, TuningTypeOK, SessionsRegistered
      <3>3. StopSession(i)
        BY <2>1, <2>2 DEF StopIdle
      <3>4. PICK n : Stays(i, n) /\ session' = [session EXCEPT ![i] = n]
        BY <1>0, <3>2, <3>3, StopStays
      <3>. QED  BY <1>0, <1>1, <3>2, <3>3, <3>4, StopStays, StaysStreams
    <2>3. CASE i = None
      <3>1. session' = session /\ client' = client
        BY <2>1, <2>3 DEF StopIdle
      <3>. QED  BY <1>0, <3>1, SameStreams, UnchangedFade DEF HandlersInv
    <2>. QED  BY <2>2, <2>3
  <1>3. \A c \in Requests : client'[c].status # "none" =>
           /\ session'[client[c].session].stream = session[client[c].session].stream
           /\ registry'[session[client[c].session].stream] = client[c].session
    BY <1>0, <1>1, <1>2, SameRegistered
  <1>. QED  BY <1>1, <1>2, <1>3, StandKeeps

LEMMA PruneKeeps ==
    ASSUME TuningInv, HandlersInv', NEW p \in Players, PrunePlayback(p)
    PROVE  TuningInv'
  <1>1. /\ playback[p] # None /\ playback' = [playback EXCEPT ![p] = None]
        /\ registry' = registry /\ session' = session /\ client' = client /\ req' = req
        /\ \A r \in Requests : req[r].client = playback[p].client => Answered(r)
    BY DEF PrunePlayback
  <1>2. playback'[p] = None /\ \A o \in Players : o # p => playback'[o] = playback[o]
    BY <1>1 DEF TuningInv, HandlersInv, TuningTypeOK
  <1>3. OneAtATime'
    BY <1>1 DEF TuningInv, OneAtATime, Answered
  <1>4. ClientsOfPlayer'
    BY <1>1, <1>2 DEF TuningInv, ClientsOfPlayer
  <1>5. LeasesKept'
    <2>. SUFFICES ASSUME NEW q \in Requests, ~Answered(q)
                  PROVE  LeaseGood(req[q], playback'[req[q].player])
      BY <1>1 DEF LeasesKept, Answered
    <2>1. LeaseGood(req[q], playback[req[q].player]) /\ req[q].player \in Players
      BY PlayersOwn DEF TuningInv, LeasesKept, Answered
    <2>2. CASE req[q].player = p
      BY <1>1, <1>2, <2>1, <2>2 DEF LeaseGood, LeaseHeld
    <2>3. CASE req[q].player # p
      BY <1>2, <2>1, <2>3
    <2>. QED  BY <2>2, <2>3
  <1>6. ClientsFade /\ StreamsStay
    BY <1>1, SameStreams, UnchangedFade DEF TuningInv, HandlersInv
  <1>7. \A c \in Requests : client'[c].status # "none" =>
           /\ session'[client[c].session].stream = session[client[c].session].stream
           /\ registry'[session[client[c].session].stream] = client[c].session
    BY <1>1, <1>6, SameRegistered DEF TuningInv
  <1>8. ViewersRegistered'
    BY <1>1, <1>6, <1>7, ViewersRegisteredKept DEF TuningInv
  <1>9. ASSUME NEW c \in Requests, client'[c].status = "active", req[c].pc = "end",
               LeaseOf(playback[req[c].player], c, client[c].session)
        PROVE  LeaseOf(playback'[req[c].player], c, client[c].session)
    <2>1. req[c].player \in Players
      BY <1>9, PlayersOwn DEF TuningInv
    <2>2. CASE req[c].player = p
      <3>1. PICK i : i = client[c].session
        OBVIOUS
      <3>2. i # None /\ registry[playback[p].stream] = i /\ playback[p].client = c
        BY <1>1, <1>9, <2>2, <3>1 DEF LeaseOf, TuningInv, ViewersRegistered
      <3>3. c \in Viewers(i)
        BY <1>1, <1>9, <3>1 DEF Viewers
      <3>. QED  BY <3>2, <3>3 DEF PrunePlayback
    <2>3. CASE req[c].player # p
      BY <1>2, <1>9, <2>1, <2>3
    <2>. QED  BY <2>2, <2>3
  <1>10. ViewersLeased'
    BY <1>1, <1>6, <1>7, <1>9, ViewersLeasedKept DEF TuningInv
  <1>. QED  BY <1>3, <1>4, <1>5, <1>8, <1>10 DEF TuningInv

LEMMA TuningNext ==
    ASSUME TuningInv, HandlersInv', [Next]_<<vars, scenario>>, ~Zapping
    PROVE  TuningInv'
  <1>0. HandlersInv /\ ViewersRegistered
    BY DEF TuningInv
  <1>1. ASSUME NEW r \in Requests, NEW p \in Players, NEW s \in Streams,
               NEW protocol \in scenario.protocols, NEW kind \in scenario.kinds,
               Arrive(r, p, s, protocol, kind)
        PROVE  TuningInv'
    BY <1>1, ArriveKeeps
  <1>2. ASSUME NEW c \in Requests, Leave(c)
        PROVE  TuningInv'
    <2>1. ClientsFade
      BY <1>0, <1>2, LeaveFade DEF HandlersInv
    <2>2. req' = req /\ playback' = playback /\ registry' = registry /\ session' = session
      BY <1>2 DEF Leave
    <2>3. \A b \in Requests : client'[b].status # "none" =>
             /\ session'[client[b].session].stream = session[client[b].session].stream
             /\ registry'[session[client[b].session].stream] = client[b].session
      BY <1>0, <2>1, <2>2, SameStreams, SameRegistered
    <2>. QED  BY <2>1, <2>2, <2>3, StandKeeps
  <1>3. CASE FindIdle \/ UNCHANGED <<vars, scenario>>
    <2>1. UNCHANGED <<req, playback, registry, session, client>>
      BY <1>3 DEF FindIdle, vars
    <2>2. ClientsFade
      BY <1>0, <2>1, UnchangedFade DEF HandlersInv
    <2>3. \A b \in Requests : client'[b].status # "none" =>
             /\ session'[client[b].session].stream = session[client[b].session].stream
             /\ registry'[session[client[b].session].stream] = client[b].session
      BY <1>0, <2>1, <2>2, SameStreams, SameRegistered
    <2>. QED  BY <2>1, <2>2, <2>3, StandKeeps
  <1>. QED  BY <1>1, <1>2, <1>3, HandleKeepsLeases, LiveKeeps, StopIdleKeeps, PruneKeeps DEF Next

LEMMA TuningStart == Init => TuningInv
  <1>. SUFFICES ASSUME Init PROVE TuningInv
    OBVIOUS
  <1>1. OneAtATime
    BY DEF Init, OneAtATime, Answered, Blank
  <1>2. ClientsOfPlayer
    BY DEF Init, ClientsOfPlayer, Blank
  <1>3. LeasesKept
    BY DEF Init, LeasesKept, Answered, Blank
  <1>4. ViewersRegistered /\ ViewersLeased
    BY DEF Init, ViewersRegistered, ViewersLeased, NoViewer
  <1>. QED  BY <1>1, <1>2, <1>3, <1>4, HandlersStart DEF TuningInv

(* Of players that wait for their answers, each viewer is the one of its   *)
(* player's lease, or one that a switch or a release is about to detach.   *)
THEOREM TuningSafety ==
    ASSUME ~Zapping
    PROVE  Spec => []TuningInv
  <1>1. TuningInv /\ HandlersInv' /\ [Next]_<<vars, scenario>> => TuningInv'
    BY TuningNext
  <1>. QED  BY <1>1, TuningStart, TuningTypes, PTL DEF Spec

(* A player that waits for its answers has one connection at most, the one *)
(* of its playback lease, whatever tunes, reconnects, releases, reclaims   *)
(* and prunings came before.                                               *)
THEOREM OneConnectionEach ==
    ASSUME ~Zapping
    PROVE  Spec => []OneTransport
  <1>1. TuningInv => OneTransport
    <2>. SUFFICES ASSUME TuningInv, NEW p \in Players, Quiet(p), NEW c \in Requests,
                         req[c].player = p, client[c].status = "active"
                  PROVE  playback[p] # None /\ playback[p].client = c
      BY DEF OneTransport
    <2>1. \A r \in Requests : ~Detaching(r, c)
      BY DEF Detaching, Quiet, Answered
    <2>. QED  BY <2>1 DEF TuningInv, ViewersLeased, LeaseOf
  <1>. QED  BY <1>1, TuningSafety, PTL
=============================================================================
