----------------------------- MODULE MediaPipeline -----------------------------
(* One pipeline of a stream session (gstProducer).  Start builds it; then   *)
(* the callbacks of GStreamer's streaming threads announce, negotiate and   *)
(* link the tracks of the source into two muxers, the transport stream for  *)
(* the hub and the HLS segmenter, while the pipeline's loops wait for the   *)
(* layout to settle and watch for errors, and Stop may come at any moment.  *)
(*                                                                          *)
(* graphMu guards the graph.  What a callback does under it is one step,    *)
(* except routePadToMux, which is seen half done: the track is claimed and  *)
(* not linked yet.  A step of the clock is a fraction of the settle window. *)
EXTENDS Naturals, FiniteSets

CONSTANTS
    Tracks,    \* tracks of the source
    MediaOf,   \* track -> "video" or "audio"
    Settle     \* steps of the clock in trackDiscoverySettle

ASSUME PipelineAssumption == Settle \in Nat \ {0} /\ "free" \notin Tracks

VARIABLES
    source,     \* what it serves: transport (one pad to demultiplex) or a pad a track; tracks with a parser
    pipeline,   \* "none", "playing" or "null"; started: "no", "holding" the lifecycle lock, "yes", "failed"
    track,      \* where the callbacks of a track are
    carrier,    \* whether the demultiplexer is linked
    expected,   \* expectedMedia
    routed,     \* media in routed
    inputs,     \* tracks linked to the muxers
    sealed,     \* hlsInputsStarted
    quiet,      \* steps since lastRouteChange, up to Settle
    graphMu,    \* holder of the graph lock, or "free"
    hub,        \* media the hub has a first timestamp of
    sample,     \* the transport callback: "idle", or the media it saw expected
    ready,      \* whether the ready channel is closed
    failed,     \* whether an error was reported
    bus,        \* "off", "on" or "done": busLoop
    stop        \* where Stop is
pipelineVars == <<source, pipeline, track, carrier, expected, routed, inputs, sealed, quiet, graphMu, hub, sample, ready, failed, bus, stop>>

Media == {"video", "audio"}
NoSample == [at |-> "idle"]
stopping == stop # "no"
Playing == pipeline.state = "playing"
LoopsRun == pipeline.started = "yes" /\ bus = "on"

(* reportError: the first one only, and none once the pipeline stops.       *)
ReportError == failed' = (failed \/ ~stopping)

PipelineInit ==
    /\ source \in [transport : BOOLEAN, parsed : SUBSET Tracks]
    /\ pipeline = [state |-> "none", started |-> "no"]
    /\ track = [t \in Tracks |-> "hidden"] /\ carrier = FALSE
    /\ expected = {} /\ routed = {} /\ inputs = {} /\ sealed = FALSE /\ quiet = 0
    /\ graphMu = "free" /\ hub = {} /\ sample = NoSample /\ ready = FALSE /\ failed = FALSE
    /\ bus = "off" /\ stop = "no"

---------------------------------------------------------------------------
(* Start, on a goroutine of the session's supervisor.  It does not look at  *)
(* stopping.  Callbacks run from the moment the pipeline plays; the loops   *)
(* start last.                                                              *)
BeginStart ==
    /\ pipeline.started = "no"
    /\ pipeline' = [pipeline EXCEPT !.started = "holding"]
    /\ UNCHANGED <<source, track, carrier, expected, routed, inputs, sealed, quiet, graphMu, hub, sample, ready, failed, bus, stop>>

Play ==
    /\ pipeline.started = "holding" /\ pipeline.state = "none"
    /\ pipeline' = [pipeline EXCEPT !.state = "playing"]
    /\ UNCHANGED <<source, track, carrier, expected, routed, inputs, sealed, quiet, graphMu, hub, sample, ready, failed, bus, stop>>

StartReturns ==
    /\ pipeline.started = "holding" /\ Playing
    /\ pipeline' = [pipeline EXCEPT !.started = "yes"]
    /\ bus' = "on"
    /\ UNCHANGED <<source, track, carrier, expected, routed, inputs, sealed, quiet, graphMu, hub, sample, ready, failed, stop>>

(* disposePipeline, before any callback: an element is missing or a         *)
(* property is refused.                                                     *)
StartIsRefused ==
    /\ pipeline.started = "holding" /\ pipeline.state = "none"
    /\ pipeline' = [pipeline EXCEPT !.started = "failed"]
    /\ UNCHANGED <<source, track, carrier, expected, routed, inputs, sealed, quiet, graphMu, hub, sample, ready, failed, bus, stop>>

---------------------------------------------------------------------------
(* The layout.                                                              *)
Expect(media) ==
    /\ expected' = expected \cup {media}
    /\ quiet' = IF media \in expected THEN quiet ELSE 0

(* attachSourcePad of the one pad of a transport stream, and the            *)
(* demultiplexer its type asks for (routeTransportPad).                     *)
AttachTransport ==
    /\ Playing /\ ~stopping /\ source.transport /\ ~carrier /\ graphMu = "free"
    /\ carrier' = TRUE
    /\ UNCHANGED <<source, pipeline, track, expected, routed, inputs, sealed, quiet, graphMu, hub, sample, ready, failed, bus, stop>>

(* A pad of the demultiplexer: its name tells the medium, with a parser for *)
(* it or not.                                                               *)
DemuxPadAdded(t) ==
    /\ Playing /\ ~stopping /\ carrier /\ track[t] = "hidden"
    /\ track' = [track EXCEPT ![t] = "added"]
    /\ Expect(MediaOf[t])
    /\ UNCHANGED <<source, pipeline, carrier, routed, inputs, sealed, graphMu, hub, sample, ready, failed, bus, stop>>

(* attachSourcePad of an elementary track: it is expected from now on if    *)
(* its caps are known already.                                              *)
AttachSourcePad(t) ==
    /\ Playing /\ ~stopping /\ ~source.transport /\ track[t] = "hidden" /\ graphMu = "free"
    /\ track' = [track EXCEPT ![t] = "added"]
    /\ \/ t \in source.parsed /\ Expect(MediaOf[t])
       \/ UNCHANGED <<expected, quiet>>
    /\ UNCHANGED <<source, pipeline, carrier, routed, inputs, sealed, graphMu, hub, sample, ready, failed, bus, stop>>

(* The caps are fixed: routeElementaryPad is called, and asks for the lock. *)
CapsAreFixed(t) ==
    /\ Playing /\ ~stopping /\ track[t] = "added"
    /\ track' = [track EXCEPT ![t] = "asking"]
    /\ UNCHANGED <<source, pipeline, carrier, expected, routed, inputs, sealed, quiet, graphMu, hub, sample, ready, failed, bus, stop>>

(* routeElementaryPad under the lock: nothing once the pipeline stops, a    *)
(* track without a parser is left out, and so is a second one of a medium.  *)
LeaveOut(t) ==
    /\ track[t] = "asking" /\ graphMu = "free"
    /\ stopping \/ t \notin source.parsed \/ MediaOf[t] \in routed
    /\ track' = [track EXCEPT ![t] = "over"]
    /\ IF stopping \/ t \notin source.parsed THEN UNCHANGED <<expected, quiet>> ELSE Expect(MediaOf[t])
    /\ UNCHANGED <<source, pipeline, carrier, routed, inputs, sealed, graphMu, hub, sample, ready, failed, bus, stop>>

Routable(t) == track[t] = "asking" /\ ~stopping /\ t \in source.parsed /\ MediaOf[t] \notin routed

(* A track that comes after the HLS inputs were started is an error.        *)
RefuseLateTrack(t) ==
    /\ Routable(t) /\ graphMu = "free" /\ sealed
    /\ track' = [track EXCEPT ![t] = "over"]
    /\ Expect(MediaOf[t]) /\ ReportError
    /\ UNCHANGED <<source, pipeline, carrier, routed, inputs, sealed, graphMu, hub, sample, ready, bus, stop>>

ClaimTrack(t) ==
    /\ Routable(t) /\ graphMu = "free" /\ ~sealed
    /\ graphMu' = t
    /\ track' = [track EXCEPT ![t] = "linking"]
    /\ expected' = expected \cup {MediaOf[t]} /\ routed' = routed \cup {MediaOf[t]} /\ quiet' = 0
    /\ UNCHANGED <<source, pipeline, carrier, inputs, sealed, hub, sample, ready, failed, bus, stop>>

(* routePadToMux.  One that fails half way may have added its HLS input.    *)
LinkTrack(t) ==
    /\ track[t] = "linking"
    /\ graphMu' = "free" /\ inputs' = inputs \cup {t}
    /\ track' = [track EXCEPT ![t] = "syncing"]
    /\ UNCHANGED <<source, pipeline, carrier, expected, routed, sealed, quiet, hub, sample, ready, failed, bus, stop>>

LinkFails(t) ==
    /\ track[t] = "linking"
    /\ graphMu' = "free" /\ inputs' \in {inputs, inputs \cup {t}}
    /\ routed' = routed \ {MediaOf[t]}
    /\ track' = [track EXCEPT ![t] = "over"]
    /\ ReportError
    /\ UNCHANGED <<source, pipeline, carrier, expected, sealed, quiet, hub, sample, ready, bus, stop>>

(* The elements are synced without the lock, as long as nothing stops.      *)
SyncTrack(t) ==
    /\ track[t] = "syncing"
    /\ track' = [track EXCEPT ![t] = IF stopping THEN "over" ELSE "flowing"]
    /\ UNCHANGED <<source, pipeline, carrier, expected, routed, inputs, sealed, quiet, graphMu, hub, sample, ready, failed, bus, stop>>

---------------------------------------------------------------------------
(* The loops.                                                               *)
Settled == quiet = Settle /\ expected \subseteq routed

TimePasses ==
    /\ Playing /\ quiet < Settle /\ expected # {}
    /\ quiet' = quiet + 1
    /\ UNCHANGED <<source, pipeline, track, carrier, expected, routed, inputs, sealed, graphMu, hub, sample, ready, failed, bus, stop>>

(* startHLSInputs: the segmenter gets data once the layout has settled.     *)
StartHLSInputs_Unlocked ==
    /\ LoopsRun /\ ~stopping /\ ~sealed
    /\ routed # {} /\ Settled
    /\ sealed' = TRUE
    /\ UNCHANGED <<source, pipeline, track, carrier, expected, routed, inputs, quiet, graphMu, hub, sample, ready, failed, bus, stop>>

StartHLSInputs ==
    /\ LoopsRun /\ ~stopping /\ ~sealed /\ graphMu = "free"
    /\ routed # {} /\ Settled
    /\ sealed' = TRUE
    /\ UNCHANGED <<source, pipeline, track, carrier, expected, routed, inputs, quiet, graphMu, hub, sample, ready, failed, bus, stop>>

(* A sample of the transport stream is published; when it holds tables the  *)
(* callback asks whether a decoder can start: it reads the layout, and then *)
(* the hub.                                                                 *)
PublishSample(t) ==
    /\ Playing /\ ~stopping /\ track[t] = "flowing" /\ sample = NoSample
    /\ hub' = hub \cup {MediaOf[t]}
    /\ \/ sample' = NoSample
       \/ expected # {} /\ Settled /\ sample' = [at |-> "asking", expects |-> expected]
    /\ UNCHANGED <<source, pipeline, track, carrier, expected, routed, inputs, sealed, quiet, graphMu, ready, failed, bus, stop>>

DecoderReady ==
    /\ sample # NoSample
    /\ sample' = NoSample
    /\ ready' = (ready \/ sample.expects \subseteq hub)
    /\ UNCHANGED <<source, pipeline, track, carrier, expected, routed, inputs, sealed, quiet, graphMu, hub, failed, bus, stop>>

(* busLoop ends with the first error or the end of the stream, and when the *)
(* pipeline stops; the other loops end with it.                             *)
BusLoopEnds ==
    /\ bus = "on"
    /\ bus' = "done"
    /\ ReportError
    /\ UNCHANGED <<source, pipeline, track, carrier, expected, routed, inputs, sealed, quiet, graphMu, hub, sample, ready, stop>>

(* stallLoop, and the end of the stream as the transport callback sees it.  *)
SourceStalls ==
    /\ Playing /\ ~stopping /\ ~failed
    /\ (ready /\ LoopsRun) \/ hub # {}
    /\ failed' = TRUE
    /\ UNCHANGED <<source, pipeline, track, carrier, expected, routed, inputs, sealed, quiet, graphMu, hub, sample, ready, bus, stop>>

---------------------------------------------------------------------------
(* Stop, on a goroutine of the session's cleanup.                           *)
BeginStop ==
    /\ stop = "no"
    /\ stop' = "called"
    /\ UNCHANGED <<source, pipeline, track, carrier, expected, routed, inputs, sealed, quiet, graphMu, hub, sample, ready, failed, bus>>

(* Start returns before Stop goes on; a Start that has not begun does not   *)
(* keep it back.                                                            *)
PassLifecycle ==
    /\ stop = "called" /\ pipeline.started # "holding"
    /\ stop' = "draining"
    /\ UNCHANGED <<source, pipeline, track, carrier, expected, routed, inputs, sealed, quiet, graphMu, hub, sample, ready, failed, bus>>

(* The lock is taken and released to let edits finish, or given up at the   *)
(* deadline while a callback holds it.                                      *)
DrainGraph_KeepsLock ==
    /\ stop = "draining"
    /\ stop' = IF pipeline.state = "none" THEN "done" ELSE IF graphMu = "free" THEN "drained" ELSE "late"
    /\ graphMu' = IF graphMu = "free" /\ Playing THEN "stop" ELSE graphMu
    /\ UNCHANGED <<source, pipeline, track, carrier, expected, routed, inputs, sealed, quiet, hub, sample, ready, failed, bus>>

DrainGraph ==
    /\ stop = "draining"
    /\ stop' = IF pipeline.state = "none" THEN "done" ELSE IF graphMu = "free" THEN "drained" ELSE "late"
    /\ UNCHANGED <<source, pipeline, track, carrier, expected, routed, inputs, sealed, quiet, graphMu, hub, sample, ready, failed, bus>>

(* The state NULL is reached when no callback runs any more.                *)
InCallback(t) == track[t] \in {"asking", "linking", "syncing"}

ReachNull ==
    /\ stop \in {"drained", "late"} /\ Playing
    /\ sample = NoSample /\ \A t \in Tracks : ~InCallback(t)
    /\ pipeline' = [pipeline EXCEPT !.state = "null"]
    /\ UNCHANGED <<source, track, carrier, expected, routed, inputs, sealed, quiet, graphMu, hub, sample, ready, failed, bus, stop>>

(* disposePipeline, after busLoop or a second.                              *)
DisposePipeline ==
    /\ stop \in {"drained", "late"} /\ pipeline.state = "null"
    /\ pipeline' = [pipeline EXCEPT !.state = "none"]
    /\ stop' = "done"
    /\ UNCHANGED <<source, track, carrier, expected, routed, inputs, sealed, quiet, graphMu, hub, sample, ready, failed, bus>>

StartStep == BeginStart \/ Play \/ StartReturns \/ StartIsRefused
TrackStep(t) ==
    \/ DemuxPadAdded(t) \/ AttachSourcePad(t) \/ CapsAreFixed(t) \/ LeaveOut(t) \/ RefuseLateTrack(t)
    \/ ClaimTrack(t) \/ LinkTrack(t) \/ LinkFails(t) \/ SyncTrack(t) \/ PublishSample(t)
LoopStep == TimePasses \/ StartHLSInputs \/ DecoderReady \/ BusLoopEnds \/ SourceStalls \/ AttachTransport
StopStep == PassLifecycle \/ DrainGraph \/ ReachNull \/ DisposePipeline
PipelineNext == StartStep \/ LoopStep \/ BeginStop \/ StopStep \/ \E t \in Tracks : TrackStep(t)
PipelineSpec == PipelineInit /\ [][PipelineNext]_pipelineVars

(* Start, Stop and a callback that was called go on: the scheduler runs     *)
(* their goroutines and threads, and GStreamer answers.                     *)
PipelineFairness ==
    /\ WF_pipelineVars(Play \/ StartIsRefused) /\ WF_pipelineVars(StartReturns)
    /\ WF_pipelineVars(DecoderReady)
    /\ WF_pipelineVars(PassLifecycle \/ DrainGraph) /\ WF_pipelineVars(ReachNull) /\ WF_pipelineVars(DisposePipeline)
    /\ \A t \in Tracks : /\ WF_pipelineVars(LeaveOut(t) \/ RefuseLateTrack(t) \/ ClaimTrack(t))
                         /\ WF_pipelineVars(LinkTrack(t) \/ LinkFails(t)) /\ WF_pipelineVars(SyncTrack(t))

---------------------------------------------------------------------------
(* Nobody edits the graph behind those who rely on it: once the segmenter   *)
(* gets data no track is linked to it or taken from it (a pad that is added *)
(* while a fragment is flushed can leave it spinning), and once Stop has    *)
(* drained the edits nothing is linked to a pipeline on its way to NULL.    *)
LayoutSealed ==
    [][sealed \/ stop \in {"drained", "done"} => UNCHANGED <<inputs, routed, carrier>>]_pipelineVars

(* Stop returns whatever the callbacks were doing, and leaves no pipeline   *)
(* behind.  Not so when it overtook Start: the pipeline that is built then  *)
(* plays on, and nothing stops it any more.                                 *)
StopEndsPipeline ==
    (stop = "called" /\ pipeline.started # "no") ~> [](stop = "done" /\ pipeline.state = "none")
=============================================================================
