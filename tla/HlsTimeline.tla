----------------------------- MODULE HlsTimeline -----------------------------
(***************************************************************************)
(* How the playlists of a session's successive pipelines become the one    *)
(* playlist its HLS viewers poll (backend/pkg/streaming/hls_timeline.go,   *)
(* and the startup filter of producer.go and hls_playlist.go).  A poll     *)
(* takes the current producer, reads its playlist file, filters it under   *)
(* the producer's lock and merges it under the timeline's: four steps      *)
(* between which other polls, new segments and a replacement may come.     *)
(*                                                                         *)
(* A segment is <<g, n>>: the n-th of generation g.  Whether a segment     *)
(* holds the stable track layout is a free choice when it is inspected.    *)
(* Operation_Flaw is Operation with a plausible bug (ConnectionLimiter).   *)
(***************************************************************************)
EXTENDS Naturals, Sequences, FiniteSets, SequencesExt, Filtering

CONSTANTS
    Polls,          \* HTTP requests for the playlist
    Length,         \* HLSPlaylistLength, of the pipelines and of the timeline
    MaxGeneration,  \* bound on the pipelines of the session
    MaxSegments,    \* bound on the segments of one pipeline
    MaxSequence     \* bound on the media sequence at which a poll starts

ASSUME TimelineAssumption ==
    /\ Length \in Nat /\ Length >= 3
    /\ MaxGeneration \in Nat \ {0}
    /\ MaxSegments \in Nat
    /\ MaxSequence \in Nat
    /\ Polls \cap Nat = {}

VARIABLES
    current,       \* Session.current, 0 before the first
    started,       \* generations started so far; one that stopped just writes no more
    written,       \* segments each pipeline has completed
    bootstrapped,  \* hlsBootstrapReady of each producer
    suppressed,    \* hlsSuppressed of each producer
    rejected,      \* history: what each producer refused at startup
    reader,        \* the polls, and the playlistLoop of each producer
    timeline,      \* hlsTimeline
    overlapped     \* history: did two reads ever overlap?

producers == <<current, started, written>>
filters == <<bootstrapped, suppressed, rejected>>
vars == <<current, started, written, bootstrapped, suppressed, rejected,
          reader, timeline, overlapped>>

Generations == 1..MaxGeneration
Readers == Polls \cup Generations
Idle == [pc |-> "idle", generation |-> 0, media |-> <<>>]

\* The playlist file: the newest Length segments.
Playlist(g) == LET oldest == IF written[g] > Length THEN written[g] - Length ELSE 0
               IN  [i \in 1..written[g] - oldest |-> <<g, oldest + i>>]

Init ==
    /\ current = 0
    /\ started = 0
    /\ written = [g \in Generations |-> 0]
    /\ bootstrapped = {}
    /\ suppressed = [g \in Generations |-> {}]
    /\ rejected = [g \in Generations |-> {}]
    /\ reader = [q \in Readers |-> Idle]
    /\ timeline = [segments |-> <<>>, seen |-> {}, mediaSequence |-> 0,
                   discontinuitySequence |-> 0, lastGeneration |-> 0]
    /\ overlapped = FALSE

-----------------------------------------------------------------------------
(* The pipelines, as the session and the segmenter drive them.             *)

StartProducer ==
    /\ started < MaxGeneration
    /\ started' = started + 1
    /\ UNCHANGED <<current, written, filters, reader, timeline, overlapped>>

WriteSegment(g) ==
    /\ g <= started
    /\ written[g] < MaxSegments
    /\ written' = [written EXCEPT ![g] = @ + 1]
    /\ UNCHANGED <<current, started, filters, reader, timeline, overlapped>>

\* A later generation replaces the one before; the session never goes back.
\* (With HLS viewers it waits for playlistLoop first, without them it does not.)
PromoteProducer(g) ==
    /\ g \in current + 1 .. started
    /\ current' = g
    /\ UNCHANGED <<started, written, filters, reader, timeline, overlapped>>

-----------------------------------------------------------------------------
(* One read of a playlist.                                                 *)

\* HLSPlaylistSnapshot of the session takes the producer and lets go of the
\* session's lock; playlistLoop reads for its own producer until that is ready.
Look(q) ==
    /\ reader[q] = Idle
    /\ timeline.mediaSequence <= MaxSequence
    /\ IF q \in Polls THEN current # 0 ELSE q <= started /\ q \notin bootstrapped
    /\ reader' = [reader EXCEPT ![q].pc = "looked",
                                ![q].generation = IF q \in Polls THEN current ELSE q]
    /\ overlapped' = (overlapped \/ \E p \in Readers : reader[p] # Idle)
    /\ UNCHANGED <<producers, filters, timeline>>

ReadPlaylist(q) ==
    /\ reader[q].pc = "looked"
    /\ written[reader[q].generation] > 0
    /\ reader' = [reader EXCEPT ![q].pc = "read", ![q].media = Playlist(reader[q].generation)]
    /\ UNCHANGED <<producers, filters, timeline, overlapped>>

\* The file is being rewritten, a segment is gone, or no fragment will do yet:
\* the poll is answered with the timeline as it stands, or refused.
ReadFails(q) ==
    /\ reader[q].pc \in {"looked", "read"}
    /\ reader[q].pc = "read" => reader[q].generation \notin bootstrapped
    /\ reader' = [reader EXCEPT ![q] = Idle]
    /\ UNCHANGED <<producers, filters, timeline, overlapped>>

\* The first read that finds a decoder-ready fragment drops what comes before
\* the newest such fragment, and remembers those names.
Bootstrap(q) ==
    LET g == reader[q].generation
        media == reader[q].media
    IN  /\ reader[q].pc = "read"
        /\ g \notin bootstrapped
        /\ \E start \in 1..Len(media) :
             /\ rejected' = [rejected EXCEPT ![g] = {media[i] : i \in 1..start - 1}]
             /\ suppressed' = [suppressed EXCEPT ![g] = rejected'[g]]
             /\ reader' = [reader EXCEPT
                             ![q].pc = "filtered",
                             ![q].media = SubSeq(media, start, Len(media))]
        /\ bootstrapped' = bootstrapped \cup {g}
        /\ UNCHANGED <<producers, timeline, overlapped>>

\* A filter that forgets the refused fragments after their first use.
SteadyWindow_Forgets(g, media) ==
    [media |-> Omitting(media, suppressed[g]), suppressed |-> {}]

\* steadyHLSWindow: the refused fragments are left out for as long as the
\* playlist names them.
SteadyWindow(g, media) ==
    [media |-> Omitting(media, suppressed[g]),
     suppressed |-> suppressed[g] \cap ToSet(media)]

Filter(q) ==
    LET g == reader[q].generation
        steady == SteadyWindow(g, reader[q].media)
    IN  /\ reader[q].pc = "read"
        /\ g \in bootstrapped
        /\ suppressed' = [suppressed EXCEPT ![g] = steady.suppressed]
        /\ reader' = [reader EXCEPT
                        ![q] = IF steady.media = <<>> THEN Idle
                               ELSE [@ EXCEPT !.pc = "filtered", !.media = steady.media]]
        /\ UNCHANGED <<producers, bootstrapped, rejected, timeline, overlapped>>

\* playlistLoop only wanted to know that there is a playable fragment.
LoopDone(q) ==
    /\ q \in Generations
    /\ reader[q].pc = "filtered"
    /\ reader' = [reader EXCEPT ![q] = Idle]
    /\ UNCHANGED <<producers, filters, timeline, overlapped>>

-----------------------------------------------------------------------------
(* hlsTimeline.update.                                                     *)

\* The unseen segments of a window, the first marked when the generation changes.
Additions(g, media) ==
    LET unseen == Omitting(media, timeline.seen)
    IN  [i \in 1..Len(unseen) |->
           [name |-> unseen[i],
            discontinuity |-> i = 1 /\ timeline.segments # <<>> /\ g # timeline.lastGeneration]]

Names(entries) == {entry.name : entry \in ToSet(entries)}
Marks(entries) == Cardinality({i \in DOMAIN entries : entries[i].discontinuity})

\* An update that forgets the marks that have left the window.
Updated_MarksUncounted(g, media) ==
    LET all == timeline.segments \o Additions(g, media)
        drop == IF Len(all) > Length THEN Len(all) - Length ELSE 0
    IN  [segments |-> SubSeq(all, drop + 1, Len(all)),
         seen |-> Names(SubSeq(all, drop + 1, Len(all))),
         mediaSequence |-> timeline.mediaSequence + drop,
         discontinuitySequence |-> timeline.discontinuitySequence,
         lastGeneration |-> g]

\* The window slides over what it drops; a dropped name may be listed again.
Updated(g, media) ==
    LET all == timeline.segments \o Additions(g, media)
        drop == IF Len(all) > Length THEN Len(all) - Length ELSE 0
    IN  [segments |-> SubSeq(all, drop + 1, Len(all)),
         seen |-> (timeline.seen \cup Names(all)) \ Names(SubSeq(all, 1, drop)),
         mediaSequence |-> timeline.mediaSequence + drop,
         discontinuitySequence |-> timeline.discontinuitySequence + Marks(SubSeq(all, 1, drop)),
         lastGeneration |-> IF Additions(g, media) = <<>> THEN timeline.lastGeneration ELSE g]

Publish(q) ==
    /\ q \in Polls
    /\ reader[q].pc = "filtered"
    /\ timeline' = Updated(reader[q].generation, reader[q].media)
    /\ reader' = [reader EXCEPT ![q] = Idle]
    /\ UNCHANGED <<producers, filters, overlapped>>

Next ==
    \/ StartProducer
    \/ \E g \in Generations :
         WriteSegment(g) \/ PromoteProducer(g)
    \/ \E q \in Readers :
         \/ Look(q) \/ ReadPlaylist(q) \/ ReadFails(q) \/ Bootstrap(q) \/ Filter(q)
         \/ LoopDone(q) \/ Publish(q)

Spec == Init /\ [][Next]_vars

-----------------------------------------------------------------------------
(* Properties.                                                             *)

\* What a viewer sees at media sequence number n, and its discontinuity number.
Listed == timeline.mediaSequence + 1 .. timeline.mediaSequence + Len(timeline.segments)
At(n) == timeline.segments[n - timeline.mediaSequence]
DiscontinuityOf(n) ==
    timeline.discontinuitySequence
      + Marks(SubSeq(timeline.segments, 1, n - timeline.mediaSequence))

\* A media sequence number keeps its segment, its mark and its discontinuity
\* number for as long as the playlist lists it, numbers never go back, and none
\* is skipped: a player that polls again finds every fragment where it was.
SequenceNumbersFixed ==
    [][/\ timeline.mediaSequence' >= timeline.mediaSequence
       /\ timeline.mediaSequence' + Len(timeline'.segments)
            >= timeline.mediaSequence + Len(timeline.segments)
       /\ \A n \in Listed :
            n > timeline'.mediaSequence =>
              /\ At(n)' = At(n)
              /\ DiscontinuityOf(n)' = DiscontinuityOf(n)]_timeline

Before(s, t) == s[1] < t[1] \/ (s[1] = t[1] /\ s[2] < t[2])

\* The window is in the order the segments were made, none listed twice: "one
\* monotonic client-facing timeline" (hls_timeline.go:18-19).
WindowMonotonic ==
    \A i, j \in 1..Len(timeline.segments) :
      i < j => Before(timeline.segments[i].name, timeline.segments[j].name)

\* A fragment refused at startup is not listed: "Leading fragments emitted
\* while GStreamer's dynamic pads are still settling are deliberately omitted"
\* (hls_playlist.go:128-129).
RejectedStayHidden ==
    \A i \in 1..Len(timeline.segments) :
      \A g \in Generations : timeline.segments[i].name \notin rejected[g]

\* Polls one after another keep the window monotonic and free of refused
\* fragments across every replacement: only a poll that reads while another
\* merges can break either (HLSPlaylistSnapshot reads without the timeline's
\* lock and update appends what it has not seen).
TimelineTrueUnlessOverlapped == overlapped \/ (WindowMonotonic /\ RejectedStayHidden)
=============================================================================
