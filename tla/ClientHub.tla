------------------------------ MODULE ClientHub ------------------------------
(***************************************************************************)
(* The fan-out hub of backend/pkg/streaming/hub.go.  One producer writes   *)
(* an MPEG-TS stream into a hub; every viewer owns a bounded queue; a late *)
(* viewer starts from a warm ring, and only at a place a decoder can start *)
(* at.  When the session changes source the hub is emptied and its viewers *)
(* are gated again until the new source offers such a place.               *)
(*                                                                         *)
(* A chunk is abstracted to what the hub looks for in it:                  *)
(*   "tv"       programme tables (PAT, PMT, clock) announcing video        *)
(*   "radio"    programme tables announcing audio only                     *)
(*   "headers"  the codec's parameter sets, in a packet of their own       *)
(*   "access"   a random-access frame                                      *)
(*   "delta"    anything else                                              *)
(* Every chunk, and the prefix of copied table packets, weighs one unit of *)
(* the byte budget.  The hub's mutex makes each operation one step; only   *)
(* Subscription.Next works outside it, in three steps.                     *)
(*                                                                         *)
(* An operator named Operation_Flaw is Operation with a plausible bug; the *)
(* specification does not use it.                                          *)
(***************************************************************************)
EXTENDS Naturals, Sequences, FiniteSets, SequencesExt, FiniteSetsExt

CONSTANTS Subs,          \* subscriptions, one per viewer
          Settings,      \* what a source may send, the byte budget, and the
                         \* bound of this model on the chunks published
          MaxSource      \* bound of this model: sources promoted

ASSUME HubAssumption ==
    /\ \A x \in Settings :
         /\ x.kinds \subseteq {"tv", "radio", "headers", "access", "delta"}
         /\ x.maxClient \in Nat \ {0, 1}
         /\ x.maxPublished \in Nat
    /\ MaxSource \in Nat \ {0}

VARIABLES
    ring,       \* the warm chunks, oldest first
    programme,  \* what the latest tables announced: "none", "tv", "radio"
    unit,       \* first chunk of the access unit being assembled, 0 if none
    sequence,   \* nextSequence
    shut,       \* Hub.closed
    sub,        \* the subscriptions and their readers
    bridge,     \* the goroutine that copies the current source into the hub
    setting     \* this behaviour's member of Settings, never changed

hub  == <<ring, programme, unit, sequence, shut, sub, bridge>>
hubVars == <<hub, setting>>

ChunkKinds == setting.kinds
MaxClient == setting.maxClient           \* maxClientBytes
MaxPublished == setting.maxPublished

Tables  == {"tv", "radio"}
MaxRing == MaxClient \div 2

\* A chunk: its start is the chunk a decoder has to begin with when this chunk
\* completes a random-access unit (bootstrapSequence), 0 for every other chunk.
CopiedTables(source) == [kind |-> "prefix", seq |-> 0, source |-> source, start |-> 0]
Nothing == [kind |-> "none", seq |-> 0, source |-> 0, start |-> 0]

Fresh == [pc |-> "new", queue |-> <<>>, pending |-> 0, waiting |-> FALSE,
          closed |-> "no", seen |-> Nothing]

HubInit ==
    /\ ring = <<>>
    /\ programme = "none"
    /\ unit = 0
    /\ sequence = 0
    /\ shut = FALSE
    /\ sub = [s \in Subs |-> Fresh]
    /\ bridge = [source |-> 1, pc |-> "pulling", kind |-> "none", cancelled |-> FALSE]
    /\ setting \in Settings

-----------------------------------------------------------------------------
(* Where a decoder can start.                                              *)

\* The chunks of ring r a decoder can start at under programme p.  Video needs
\* the first chunk of a complete random-access unit with its tables still in
\* front of it; audio needs only its tables.
StartsOf(r, p) ==
    CASE p = "tv" -> {j \in DOMAIN r :
                        /\ \E i \in j..Len(r) : r[i].start = r[j].seq
                        /\ \E k \in 1..(j - 1) : r[k].kind = "tv"}
      [] p = "radio" -> {j \in DOMAIN r : r[j].kind = "radio"}
      [] OTHER -> {}

\* What a viewer released on ring r is given: the latest place to start, in
\* front of it, for video, the copied tables.
Bootstrap(r, p) ==
    LET from == Max(StartsOf(r, p))
    IN (IF p = "tv" THEN <<CopiedTables(r[from].source)>> ELSE <<>>)
         \o SubSeq(r, from, Len(r))

-----------------------------------------------------------------------------
(* Queues.                                                                 *)

Open(s) == sub[s].pc # "new" /\ sub[s].closed = "no"

Drop(q, reason) == [q EXCEPT !.closed = reason]

\* enqueueLocked: a chunk that does not fit costs the viewer its subscription.
Enqueue(q, chunk) ==
    IF q.closed # "no" THEN q
    ELSE IF q.pending + 1 > MaxClient THEN Drop(q, "slow_client_dropped")
    ELSE [q EXCEPT !.queue = Append(@, chunk), !.pending = @ + 1]

\* The same for several: the chunks before the first that does not fit go in.
EnqueueAll(q, chunks) ==
    LET room == MaxClient - q.pending
    IN IF Len(chunks) <= room
       THEN [q EXCEPT !.queue = @ \o chunks, !.pending = @ + Len(chunks)]
       ELSE Drop([q EXCEPT !.queue = @ \o SubSeq(chunks, 1, room), !.pending = MaxClient],
                 "slow_client_dropped")

\* releaseWaitingLocked for a gated viewer, enqueueLocked for the others.
Deliver(q, r, p) ==
    IF ~q.waiting THEN Enqueue(q, Last(r))
    ELSE IF StartsOf(r, p) = {} THEN q
    ELSE EnqueueAll([q EXCEPT !.waiting = FALSE], Bootstrap(r, p))

-----------------------------------------------------------------------------
(* The producer's side.                                                    *)

\* inspectCodecBootstrapLocked: headers open a unit, whatever follows carries
\* them on until a random-access frame uses them up.
Opened(kind, seq) ==
    IF kind = "headers" /\ unit = 0 THEN seq
    ELSE IF kind = "access" THEN 0
    ELSE unit

\* The ring forgets its oldest chunk once it is over its budget.
Trim(r) == IF Len(r) > MaxRing THEN Tail(r) ELSE r

Publish(kind) ==
    LET p   == IF kind \in Tables THEN kind ELSE programme
        seq == sequence + 1
        new == [kind |-> kind, seq |-> seq, source |-> bridge.source,
                start |-> IF p = "tv" /\ kind = "access" THEN unit ELSE 0]
        kept == Trim(Append(ring, new))
    IN /\ programme' = p
       /\ sequence' = seq
       /\ unit' = IF p = "tv" THEN Opened(kind, seq) ELSE unit
       /\ ring' = kept
       /\ sub' = [s \in Subs |-> IF Open(s) THEN Deliver(sub[s], kept, p) ELSE sub[s]]

\* The bridge takes a chunk from the source's own hub ...
Pull(kind) ==
    /\ bridge.pc = "pulling"
    /\ sequence < MaxPublished
    /\ bridge' = [bridge EXCEPT !.pc = "holding", !.kind = kind]
    /\ UNCHANGED <<ring, programme, unit, sequence, shut, sub>>

\* ... and publishes it, unless the hub has been closed.
BridgePublish ==
    /\ bridge.pc = "holding"
    /\ bridge' = [bridge EXCEPT !.pc = "pulling", !.kind = "none"]
    /\ IF shut THEN UNCHANGED <<ring, programme, unit, sequence, sub>>
       ELSE Publish(bridge.kind)
    /\ UNCHANGED shut

\* The session's context ends or stopManagedBridge runs: the bridge's own
\* subscription is closed, which also wakes it.
CancelBridge ==
    /\ ~bridge.cancelled
    /\ bridge' = [bridge EXCEPT !.cancelled = TRUE]
    /\ UNCHANGED <<ring, programme, unit, sequence, shut, sub>>

BridgeExit ==
    /\ bridge.pc = "pulling"
    /\ bridge.cancelled
    /\ bridge' = [bridge EXCEPT !.pc = "done"]
    /\ UNCHANGED <<ring, programme, unit, sequence, shut, sub>>

\* ResetForDiscontinuity.
Reset ==
    /\ ring' = <<>>
    /\ programme' = "none"
    /\ unit' = 0
    /\ sub' = [s \in Subs |->
                 IF Open(s) THEN [sub[s] EXCEPT !.queue = <<>>, !.pending = 0, !.waiting = TRUE]
                 ELSE sub[s]]

NextSource == [source |-> bridge.source + 1, pc |-> "pulling", kind |-> "none",
               cancelled |-> FALSE]

\* Cancels the old bridge without waiting for it: what it held comes out later.
Promote_NoWait ==
    /\ bridge.cancelled
    /\ bridge.source < MaxSource
    /\ bridge.pc = "holding"
    /\ Reset
    /\ bridge' = [bridge EXCEPT !.cancelled = FALSE]
    /\ UNCHANGED <<sequence, shut>>

\* promoteProducer: the old bridge has ended, the hub is emptied, the next
\* source's bridge starts.
Promote ==
    /\ bridge.pc = "done"
    /\ bridge.source < MaxSource
    /\ Reset
    /\ bridge' = NextSource
    /\ UNCHANGED <<sequence, shut>>

\* Hub.Close.
Close ==
    /\ ~shut
    /\ shut' = TRUE
    /\ ring' = <<>>
    /\ sub' = [s \in Subs |-> IF Open(s) THEN Drop(sub[s], "hub_closed") ELSE sub[s]]
    /\ UNCHANGED <<programme, unit, sequence, bridge>>

-----------------------------------------------------------------------------
(* The viewer's side.                                                      *)

Entry ==
    IF shut THEN [Fresh EXCEPT !.pc = "idle", !.closed = "closed"]
    ELSE IF StartsOf(ring, programme) = {}
    THEN [Fresh EXCEPT !.pc = "idle", !.waiting = TRUE]
    ELSE LET boot == Bootstrap(ring, programme)
         IN [Fresh EXCEPT !.pc = "idle", !.queue = boot, !.pending = Len(boot)]

Subscribe(s) ==
    /\ sub[s].pc = "new"
    /\ sub' = [sub EXCEPT ![s] = Entry]
    /\ UNCHANGED <<ring, programme, unit, sequence, shut, bridge>>

\* What is left of a subscription whose reader has ended.
Over == [Fresh EXCEPT !.pc = "ended", !.closed = "over"]

\* Next, first step: a closed subscription ends the reader.
Check(s) ==
    /\ sub[s].pc = "idle"
    /\ sub' = [sub EXCEPT ![s] = IF @.closed = "no" THEN [@ EXCEPT !.pc = "receiving"] ELSE Over]
    /\ UNCHANGED <<ring, programme, unit, sequence, shut, bridge>>

\* Next, second step, outside the mutex: receive, or learn that the channel
\* was closed and is empty.
Receive(s) ==
    /\ sub[s].pc = "receiving"
    /\ \/ /\ sub[s].queue # <<>>
          /\ sub' = [sub EXCEPT ![s].pc = "counting",
                                ![s].seen = Head(sub[s].queue),
                                ![s].queue = Tail(@)]
       \/ /\ sub[s].queue = <<>>
          /\ sub[s].closed # "no"
          /\ sub' = [sub EXCEPT ![s] = Over]
    /\ UNCHANGED <<ring, programme, unit, sequence, shut, bridge>>

\* Next, third step: the byte count follows; never below zero.
Count(s) ==
    /\ sub[s].pc = "counting"
    /\ sub' = [sub EXCEPT ![s].pc = "idle",
                          ![s].pending = IF @ >= 1 THEN @ - 1 ELSE 0]
    /\ UNCHANGED <<ring, programme, unit, sequence, shut, bridge>>

\* Subscription.Close, by the response writer or, through the client's close
\* callback, by the session.
Unsubscribe(s) ==
    /\ Open(s)
    /\ sub' = [sub EXCEPT ![s] = Drop(sub[s], "subscription_closed")]
    /\ UNCHANGED <<ring, programme, unit, sequence, shut, bridge>>

ProducerNext ==
    \/ \E kind \in ChunkKinds : Pull(kind)
    \/ BridgePublish
    \/ CancelBridge
    \/ BridgeExit
    \/ Promote
    \/ Close

Read(s) == Check(s) \/ Receive(s) \/ Count(s)

HubNext ==
    /\ \/ ProducerNext
       \/ \E s \in Subs : Subscribe(s) \/ Read(s) \/ Unsubscribe(s)
    /\ UNCHANGED setting

HubSpec == HubInit /\ [][HubNext]_hubVars

-----------------------------------------------------------------------------
(* Properties.                                                             *)

\* Chunk b may reach a decoder right after chunk a.
Continues(a, b) ==
    \/ b.source = a.source /\ b.seq = a.seq + 1 /\ b.kind # "prefix" /\ a.seq > 0
    \/ b.source = a.source /\ a.kind = "prefix" /\ b.kind = "headers"
    \/ b.source > a.source /\ b.kind \in {"prefix", "radio"}

\* What a viewer has last received, followed by what waits in its queue.
Stream(s) == IF sub[s].seen = Nothing THEN <<Nothing>> \o sub[s].queue
             ELSE <<sub[s].seen>> \o sub[s].queue

\* Every viewer's stream can be decoded: it begins, and begins again after each
\* change of source, with tables and a whole access unit; from there on no
\* chunk is missing, repeated or out of order; and nothing of an earlier source
\* follows anything of a later one (publish, Subscribe, releaseWaitingLocked,
\* ResetForDiscontinuity, promoteProducer).
StreamDecodable ==
    \A s \in Subs : \A i \in 1..(Len(Stream(s)) - 1) :
        Continues(Stream(s)[i], Stream(s)[i + 1])

=============================================================================
