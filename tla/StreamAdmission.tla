--------------------------- MODULE StreamAdmission ---------------------------
(***************************************************************************)
(* The concurrency gate in front of every new stream                       *)
(* (backend/pkg/middleware/stream_admission.go), as GetStream and          *)
(* GetHlsStream of backend/app/controllers/stream_controller.go drive it:  *)
(* is the viewer known already; how many viewers are active; reserve a     *)
(* place under the gate's lock; start; register the viewer; give the       *)
(* reservation back.  Viewers are counted under the sessions' locks, so    *)
(* the count is old when the gate decides.                                 *)
(*                                                                         *)
(* The rate budget the gate also consults is a free choice here.           *)
(* Operation_Flaw is Operation with a plausible bug (ConnectionLimiter).   *)
(***************************************************************************)
EXTENDS Naturals, Sequences, FiniteSets, SequencesExt, Filtering

CONSTANTS
    Requests,     \* HTTP requests for a stream
    Viewers,      \* viewer identities (hlsViewerID, or one of its own for MPEG-TS)
    Credentials,  \* browser sessions, media keys, virtual lineups
    Users,        \* accounts
    Owner,        \* the account of each credential, or NoOwner
    NoOwner,       \* the owner of a virtual lineup; also an absent viewer
    Metered,      \* the credentials with a limit of their own
    UserLimit,    \* max_concurrent_streams_per_user
    KeyLimit      \* max_concurrent_streams_per_key, or the tuner count

ASSUME AdmissionAssumption ==
    /\ NoOwner \notin Users \cup Credentials
    /\ Owner \in [Credentials -> Users \cup {NoOwner}]
    /\ Metered \subseteq Credentials
    /\ Credentials \cap Users = {}
    /\ UserLimit \in Nat \ {0}
    /\ KeyLimit \in Nat \ {0}

VARIABLES
    request,       \* the handlers
    viewer,        \* the viewers the sessions hold
    reservations,  \* streamReservations.items: what each key has reserved
    expired        \* requests whose 45 seconds are over

admissionVars == <<request, viewer, reservations, expired>>

\* The keys a reservation is filed under: the owner's and the credential's.
Places == Users \cup Credentials
KeysOf(c) == IF c = NoOwner THEN {}
             ELSE ({Owner[c]} \ {NoOwner}) \cup ({c} \cap Metered)
LimitOf(k) == IF k \in Users THEN UserLimit ELSE KeyLimit

Absent == [by |-> NoOwner, active |-> FALSE]
Active(v) == viewer[v].active

\* The active viewers that count against place k.
Watching(k) == {v \in Viewers : Active(v) /\ k \in KeysOf(viewer[v].by)}

\* The requests that have reserved place k and not given it back.
Holding(k) == {r \in Requests :
                 request[r].pc \in {"admitted", "registered", "failed"} /\ k \in request[r].keys}

NewRequest == [pc |-> "new", by |-> NoOwner, viewer |-> NoOwner, count |-> <<>>,
               keys |-> {}, overlapped |-> FALSE]

\* The handler has answered: its locals are gone.
Answer(r, pc) == [request EXCEPT ![r] = [NewRequest EXCEPT !.pc = pc,
                                                          !.overlapped = request[r].overlapped]]

AdmissionInit ==
    /\ request = [r \in Requests |-> NewRequest]
    /\ viewer = [v \in Viewers |-> Absent]
    /\ reservations = [k \in Places |-> <<>>]
    /\ expired = {}

-----------------------------------------------------------------------------
\* beginStreamAdmission asks activeViewerForRequest first: an existing viewer
\* passes the gate without a reservation.
Arrive(r, c, v) ==
    /\ request[r].pc = "new"
    /\ request' = [request EXCEPT
                     ![r].pc = IF Active(v) THEN "admitted" ELSE "arrived",
                     ![r].by = c, ![r].viewer = v]
    /\ UNCHANGED <<viewer, reservations, expired>>

\* ActiveViewerCounts, before the gate's lock.
CountViewers(r) ==
    /\ request[r].pc = "arrived"
    /\ request' = [request EXCEPT
                     ![r].pc = "counted",
                     ![r].count = [k \in KeysOf(request[r].by) |-> Cardinality(Watching(k))]]
    /\ UNCHANGED <<viewer, reservations, expired>>

\* pruneStreamReservations.
LiveReservations == [k \in Places |-> Omitting(reservations[k], expired)]

\* A gate that looks at the viewers alone.
AtLimit_ViewersOnly(r, k) == request[r].count[k] >= LimitOf(k)

AtLimit(r, k) == request[r].count[k] + Len(LiveReservations[k]) >= LimitOf(k)

RefuseStart(r) ==
    /\ request[r].pc = "counted"
    /\ \E k \in KeysOf(request[r].by) : AtLimit(r, k)
    /\ request' = Answer(r, "refused")
    /\ reservations' = LiveReservations
    /\ UNCHANGED <<viewer, expired>>

\* The rate budget is used up.
RefuseRate(r) ==
    /\ request[r].pc = "counted"
    /\ \A k \in KeysOf(request[r].by) : ~AtLimit(r, k)
    /\ request' = Answer(r, "throttled")
    /\ reservations' = LiveReservations
    /\ UNCHANGED <<viewer, expired>>

AdmitStreamStart(r) ==
    /\ request[r].pc = "counted"
    /\ \A k \in KeysOf(request[r].by) : ~AtLimit(r, k)
    /\ request' = [request EXCEPT ![r].pc = "admitted", ![r].keys = KeysOf(request[r].by),
                               ![r].count = <<>>]
    /\ reservations' = [k \in Places |-> IF k \in KeysOf(request[r].by)
                                         THEN Append(LiveReservations[k], r) ELSE LiveReservations[k]]
    /\ UNCHANGED <<viewer, expired>>

-----------------------------------------------------------------------------
\* RegisterClient: an active viewer stays, an ended one is revived under the
\* metadata it had, an unknown one is recorded with the request's.
Registered(r) ==
    LET v == request[r].viewer
    IN IF viewer[v].by = NoOwner THEN [by |-> request[r].by, active |-> TRUE]
       ELSE [viewer[v] EXCEPT !.active = TRUE]

\* The request adds an active viewer.
Adds(r) == ~Active(request[r].viewer)

\* The session is there and takes the viewer.  Two things are remembered for the
\* properties: a request that has counted and not decided does not see the new
\* viewer; and the viewer may count against places this request has not
\* reserved, when it passed as an existing viewer that has ended since or
\* revives one that another credential had left.
RegisterClient(r) ==
    /\ request[r].pc = "admitted"
    /\ viewer' = [viewer EXCEPT ![request[r].viewer] = Registered(r)]
    /\ request' = [q \in Requests |->
         CASE q = r -> [request[r] EXCEPT !.pc = "registered",
                          !.overlapped = @ \/ (Adds(r) /\ ~(KeysOf(Registered(r).by) \subseteq request[r].keys))]
           [] q # r /\ request[q].pc = "counted" /\ Adds(r)
                -> [request[q] EXCEPT !.overlapped = TRUE]
           [] OTHER -> request[q]]
    /\ UNCHANGED <<reservations, expired>>

\* The session does not start, or is stopping when the viewer registers.
StartFails(r) ==
    /\ request[r].pc = "admitted"
    /\ request' = [request EXCEPT ![r].pc = "failed"]
    /\ UNCHANGED <<viewer, reservations, expired>>

\* StreamAdmissionLease.Release: each key loses its oldest reservation,
\* whoever made it.
Shortened(k) == IF Len(reservations[k]) <= 1 THEN <<>> ELSE Tail(reservations[k])

\* Gives the reservation back on the good path only.
Released_OnSuccess(r) == [k \in Places |->
    IF k \in request[r].keys /\ request[r].pc = "registered" THEN Shortened(k)
    ELSE reservations[k]]

Released(r) == [k \in Places |->
    IF k \in request[r].keys THEN Shortened(k) ELSE reservations[k]]

ReleaseReservation(r) ==
    /\ request[r].pc \in {"registered", "failed"}
    /\ reservations' = Released(r)
    /\ request' = Answer(r, "done")
    /\ UNCHANGED <<viewer, expired>>

\* The viewer ends; its session may forget it or keep it for a reconnect.
ViewerLeaves(v) ==
    /\ Active(v)
    /\ \/ viewer' = [viewer EXCEPT ![v].active = FALSE]
       \/ viewer' = [viewer EXCEPT ![v] = Absent]
    /\ UNCHANGED <<request, reservations, expired>>

\* 45 seconds pass over a reservation, the oldest ones first.
ReservationExpires(r) ==
    /\ r \notin expired
    /\ \E k \in Places : Contains(reservations[k], r)
    /\ \A k \in Places : \A i, j \in DOMAIN reservations[k] :
         reservations[k][j] = r /\ i < j => reservations[k][i] \in expired
    /\ expired' = expired \cup {r}
    /\ UNCHANGED <<request, viewer, reservations>>

Handle(r) ==
    \/ \E c \in Credentials, v \in Viewers : Arrive(r, c, v)
    \/ CountViewers(r)
    \/ RefuseStart(r)
    \/ RefuseRate(r)
    \/ AdmitStreamStart(r)
    \/ RegisterClient(r)
    \/ StartFails(r)
    \/ ReleaseReservation(r)

AdmissionNext ==
    \/ \E r \in Requests : Handle(r) \/ ReservationExpires(r)
    \/ \E v \in Viewers : ViewerLeaves(v)

AdmissionSpec == AdmissionInit /\ [][AdmissionNext]_admissionVars

-----------------------------------------------------------------------------
(* Properties.                                                             *)

\* As long as no reservation has run out, every key counts exactly the requests
\* that hold it, although Release takes the oldest entry and not its own: none
\* is leaked on any path, and none is taken twice.
ReservationsMatch ==
    expired = {} => \A k \in Places : Len(reservations[k]) = Cardinality(Holding(k))

Streams(k) == Cardinality(Watching(k) \cup
    {request[r].viewer : r \in Holding(k)})

Overlapped == \E r \in Requests : request[r].overlapped

\* An account or a credential has more streams than its limit only after a
\* viewer registered between another request's count and its decision, or
\* registered against a place not reserved for it, or outlived its reservation.
OverLimitOnlyByOverlap ==
    \A k \in Places : Streams(k) > LimitOf(k) => Overlapped \/ expired # {}
=============================================================================
