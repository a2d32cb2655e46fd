----------------------------- MODULE StreamHistory -----------------------------
(* The history of a stream session.  The session and its viewers change     *)
(* under the session's lock; what changed is put in a bounded queue after   *)
(* the lock is released (observeConnection, observeSession, emitEvent); one *)
(* goroutine writes the queue to the database (streamObserver.run), where a *)
(* connection needs the row of its session; retention removes ended         *)
(* sessions, and a restart ends the ones it finds open.                     *)
(*                                                                          *)
(* One session is followed; events only take room in the queue.             *)
EXTENDS Integers, Sequences, FiniteSets

CONSTANTS
    HistoryClients,  \* viewers of the session
    QueueSize,       \* capacity of the queue (2048 in the code)
    MaxRecords       \* connections opened or closed in a behaviour: bounds the state

ASSUME HistoryAssumption ==
    QueueSize \in Nat \ {0} /\ MaxRecords \in Nat /\ "none" \notin HistoryClients

VARIABLES
    stage,          \* the session: starting, live, ended, completing, gone; or the process is down
    refusing,       \* whether its state is stopping or stopped; a failed session still takes viewers
    watching,       \* viewer -> "absent", "open", "ended" or "terminated"
    toTell,         \* records a goroutine has yet to put in the queue
    queue,
    sessionRow,     \* "none", "open" or "ended"
    connectionRow,  \* viewer -> "none", "open" or "ended"
    leaving,        \* viewers observeCompleted has yet to close
    doubtful,       \* viewers whose last record may be lost or out of order
    records
historyVars == <<stage, refusing, watching, toTell, queue, sessionRow, connectionRow, leaving, doubtful, records>>

Connection(c, row, by) == [what |-> "connection", client |-> c, row |-> row, by |-> by]
SessionRecord(row) == [what |-> "session", client |-> "none", row |-> row, by |-> "run"]
Told(c) == \E i \in DOMAIN queue : queue[i].what = "connection" /\ queue[i].client = c
Pending(c) == \E r \in toTell : r.client = c

HistoryInit ==
    /\ stage = "starting" /\ refusing = FALSE
    /\ watching = [c \in HistoryClients |-> "absent"]
    /\ toTell = {SessionRecord("open")}
    /\ queue = <<>> /\ sessionRow = "none" /\ connectionRow = [c \in HistoryClients |-> "none"]
    /\ leaving = {} /\ doubtful = {} /\ records = 0

(* A viewer's state changes under the lock and its record is left to tell.  *)
(* Two records of a viewer waiting at once may be told in either order.     *)
End(c, state, by) ==
    /\ records' = records + 1
    /\ watching' = [watching EXCEPT ![c] = state]
    /\ toTell' = toTell \cup {Connection(c, "ended", by)}
    /\ doubtful' = IF Pending(c) THEN doubtful \cup {c} ELSE doubtful

(* The first record of the session is told once other requests can find it; *)
(* the session runs from then on, or ends at once when it was stopped.      *)
TellSession ==
    /\ stage = "starting" /\ SessionRecord("open") \notin toTell
    /\ stage' = IF refusing THEN "ended" ELSE "live"
    /\ UNCHANGED <<refusing, watching, toTell, queue, sessionRow, connectionRow, leaving, doubtful, records>>

(* RegisterClient: a session that stops takes nobody; one that has failed   *)
(* does.  A viewer that ended is resumed, one a user terminated is refused. *)
RegisterViewer(c) ==
    /\ ~refusing /\ stage # "down" /\ records < MaxRecords
    /\ watching[c] \in {"absent", "ended"}
    /\ records' = records + 1
    /\ watching' = [watching EXCEPT ![c] = "open"]
    /\ toTell' = toTell \cup {Connection(c, "open", "viewer")}
    /\ doubtful' = IF Pending(c) \/ stage \in {"completing", "gone"} THEN doubtful \cup {c} ELSE doubtful
    /\ UNCHANGED <<stage, refusing, queue, sessionRow, connectionRow, leaving>>

(* CloseClient, by the viewer's own response, by a revocation, by the       *)
(* sampler when it has been silent for too long, or by an administrator.    *)
CloseViewer(c) ==
    /\ stage # "down" /\ watching[c] = "open"
    /\ \E state \in {"ended", "terminated"} : End(c, state, "viewer")
    /\ UNCHANGED <<stage, refusing, queue, sessionRow, connectionRow, leaving>>

(* sample forgets a viewer some time after it ended: a terminated one may   *)
(* then register again.                                                     *)
ForgetViewer(c) ==
    /\ stage \notin {"gone", "down"}
    /\ watching[c] \in {"ended", "terminated"}
    /\ watching' = [watching EXCEPT ![c] = "absent"]
    /\ UNCHANGED <<stage, refusing, toTell, queue, sessionRow, connectionRow, leaving, doubtful, records>>

(* requestStop ends every viewer in one step; each is then told.            *)
StopSession ==
    /\ stage \notin {"gone", "down"}
    /\ stage' = IF stage = "live" THEN "ended" ELSE stage
    /\ refusing' = TRUE /\ ~refusing
    /\ LET open == {c \in HistoryClients : watching[c] = "open"} IN
        /\ watching' = [c \in HistoryClients |-> IF c \in open THEN "ended" ELSE watching[c]]
        /\ toTell' = toTell \cup {Connection(c, "ended", "stop") : c \in open}
        /\ doubtful' = doubtful \cup {c \in open : Pending(c)}
    /\ UNCHANGED <<queue, sessionRow, connectionRow, leaving, records>>

(* failInitial: the session has failed and leaves its viewers to            *)
(* observeCompleted.                                                        *)
FailSession ==
    /\ stage = "live"
    /\ stage' = "ended"
    /\ UNCHANGED <<refusing, watching, toTell, queue, sessionRow, connectionRow, leaving, doubtful, records>>

(* observeCompleted: the viewers are listed, closed one by one, and the end *)
(* of the session is told last.                                             *)
BeginCompletion ==
    /\ stage = "ended"
    /\ leaving' = {c \in HistoryClients : watching[c] # "absent"}
    /\ stage' = "completing"
    /\ UNCHANGED <<refusing, watching, toTell, queue, sessionRow, connectionRow, doubtful, records>>

CompleteViewer_Omitted(c) ==
    /\ stage = "completing" /\ c \in leaving
    /\ leaving' = leaving \ {c}
    /\ UNCHANGED <<stage, refusing, watching, toTell, queue, sessionRow, connectionRow, doubtful, records>>

CompleteViewer(c) ==
    /\ stage = "completing" /\ c \in leaving /\ ~(\E r \in toTell : r.by = "run")
    /\ leaving' = leaving \ {c}
    /\ IF watching[c] = "open" THEN End(c, "ended", "run")
       ELSE UNCHANGED <<watching, toTell, doubtful, records>>
    /\ UNCHANGED <<stage, refusing, queue, sessionRow, connectionRow>>

CompleteSession ==
    /\ stage = "completing" /\ leaving = {} /\ ~(\E r \in toTell : r.by = "run")
    /\ toTell' = toTell \cup {SessionRecord("ended")}
    /\ stage' = "gone"
    /\ UNCHANGED <<refusing, watching, queue, sessionRow, connectionRow, leaving, doubtful, records>>

---------------------------------------------------------------------------
(* Observe: a full queue drops the record.                                  *)
Tell(r) ==
    /\ stage # "down"
    /\ toTell' = toTell \ {r}
    /\ IF Len(queue) < QueueSize
       THEN queue' = Append(queue, r) /\ UNCHANGED doubtful
       ELSE UNCHANGED queue /\ doubtful' = doubtful \cup {r.client}
    /\ UNCHANGED <<stage, refusing, watching, sessionRow, connectionRow, leaving, records>>

(* Events fill the queue as any record does.                                *)
TellEvent ==
    /\ stage # "down" /\ Len(queue) < QueueSize
    /\ queue' = Append(queue, [what |-> "event", client |-> "none", row |-> "none", by |-> "viewer"])
    /\ UNCHANGED <<stage, refusing, watching, toTell, sessionRow, connectionRow, leaving, doubtful, records>>

(* The writer: the row of a session is inserted or replaced, that of a      *)
(* connection only when its session has one.  An error is logged and the    *)
(* record is lost.                                                          *)
WriteRecord ==
    /\ stage # "down" /\ queue # <<>>
    /\ LET r == Head(queue)
           kept == r.what = "connection" => sessionRow # "none" IN
        /\ sessionRow' = IF r.what = "session" THEN r.row ELSE sessionRow
        /\ connectionRow' = IF r.what = "connection" /\ kept THEN [connectionRow EXCEPT ![r.client] = r.row] ELSE connectionRow
        /\ doubtful' = IF kept THEN doubtful ELSE doubtful \cup {r.client}
    /\ queue' = Tail(queue)
    /\ UNCHANGED <<stage, refusing, watching, toTell, leaving, records>>

WriteIsLost ==
    /\ stage # "down" /\ queue # <<>>
    /\ doubtful' = doubtful \cup {Head(queue).client}
    /\ queue' = Tail(queue)
    /\ UNCHANGED <<stage, refusing, watching, toTell, sessionRow, connectionRow, leaving, records>>

(* PruneRetentionData: an ended session goes with its connections.          *)
PruneHistory ==
    /\ sessionRow = "ended"
    /\ sessionRow' = "none" /\ connectionRow' = [c \in HistoryClients |-> "none"]
    /\ UNCHANGED <<stage, refusing, watching, toTell, queue, leaving, doubtful, records>>

(* The process stops; ReconcileStreamSessions ends the session's row when   *)
(* it starts again, and leaves those of its connections as they are.        *)
ProcessStops ==
    /\ stage # "down"
    /\ stage' = "down" /\ queue' = <<>> /\ toTell' = {} /\ leaving' = {}
    /\ watching' = [c \in HistoryClients |-> "absent"]
    /\ doubtful' = doubtful \cup {c \in HistoryClients : watching[c] = "open" \/ Pending(c) \/ Told(c)}
    /\ UNCHANGED <<refusing, sessionRow, connectionRow, records>>

ReconcileSession ==
    /\ stage = "down" /\ sessionRow = "open"
    /\ sessionRow' = "ended"
    /\ UNCHANGED <<stage, refusing, watching, toTell, queue, connectionRow, leaving, doubtful, records>>

HistoryNext ==
    \/ TellSession \/ StopSession \/ FailSession \/ BeginCompletion \/ CompleteSession
    \/ TellEvent \/ WriteRecord \/ WriteIsLost \/ PruneHistory \/ ProcessStops \/ ReconcileSession
    \/ \E r \in toTell : Tell(r)
    \/ \E c \in HistoryClients : RegisterViewer(c) \/ CloseViewer(c) \/ ForgetViewer(c) \/ CompleteViewer(c)
HistorySpec == HistoryInit /\ [][HistoryNext]_historyVars

---------------------------------------------------------------------------
(* Once everything told is written, the history says who watches: the row   *)
(* of a viewer is open exactly while the viewer is and the session lasts,   *)
(* after a close, a resumption, a stop or a failure.  Not so for one whose  *)
(* record was dropped, lost or told before its session's, who closed and    *)
(* resumed so fast that two records waited at once, who registered with a   *)
(* session that had failed, or who watched when the process stopped: such a *)
(* row can stay open under a session that has ended, for as long as         *)
(* retention keeps the session.                                             *)
HistoryTellsWhoWatches ==
    queue = <<>> /\ toTell = {} /\ sessionRow # "none" =>
        \A c \in HistoryClients \ doubtful : (connectionRow[c] = "open") = (watching[c] = "open" /\ stage # "gone")
=============================================================================
