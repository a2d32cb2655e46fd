----------------------------- MODULE MCTimelines -----------------------------
(* Model-checking instance of what tells the course of a stream session: the *)
(* playlist of its segments, and its history.  A behaviour is one of one of  *)
(* them.                                                                     *)
EXTENDS HlsTimeline, StreamHistory, TLC

CONSTANTS q1, q2

VARIABLE part

(* The parts that a behaviour does not use stand still in one initial state. *)
TimelinesInit ==
    /\ part \in {"segments", "history"}
    /\ Init /\ HistoryInit

TimelinesNext ==
    \/ part = "segments" /\ Next /\ UNCHANGED <<part, historyVars>>
    \/ part = "history" /\ HistoryNext /\ UNCHANGED <<part, vars>>

TimelinesSpec == TimelinesInit /\ [][TimelinesNext]_<<part, vars, historyVars>>

Symmetry == Permutations(Polls)
=============================================================================
