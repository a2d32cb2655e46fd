--------------------------- MODULE MCStreamTuning ---------------------------
(* Model-checking instance of StreamTuning: one pool for every stream. *)
EXTENDS StreamTuning, TLC

OnePool == [s \in Streams |-> 1]

Scenario(limit, kinds, protocols) ==
    [limit |-> limit, kinds |-> kinds, protocols |-> protocols]

(* The safety run: players that switch on one connection, over both        *)
(* transports, and tunes that race with prewarms on two connections.       *)
SafetyScenarios ==
    {Scenario(1, {"tune", "release"}, {"hls", "mpegts"}),
     Scenario(2, {"tune", "prewarm"}, {"hls"})}

AnswerScenarios == {Scenario(1, {"tune", "release", "prewarm", "asset"}, {"hls"})}
ReleaseScenarios == {Scenario(1, {"tune", "release"}, {"hls"})}

Symmetry == Permutations(Requests) \cup Permutations(Streams) \cup Permutations(Players)

=============================================================================
