--------------------------- MODULE MCStreamSession ---------------------------
(* Model-checking instance of StreamSession. *)
EXTENDS StreamSession, TLC

CONSTANTS a, b

(* A channel with two ordered variants, and with the second one alone. *)
TwoSources == {<<a, b>>}
ChangingSources == {<<a, b>>, <<b>>}

TwoVariants(race, kinds) ==
    [coldRace |-> race, sources |-> <<a, b>>, requests |-> kinds]

(* What arrives together in the safety run: other sessions and tunes during *)
(* a cold race; tunes with restarts; failovers with restarts; failovers     *)
(* with viewers and a stop.                                                 *)
SafetyScenarios ==
    {TwoVariants(TRUE, {"tune", "other"}), TwoVariants(FALSE, {"tune", "restart"}),
     TwoVariants(FALSE, {"failover", "restart"}), TwoVariants(FALSE, {"failover", "viewer", "stop"})}

StopScenarios == {TwoVariants(TRUE, {"stop", "other"})}
PanicScenarios == {TwoVariants(FALSE, {"tune", "restart"})}

Symmetry == Permutations(Producers)

=============================================================================
