------------------------------ MODULE MCPlayback ------------------------------
(* Model-checking instance of what playback promises to do in the end: of   *)
(* the requests of players (StreamTuning), and of the pipeline of a session *)
(* (MediaPipeline).  A behaviour is one of one of them.                     *)
EXTENDS MCStreamTuning, MediaPipeline

CONSTANTS picture, sound, dub

VARIABLE part

(* A picture and two sound tracks: of one transport stream with no parser   *)
(* for the picture, or on pads of their own with none for the second sound. *)
PictureAndSound == [t \in Tracks |-> IF t = picture THEN "video" ELSE "audio"]
Parsable == IF source.transport THEN Tracks \ {picture} ELSE Tracks \ {dub}

PlaybackInit ==
    /\ part \in {"tuning", "pipeline"}
    /\ Init /\ PipelineInit /\ source.parsed = Parsable
    /\ part = "tuning" => ~source.transport

PlaybackNext ==
    \/ part = "tuning" /\ Next /\ UNCHANGED <<part, pipelineVars>>
    \/ part = "pipeline" /\ PipelineNext /\ UNCHANGED <<part, vars, scenario>>

(* Nothing of the other part is ever enabled that fairness asks for.        *)
PlaybackSpec ==
    /\ PlaybackInit /\ [][PlaybackNext]_<<part, vars, scenario, pipelineVars>>
    /\ Fairness /\ PipelineFairness

=============================================================================
