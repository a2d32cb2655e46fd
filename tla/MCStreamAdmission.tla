-------------------------- MODULE MCStreamAdmission --------------------------
(* Model values for the run of StreamAdmission: a browser session and a     *)
(* media key of one account, and a virtual lineup that has none.            *)
EXTENDS StreamAdmission, TLC

CONSTANTS web, key, tuner, anna

OwnerOf == [c \in Credentials |-> IF c = tuner THEN NoOwner ELSE anna]

Symmetry == Permutations(Requests) \cup Permutations(Viewers)

=============================================================================
