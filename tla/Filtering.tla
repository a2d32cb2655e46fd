------------------------------ MODULE Filtering ------------------------------
(***************************************************************************)
(* The loop "keep what is not in a set, in order" that the streaming code  *)
(* writes in several places: pruneStreamReservations, steadyHLSWindow and  *)
(* hlsTimeline.update.  It is written as a recursive function, so that     *)
(* FilteringProofs can say what it returns for every sequence (SelectSeq   *)
(* is built into the provers without a definition).  With it, for the same *)
(* reason, the ids of a set in the order of ORDER BY id, and a function    *)
(* with more in its domain.                                                *)
(***************************************************************************)
EXTENDS Naturals, Sequences, FiniteSets

\* What the loop has kept after each of its rounds.
Kept(s, S) ==
    LET kept[i \in 0..Len(s)] ==
          IF i = 0 THEN <<>>
          ELSE IF s[i] \in S THEN kept[i - 1] ELSE Append(kept[i - 1], s[i])
    IN kept

Omitting(s, S) == Kept(s, S)[Len(s)]

Ascending(ids) == [i \in 1..Cardinality(ids) |-> CHOOSE r \in ids : Cardinality({q \in ids : q <= r}) = i]

Beside(f, g) == [x \in DOMAIN f \cup DOMAIN g |-> IF x \in DOMAIN f THEN f[x] ELSE g[x]]
With(f, x, v) == [y \in DOMAIN f \cup {x} |-> IF y = x THEN v ELSE f[y]]

=============================================================================
