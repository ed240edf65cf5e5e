--------------------------- MODULE MCCoordination ---------------------------
(* Instances of Coordination for TLC: model values for identities, whose    *)
(* permutations are symmetries, and small sets of numbers for what the code *)
(* orders or counts.                                                        *)
EXTENDS Coordination, TLC

Symmetry == Permutations(Session) \cup Permutations(Connection) \cup Permutations(Character)

TwoRequests == {1, 2}
TwoLabels == {1, 2}
=============================================================================
