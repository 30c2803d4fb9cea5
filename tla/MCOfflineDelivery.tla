------------------------- MODULE MCOfflineDelivery -------------------------
(* Instances of OfflineDelivery for TLC.                                   *)
EXTENDS OfflineDelivery, TLC

CONSTANTS s1, s2, s3, r1, r2

OneSession == {s1}
ThreeSessions == {s1, s2, s3}
TwoRequests == {r1, r2}

\* Sessions and requests are interchangeable.
Symmetry == Permutations(ThreeSessions) \cup Permutations(TwoRequests)

=============================================================================
