---------------------- MODULE MCBackgroundReviewRunner ----------------------
(* BackgroundReviewRunner for TLC: more delivery ids than the memory holds,*)
(* one delivery without an id, one that the handler filters out and two    *)
(* incomplete ones.                                                        *)
EXTENDS BackgroundReviewRunner

CONSTANTS d1, d2, d3, d4

MCEvents == {[id |-> d1, reviewable |-> TRUE, complete |-> TRUE],
             [id |-> d2, reviewable |-> TRUE, complete |-> FALSE],
             [id |-> d4, reviewable |-> TRUE, complete |-> FALSE],
             [id |-> d3, reviewable |-> FALSE, complete |-> TRUE],
             [id |-> NoHeader, reviewable |-> TRUE, complete |-> TRUE]}
MCDeliveries == {d1, d2, d3, d4}
=============================================================================
