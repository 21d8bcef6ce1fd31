----------------------------- MODULE MCCoaching -----------------------------
(* Coaching on small curricula. *)
EXTENDS Coaching, TLC

CONSTANTS s1, s2

\* Two scenarios, the second of which opens after the first, and a level without
\* scenarios, which opens when both are completed (one of two is below 0.6).
TwoLevels == << <<s1, s2>>, <<>> >>

BothActive == {s1, s2}

Symmetric == Permutations(Convs) \cup Permutations(Requests)
=============================================================================
