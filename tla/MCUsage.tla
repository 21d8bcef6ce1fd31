------------------------------ MODULE MCUsage ------------------------------
(* Instances of Usage for TLC. *)
EXTENDS Usage, TLC

CONSTANTS u1, free, base, pro, r1, r2, r3

OneUser == {u1}
ThreeRequests == {r1, r2, r3}
ThreePlans == {free, base, pro}
ProOnly == {pro}
Speeches12 == [p \in LimitedPlans |-> IF p = free THEN 1 ELSE 2]
Seconds35 == [p \in LimitedPlans |-> IF p = free THEN 3 ELSE 5]
TextOrAudio == {0, 3}

RequestSymmetry == Permutations(Requests)
=============================================================================
