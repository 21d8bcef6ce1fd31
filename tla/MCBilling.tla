----------------------------- MODULE MCBilling -----------------------------
(* Instances of Billing for TLC. *)
EXTENDS Billing, TLC

CONSTANTS u1, u2, base, pro, c1, c2, k1, k2, d1, d2, s1

OneUser == {u1}
TwoUsers == {u1, u2}
OnePlan == {base}
TwoPlans == {base, pro}
OneCheckout == {c1}
TwoCheckouts == {c1, c2}
TwoCallbacks == {k1, k2}
OneDemoPay == {d1}
TwoDemoPays == {d1, d2}
OneSweep == {s1}
GrantBase == {<<u1, base>>}

\* Requests of one kind are interchangeable (safety runs only).
RequestSymmetry == Permutations(Callbacks) \cup Permutations(DemoPays)
=============================================================================
