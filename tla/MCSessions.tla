----------------------------- MODULE MCSessions -----------------------------
(* Instances of AuthSessions for TLC. *)
EXTENDS AuthSessions, TLC

Symmetric == Permutations(Tokens) \cup Permutations(Requests)
=============================================================================
