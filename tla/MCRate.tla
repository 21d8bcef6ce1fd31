------------------------------- MODULE MCRate -------------------------------
(* Instances of RateLimiter for TLC. *)
EXTENDS RateLimiter, TLC

Symmetric == Permutations(Requests) \cup Permutations(Processes)
=============================================================================
