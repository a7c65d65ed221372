----------------------------- MODULE MCRateLimit -----------------------------
(* Instances of RateLimit for TLC. *)
EXTENDS RateLimit, TLC

\* Sound for safety: no definition tells two users or two slots apart.
Symmetry == Permutations(Users) \cup Permutations(Requests)
=============================================================================
