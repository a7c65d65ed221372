---------------------------- MODULE MCMembership ----------------------------
(* Instances of Membership for TLC. *)
EXTENDS Membership, TLC

\* Sound for safety: no definition tells two ids or two slots apart.
Symmetry == Permutations(Users) \cup Permutations(Teams)
            \cup Permutations(Requests)
=============================================================================
