----------------------------- MODULE MCTaskLists -----------------------------
(* Instances of TaskLists for TLC. *)
EXTENDS TaskLists, TLC

FirstPage == [limit |-> 0, offset |-> 0]
PageOne   == [limit |-> 1, offset |-> 0]
PageTwo   == [limit |-> 1, offset |-> 1]

OnePage  == {FirstPage}
TwoPages == {PageOne, PageTwo}
Ids1     == 1..1
Ids2     == 1..2

\* Sound for safety: no definition tells two users or two slots apart.
Symmetry == Permutations(Users) \cup Permutations(Requests)
=============================================================================
