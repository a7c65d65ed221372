----------------------------- MODULE MCTaskEdit -----------------------------
(* Instances of TaskEdit for TLC. *)
EXTENDS TaskEdit, TLC

CONSTANTS u1, u2

\* Sound for safety: no definition tells two slots apart.
Symmetry == Permutations(Requests)

\* A row as POST /tasks leaves it: the titles are t0 and t1, the
\* descriptions d0 and d1.
TaskRow(description, status, assignee) ==
    "title" :> "t0" @@ "description" :> description @@ "status" :> status
    @@ "assignee_id" :> assignee

\* A body of PUT /tasks/{id}.
Body(title, description, status, assignee) ==
    "title" :> title @@ "description" :> description @@ "status" :> status
    @@ "assignee_id" :> assignee

AssignedRows == {TaskRow("d0", "in_progress", u2), TaskRow(Null, "in_progress", u2)}
FreeRows     == {TaskRow(Null, "in_progress", Null)}

\* Each field is changed by one of two bodies, two fields at a time; MySQL
\* refuses the status of the third.
FewBodies    == {Body("t1", None, None, u1), Body(None, "d1", "done", None),
                 Body(None, None, "to_do", None)}
LiveBodies   == {Body("t1", None, None, u1), Body(None, "d1", None, None),
                 Body(None, None, "to_do", None)}
TestBodies   == {Body("t1", "d1", "done", None)}
ReadmeBodies == {Body("t1", None, None, None), Body(None, "d1", None, None)}
=============================================================================
