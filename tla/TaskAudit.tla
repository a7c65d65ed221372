------------------------------ MODULE TaskAudit ------------------------------
(***************************************************************************)
(* What editing the tasks of a team promises, with a PUT in one step: it   *)
(* takes some of the fields it was given, sets them, and task_history gets *)
(* one row for each of them and none for any other, in the name of         *)
(* somebody who may edit.  A member comments on a task that is there.      *)
(* Nothing is ever taken back.  Which of the given fields a PUT takes is   *)
(* open here, and so is the old value a row tells: see GivenIsApplied and  *)
(* ChangesAreRecorded of TaskEdit.                                         *)
(***************************************************************************)
EXTENDS Schema, Naturals, Sequences

CONSTANTS
    Users, Tasks,
    NewRows,     \* rows with which a task may be created
    Updates,     \* what a PUT may ask
    Null,        \* SQL NULL
    None         \* no row, no role; in a body: field not given

VARIABLES
    team_members,  \* role of each user in the team, None outside it
    tasks,         \* row of each task, None before it is created
    created_by,    \* creator of each task
    holders,       \* everybody a task was ever assigned to
    task_history,  \* rows [task_id, changed_by, field_name, new_value]
    task_comments

vars == <<team_members, tasks, created_by, holders, task_history, task_comments>>

Fields == {"title", "description", "status", "assignee_id"}

IsMember(u) == team_members[u] # None

MayEdit(t, u) ==
    /\ IsMember(u)
    /\ \/ team_members[u] \in {RoleOwner, RoleAdmin}
       \/ created_by[t] = u
       \/ u \in holders[t]

Init ==
    /\ team_members = [u \in Users |-> None]
    /\ tasks = [t \in Tasks |-> None]
    /\ created_by = [t \in Tasks |-> None]
    /\ holders = [t \in Tasks |-> {}]
    /\ task_history = <<>> /\ task_comments = <<>>

Join(u, role) ==
    /\ ~ IsMember(u)
    /\ team_members' = [team_members EXCEPT ![u] = role]
    /\ UNCHANGED <<tasks, created_by, holders, task_history, task_comments>>

Create(t, u, row) ==
    /\ tasks[t] = None
    /\ IsMember(u)
    /\ row["assignee_id"] # Null => IsMember(row["assignee_id"])
    /\ tasks' = [tasks EXCEPT ![t] = row]
    /\ created_by' = [created_by EXCEPT ![t] = u]
    /\ holders' = [holders EXCEPT ![t] = {row["assignee_id"]}]
    /\ UNCHANGED <<team_members, task_history, task_comments>>

Given(upd) == {f \in Fields : upd[f] # None}

\* The history goes on with one row for each of the fields fs of t.
Records(t, u, upd, fs) ==
    LET new == (Len(task_history) + 1) .. Len(task_history')
        row(f) == [task_id |-> t, changed_by |-> u, field_name |-> f,
                   new_value |-> upd[f]]
    IN  /\ \A n \in DOMAIN task_history : task_history'[n] = task_history[n]
        /\ {task_history'[n] : n \in new} = {row(f) : f \in fs}
        /\ \A m, n \in new : task_history'[m] = task_history'[n] => m = n

\* A PUT that takes something.  Only a status that both vocabularies know gets
\* into the table.
Edit(t, u, upd, fs) ==
    /\ Records(t, u, upd, fs)
    /\ tasks[t] # None
    /\ MayEdit(t, u)
    /\ upd["assignee_id"] # None => IsMember(upd["assignee_id"])
    /\ upd["status"] # None => upd["status"] \in TaskStatus \cap EnumTaskStatus
    /\ tasks' = [tasks EXCEPT ![t] =
           [f \in Fields |-> IF f \in fs THEN upd[f] ELSE tasks[t][f]]]
    /\ holders' = [holders EXCEPT ![t] = @ \cup {tasks'[t]["assignee_id"]}]
    /\ UNCHANGED <<team_members, created_by, task_comments>>

Put(t, u) ==
    /\ Len(task_history') > Len(task_history)
    /\ \E upd \in Updates : \E fs \in (SUBSET Given(upd)) \ {{}} : Edit(t, u, upd, fs)

Comment(t, u) ==
    /\ tasks[t] # None
    /\ IsMember(u)
    /\ task_comments' = Append(task_comments, [task_id |-> t, user_id |-> u])
    /\ UNCHANGED <<team_members, tasks, created_by, holders, task_history>>

Next ==
    \/ \E u \in Users, role \in Roles : Join(u, role)
    \/ \E t \in Tasks, u \in Users :
           \/ \E row \in NewRows : Create(t, u, row)
           \/ Put(t, u) \/ Comment(t, u)

Spec == Init /\ [][Next]_vars
=============================================================================
