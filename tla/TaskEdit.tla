------------------------------- MODULE TaskEdit -------------------------------
(***************************************************************************)
(* Update, history and comments of the tasks of one team: TaskHandler,     *)
(* TaskUsecase and TaskRepo after the task was created.                    *)
(*                                                                         *)
(* One action is one statement, so requests interleave between statements. *)
(* A statement needs a connection of the pool for as long as it runs,      *)
(* UpdateWithHistory one from BeginTx to its commit or rollback, and the   *)
(* lock of its SELECT ... FOR UPDATE as well.  The constant Refused names  *)
(* the statements MySQL refuses whatever their arguments: AsWritten are    *)
(* those of this repository against its own schema.  The version that      *)
(* Update bumps after its commit belongs to TaskLists.                     *)
(***************************************************************************)
EXTENDS Schema, Naturals, Sequences, FiniteSets

CONSTANTS
    Users,       \* users of the tokens and the bodies
    Tasks,       \* ids of tasks of the team
    Requests,    \* slots for requests in flight at the same time
    NewRows,     \* rows with which a task may be created
    Updates,     \* bodies of PUT /tasks/{id}
    Refused,     \* statements that MySQL refuses
    Faults,      \* what may go wrong: "statement", "commit", "crash"
    MaxOpenConns, \* connections of the pool, cfg.MySQL.MaxOpenConns
    MaxHistory,  \* no PUT begins once task_history has this many rows
    MaxComments, \* no comment is posted once so many are, or are on their way
    Null,        \* SQL NULL
    None         \* no row, no request, no reply; in a body: field not given

Statements == {"update", "insert_history", "select_history",
               "insert_comment", "select_comments"}

\* "UPDATE tasks SETtitle = ?WHERE id =?" with two arguments too many, and
\* the tables tasks_history, task_comment and tasks_comments, which the
\* schema calls task_history and task_comments.
AsWritten == {"update", "select_history", "insert_comment", "select_comments"}

\* The columns a PUT may change, in the order of UpdateWithHistory.
Columns == <<"title", "description", "status", "assignee_id">>
Fields  == {Columns[n] : n \in DOMAIN Columns}

\* Rows of the table, as far as a PUT may change them.
Values == UNION {{row[f] : f \in Fields} : row \in NewRows \cup Updates}
Row    == [Fields -> Values]

ASSUME EditAssumption ==
    /\ Refused \subseteq Statements
    /\ Faults \subseteq {"statement", "commit", "crash"}
    /\ None \notin Requests \cup Row \cup Roles
    /\ Null \notin Users
    /\ MaxOpenConns \in Nat \ {0}
    /\ \A row \in NewRows \cup Updates : row \in Row
    /\ \A row \in NewRows : \A f \in Fields : row[f] # None
    /\ \A upd \in Updates : \A f \in Fields : upd[f] # Null
    /\ \A upd \in Updates : upd["assignee_id"] \in Users \cup {None}

VARIABLES
    team_members,  \* role of each user in the team, None outside it
    tasks,         \* committed row of each task, None before it is created
    created_by,    \* creator of each task
    task_history,  \* committed rows, in the order of their ids
    task_comments, \* committed rows, in the order of their ids
    lock,          \* request that holds the row lock of a task
    pc,            \* next statement of each request
    arg,           \* what each request asks, and who asks
    cur,           \* the row each request read last
    written,       \* rows of task_history its open transaction inserted
    reply          \* the answer of the last step, None if it sent none

tables == <<team_members, tasks, created_by, task_history, task_comments>>
local  == <<pc, arg, cur, written>>
vars   == <<tables, lock, local, reply>>

----------------------------------------------------------------------------
Init ==
    /\ team_members = [u \in Users |-> None]
    /\ tasks = [t \in Tasks |-> None]
    /\ created_by = [t \in Tasks |-> None]
    /\ task_history = <<>> /\ task_comments = <<>>
    /\ lock = [t \in Tasks |-> None]
    /\ pc = [r \in Requests |-> "idle"]
    /\ arg = [r \in Requests |-> None]
    /\ cur = [r \in Requests |-> None]
    /\ written = [r \in Requests |-> <<>>]
    /\ reply = None

IsMember(u) == team_members[u] # None

\* A connection of the pool that no transaction holds.
TxSteps  == {"lock", "update", "history", "commit"}
FreeConn == Cardinality({r \in Requests : pc[r] \in TxSteps}) < MaxOpenConns

\* The deferred Rollback ends a transaction that did not commit and gives
\* its lock back.
\* Mutated form: no deferred Rollback.
KeptLocks(r)     == lock
ReleasedLocks(r) == [t \in Tasks |-> IF lock[t] = r THEN None ELSE lock[t]]

\* The handler answers, with row when the answer carries one.
AnswerRow(r, status, row) ==
    /\ reply' = [status |-> status, ask |-> arg[r], row |-> row]
    /\ pc' = [pc EXCEPT ![r] = "idle"]
    /\ arg' = [arg EXCEPT ![r] = None]
    /\ cur' = [cur EXCEPT ![r] = None]
    /\ written' = [written EXCEPT ![r] = <<>>]
    /\ lock' = ReleasedLocks(r)

Answer(r, status) == AnswerRow(r, status, cur[r])

Goto(r, step) ==
    /\ pc' = [pc EXCEPT ![r] = step]
    /\ reply' = None

\* A user becomes a member, the owner first; a member creates a task.
Join(u, role) ==
    /\ ~ IsMember(u)
    /\ role = RoleOwner <=> \A v \in Users : ~ IsMember(v)
    /\ team_members' = [team_members EXCEPT ![u] = role]
    /\ reply' = None
    /\ UNCHANGED <<tasks, created_by, task_history, task_comments, lock, local>>

CreateTask(t, u, row) ==
    /\ tasks[t] = None
    /\ IsMember(u)
    /\ row["assignee_id"] \in {Null} \cup {m \in Users : IsMember(m)}
    /\ tasks' = [tasks EXCEPT ![t] = row]
    /\ created_by' = [created_by EXCEPT ![t] = u]
    /\ reply' = None
    /\ UNCHANGED <<team_members, task_history, task_comments, lock, local>>

----------------------------------------------------------------------------
(* The handlers decode the request; a body or id they cannot use, or a     *)
(* comment of blanks, is refused without a statement.                      *)

Ask(op, u, t, upd) == [op |-> op, actor |-> u, task |-> t, upd |-> upd]

Begin(r, ask) ==
    /\ pc[r] = "idle"
    /\ Goto(r, "get")
    /\ arg' = [arg EXCEPT ![r] = ask]
    /\ UNCHANGED <<tables, lock, cur, written>>

BeginUpdate(r, u, t, upd) ==
    /\ Len(task_history) < MaxHistory
    /\ Begin(r, Ask("update", u, t, upd))

Posting == Cardinality({r \in Requests : pc[r] # "idle" /\ arg[r].op = "insert_comment"})

BeginOther(r, op, u, t) ==
    /\ op = "insert_comment" => Len(task_comments) + Posting < MaxComments
    /\ Begin(r, Ask(op, u, t, None))

Refuse(r) ==
    /\ pc[r] = "idle"
    /\ Answer(r, 400)
    /\ UNCHANGED tables

\* TaskRepo.Get, the first statement of all four.
Get(r) ==
    LET t == arg[r].task IN
    /\ pc[r] = "get"
    /\ FreeConn
    /\ \/ /\ tasks[t] = None
          /\ Answer(r, 400)
       \/ /\ tasks[t] # None
          /\ Goto(r, IF arg[r].op = "update" THEN "role" ELSE "member")
          /\ cur' = [cur EXCEPT ![r] = tasks[t]]
          /\ UNCHANGED <<lock, arg, written>>
    /\ UNCHANGED tables

----------------------------------------------------------------------------
(* PUT /tasks/{id}                                                         *)

CanEdit(r, role) ==
    \/ role \in {RoleOwner, RoleAdmin}
    \/ created_by[arg[r].task] = arg[r].actor
    \/ cur[r]["assignee_id"] = arg[r].actor

\* Mutated form of RoleRead: an error makes the user an owner.
RoleTrusted(u) == {team_members[u], RoleOwner}
\* GetUserRole: an error other than ErrNoRows is dropped and the role is "".
RoleRead(u) == {team_members[u]} \cup (IF "statement" \in Faults THEN {""} ELSE {})

CheckEditor(r) ==
    LET upd == arg[r].upd IN
    /\ pc[r] = "role"
    /\ FreeConn
    /\ \E role \in RoleRead(arg[r].actor) :
           IF role # None /\ CanEdit(r, role) /\ upd["status"] \in TaskStatus \cup {None}
           THEN /\ Goto(r, IF upd["assignee_id"] = None THEN "begin" ELSE "assignee")
                /\ UNCHANGED <<lock, arg, cur, written>>
           ELSE Answer(r, 400)
    /\ UNCHANGED tables

\* Mutated form: the assignee is taken as given.
AssigneeTaken(r) ==
    /\ pc[r] = "assignee"
    /\ Goto(r, "begin")
    /\ UNCHANGED <<tables, lock, arg, cur, written>>
CheckAssignee(r) ==
    /\ pc[r] = "assignee"
    /\ FreeConn
    /\ \/ /\ IsMember(arg[r].upd["assignee_id"])
          /\ Goto(r, "begin")
          /\ UNCHANGED <<lock, arg, cur, written>>
       \/ /\ ~ IsMember(arg[r].upd["assignee_id"])
          /\ Answer(r, 400)
    /\ UNCHANGED tables

\* The connection is the request's until it answers.
BeginTx(r) ==
    /\ pc[r] = "begin"
    /\ FreeConn
    /\ Goto(r, "lock")
    /\ UNCHANGED <<tables, lock, arg, cur, written>>

\* What the cascade of comparisons makes of one field.  A description that
\* was NULL is never changed, one that was not always is.
Changed(f, old, new) ==
    /\ new # None
    /\ IF f = "description" THEN old # Null ELSE new # old

\* Columns to set.
Changes(row, upd) == {f \in Fields : Changed(f, row[f], upd[f])}

\* Those whose row of task_history is not inserted yet, and the next of them.
\* UnrecordedGiven, the mutated form: every field of the body counts as changed.
Recorded(r)   == {written[r][n].field_name : n \in DOMAIN written[r]}
UnrecordedGiven(r) == {f \in Fields : arg[r].upd[f] # None} \ Recorded(r)
Unrecorded(r) == Changes(cur[r], arg[r].upd) \ Recorded(r)
NextField(r)  ==
    Columns[CHOOSE n \in DOMAIN Columns :
                /\ Columns[n] \in Unrecorded(r)
                /\ \A m \in 1 .. (n - 1) : Columns[m] \notin Unrecorded(r)]

\* The row of task_history for one field: both values recorded for a status
\* are the new one.
\* Mutated form: task and user exchanged in the argument list.
HistoryRowSwapped(r, f) ==
    [task_id |-> arg[r].actor, changed_by |-> arg[r].task, field_name |-> f,
     old_value |-> cur[r][f], new_value |-> arg[r].upd[f]]
HistoryRow(r, f) ==
    LET new == arg[r].upd[f] IN
    [task_id |-> arg[r].task, changed_by |-> arg[r].actor, field_name |-> f,
     old_value |-> IF f = "status" THEN new ELSE cur[r][f], new_value |-> new]

\* Mutated form: SELECT without FOR UPDATE.
ReadTask(r) ==
    /\ pc[r] = "lock"
    /\ cur' = [cur EXCEPT ![r] = tasks[arg[r].task]]
    /\ Goto(r, IF Changes(tasks[arg[r].task], arg[r].upd) = {}
               THEN "commit" ELSE "update")
    /\ UNCHANGED <<tables, lock, arg, written>>
\* SELECT ... FOR UPDATE waits for the lock and reads the row anew.
LockTask(r) ==
    LET t == arg[r].task IN
    /\ pc[r] = "lock"
    /\ lock[t] = None
    /\ lock' = [lock EXCEPT ![t] = r]
    /\ cur' = [cur EXCEPT ![r] = tasks[t]]
    /\ Goto(r, IF Changes(tasks[t], arg[r].upd) = {} THEN "commit" ELSE "update")
    /\ UNCHANGED <<tables, arg, written>>

\* Mutated form: the UPDATE runs on r.db and needs a second connection.
UpdateOnPool(r) ==
    /\ pc[r] = "update"
    /\ FreeConn
    /\ IF "update" \notin Refused /\ arg[r].upd["status"] \in EnumTaskStatus \cup {None}
       THEN Goto(r, "history") /\ UNCHANGED <<lock, arg, cur, written>>
       ELSE Answer(r, 400)
    /\ UNCHANGED tables
\* The UPDATE; strict MySQL also refuses a status outside the ENUM.
UpdateTask(r) ==
    /\ pc[r] = "update"
    /\ IF "update" \notin Refused /\ arg[r].upd["status"] \in EnumTaskStatus \cup {None}
       THEN Goto(r, "history") /\ UNCHANGED <<lock, arg, cur, written>>
       ELSE Answer(r, 400)
    /\ UNCHANGED tables

\* One INSERT per changed field.
InsertHistory(r) ==
    LET f == NextField(r) IN
    /\ pc[r] = "history"
    /\ IF "insert_history" \notin Refused
       THEN /\ written' = [written EXCEPT ![r] = Append(@, HistoryRow(r, f))]
            /\ Goto(r, IF Unrecorded(r) = {f} THEN "commit" ELSE "history")
            /\ UNCHANGED <<lock, arg, cur>>
       ELSE Answer(r, 400)
    /\ UNCHANGED tables

\* The row the transaction wrote, which the SELECT before COMMIT returns.
RowAfter(row, seen, upd) ==
    [f \in Fields |-> IF Changed(f, seen[f], upd[f]) THEN upd[f] ELSE row[f]]

\* The rows become visible together.  The answer of COMMIT may be lost.
CommitUpdate(r) ==
    LET t == arg[r].task
        row == RowAfter(tasks[t], cur[r], arg[r].upd)
    IN
    /\ pc[r] = "commit"
    /\ tasks' = [tasks EXCEPT ![t] = row]
    /\ task_history' = task_history \o written[r]
    /\ \/ AnswerRow(r, 200, row)
       \/ "commit" \in Faults /\ Answer(r, 400)
    /\ UNCHANGED <<team_members, created_by, task_comments>>

----------------------------------------------------------------------------
(* GET /tasks/{id}/history and /comments, POST /tasks/{id}/comments        *)

CheckMember(r) ==
    /\ pc[r] = "member"
    /\ FreeConn
    /\ \/ /\ IsMember(arg[r].actor)
          /\ Goto(r, arg[r].op)
          /\ UNCHANGED <<lock, arg, cur, written>>
       \/ /\ ~ IsMember(arg[r].actor)
          /\ Answer(r, 400)
    /\ UNCHANGED tables

AddComment(r) ==
    LET row == [task_id |-> arg[r].task, user_id |-> arg[r].actor] IN
    /\ pc[r] = "insert_comment"
    /\ FreeConn
    /\ \/ /\ "insert_comment" \in Refused
          /\ Answer(r, 400)
          /\ UNCHANGED task_comments
       \/ /\ "insert_comment" \notin Refused
          /\ task_comments' = Append(task_comments, row)
          /\ Answer(r, 201) \/ ("commit" \in Faults /\ Answer(r, 400))
    /\ UNCHANGED <<team_members, tasks, created_by, task_history>>

\* History and ListComments.
SelectRows(r) ==
    /\ pc[r] \in {"select_history", "select_comments"}
    /\ FreeConn
    /\ Answer(r, IF pc[r] \in Refused THEN 400 ELSE 200)
    /\ UNCHANGED tables

----------------------------------------------------------------------------
\* A statement fails, or waiting for a connection or a lock takes too long.
StatementFails(r) ==
    /\ "statement" \in Faults
    /\ pc[r] \notin {"idle", "role"}
    /\ Answer(r, 400)
    /\ UNCHANGED tables

\* The server is killed; MySQL rolls its transactions back.
Crash ==
    /\ "crash" \in Faults
    /\ \E r \in Requests : pc[r] # "idle"
    /\ lock' = [t \in Tasks |-> None]
    /\ pc' = [r \in Requests |-> "idle"]
    /\ arg' = [r \in Requests |-> None]
    /\ cur' = [r \in Requests |-> None]
    /\ written' = [r \in Requests |-> <<>>]
    /\ reply' = None
    /\ UNCHANGED tables

Statement(r) ==
    \/ Get(r) \/ CheckEditor(r) \/ CheckAssignee(r)
    \/ BeginTx(r) \/ LockTask(r) \/ UpdateTask(r) \/ InsertHistory(r) \/ CommitUpdate(r)
    \/ CheckMember(r) \/ AddComment(r) \/ SelectRows(r)

Arrival(r) ==
    \/ Refuse(r)
    \/ \E u \in Users, t \in Tasks :
           \/ \E upd \in Updates : BeginUpdate(r, u, t, upd)
           \/ \E op \in {"insert_comment", "select_history", "select_comments"} :
                  BeginOther(r, op, u, t)

Next ==
    \/ \E u \in Users, role \in Roles : Join(u, role)
    \/ \E t \in Tasks, u \in Users, row \in NewRows : CreateTask(t, u, row)
    \/ \E r \in Requests : Arrival(r) \/ Statement(r) \/ StatementFails(r)
    \/ Crash

Spec == Init /\ [][Next]_vars

\* A request that waits for a row lock or a connection gets it although
\* others keep taking it, and every statement is answered: InnoDB grants locks
\* in turn, the pool gives a free connection to a waiting request.  Nobody
\* has to send requests.
FairSpec == Spec /\ \A r \in Requests : SF_vars(Statement(r))

----------------------------------------------------------------------------
(* Properties.                                                             *)

Change   == [task_id : Tasks, changed_by : Users, field_name : Fields,
             old_value : Values, new_value : Values]
Question == [op : {"update", "insert_comment", "select_history", "select_comments"},
             actor : Users, task : Tasks, upd : Updates \cup {None}]

TypeOK ==
    /\ team_members \in [Users -> Roles \cup {None}]
    /\ tasks \in [Tasks -> Row \cup {None}]
    /\ created_by \in [Tasks -> Users \cup {None}]
    /\ task_history \in Seq(Change)
    /\ task_comments \in Seq([task_id : Tasks, user_id : Users])
    /\ lock \in [Tasks -> Requests \cup {None}]
    /\ pc \in [Requests -> {"idle", "get", "role", "assignee", "begin", "lock", "update", "history",
                            "commit", "member", "insert_comment", "select_history",
                            "select_comments"}]
    /\ arg \in [Requests -> Question \cup {None}]
    /\ cur \in [Requests -> Row \cup {None}]
    /\ written \in [Requests -> Seq(Change)]
    /\ reply \in [status : {200, 201, 400}, ask : Question \cup {None},
                  row : Row \cup {None}] \cup {None}

\* Rows of task_history a step committed.
NewHistory == {task_history'[n] : n \in (Len(task_history) + 1) .. Len(task_history')}

RecordsChanges ==
    /\ Len(task_history') >= Len(task_history)
    /\ \A t \in Tasks, f \in Fields :
           tasks[t] # None /\ tasks'[t][f] # tasks[t][f] =>
               \E h \in NewHistory : h.task_id = t /\ h.field_name = f
    /\ \A h \in NewHistory :
           /\ h.new_value = tasks'[h.task_id][h.field_name]
           /\ h.field_name # "status" =>
                  h.old_value = tasks[h.task_id][h.field_name]

\* The history tells how every task came to be what it is: a step changes a
\* field exactly when it commits a row that says so, with the value the field
\* had in that very moment (of a status the row only knows the new one).  At
\* stake: the row lock, and the values computed from the row read under it.
ChangesAreRecorded == [][RecordsChanges]_vars

WasAssignee(t, u) ==
    \/ tasks[t]["assignee_id"] = u
    \/ \E n \in DOMAIN task_history :
           /\ task_history[n].task_id = t
           /\ task_history[n].field_name = "assignee_id"
           /\ task_history[n].old_value = u

Entitled(t, u) ==
    \/ team_members[u] \in {RoleOwner, RoleAdmin}
    \/ created_by[t] = u
    \/ WasAssignee(t, u)

\* Only an owner or admin, the creator, or somebody who was the assignee at
\* some time changes a task.  (Who stopped being the assignee after Get read
\* the row still may: UpdateWithHistory does not look again.)
EditorsEntitled == [][\A h \in NewHistory : Entitled(h.task_id, h.changed_by)]_vars

\* Tasks are assigned to members only, only members comment, and only members
\* are answered anything but an error, whatever fails in between.
MembersOnly ==
    /\ \A t \in Tasks : tasks[t] # None =>
           tasks[t]["assignee_id"] \in {Null} \cup {u \in Users : IsMember(u)}
    /\ \A n \in DOMAIN task_comments : IsMember(task_comments[n].user_id)
    /\ reply # None /\ reply.status # 400 => IsMember(reply.ask.actor)

\* The history without its old values, and everybody a task was assigned to.
Tell(h) == [task_id |-> h.task_id, changed_by |-> h.changed_by,
            field_name |-> h.field_name, new_value |-> h.new_value]
Told    == [n \in DOMAIN task_history |-> Tell(task_history[n])]
Holders == [t \in Tasks |->
               IF tasks[t] = None THEN {}
               ELSE {u \in Users \cup {Null} : WasAssignee(t, u)}]

\* Statement by statement, with races, failures, lost commits and crashes, the
\* service does what TaskAudit does in single steps: in particular the history
\* gets one row for each field a PUT set and none for the others, and what was
\* checked before the lock (user, assignee, status) still holds at COMMIT.
Audit == INSTANCE TaskAudit WITH
    team_members <- team_members, tasks <- tasks, created_by <- created_by,
    holders <- Holders, task_history <- Told, task_comments <- task_comments
ImplementsAudit == Audit!Spec

\* No request keeps a task locked for good, whichever statement refused it,
\* failed or was never answered: the deferred Rollback runs on every path.
LocksReleased == \A t \in Tasks : lock[t] # None ~> lock[t] = None

\* Every request is answered, those that wait for a lock or for the last
\* connection of the pool included.
RequestsAnswered == \A r \in Requests : pc[r] # "idle" ~> pc[r] = "idle"

\* The creator of the task in a request that read it.
ByCreator == reply.row # None /\ created_by[reply.ask.task] = reply.ask.actor

\* "PUT /api/v1/tasks/{id}: fields change, the history is written", of the
\* README: the creator of a task who gives it a title is not refused.
PutIsApplied ==
    reply # None /\ reply.ask # None /\ reply.ask.op = "update" /\ ByCreator
    /\ (\A f \in Fields \ {"title"} : reply.ask.upd[f] = None)
        => reply.status = 200

\* TestUpdateWithHistoryWriteAudit gives title, description and status to a
\* task without a description, expects them in what UpdateWithHistory returns
\* and three rows in the history.
GivenApplied ==
    reply' # None /\ reply'.status = 200 /\ reply'.ask.op = "update" =>
        \A f \in Audit!Given(reply'.ask.upd) :
            LET new == reply'.ask.upd[f] IN
            /\ reply'.row[f] = new
            /\ tasks[reply'.ask.task][f] # new =>
                   \E h \in NewHistory : h.field_name = f /\ h.new_value = new

\* A PUT that is answered 200 set every field it gave, to whatever the field
\* was before, and recorded those that changed.
GivenIsApplied == [][GivenApplied]_vars
=============================================================================
