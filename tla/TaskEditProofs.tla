---------------------------- MODULE TaskEditProofs ----------------------------
(***************************************************************************)
(* Proofs about TaskEdit, for any users, tasks, requests, bodies, refused  *)
(* statements and faults: type correctness, who edits, and that the        *)
(* history is complete.                                                    *)
(*                                                                         *)
(* The argument is in TxInv: whoever is past SELECT ... FOR UPDATE holds   *)
(* the lock, so the row it read is still the committed row, and what it    *)
(* has inserted into the history are rows for this row and its body.       *)
(* What was found out before the lock (EditInv) lasts, because memberships *)
(* only grow and the history keeps the assignees of the past.              *)
(***************************************************************************)
EXTENDS TaskEdit, SequenceTheorems, TLAPS

EditSteps == {"role", "assignee", "begin", "lock", "update", "history", "commit"}
LockSteps == {"update", "history", "commit"}
ReadSteps == {"insert_comment", "select_history", "select_comments"}

Members == {u \in Users : IsMember(u)}

TablesOK ==
    /\ team_members \in [Users -> Roles \cup {None}]
    /\ tasks \in [Tasks -> Row \cup {None}]
    /\ created_by \in [Tasks -> Users \cup {None}]
    /\ task_history \in Seq(Change)
    /\ task_comments \in Seq([task_id : Tasks, user_id : Users])

Steps   == {"idle", "get", "member"} \cup EditSteps \cup ReadSteps
Replies == [status : {200, 201, 400}, ask : Question \cup {None}, row : Row \cup {None}]

LocalOK ==
    /\ lock \in [Tasks -> Requests \cup {None}]
    /\ pc \in [Requests -> Steps]
    /\ arg \in [Requests -> Question \cup {None}]
    /\ cur \in [Requests -> Row \cup {None}]
    /\ written \in [Requests -> Seq(Change)]
    /\ reply \in Replies \cup {None}

TaskInv(t) ==
    tasks[t] # None =>
        /\ tasks[t]["assignee_id"] \in {Null} \cup Members
        /\ created_by[t] \in Members

CommentsInv == \A n \in DOMAIN task_comments : task_comments[n].user_id \in Members

\* What r asks, and that it asks about a task which exists.
AskInv(r) ==
    /\ pc[r] # "idle" => arg[r] \in Question /\ (arg[r].op = "update" => arg[r].upd \in Updates)
    /\ pc[r] = "member" => arg[r].op \in ReadSteps
    /\ pc[r] \in ReadSteps => arg[r].actor \in Members
    /\ pc[r] \in ReadSteps \cup {"member"} => tasks[arg[r].task] # None
    /\ pc[r] \in EditSteps =>
           arg[r].op = "update" /\ tasks[arg[r].task] # None /\ cur[r] \in Row

\* What a PUT has found out about its user and its assignee.
EditInv(r) ==
    /\ pc[r] = "role" =>
           \/ cur[r]["assignee_id"] = Null
           \/ /\ cur[r]["assignee_id"] \in Members
              /\ WasAssignee(arg[r].task, cur[r]["assignee_id"])
    /\ pc[r] \in EditSteps \ {"role"} =>
           arg[r].actor \in Members /\ Entitled(arg[r].task, arg[r].actor)
    /\ pc[r] \in EditSteps \ {"role", "assignee"} =>
           arg[r].upd["assignee_id"] \in {None} \cup Members

\* h is a row for a change that r makes to the row it read.
OwnRow(r, h) ==
    /\ h.task_id = arg[r].task /\ h.changed_by = arg[r].actor
    /\ h.field_name \in Changes(cur[r], arg[r].upd)
    /\ h.new_value = arg[r].upd[h.field_name]
    /\ h.field_name # "status" => h.old_value = cur[r][h.field_name]

\* The transaction of r.
TxInv(r) ==
    /\ pc[r] \in LockSteps =>
           /\ lock[arg[r].task] = r /\ cur[r] = tasks[arg[r].task]
           /\ \A n \in DOMAIN written[r] : OwnRow(r, written[r][n])
    /\ pc[r] \notin {"history", "commit"} => written[r] = <<>>
    /\ pc[r] \in {"update", "history"} => Unrecorded(r) # {}
    /\ pc[r] = "commit" => Unrecorded(r) = {}

RequestInv(r) == AskInv(r) /\ EditInv(r) /\ TxInv(r)

ReplyInv == reply # None /\ reply.status # 400 => IsMember(reply.ask.actor)

Inv ==
    /\ TablesOK /\ LocalOK
    /\ \A t \in Tasks : TaskInv(t)
    /\ CommentsInv
    /\ \A r \in Requests : RequestInv(r)
    /\ ReplyInv

----------------------------------------------------------------------------
(* The columns, and the next row of the history.                           *)

LEMMA FieldsAre == Fields = {"title", "description", "status", "assignee_id"}
<1>1. DOMAIN Columns = 1 .. 4
  BY DEF Columns
<1>2. /\ Columns[1] = "title" /\ Columns[2] = "description"
      /\ Columns[3] = "status" /\ Columns[4] = "assignee_id"
  BY DEF Columns
<1>3. Fields = {Columns[n] : n \in 1 .. 4}
  BY <1>1 DEF Fields
<1>4. 1 .. 4 = {1, 2, 3, 4}
  OBVIOUS
<1> QED BY <1>2, <1>3, <1>4

LEMMA NextFieldIsLeft ==
  ASSUME NEW r, Unrecorded(r) # {}
  PROVE  NextField(r) \in Unrecorded(r)
<1> DEFINE First(n) == /\ Columns[n] \in Unrecorded(r)
                       /\ \A m \in 1 .. (n - 1) : Columns[m] \notin Unrecorded(r)
<1>1. DOMAIN Columns = {1, 2, 3, 4}
  <2>1. DOMAIN Columns = 1 .. 4
    BY DEF Columns
  <2> QED BY <2>1
<1>2. PICK f \in Fields : f \in Unrecorded(r)
  BY DEF Unrecorded, Changes
<1>3. Columns[1] \in Unrecorded(r) \/ Columns[2] \in Unrecorded(r)
      \/ Columns[3] \in Unrecorded(r) \/ Columns[4] \in Unrecorded(r)
  BY <1>1, <1>2 DEF Fields
<1>4. \E n \in DOMAIN Columns : First(n)
  <2>1. CASE Columns[1] \in Unrecorded(r)
    <3>1. First(1)
      BY <2>1
    <3> QED BY <1>1, <3>1
  <2>2. CASE Columns[1] \notin Unrecorded(r) /\ Columns[2] \in Unrecorded(r)
    <3>1. First(2)
      <4>1. 1 .. (2 - 1) = {1}
        OBVIOUS
      <4> QED BY <2>2, <4>1
    <3> QED BY <1>1, <3>1
  <2>3. CASE /\ Columns[1] \notin Unrecorded(r) /\ Columns[2] \notin Unrecorded(r)
             /\ Columns[3] \in Unrecorded(r)
    <3>1. First(3)
      <4>1. 1 .. (3 - 1) = {1, 2}
        OBVIOUS
      <4> QED BY <2>3, <4>1
    <3> QED BY <1>1, <3>1
  <2>4. CASE /\ Columns[1] \notin Unrecorded(r) /\ Columns[2] \notin Unrecorded(r)
             /\ Columns[3] \notin Unrecorded(r) /\ Columns[4] \in Unrecorded(r)
    <3>1. First(4)
      <4>1. 1 .. (4 - 1) = {1, 2, 3}
        OBVIOUS
      <4> QED BY <2>4, <4>1
    <3> QED BY <1>1, <3>1
  <2> QED BY <1>3, <2>1, <2>2, <2>3, <2>4
<1>5. NextField(r) = Columns[CHOOSE n \in DOMAIN Columns : First(n)]
  BY DEF NextField
<1>6. First(CHOOSE n \in DOMAIN Columns : First(n))
  <2> HIDE DEF First
  <2> QED BY <1>4
<1> QED BY <1>5, <1>6

\* The two forms of the type invariant.
LEMMA Types == TypeOK <=> TablesOK /\ LocalOK
BY DEF TypeOK, TablesOK, LocalOK, Steps, EditSteps, ReadSteps, Replies

LEMMA InitInv == Init => Inv
<1> SUFFICES ASSUME Init PROVE Inv
  OBVIOUS
<1>1. TablesOK
  BY DEF Init, TablesOK
<1>2. LocalOK
  BY DEF Init, LocalOK, Steps
<1>3. \A t \in Tasks : TaskInv(t)
  BY DEF Init, TaskInv
<1>4. CommentsInv
  BY DEF Init, CommentsInv
<1>5. \A r \in Requests : RequestInv(r)
  BY DEF Init, RequestInv, AskInv, EditInv, TxInv, EditSteps, LockSteps, ReadSteps
<1>6. ReplyInv
  BY DEF Init, ReplyInv
<1> QED BY <1>1, <1>2, <1>3, <1>4, <1>5, <1>6 DEF Inv

----------------------------------------------------------------------------
(* What a step leaves true.                                                *)

\* Members stay, tasks stay with their creator, assignees are remembered.
Grows ==
    /\ \A u \in Users : IsMember(u) => team_members'[u] = team_members[u]
    /\ \A t \in Tasks : tasks[t] # None =>
           /\ tasks'[t] # None /\ created_by'[t] = created_by[t]
           /\ \A u \in Users : WasAssignee(t, u) => WasAssignee(t, u)'

LEMMA MembersStay ==
  ASSUME Grows
  PROVE  \A u \in Members : u \in Members'
BY DEF Grows, Members, IsMember

LEMMA EntitledStays ==
  ASSUME Grows, NEW t \in Tasks, tasks[t] # None, NEW u \in Users, Entitled(t, u)
  PROVE  Entitled(t, u)'
<1>1. CASE team_members[u] \in {RoleOwner, RoleAdmin}
  <2>1. team_members[u] # None
    BY <1>1, EditAssumption DEF Roles
  <2> QED BY <1>1, <2>1 DEF Grows, IsMember, Entitled
<1>2. CASE created_by[t] = u
  BY <1>2 DEF Grows, Entitled
<1>3. CASE WasAssignee(t, u)
  BY <1>3 DEF Grows, Entitled
<1> QED BY <1>1, <1>2, <1>3 DEF Entitled

LEMMA SameTables ==
  ASSUME UNCHANGED tables
  PROVE  /\ Grows
         /\ TablesOK => TablesOK'
         /\ (\A t \in Tasks : TaskInv(t)) => \A t \in Tasks : TaskInv(t)'
         /\ CommentsInv => CommentsInv'
         /\ Members' = Members
         /\ \A t, u : Entitled(t, u)' = Entitled(t, u) /\ WasAssignee(t, u)' = WasAssignee(t, u)
<1>1. /\ team_members' = team_members /\ tasks' = tasks /\ created_by' = created_by
      /\ task_history' = task_history /\ task_comments' = task_comments
  BY DEF tables
<1>2. Members' = Members
  BY <1>1 DEF Members, IsMember
<1>3. \A t, u : Entitled(t, u)' = Entitled(t, u) /\ WasAssignee(t, u)' = WasAssignee(t, u)
  BY <1>1 DEF Entitled, WasAssignee
<1>4. Grows
  BY <1>1, <1>3 DEF Grows
<1> QED BY <1>1, <1>2, <1>3, <1>4 DEF TablesOK, TaskInv, CommentsInv

\* What q knows stays true when q stands still and its lock and row do, too.
LEMMA SameKept ==
  ASSUME Inv, Grows, NEW q \in Requests,
         pc'[q] = pc[q], arg'[q] = arg[q], cur'[q] = cur[q], written'[q] = written[q],
         pc[q] \in LockSteps =>
             /\ lock'[arg[q].task] = lock[arg[q].task]
             /\ tasks'[arg[q].task] = tasks[arg[q].task]
  PROVE  RequestInv(q)'
<1>1. AskInv(q) /\ EditInv(q) /\ TxInv(q)
  BY DEF Inv, RequestInv
<1>2. pc[q] # "idle" => arg[q].task \in Tasks /\ arg[q].actor \in Users
  BY <1>1 DEF AskInv, Question
<1>3. AskInv(q)'
  <2>1. pc[q] \in EditSteps \cup ReadSteps \cup {"member"} => tasks'[arg[q].task] # None
    BY <1>1, <1>2 DEF AskInv, Grows, EditSteps, ReadSteps
  <2> QED BY <1>1, <2>1, MembersStay DEF AskInv
<1>4. EditInv(q)'
  <2>1. CASE pc[q] \notin EditSteps
    BY <2>1 DEF EditInv, EditSteps
  <2>2. CASE pc[q] \in EditSteps
    <3>1. PICK t \in Tasks, u \in Users, a \in {cur[q]["assignee_id"]} :
              t = arg[q].task /\ u = arg[q].actor /\ a = cur[q]["assignee_id"]
      BY <1>2, <2>2 DEF EditSteps
    <3>2. tasks[t] # None
      BY <1>1, <2>2, <3>1 DEF AskInv
    <3>3. a \in Members /\ WasAssignee(t, a) => a \in Members' /\ WasAssignee(t, a)'
      BY <3>2, MembersStay DEF Grows, Members
    <3>4. u \in Members /\ Entitled(t, u) => u \in Members' /\ Entitled(t, u)'
      BY <3>2, EntitledStays, MembersStay
    <3>5. t = arg'[q].task /\ u = arg'[q].actor /\ a = cur'[q]["assignee_id"]
      BY <3>1
    <3>6. pc'[q] = "role" => a = Null \/ (a \in Members' /\ WasAssignee(t, a)')
      BY <1>1, <3>1, <3>3 DEF EditInv
    <3>7. pc'[q] \in EditSteps \ {"role"} => u \in Members' /\ Entitled(t, u)'
      BY <1>1, <3>1, <3>4 DEF EditInv
    <3>8. pc'[q] \in EditSteps \ {"role", "assignee"} =>
              arg'[q].upd["assignee_id"] \in {None} \cup Members'
      BY <1>1, MembersStay DEF EditInv
    <3> QED BY <3>5, <3>6, <3>7, <3>8 DEF EditInv, Entitled, WasAssignee
  <2> QED BY <2>1, <2>2
<1>5. TxInv(q)'
  BY <1>1 DEF TxInv, OwnRow, Unrecorded, Recorded
<1> QED BY <1>3, <1>4, <1>5 DEF RequestInv

\* A step of r leaves the other requests and their locks alone.
OthersSame(r) ==
    /\ \A q \in Requests \ {r} :
           /\ pc'[q] = pc[q] /\ arg'[q] = arg[q] /\ cur'[q] = cur[q]
           /\ written'[q] = written[q]
    /\ \A t \in Tasks : lock[t] \in Requests \ {r} => lock'[t] = lock[t]

LEMMA Kept ==
  ASSUME Inv, NEW r \in Requests, Grows, OthersSame(r),
         \A t \in Tasks : lock[t] \in Requests \ {r} => tasks'[t] = tasks[t],
         TablesOK', \A t \in Tasks : TaskInv(t)', CommentsInv',
         LocalOK', RequestInv(r)', ReplyInv'
  PROVE  Inv'
<1>1. ASSUME NEW q \in Requests \ {r} PROVE RequestInv(q)'
  <2>1. AskInv(q) /\ TxInv(q)
    BY DEF Inv, RequestInv
  <2>2. ASSUME pc[q] \in LockSteps
        PROVE  /\ lock'[arg[q].task] = lock[arg[q].task]
               /\ tasks'[arg[q].task] = tasks[arg[q].task]
    <3>1. lock[arg[q].task] = q /\ arg[q].task \in Tasks
      BY <2>1, <2>2 DEF TxInv, AskInv, Question, LockSteps
    <3> QED BY <3>1 DEF OthersSame
  <2> QED BY <2>2, SameKept DEF OthersSame
<1> QED BY <1>1 DEF Inv

LEMMA QuietKept ==
  ASSUME Inv, NEW r \in Requests, UNCHANGED tables, OthersSame(r),
         LocalOK', RequestInv(r)', ReplyInv'
  PROVE  Inv'
<1>1. tasks' = tasks
  BY DEF tables
<1> QED BY <1>1, SameTables, Kept DEF Inv

\* The handler of r answers.
LEMMA Answered ==
  ASSUME Inv, NEW r \in Requests, NEW status \in {200, 201, 400}, NEW row \in Row \cup {None},
         AnswerRow(r, status, row),
         status # 400 => team_members'[arg[r].actor] # None
  PROVE  LocalOK' /\ RequestInv(r)' /\ ReplyInv' /\ OthersSame(r)
<1>1. LocalOK
  BY DEF Inv
<1>2. /\ reply' = [status |-> status, ask |-> arg[r], row |-> row]
      /\ pc' = [pc EXCEPT ![r] = "idle"] /\ arg' = [arg EXCEPT ![r] = None]
      /\ cur' = [cur EXCEPT ![r] = None] /\ written' = [written EXCEPT ![r] = <<>>]
      /\ lock' = [t \in Tasks |-> IF lock[t] = r THEN None ELSE lock[t]]
  BY DEF AnswerRow, ReleasedLocks
<1>3. lock' \in [Tasks -> Requests \cup {None}]
  BY <1>1, <1>2 DEF LocalOK
<1>4. /\ pc' \in [Requests -> Steps] /\ arg' \in [Requests -> Question \cup {None}]
      /\ cur' \in [Requests -> Row \cup {None}]
  BY <1>1, <1>2 DEF LocalOK, Steps
<1>5. written' \in [Requests -> Seq(Change)]
  BY <1>1, <1>2 DEF LocalOK
<1>6. reply' \in Replies
  BY <1>1, <1>2 DEF LocalOK, Replies
<1>7. LocalOK'
  BY <1>3, <1>4, <1>5, <1>6 DEF LocalOK
<1>8. OthersSame(r)
  <2>1. \A t \in Tasks : lock[t] \in Requests \ {r} => lock'[t] = lock[t]
    BY <1>2
  <2> QED BY <1>1, <1>2, <2>1 DEF LocalOK, OthersSame
<1>9. RequestInv(r)'
  <2>1. pc'[r] = "idle" /\ written'[r] = <<>>
    BY <1>1, <1>2 DEF LocalOK
  <2> QED BY <2>1 DEF RequestInv, AskInv, EditInv, TxInv, EditSteps, LockSteps, ReadSteps
<1>10. ReplyInv'
  BY <1>2 DEF ReplyInv, IsMember
<1> QED BY <1>7, <1>8, <1>9, <1>10

\* Answering without having written anything.
LEMMA AnswerInv ==
  ASSUME Inv, NEW r \in Requests, NEW status \in {200, 201, 400}, Answer(r, status),
         UNCHANGED tables, status # 400 => arg[r].actor \in Members
  PROVE  Inv'
<1>1. cur[r] \in Row \cup {None} /\ AnswerRow(r, status, cur[r])
  BY DEF Inv, LocalOK, Answer
<1>2. status # 400 => team_members'[arg[r].actor] # None
  BY DEF tables, Members, IsMember
<1> QED BY <1>1, <1>2, Answered, QuietKept

\* r goes on to the next statement, having learnt something or nothing.
LEMMA GoesOn ==
  ASSUME Inv, NEW r \in Requests, NEW step \in Steps, Goto(r, step),
         UNCHANGED <<tables, lock, arg, cur, written>>
  PROVE  /\ LocalOK' /\ ReplyInv' /\ OthersSame(r)
         /\ pc'[r] = step /\ arg'[r] = arg[r] /\ cur'[r] = cur[r] /\ written'[r] = written[r]
         /\ lock' = lock /\ tasks' = tasks
<1>1. LocalOK /\ lock' = lock /\ arg' = arg /\ cur' = cur /\ written' = written
      /\ pc' = [pc EXCEPT ![r] = step] /\ reply' = None /\ tasks' = tasks
  BY DEF Inv, Goto, tables
<1>2. pc' \in [Requests -> Steps] /\ pc'[r] = step
  BY <1>1 DEF LocalOK
<1>3. LocalOK'
  BY <1>1, <1>2 DEF LocalOK
<1>4. OthersSame(r)
  BY <1>1 DEF LocalOK, OthersSame
<1> QED BY <1>1, <1>2, <1>3, <1>4 DEF ReplyInv

\* What r asked and read, and what that means, when neither changes.
LEMMA SameMeaning ==
  ASSUME UNCHANGED tables, NEW r, arg'[r] = arg[r], cur'[r] = cur[r]
  PROVE  /\ Entitled(arg[r].task, arg[r].actor)' = Entitled(arg[r].task, arg[r].actor)
         /\ WasAssignee(arg[r].task, cur[r]["assignee_id"])' =
                WasAssignee(arg[r].task, cur[r]["assignee_id"])
         /\ Members' = Members
<1>1. Members' = Members
  BY SameTables
<1> QED BY <1>1 DEF tables, Entitled, WasAssignee

----------------------------------------------------------------------------
(* Arrivals, and the statements before the transaction.                    *)

LEMMA BeginInv ==
  ASSUME Inv, NEW r \in Requests, NEW ask \in Question, Begin(r, ask),
         ask.op = "update" => ask.upd \in Updates
  PROVE  Inv'
<1>1. /\ LocalOK /\ TxInv(r) /\ pc[r] = "idle" /\ UNCHANGED tables
      /\ pc' = [pc EXCEPT ![r] = "get"] /\ arg' = [arg EXCEPT ![r] = ask]
      /\ reply' = None /\ lock' = lock /\ cur' = cur /\ written' = written
  BY DEF Inv, RequestInv, Begin, Goto
<1>2. LocalOK'
  BY <1>1 DEF LocalOK, Steps
<1>3. pc'[r] = "get" /\ arg'[r] = ask /\ written'[r] = <<>>
  BY <1>1 DEF LocalOK, TxInv
<1>4. RequestInv(r)'
  BY <1>3 DEF RequestInv, AskInv, EditInv, TxInv, EditSteps, LockSteps, ReadSteps
<1>5. OthersSame(r)
  BY <1>1 DEF LocalOK, OthersSame
<1>6. ReplyInv'
  BY <1>1 DEF ReplyInv
<1> QED BY <1>1, <1>2, <1>4, <1>5, <1>6, QuietKept

LEMMA ArrivalInv ==
  ASSUME Inv, NEW r \in Requests, Arrival(r)
  PROVE  Inv'
<1>1. CASE Refuse(r)
  BY <1>1, AnswerInv DEF Refuse
<1>2. ASSUME NEW u \in Users, NEW t \in Tasks, NEW upd \in Updates, BeginUpdate(r, u, t, upd)
      PROVE  Inv'
  <2>1. Ask("update", u, t, upd) \in Question
    BY DEF Ask, Question
  <2>2. Ask("update", u, t, upd).upd = upd
    BY DEF Ask
  <2> QED BY <1>2, <2>1, <2>2, BeginInv DEF BeginUpdate
<1>3. ASSUME NEW u \in Users, NEW t \in Tasks,
             NEW op \in {"insert_comment", "select_history", "select_comments"},
             BeginOther(r, op, u, t)
      PROVE  Inv'
  <2>1. Ask(op, u, t, None) \in Question /\ Ask(op, u, t, None).op # "update"
    BY DEF Ask, Question
  <2> QED BY <1>3, <2>1, BeginInv DEF BeginOther
<1> QED BY <1>1, <1>2, <1>3 DEF Arrival

LEMMA GetInv ==
  ASSUME Inv, NEW r \in Requests, Get(r)
  PROVE  Inv'
<1>1. CASE Answer(r, 400)
  BY <1>1, AnswerInv DEF Get
<1>2. CASE /\ tasks[arg[r].task] # None
           /\ Goto(r, IF arg[r].op = "update" THEN "role" ELSE "member")
           /\ cur' = [cur EXCEPT ![r] = tasks[arg[r].task]]
           /\ UNCHANGED <<lock, arg, written>>
  <2> DEFINE t == arg[r].task
             step == IF arg[r].op = "update" THEN "role" ELSE "member"
  <2>1. /\ LocalOK /\ TablesOK /\ AskInv(r) /\ TxInv(r) /\ pc[r] = "get"
        /\ UNCHANGED tables /\ tasks' = tasks
    BY DEF Inv, RequestInv, Get, tables
  <2>2. arg[r] \in Question /\ t \in Tasks /\ (arg[r].op = "update" => arg[r].upd \in Updates)
    BY <2>1 DEF AskInv, Question
  <2>3. tasks[t] \in Row /\ TaskInv(t)
    BY <1>2, <2>1, <2>2 DEF Inv, TablesOK
  <2>4. /\ pc' = [pc EXCEPT ![r] = step] /\ cur' = [cur EXCEPT ![r] = tasks[t]]
        /\ arg' = arg /\ lock' = lock /\ written' = written /\ reply' = None
    BY <1>2 DEF Goto
  <2>5. step \in {"role", "member"} /\ (step = "role" <=> arg[r].op = "update")
    OBVIOUS
  <2> HIDE DEF step
  <2>6. LocalOK'
    BY <2>1, <2>3, <2>4, <2>5 DEF LocalOK, Steps, EditSteps
  <2>7. OthersSame(r) /\ ReplyInv'
    BY <2>1, <2>4 DEF LocalOK, OthersSame, ReplyInv
  <2>8. /\ pc'[r] = step /\ cur'[r] = tasks[t] /\ arg'[r] = arg[r] /\ written'[r] = <<>>
    BY <2>1, <2>4 DEF LocalOK, TxInv
  <2>9. AskInv(r)'
    BY <1>2, <2>1, <2>2, <2>3, <2>5, <2>8 DEF AskInv, EditSteps, ReadSteps, Question
  <2>10. EditInv(r)'
    <3>1. cur'[r]["assignee_id"] = Null \/ cur'[r]["assignee_id"] \in Members'
      BY <1>2, <2>1, <2>3, <2>8, SameTables DEF TaskInv
    <3>2. tasks'[arg'[r].task]["assignee_id"] = cur'[r]["assignee_id"]
      BY <2>1, <2>8
    <3> QED BY <2>5, <2>8, <3>1, <3>2 DEF EditInv, EditSteps, WasAssignee
  <2>11. TxInv(r)'
    BY <2>5, <2>8 DEF TxInv, LockSteps
  <2> QED BY <2>1, <2>6, <2>7, <2>9, <2>10, <2>11, QuietKept DEF RequestInv
<1> QED BY <1>1, <1>2 DEF Get

\* Whoever may edit, by the role GetUserRole gave and the row Get read.
LEMMA EditorFound ==
  ASSUME Inv, NEW r \in Requests, pc[r] = "role",
         NEW role \in RoleRead(arg[r].actor), role # None, CanEdit(r, role)
  PROVE  arg[r].actor \in Members /\ Entitled(arg[r].task, arg[r].actor)
<1>1. AskInv(r) /\ EditInv(r)
  BY DEF Inv, RequestInv
<1>2. /\ arg[r].actor \in Users /\ arg[r].task \in Tasks /\ tasks[arg[r].task] # None
  BY <1>1 DEF AskInv, EditSteps, Question
<1>3. CASE role \in {RoleOwner, RoleAdmin}
  <2>1. team_members[arg[r].actor] = role
    BY <1>3 DEF RoleRead, RoleOwner, RoleAdmin
  <2> QED BY <1>2, <1>3, <2>1 DEF Members, IsMember, Entitled
<1>4. CASE created_by[arg[r].task] = arg[r].actor
  BY <1>2, <1>4 DEF Inv, TaskInv, Entitled
<1>5. CASE cur[r]["assignee_id"] = arg[r].actor
  <2>1. cur[r]["assignee_id"] # Null
    BY <1>2, <1>5, EditAssumption
  <2> QED BY <1>1, <1>5, <2>1 DEF EditInv, Entitled
<1> QED BY <1>3, <1>4, <1>5 DEF CanEdit

LEMMA CheckEditorInv ==
  ASSUME Inv, NEW r \in Requests, CheckEditor(r)
  PROVE  Inv'
<1>1. PICK role \in RoleRead(arg[r].actor) :
          IF role # None /\ CanEdit(r, role) /\ arg[r].upd["status"] \in TaskStatus \cup {None}
          THEN /\ Goto(r, IF arg[r].upd["assignee_id"] = None THEN "begin" ELSE "assignee")
               /\ UNCHANGED <<lock, arg, cur, written>>
          ELSE Answer(r, 400)
  BY DEF CheckEditor
<1>2. pc[r] = "role" /\ UNCHANGED tables
  BY DEF CheckEditor
<1>3. CASE Answer(r, 400)
  BY <1>2, <1>3, AnswerInv
<1>4. CASE /\ role # None /\ CanEdit(r, role)
           /\ Goto(r, IF arg[r].upd["assignee_id"] = None THEN "begin" ELSE "assignee")
           /\ UNCHANGED <<lock, arg, cur, written>>
  <2> DEFINE step == IF arg[r].upd["assignee_id"] = None THEN "begin" ELSE "assignee"
  <2>1. /\ step \in {"begin", "assignee"}
        /\ step = "begin" => arg[r].upd["assignee_id"] = None
    OBVIOUS
  <2>2. Goto(r, step) /\ UNCHANGED <<tables, lock, arg, cur, written>>
    BY <1>2, <1>4
  <2> HIDE DEF step
  <2>3. /\ LocalOK' /\ ReplyInv' /\ OthersSame(r)
        /\ pc'[r] = step /\ arg'[r] = arg[r] /\ cur'[r] = cur[r] /\ written'[r] = written[r]
        /\ tasks' = tasks
    BY <2>1, <2>2, GoesOn DEF Steps, EditSteps
  <2>4. arg[r].actor \in Members /\ Entitled(arg[r].task, arg[r].actor)
    BY <1>2, <1>4, EditorFound
  <2>5. AskInv(r) /\ TxInv(r)
    BY DEF Inv, RequestInv
  <2>6. AskInv(r)'
    BY <1>2, <2>1, <2>3, <2>5 DEF AskInv, EditSteps, ReadSteps
  <2>7. EditInv(r)'
    <3>1. arg'[r].actor \in Members' /\ Entitled(arg[r].task, arg[r].actor)'
      BY <1>2, <2>3, <2>4, SameMeaning
    <3> QED BY <2>1, <2>3, <3>1 DEF EditInv
  <2>8. TxInv(r)'
    BY <1>2, <2>1, <2>3, <2>5 DEF TxInv, LockSteps
  <2> QED BY <1>2, <2>3, <2>6, <2>7, <2>8, QuietKept DEF RequestInv
<1> QED BY <1>1, <1>3, <1>4

LEMMA CheckAssigneeInv ==
  ASSUME Inv, NEW r \in Requests, CheckAssignee(r)
  PROVE  Inv'
<1>1. pc[r] = "assignee" /\ UNCHANGED tables
  BY DEF CheckAssignee
<1>2. CASE Answer(r, 400)
  BY <1>1, <1>2, AnswerInv
<1>3. CASE /\ IsMember(arg[r].upd["assignee_id"]) /\ Goto(r, "begin")
           /\ UNCHANGED <<lock, arg, cur, written>>
  <2>1. /\ LocalOK' /\ ReplyInv' /\ OthersSame(r)
        /\ pc'[r] = "begin" /\ arg'[r] = arg[r] /\ cur'[r] = cur[r] /\ written'[r] = written[r]
        /\ tasks' = tasks
    BY <1>1, <1>3, GoesOn DEF Steps, EditSteps
  <2>2. AskInv(r) /\ EditInv(r) /\ TxInv(r)
    BY DEF Inv, RequestInv
  <2>3. arg[r].upd["assignee_id"] \in {None} \cup Members
    <3>1. arg[r].upd \in Updates
      BY <1>1, <2>2 DEF AskInv, EditSteps
    <3> QED BY <1>3, <3>1, EditAssumption DEF Members
  <2>4. AskInv(r)'
    BY <1>1, <2>1, <2>2 DEF AskInv, EditSteps, ReadSteps
  <2>5. EditInv(r)'
    BY <1>1, <2>1, <2>2, <2>3, SameMeaning DEF EditInv, EditSteps
  <2>6. TxInv(r)'
    BY <1>1, <2>1, <2>2 DEF TxInv, LockSteps
  <2> QED BY <1>1, <2>1, <2>4, <2>5, <2>6, QuietKept DEF RequestInv
<1> QED BY <1>2, <1>3 DEF CheckAssignee

LEMMA BeginTxInv ==
  ASSUME Inv, NEW r \in Requests, BeginTx(r)
  PROVE  Inv'
<1>1. /\ pc[r] = "begin" /\ UNCHANGED tables /\ Goto(r, "lock")
      /\ UNCHANGED <<tables, lock, arg, cur, written>>
  BY DEF BeginTx
<1>2. /\ LocalOK' /\ ReplyInv' /\ OthersSame(r)
      /\ pc'[r] = "lock" /\ arg'[r] = arg[r] /\ cur'[r] = cur[r] /\ written'[r] = written[r]
      /\ tasks' = tasks
  BY <1>1, GoesOn DEF Steps, EditSteps
<1>3. AskInv(r) /\ EditInv(r) /\ TxInv(r)
  BY DEF Inv, RequestInv
<1>4. AskInv(r)'
  BY <1>1, <1>2, <1>3 DEF AskInv, EditSteps, ReadSteps
<1>5. EditInv(r)'
  BY <1>1, <1>2, <1>3, SameMeaning DEF EditInv, EditSteps
<1>6. TxInv(r)'
  BY <1>1, <1>2, <1>3 DEF TxInv, LockSteps
<1> QED BY <1>1, <1>2, <1>4, <1>5, <1>6, QuietKept DEF RequestInv

----------------------------------------------------------------------------
(* The transaction.                                                        *)

LEMMA LockTaskInv ==
  ASSUME Inv, NEW r \in Requests, LockTask(r)
  PROVE  Inv'
<1> DEFINE t == arg[r].task
           step == IF Changes(tasks[t], arg[r].upd) = {} THEN "commit" ELSE "update"
<1>1. /\ LocalOK /\ TablesOK /\ AskInv(r) /\ EditInv(r) /\ TxInv(r)
      /\ pc[r] = "lock" /\ lock[t] = None /\ UNCHANGED tables /\ tasks' = tasks
  BY DEF Inv, RequestInv, LockTask, tables
<1>2. t \in Tasks /\ tasks[t] \in Row /\ tasks[t] # None
  BY <1>1 DEF AskInv, EditSteps, Question, TablesOK
<1>3. /\ lock' = [lock EXCEPT ![t] = r] /\ cur' = [cur EXCEPT ![r] = tasks[t]]
      /\ pc' = [pc EXCEPT ![r] = step] /\ arg' = arg /\ written' = written /\ reply' = None
  BY DEF LockTask, Goto
<1>4. /\ step \in {"commit", "update"}
      /\ step = "commit" <=> Changes(tasks[t], arg[r].upd) = {}
  OBVIOUS
<1>11. t = arg[r].task
  OBVIOUS
<1> HIDE DEF step, t
<1>5. LocalOK'
  BY <1>1, <1>2, <1>3, <1>4 DEF LocalOK, Steps, EditSteps
<1>6. OthersSame(r) /\ ReplyInv'
  <2>1. \A u \in Tasks : lock[u] \in Requests \ {r} => lock'[u] = lock[u]
    BY <1>1, <1>2, <1>3, EditAssumption DEF LocalOK
  <2> QED BY <1>1, <1>3, <2>1 DEF LocalOK, OthersSame, ReplyInv
<1>7. /\ pc'[r] = step /\ cur'[r] = tasks[t] /\ arg'[r] = arg[r] /\ written'[r] = <<>>
      /\ lock'[t] = r
  BY <1>1, <1>2, <1>3 DEF LocalOK, TxInv
<1>8. AskInv(r)'
  BY <1>1, <1>2, <1>4, <1>7 DEF AskInv, EditSteps, ReadSteps
<1>9. EditInv(r)'
  <2>1. /\ Entitled(arg[r].task, arg[r].actor) /\ arg[r].actor \in Members
        /\ arg[r].upd["assignee_id"] \in {None} \cup Members
    BY <1>1 DEF EditInv, EditSteps
  <2>2. Entitled(arg[r].task, arg[r].actor)' /\ Members' = Members
    BY <1>1, <1>3, <2>1, SameTables DEF Entitled, WasAssignee, tables
  <2> QED BY <1>4, <1>7, <2>1, <2>2 DEF EditInv
<1>10. TxInv(r)'
  <2>1. Unrecorded(r)' = Changes(tasks[t], arg[r].upd)
    BY <1>7 DEF Unrecorded, Recorded, Changes
  <2> QED BY <1>1, <1>4, <1>7, <1>11, <2>1 DEF TxInv, LockSteps
<1> QED BY <1>1, <1>5, <1>6, <1>8, <1>9, <1>10, QuietKept DEF RequestInv

LEMMA UpdateTaskInv ==
  ASSUME Inv, NEW r \in Requests, UpdateTask(r)
  PROVE  Inv'
<1>1. pc[r] = "update" /\ UNCHANGED tables
  BY DEF UpdateTask
<1>2. CASE Answer(r, 400)
  BY <1>1, <1>2, AnswerInv
<1>3. CASE Goto(r, "history") /\ UNCHANGED <<lock, arg, cur, written>>
  <2>1. /\ LocalOK' /\ ReplyInv' /\ OthersSame(r)
        /\ pc'[r] = "history" /\ arg'[r] = arg[r] /\ cur'[r] = cur[r]
        /\ written'[r] = written[r] /\ lock' = lock /\ tasks' = tasks
    BY <1>1, <1>3, GoesOn DEF Steps, EditSteps
  <2>2. AskInv(r) /\ EditInv(r) /\ TxInv(r)
    BY DEF Inv, RequestInv
  <2>3. AskInv(r)'
    BY <1>1, <2>1, <2>2 DEF AskInv, EditSteps, ReadSteps
  <2>4. EditInv(r)'
    BY <1>1, <2>1, <2>2, SameMeaning DEF EditInv, EditSteps
  <2>5. TxInv(r)'
    BY <1>1, <2>1, <2>2 DEF TxInv, LockSteps, OwnRow, Unrecorded, Recorded
  <2> QED BY <1>1, <2>1, <2>3, <2>4, <2>5, QuietKept DEF RequestInv
<1> QED BY <1>2, <1>3 DEF UpdateTask

\* One row more, for a change that had none.
LEMMA InsertHistoryInv ==
  ASSUME Inv, NEW r \in Requests, InsertHistory(r)
  PROVE  Inv'
<1>1. pc[r] = "history" /\ UNCHANGED tables /\ tasks' = tasks
  BY DEF InsertHistory, tables
<1>2. CASE Answer(r, 400)
  BY <1>1, <1>2, AnswerInv
<1>3. CASE /\ written' = [written EXCEPT ![r] = Append(@, HistoryRow(r, NextField(r)))]
           /\ Goto(r, IF Unrecorded(r) = {NextField(r)} THEN "commit" ELSE "history")
           /\ UNCHANGED <<lock, arg, cur>>
  <2> DEFINE f == NextField(r)
             h == HistoryRow(r, f)
             step == IF Unrecorded(r) = {f} THEN "commit" ELSE "history"
  <2>1. LocalOK /\ AskInv(r) /\ EditInv(r) /\ TxInv(r)
    BY DEF Inv, RequestInv
  <2>2. f \in Unrecorded(r)
    BY <1>1, <2>1, NextFieldIsLeft DEF TxInv
  <2>3. f \in Changes(cur[r], arg[r].upd) /\ f \in Fields
    BY <2>2 DEF Unrecorded, Changes
  <2>4. /\ arg[r] \in Question /\ arg[r].upd \in Row /\ cur[r] \in Row
    BY <1>1, <2>1, EditAssumption DEF AskInv, EditSteps
  <2>5. /\ h.task_id = arg[r].task /\ h.changed_by = arg[r].actor /\ h.field_name = f
        /\ h.new_value = arg[r].upd[f] /\ (f # "status" => h.old_value = cur[r][f])
    BY DEF HistoryRow
  <2>6. h \in Change
    <3>1. cur[r][f] \in Values /\ arg[r].upd[f] \in Values
      BY <2>3, <2>4 DEF Row
    <3> QED BY <2>3, <2>4, <3>1 DEF HistoryRow, Change, Question
  <2>7. /\ written' = [written EXCEPT ![r] = Append(written[r], h)]
        /\ pc' = [pc EXCEPT ![r] = step] /\ lock' = lock /\ arg' = arg /\ cur' = cur
        /\ reply' = None
    BY <1>3 DEF Goto
  <2>8. step \in {"commit", "history"} /\ (step = "commit" <=> Unrecorded(r) = {f})
    OBVIOUS
  <2> HIDE DEF f, h, step
  <2>9. /\ written[r] \in Seq(Change) /\ Append(written[r], h) \in Seq(Change)
        /\ written'[r] = Append(written[r], h) /\ pc'[r] = step
        /\ arg'[r] = arg[r] /\ cur'[r] = cur[r]
    BY <2>1, <2>6, <2>7, AppendProperties DEF LocalOK
  <2>10. LocalOK'
    BY <2>1, <2>7, <2>8, <2>9 DEF LocalOK, Steps, EditSteps
  <2>11. OthersSame(r) /\ ReplyInv'
    BY <2>1, <2>7 DEF LocalOK, OthersSame, ReplyInv
  <2>12. \A n \in DOMAIN written'[r] :
             \/ n \in DOMAIN written[r] /\ written'[r][n] = written[r][n]
             \/ written'[r][n] = h
    BY <2>6, <2>9, AppendProperties
  <2>13. Recorded(r)' = Recorded(r) \cup {f}
    <3>1. ASSUME NEW n \in DOMAIN written[r]
          PROVE  n \in DOMAIN written'[r] /\ written'[r][n] = written[r][n]
      BY <2>6, <2>9, AppendProperties
    <3>2. Len(written'[r]) \in DOMAIN written'[r] /\ written'[r][Len(written'[r])] = h
      BY <2>6, <2>9, AppendProperties, LenProperties
    <3> QED BY <2>5, <2>12, <3>1, <3>2 DEF Recorded
  <2>14. Unrecorded(r)' = Unrecorded(r) \ {f}
    BY <2>9, <2>13 DEF Unrecorded, Changes
  <2>15. AskInv(r)'
    BY <1>1, <2>1, <2>8, <2>9 DEF AskInv, EditSteps, ReadSteps
  <2>16. EditInv(r)'
    BY <1>1, <2>1, <2>8, <2>9, SameMeaning DEF EditInv, EditSteps
  <2>17. TxInv(r)'
    <3>1. (\A n \in DOMAIN written[r] : OwnRow(r, written[r][n]))'
      <4>1. \A m \in DOMAIN written[r] : OwnRow(r, written[r][m])
        BY <1>1, <2>1 DEF TxInv, LockSteps
      <4>2. PICK g \in Change : g = h
        BY <2>6
      <4>3. OwnRow(r, g)'
        BY <2>3, <2>5, <2>9, <4>2 DEF OwnRow, Changes
      <4>4. ASSUME NEW e, OwnRow(r, e) PROVE OwnRow(r, e)'
        BY <2>9, <4>4 DEF OwnRow, Changes
      <4> QED BY <2>12, <4>1, <4>2, <4>3, <4>4 DEF OwnRow
    <3>2. lock'[arg'[r].task] = r /\ cur'[r] = tasks'[arg'[r].task]
      BY <1>1, <2>1, <2>7, <2>9 DEF TxInv, LockSteps
    <3>3. /\ pc'[r] = "commit" => Unrecorded(r)' = {}
          /\ pc'[r] = "history" => Unrecorded(r)' # {}
      BY <2>2, <2>8, <2>9, <2>14
    <3> QED BY <2>8, <2>9, <3>1, <3>2, <3>3 DEF TxInv
  <2> QED BY <1>1, <2>10, <2>11, <2>15, <2>16, <2>17, QuietKept DEF RequestInv
<1> QED BY <1>2, <1>3 DEF InsertHistory

LEMMA Concat ==
  ASSUME NEW S, NEW a \in Seq(S), NEW b \in Seq(S)
  PROVE  /\ a \o b \in Seq(S) /\ Len(a \o b) = Len(a) + Len(b)
         /\ \A n \in DOMAIN a : n \in DOMAIN (a \o b) /\ (a \o b)[n] = a[n]
         /\ \A n \in DOMAIN b :
                /\ Len(a) + n \in (Len(a) + 1) .. Len(a \o b)
                /\ Len(a) + n \in DOMAIN (a \o b)
                /\ (a \o b)[Len(a) + n] = b[n]
         /\ \A n \in (Len(a) + 1) .. Len(a \o b) :
                n - Len(a) \in DOMAIN b /\ (a \o b)[n] = b[n - Len(a)]
<1>1. /\ a \o b \in Seq(S) /\ Len(a \o b) = Len(a) + Len(b)
      /\ \A i \in 1 .. Len(a) + Len(b) :
             (a \o b)[i] = IF i <= Len(a) THEN a[i] ELSE b[i - Len(a)]
  BY ConcatProperties
<1>2. /\ Len(a) \in Nat /\ Len(b) \in Nat /\ DOMAIN a = 1 .. Len(a) /\ DOMAIN b = 1 .. Len(b)
      /\ DOMAIN (a \o b) = 1 .. Len(a) + Len(b)
  BY <1>1, LenProperties
<1> QED BY <1>1, <1>2

\* What the row of t was, is, and what is said of the difference.
LEMMA CommitFacts ==
  ASSUME Inv, NEW r \in Requests, CommitUpdate(r), NEW t \in Tasks, t = arg[r].task
  PROVE  /\ tasks[t] # None /\ tasks[t] \in Row /\ tasks'[t] \in Row /\ lock[t] = r
         /\ \A s \in Tasks \ {t} : tasks'[s] = tasks[s]
         /\ \A f \in Fields :
                tasks'[t][f] = IF f \in Changes(tasks[t], arg[r].upd)
                               THEN arg[r].upd[f] ELSE tasks[t][f]
         /\ Recorded(r) = Changes(tasks[t], arg[r].upd)
         /\ \A n \in DOMAIN written[r] :
                /\ written[r][n].task_id = t /\ written[r][n].changed_by = arg[r].actor
                /\ written[r][n].new_value = arg[r].upd[written[r][n].field_name]
                /\ written[r][n].field_name # "status" =>
                       written[r][n].old_value = tasks[t][written[r][n].field_name]
         /\ UNCHANGED <<team_members, created_by, task_comments>>
         /\ task_history' = task_history \o written[r]
<1>1. /\ TablesOK /\ AskInv(r) /\ TxInv(r) /\ pc[r] = "commit"
  BY DEF Inv, RequestInv, CommitUpdate
<1>2. /\ tasks' = [tasks EXCEPT ![t] = RowAfter(tasks[t], cur[r], arg[r].upd)]
      /\ UNCHANGED <<team_members, created_by, task_comments>>
      /\ task_history' = task_history \o written[r]
  BY DEF CommitUpdate
<1>3. /\ tasks[t] # None /\ tasks[t] \in Row /\ arg[r].upd \in Row
  BY <1>1, EditAssumption DEF AskInv, EditSteps, TablesOK
<1>4. /\ lock[t] = r /\ cur[r] = tasks[t] /\ Unrecorded(r) = {}
      /\ \A n \in DOMAIN written[r] : OwnRow(r, written[r][n])
  BY <1>1 DEF TxInv, LockSteps
<1>5. /\ tasks'[t] = RowAfter(tasks[t], tasks[t], arg[r].upd)
      /\ \A s \in Tasks \ {t} : tasks'[s] = tasks[s]
  BY <1>1, <1>2, <1>4 DEF TablesOK
<1>6. \A f \in Fields :
          tasks'[t][f] = IF f \in Changes(tasks[t], arg[r].upd)
                         THEN arg[r].upd[f] ELSE tasks[t][f]
  BY <1>5 DEF RowAfter, Changes
<1>7. tasks'[t] \in Row
  <2>1. \A f \in Fields : tasks'[t][f] \in Values
    BY <1>3, <1>6 DEF Row
  <2>2. tasks'[t] = [f \in Fields |-> tasks'[t][f]]
    BY <1>5 DEF RowAfter
  <2> QED BY <2>1, <2>2 DEF Row
<1>8. Recorded(r) = Changes(tasks[t], arg[r].upd)
  BY <1>4 DEF Unrecorded, Recorded, OwnRow
<1> QED BY <1>2, <1>3, <1>4, <1>5, <1>6, <1>7, <1>8 DEF OwnRow

LEMMA CommitUpdateInv ==
  ASSUME Inv, NEW r \in Requests, CommitUpdate(r)
  PROVE  Inv'
<1>1. /\ TablesOK /\ LocalOK /\ AskInv(r) /\ EditInv(r) /\ TxInv(r) /\ pc[r] = "commit"
  BY DEF Inv, RequestInv, CommitUpdate
<1>2. PICK t \in Tasks : t = arg[r].task
  BY <1>1 DEF AskInv, Question
<1>3. /\ tasks[t] # None /\ tasks[t] \in Row /\ tasks'[t] \in Row /\ lock[t] = r
      /\ \A s \in Tasks \ {t} : tasks'[s] = tasks[s]
      /\ \A f \in Fields :
             tasks'[t][f] = IF f \in Changes(tasks[t], arg[r].upd)
                            THEN arg[r].upd[f] ELSE tasks[t][f]
      /\ Recorded(r) = Changes(tasks[t], arg[r].upd)
      /\ \A n \in DOMAIN written[r] :
             /\ written[r][n].task_id = t
             /\ written[r][n].field_name # "status" =>
                    written[r][n].old_value = tasks[t][written[r][n].field_name]
      /\ team_members' = team_members /\ created_by' = created_by
      /\ task_comments' = task_comments
      /\ task_history' = task_history \o written[r]
  BY <1>2, CommitFacts
<1>4. tasks'[t] # None
  BY <1>3, EditAssumption
<1>5. "assignee_id" \in Fields
  BY FieldsAre
<1>6. task_history \in Seq(Change) /\ written[r] \in Seq(Change)
  BY <1>1 DEF TablesOK, LocalOK
<1>7. TablesOK'
  <2>1. task_history' \in Seq(Change)
    BY <1>3, <1>6, Concat
  <2>2. tasks' \in [Tasks -> Row \cup {None}]
    <3>1. tasks' = [tasks EXCEPT ![t] = RowAfter(tasks[t], cur[r], arg[r].upd)]
      BY <1>2 DEF CommitUpdate
    <3>2. tasks'[t] = RowAfter(tasks[t], cur[r], arg[r].upd)
      BY <1>1, <3>1 DEF TablesOK
    <3> QED BY <1>1, <1>3, <3>1, <3>2 DEF TablesOK
  <2> QED BY <1>1, <1>3, <2>1, <2>2 DEF TablesOK
<1>8. Grows
  <2>1. ASSUME NEW s \in Tasks, tasks[s] # None, NEW u \in Users, WasAssignee(s, u)
        PROVE  WasAssignee(s, u)'
    <3>1. CASE \E n \in DOMAIN task_history :
                   /\ task_history[n].task_id = s
                   /\ task_history[n].field_name = "assignee_id"
                   /\ task_history[n].old_value = u
      <4>1. \A n \in DOMAIN task_history :
                n \in DOMAIN task_history' /\ task_history'[n] = task_history[n]
        BY <1>3, <1>6, Concat
      <4> QED BY <3>1, <4>1 DEF WasAssignee
    <3>2. CASE tasks[s]["assignee_id"] = u /\ tasks'[s]["assignee_id"] = u
      BY <3>2 DEF WasAssignee
    <3>3. CASE tasks[s]["assignee_id"] = u /\ tasks'[s]["assignee_id"] # u
      <4>1. s = t /\ "assignee_id" \in Changes(tasks[t], arg[r].upd)
        BY <1>3, <1>5, <3>3
      <4>2. PICK n \in DOMAIN written[r] : written[r][n].field_name = "assignee_id"
        BY <1>3, <4>1 DEF Recorded
      <4>3. written[r][n].task_id = s /\ written[r][n].old_value = u
        BY <1>3, <3>3, <4>1, <4>2
      <4>4. /\ Len(task_history) + n \in DOMAIN task_history'
            /\ task_history'[Len(task_history) + n] = written[r][n]
        BY <1>3, <1>6, Concat
      <4> QED BY <4>2, <4>3, <4>4 DEF WasAssignee
    <3> QED BY <2>1, <3>1, <3>2, <3>3 DEF WasAssignee
  <2> QED BY <1>3, <1>4, <2>1 DEF Grows
<1>9. Members' = Members /\ CommentsInv'
  BY <1>3 DEF Members, IsMember, CommentsInv, Inv
<1>10. ASSUME NEW s \in Tasks PROVE TaskInv(s)'
  <2>1. TaskInv(s)
    BY DEF Inv
  <2>2. CASE s # t
    BY <1>3, <1>9, <2>1, <2>2 DEF TaskInv
  <2>3. CASE s = t
    <3>1. tasks'[t]["assignee_id"] \in {Null} \cup Members
      <4>1. CASE "assignee_id" \notin Changes(tasks[t], arg[r].upd)
        BY <1>3, <1>5, <2>1, <2>3, <4>1 DEF TaskInv
      <4>2. CASE "assignee_id" \in Changes(tasks[t], arg[r].upd)
        <5>1. arg[r].upd["assignee_id"] # None
          BY <4>2 DEF Changes, Changed
        <5>2. arg[r].upd["assignee_id"] \in {None} \cup Members
          BY <1>1 DEF EditInv, EditSteps
        <5> QED BY <1>3, <1>5, <4>2, <5>1, <5>2
      <4> QED BY <4>1, <4>2
    <3> QED BY <1>3, <1>9, <2>1, <2>3, <3>1 DEF TaskInv
  <2> QED BY <2>2, <2>3
<1>11. \A s \in Tasks : lock[s] \in Requests \ {r} => tasks'[s] = tasks[s]
  BY <1>3
<1>12. LocalOK' /\ RequestInv(r)' /\ ReplyInv' /\ OthersSame(r)
  <2>1. team_members'[arg[r].actor] # None
    BY <1>1, <1>3 DEF EditInv, EditSteps, Members, IsMember
  <2>2. CASE AnswerRow(r, 200, RowAfter(tasks[arg[r].task], cur[r], arg[r].upd))
    <3>1. RowAfter(tasks[arg[r].task], cur[r], arg[r].upd) \in Row \cup {None}
      <4>1. tasks' = [tasks EXCEPT ![t] = RowAfter(tasks[t], cur[r], arg[r].upd)]
        BY <1>2 DEF CommitUpdate
      <4> QED BY <1>1, <1>2, <1>3, <4>1 DEF TablesOK
    <3> QED BY <2>1, <2>2, <3>1, Answered
  <2>3. CASE Answer(r, 400)
    <3>1. cur[r] \in Row \cup {None} /\ AnswerRow(r, 400, cur[r])
      BY <1>1, <2>3 DEF LocalOK, Answer
    <3> QED BY <3>1, Answered
  <2> QED BY <2>2, <2>3 DEF CommitUpdate
<1> QED BY <1>7, <1>8, <1>9, <1>10, <1>11, <1>12, Kept

----------------------------------------------------------------------------
(* Comments and readers, failures, and what other requests commit.         *)

LEMMA CheckMemberInv ==
  ASSUME Inv, NEW r \in Requests, CheckMember(r)
  PROVE  Inv'
<1>1. pc[r] = "member" /\ UNCHANGED tables
  BY DEF CheckMember
<1>2. CASE Answer(r, 400)
  BY <1>1, <1>2, AnswerInv
<1>3. CASE /\ IsMember(arg[r].actor) /\ Goto(r, arg[r].op)
           /\ UNCHANGED <<lock, arg, cur, written>>
  <2>1. AskInv(r) /\ TxInv(r)
    BY DEF Inv, RequestInv
  <2>2. /\ arg[r].op \in ReadSteps /\ arg[r] \in Question /\ arg[r].actor \in Members
    BY <1>1, <1>3, <2>1 DEF AskInv, Question, Members
  <2>3. /\ LocalOK' /\ ReplyInv' /\ OthersSame(r)
        /\ pc'[r] = arg[r].op /\ arg'[r] = arg[r] /\ cur'[r] = cur[r]
        /\ written'[r] = written[r]
    BY <1>1, <1>3, <2>2, GoesOn DEF Steps
  <2>4. AskInv(r)'
    <3>1. tasks'[arg'[r].task] # None
      BY <1>1, <2>1, <2>3 DEF AskInv, tables
    <3> QED BY <1>1, <2>1, <2>2, <2>3, <3>1, SameTables DEF AskInv, EditSteps, ReadSteps
  <2>5. EditInv(r)' /\ TxInv(r)'
    BY <1>1, <2>1, <2>2, <2>3 DEF EditInv, TxInv, EditSteps, LockSteps, ReadSteps
  <2> QED BY <1>1, <2>3, <2>4, <2>5, QuietKept DEF RequestInv
<1> QED BY <1>2, <1>3 DEF CheckMember

LEMMA AddCommentInv ==
  ASSUME Inv, NEW r \in Requests, AddComment(r)
  PROVE  Inv'
<1> DEFINE row == [task_id |-> arg[r].task, user_id |-> arg[r].actor]
<1>1. /\ TablesOK /\ LocalOK /\ AskInv(r) /\ CommentsInv /\ pc[r] = "insert_comment"
      /\ team_members' = team_members /\ tasks' = tasks
      /\ created_by' = created_by /\ task_history' = task_history
  BY DEF Inv, RequestInv, AddComment
<1>2. arg[r] \in Question /\ arg[r].actor \in Members
  BY <1>1 DEF AskInv, ReadSteps
<1>3. row \in [task_id : Tasks, user_id : Users] /\ row.user_id = arg[r].actor
  BY <1>2 DEF Question
<1>4. CASE UNCHANGED task_comments
  <2>1. UNCHANGED tables /\ (Answer(r, 400) \/ Answer(r, 201))
    BY <1>1, <1>4 DEF AddComment, tables
  <2> QED BY <1>2, <2>1, AnswerInv
<1>5. CASE /\ task_comments' = Append(task_comments, row)
           /\ Answer(r, 201) \/ Answer(r, 400)
  <2> HIDE DEF row
  <2>1. TablesOK'
    BY <1>1, <1>3, <1>5, AppendProperties DEF TablesOK
  <2>2. Grows /\ Members' = Members
    BY <1>1 DEF Grows, WasAssignee, Members, IsMember
  <2>3. \A t \in Tasks : TaskInv(t)'
    BY <1>1, <2>2 DEF TaskInv, Inv
  <2>4. CommentsInv'
    <3>1. \A n \in DOMAIN task_comments' :
              \/ n \in DOMAIN task_comments /\ task_comments'[n] = task_comments[n]
              \/ task_comments'[n] = row
      BY <1>1, <1>3, <1>5, AppendProperties DEF TablesOK
    <3> QED BY <1>1, <1>2, <1>3, <2>2, <3>1 DEF CommentsInv
  <2>5. LocalOK' /\ RequestInv(r)' /\ ReplyInv' /\ OthersSame(r)
    <3>1. team_members'[arg[r].actor] # None
      BY <1>1, <1>2 DEF Members, IsMember
    <3>2. cur[r] \in Row \cup {None} /\ (AnswerRow(r, 201, cur[r]) \/ AnswerRow(r, 400, cur[r]))
      BY <1>1, <1>5 DEF LocalOK, Answer
    <3> QED BY <3>1, <3>2, Answered
  <2> QED BY <1>1, <2>1, <2>2, <2>3, <2>4, <2>5, Kept
<1> QED BY <1>4, <1>5 DEF AddComment

LEMMA SelectRowsInv ==
  ASSUME Inv, NEW r \in Requests, SelectRows(r)
  PROVE  Inv'
<1>1. arg[r].actor \in Members
  BY DEF Inv, RequestInv, AskInv, SelectRows, ReadSteps
<1>2. (Answer(r, 400) \/ Answer(r, 200)) /\ UNCHANGED tables
  BY DEF SelectRows
<1> QED BY <1>1, <1>2, AnswerInv

LEMMA StatementInv ==
  ASSUME Inv, NEW r \in Requests, Statement(r) \/ StatementFails(r)
  PROVE  Inv'
<1>1. CASE StatementFails(r)
  BY <1>1, AnswerInv DEF StatementFails
<1> QED BY <1>1, GetInv, CheckEditorInv, CheckAssigneeInv, BeginTxInv, LockTaskInv,
           UpdateTaskInv, InsertHistoryInv, CommitUpdateInv, CheckMemberInv,
           AddCommentInv, SelectRowsInv DEF Statement

LEMMA CrashInv ==
  ASSUME Inv, Crash
  PROVE  Inv'
<1>1. /\ UNCHANGED tables /\ reply' = None
      /\ lock' = [t \in Tasks |-> None] /\ pc' = [r \in Requests |-> "idle"]
      /\ arg' = [r \in Requests |-> None] /\ cur' = [r \in Requests |-> None]
      /\ written' = [r \in Requests |-> <<>>]
  BY DEF Crash
<1>2. LocalOK'
  BY <1>1 DEF LocalOK, Steps
<1>3. \A r \in Requests : RequestInv(r)'
  BY <1>1 DEF RequestInv, AskInv, EditInv, TxInv, EditSteps, LockSteps, ReadSteps
<1>4. ReplyInv'
  BY <1>1 DEF ReplyInv
<1> QED BY <1>1, <1>2, <1>3, <1>4, SameTables DEF Inv

\* A commit of another request, of which no request here learns.
LEMMA ElsewhereInv ==
  ASSUME Inv, Grows, TablesOK', \A t \in Tasks : TaskInv(t)', CommentsInv',
         \A t \in Tasks : tasks[t] # None => tasks'[t] = tasks[t],
         UNCHANGED <<lock, local>>, reply' = None
  PROVE  Inv'
<1>1. /\ lock' = lock /\ pc' = pc /\ arg' = arg /\ cur' = cur /\ written' = written
  BY DEF local
<1>2. LocalOK'
  BY <1>1 DEF LocalOK, Inv
<1>3. ASSUME NEW q \in Requests PROVE RequestInv(q)'
  <2>1. pc[q] \in LockSteps => tasks'[arg[q].task] = tasks[arg[q].task]
    BY DEF Inv, RequestInv, AskInv, LockSteps, EditSteps, Question
  <2> QED BY <1>1, <2>1, SameKept
<1>4. ReplyInv'
  BY DEF ReplyInv
<1> QED BY <1>2, <1>3, <1>4 DEF Inv

LEMMA JoinInv ==
  ASSUME Inv, NEW u \in Users, NEW role \in Roles, Join(u, role)
  PROVE  Inv'
<1>1. /\ TablesOK /\ team_members[u] = None
      /\ team_members' = [team_members EXCEPT ![u] = role] /\ tasks' = tasks
      /\ created_by' = created_by /\ task_history' = task_history
      /\ task_comments' = task_comments /\ UNCHANGED <<lock, local>> /\ reply' = None
  BY DEF Inv, Join, IsMember
<1>2. TablesOK'
  BY <1>1 DEF TablesOK
<1>3. Grows
  BY <1>1 DEF Grows, IsMember, WasAssignee, TablesOK
<1>4. \A v \in Members : v \in Members'
  BY <1>3, MembersStay
<1>5. CommentsInv' /\ \A t \in Tasks : TaskInv(t)'
  BY <1>1, <1>4 DEF Inv, CommentsInv, TaskInv
<1> QED BY <1>1, <1>2, <1>3, <1>5, ElsewhereInv

LEMMA CreateTaskInv ==
  ASSUME Inv, NEW t \in Tasks, NEW u \in Users, NEW row \in NewRows, CreateTask(t, u, row)
  PROVE  Inv'
<1>1. /\ TablesOK /\ tasks[t] = None /\ u \in Members
      /\ row["assignee_id"] \in {Null} \cup Members
      /\ tasks' = [tasks EXCEPT ![t] = row] /\ created_by' = [created_by EXCEPT ![t] = u]
      /\ team_members' = team_members /\ task_history' = task_history
      /\ task_comments' = task_comments /\ UNCHANGED <<lock, local>> /\ reply' = None
  BY DEF Inv, CreateTask, Members
<1>2. row \in Row
  BY EditAssumption
<1>3. TablesOK'
  BY <1>1, <1>2 DEF TablesOK
<1>4. /\ tasks'[t] = row /\ created_by'[t] = u
      /\ \A s \in Tasks \ {t} : tasks'[s] = tasks[s] /\ created_by'[s] = created_by[s]
  BY <1>1 DEF TablesOK
<1>5. Grows
  BY <1>1, <1>4 DEF Grows, WasAssignee
<1>6. Members' = Members
  BY <1>1 DEF Members, IsMember
<1>7. CommentsInv' /\ \A s \in Tasks : TaskInv(s)'
  BY <1>1, <1>4, <1>6 DEF Inv, CommentsInv, TaskInv
<1> QED BY <1>1, <1>3, <1>4, <1>5, <1>7, ElsewhereInv

LEMMA NextInv == Inv /\ [Next]_vars => Inv'
<1> SUFFICES ASSUME Inv, [Next]_vars PROVE Inv'
  OBVIOUS
<1>1. CASE UNCHANGED vars
  <2>1. /\ UNCHANGED tables /\ UNCHANGED <<lock, local>>
        /\ lock' = lock /\ pc' = pc /\ arg' = arg /\ cur' = cur /\ written' = written
        /\ reply' = reply /\ tasks' = tasks
    BY <1>1 DEF vars, local, tables
  <2>2. LocalOK'
    BY <2>1 DEF LocalOK, Inv
  <2>3. \A q \in Requests : RequestInv(q)'
    BY <2>1, SameTables, SameKept
  <2>4. ReplyInv'
    BY <2>1 DEF ReplyInv, IsMember, tables, Inv
  <2> QED BY <2>1, <2>2, <2>3, <2>4, SameTables DEF Inv
<1>2. CASE Next
  BY <1>2, JoinInv, CreateTaskInv, ArrivalInv, StatementInv, CrashInv DEF Next
<1> QED BY <1>1, <1>2

LEMMA Invariant == Spec => []Inv
BY InitInv, NextInv, PTL DEF Spec

----------------------------------------------------------------------------
(* What a commit adds to the history.                                      *)

LEMMA CommitRows ==
  ASSUME Inv, NEW r \in Requests, CommitUpdate(r)
  PROVE  /\ NewHistory = {written[r][n] : n \in DOMAIN written[r]}
         /\ Len(task_history') >= Len(task_history)
<1>1. task_history \in Seq(Change) /\ written[r] \in Seq(Change)
  BY DEF Inv, TablesOK, LocalOK
<1>2. task_history' = task_history \o written[r]
  BY DEF CommitUpdate
<1>3. /\ \A n \in DOMAIN written[r] :
             /\ Len(task_history) + n \in (Len(task_history) + 1) .. Len(task_history')
             /\ task_history'[Len(task_history) + n] = written[r][n]
      /\ \A n \in (Len(task_history) + 1) .. Len(task_history') :
             /\ n - Len(task_history) \in DOMAIN written[r]
             /\ task_history'[n] = written[r][n - Len(task_history)]
      /\ Len(task_history') = Len(task_history) + Len(written[r])
  BY <1>1, <1>2, Concat
<1>4. Len(task_history) \in Nat /\ Len(written[r]) \in Nat
  BY <1>1, LenProperties
<1> QED BY <1>3, <1>4 DEF NewHistory

LEMMA NoNewRows ==
  ASSUME Inv, task_history' = task_history
  PROVE  NewHistory = {} /\ Len(task_history') >= Len(task_history)
<1>1. Len(task_history) \in Nat
  BY LenProperties DEF Inv, TablesOK
<1>2. (Len(task_history) + 1) .. Len(task_history') = {}
  BY <1>1
<1> QED BY <1>1, <1>2 DEF NewHistory

\* Nothing but a commit of UpdateWithHistory touches an existing task.
LEMMA OnlyCommitsChange ==
  ASSUME [Next]_vars, \A r \in Requests : ~ CommitUpdate(r), Inv
  PROVE  /\ task_history' = task_history
         /\ \A t \in Tasks : tasks[t] # None => tasks'[t] = tasks[t]
<1>1. CASE UNCHANGED vars
  BY <1>1 DEF vars, tables
<1>2. ASSUME NEW r \in Requests, Arrival(r) \/ Statement(r) \/ StatementFails(r)
      PROVE  task_history' = task_history /\ tasks' = tasks
  BY <1>2 DEF Arrival, Refuse, BeginUpdate, BeginOther, Begin, Statement, StatementFails,
              Get, CheckEditor, CheckAssignee, BeginTx, LockTask, UpdateTask, InsertHistory,
              CheckMember, AddComment, SelectRows, tables
<1>3. ASSUME NEW t \in Tasks, NEW u \in Users, NEW row \in NewRows, CreateTask(t, u, row)
      PROVE  /\ task_history' = task_history
             /\ \A s \in Tasks : tasks[s] # None => tasks'[s] = tasks[s]
  BY <1>3 DEF CreateTask, Inv, TablesOK
<1>4. ASSUME NEW u \in Users, NEW role \in Roles, Join(u, role)
      PROVE  task_history' = task_history /\ tasks' = tasks
  BY <1>4 DEF Join
<1>5. CASE Crash
  BY <1>5 DEF Crash, tables
<1> QED BY <1>1, <1>2, <1>3, <1>4, <1>5 DEF Next

LEMMA StepRecords == Inv /\ [Next]_vars => RecordsChanges
<1> SUFFICES ASSUME Inv, [Next]_vars PROVE RecordsChanges
  OBVIOUS
<1>1. CASE \A r \in Requests : ~ CommitUpdate(r)
  BY <1>1, OnlyCommitsChange, NoNewRows DEF RecordsChanges
<1>2. ASSUME NEW r \in Requests, CommitUpdate(r) PROVE RecordsChanges
  <2>1. PICK t \in Tasks : t = arg[r].task
    BY <1>2 DEF Inv, RequestInv, AskInv, CommitUpdate, Question
  <2>2. /\ \A s \in Tasks \ {t} : tasks'[s] = tasks[s]
        /\ \A f \in Fields :
               tasks'[t][f] = IF f \in Changes(tasks[t], arg[r].upd)
                              THEN arg[r].upd[f] ELSE tasks[t][f]
        /\ Recorded(r) = Changes(tasks[t], arg[r].upd)
        /\ \A n \in DOMAIN written[r] :
               /\ written[r][n].task_id = t
               /\ written[r][n].new_value = arg[r].upd[written[r][n].field_name]
               /\ written[r][n].field_name # "status" =>
                      written[r][n].old_value = tasks[t][written[r][n].field_name]
    BY <1>2, <2>1, CommitFacts
  <2>3. /\ NewHistory = {written[r][n] : n \in DOMAIN written[r]}
        /\ Len(task_history') >= Len(task_history)
    BY <1>2, CommitRows
  <2>4. ASSUME NEW s \in Tasks, NEW f \in Fields, tasks'[s][f] # tasks[s][f]
        PROVE  \E h \in NewHistory : h.task_id = s /\ h.field_name = f
    <3>1. s = t /\ f \in Recorded(r)
      BY <2>2, <2>4
    <3>2. PICK n \in DOMAIN written[r] : written[r][n].field_name = f
      BY <3>1 DEF Recorded
    <3> QED BY <2>2, <2>3, <3>1, <3>2
  <2>5. ASSUME NEW h \in NewHistory
        PROVE  /\ h.new_value = tasks'[h.task_id][h.field_name]
               /\ h.field_name # "status" =>
                      h.old_value = tasks[h.task_id][h.field_name]
    <3>1. PICK n \in DOMAIN written[r] : h = written[r][n]
      BY <2>3
    <3>2. h.field_name \in Changes(tasks[t], arg[r].upd)
      BY <2>2, <3>1 DEF Recorded
    <3>3. h.field_name \in Fields
      BY <3>2 DEF Changes
    <3> QED BY <2>2, <3>1, <3>2, <3>3
  <2> QED BY <2>3, <2>4, <2>5 DEF RecordsChanges
<1> QED BY <1>1, <1>2

LEMMA StepEntitled ==
  Inv /\ [Next]_vars => \A h \in NewHistory : Entitled(h.task_id, h.changed_by)
<1> SUFFICES ASSUME Inv, [Next]_vars
             PROVE  \A h \in NewHistory : Entitled(h.task_id, h.changed_by)
  OBVIOUS
<1>1. CASE \A r \in Requests : ~ CommitUpdate(r)
  BY <1>1, OnlyCommitsChange, NoNewRows
<1>2. ASSUME NEW r \in Requests, CommitUpdate(r), NEW h \in NewHistory
      PROVE  Entitled(h.task_id, h.changed_by)
  <2>1. /\ pc[r] = "commit" /\ arg[r].task \in Tasks /\ Entitled(arg[r].task, arg[r].actor)
    BY <1>2 DEF Inv, RequestInv, AskInv, EditInv, EditSteps, CommitUpdate, Question
  <2>2. PICK n \in DOMAIN written[r] : h = written[r][n]
    BY <1>2, CommitRows
  <2>3. h.task_id = arg[r].task /\ h.changed_by = arg[r].actor
    BY <1>2, <2>1, <2>2, CommitFacts
  <2> QED BY <2>1, <2>3
<1> QED BY <1>1, <1>2

----------------------------------------------------------------------------
(* Theorems.                                                               *)

\* Rows, locks, open transactions and answers have their types.
THEOREM TypeCorrect == Spec => []TypeOK
<1>1. Inv => TypeOK
  BY Types DEF Inv
<1> QED BY <1>1, Invariant, PTL

\* Tasks are assigned to members, members comment, and members get answers,
\* for any number of requests between whose statements others run.
THEOREM MembersAlone == Spec => []MembersOnly
<1>1. Inv => MembersOnly
  BY DEF Inv, MembersOnly, TaskInv, CommentsInv, ReplyInv, Members
<1> QED BY <1>1, Invariant, PTL

\* The history is complete and its old values are those that were replaced,
\* whatever races for the row, fails or crashes.
THEOREM HistoryIsComplete == Spec => ChangesAreRecorded
BY Invariant, StepRecords, PTL DEF Spec, ChangesAreRecorded

\* Whoever changes a task is an owner or admin, its creator, or was its
\* assignee, although the row the check looked at may be old by then.
THEOREM OnlyEntitledEdit == Spec => EditorsEntitled
BY Invariant, StepEntitled, PTL DEF Spec, EditorsEntitled

----------------------------------------------------------------------------
(* TaskEdit implements TaskAudit: a PUT is its COMMIT, a comment its INSERT. *)
(* Inv does not say how often a field is in the history of a transaction,   *)
(* nor which status has come how far; ExactInv does.                        *)

\* What the handler, and later MySQL, accepted as a status, and that no field
\* was recorded twice.
ExactInv(r) ==
    /\ pc[r] \in EditSteps \ {"role"} => arg[r].upd["status"] \in TaskStatus \cup {None}
    /\ pc[r] = "history" \/ (pc[r] = "commit" /\ Changes(cur[r], arg[r].upd) # {})
           => arg[r].upd["status"] \in EnumTaskStatus \cup {None}
    /\ \A m, n \in DOMAIN written[r] :
           written[r][m].field_name = written[r][n].field_name => m = n

\* A request that stands still.
Still(q) == pc'[q] = pc[q] /\ arg'[q] = arg[q] /\ cur'[q] = cur[q] /\ written'[q] = written[q]

LEMMA StillExact ==
  ASSUME NEW q \in Requests, Still(q), ExactInv(q)
  PROVE  ExactInv(q)'
BY DEF Still, ExactInv, Changes

LEMMA AnsweredExact ==
  ASSUME LocalOK, NEW r \in Requests, NEW status, NEW row, AnswerRow(r, status, row)
  PROVE  ExactInv(r)' /\ \A q \in Requests \ {r} : Still(q)
<1>1. pc'[r] = "idle" /\ written'[r] = <<>>
  BY DEF AnswerRow, LocalOK
<1>2. \A q \in Requests \ {r} : Still(q)
  BY DEF AnswerRow, LocalOK, Still
<1> QED BY <1>1, <1>2 DEF ExactInv, EditSteps

\* r goes on to a step at which nothing more is claimed than before.
LEMMA GoesOnExact ==
  ASSUME LocalOK, NEW r \in Requests, ExactInv(r),
         NEW step \in Steps, Goto(r, step), UNCHANGED <<arg, cur, written>>,
         step \in EditSteps \ {"role"} => arg[r].upd["status"] \in TaskStatus \cup {None},
         step \in {"history", "commit"} => arg[r].upd["status"] \in EnumTaskStatus \cup {None}
  PROVE  ExactInv(r)' /\ \A q \in Requests \ {r} : Still(q)
<1>1. pc'[r] = step /\ arg'[r] = arg[r] /\ cur'[r] = cur[r] /\ written'[r] = written[r]
  BY DEF Goto, LocalOK
<1>2. \A q \in Requests \ {r} : Still(q)
  BY DEF Goto, LocalOK, Still
<1> QED BY <1>1, <1>2 DEF ExactInv, Changes

LEMMA ArrivalExact ==
  ASSUME Inv, NEW r \in Requests, ExactInv(r), Arrival(r)
  PROVE  ExactInv(r)' /\ \A q \in Requests \ {r} : Still(q)
<1>1. CASE Refuse(r)
  BY <1>1, AnsweredExact DEF Refuse, Answer, Inv
<1>2. ASSUME NEW ask, Begin(r, ask)
      PROVE  ExactInv(r)' /\ \A q \in Requests \ {r} : Still(q)
  <2>1. pc'[r] = "get" /\ written'[r] = written[r]
    BY <1>2 DEF Begin, Goto, Inv, LocalOK
  <2>2. \A q \in Requests \ {r} : Still(q)
    BY <1>2 DEF Begin, Goto, Inv, LocalOK, Still
  <2> QED BY <2>1, <2>2 DEF ExactInv, EditSteps
<1> QED BY <1>1, <1>2 DEF Arrival, BeginUpdate, BeginOther

LEMMA BeforeTxExact ==
  ASSUME Inv, NEW r \in Requests, ExactInv(r),
         \/ Get(r) \/ CheckEditor(r) \/ CheckAssignee(r) \/ BeginTx(r)
         \/ CheckMember(r) \/ AddComment(r) \/ SelectRows(r) \/ StatementFails(r)
  PROVE  ExactInv(r)' /\ \A q \in Requests \ {r} : Still(q)
<1>0. LocalOK /\ AskInv(r)
  BY DEF Inv, RequestInv
<1>1. ASSUME NEW status, Answer(r, status)
      PROVE  ExactInv(r)' /\ \A q \in Requests \ {r} : Still(q)
  BY <1>0, <1>1, AnsweredExact DEF Answer
<1>2. CASE Get(r)
  <2>1. CASE /\ Goto(r, IF arg[r].op = "update" THEN "role" ELSE "member")
             /\ cur' = [cur EXCEPT ![r] = tasks[arg[r].task]] /\ UNCHANGED <<arg, written>>
    <3>1. pc'[r] \in {"role", "member"} /\ written'[r] = written[r]
      BY <1>0, <2>1 DEF Goto, LocalOK
    <3>2. \A q \in Requests \ {r} : Still(q)
      BY <1>0, <2>1 DEF Goto, LocalOK, Still
    <3> QED BY <3>1, <3>2 DEF ExactInv, EditSteps
  <2> QED BY <1>1, <1>2, <2>1 DEF Get
<1>3. CASE CheckEditor(r)
  <2>1. CASE /\ arg[r].upd["status"] \in TaskStatus \cup {None}
             /\ Goto(r, IF arg[r].upd["assignee_id"] = None THEN "begin" ELSE "assignee")
             /\ UNCHANGED <<arg, cur, written>>
    BY <1>0, <2>1, GoesOnExact DEF Steps, EditSteps
  <2> QED BY <1>1, <1>3, <2>1 DEF CheckEditor
<1>4. CASE CheckAssignee(r) \/ BeginTx(r)
  <2>1. arg[r].upd["status"] \in TaskStatus \cup {None}
    BY <1>4 DEF CheckAssignee, BeginTx, ExactInv, EditSteps
  <2>2. CASE /\ \E step \in {"begin", "lock"} : Goto(r, step)
             /\ UNCHANGED <<arg, cur, written>>
    BY <1>0, <2>1, <2>2, GoesOnExact DEF Steps, EditSteps
  <2> QED BY <1>1, <1>4, <2>2 DEF CheckAssignee, BeginTx
<1>5. CASE CheckMember(r)
  <2>1. CASE Goto(r, arg[r].op) /\ UNCHANGED <<arg, cur, written>>
    <3>1. arg[r].op \in ReadSteps
      BY <1>0, <1>5 DEF CheckMember, AskInv
    <3> QED BY <1>0, <2>1, <3>1, GoesOnExact DEF Steps, EditSteps, ReadSteps
  <2> QED BY <1>1, <1>5, <2>1 DEF CheckMember
<1>6. CASE AddComment(r) \/ SelectRows(r) \/ StatementFails(r)
  BY <1>1, <1>6 DEF AddComment, SelectRows, StatementFails
<1> QED BY <1>2, <1>3, <1>4, <1>5, <1>6

LEMMA LockTaskExact ==
  ASSUME Inv, NEW r \in Requests, ExactInv(r), LockTask(r)
  PROVE  ExactInv(r)' /\ \A q \in Requests \ {r} : Still(q)
<1> DEFINE t == arg[r].task
           step == IF Changes(tasks[t], arg[r].upd) = {} THEN "commit" ELSE "update"
<1>1. /\ LocalOK /\ pc[r] = "lock" /\ pc' = [pc EXCEPT ![r] = step]
      /\ cur' = [cur EXCEPT ![r] = tasks[t]] /\ arg' = arg /\ written' = written
  BY DEF Inv, LockTask, Goto
<1>2. step \in {"commit", "update"} /\ (step = "commit" => Changes(tasks[t], arg[r].upd) = {})
  OBVIOUS
<1> HIDE DEF step, t
<1>3. pc'[r] = step /\ cur'[r] = tasks[t] /\ arg'[r] = arg[r] /\ written'[r] = written[r]
  BY <1>1 DEF LocalOK
<1>4. \A q \in Requests \ {r} : Still(q)
  BY <1>1 DEF LocalOK, Still
<1>5. arg[r].upd["status"] \in TaskStatus \cup {None}
  BY <1>1 DEF ExactInv, EditSteps
<1>6. pc'[r] = "commit" => Changes(cur'[r], arg'[r].upd) = {}
  BY <1>2, <1>3
<1> QED BY <1>2, <1>3, <1>4, <1>5, <1>6 DEF ExactInv, Changes

LEMMA UpdateTaskExact ==
  ASSUME Inv, NEW r \in Requests, ExactInv(r), UpdateTask(r)
  PROVE  ExactInv(r)' /\ \A q \in Requests \ {r} : Still(q)
<1>1. LocalOK /\ arg[r].upd["status"] \in TaskStatus \cup {None}
  BY DEF Inv, ExactInv, UpdateTask, EditSteps
<1>2. CASE Answer(r, 400)
  BY <1>1, <1>2, AnsweredExact DEF Answer
<1>3. CASE /\ arg[r].upd["status"] \in EnumTaskStatus \cup {None}
           /\ Goto(r, "history") /\ UNCHANGED <<arg, cur, written>>
  BY <1>1, <1>3, GoesOnExact DEF Steps, EditSteps
<1> QED BY <1>2, <1>3 DEF UpdateTask

\* The field of the new row is none of those recorded before.
LEMMA InsertHistoryExact ==
  ASSUME Inv, NEW r \in Requests, ExactInv(r), InsertHistory(r)
  PROVE  ExactInv(r)' /\ \A q \in Requests \ {r} : Still(q)
<1>0. LocalOK /\ TxInv(r) /\ pc[r] = "history"
  BY DEF Inv, RequestInv, InsertHistory
<1>1. CASE Answer(r, 400)
  BY <1>0, <1>1, AnsweredExact DEF Answer
<1>2. CASE /\ written' = [written EXCEPT ![r] = Append(@, HistoryRow(r, NextField(r)))]
           /\ Goto(r, IF Unrecorded(r) = {NextField(r)} THEN "commit" ELSE "history")
           /\ UNCHANGED <<lock, arg, cur>>
  <2> DEFINE f == NextField(r)
             h == HistoryRow(r, f)
             step == IF Unrecorded(r) = {f} THEN "commit" ELSE "history"
  <2>1. h.field_name = f /\ f \notin Recorded(r)
    BY <1>0, NextFieldIsLeft DEF HistoryRow, TxInv, Unrecorded
  <2>2. step \in {"commit", "history"}
    OBVIOUS
  <2>3. /\ written' = [written EXCEPT ![r] = Append(written[r], h)]
        /\ pc' = [pc EXCEPT ![r] = step] /\ arg' = arg /\ cur' = cur
    BY <1>2 DEF Goto
  <2> HIDE DEF f, h, step
  <2>4. /\ pc'[r] = step /\ arg'[r] = arg[r] /\ cur'[r] = cur[r]
        /\ written'[r] = Append(written[r], h) /\ written[r] \in Seq(Change)
    BY <1>0, <2>3 DEF LocalOK
  <2>5. /\ DOMAIN written[r] = 1 .. Len(written[r]) /\ Len(written[r]) \in Nat
        /\ DOMAIN written'[r] = 1 .. (Len(written[r]) + 1)
        /\ \A n \in 1 .. Len(written[r]) : written'[r][n] = written[r][n]
        /\ written'[r][Len(written[r]) + 1] = h
    BY <2>4
  <2>6. \A n \in 1 .. Len(written[r]) : written[r][n].field_name # f
    BY <2>1, <2>5 DEF Recorded
  <2>7. ASSUME NEW m \in DOMAIN written'[r], NEW n \in DOMAIN written'[r],
               written'[r][m].field_name = written'[r][n].field_name
        PROVE  m = n
    <3>1. CASE m \in 1 .. Len(written[r]) /\ n \in 1 .. Len(written[r])
      BY <2>5, <2>7, <3>1 DEF ExactInv
    <3>2. CASE m = Len(written[r]) + 1 \/ n = Len(written[r]) + 1
      BY <2>1, <2>5, <2>6, <2>7, <3>2
    <3> QED BY <2>5, <3>1, <3>2
  <2>8. \A q \in Requests \ {r} : Still(q)
    BY <1>0, <2>3 DEF LocalOK, Still
  <2>9. /\ arg[r].upd["status"] \in TaskStatus \cup {None}
        /\ arg[r].upd["status"] \in EnumTaskStatus \cup {None}
    BY <1>0 DEF ExactInv, EditSteps
  <2> QED BY <2>2, <2>4, <2>7, <2>8, <2>9 DEF ExactInv
<1> QED BY <1>1, <1>2 DEF InsertHistory

Exact == \A r \in Requests : ExactInv(r)

LEMMA NextExact == Inv /\ Exact /\ [Next]_vars => Exact'
<1> SUFFICES ASSUME Inv, Exact, [Next]_vars PROVE Exact'
  OBVIOUS
<1>1. ASSUME NEW r \in Requests, Arrival(r) \/ Statement(r) \/ StatementFails(r)
      PROVE  Exact'
  <2>1. CASE CommitUpdate(r)
    <3>1. \E status, row : AnswerRow(r, status, row)
      BY <2>1 DEF CommitUpdate, Answer
    <3> QED BY <3>1, AnsweredExact, StillExact DEF Exact, Inv
  <2>2. CASE ~ CommitUpdate(r)
    <3>1. ExactInv(r)' /\ \A q \in Requests \ {r} : Still(q)
      BY <1>1, <2>2, ArrivalExact, BeforeTxExact, LockTaskExact, UpdateTaskExact,
         InsertHistoryExact DEF Statement, Exact
    <3> QED BY <3>1, StillExact DEF Exact
  <2> QED BY <2>1, <2>2
<1>2. CASE UNCHANGED local
  BY <1>2, StillExact DEF local, Still, Exact
<1>3. CASE Crash
  BY <1>3 DEF Crash, Exact, ExactInv, EditSteps
<1> QED BY <1>1, <1>2, <1>3 DEF Next, vars, Join, CreateTask

\* The history is about tasks that are there.
OfTasks == \A n \in DOMAIN task_history : tasks[task_history[n].task_id] # None

LEMMA AboutTasks ==
  ASSUME NEW s \in Seq(Change), NEW n \in DOMAIN s
  PROVE  s[n].task_id \in Tasks
<1>1. s[n] \in Change
  BY ElementOfSeq, LenProperties
<1> QED BY <1>1 DEF Change

LEMMA NextOfTasks == Inv /\ OfTasks /\ [Next]_vars => OfTasks'
<1> SUFFICES ASSUME Inv, OfTasks, [Next]_vars PROVE OfTasks'
  OBVIOUS
<1>1. task_history \in Seq(Change) /\ tasks \in [Tasks -> Row \cup {None}]
  BY DEF Inv, TablesOK
<1>2. CASE \A r \in Requests : ~ CommitUpdate(r)
  <2>1. /\ task_history' = task_history
        /\ \A t \in Tasks : tasks[t] # None => tasks'[t] = tasks[t]
    BY <1>2, OnlyCommitsChange
  <2>2. \A n \in DOMAIN task_history : task_history[n].task_id \in Tasks
    BY <1>1, AboutTasks
  <2> QED BY <2>1, <2>2 DEF OfTasks
<1>3. ASSUME NEW r \in Requests, CommitUpdate(r) PROVE OfTasks'
  <2>1. PICK t \in Tasks : t = arg[r].task
    BY <1>3 DEF Inv, RequestInv, AskInv, CommitUpdate, Question
  <2>2. /\ tasks[t] # None /\ tasks'[t] \in Row /\ \A s \in Tasks \ {t} : tasks'[s] = tasks[s]
        /\ \A n \in DOMAIN written[r] : written[r][n].task_id = t
        /\ task_history' = task_history \o written[r]
    BY <1>3, <2>1, CommitFacts
  <2>3. written[r] \in Seq(Change)
    BY DEF Inv, LocalOK
  <2>4. \A n \in DOMAIN task_history' :
            \/ n \in DOMAIN task_history /\ task_history'[n] = task_history[n]
            \/ task_history'[n].task_id = t
    <3>1. /\ Len(task_history) \in Nat /\ DOMAIN task_history = 1 .. Len(task_history)
          /\ task_history' \in Seq(Change)
      BY <1>1, <2>2, <2>3, Concat, LenProperties
    <3>2. DOMAIN task_history' = 1 .. Len(task_history')
      BY <3>1, LenProperties
    <3> QED BY <1>1, <2>2, <2>3, <3>1, <3>2, Concat
  <2>5. \A n \in DOMAIN task_history : task_history[n].task_id \in Tasks
    BY <1>1, AboutTasks
  <2>6. tasks'[t] # None
    BY <2>2, EditAssumption
  <2> QED BY <2>2, <2>4, <2>5, <2>6 DEF OfTasks
<1> QED BY <1>2, <1>3

----------------------------------------------------------------------------
(* The steps that TaskAudit sees.                                          *)

LEMMA SameAudit ==
  /\ Audit!Fields = Fields
  /\ Audit!TaskStatus = TaskStatus /\ Audit!EnumTaskStatus = EnumTaskStatus
  /\ \A u : Audit!IsMember(u) <=> IsMember(u)
  /\ \A row, upd : Changes(row, upd) \subseteq Audit!Given(upd)
<1>1. Audit!Fields = Fields
  BY FieldsAre DEF Audit!Fields
<1>2. Audit!TaskStatus = TaskStatus /\ Audit!EnumTaskStatus = EnumTaskStatus
  BY DEF Audit!TaskStatus, TaskStatus, Audit!EnumTaskStatus, EnumTaskStatus,
         Audit!StatusToDo, StatusToDo
<1>3. \A u : Audit!IsMember(u) <=> IsMember(u)
  BY DEF Audit!IsMember, IsMember
<1>4. \A row, upd : Changes(row, upd) \subseteq Audit!Given(upd)
  BY <1>1 DEF Audit!Given, Changes, Changed
<1> QED BY <1>1, <1>2, <1>3, <1>4

\* What Told and Holders are made of.
LEMMA SameHolders ==
  ASSUME tasks' = tasks, task_history' = task_history
  PROVE  Holders' = Holders /\ Told' = Told
BY DEF Holders, Told, WasAssignee

\* A history without its old values is as long as it was.
LEMMA Telling ==
  ASSUME NEW s \in Seq(Change)
  PROVE  LET told == [n \in DOMAIN s |-> Tell(s[n])] IN
         Len(s) \in Nat /\ DOMAIN told = 1 .. Len(s) /\ Len(told) = Len(s)
<1> DEFINE told == [n \in DOMAIN s |-> Tell(s[n])]
<1>1. Len(s) \in Nat /\ DOMAIN s = 1 .. Len(s)
  BY LenProperties
<1>2. told = [n \in 1 .. Len(s) |-> Tell(s[n])]
  BY <1>1
<1>3. Len(told) = Len(s)
  BY <1>1, <1>2
<1> QED BY <1>1, <1>3

\* The rows a COMMIT adds are those of the transaction, each field once.
LEMMA CommitRecords ==
  ASSUME Inv, Exact, NEW r \in Requests, CommitUpdate(r), NEW t \in Tasks, t = arg[r].task,
         Changes(tasks[t], arg[r].upd) # {}
  PROVE  /\ Audit!Records(t, arg[r].actor, arg[r].upd, Changes(tasks[t], arg[r].upd))
         /\ Len(Told') > Len(Told)
<1> DEFINE old == Len(task_history)
           new == (Len(task_history) + 1) .. Len(task_history')
           row(f) == [task_id |-> t, changed_by |-> arg[r].actor, field_name |-> f,
                      new_value |-> arg[r].upd[f]]
<1>1. /\ Recorded(r) = Changes(tasks[t], arg[r].upd)
      /\ \A n \in DOMAIN written[r] :
             /\ written[r][n].task_id = t /\ written[r][n].changed_by = arg[r].actor
             /\ written[r][n].new_value = arg[r].upd[written[r][n].field_name]
      /\ task_history' = task_history \o written[r]
  BY CommitFacts
<1>2. task_history \in Seq(Change) /\ written[r] \in Seq(Change)
  BY DEF Inv, TablesOK, LocalOK
<1>3. /\ \A n \in DOMAIN task_history :
             n \in DOMAIN task_history' /\ task_history'[n] = task_history[n]
      /\ \A n \in DOMAIN written[r] :
             old + n \in new /\ task_history'[old + n] = written[r][n]
      /\ \A n \in new :
             n - old \in DOMAIN written[r] /\ task_history'[n] = written[r][n - old]
      /\ task_history' \in Seq(Change)
  <2>1. task_history' = task_history \o written[r]
    BY <1>1
  <2> QED BY <1>2, <2>1, Concat
<1>4. /\ old \in Nat /\ Len(task_history') \in Nat
      /\ DOMAIN task_history = 1 .. old /\ DOMAIN task_history' = 1 .. Len(task_history')
  BY <1>2, <1>3, LenProperties
<1>5. /\ Len(Told) = old /\ Len(Told') = Len(task_history')
      /\ DOMAIN Told = DOMAIN task_history
      /\ \A n \in DOMAIN task_history : Told[n] = Tell(task_history[n])
      /\ \A n \in DOMAIN task_history' : Told'[n] = Tell(task_history'[n])
  BY <1>2, <1>3, Telling DEF Told
<1>6. \A n \in new : /\ n \in DOMAIN task_history'
                     /\ Told'[n] = row(task_history'[n].field_name)
                     /\ task_history'[n].field_name \in Recorded(r)
  <2> TAKE n \in new
  <2>1. n \in DOMAIN task_history'
    BY <1>4
  <2>2. Told'[n] = Tell(written[r][n - old]) /\ n - old \in DOMAIN written[r]
    BY <1>3, <1>5, <2>1
  <2> QED BY <1>1, <1>3, <2>1, <2>2 DEF Tell, Recorded
<1>12. \A f : row(f).field_name = f
  OBVIOUS
<1>13. \A f : row(f) = [task_id |-> t, changed_by |-> arg[r].actor, field_name |-> f,
                      new_value |-> arg[r].upd[f]]
  OBVIOUS
<1> HIDE DEF row
<1>7. ASSUME NEW f \in Recorded(r) PROVE \E n \in new : Told'[n] = row(f)
  <2>1. PICK n \in DOMAIN written[r] : written[r][n].field_name = f
    BY DEF Recorded
  <2>2. old + n \in new /\ task_history'[old + n].field_name = f
    BY <1>3, <2>1
  <2> QED BY <1>6, <2>2
<1>8. {Told'[n] : n \in new} = {row(f) : f \in Recorded(r)}
  BY <1>6, <1>7
<1>9. ASSUME NEW m \in new, NEW n \in new, Told'[m] = Told'[n]
      PROVE  m = n
  <2>1. task_history'[m].field_name = task_history'[n].field_name
    <3>1. Told'[m].field_name = Told'[n].field_name
      BY <1>9
    <3> QED BY <1>6, <1>12, <3>1
  <2>2. /\ m - old \in DOMAIN written[r] /\ n - old \in DOMAIN written[r]
        /\ written[r][m - old].field_name = written[r][n - old].field_name
    BY <1>3, <2>1
  <2>3. m - old = n - old
    BY <2>2 DEF Exact, ExactInv
  <2> QED BY <1>4, <2>3
<1>10. Len(Told') > Len(Told)
  <2>1. PICK n \in DOMAIN written[r] : TRUE
    BY <1>1 DEF Recorded
  <2> QED BY <1>3, <1>4, <1>5, <2>1
<1>11. \A n \in DOMAIN Told : Told'[n] = Told[n]
  BY <1>3, <1>5
<1>14. {row(f) : f \in Recorded(r)} =
       {[task_id |-> t, changed_by |-> arg[r].actor, field_name |-> f,
         new_value |-> arg[r].upd[f]] : f \in Recorded(r)}
  BY <1>13
<1> QED BY <1>1, <1>5, <1>8, <1>9, <1>10, <1>11, <1>14 DEF Audit!Records

\* A task that is there keeps its holders, and its new assignee is one.
LEMMA CommitHolders ==
  ASSUME Inv, NEW r \in Requests, CommitUpdate(r), NEW t \in Tasks, t = arg[r].task
  PROVE  Holders' = [Holders EXCEPT ![t] = @ \cup {tasks'[t]["assignee_id"]}]
<1> DEFINE a == "assignee_id"
<1>1. /\ tasks[t] # None /\ tasks'[t] \in Row
      /\ \A s \in Tasks \ {t} : tasks'[s] = tasks[s]
      /\ tasks'[t][a] = IF a \in Changes(tasks[t], arg[r].upd)
                        THEN arg[r].upd[a] ELSE tasks[t][a]
      /\ Recorded(r) = Changes(tasks[t], arg[r].upd)
      /\ \A n \in DOMAIN written[r] :
             /\ written[r][n].task_id = t
             /\ written[r][n].field_name = a => written[r][n].old_value = tasks[t][a]
      /\ task_history' = task_history \o written[r]
  BY CommitFacts, FieldsAre
<1>2. task_history \in Seq(Change) /\ written[r] \in Seq(Change)
  BY DEF Inv, TablesOK, LocalOK
<1>3. tasks'[t] # None
  BY <1>1, EditAssumption
<1>4. tasks'[t][a] \in Users \cup {Null}
  <2>1. tasks[t][a] \in Users \cup {Null}
    BY <1>1 DEF Inv, TaskInv, Members
  <2>2. a \in Changes(tasks[t], arg[r].upd) => arg[r].upd[a] \in Users
    <3>1. arg[r].upd \in Updates
      BY DEF Inv, RequestInv, AskInv, EditSteps, CommitUpdate
    <3> QED BY <3>1, EditAssumption DEF Changes, Changed
  <2> QED BY <1>1, <2>1, <2>2
<1>5. \A s \in Tasks : \A u : WasAssignee(s, u)' <=>
          \/ tasks'[s][a] = u
          \/ \E n \in DOMAIN task_history : /\ task_history[n].task_id = s
                                            /\ task_history[n].field_name = a
                                            /\ task_history[n].old_value = u
          \/ \E n \in DOMAIN written[r] : /\ written[r][n].task_id = s
                                          /\ written[r][n].field_name = a
                                          /\ written[r][n].old_value = u
  <2>1. /\ \A n \in DOMAIN task_history :
               n \in DOMAIN task_history' /\ task_history'[n] = task_history[n]
        /\ \A n \in DOMAIN written[r] :
               /\ Len(task_history) + n \in DOMAIN task_history'
               /\ task_history'[Len(task_history) + n] = written[r][n]
        /\ \A n \in DOMAIN task_history' :
               \/ n \in DOMAIN task_history
               \/ /\ n - Len(task_history) \in DOMAIN written[r]
                  /\ task_history'[n] = written[r][n - Len(task_history)]
    <3>1. task_history' = task_history \o written[r]
      BY <1>1
    <3>2. /\ Len(task_history) \in Nat /\ DOMAIN task_history = 1 .. Len(task_history)
          /\ task_history' \in Seq(Change)
      BY <1>2, <3>1, Concat, LenProperties
    <3>3. DOMAIN task_history' = 1 .. Len(task_history')
      BY <3>2, LenProperties
    <3> QED BY <1>2, <3>1, <3>2, <3>3, Concat
  <2> QED BY <2>1 DEF WasAssignee
<1>6. ASSUME NEW s \in Tasks, s # t, NEW u
      PROVE  WasAssignee(s, u)' <=> WasAssignee(s, u)
  <2>1. /\ tasks'[s] = tasks[s]
        /\ \A n \in DOMAIN written[r] : written[r][n].task_id # s
    BY <1>1, <1>6
  <2> QED BY <1>5, <2>1 DEF WasAssignee
<1>7. ASSUME NEW u
      PROVE  WasAssignee(t, u)' <=> WasAssignee(t, u) \/ u = tasks'[t][a]
  <2>1. ASSUME WasAssignee(t, u) PROVE WasAssignee(t, u)'
    <3>1. CASE tasks[t][a] = u /\ tasks'[t][a] # u
      <4>1. PICK n \in DOMAIN written[r] : written[r][n].field_name = a
        BY <1>1, <3>1 DEF Recorded
      <4> QED BY <1>1, <1>5, <3>1, <4>1
    <3>2. CASE tasks'[t][a] = u
      BY <1>5, <3>2
    <3>3. CASE tasks[t][a] # u
      BY <1>5, <2>1, <3>3 DEF WasAssignee
    <3> QED BY <3>1, <3>2, <3>3
  <2>2. u = tasks'[t][a] => WasAssignee(t, u)'
    BY <1>5
  <2>3. ASSUME WasAssignee(t, u)', u # tasks'[t][a] PROVE WasAssignee(t, u)
    <3>1. CASE \E n \in DOMAIN written[r] : /\ written[r][n].field_name = a
                                            /\ written[r][n].old_value = u
      BY <1>1, <3>1 DEF WasAssignee
    <3>2. CASE \E n \in DOMAIN task_history : /\ task_history[n].task_id = t
                                              /\ task_history[n].field_name = a
                                              /\ task_history[n].old_value = u
      BY <3>2 DEF WasAssignee
    <3> QED BY <1>5, <2>3, <3>1, <3>2
  <2> QED BY <2>1, <2>2, <2>3
<1>8. Holders'[t] = Holders[t] \cup {tasks'[t][a]}
  BY <1>1, <1>3, <1>4, <1>7 DEF Holders
<1>9. \A s \in Tasks \ {t} : Holders'[s] = Holders[s]
  BY <1>1, <1>6 DEF Holders
<1>10. Holders' = [s \in Tasks |-> Holders'[s]] /\ Holders = [s \in Tasks |-> Holders[s]]
  BY DEF Holders
<1> QED BY <1>8, <1>9, <1>10

LEMMA CommitAudit ==
  ASSUME Inv, Exact, NEW r \in Requests, CommitUpdate(r)
  PROVE  Audit!Next \/ UNCHANGED Audit!vars
<1>1. /\ AskInv(r) /\ EditInv(r) /\ TxInv(r) /\ ExactInv(r) /\ TablesOK /\ LocalOK
      /\ pc[r] = "commit"
  BY DEF Inv, Exact, RequestInv, CommitUpdate
<1>2. PICK t \in Tasks, u \in Users, upd \in Updates :
          t = arg[r].task /\ u = arg[r].actor /\ upd = arg[r].upd
  BY <1>1 DEF AskInv, Question, EditSteps
<1>3. /\ tasks[t] # None /\ tasks[t] \in Row /\ tasks'[t] \in Row
      /\ \A s \in Tasks \ {t} : tasks'[s] = tasks[s]
      /\ \A f \in Fields :
             tasks'[t][f] = IF f \in Changes(tasks[t], upd) THEN upd[f] ELSE tasks[t][f]
      /\ Recorded(r) = Changes(tasks[t], upd)
      /\ UNCHANGED <<team_members, created_by, task_comments>>
      /\ task_history' = task_history \o written[r]
  BY <1>2, CommitFacts
<1>4. tasks' \in [Tasks -> Row \cup {None}] /\ tasks \in [Tasks -> Row \cup {None}]
  BY NextInv DEF Inv, TablesOK, Next, Statement
<1>5. CASE Changes(tasks[t], upd) = {}
  <2>1. tasks'[t] = tasks[t]
    BY <1>3, <1>5 DEF Row
  <2>2. tasks' = tasks
    BY <1>3, <1>4, <2>1
  <2>3. written[r] = <<>>
    <3>1. written[r] \in Seq(Change)
      BY <1>1 DEF LocalOK
    <3>2. DOMAIN written[r] = {}
      BY <1>3, <1>5 DEF Recorded
    <3>3. Len(written[r]) \in Nat /\ DOMAIN written[r] = 1 .. Len(written[r])
      BY <3>1, LenProperties
    <3>4. Len(written[r]) = 0
      <4>1. 1 \notin 1 .. Len(written[r])
        BY <3>2, <3>3
      <4> QED BY <3>3, <4>1
    <3> QED BY <3>1, <3>4, EmptySeq
  <2>4. task_history' = task_history
    BY <1>1, <1>3, <2>3 DEF TablesOK
  <2> QED BY <1>3, <2>2, <2>4, SameHolders DEF Audit!vars
<1>6. CASE Changes(tasks[t], upd) # {}
  <2> DEFINE fs == Changes(tasks[t], upd)
  <2>1. Audit!Records(t, u, upd, fs) /\ Len(Told') > Len(Told)
    BY <1>2, <1>6, CommitRecords
  <2>2. u \in Members /\ Entitled(t, u) /\ upd["assignee_id"] \in {None} \cup Members
    BY <1>1, <1>2 DEF EditInv, EditSteps
  <2>3. Audit!MayEdit(t, u)
    <3>1. WasAssignee(t, u) => u \in Holders[t]
      BY <1>3 DEF Holders
    <3> QED BY <2>2, <3>1, SameAudit
       DEF Audit!MayEdit, Members, Entitled, Audit!RoleOwner, Audit!RoleAdmin, RoleOwner, RoleAdmin
  <2>4. upd["assignee_id"] # None => Audit!IsMember(upd["assignee_id"])
    BY <2>2, SameAudit DEF Members
  <2>5. upd["status"] # None => upd["status"] \in Audit!TaskStatus \cap Audit!EnumTaskStatus
    <3>1. cur[r] = tasks[t]
      BY <1>1, <1>2 DEF TxInv, LockSteps
    <3> QED BY <1>1, <1>2, <1>6, <3>1, SameAudit DEF ExactInv, EditSteps
  <2>6. tasks' = [tasks EXCEPT ![t] =
            [f \in Audit!Fields |-> IF f \in fs THEN upd[f] ELSE tasks[t][f]]]
    <3> DEFINE row == [f \in Fields |-> IF f \in fs THEN upd[f] ELSE tasks[t][f]]
    <3>1. tasks'[t] = row
      BY <1>3 DEF Row
    <3>2. tasks' = [tasks EXCEPT ![t] = row]
      BY <1>3, <1>4, <3>1
    <3> QED BY <3>2, SameAudit
  <2>7. Holders' = [Holders EXCEPT ![t] = @ \cup {tasks'[t]["assignee_id"]}]
    BY <1>2, CommitHolders
  <2>8. Audit!Edit(t, u, upd, fs)
    BY <1>3, <2>1, <2>3, <2>4, <2>5, <2>6, <2>7 DEF Audit!Edit
  <2>9. fs \in (SUBSET Audit!Given(upd)) \ {{}}
    BY <1>6, SameAudit
  <2> HIDE DEF fs
  <2>10. Audit!Put(t, u)
    BY <1>2, <2>1, <2>8, <2>9 DEF Audit!Put
  <2> QED BY <2>10 DEF Audit!Next
<1> QED BY <1>5, <1>6

LEMMA CreateAudit ==
  ASSUME Inv, OfTasks, NEW t \in Tasks, NEW u \in Users, NEW row \in NewRows,
         CreateTask(t, u, row)
  PROVE  Audit!Create(t, u, row)
<1> DEFINE a == "assignee_id"
<1>1. /\ tasks[t] = None /\ tasks \in [Tasks -> Row \cup {None}]
      /\ tasks' = [tasks EXCEPT ![t] = row] /\ task_history' = task_history
      /\ row[a] \in {Null} \cup Users /\ row # None
  BY EditAssumption DEF CreateTask, Inv, TablesOK
<1>2. tasks'[t] = row /\ \A s \in Tasks \ {t} : tasks'[s] = tasks[s]
  BY <1>1
<1>3. \A n \in DOMAIN task_history : task_history[n].task_id # t
  BY <1>1 DEF OfTasks
<1>4. Holders'[t] = {row[a]}
  <2>1. \A v : WasAssignee(t, v)' <=> v = row[a]
    BY <1>1, <1>2, <1>3 DEF WasAssignee
  <2> QED BY <1>1, <1>2, <2>1 DEF Holders
<1>5. \A s \in Tasks \ {t} : Holders'[s] = Holders[s]
  BY <1>1, <1>2 DEF Holders, WasAssignee
<1>6. Holders' = [s \in Tasks |-> Holders'[s]] /\ Holders = [s \in Tasks |-> Holders[s]]
  BY DEF Holders
<1>7. Holders' = [Holders EXCEPT ![t] = {row[a]}]
  BY <1>4, <1>5, <1>6
<1>8. Told' = Told
  BY <1>1 DEF Told
<1> QED BY <1>7, <1>8, SameAudit DEF CreateTask, Audit!Create

LEMMA CommentAudit ==
  ASSUME Inv, NEW r \in Requests, AddComment(r)
  PROVE  Audit!Next \/ UNCHANGED Audit!vars
<1>1. /\ UNCHANGED <<team_members, tasks, created_by, task_history>>
      /\ \/ UNCHANGED task_comments
         \/ task_comments' = Append(task_comments,
                [task_id |-> arg[r].task, user_id |-> arg[r].actor])
  BY DEF AddComment
<1>2. CASE task_comments' = Append(task_comments,
               [task_id |-> arg[r].task, user_id |-> arg[r].actor])
  <2>1. PICK t \in Tasks, u \in Users : t = arg[r].task /\ u = arg[r].actor
    BY DEF AddComment, Inv, RequestInv, AskInv, Question
  <2>2. tasks[t] # None /\ IsMember(u)
    BY <2>1 DEF AddComment, Inv, RequestInv, AskInv, ReadSteps, Members
  <2>3. Audit!Comment(t, u)
    BY <1>1, <1>2, <2>1, <2>2, SameAudit, SameHolders DEF Audit!Comment
  <2> QED BY <2>3 DEF Audit!Next
<1> QED BY <1>1, <1>2, SameHolders DEF Audit!vars

LEMMA StepAudit == Inv /\ Exact /\ OfTasks /\ [Next]_vars => [Audit!Next]_(Audit!vars)
<1> SUFFICES ASSUME Inv, Exact, OfTasks, [Next]_vars PROVE Audit!Next \/ UNCHANGED Audit!vars
  OBVIOUS
<1>1. CASE UNCHANGED tables
  BY <1>1, SameHolders DEF tables, Audit!vars
<1>2. ASSUME NEW r \in Requests, Arrival(r) \/ Statement(r) \/ StatementFails(r)
      PROVE  Audit!Next \/ UNCHANGED Audit!vars
  <2>1. UNCHANGED tables \/ CommitUpdate(r) \/ AddComment(r)
    BY <1>2 DEF Arrival, Refuse, BeginUpdate, BeginOther, Begin, Statement, StatementFails,
                Get, CheckEditor, CheckAssignee, BeginTx, LockTask, UpdateTask, InsertHistory,
                CheckMember, SelectRows
  <2> QED BY <1>1, <2>1, CommitAudit, CommentAudit
<1>3. ASSUME NEW u \in Users, NEW role \in Roles, Join(u, role) PROVE Audit!Next
  <2>1. Audit!Join(u, role) /\ role \in Audit!Roles
    BY <1>3, SameAudit, SameHolders DEF Join, Audit!Join, Audit!Roles, Roles, Audit!RoleOwner,
       Audit!RoleAdmin, Audit!RoleMember, RoleOwner, RoleAdmin, RoleMember
  <2> QED BY <2>1 DEF Audit!Next
<1>4. ASSUME NEW t \in Tasks, NEW u \in Users, NEW row \in NewRows, CreateTask(t, u, row)
      PROVE  Audit!Next
  <2>1. Audit!Create(t, u, row)
    BY <1>4, CreateAudit
  <2> QED BY <2>1 DEF Audit!Next
<1> QED BY <1>1, <1>2, <1>3, <1>4 DEF Next, vars, Crash

\* Every behaviour of the four handlers, statement by statement, is one of
\* TaskAudit: the history has exactly one row for each field a PUT set, with
\* its new value, and what was checked before the lock holds at the COMMIT.
THEOREM AuditImplemented == Spec => ImplementsAudit
<1>1. Init => Audit!Init /\ Exact /\ OfTasks
  <2> SUFFICES ASSUME Init PROVE Audit!Init /\ Exact /\ OfTasks
    OBVIOUS
  <2>1. Told = <<>>
    BY DEF Init, Told
  <2>2. Holders = [t \in Tasks |-> {}]
    BY DEF Init, Holders
  <2> QED BY <2>1, <2>2 DEF Init, Audit!Init, Exact, ExactInv, EditSteps, OfTasks
<1> QED BY <1>1, Invariant, NextExact, NextOfTasks, StepAudit, PTL
        DEF Spec, ImplementsAudit, Audit!Spec
=============================================================================
