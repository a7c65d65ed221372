--------------------------- MODULE TaskListsProofs ---------------------------
(***************************************************************************)
(* Proofs about TaskLists, for every number of users, teams, tasks and     *)
(* requests, every TTL and deadline, and every combination of faults.      *)
(*                                                                         *)
(* What a request or a cached list holds is stale data, so the invariant   *)
(* says what stale data still guarantees: a Read is Sound for a filter     *)
(* when it holds only rows the filter lets through and all that were       *)
(* committed before the SELECT.                                            *)
(***************************************************************************)
EXTENDS TaskLists, TLAPS

Sound(rd, filter) ==
    /\ rd.at <= now
    /\ rd.seen \subseteq {t \in tasks : Matches(t, filter)}
    /\ \A t \in tasks : Matches(t, filter) /\ t.at < rd.at => t \in rd.seen

\* The rows of the table: none from the future, all of members.
RowsInv ==
    /\ \A t \in tasks : t.at <= now
    /\ TasksOfMembers

\* What request r knows at each of its steps.
RequestInv(r) ==
    pc[r] # "idle" =>
        /\ arg[r] \in Ask
        /\ start[r] <= now
        /\ arg[r].op = "list" => arg[r].page \in Pages
        /\ pc[r] \in ListSteps \cup {"late"} => arg[r].op = "list"
        /\ pc[r] \in CreateSteps => arg[r].op = "create"
        /\ pc[r] # "member" => IsMember(arg[r].team, arg[r].actor)
        /\ pc[r] = "insert" /\ arg[r].assignee # None
               => IsMember(arg[r].team, arg[r].assignee)
        /\ pc[r] \in {"version2", "store", "late"} =>
               /\ loc[r].read \in Read
               /\ start[r] <= loc[r].read.at
               /\ Sound(loc[r].read, arg[r])

\* What a live cached list guarantees under its key.
EntryInv(e) ==
    /\ now < e.exp
    /\ e.exp <= e.read.at + Deadline + RedisDelay + TTL
    /\ Sound(e.read, e.key)

Inv ==
    /\ TypeOK
    /\ RowsInv
    /\ \A r \in Requests : RequestInv(r)
    /\ \A e \in lists : EntryInv(e)

----------------------------------------------------------------------------
(* The initial states.                                                     *)

LEMMA InitInv == Init => Inv
<1> SUFFICES ASSUME Init PROVE Inv
  OBVIOUS
<1> USE DEF Init
<1>1. TypeOK
  BY DEF TypeOK, Local, Fresh, Steps
<1>2. RowsInv
  BY DEF RowsInv, TasksOfMembers
<1>3. \A r \in Requests : RequestInv(r)
  BY DEF RequestInv
<1>4. \A e \in lists : EntryInv(e)
  OBVIOUS
<1> QED BY <1>1, <1>2, <1>3, <1>4 DEF Inv

----------------------------------------------------------------------------
(* Type correctness of a step.                                             *)

LEMMA JoinType ==
  ASSUME Inv, NEW t \in Teams, NEW u \in Users, Join(t, u)
  PROVE  TypeOK'
BY DEF Inv, TypeOK, Join, redis, control

Begins(r, a) == Begin(r) /\ arg' = [arg EXCEPT ![r] = a]

LEMMA BeginAsk ==
  ASSUME NEW r \in Requests, BeginStep(r)
  PROVE  \E a \in Ask : Begins(r, a) /\ (a.op = "list" => a.page \in Pages)
<1>1. PICK u \in Users, t \in Teams, s \in Statuses, assignee \in Assignees :
          \/ BeginCreate(r, u, t, s, assignee)
          \/ \E p \in Pages : BeginList(r, u, t, s, assignee, p)
  BY DEF BeginStep
<1>2. CASE BeginCreate(r, u, t, s, assignee)
  <2> DEFINE status == IF s = "" THEN StatusToDo ELSE s
             a == [op |-> "create", actor |-> u, team |-> t, status |-> status,
                   assignee |-> assignee, page |-> None]
  <2>1. status \in TaskStatus /\ Begins(r, a)
    BY <1>2 DEF BeginCreate, Begins
  <2>2. a \in Ask /\ a.op # "list"
    BY <2>1 DEF Ask
  <2> QED BY <2>1, <2>2
<1>3. ASSUME NEW p \in Pages, BeginList(r, u, t, s, assignee, p)
      PROVE  \E a \in Ask : Begins(r, a) /\ (a.op = "list" => a.page \in Pages)
  <2> DEFINE a == [op |-> "list", actor |-> u, team |-> t, status |-> s,
                   assignee |-> assignee, page |-> p]
  <2>1. a \in Ask /\ a.page \in Pages
    BY DEF Ask
  <2> QED BY <1>3, <2>1 DEF BeginList, Begins
<1> QED BY <1>1, <1>2, <1>3

LEMMA BeginType ==
  ASSUME Inv, NEW r \in Requests, BeginStep(r)
  PROVE  TypeOK'
<1>1. PICK a \in Ask : Begins(r, a)
  BY BeginAsk
<1> QED BY <1>1 DEF Inv, TypeOK, Begins, Begin, Steps, redis

\* The two ways a call ends, as far as types are concerned.
LEMMA GotoType ==
  ASSUME TypeOK, NEW r \in Requests, NEW step \in Steps, Goto(r, step)
  PROVE  /\ pc' \in [Requests -> Steps]
         /\ arg' \in [Requests -> Ask \cup {None}]
         /\ start' \in [Requests -> Nat]
         /\ reply' \in Answers \cup {None}
BY DEF TypeOK, Goto

LEMMA ReplyType ==
  ASSUME TypeOK, NEW r \in Requests, arg[r] \in Ask,
         NEW status \in {200, 201, 400}, NEW read \in Read \cup {None},
         Reply(r, status, read)
  PROVE  reply' \in Answers \cup {None}
BY DEF TypeOK, Reply, Answers

LEMMA FreeType ==
  ASSUME TypeOK, NEW r \in Requests, Free(r)
  PROVE  /\ pc' \in [Requests -> Steps]
         /\ arg' \in [Requests -> Ask \cup {None}]
         /\ start' \in [Requests -> Nat]
         /\ loc' \in [Requests -> Local]
BY DEF TypeOK, Free, Fresh, Local, Steps

LEMMA AnswerType ==
  ASSUME TypeOK, NEW r \in Requests, arg[r] \in Ask,
         NEW status \in {200, 201, 400}, NEW read \in Read \cup {None},
         Answer(r, status, read)
  PROVE  /\ pc' \in [Requests -> Steps]
         /\ arg' \in [Requests -> Ask \cup {None}]
         /\ start' \in [Requests -> Nat]
         /\ loc' \in [Requests -> Local]
         /\ reply' \in Answers \cup {None}
BY ReplyType, FreeType DEF Answer

LEMMA CheckMemberType ==
  ASSUME Inv, NEW r \in Requests, CheckMember(r)
  PROVE  TypeOK'
<1>1. TypeOK /\ arg[r] \in Ask
  BY DEF Inv, RequestInv, CheckMember
<1>2. CASE loc' = loc /\ \E step \in Steps : Goto(r, step)
  BY <1>1, <1>2, GotoType DEF CheckMember, TypeOK, redis
<1>3. CASE Answer(r, 400, None)
  BY <1>1, <1>3, AnswerType DEF CheckMember, TypeOK, redis
<1> QED BY <1>2, <1>3 DEF CheckMember, Steps, CreateSteps, ListSteps

LEMMA CheckAssigneeType ==
  ASSUME Inv, NEW r \in Requests, CheckAssignee(r)
  PROVE  TypeOK'
<1>1. TypeOK /\ arg[r] \in Ask
  BY DEF Inv, RequestInv, CheckAssignee
<1>2. CASE loc' = loc /\ Goto(r, "insert")
  BY <1>1, <1>2, GotoType DEF CheckAssignee, TypeOK, redis, Steps, CreateSteps
<1>3. CASE Answer(r, 400, None)
  BY <1>1, <1>3, AnswerType DEF CheckAssignee, TypeOK, redis
<1> QED BY <1>2, <1>3 DEF CheckAssignee

LEMMA InsertTaskType ==
  ASSUME Inv, NEW r \in Requests, NEW id \in TaskIds, InsertTask(r, id)
  PROVE  TypeOK'
<1>1. TypeOK /\ arg[r] \in Ask
  BY DEF Inv, RequestInv, InsertTask
<1>2. TaskRow(arg[r], id) \in Task
  BY <1>1 DEF InsertTask, TaskRow, Task, Ask, TypeOK
<1>3. tasks' \subseteq Task
  BY <1>1, <1>2 DEF InsertTask, TypeOK
<1>4. CASE loc' = loc /\ Goto(r, "bump")
  BY <1>1, <1>3, <1>4, GotoType DEF InsertTask, TypeOK, redis, Steps, CreateSteps
<1>5. CASE Answer(r, 400, None)
  BY <1>1, <1>3, <1>5, AnswerType DEF InsertTask, TypeOK, redis
<1> QED BY <1>4, <1>5 DEF InsertTask

LEMMA InsertTaskFailsType ==
  ASSUME Inv, NEW r \in Requests, InsertTaskFails(r)
  PROVE  TypeOK'
<1>1. TypeOK /\ arg[r] \in Ask
  BY DEF Inv, RequestInv, InsertTaskFails
<1> QED BY <1>1, AnswerType DEF InsertTaskFails, TypeOK, redis

LEMMA BumpTeamVersionType ==
  ASSUME Inv, NEW r \in Requests, BumpTeamVersion(r)
  PROVE  TypeOK'
<1>1. TypeOK /\ arg[r] \in Ask
  BY DEF Inv, RequestInv, BumpTeamVersion
<1>2. ver' \in [Teams -> Nat]
  BY <1>1 DEF BumpTeamVersion, TypeOK
<1> QED BY <1>1, <1>2, AnswerType DEF BumpTeamVersion, TypeOK, redis

LEMMA VersionType ==
  ASSUME TypeOK, NEW r \in Requests, arg[r] \in Ask
  PROVE  /\ VersionOf(arg[r].team) \in Nat
         /\ [ver EXCEPT ![arg[r].team] = VersionOf(arg[r].team)] \in [Teams -> Nat]
         /\ [loc EXCEPT ![r].ver = VersionOf(arg[r].team)] \in [Requests -> Local]
<1>1. arg[r].team \in Teams
  BY DEF Ask
<1>2. VersionOf(arg[r].team) \in Nat
  BY <1>1 DEF TypeOK, VersionOf
<1> QED BY <1>1, <1>2 DEF TypeOK, Local

LEMMA GetTeamVersionType ==
  ASSUME Inv, NEW r \in Requests, GetTeamVersion(r)
  PROVE  TypeOK'
<1>1. TypeOK /\ arg[r] \in Ask
  BY DEF Inv, RequestInv, GetTeamVersion
<1>2. ver' \in [Teams -> Nat] /\ loc' \in [Requests -> Local]
  BY <1>1, VersionType DEF GetTeamVersion, KeepVersion, TypeOK
<1>3. \E step \in Steps : Goto(r, step)
  BY DEF GetTeamVersion, Steps, ListSteps
<1> QED BY <1>1, <1>2, <1>3, GotoType DEF GetTeamVersion, TypeOK

LEMMA GetTasksType ==
  ASSUME Inv, NEW r \in Requests, GetTasks(r)
  PROVE  TypeOK'
<1>1. TypeOK /\ arg[r] \in Ask
  BY DEF Inv, RequestInv, GetTasks
<1>2. CASE \E e \in lists : Answer(r, 200, e.read)
  <2>1. PICK e \in lists : Answer(r, 200, e.read)
    BY <1>2
  <2>2. e.read \in Read
    BY <1>1 DEF TypeOK, Entry
  <2> QED BY <1>1, <2>1, <2>2, AnswerType DEF GetTasks, TypeOK, redis
<1>3. CASE loc' = loc /\ Goto(r, "select")
  BY <1>1, <1>3, GotoType DEF GetTasks, TypeOK, redis, Steps, ListSteps
<1> QED BY <1>2, <1>3 DEF GetTasks

LEMMA SelectTasksType ==
  ASSUME Inv, NEW r \in Requests, SelectTasks(r)
  PROVE  TypeOK'
<1>1. TypeOK /\ arg[r] \in Ask /\ arg[r].page \in Pages
  BY DEF Inv, RequestInv, SelectTasks, ListSteps
<1> DEFINE rd == [seen |-> {t \in tasks : Matches(t, arg[r])},
                  page |-> arg[r].page, at |-> now]
<1>2. CASE loc' = [loc EXCEPT ![r].read = rd] /\ Goto(r, "version2")
  <2>1. rd \in Read
    BY <1>1 DEF Read, TypeOK
  <2> HIDE DEF rd
  <2>2. loc' \in [Requests -> Local]
    BY <1>1, <1>2, <2>1 DEF TypeOK, Local
  <2> QED BY <1>1, <1>2, <2>2, GotoType DEF SelectTasks, TypeOK, redis, Steps, ListSteps
<1>3. CASE Answer(r, 400, None)
  BY <1>1, <1>3, AnswerType DEF SelectTasks, TypeOK, redis
<1> QED BY <1>2, <1>3 DEF SelectTasks

LEMMA GetTeamVersionAgainType ==
  ASSUME Inv, NEW r \in Requests, GetTeamVersionAgain(r)
  PROVE  TypeOK'
<1>1. TypeOK /\ arg[r] \in Ask /\ loc[r].read \in Read
  BY DEF Inv, RequestInv, GetTeamVersionAgain
<1>2. CASE (ver' = ver \/ KeepVersion(arg[r].team)) /\ Answer(r, 200, loc[r].read)
  <2>1. ver' \in [Teams -> Nat]
    BY <1>1, <1>2, VersionType DEF KeepVersion, TypeOK
  <2> QED BY <1>1, <1>2, <2>1, AnswerType DEF GetTeamVersionAgain, TypeOK
<1>3. CASE /\ KeepVersion(arg[r].team)
           /\ loc' = [loc EXCEPT ![r].ver = VersionOf(arg[r].team)]
           /\ Goto(r, "store")
  <2>1. ver' \in [Teams -> Nat] /\ loc' \in [Requests -> Local]
    BY <1>1, <1>3, VersionType DEF KeepVersion
  <2> QED BY <1>1, <1>3, <2>1, GotoType DEF GetTeamVersionAgain, TypeOK, Steps, ListSteps
<1> QED BY <1>2, <1>3 DEF GetTeamVersionAgain

LEMMA StoreType ==
  ASSUME TypeOK, NEW r \in Requests, arg[r] \in Ask, loc[r].read \in Read, Store(r)
  PROVE  lists' \subseteq Entry
<1>1. ListKey(arg[r], loc[r].ver) \in Key
  BY DEF TypeOK, ListKey, Key, Ask, Local
<1> QED BY <1>1, ClockAssumption DEF Store, TypeOK, Entry

LEMMA SetTasksType ==
  ASSUME Inv, NEW r \in Requests, SetTasks(r)
  PROVE  TypeOK'
<1>1. TypeOK /\ arg[r] \in Ask /\ loc[r].read \in Read
  BY DEF Inv, RequestInv, SetTasks
<1>2. CASE Store(r) /\ Answer(r, 200, loc[r].read)
  BY <1>1, <1>2, StoreType, AnswerType DEF SetTasks, TypeOK
<1>3. CASE /\ Reply(r, 200, loc[r].read)
           /\ pc' = [pc EXCEPT ![r] = "late"]
           /\ UNCHANGED <<lists, arg, start, loc>>
  BY <1>1, <1>3, ReplyType DEF SetTasks, TypeOK, Steps
<1> QED BY <1>2, <1>3 DEF SetTasks

LEMMA LateSetType ==
  ASSUME Inv, NEW r \in Requests, LateSet(r) \/ Lost(r)
  PROVE  TypeOK'
<1>1. TypeOK /\ arg[r] \in Ask /\ loc[r].read \in Read
  BY DEF Inv, RequestInv, LateSet, Lost
<1>2. CASE LateSet(r)
  BY <1>1, <1>2, StoreType DEF LateSet, TypeOK, control
<1>3. CASE Lost(r)
  BY <1>1, <1>3, FreeType DEF Lost, TypeOK, redis
<1> QED BY <1>2, <1>3

LEMMA SurroundingsType ==
  ASSUME Inv, Tick \/ RedisRestart \/ Crash \/ \E t \in Teams : BumpByUpdate(t)
  PROVE  TypeOK'
<1>1. CASE Tick
  BY <1>1 DEF Inv, TypeOK, Tick, control
<1>2. CASE RedisRestart
  BY <1>2 DEF Inv, TypeOK, RedisRestart, control
<1>3. CASE Crash
  <2>1. Fresh \in Local
    BY DEF Fresh, Local
  <2> QED BY <1>3, <2>1 DEF Inv, TypeOK, Crash, Steps, redis
<1>4. CASE \E t \in Teams : BumpByUpdate(t)
  BY <1>4 DEF Inv, TypeOK, BumpByUpdate, control
<1> QED BY <1>1, <1>2, <1>3, <1>4

----------------------------------------------------------------------------
(* What every step leaves standing: rows and memberships stay, a new row is *)
(* not older than anything read before, and a request only moves by its own *)
(* steps.                                                                   *)

RequestStep(r) == BeginStep(r) \/ CheckMember(r) \/ CreateStep(r) \/ ListStep(r)

Growth ==
    /\ members \subseteq members'
    /\ tasks \subseteq tasks'
    /\ \A t \in tasks' : t \in tasks \/ t.at = now
    /\ now' \in Nat
    /\ now <= now'

Kept(q) ==
    /\ pc'[q] = pc[q] /\ arg'[q] = arg[q]
    /\ start'[q] = start[q] /\ loc'[q] = loc[q]

LEMMA RequestStepFrame ==
  ASSUME TypeOK, NEW r \in Requests, RequestStep(r)
  PROVE  Growth /\ \A q \in Requests \ {r} : Kept(q)
<1> USE DEF TypeOK, Growth, Kept, redis
<1>1. CASE BeginStep(r)
  <2>1. PICK a \in Ask : Begins(r, a)
    BY <1>1, BeginAsk
  <2> QED BY <2>1 DEF Begins, Begin
<1>2. CASE CheckMember(r)
  BY <1>2 DEF CheckMember, Goto, Answer, Reply, Free
<1>3. CASE CreateStep(r)
  <2>1. CASE CheckAssignee(r)
    BY <2>1 DEF CheckAssignee, Goto, Answer, Reply, Free
  <2>2. ASSUME NEW id \in TaskIds, InsertTask(r, id) PROVE Growth /\ \A q \in Requests \ {r} : Kept(q)
    BY <2>2 DEF InsertTask, TaskRow, Goto, Answer, Reply, Free
  <2>3. CASE InsertTaskFails(r)
    BY <2>3 DEF InsertTaskFails, Answer, Reply, Free
  <2>4. CASE BumpTeamVersion(r)
    BY <2>4 DEF BumpTeamVersion, Answer, Reply, Free
  <2> QED BY <1>3, <2>1, <2>2, <2>3, <2>4 DEF CreateStep
<1>4. CASE ListStep(r)
  <2>1. CASE GetTeamVersion(r)
    BY <2>1 DEF GetTeamVersion, Goto
  <2>2. CASE GetTasks(r)
    BY <2>2 DEF GetTasks, Goto, Answer, Reply, Free
  <2>3. CASE SelectTasks(r)
    BY <2>3 DEF SelectTasks, Goto, Answer, Reply, Free
  <2>4. CASE GetTeamVersionAgain(r)
    BY <2>4 DEF GetTeamVersionAgain, Goto, Answer, Reply, Free
  <2>5. CASE SetTasks(r)
    BY <2>5 DEF SetTasks, Answer, Reply, Free
  <2>6. CASE LateSet(r) \/ Lost(r)
    BY <2>6 DEF LateSet, Lost, Free, control
  <2> QED BY <1>4, <2>1, <2>2, <2>3, <2>4, <2>5, <2>6 DEF ListStep
<1> QED BY <1>1, <1>2, <1>3, <1>4 DEF RequestStep

\* What a SELECT returned stays sound while the database grows.
LEMMA SoundKept ==
  ASSUME TypeOK, Growth, NEW rd \in Read, NEW f, Sound(rd, f)
  PROVE  /\ rd.at <= now'
         /\ rd.seen \subseteq {t \in tasks' : Matches(t, f)}
         /\ \A t \in tasks' : Matches(t, f) /\ t.at < rd.at => t \in rd.seen
<1>1. rd.at \in Nat /\ now \in Nat /\ rd.at <= now
  BY DEF TypeOK, Read, Sound
<1>2. rd.at <= now'
  BY <1>1 DEF Growth
<1>3. rd.seen \subseteq {t \in tasks' : Matches(t, f)}
  BY DEF Sound, Growth
<1>4. ASSUME NEW t \in tasks', Matches(t, f), t.at < rd.at PROVE t \in rd.seen
  <2>1. t \in tasks
    BY <1>1, <1>4 DEF Growth
  <2> QED BY <1>4, <2>1 DEF Sound
<1> QED BY <1>2, <1>3, <1>4

LEMMA RequestKept ==
  ASSUME TypeOK, Growth, NEW q \in Requests, Kept(q), RequestInv(q)
  PROVE  RequestInv(q)'
<1>1. CASE pc[q] = "idle"
  BY <1>1 DEF RequestInv, Kept
<1>2. CASE pc[q] # "idle"
  <2>1. start'[q] <= now'
    BY <1>2 DEF TypeOK, Growth, Kept, RequestInv
  <2>2. \A t, u : IsMember(t, u) => IsMember(t, u)'
    BY DEF IsMember, Growth
  <2>3. pc[q] \in {"version2", "store", "late"} => Sound(loc[q].read, arg[q])'
    BY <1>2, SoundKept DEF RequestInv, Sound, Kept
  <2> QED BY <1>2, <2>1, <2>2, <2>3 DEF RequestInv, Kept
<1> QED BY <1>1, <1>2

----------------------------------------------------------------------------
(* The invariant of the request that moves.                                *)

LEMMA BeginRequest ==
  ASSUME Inv, NEW r \in Requests, BeginStep(r)
  PROVE  RequestInv(r)'
<1>1. PICK a \in Ask : Begins(r, a) /\ (a.op = "list" => a.page \in Pages)
  BY BeginAsk
<1> QED BY <1>1 DEF Inv, TypeOK, Begins, Begin, RequestInv, ListSteps, CreateSteps

LEMMA AnswerRequest ==
  ASSUME TypeOK, NEW r \in Requests, NEW status, NEW read, Answer(r, status, read)
  PROVE  RequestInv(r)'
BY DEF TypeOK, Answer, Reply, Free, RequestInv

LEMMA CheckMemberRequest ==
  ASSUME Inv, NEW r \in Requests, CheckMember(r)
  PROVE  RequestInv(r)'
<1>1. CASE Answer(r, 400, None)
  BY <1>1, AnswerRequest DEF Inv
<1>2. CASE IsMember(arg[r].team, arg[r].actor) /\ loc' = loc
           /\ Goto(r, IF arg[r].op = "list" THEN "version"
                      ELSE IF arg[r].assignee # None THEN "assignee" ELSE "insert")
  <2>1. arg[r].op \in {"create", "list"}
    BY DEF Inv, RequestInv, CheckMember, Ask
  <2> USE DEF Inv, TypeOK, Goto, CheckMember, RequestInv, ListSteps, CreateSteps, IsMember
  <2>2. CASE arg[r].op = "list"
    BY <1>2, <2>2
  <2>3. CASE arg[r].op = "create" /\ arg[r].assignee # None
    <3>1. pc'[r] = "assignee" /\ arg'[r] = arg[r] /\ start'[r] = start[r]
      BY <1>2, <2>3
    <3> QED BY <1>2, <2>3, <3>1
  <2>4. CASE arg[r].op = "create" /\ arg[r].assignee = None
    BY <1>2, <2>4
  <2> QED BY <2>1, <2>2, <2>3, <2>4
<1> QED BY <1>1, <1>2 DEF CheckMember

LEMMA CreateStepRequest ==
  ASSUME Inv, NEW r \in Requests, CreateStep(r)
  PROVE  RequestInv(r)'
<1>1. CASE CheckAssignee(r)
  <2>1. CASE Answer(r, 400, None)
    BY <2>1, AnswerRequest DEF Inv
  <2>2. CASE IsMember(arg[r].team, arg[r].assignee) /\ Goto(r, "insert") /\ loc' = loc
    BY <1>1, <2>2 DEF Inv, TypeOK, CheckAssignee, Goto, RequestInv, ListSteps, CreateSteps, IsMember
  <2> QED BY <1>1, <2>1, <2>2 DEF CheckAssignee
<1>2. ASSUME NEW id \in TaskIds, InsertTask(r, id) PROVE RequestInv(r)'
  <2>1. CASE Answer(r, 400, None)
    BY <2>1, AnswerRequest DEF Inv
  <2>2. CASE Goto(r, "bump") /\ loc' = loc
    <3>1. pc[r] = "insert" /\ pc'[r] = "bump" /\ UNCHANGED <<members, now, arg, start>>
      BY <1>2, <2>2 DEF InsertTask, Goto, Inv, TypeOK
    <3>2. /\ arg[r] \in Ask /\ start[r] <= now /\ arg[r].op = "create"
          /\ IsMember(arg[r].team, arg[r].actor)
      BY <3>1 DEF Inv, RequestInv, CreateSteps
    <3> QED BY <3>1, <3>2 DEF RequestInv, ListSteps, IsMember
  <2> QED BY <1>2, <2>1, <2>2 DEF InsertTask
<1>3. CASE InsertTaskFails(r)
  BY <1>3, AnswerRequest DEF InsertTaskFails, Inv
<1>4. CASE BumpTeamVersion(r)
  BY <1>4, AnswerRequest DEF BumpTeamVersion, Inv
<1> QED BY <1>1, <1>2, <1>3, <1>4 DEF CreateStep

LEMMA ListStepRequest ==
  ASSUME Inv, NEW r \in Requests, ListStep(r)
  PROVE  RequestInv(r)'
<1>1. CASE GetTeamVersion(r)
  BY <1>1 DEF Inv, TypeOK, GetTeamVersion, Goto, RequestInv, ListSteps, CreateSteps, IsMember
<1>2. CASE GetTasks(r)
  <2>1. CASE \E e \in lists : Answer(r, 200, e.read)
    BY <2>1, AnswerRequest DEF Inv
  <2>2. CASE loc' = loc /\ Goto(r, "select")
    BY <1>2, <2>2 DEF Inv, TypeOK, GetTasks, Goto, RequestInv, ListSteps, CreateSteps, IsMember
  <2> QED BY <1>2, <2>1, <2>2 DEF GetTasks
<1>3. CASE SelectTasks(r)
  <2>1. CASE Answer(r, 400, None)
    BY <2>1, AnswerRequest DEF Inv
  <2> DEFINE rd == [seen |-> {t \in tasks : Matches(t, arg[r])},
                    page |-> arg[r].page, at |-> now]
  <2>2. CASE loc' = [loc EXCEPT ![r].read = rd] /\ Goto(r, "version2")
    <3>1. arg[r] \in Ask /\ start[r] <= now /\ arg[r].op = "list"
          /\ arg[r].page \in Pages /\ IsMember(arg[r].team, arg[r].actor)
      BY <1>3 DEF Inv, SelectTasks, RequestInv, ListSteps, CreateSteps
    <3>2. loc'[r].read = rd /\ arg'[r] = arg[r] /\ start'[r] = start[r]
          /\ pc'[r] = "version2" /\ tasks' = tasks /\ now' = now /\ members' = members
      BY <1>3, <2>2 DEF Inv, TypeOK, SelectTasks, Goto, Local
    <3>3. rd \in Read
      BY <3>1 DEF Read, Inv, TypeOK
    <3>4. Sound(rd, arg[r])'
      BY <3>2, <3>3 DEF Sound, Inv, TypeOK
    <3> QED BY <3>1, <3>2, <3>3, <3>4 DEF RequestInv, ListSteps, CreateSteps, IsMember, Sound
  <2> QED BY <1>3, <2>1, <2>2 DEF SelectTasks
<1>4. CASE GetTeamVersionAgain(r)
  <2>1. CASE Answer(r, 200, loc[r].read)
    BY <2>1, AnswerRequest DEF Inv
  <2>2. CASE loc' = [loc EXCEPT ![r].ver = VersionOf(arg[r].team)] /\ Goto(r, "store")
    <3>1. loc'[r].read = loc[r].read
      BY <2>2 DEF Inv, TypeOK, Local
    <3> QED BY <1>4, <2>2, <3>1 DEF Inv, TypeOK, GetTeamVersionAgain, Goto, RequestInv,
                                  ListSteps, CreateSteps, IsMember, Sound
  <2> QED BY <1>4, <2>1, <2>2 DEF GetTeamVersionAgain
<1>5. CASE SetTasks(r)
  <2>1. CASE Answer(r, 200, loc[r].read)
    BY <2>1, AnswerRequest DEF Inv
  <2>2. CASE pc' = [pc EXCEPT ![r] = "late"] /\ UNCHANGED <<arg, start, loc>>
    BY <1>5, <2>2 DEF Inv, TypeOK, SetTasks, RequestInv, ListSteps, CreateSteps,
                      IsMember, Sound
  <2> QED BY <1>5, <2>1, <2>2 DEF SetTasks
<1>6. CASE LateSet(r)
  BY <1>6 DEF Inv, LateSet, control, RequestInv, IsMember, Sound
<1>7. CASE Lost(r)
  BY <1>7 DEF Inv, TypeOK, Lost, Free, RequestInv
<1> QED BY <1>1, <1>2, <1>3, <1>4, <1>5, <1>6, <1>7 DEF ListStep

----------------------------------------------------------------------------
(* The rows.  Only InsertTask adds one; the memberships it rests on were    *)
(* read by earlier calls and memberships never go.                          *)

LEMMA RowsGrow ==
  ASSUME TypeOK, RowsInv, Growth,
         \A t \in tasks' \ tasks :
             /\ IsMember(t.team, t.created_by)
             /\ t.assignee # None => IsMember(t.team, t.assignee)
  PROVE  RowsInv'
<1>1. \A t \in tasks' : t.at <= now'
  <2> SUFFICES ASSUME NEW t \in tasks' PROVE t.at <= now'
    OBVIOUS
  <2>1. now \in Nat /\ now' \in Nat /\ now <= now'
    BY DEF TypeOK, Growth
  <2>2. CASE t \in tasks
    <3>1. t.at \in Nat /\ t.at <= now
      BY <2>2 DEF TypeOK, Task, RowsInv
    <3> QED BY <2>1, <3>1
  <2>3. CASE t.at = now
    BY <2>1, <2>3
  <2> QED BY <2>2, <2>3 DEF Growth
<1>2. TasksOfMembers'
  BY DEF RowsInv, TasksOfMembers, IsMember, Growth
<1> QED BY <1>1, <1>2 DEF RowsInv

LEMMA RequestStepRows ==
  ASSUME Inv, NEW r \in Requests, RequestStep(r)
  PROVE  RowsInv'
<1>1. Growth
  BY RequestStepFrame DEF Inv
<1>2. ASSUME NEW id \in TaskIds, InsertTask(r, id) PROVE RowsInv'
  <2>1. \A t \in tasks' \ tasks : t = TaskRow(arg[r], id)
    BY <1>2 DEF InsertTask
  <2>2. /\ IsMember(arg[r].team, arg[r].actor)
        /\ arg[r].assignee # None => IsMember(arg[r].team, arg[r].assignee)
    BY <1>2 DEF Inv, InsertTask, RequestInv
  <2>3. \A t \in tasks' \ tasks :
            /\ IsMember(t.team, t.created_by)
            /\ t.assignee # None => IsMember(t.team, t.assignee)
    BY <2>1, <2>2 DEF TaskRow
  <2> QED BY <1>1, <2>3, RowsGrow DEF Inv
<1>3. CASE tasks' = tasks
  BY <1>1, <1>3, RowsGrow DEF Inv
<1>4. CASE BeginStep(r)
  <2>1. PICK a \in Ask : Begins(r, a)
    BY <1>4, BeginAsk
  <2> QED BY <1>3, <2>1 DEF Begins, Begin
<1>5. CASE CheckMember(r)
  BY <1>3, <1>5 DEF CheckMember
<1>6. CASE CreateStep(r)
  BY <1>2, <1>3, <1>6 DEF CreateStep, CheckAssignee, InsertTaskFails, BumpTeamVersion
<1>7. CASE ListStep(r)
  BY <1>3, <1>7 DEF ListStep, GetTeamVersion, GetTasks, SelectTasks,
                    GetTeamVersionAgain, SetTasks, LateSet, Lost
<1> QED BY <1>4, <1>5, <1>6, <1>7 DEF RequestStep

----------------------------------------------------------------------------
(* The cached lists.  A SET adds one, of rows read after the storing request *)
(* started, and is executed at most RedisDelay after its deadline.          *)

LEMMA EntryKept ==
  ASSUME TypeOK, Growth, NEW e \in Entry, EntryInv(e), now' < e.exp
  PROVE  EntryInv(e)'
<1>1. e.read \in Read
  BY DEF Entry
<1>2. Sound(e.read, e.key)'
  BY <1>1, SoundKept DEF EntryInv, Sound
<1> QED BY <1>2 DEF EntryInv

LEMMA StoreEntry ==
  ASSUME Inv, NEW r \in Requests, pc[r] \in {"store", "late"}, Store(r),
         UNCHANGED <<tasks, now>>, NEW e,
         e = [key |-> ListKey(arg[r], loc[r].ver), read |-> loc[r].read,
              exp |-> now + TTL]
  PROVE  EntryInv(e)'
<1> DEFINE rd == loc[r].read
<1>1. /\ rd \in Read /\ start[r] <= rd.at /\ Sound(rd, arg[r]) /\ rd.at \in Nat
      /\ start[r] \in Nat /\ now \in Nat
      /\ tasks' = tasks /\ now' = now
  BY DEF Inv, TypeOK, RequestInv, Read
<1>2. now' < now + TTL
  BY <1>1, ClockAssumption
<1>3. now + TTL <= rd.at + Deadline + RedisDelay + TTL
  <2>1. now <= start[r] + Deadline + RedisDelay
    BY DEF Store, InTime, End
  <2> QED BY <1>1, <2>1, ClockAssumption
<1>4. e.key = ListKey(arg[r], loc[r].ver) /\ e.read = rd /\ e.exp = now + TTL
  OBVIOUS
<1>5. \A t : Matches(t, e.key) <=> Matches(t, arg[r])
  BY <1>4 DEF Matches, ListKey
<1>6. Sound(e.read, e.key)'
  BY <1>1, <1>4, <1>5 DEF Sound
<1> QED BY <1>2, <1>3, <1>4, <1>6 DEF EntryInv

LEMMA RequestStepEntries ==
  ASSUME Inv, NEW r \in Requests, RequestStep(r)
  PROVE  \A e \in lists' : EntryInv(e)'
<1>1. Growth /\ TypeOK /\ now' = now
  <2>1. now' = now
    <3>1. CASE BeginStep(r)
      BY <3>1, BeginAsk DEF Begins, Begin
    <3>2. CASE CheckMember(r)
      BY <3>2 DEF CheckMember
    <3>3. CASE CreateStep(r)
      BY <3>3 DEF CreateStep, CheckAssignee, InsertTask, InsertTaskFails, BumpTeamVersion
    <3>4. CASE ListStep(r)
      BY <3>4 DEF ListStep, GetTeamVersion, GetTasks, SelectTasks,
                  GetTeamVersionAgain, SetTasks, LateSet, Lost
    <3> QED BY <3>1, <3>2, <3>3, <3>4 DEF RequestStep
  <2> QED BY <2>1, RequestStepFrame DEF Inv
<1>2. ASSUME NEW e \in lists PROVE EntryInv(e)'
  <2>1. e \in Entry /\ EntryInv(e) /\ now' < e.exp
    BY <1>1 DEF Inv, TypeOK, EntryInv
  <2> QED BY <1>1, <2>1, EntryKept
<1>3. CASE lists' = lists
  BY <1>2, <1>3
<1>4. CASE pc[r] \in {"store", "late"} /\ Store(r) /\ UNCHANGED <<tasks, now>>
  <2> DEFINE new == [key |-> ListKey(arg[r], loc[r].ver), read |-> loc[r].read,
                     exp |-> now + TTL]
  <2>1. lists' \subseteq lists \cup {new}
    BY <1>4 DEF Store
  <2>2. \A e : e = new => EntryInv(e)'
    BY <1>4, StoreEntry
  <2> HIDE DEF new
  <2> QED BY <1>2, <2>1, <2>2
<1>5. \/ lists' = lists
      \/ pc[r] \in {"store", "late"} /\ Store(r) /\ UNCHANGED <<tasks, now>>
  <2>1. CASE BeginStep(r)
    BY <2>1, BeginAsk DEF Begins, Begin, redis
  <2>2. CASE CheckMember(r)
    BY <2>2 DEF CheckMember, redis
  <2>3. CASE CreateStep(r)
    BY <2>3 DEF CreateStep, CheckAssignee, InsertTask, InsertTaskFails, BumpTeamVersion, redis
  <2>4. CASE ListStep(r)
    BY <2>4 DEF ListStep, GetTeamVersion, GetTasks, SelectTasks,
                GetTeamVersionAgain, SetTasks, LateSet, Lost, redis
  <2> QED BY <2>1, <2>2, <2>3, <2>4 DEF RequestStep
<1> QED BY <1>3, <1>4, <1>5

----------------------------------------------------------------------------
(* The steps of the surroundings.                                          *)

LEMMA SurroundingsInv ==
  ASSUME Inv, \/ \E t \in Teams, u \in Users : Join(t, u)
              \/ \E t \in Teams : BumpByUpdate(t)
              \/ Tick \/ RedisRestart \/ Crash
  PROVE  Inv'
<1>1. Growth
  BY DEF Inv, TypeOK, Growth, Join, BumpByUpdate, Tick, RedisRestart, Crash
<1>2. TypeOK'
  BY JoinType, SurroundingsType
<1>3. RowsInv'
  <2>1. tasks' = tasks
    BY DEF Join, BumpByUpdate, Tick, RedisRestart, Crash
  <2> QED BY <1>1, <2>1, RowsGrow DEF Inv
<1>4. \A r \in Requests : RequestInv(r)'
  <2>1. CASE Crash
    <3> SUFFICES ASSUME NEW r \in Requests, pc'[r] # "idle" PROVE RequestInv(r)'
      BY DEF RequestInv
    <3>1. pc[r] \in {"store", "late"} /\ pc'[r] = "late" /\ arg'[r] = arg[r]
          /\ start'[r] = start[r] /\ loc'[r] = loc[r]
      BY <2>1 DEF Crash
    <3>2. UNCHANGED <<members, tasks, now>>
      BY <2>1 DEF Crash
    <3> QED BY <3>1, <3>2 DEF Inv, RequestInv, ListSteps, CreateSteps, IsMember, Sound
  <2>2. CASE control' = control
    BY <1>1, <2>2, RequestKept DEF Inv, control, Kept
  <2> QED BY <2>1, <2>2 DEF Join, BumpByUpdate, Tick, RedisRestart
<1>5. \A e \in lists' : EntryInv(e)'
  <2>1. \A e \in lists' : e \in lists /\ now' < e.exp
    <3>1. CASE Tick
      BY <3>1 DEF Tick, Inv, TypeOK, Entry
    <3>2. CASE RedisRestart
      BY <3>2 DEF RedisRestart
    <3>3. CASE lists' = lists /\ now' = now
      BY <3>3 DEF Inv, EntryInv
    <3> QED BY <3>1, <3>2, <3>3 DEF Join, BumpByUpdate, Crash, redis
  <2>2. \A e \in lists : e \in Entry /\ EntryInv(e)
    BY DEF Inv, TypeOK
  <2> QED BY <1>1, <2>1, <2>2, EntryKept DEF Inv
<1> QED BY <1>2, <1>3, <1>4, <1>5 DEF Inv

LEMMA RequestStepInv ==
  ASSUME Inv, NEW r \in Requests, RequestStep(r)
  PROVE  Inv'
<1>1. TypeOK'
  BY BeginType, CheckMemberType, CheckAssigneeType, InsertTaskType,
     InsertTaskFailsType, BumpTeamVersionType, GetTeamVersionType, GetTasksType,
     SelectTasksType, GetTeamVersionAgainType, SetTasksType, LateSetType
     DEF RequestStep, CreateStep, ListStep
<1>2. RowsInv'
  BY RequestStepRows
<1>3. \A q \in Requests : RequestInv(q)'
  <2>1. RequestInv(r)'
    BY BeginRequest, CheckMemberRequest, CreateStepRequest, ListStepRequest
       DEF RequestStep
  <2>2. ASSUME NEW q \in Requests \ {r} PROVE RequestInv(q)'
    BY RequestStepFrame, RequestKept DEF Inv
  <2> QED BY <2>1, <2>2
<1>4. \A e \in lists' : EntryInv(e)'
  BY RequestStepEntries
<1> QED BY <1>1, <1>2, <1>3, <1>4 DEF Inv

LEMMA NextInv == Inv /\ [Next]_vars => Inv'
<1> SUFFICES ASSUME Inv, [Next]_vars PROVE Inv'
  OBVIOUS
<1>1. CASE UNCHANGED vars
  BY <1>1 DEF vars, redis, control, Inv, TypeOK, RowsInv, TasksOfMembers, IsMember,
              RequestInv, EntryInv, Sound
<1>2. CASE Next
  BY <1>2, SurroundingsInv, RequestStepInv DEF Next, RequestStep
<1> QED BY <1>1, <1>2

----------------------------------------------------------------------------
(* What is answered.  Every step that answers sets reply, every other step   *)
(* clears it, so the properties of answers follow from Inv step by step.    *)

Served == BoundedStaleness /\ ServedRowsMatch /\ ServedToMembers

\* A list that answers request r, read at or after `since`.
LEMMA ServedAnswer ==
  ASSUME Inv, NEW r \in Requests, NEW rd \in Read, NEW f,
         pc[r] \in ListSteps, Reply(r, 200, rd), UNCHANGED <<members, tasks, now>>,
         Sound(rd, f), \A t : Matches(t, f) <=> Matches(t, arg[r]),
         start[r] < rd.at + TTL + Deadline + RedisDelay
  PROVE  Served'
<1>1. /\ arg[r] \in Ask /\ arg[r].op = "list"
      /\ IsMember(arg[r].team, arg[r].actor)
  BY DEF Inv, RequestInv, ListSteps
<1>2. reply'.ask = arg[r] /\ reply'.start = start[r] /\ reply'.read = rd
  BY DEF Answer, Reply, Free
<1>3. ASSUME NEW t \in tasks, Matches(t, arg[r]), t.at + TTL + Deadline + RedisDelay <= start[r]
      PROVE  t \in rd.seen
  <2>1. t.at \in Nat /\ rd.at \in Nat /\ start[r] \in Nat
    BY DEF Inv, TypeOK, Task, Read
  <2>2. t.at < rd.at
    BY <1>3, <2>1, ClockAssumption
  <2> QED BY <1>3, <2>2 DEF Sound
<1>4. BoundedStaleness'
  BY <1>2, <1>3 DEF BoundedStaleness
<1>5. ServedRowsMatch'
  BY <1>1, <1>2 DEF ServedRowsMatch, Sound
<1>6. ServedToMembers'
  BY <1>1, <1>2 DEF ServedToMembers, IsMember
<1> QED BY <1>4, <1>5, <1>6 DEF Served

\* Answers that serve nothing, and steps that answer nothing.
LEMMA NothingServed ==
  ASSUME reply' = None \/ reply'.read = None
  PROVE  Served'
BY DEF Served, BoundedStaleness, ServedRowsMatch, ServedToMembers

\* The age of what a list is answered with: a hit of the cache, or the
\* request's own SELECT.
LEMMA HitIsFresh ==
  ASSUME Inv, NEW r \in Requests, GetTasks(r),
         NEW e \in lists, e.key = ListKey(arg[r], loc[r].ver)
  PROVE  /\ e.read \in Read /\ Sound(e.read, e.key)
         /\ \A t : Matches(t, e.key) <=> Matches(t, arg[r])
         /\ start[r] < e.read.at + TTL + Deadline + RedisDelay
<1>1. e \in Entry /\ e.read \in Read /\ Sound(e.read, e.key)
  BY DEF Inv, TypeOK, Entry, EntryInv
<1>2. start[r] < e.read.at + TTL + Deadline + RedisDelay
  <2>1. /\ start[r] \in Nat /\ now \in Nat /\ e.exp \in Nat /\ e.read.at \in Nat
        /\ start[r] <= now /\ now < e.exp /\ e.exp <= e.read.at + Deadline + RedisDelay + TTL
    BY <1>1 DEF Inv, TypeOK, Entry, Read, EntryInv, RequestInv, GetTasks
  <2> QED BY <2>1, ClockAssumption
<1>3. \A t : Matches(t, e.key) <=> Matches(t, arg[r])
  BY DEF Matches, ListKey
<1> QED BY <1>1, <1>2, <1>3

LEMMA OwnReadIsFresh ==
  ASSUME Inv, NEW r \in Requests, pc[r] \in {"version2", "store"}
  PROVE  /\ loc[r].read \in Read /\ Sound(loc[r].read, arg[r])
         /\ start[r] < loc[r].read.at + TTL + Deadline + RedisDelay
<1>1. loc[r].read \in Read /\ Sound(loc[r].read, arg[r]) /\ start[r] <= loc[r].read.at
  BY DEF Inv, RequestInv
<1> QED BY <1>1, ClockAssumption DEF Inv, TypeOK, Read

LEMMA ListStepServed ==
  ASSUME Inv, NEW r \in Requests, ListStep(r)
  PROVE  Served'
<1>1. CASE GetTeamVersion(r)
  BY <1>1, NothingServed DEF GetTeamVersion, Goto
<1>2. CASE GetTasks(r)
  <2>1. CASE Goto(r, "select")
    BY <2>1, NothingServed DEF Goto
  <2>2. ASSUME NEW e \in lists, e.key = ListKey(arg[r], loc[r].ver), Answer(r, 200, e.read)
        PROVE  Served'
    BY <1>2, <2>2, HitIsFresh, ServedAnswer DEF GetTasks, ListSteps, Answer
  <2> QED BY <1>2, <2>1, <2>2 DEF GetTasks
<1>3. CASE SelectTasks(r)
  BY <1>3, NothingServed DEF SelectTasks, Goto, Answer, Reply, Free
<1>4. CASE /\ pc[r] \in {"version2", "store"} /\ Reply(r, 200, loc[r].read)
           /\ UNCHANGED <<members, tasks, now>>
  BY <1>4, OwnReadIsFresh, ServedAnswer DEF ListSteps
<1>5. CASE GetTeamVersionAgain(r)
  BY <1>4, <1>5, NothingServed DEF GetTeamVersionAgain, Goto, Answer
<1>6. CASE SetTasks(r)
  BY <1>4, <1>6 DEF SetTasks, Answer
<1>7. CASE LateSet(r) \/ Lost(r)
  BY <1>7, NothingServed DEF LateSet, Lost
<1> QED BY <1>1, <1>2, <1>3, <1>5, <1>6, <1>7 DEF ListStep

LEMMA NextServed == Inv /\ Served /\ [Next]_vars => Served'
<1> SUFFICES ASSUME Inv, Served, [Next]_vars PROVE Served'
  OBVIOUS
<1>1. CASE UNCHANGED vars
  BY <1>1 DEF vars, Served, BoundedStaleness, ServedRowsMatch, ServedToMembers, IsMember
<1>2. CASE Next
  <2>1. ASSUME NEW r \in Requests, ListStep(r) PROVE Served'
    BY <2>1, ListStepServed
  <2>2. ASSUME NEW r \in Requests, BeginStep(r) PROVE Served'
    BY <2>2, BeginAsk, NothingServed DEF Begins, Begin
  <2>3. ASSUME NEW r \in Requests, CheckMember(r) \/ CreateStep(r) PROVE Served'
    BY <2>3, NothingServed DEF CheckMember, CreateStep, CheckAssignee, InsertTask,
       InsertTaskFails, BumpTeamVersion, Goto, Answer, Reply, Free
  <2>4. CASE \/ \E t \in Teams, u \in Users : Join(t, u)
             \/ \E t \in Teams : BumpByUpdate(t)
             \/ Tick \/ RedisRestart \/ Crash
    BY <2>4, NothingServed DEF Join, BumpByUpdate, Tick, RedisRestart, Crash
  <2> QED BY <1>2, <2>1, <2>2, <2>3, <2>4 DEF Next
<1> QED BY <1>1, <1>2

\* A list is refused by CheckMember and SelectTasks only, and both of them
\* ask MySQL.
LEMMA ListRefused ==
  ASSUME Inv, NEW r \in Requests, pc[r] # "idle", Answer(r, 400, None),
         UNCHANGED <<members, now>>,
         arg[r].op = "list" => ~ IsMember(arg[r].team, arg[r].actor) \/ MySQLFails(r)
  PROVE  RedisNeverFailsAList'
<1>1. reply'.ask = arg[r] /\ reply'.start = start[r]
  BY DEF Answer, Reply, Free
<1>2. now \in Nat /\ start[r] \in Nat
  BY DEF Inv, TypeOK
<1>3. MySQLFails(r) => "mysql" \in Faults \/ now > start[r] + Deadline
  BY <1>2, ClockAssumption DEF MySQLFails, Live, End
<1> QED BY <1>1, <1>3 DEF RedisNeverFailsAList, IsMember

\* Any other answer is a 200, or is none to a list.
LEMMA NotRefused ==
  ASSUME reply' = None \/ reply'.status = 200 \/ reply'.ask.op # "list"
  PROVE  RedisNeverFailsAList'
BY DEF RedisNeverFailsAList

LEMMA RequestStepRefused ==
  ASSUME Inv, NEW r \in Requests, RequestStep(r)
  PROVE  RedisNeverFailsAList'
<1>1. CASE BeginStep(r)
  BY <1>1, BeginAsk, NotRefused DEF Begins, Begin
<1>2. CASE CheckMember(r)
  BY <1>2, ListRefused, NotRefused DEF CheckMember, Goto
<1>3. CASE CreateStep(r)
  <2>1. ASSUME NEW status, Answer(r, status, None), pc[r] \in CreateSteps
        PROVE  RedisNeverFailsAList'
    <3>1. arg[r].op = "create"
      BY <2>1 DEF Inv, RequestInv, CreateSteps
    <3> QED BY <2>1, <3>1, NotRefused DEF Answer, Reply, Free
  <2> QED BY <1>3, <2>1, NotRefused DEF CreateStep, CheckAssignee, InsertTask,
             InsertTaskFails, BumpTeamVersion, Goto, CreateSteps
<1>4. CASE ListStep(r)
  BY <1>4, ListRefused, NotRefused DEF ListStep, GetTeamVersion, GetTasks,
     SelectTasks, GetTeamVersionAgain, SetTasks, LateSet, Lost, Goto, Answer, Reply
<1> QED BY <1>1, <1>2, <1>3, <1>4 DEF RequestStep

LEMMA NextRefused == Inv /\ RedisNeverFailsAList /\ [Next]_vars => RedisNeverFailsAList'
<1> SUFFICES ASSUME Inv, RedisNeverFailsAList, [Next]_vars PROVE RedisNeverFailsAList'
  OBVIOUS
<1>1. CASE UNCHANGED vars
  BY <1>1 DEF vars, RedisNeverFailsAList, IsMember
<1>2. CASE Next
  BY <1>2, RequestStepRefused, NotRefused
     DEF Next, RequestStep, Join, BumpByUpdate, Tick, RedisRestart, Crash
<1> QED BY <1>1, <1>2

----------------------------------------------------------------------------
(* Theorems.                                                               *)

\* Type correctness, whatever fails.
THEOREM TypeCorrect == Spec => []TypeOK
<1>1. Inv => TypeOK
  BY DEF Inv
<1> QED BY <1>1, InitInv, NextInv, PTL DEF Spec

\* Who creates a task and who is assigned to it belong to its team: the
\* checks of Create are separate statements, and that memberships only grow
\* is what makes them hold at the INSERT.
THEOREM TaskIntegrity == Spec => []TasksOfMembers
<1>1. Inv => TasksOfMembers
  BY DEF Inv, RowsInv
<1> QED BY <1>1, InitInv, NextInv, PTL DEF Spec

LEMMA AlwaysServed == Spec => []Served
<1>1. Init => Served
  BY DEF Init, Served, BoundedStaleness, ServedRowsMatch, ServedToMembers
<1> QED BY <1>1, InitInv, NextInv, NextServed, PTL DEF Spec

\* A served list saw every matching task committed TTL + Deadline + RedisDelay before its
\* request came, however creates, lists, crashes, Redis errors, restarts and
\* expiries interleave, and although BumpTeamVersion hides nothing.
THEOREM StalenessBound == Spec => []BoundedStaleness
<1>1. Served => BoundedStaleness
  BY DEF Served
<1> QED BY <1>1, AlwaysServed, PTL

\* No query is served rows that its filter excludes: the key that ListKey
\* computes holds all of the filter, though nothing of the page.
THEOREM CacheServesTheFilter == Spec => []ServedRowsMatch
<1>1. Served => ServedRowsMatch
  BY DEF Served
<1> QED BY <1>1, AlwaysServed, PTL

\* Cached or not, a list is served to members of its team only.
THEOREM MembersOnly == Spec => []ServedToMembers
<1>1. Served => ServedToMembers
  BY DEF Served
<1> QED BY <1>1, AlwaysServed, PTL

\* Redis never decides the status of a list: refused are only those who are
\* no members, and those MySQL failed or whose time ran out.
THEOREM CacheIsOptional == Spec => []RedisNeverFailsAList
<1>1. Init => RedisNeverFailsAList
  BY DEF Init, RedisNeverFailsAList
<1> QED BY <1>1, InitInv, NextInv, NextRefused, PTL DEF Spec

----------------------------------------------------------------------------
(* TaskLists implements TaskBoard.  A create is on the board at its INSERT, *)
(* a list is looked up when it is answered, and the calls in between are    *)
(* work nobody sees.                                                        *)

\* The two modules speak of the same statuses and of the same rows.
LEMMA SameVocabulary ==
  /\ Ask \subseteq Board!Ask
  /\ Board!EnumTaskStatus = EnumTaskStatus
  /\ \A a : Board!Matching(a) = {t \in tasks : Matches(t, a)}
  /\ \A t, u : Board!IsMember(t, u) <=> IsMember(t, u)
<1>1. Statuses \cup TaskStatus \subseteq Board!RequestStatus
  BY StatusAssumption DEF RequestStatus, Board!RequestStatus, Board!TaskStatus, TaskStatus,
     Board!EnumTaskStatus, EnumTaskStatus, Board!StatusToDo, StatusToDo
<1>2. Ask \subseteq Board!Ask
  BY <1>1 DEF Ask, Board!Ask
<1>3. Board!EnumTaskStatus = EnumTaskStatus
  BY DEF EnumTaskStatus, Board!EnumTaskStatus
<1>4. \A a : Board!Matching(a) = {t \in tasks : Matches(t, a)}
  BY DEF Board!Matching, Matches
<1>5. \A t, u : Board!IsMember(t, u) <=> IsMember(t, u)
  BY DEF Board!IsMember, IsMember
<1> QED BY <1>2, <1>3, <1>4, <1>5

\* What the steps of the requests are to the board: an answer is an answer,
\* be the SET of the request still on its way or not, and a step that neither
\* answers nor follows the INSERT is work.
LEMMA BoardAnswer ==
  ASSUME TypeOK, NEW r \in Requests, ~ Over(r), NEW status, NEW read,
         Reply(r, status, read), Over(r)', \A q \in Requests \ {r} : Kept(q)
  PROVE  Board!Answer(r, status, read)
<1>1. Asked[r] = arg[r] /\ Since[r] = start[r]
  BY DEF Asked, Since
<1>2. Asked' = [Asked EXCEPT ![r] = None] /\ Since' = [Since EXCEPT ![r] = 0]
  BY DEF Asked, Since, Over, Kept
<1>3. Inserted' = [Inserted EXCEPT ![r] = FALSE]
  BY DEF Inserted, Over, Kept
<1> QED BY <1>1, <1>2, <1>3 DEF Board!Answer, Reply

LEMMA AnswerEnds ==
  ASSUME TypeOK, NEW r \in Requests, NEW status, NEW read, Answer(r, status, read)
  PROVE  Reply(r, status, read) /\ Over(r)' /\ \A q \in Requests \ {r} : Kept(q)
BY DEF TypeOK, Answer, Free, Over, Kept

LEMMA BoardWork ==
  ASSUME UNCHANGED <<members, tasks, now>>, reply' = None,
         \A q \in Requests :
             Kept(q) \/ (Over(q) /\ Over(q)')
             \/ (/\ ~ Over(q) /\ ~ Over(q)' /\ pc[q] # "bump" /\ pc'[q] # "bump"
                 /\ arg'[q] = arg[q] /\ start'[q] = start[q])
  PROVE  Board!Next
<1>1. UNCHANGED <<Asked, Since, Inserted>>
  BY DEF Asked, Since, Inserted, Over, Kept
<1>2. Board!Work
  BY <1>1 DEF Board!Work
<1> QED BY <1>2 DEF Board!Next

LEMMA BoardGoto ==
  ASSUME TypeOK, NEW r \in Requests, pc[r] \notin {"idle", "late", "bump"},
         NEW step, step \notin {"idle", "late", "bump"}, Goto(r, step),
         UNCHANGED <<members, tasks, now>>, \A q \in Requests \ {r} : Kept(q)
  PROVE  Board!Next
BY BoardWork DEF TypeOK, Goto, Over

LEMMA BoardRefuse ==
  ASSUME Inv, NEW r \in Requests, pc[r] \notin {"idle", "late", "bump"},
         Answer(r, 400, None), UNCHANGED <<members, tasks, now>>
  PROVE  Board!Next
<1>1. Asked[r] # None /\ ~ Over(r) /\ ~ Inserted[r]
  BY NoneAssumption DEF Inv, RequestInv, Over, Asked, Inserted
<1>2. Board!Answer(r, 400, None)
  BY <1>1, BoardAnswer, AnswerEnds DEF Inv
<1>3. Board!Refuse(r)
  BY <1>1, <1>2 DEF Board!Refuse
<1> QED BY <1>3 DEF Board!Next

LEMMA BoardServe ==
  ASSUME Inv, NEW r \in Requests, NEW rd \in Read, NEW f,
         pc[r] \in ListSteps, Reply(r, 200, rd), Over(r)',
         \A q \in Requests \ {r} : Kept(q), UNCHANGED <<members, tasks, now>>,
         Sound(rd, f), \A t : Matches(t, f) <=> Matches(t, arg[r]),
         start[r] < rd.at + TTL + Deadline + RedisDelay
  PROVE  Board!Next
<1>1. ~ Over(r) /\ Asked[r] = arg[r] /\ Since[r] = start[r]
  BY DEF Over, ListSteps, Asked, Since
<1>2. /\ arg[r] \in Ask /\ arg[r].op = "list" /\ arg[r] # None
      /\ Board!IsMember(arg[r].team, arg[r].actor)
  BY NoneAssumption, SameVocabulary DEF Inv, RequestInv, ListSteps
<1>3. /\ rd.at \in 0..now /\ start[r] < rd.at + (TTL + Deadline + RedisDelay)
      /\ rd.seen \in SUBSET Board!Matching(arg[r]) /\ rd.page \in Pages
      /\ \A t \in Board!Matching(arg[r]) : t.at < rd.at => t \in rd.seen
  BY SameVocabulary, ClockAssumption DEF Sound, Read, Inv, TypeOK
<1>4. rd = [seen |-> rd.seen, page |-> rd.page, at |-> rd.at]
  BY DEF Read
<1>5. Board!Answer(r, 200, [seen |-> rd.seen, page |-> rd.page, at |-> rd.at])
  BY <1>1, <1>4, BoardAnswer DEF Inv
<1>6. Board!Serve(r)
  BY <1>1, <1>2, <1>3, <1>5 DEF Board!Serve
<1> QED BY <1>6 DEF Board!Next

LEMMA BeginBoard ==
  ASSUME Inv, NEW r \in Requests, BeginStep(r)
  PROVE  Board!Next
<1>1. PICK a \in Ask : Begins(r, a)
  BY BeginAsk
<1>2. Asked[r] = None /\ Asked' = [Asked EXCEPT ![r] = a]
  BY <1>1 DEF Asked, Over, Begins, Begin, Inv, TypeOK
<1>3. Since' = [Since EXCEPT ![r] = now] /\ Inserted' = Inserted
  BY <1>1 DEF Since, Inserted, Over, Begins, Begin, Inv, TypeOK
<1>4. Board!Come(r, a) /\ a \in Board!Ask
  BY <1>1, <1>2, <1>3, SameVocabulary DEF Begins, Begin, Board!Come
<1> QED BY <1>4 DEF Board!Next

LEMMA InsertBoard ==
  ASSUME Inv, NEW r \in Requests, NEW id \in TaskIds, InsertTask(r, id)
  PROVE  Board!Next
<1> DEFINE a == arg[r]
<1>1. /\ pc[r] = "insert" /\ a.status \in Board!EnumTaskStatus
      /\ \A t \in tasks : t.id # id
      /\ UNCHANGED <<members, now>>
  BY SameVocabulary DEF InsertTask
<1>2. /\ Asked[r] = a /\ a # None /\ a.op = "create" /\ ~ Over(r) /\ ~ Inserted[r]
      /\ Board!IsMember(a.team, a.actor)
      /\ a.assignee # None => Board!IsMember(a.team, a.assignee)
  BY <1>1, NoneAssumption, SameVocabulary
     DEF Inv, RequestInv, CreateSteps, Inserted, Asked, Over
<1>3. tasks' = tasks \cup
          {[id |-> id, team |-> a.team, status |-> a.status,
            assignee |-> a.assignee, created_by |-> a.actor, at |-> now]}
  BY DEF InsertTask, TaskRow
<1>4. \/ /\ Inserted' = [Inserted EXCEPT ![r] = TRUE]
         /\ reply' = None
         /\ UNCHANGED <<Asked, Since>>
      \/ Board!Answer(r, 400, None)
  <2>1. CASE Goto(r, "bump")
    BY <1>2, <2>1 DEF Goto, Inserted, Asked, Since, Over, Inv, TypeOK
  <2>2. CASE Answer(r, 400, None)
    BY <1>2, <2>2, BoardAnswer, AnswerEnds DEF Inv
  <2> QED BY <2>1, <2>2 DEF InsertTask
<1>5. Board!Insert(r, id)
  BY <1>1, <1>2, <1>3, <1>4 DEF Board!Insert
<1> QED BY <1>5 DEF Board!Next

LEMMA CreateStepBoard ==
  ASSUME Inv, NEW r \in Requests, CreateStep(r)
  PROVE  Board!Next
<1>1. \A q \in Requests \ {r} : Kept(q)
  BY RequestStepFrame DEF Inv, RequestStep
<1>2. CASE CheckAssignee(r)
  BY <1>1, <1>2, BoardGoto, BoardRefuse DEF CheckAssignee, Inv
<1>3. CASE InsertTaskFails(r)
  BY <1>3, BoardRefuse DEF InsertTaskFails
<1>4. CASE BumpTeamVersion(r)
  <2>1. ~ Over(r) /\ Inserted[r]
    BY <1>4 DEF BumpTeamVersion, Over, Inserted
  <2>2. Board!Created(r)
    BY <1>4, <2>1, BoardAnswer, AnswerEnds DEF BumpTeamVersion, Board!Created, Inv
  <2> QED BY <2>2 DEF Board!Next
<1> QED BY <1>2, <1>3, <1>4, InsertBoard DEF CreateStep

LEMMA ListStepBoard ==
  ASSUME Inv, NEW r \in Requests, ListStep(r)
  PROVE  Board!Next
<1>0. \A q \in Requests \ {r} : Kept(q)
  BY RequestStepFrame DEF Inv, RequestStep
<1>1. CASE GetTeamVersion(r)
  BY <1>0, <1>1, BoardGoto DEF GetTeamVersion, Inv
<1>2. CASE GetTasks(r)
  <2>1. CASE Goto(r, "select")
    BY <1>0, <1>2, <2>1, BoardGoto DEF GetTasks, Inv
  <2>2. ASSUME NEW e \in lists, e.key = ListKey(arg[r], loc[r].ver), Answer(r, 200, e.read)
        PROVE  Board!Next
    <3>1. Reply(r, 200, e.read) /\ Over(r)'
      BY <2>2, AnswerEnds DEF Inv
    <3> QED BY <1>0, <1>2, <2>2, <3>1, HitIsFresh, BoardServe DEF GetTasks, ListSteps
  <2> QED BY <1>2, <2>1, <2>2 DEF GetTasks
<1>3. CASE SelectTasks(r)
  BY <1>0, <1>3, BoardGoto, BoardRefuse DEF SelectTasks, Inv
<1>4. CASE /\ pc[r] \in {"version2", "store"} /\ Reply(r, 200, loc[r].read)
           /\ Over(r)' /\ UNCHANGED <<members, tasks, now>>
  BY <1>0, <1>4, OwnReadIsFresh, BoardServe DEF ListSteps
<1>5. CASE GetTeamVersionAgain(r)
  <2>1. CASE Goto(r, "store")
    BY <1>0, <1>5, <2>1, BoardGoto DEF GetTeamVersionAgain, Inv
  <2>2. CASE Answer(r, 200, loc[r].read)
    BY <1>4, <1>5, <2>2, AnswerEnds DEF GetTeamVersionAgain, Inv
  <2> QED BY <1>5, <2>1, <2>2 DEF GetTeamVersionAgain
<1>6. CASE SetTasks(r)
  <2>1. Reply(r, 200, loc[r].read) /\ Over(r)'
    BY <1>6, AnswerEnds DEF SetTasks, Over, Inv, TypeOK
  <2> QED BY <1>4, <1>6, <2>1 DEF SetTasks
<1>7. CASE LateSet(r) \/ Lost(r)
  <2>1. UNCHANGED <<members, tasks, now>> /\ reply' = None /\ Over(r) /\ Over(r)'
    BY <1>7 DEF LateSet, Lost, Free, control, Over, Inv, TypeOK
  <2> QED BY <1>0, <2>1, BoardWork
<1> QED BY <1>1, <1>2, <1>3, <1>5, <1>6, <1>7 DEF ListStep

LEMMA SurroundingsBoard ==
  ASSUME Inv, \/ \E t \in Teams, u \in Users : Join(t, u)
              \/ \E t \in Teams : BumpByUpdate(t)
              \/ Tick \/ RedisRestart \/ Crash
  PROVE  Board!Next
<1>1. control' = control => UNCHANGED <<Asked, Since, Inserted>>
  BY DEF control, Asked, Since, Inserted, Over
<1>2. ASSUME NEW t \in Teams, NEW u \in Users, Join(t, u) PROVE Board!Next
  <2>1. Board!Join(t, u)
    BY <1>1, <1>2 DEF Join, Board!Join
  <2> QED BY <2>1 DEF Board!Next
<1>3. CASE Tick
  <2>1. Board!Tick
    BY <1>1, <1>3 DEF Tick, Board!Tick
  <2> QED BY <2>1 DEF Board!Next
<1>4. CASE Crash
  <2>1. \A r \in Requests : Over(r)' /\ pc'[r] # "bump"
    BY <1>4 DEF Crash, Over
  <2>2. /\ Asked' = [r \in Requests |-> None]
        /\ Since' = [r \in Requests |-> 0]
        /\ Inserted' = [r \in Requests |-> FALSE]
    BY <2>1 DEF Asked, Since, Inserted
  <2>3. Board!Crash
    BY <1>4, <2>2 DEF Crash, Board!Crash
  <2> QED BY <2>3 DEF Board!Next
<1>5. CASE RedisRestart \/ \E t \in Teams : BumpByUpdate(t)
  <2>1. Board!Work
    BY <1>1, <1>5 DEF RedisRestart, BumpByUpdate, Board!Work
  <2> QED BY <2>1 DEF Board!Next
<1> QED BY <1>2, <1>3, <1>4, <1>5

LEMMA NextBoard == Inv /\ [Next]_vars => [Board!Next]_(Board!vars)
<1> SUFFICES ASSUME Inv, [Next]_vars PROVE [Board!Next]_(Board!vars)
  OBVIOUS
<1>1. CASE UNCHANGED vars
  BY <1>1 DEF vars, control, Board!vars, Asked, Since, Inserted, Over
<1>2. ASSUME NEW r \in Requests, CheckMember(r) PROVE Board!Next
  <2>1. \A q \in Requests \ {r} : Kept(q)
    BY <1>2, RequestStepFrame DEF Inv, RequestStep
  <2> QED BY <1>2, <2>1, BoardGoto, BoardRefuse DEF CheckMember, Inv
<1> QED BY <1>1, <1>2, BeginBoard, CreateStepBoard, ListStepBoard, SurroundingsBoard DEF Next

\* Every behaviour of the service, with its races, lost answers, stale lists
\* and crashes, is a behaviour of TaskBoard.
THEOREM BoardImplemented == Spec => ImplementsBoard
<1>1. Init => Board!Init
  BY DEF Init, Board!Init, Asked, Since, Inserted, Over
<1> QED BY <1>1, InitInv, NextInv, NextBoard, PTL
        DEF Spec, ImplementsBoard, Board!Spec
=============================================================================
