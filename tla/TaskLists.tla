------------------------------ MODULE TaskLists ------------------------------
(***************************************************************************)
(* POST /tasks and GET /tasks: TaskHandler, TaskUsecase.Create and List,   *)
(* the statements of TaskRepo and TeamRepo they run and the list cache of  *)
(* TaskCache in Redis.                                                     *)
(*                                                                         *)
(* A request in flight is a process and one action is one call to MySQL or *)
(* Redis.  Time is a counter: it decides when a cached list expires and    *)
(* when the context of a request ends.                                     *)
(***************************************************************************)
EXTENDS Schema, Integers, FiniteSets

CONSTANTS
    Users, Teams,
    TaskIds,    \* values AUTO_INCREMENT may give to tasks.id
    Requests,   \* slots for HTTP requests in flight at the same time
    Statuses,   \* values of "status" in bodies and queries, "" for none
    Assignees,  \* values of "assignee_id", None for none; not all are users
    Pages,      \* limit and offset of a query, as the handler parses them
    Faults,     \* which parts may fail: a subset of {"mysql", "redis", "crash"}
    TTL,        \* life of a cached list, cfg.Cache.TasksTTL
    Deadline,   \* life of a request's context, 30 s in server.go
    RedisDelay, \* how long after that Redis may execute a command sent before
    MaxTime,    \* bound on the clock, for TLC
    None        \* no request, no assignee, no reply

ASSUME ClockAssumption ==
    TTL \in Nat \ {0} /\ Deadline \in Nat /\ RedisDelay \in Nat
ASSUME IdAssumption == TaskIds \subseteq Nat
ASSUME PageAssumption == Pages \subseteq [limit : Int, offset : Int]
ASSUME StatusAssumption == Statuses \subseteq RequestStatus

VARIABLES
    members,    \* memberships [team, user]
    tasks,      \* committed rows of table tasks
    ver,        \* ver[t]: value of key "team:ver:t", 0 when absent
    lists,      \* live cached lists [key, read, exp]
    now,        \* time
    pc,         \* pc[r]: the next call of request r; "late" when r is over and
                \* its SET may still be on its way to Redis
    arg,        \* arg[r]: what r asks for
    start,      \* start[r]: when the context of r began
    loc,        \* loc[r]: what r read so far
    reply       \* the answer the last step sent, None if it sent none

redis   == <<ver, lists>>
control == <<pc, arg, start, loc>>
vars    == <<members, tasks, redis, now, control, reply>>

----------------------------------------------------------------------------
(* Values.                                                                 *)

Task == [id : TaskIds, team : Teams, status : EnumTaskStatus,
         assignee : Assignees \cup {None}, created_by : Users, at : Nat]
Ask  == [op : {"create", "list"}, actor : Users, team : Teams,
         status : Statuses \cup TaskStatus, assignee : Assignees \cup {None},
         page : Pages \cup {None}]
ASSUME NoneAssumption == None \notin Ask

\* What one SELECT of TaskRepo.List returned: the rows its WHERE let through
\* and the page it cut from them.
Read  == [seen : SUBSET Task, page : Pages, at : Nat]
Key   == [team : Teams, ver : Nat, status : Statuses \cup TaskStatus,
          assignee : Assignees \cup {None}]
Entry == [key : Key, read : Read, exp : Nat]
Local == [ver : Nat, read : Read \cup {None}]
Answers == [status : {200, 201, 400}, ask : Ask, start : Nat,
          read : Read \cup {None}]

CreateSteps == {"assignee", "insert", "bump"}
ListSteps   == {"version", "lookup", "select", "version2", "store"}
Steps       == {"idle", "member", "late"} \cup CreateSteps \cup ListSteps

Fresh == [ver |-> 0, read |-> None]

IsMember(t, u) == [team |-> t, user |-> u] \in members

\* WHERE team_id = ? [AND status = ?] [AND assignee_id = ?]
Matches(t, a) ==
    /\ t.team = a.team
    /\ a.status # "" => t.status = a.status
    /\ a.assignee # None => t.assignee = a.assignee

\* LIMIT and OFFSET after TaskRepo.List corrected them.
EffectiveLimit(p)  == IF p.limit <= 0 \/ p.limit > 100 THEN 20 ELSE p.limit
EffectiveOffset(p) == IF p.offset < 0 THEN 0 ELSE p.offset

\* ORDER BY id DESC LIMIT ? OFFSET ?
Window(rows, p) ==
    {t \in rows :
        LET before == Cardinality({s \in rows : s.id > t.id}) IN
        /\ before >= EffectiveOffset(p)
        /\ before < EffectiveOffset(p) + EffectiveLimit(p)}

\* Mutated form of ListKey: the assignee is left out as the page is.
ListKeyNoAssignee(a, v) ==
    [team |-> a.team, ver |-> v, status |-> a.status, assignee |-> None]
\* Mutated form of ListKey: status and assignee exchanged in the arguments.
ListKeySwapped(a, v) ==
    [team |-> a.team, ver |-> v, status |-> a.assignee, assignee |-> a.status]
ListKey(a, v) ==
    [team |-> a.team, ver |-> v, status |-> a.status, assignee |-> a.assignee]

----------------------------------------------------------------------------
Init ==
    /\ members = {} /\ tasks = {} /\ lists = {} /\ now = 0
    /\ ver = [t \in Teams |-> 0]
    /\ pc = [r \in Requests |-> "idle"]
    /\ arg = [r \in Requests |-> None]
    /\ start = [r \in Requests |-> 0]
    /\ loc = [r \in Requests |-> Fresh]
    /\ reply = None

\* Mutated form of End: a context that is never cancelled.
Endless(r) == start[r] + Deadline + MaxTime
End(r)     == start[r] + Deadline

\* A call is made while the context of the request lives.  It may fail
\* because the other side fails, or because the context ended.
Live(r)       == now <= End(r)
MySQLFails(r) == "mysql" \in Faults \/ ~ Live(r)
RedisFails(r) == "redis" \in Faults \/ ~ Live(r)

\* OpenRedis leaves ContextTimeoutEnabled unset: go-redis looks at the context
\* before it sends a command and not while it waits for the answer, so Redis
\* may execute for a while after the end what was sent before it.
InTime(r) == now <= End(r) + RedisDelay

Goto(r, step) ==
    /\ pc' = [pc EXCEPT ![r] = step]
    /\ reply' = None
    /\ UNCHANGED <<arg, start>>

Reply(r, status, read) ==
    reply' = [status |-> status, ask |-> arg[r], start |-> start[r], read |-> read]

\* The slot is free again; what it held is forgotten.
Free(r) ==
    /\ pc' = [pc EXCEPT ![r] = "idle"]
    /\ arg' = [arg EXCEPT ![r] = None]
    /\ start' = [start EXCEPT ![r] = 0]
    /\ loc' = [loc EXCEPT ![r] = Fresh]

Answer(r, status, read) == Reply(r, status, read) /\ Free(r)

\* A membership committed by CreateTeam or Invite, see Membership.
Join(t, u) ==
    /\ ~ IsMember(t, u)
    /\ members' = members \cup {[team |-> t, user |-> u]}
    /\ reply' = None
    /\ UNCHANGED <<tasks, redis, now, control>>

Begin(r) ==
    /\ pc[r] = "idle"
    /\ pc' = [pc EXCEPT ![r] = "member"]
    /\ start' = [start EXCEPT ![r] = now]
    /\ reply' = None
    /\ UNCHANGED <<members, tasks, redis, now, loc>>

\* The body was decoded and Create filled in the default status; a status
\* outside the three constants is refused before any call.
BeginCreate(r, u, t, status, assignee) ==
    LET s == IF status = "" THEN StatusToDo ELSE status IN
    /\ s \in TaskStatus
    /\ arg' = [arg EXCEPT ![r] = [op |-> "create", actor |-> u, team |-> t, status |-> s,
                                  assignee |-> assignee, page |-> None]]
    /\ Begin(r)

\* The query's status is not validated.
BeginList(r, u, t, status, assignee, page) ==
    /\ arg' = [arg EXCEPT ![r] = [op |-> "list", actor |-> u, team |-> t, status |-> status,
                                  assignee |-> assignee, page |-> page]]
    /\ Begin(r)

\* Mutated form of CheckMember: the answer of IsMember is not looked at.
MembershipIgnored(r) ==
    LET a == arg[r] IN
    /\ pc[r] = "member"
    /\ Goto(r, IF a.op = "list" THEN "version"
               ELSE IF a.assignee # None THEN "assignee" ELSE "insert")
    /\ UNCHANGED <<members, tasks, redis, now, loc>>

\* IsMember(team, actor), the first call of both use cases.
CheckMember(r) ==
    LET a == arg[r] IN
    /\ pc[r] = "member"
    /\ \/ /\ Live(r)
          /\ IsMember(a.team, a.actor)
          /\ Goto(r, IF a.op = "list" THEN "version"
                     ELSE IF a.assignee # None THEN "assignee" ELSE "insert")
          /\ UNCHANGED loc
       \/ /\ ~ IsMember(a.team, a.actor) \/ MySQLFails(r)
          /\ Answer(r, 400, None)
    /\ UNCHANGED <<members, tasks, redis, now>>

----------------------------------------------------------------------------
(* Create.                                                                 *)

\* Mutated form of CheckAssignee: whoever is named is taken.
TakeAssignee(r) ==
    /\ pc[r] = "assignee"
    /\ Goto(r, "insert")
    /\ UNCHANGED <<members, tasks, redis, now, loc>>

\* IsMember(team, assignee).
CheckAssignee(r) ==
    LET a == arg[r] IN
    /\ pc[r] = "assignee"
    /\ \/ /\ Live(r)
          /\ IsMember(a.team, a.assignee)
          /\ Goto(r, "insert")
          /\ UNCHANGED loc
       \/ /\ ~ IsMember(a.team, a.assignee) \/ MySQLFails(r)
          /\ Answer(r, 400, None)
    /\ UNCHANGED <<members, tasks, redis, now>>

TaskRow(a, n) ==
    [id |-> n, team |-> a.team, status |-> a.status, assignee |-> a.assignee,
     created_by |-> a.actor, at |-> now]

\* Mutated form of InsertTask: an INSERT that gets no answer is sent again.
InsertTaskRetried(r, id) ==
    LET a == arg[r] IN
    /\ pc[r] = "insert"
    /\ a.status \in EnumTaskStatus
    /\ \A t \in tasks : t.id # id
    /\ tasks' = tasks \cup {TaskRow(a, id)}
    /\ \/ Live(r) /\ Goto(r, "bump")
       \/ MySQLFails(r) /\ Goto(r, "insert")
    /\ UNCHANGED <<members, redis, now, loc>>

\* INSERT INTO tasks: an autocommitted statement.  Its answer may be lost,
\* and a statement MySQL already has may be executed after the context ended.
InsertTask(r, id) ==
    LET a == arg[r] IN
    /\ pc[r] = "insert"
    /\ a.status \in EnumTaskStatus
    /\ \A t \in tasks : t.id # id
    /\ tasks' = tasks \cup {TaskRow(a, id)}
    /\ \/ Live(r) /\ Goto(r, "bump") /\ UNCHANGED loc
       \/ MySQLFails(r) /\ Answer(r, 400, None)
    /\ UNCHANGED <<members, redis, now>>

\* MySQL answers an error, to a status outside its ENUM in any case.
InsertTaskFails(r) ==
    /\ pc[r] = "insert"
    /\ arg[r].status \notin EnumTaskStatus \/ MySQLFails(r)
    /\ Answer(r, 400, None)
    /\ UNCHANGED <<members, tasks, redis, now>>

\* BumpTeamVersion stores "1", whatever the version was; its error is ignored.
BumpTeamVersion(r) ==
    /\ pc[r] = "bump"
    /\ \/ InTime(r) /\ ver' = [ver EXCEPT ![arg[r].team] = 1]
       \/ RedisFails(r) /\ UNCHANGED ver
    /\ Answer(r, 201, None)
    /\ UNCHANGED <<members, tasks, lists, now>>

----------------------------------------------------------------------------
(* List.                                                                   *)

\* GetTeamVersion: an absent key is set to "1" first.  That SET may be executed
\* although the call fails; one executed later still changes nothing, as an
\* absent key is read as "1" too.
VersionOf(t) == IF ver[t] = 0 THEN 1 ELSE ver[t]

KeepVersion(t) == ver' = [ver EXCEPT ![t] = VersionOf(t)]

\* After a failure, and after an answer that comes when the context has ended,
\* the next call is to MySQL: a GetTasks that is not sent finds nothing.
GetTeamVersion(r) ==
    LET t == arg[r].team IN
    /\ pc[r] = "version"
    /\ \/ /\ Live(r)
          /\ KeepVersion(t)
          /\ loc' = [loc EXCEPT ![r].ver = VersionOf(t)]
          /\ Goto(r, "lookup")
       \/ /\ RedisFails(r)
          /\ UNCHANGED ver \/ (InTime(r) /\ KeepVersion(t))
          /\ Goto(r, "select")
          /\ UNCHANGED loc
    /\ UNCHANGED <<members, tasks, lists, now>>

\* GetTasks: a hit is answered as it is, everything else goes to MySQL.
GetTasks(r) ==
    LET hits == {e \in lists : e.key = ListKey(arg[r], loc[r].ver)} IN
    /\ pc[r] = "lookup"
    /\ \/ /\ InTime(r)
          /\ \E e \in hits : Answer(r, 200, e.read)
       \/ /\ hits = {} \/ RedisFails(r)
          /\ Goto(r, "select")
          /\ UNCHANGED loc
    /\ UNCHANGED <<members, tasks, redis, now>>

SelectTasks(r) ==
    LET a == arg[r] IN
    /\ pc[r] = "select"
    /\ \/ /\ Live(r)
          /\ loc' = [loc EXCEPT ![r].read =
                         [seen |-> {t \in tasks : Matches(t, a)},
                          page |-> a.page, at |-> now]]
          /\ Goto(r, "version2")
       \/ MySQLFails(r) /\ Answer(r, 400, None)
    /\ UNCHANGED <<members, tasks, redis, now>>

\* Mutated form of GetTeamVersionAgain: its error is returned, not ignored.
VersionErrorReturned(r) ==
    /\ pc[r] = "version2"
    /\ RedisFails(r)
    /\ Answer(r, 400, None)
    /\ UNCHANGED <<members, tasks, redis, now>>

\* The version is read a second time for the key of SetTasks, which is not
\* sent when the context has ended meanwhile.
GetTeamVersionAgain(r) ==
    LET t == arg[r].team IN
    /\ pc[r] = "version2"
    /\ \/ /\ Live(r)
          /\ KeepVersion(t)
          /\ loc' = [loc EXCEPT ![r].ver = VersionOf(t)]
          /\ Goto(r, "store")
       \/ /\ RedisFails(r)
          /\ UNCHANGED ver \/ (InTime(r) /\ KeepVersion(t))
          /\ Answer(r, 200, loc[r].read)
    /\ UNCHANGED <<members, tasks, lists, now>>

\* SET key value EX ttl replaces what the key held; the TTL starts when Redis
\* executes the command.
Store(r) ==
    LET k == ListKey(arg[r], loc[r].ver) IN
    /\ InTime(r)
    /\ lists' = {e \in lists : e.key # k}
                \cup {[key |-> k, read |-> loc[r].read, exp |-> now + TTL]}

\* SetTasks.  Its error is ignored; a SET that got no answer may be on its way.
SetTasks(r) ==
    /\ pc[r] = "store"
    /\ \/ Store(r) /\ Answer(r, 200, loc[r].read)
       \/ /\ RedisFails(r)
          /\ Reply(r, 200, loc[r].read)
          /\ pc' = [pc EXCEPT ![r] = "late"]
          /\ UNCHANGED <<lists, arg, start, loc>>
    /\ UNCHANGED <<members, tasks, ver, now>>

\* Redis executes the SET after all, twice when go-redis sent it twice.
LateSet(r) ==
    /\ pc[r] = "late"
    /\ Store(r)
    /\ reply' = None
    /\ UNCHANGED <<members, tasks, ver, now, control>>

\* Or never, or never again.
Lost(r) ==
    /\ pc[r] = "late"
    /\ Free(r)
    /\ reply' = None
    /\ UNCHANGED <<members, tasks, redis, now>>

----------------------------------------------------------------------------
(* The surroundings.                                                       *)

\* Time passes and Redis drops the lists whose time has come.
Tick ==
    /\ now < MaxTime
    /\ now' = now + 1
    /\ lists' = {e \in lists : e.exp > now + 1}
    /\ reply' = None
    /\ UNCHANGED <<members, tasks, ver, control>>

\* Update bumps the version after its commit, see TaskEdit.  It changed no
\* row: MySQL refuses the text of every UPDATE, only a PUT that changes
\* nothing commits.
BumpByUpdate(t) ==
    /\ \E k \in tasks : k.team = t
    /\ ver' = [ver EXCEPT ![t] = 1]
    /\ reply' = None
    /\ UNCHANGED <<members, tasks, lists, now, control>>

\* Redis restarts empty.
RedisRestart ==
    /\ "redis" \in Faults
    /\ ver' = [t \in Teams |-> 0]
    /\ lists' = {}
    /\ reply' = None
    /\ UNCHANGED <<members, tasks, now, control>>

\* The server is killed.  MySQL and Redis keep what they have, and Redis may
\* still get a SET that was sent.
Crash ==
    LET left == {r \in Requests : pc[r] \in {"store", "late"}} IN
    /\ "crash" \in Faults
    /\ \E r \in Requests : pc[r] # "idle"
    /\ pc' = [r \in Requests |-> IF r \in left THEN "late" ELSE "idle"]
    /\ arg' = [r \in Requests |-> IF r \in left THEN arg[r] ELSE None]
    /\ start' = [r \in Requests |-> IF r \in left THEN start[r] ELSE 0]
    /\ loc' = [r \in Requests |-> IF r \in left THEN loc[r] ELSE Fresh]
    /\ reply' = None
    /\ UNCHANGED <<members, tasks, redis, now>>

CreateStep(r) ==
    \/ CheckAssignee(r)
    \/ \E id \in TaskIds : InsertTask(r, id)
    \/ InsertTaskFails(r) \/ BumpTeamVersion(r)

ListStep(r) ==
    \/ GetTeamVersion(r) \/ GetTasks(r) \/ SelectTasks(r)
    \/ GetTeamVersionAgain(r) \/ SetTasks(r) \/ LateSet(r) \/ Lost(r)

BeginStep(r) ==
    \E u \in Users, t \in Teams, s \in Statuses, assignee \in Assignees :
        \/ BeginCreate(r, u, t, s, assignee)
        \/ \E p \in Pages : BeginList(r, u, t, s, assignee, p)

Next ==
    \/ \E t \in Teams, u \in Users : Join(t, u)
    \/ \E r \in Requests :
           BeginStep(r) \/ CheckMember(r) \/ CreateStep(r) \/ ListStep(r)
    \/ \E t \in Teams : BumpByUpdate(t)
    \/ Tick \/ RedisRestart \/ Crash

Spec == Init /\ [][Next]_vars

----------------------------------------------------------------------------
(* Properties.                                                             *)

TypeOK ==
    /\ members \subseteq [team : Teams, user : Users]
    /\ tasks \subseteq Task
    /\ ver \in [Teams -> Nat]
    /\ lists \subseteq Entry
    /\ now \in Nat
    /\ pc \in [Requests -> Steps]
    /\ arg \in [Requests -> Ask \cup {None}]
    /\ start \in [Requests -> Nat]
    /\ loc \in [Requests -> Local]
    /\ reply \in Answers \cup {None}

\* However creates, lists, restarts and expiries interleave, a list that is
\* served comes from a SELECT that saw every matching task committed at least
\* TTL + Deadline + RedisDelay before the request came: the TTL runs from the
\* SET, which Redis may execute a whole request and a delay after the SELECT
\* whose rows it stores, be the request answered or the server dead by then.
BoundedStaleness ==
    reply # None /\ reply.read # None =>
        \A t \in tasks :
            Matches(t, reply.ask) /\ t.at + TTL + Deadline + RedisDelay <= reply.start
            => t \in reply.read.seen

\* A cached list is never served to a query it does not answer: the rows are
\* of the team, the status and the assignee the request named, and tasks that
\* exist.
ServedRowsMatch ==
    reply # None /\ reply.read # None =>
        /\ reply.ask.op = "list"
        /\ reply.read.seen \subseteq {t \in tasks : Matches(t, reply.ask)}

\* Only members are served a list.
ServedToMembers ==
    reply # None /\ reply.read # None => IsMember(reply.ask.team, reply.ask.actor)

\* Whatever the interleaving of joins and creates, who creates a task and who
\* is assigned to it belong to its team: the integrity report of invalid
\* assignees is empty.
TasksOfMembers ==
    \A t \in tasks :
        /\ IsMember(t.team, t.created_by)
        /\ t.assignee # None => IsMember(t.team, t.assignee)

\* The cache is optional: a list that got past the membership check is
\* refused only because MySQL failed or time ran out, never because of Redis.
\* (For runs without MySQL faults.)
RedisNeverFailsAList ==
    reply # None /\ reply.ask.op = "list" /\ reply.status # 200 =>
        \/ ~ IsMember(reply.ask.team, reply.ask.actor)
        \/ now > reply.start + Deadline
        \/ "mysql" \in Faults

\* A list is the page the query asked for.  ListKey has no limit and offset.
PageIsServed ==
    reply # None /\ reply.read # None =>
        Window(reply.read.seen, reply.read.page)
            = Window(reply.read.seen, reply.ask.page)

\* With its separate statements, its cache and its faults the service does what
\* TaskBoard does: a create puts one row on the board however its calls fail,
\* its checks still hold at the INSERT, 201 is said of a row that is there, and
\* every list is one look at the board, at most TTL + Deadline + RedisDelay old.
Over(r)  == pc[r] \in {"idle", "late"}
Asked    == [r \in Requests |-> IF Over(r) THEN None ELSE arg[r]]
Since    == [r \in Requests |-> IF Over(r) THEN 0 ELSE start[r]]
Inserted == [r \in Requests |-> pc[r] = "bump"]

Board == INSTANCE TaskBoard WITH
    members <- members, tasks <- tasks, now <- now, asked <- Asked, since <- Since,
    inserted <- Inserted, reply <- reply,
    Staleness <- TTL + Deadline + RedisDelay
ImplementsBoard == Board!Spec
=============================================================================
