------------------------------ MODULE Reports ------------------------------
(***************************************************************************)
(* What the queries over all tables answer: the three reports of           *)
(* ReportsRepo and ListTeamsByUser.  Each is one SELECT, so it sees one    *)
(* state; the tables grow and change between two of them, and between two  *)
(* pages of the integrity report.                                          *)
(*                                                                         *)
(* Ids are given in order: team t is the t-th, task k the k-th.  An answer *)
(* is the set of its rows, or a function of what they are grouped by; an   *)
(* ORDER BY counts where LIMIT or ROW_NUMBER cut by it.                    *)
(* TIMESTAMPs are ages, in days, cut off once a report cannot tell them    *)
(* apart.                                                                  *)
(***************************************************************************)
EXTENDS Integers, Sequences, FiniteSets

CONSTANTS
    Users,         \* a set of ids: numbers
    None,          \* NULL
    Week, Month,   \* INTERVAL 7 DAY and INTERVAL 1 MONTH
    Top,           \* WHERE rn <= 3
    MaxLimit,      \* 200
    DefaultLimit,  \* 50
    Limits,        \* the limit a client may ask for
    Rows,          \* the tasks that may be inserted
    MaxTeams, MaxTasks,  \* bounds for TLC
    MaxRead              \* and on the tasks while somebody reads the report

\* What a client that reads page after page remembers.
Reader == [limit : Limits, offset : Nat, seen : SUBSET Nat, standing : SUBSET Nat, gone : Nat]

ASSUME UsersAssumption == Users \subseteq Nat /\ None \notin Users \cup Reader
ASSUME RowsAssumption ==
    Rows \subseteq [team : Nat \ {0}, by : Users, assignee : Users \cup {None}, done : BOOLEAN]
ASSUME WindowAssumption == Week \in Nat /\ Month \in Nat /\ Week <= Month
ASSUME LimitAssumption ==
    /\ Top \in Nat \ {0} /\ MaxLimit \in Nat /\ DefaultLimit \in 1 .. MaxLimit
    /\ Limits \subseteq Int /\ MaxTeams \in Nat /\ MaxTasks \in Nat /\ MaxRead \in Nat

VARIABLES
    teams,    \* how many there are
    members,  \* pairs of a team and a user
    tasks,    \* a sequence
    reader    \* a client that reads the integrity report page by page

vars == <<teams, members, tasks, reader>>

Old  == Month + 1
Age  == 0 .. Old
Task == [team : Nat \ {0}, by : Users, assignee : Users \cup {None}, done : BOOLEAN,
         created : Age, updated : Age]

MembersOf(t) == {u \in Users : <<t, u>> \in members}
TasksOf(t)   == {k \in DOMAIN tasks : tasks[k].team = t}

----------------------------------------------------------------------------
(* The queries.                                                            *)

\* ListTeamsByUser.
ListTeams(u) == {t \in 1 .. teams : u \in MembersOf(t)}

\* teams LEFT JOIN team_members LEFT JOIN tasks, the rows of one group.
OrNull(S) == IF S = {} THEN {None} ELSE S
Joined(t) == OrNull(MembersOf(t)) \X OrNull(TasksOf(t))

DoneLately(k) == k # None /\ tasks[k].done /\ tasks[k].updated <= Week

\* Mutated form of MembersCount: COUNT(tm.user_id), without DISTINCT.
MembersCountAll(t) == Cardinality({j \in Joined(t) : j[1] # None})
\* COUNT(DISTINCT tm.user_id) and SUM(CASE ...) over the joined rows.
MembersCount(t) == Cardinality({j[1] : j \in Joined(t)} \ {None})
DoneCount(t)    == Cardinality({j \in Joined(t) : DoneLately(j[2])})

TeamStats ==
    [t \in 1 .. teams |-> [members |-> MembersCount(t), done |-> DoneCount(t)]]

\* per_user, of one team.
CreatedBy(t, u) == {k \in TasksOf(t) : tasks[k].by = u /\ tasks[k].created <= Month}
PerUser(t) ==
    {row \in [user : Users, created : 1 .. Len(tasks)] :
        row.created = Cardinality(CreatedBy(t, row.user))}

\* Mutated form of Before: ORDER BY user_id, tasks_created.
BeforeByUser(a, b) ==
    a.user < b.user \/ (a.user = b.user /\ a.created > b.created)
\* ROW_NUMBER() OVER (... ORDER BY tasks_created DESC, user_id ASC).
Before(a, b) ==
    a.created > b.created \/ (a.created = b.created /\ a.user < b.user)
Rank(t, row) == Cardinality({a \in PerUser(t) : a = row \/ Before(a, row)})
Ranked(t) ==
    {[user |-> row.user, created |-> row.created, rank |-> Rank(t, row)] : row \in PerUser(t)}

TopCreatorsLastMonth ==
    [t \in 1 .. teams |-> {row \in Ranked(t) : row.rank <= Top}]

\* The LEFT JOIN on the assignee finds no member.
Invalid ==
    {k \in DOMAIN tasks : /\ tasks[k].assignee # None
                          /\ tasks[k].assignee \notin MembersOf(tasks[k].team)}

EffectiveLimit(limit)   == IF limit <= 0 \/ limit > MaxLimit THEN DefaultLimit ELSE limit
EffectiveOffset(offset) == IF offset <= 0 THEN 0 ELSE offset

\* LIMIT and OFFSET on what is invalid now, newest first.
Place(k) == Cardinality({j \in Invalid : j >= k})
Window(limit, offset) == {k \in Invalid : Place(k) \in (offset + 1) .. (offset + limit)}

\* Mutated form of TaskWithInvalidAssignee: the two arguments change places.
InvalidAssigneesSwapped(limit, offset) ==
    Window(EffectiveOffset(offset), EffectiveLimit(limit))
TaskWithInvalidAssignee(limit, offset) ==
    Window(EffectiveLimit(limit), EffectiveOffset(offset))

----------------------------------------------------------------------------
(* The tables change.                                                      *)

Init ==
    /\ teams = 0 /\ members = {} /\ tasks = <<>>
    /\ reader = None

\* The reader's history: what was in the list when it began and has been
\* since, and how many rows have left the list.
Follow ==
    reader' = IF reader = None THEN None
              ELSE [reader EXCEPT !.standing = @ \cap Invalid',
                                  !.gone = @ + Cardinality(Invalid \ Invalid')]

\* CreateTeamWithOwner commits both rows.
CreateTeam(u) ==
    /\ teams < MaxTeams
    /\ teams' = teams + 1
    /\ members' = members \cup {<<teams + 1, u>>}
    /\ UNCHANGED tasks /\ Follow

AddMember(t, u) ==
    /\ u \notin MembersOf(t)
    /\ members' = members \cup {<<t, u>>}
    /\ UNCHANGED <<teams, tasks>> /\ Follow

\* Mutated form of TaskRow: creator and assignee change places.
TaskRowSwapped(row) ==
    [team |-> row.team, by |-> row.assignee, assignee |-> row.by, done |-> row.done,
     created |-> 0, updated |-> 0]
\* Both TIMESTAMPs have the default.
TaskRow(row) ==
    [team |-> row.team, by |-> row.by, assignee |-> row.assignee, done |-> row.done,
     created |-> 0, updated |-> 0]

\* INSERT INTO tasks.  The program gives a task only to a member; the report
\* is there for rows that somebody else has written.
InsertTask(row) ==
    /\ row.team <= teams
    /\ Len(tasks) < IF reader = None THEN MaxTasks ELSE MaxRead
    /\ tasks' = Append(tasks, TaskRow(row))
    /\ UNCHANGED <<teams, members>> /\ Follow

\* A PUT commits.  Whatever it changes, the title only as well, ON UPDATE
\* renews updated_at; an assignee it sets is a member.
UpdateTask(k, assignee, done) ==
    /\ assignee \in MembersOf(tasks[k].team) \cup {None, tasks[k].assignee}
    /\ tasks' = [tasks EXCEPT ![k].assignee = assignee, ![k].done = done, ![k].updated = 0]
    /\ UNCHANGED <<teams, members>> /\ Follow

Older(a) == IF a = Old THEN Old ELSE a + 1
Day ==
    /\ tasks' = [k \in DOMAIN tasks |->
           [tasks[k] EXCEPT !.created = Older(@), !.updated = Older(@)]]
    /\ UNCHANGED <<teams, members>> /\ Follow

----------------------------------------------------------------------------
(* IntegrityInvalidAssignees, asked again and again by one client.         *)

Open(limit) ==
    /\ reader = None /\ Len(tasks) <= MaxRead
    /\ reader' = [limit |-> limit, offset |-> 0, seen |-> {}, standing |-> Invalid, gone |-> 0]
    /\ UNCHANGED <<teams, members, tasks>>

\* The client moves on by the rows it got, until it gets none.
NextPage ==
    /\ reader # None
    /\ LET rows == TaskWithInvalidAssignee(reader.limit, reader.offset) IN
       reader' = IF rows = {} THEN None
                 ELSE [reader EXCEPT !.offset = @ + Cardinality(rows), !.seen = @ \cup rows]
    /\ UNCHANGED <<teams, members, tasks>>

Next ==
    \/ \E u \in Users :
           \/ CreateTeam(u)
           \/ \E t \in 1 .. teams : AddMember(t, u)
    \/ \E row \in Rows : InsertTask(row)
    \/ \E k \in DOMAIN tasks, assignee \in Users \cup {None}, done \in BOOLEAN :
           UpdateTask(k, assignee, done)
    \/ \E limit \in Limits : Open(limit)
    \/ NextPage \/ Day

Spec == Init /\ [][Next]_vars

----------------------------------------------------------------------------
(* Properties.                                                             *)

TypeOK ==
    /\ teams \in Nat
    /\ members \subseteq (1 .. teams) \X Users
    /\ tasks \in Seq(Task)
    /\ \A k \in DOMAIN tasks : tasks[k].team <= teams /\ tasks[k].updated <= tasks[k].created
    /\ reader \in Reader \cup {None}
    /\ reader # None => reader.seen \cup reader.standing \subseteq DOMAIN tasks

\* What team-stats has to count.
Done(t) == Cardinality({k \in TasksOf(t) : DoneLately(k)})

\* However many tasks the join pairs the members with, team-stats has as many
\* members in a team as there are users who find it in GET /teams, and done
\* tasks when there are any; how many is right while the owner is alone.
StatsAgree ==
    \A t \in DOMAIN TeamStats :
        LET row == TeamStats[t] IN
        /\ row.members = Cardinality({u \in Users : t \in ListTeams(u)})
        /\ row.done = 0 <=> Done(t) = 0
        /\ row.members = 1 => row.done = Done(t)

\* Nobody who is left out of top-creators has created more than somebody who
\* is in; ranks of a team are 1, 2, ... without ties or gaps, better ranks for
\* who created more, and no place is empty while there is a creator for it.
RanksFair ==
    \A t \in 1 .. teams :
        LET rows     == TopCreatorsLastMonth[t]
            creators == {u \in Users : CreatedBy(t, u) # {}}
            shown    == {row.user : row \in rows}
            count(u) == Cardinality(CreatedBy(t, u)) IN
        /\ shown \subseteq creators
        /\ \A u \in shown, v \in creators \ shown : count(u) >= count(v)
        /\ \A a, b \in rows :
               /\ a.created = count(a.user)
               /\ a.rank < b.rank => a.created >= b.created
               /\ a.user = b.user \/ a.rank = b.rank => a = b
        /\ {row.rank : row \in rows} = 1 .. Cardinality(rows)
        /\ Cardinality(rows) =
               IF Cardinality(creators) < Top THEN Cardinality(creators) ELSE Top

\* A client that pages through the integrity report while rows come and go,
\* whatever limit it asks for, ends without having missed more of the rows
\* that were there all the time than rows have left the list meanwhile.
PagesMissFew ==
    [][reader # None /\ reader' = None
          => Cardinality(reader.standing \ reader.seen) <= reader.gone]_vars

\* The test of the queries counts 3 done tasks in a team of three members.
DoneCountIsRight ==
    \A t \in DOMAIN TeamStats : TeamStats[t].done = Done(t)
=============================================================================
