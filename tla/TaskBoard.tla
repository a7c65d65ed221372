------------------------------ MODULE TaskBoard ------------------------------
(***************************************************************************)
(* What POST /tasks and GET /tasks promise, without statements, cache and  *)
(* faults.  A request that asks for a task puts at most one row on the     *)
(* board, and is told 201 only for a row that is there; 400 says nothing,  *)
(* the row may be there all the same.  A request for a list gets what one  *)
(* look at the board showed, a look that may be a bounded time old.        *)
(***************************************************************************)
EXTENDS Schema, Integers

CONSTANTS
    Users, Teams,
    Assignees,   \* whom a request may name as assignee
    TaskIds,     \* ids that may be given to tasks
    Requests,    \* slots for requests
    Pages,       \* pages a list may be cut to
    Staleness,   \* how much older than its request a list may be
    None         \* no request, no assignee, no reply

VARIABLES
    members,     \* memberships [team, user]
    tasks,       \* the rows
    now,         \* time
    asked,       \* asked[r]: what request r asks for, None when it is over
    since,       \* since[r]: when r came
    inserted,    \* inserted[r]: r knows that its row is there
    reply        \* the answer the last step gave, None if it gave none

vars == <<members, tasks, now, asked, since, inserted, reply>>

Ask == [op : {"create", "list"}, actor : Users, team : Teams,
        status : RequestStatus, assignee : Assignees \cup {None},
        page : Pages \cup {None}]

IsMember(t, u) == [team |-> t, user |-> u] \in members

\* The rows the filter of a lets through.
Matching(a) ==
    {t \in tasks :
        /\ t.team = a.team
        /\ a.status # "" => t.status = a.status
        /\ a.assignee # None => t.assignee = a.assignee}

Init ==
    /\ members = {} /\ tasks = {} /\ now = 0
    /\ asked = [r \in Requests |-> None]
    /\ since = [r \in Requests |-> 0]
    /\ inserted = [r \in Requests |-> FALSE]
    /\ reply = None

Join(t, u) ==
    /\ members' = members \cup {[team |-> t, user |-> u]}
    /\ reply' = None
    /\ UNCHANGED <<tasks, now, asked, since, inserted>>

Come(r, a) ==
    /\ asked[r] = None
    /\ asked' = [asked EXCEPT ![r] = a]
    /\ since' = [since EXCEPT ![r] = now]
    /\ reply' = None
    /\ UNCHANGED <<members, tasks, now, inserted>>

Answer(r, status, read) ==
    /\ reply' = [status |-> status, ask |-> asked[r], start |-> since[r],
                 read |-> read]
    /\ asked' = [asked EXCEPT ![r] = None]
    /\ since' = [since EXCEPT ![r] = 0]
    /\ inserted' = [inserted EXCEPT ![r] = FALSE]

\* A member puts a row on the board, for nobody or for a member, and learns
\* of it or is told 400.
Insert(r, id) ==
    LET a == asked[r] IN
    /\ a # None
    /\ a.op = "create"
    /\ ~ inserted[r]
    /\ IsMember(a.team, a.actor)
    /\ a.assignee # None => IsMember(a.team, a.assignee)
    /\ a.status \in EnumTaskStatus
    /\ \A t \in tasks : t.id # id
    /\ tasks' = tasks \cup
           {[id |-> id, team |-> a.team, status |-> a.status,
             assignee |-> a.assignee, created_by |-> a.actor, at |-> now]}
    /\ \/ /\ inserted' = [inserted EXCEPT ![r] = TRUE]
          /\ reply' = None
          /\ UNCHANGED <<asked, since>>
       \/ Answer(r, 400, None)
    /\ UNCHANGED <<members, now>>

Created(r) ==
    /\ inserted[r]
    /\ Answer(r, 201, None)
    /\ UNCHANGED <<members, tasks, now>>

\* A member gets rows that are on the board and that the filter lets through,
\* all of those that were there before time `at` among them.  The page they
\* are cut to is any.
Serve(r) ==
    LET a == asked[r] IN
    /\ a # None
    /\ a.op = "list"
    /\ IsMember(a.team, a.actor)
    /\ \E at \in 0..now, seen \in SUBSET Matching(a), p \in Pages :
           /\ since[r] < at + Staleness
           /\ \A t \in Matching(a) : t.at < at => t \in seen
           /\ Answer(r, 200, [seen |-> seen, page |-> p, at |-> at])
    /\ UNCHANGED <<members, tasks, now>>

\* Not once the row is known to be there.
Refuse(r) ==
    /\ asked[r] # None
    /\ ~ inserted[r]
    /\ Answer(r, 400, None)
    /\ UNCHANGED <<members, tasks, now>>

Tick ==
    /\ now' = now + 1
    /\ reply' = None
    /\ UNCHANGED <<members, tasks, asked, since, inserted>>

\* All requests are forgotten, no row is.
Crash ==
    /\ asked' = [r \in Requests |-> None]
    /\ since' = [r \in Requests |-> 0]
    /\ inserted' = [r \in Requests |-> FALSE]
    /\ reply' = None
    /\ UNCHANGED <<members, tasks, now>>

\* The requests work; nobody sees anything of it.
Work ==
    /\ reply' = None
    /\ UNCHANGED <<members, tasks, now, asked, since, inserted>>

Next ==
    \/ Work \/ Tick \/ Crash
    \/ \E t \in Teams, u \in Users : Join(t, u)
    \/ \E r \in Requests :
           \/ Created(r) \/ Serve(r) \/ Refuse(r)
           \/ \E id \in TaskIds : Insert(r, id)
           \/ \E a \in Ask : Come(r, a)

Spec == Init /\ [][Next]_vars
=============================================================================
