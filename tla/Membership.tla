----------------------------- MODULE Membership -----------------------------
(***************************************************************************)
(* Teams, memberships and invitations: TeamHandler, TeamUseCase, TeamRepo  *)
(* and the calls they make to MySQL and to the email service.              *)
(*                                                                         *)
(* Every HTTP request in flight is a process.  One action is one call that *)
(* leaves the process (a SQL statement, a commit, an email POST), so       *)
(* requests interleave between their calls as the goroutines of net/http   *)
(* do.  A call may fail, or succeed while its answer is lost, and the      *)
(* server may be killed between any two calls.                             *)
(***************************************************************************)
EXTENDS Schema, Naturals

CONSTANTS
    Users,      \* values of users.id a request may name
    Teams,      \* values AUTO_INCREMENT may give to teams.id
    Requests,   \* slots for HTTP requests in flight at the same time
    AskedRoles, \* roles a request may ask for, "" when it names none
    None        \* no request, no reply, no team yet

ASSUME RolesAssumption == AskedRoles \subseteq Roles \cup {""}

ASSUME NoneAssumption ==
    /\ None \notin Teams
    /\ None \notin [actor : Users, team : Teams \cup {None}, user : Users,
                    role : Roles \cup {""}]

VARIABLES
    users,          \* committed ids of table users
    teams,          \* committed rows of table teams
    team_members,   \* committed rows of table team_members
    issued,         \* values AUTO_INCREMENT already gave to teams.id
    tx,             \* tx[r]: rows written by r's open transaction
    pc,             \* pc[r]: the next call of request r
    arg,            \* arg[r]: the membership r asks for, and who asks
    reply,          \* the answer the last step sent, None if it sent none
    wire,           \* wire[i]: POSTs of invitation i not yet received
    posted,         \* posted[i]: POSTs of invitation i ever made
    delivered       \* delivered[i]: invitations the email service took

db   == <<users, teams, team_members>>
mail == <<wire, posted, delivered>>
vars == <<users, teams, team_members, issued, tx, pc, arg, reply, wire, posted,
          delivered>>

----------------------------------------------------------------------------
(* Values.                                                                 *)

TeamRow     == [id : Teams, created_by : Users]
MemberRow   == [team_id : Teams, user_id : Users, role : Roles]
Transaction == [teams : SUBSET TeamRow, team_members : SUBSET MemberRow]
Ask         == [actor : Users, team : Teams \cup {None}, user : Users,
                role : Roles \cup {""}]
Reply       == [status : {200, 201, 400, 409}, email_sent : BOOLEAN,
                ask : Ask \cup {None}]
Invitation  == [team_id : Teams, user_id : Users, invite_by : Users]

CreateSteps == {"insert_team", "insert_owner", "commit"}
InviteSteps == {"role", "add", "post", "wait"}
Steps       == CreateSteps \cup InviteSteps \cup {"idle"}

NoRows == [teams |-> {}, team_members |-> {}]

\* Mutated form of MemberRowOf: the two ids swapped in the argument list.
MemberRowSwapped(a) ==
    [team_id |-> a.user, user_id |-> a.team, role |-> a.role]
MemberRowOf(a) == [team_id |-> a.team, user_id |-> a.user, role |-> a.role]
\* Mutated form of InvitationOf: inviter and invited exchanged.
InvitationReversed(a) ==
    [team_id |-> a.team, user_id |-> a.actor, invite_by |-> a.user]
InvitationOf(a) ==
    [team_id |-> a.team, user_id |-> a.user, invite_by |-> a.actor]

\* SELECT ... FROM team_members WHERE team_id = t AND user_id = u.
HasRole(t, u, roles) ==
    \E role \in roles :
        [team_id |-> t, user_id |-> u, role |-> role] \in team_members

----------------------------------------------------------------------------
Init ==
    /\ users = {} /\ teams = {} /\ team_members = {} /\ issued = {}
    /\ tx = [r \in Requests |-> NoRows]
    /\ pc = [r \in Requests |-> "idle"]
    /\ arg = [r \in Requests |-> None]
    /\ reply = None
    /\ wire = [i \in Invitation |-> 0]
    /\ posted = [i \in Invitation |-> 0]
    /\ delivered = [i \in Invitation |-> 0]

\* The handler writes its answer and the deferred Rollback runs, which does
\* nothing after a Commit.  The reply remembers what was asked.
Answer(r, status, sent) ==
    /\ reply' = [status |-> status, email_sent |-> sent, ask |-> arg[r]]
    /\ pc' = [pc EXCEPT ![r] = "idle"]
    /\ arg' = [arg EXCEPT ![r] = None]
    /\ tx' = [tx EXCEPT ![r] = NoRows]

\* No answer yet: the request goes on to its next call.
Goto(r, step) ==
    /\ pc' = [pc EXCEPT ![r] = step]
    /\ reply' = None

\* A new row in table users.
Register(u) ==
    /\ u \notin users
    /\ users' = users \cup {u}
    /\ reply' = None
    /\ UNCHANGED <<teams, team_members, issued, tx, pc, arg, mail>>

\* The handler refuses the body, the id in the path or the name before it
\* calls anything.
Refuse(r) ==
    /\ pc[r] = "idle"
    /\ Answer(r, 400, FALSE)
    /\ UNCHANGED <<db, issued, mail>>

----------------------------------------------------------------------------
(* POST /teams: CreateTeamWithOwner, two INSERTs in one transaction.       *)

BeginCreateTeam(r, u) ==
    /\ pc[r] = "idle"
    /\ u \in users
    /\ Goto(r, "insert_team")
    /\ arg' = [arg EXCEPT ![r] = [actor |-> u, team |-> None,
                                  user |-> u, role |-> RoleOwner]]
    /\ UNCHANGED <<db, issued, tx, mail>>

\* Mutated form of InsertTeam: the INSERT runs on r.db instead of tx.
InsertTeamOutsideTx(r, t) ==
    /\ pc[r] = "insert_team"
    /\ t \notin issued
    /\ issued' = issued \cup {t}
    /\ teams' = teams \cup {[id |-> t, created_by |-> arg[r].actor]}
    /\ arg' = [arg EXCEPT ![r].team = t]
    /\ Goto(r, "insert_owner")
    /\ UNCHANGED <<users, team_members, tx, mail>>

InsertTeam(r, t) ==
    /\ pc[r] = "insert_team"
    /\ t \notin issued
    /\ issued' = issued \cup {t}
    /\ tx' = [tx EXCEPT ![r].teams =
                  @ \cup {[id |-> t, created_by |-> arg[r].actor]}]
    /\ arg' = [arg EXCEPT ![r].team = t]
    /\ Goto(r, "insert_owner")
    /\ UNCHANGED <<db, mail>>

InsertOwner(r) ==
    /\ pc[r] = "insert_owner"
    /\ tx' = [tx EXCEPT ![r].team_members = @ \cup {MemberRowOf(arg[r])}]
    /\ Goto(r, "commit")
    /\ UNCHANGED <<db, issued, arg, mail>>

\* The rows become visible together; the answer of COMMIT may be lost.
CommitTeam(r) ==
    /\ pc[r] = "commit"
    /\ teams' = teams \cup tx[r].teams
    /\ team_members' = team_members \cup tx[r].team_members
    /\ \/ Answer(r, 201, FALSE)
       \/ Answer(r, 400, FALSE)
    /\ UNCHANGED <<users, issued, mail>>

\* A statement or the commit fails: the handler returns, the rows vanish.
AbortCreate(r) ==
    /\ pc[r] \in CreateSteps
    /\ Answer(r, 400, FALSE)
    /\ UNCHANGED <<db, issued, mail>>

----------------------------------------------------------------------------
(* POST /teams/{id}/invite.                                                *)

BeginInvite(r, a, t, u, role) ==
    /\ pc[r] = "idle"
    /\ a \in users
    /\ Goto(r, "role")
    /\ arg' = [arg EXCEPT ![r] =
                   [actor |-> a, team |-> t, user |-> u, role |-> role]]
    /\ UNCHANGED <<db, issued, tx, mail>>

\* Mutated form of InvitableRoles: every role of the ENUM passes.
AnyRole == Roles
InvitableRoles == {RoleAdmin, RoleMember}

RequestedRole(role) == IF role = "" THEN RoleMember ELSE role

\* GetUserRole and the checks on what it returned.
CheckInviter(r) ==
    LET a == arg[r] IN
    /\ pc[r] = "role"
    /\ \/ /\ HasRole(a.team, a.actor, {RoleOwner, RoleAdmin})
          /\ RequestedRole(a.role) \in InvitableRoles
          /\ Goto(r, "add")
          /\ arg' = [arg EXCEPT ![r].role = RequestedRole(@)]
          /\ UNCHANGED tx
       \/ /\ ~ HasRole(a.team, a.actor, Roles)
          /\ Answer(r, 400, FALSE)
       \/ /\ \/ HasRole(a.team, a.actor, {RoleMember})
             \/ /\ HasRole(a.team, a.actor, {RoleOwner, RoleAdmin})
                /\ RequestedRole(a.role) \notin InvitableRoles
          /\ Answer(r, 409, FALSE)
    /\ UNCHANGED <<db, issued, mail>>

\* Any error but ErrNoRows is dropped: the inviter appears to have role "".
InviterLookupFails(r) ==
    /\ pc[r] = "role"
    /\ Answer(r, 409, FALSE)
    /\ UNCHANGED <<db, issued, mail>>

\* The unique key refused the row: the user is a member already.
\* Mutated form: the use case goes on as after a fresh INSERT.
MailAgain(r) == Goto(r, "post") /\ UNCHANGED <<tx, arg>>
AlreadyMember(r) == Answer(r, 200, FALSE)

\* INSERT INTO team_members: the unique key answers 1062, the foreign key to
\* users another error; the answer to a good INSERT may be lost.
AddMember(r) ==
    LET a == arg[r] IN
    /\ pc[r] = "add"
    /\ \/ /\ HasRole(a.team, a.user, Roles)
          /\ AlreadyMember(r)
          /\ UNCHANGED team_members
       \/ /\ a.user \notin users
          /\ Answer(r, 400, FALSE)
          /\ UNCHANGED team_members
       \/ /\ a.user \in users
          /\ ~ HasRole(a.team, a.user, Roles)
          /\ team_members' = team_members \cup {MemberRowOf(a)}
          /\ \/ Goto(r, "post") /\ UNCHANGED <<tx, arg>>
             \/ Answer(r, 400, FALSE)
    /\ UNCHANGED <<users, teams, issued, mail>>

AddMemberFails(r) ==
    /\ pc[r] = "add"
    /\ Answer(r, 400, FALSE)
    /\ UNCHANGED <<db, issued, mail>>

\* SendInvite puts the POST on the wire, or the circuit breaker refuses it.
PostInvite(r) ==
    LET i == InvitationOf(arg[r]) IN
    /\ pc[r] = "post"
    /\ \/ /\ Goto(r, "wait")
          /\ posted' = [posted EXCEPT ![i] = @ + 1]
          /\ wire' = [wire EXCEPT ![i] = @ + 1]
          /\ UNCHANGED <<tx, arg>>
       \/ /\ Answer(r, 200, FALSE)
          /\ UNCHANGED <<wire, posted>>
    /\ UNCHANGED <<db, issued, delivered>>

\* The email service takes the invitation and its 200 reaches the handler.
MailAccepted(r) ==
    LET i == InvitationOf(arg[r]) IN
    /\ pc[r] = "wait"
    /\ wire[i] > 0
    /\ wire' = [wire EXCEPT ![i] = @ - 1]
    /\ delivered' = [delivered EXCEPT ![i] = @ + 1]
    /\ Answer(r, 200, TRUE)
    /\ UNCHANGED <<db, issued, posted>>

\* Mutated form of MailFailed: emailSent keeps its initial value.
MailFailureIgnored(r) ==
    /\ pc[r] = "wait"
    /\ Answer(r, 200, TRUE)
    /\ UNCHANGED <<db, issued, mail>>

\* Timeout, connection error, any other status: the handler stops waiting.
MailFailed(r) ==
    /\ pc[r] = "wait"
    /\ Answer(r, 200, FALSE)
    /\ UNCHANGED <<db, issued, mail>>

\* The email service takes an invitation nobody hears about, or it is lost.
MailUnheard(i) ==
    /\ wire[i] > 0
    /\ wire' = [wire EXCEPT ![i] = @ - 1]
    /\ \/ delivered' = [delivered EXCEPT ![i] = @ + 1]
       \/ UNCHANGED delivered
    /\ reply' = None
    /\ UNCHANGED <<db, issued, tx, pc, arg, posted>>

----------------------------------------------------------------------------
\* The server is killed: its requests end unanswered, MySQL rolls back.
Crash ==
    /\ \E r \in Requests : pc[r] # "idle"
    /\ tx' = [r \in Requests |-> NoRows]
    /\ pc' = [r \in Requests |-> "idle"]
    /\ arg' = [r \in Requests |-> None]
    /\ reply' = None
    /\ UNCHANGED <<db, issued, mail>>

CreateStep(r) ==
    \/ \E u \in Users : BeginCreateTeam(r, u)
    \/ \E t \in Teams : InsertTeam(r, t)
    \/ InsertOwner(r) \/ CommitTeam(r) \/ AbortCreate(r)

InviteStep(r) ==
    \/ \E a, u \in Users, t \in Teams, role \in AskedRoles :
           BeginInvite(r, a, t, u, role)
    \/ CheckInviter(r) \/ InviterLookupFails(r)
    \/ AddMember(r) \/ AddMemberFails(r)
    \/ PostInvite(r) \/ MailAccepted(r) \/ MailFailed(r)

Next ==
    \/ \E u \in Users : Register(u)
    \/ \E r \in Requests : Refuse(r) \/ CreateStep(r) \/ InviteStep(r)
    \/ \E i \in Invitation : MailUnheard(i)
    \/ Crash

Spec == Init /\ [][Next]_vars

----------------------------------------------------------------------------
(* Properties.                                                             *)

TypeOK ==
    /\ users \subseteq Users
    /\ teams \subseteq TeamRow
    /\ team_members \subseteq MemberRow
    /\ issued \subseteq Teams
    /\ tx \in [Requests -> Transaction]
    /\ pc \in [Requests -> Steps]
    /\ arg \in [Requests -> Ask \cup {None}]
    /\ reply \in Reply \cup {None}
    /\ wire \in [Invitation -> Nat]
    /\ posted \in [Invitation -> Nat]
    /\ delivered \in [Invitation -> Nat]

\* Every visible team has exactly one owner, the user who created it, and
\* no membership exists without its team.  At stake: the two INSERTs of
\* CreateTeamWithOwner under crashes, failed statements and lost commits,
\* and the roles Invite lets through.
SoleOwner ==
    /\ \A t \in teams : \A m \in team_members :
           m.team_id = t.id => (m.role = RoleOwner <=> m.user_id = t.created_by)
    /\ \A t \in teams : HasRole(t.id, t.created_by, {RoleOwner})
    /\ \A m \in team_members : \E t \in teams : t.id = m.team_id

\* However many requests invite the same user, retry after an error or race
\* with each other, the user gets at most one invitation to a team: Invite
\* mails only after an INSERT the unique key let through.
MailedOnce ==
    \A i \in Invitation : posted[i] > 0 =>
        /\ posted[i] = 1
        /\ \A j \in Invitation :
               posted[j] > 0 /\ i.team_id = j.team_id /\ i.user_id = j.user_id => i = j

\* An invitation is mailed only to a user who is in the team by then, and in
\* the name of somebody who may invite, whatever happened to the team between
\* GetUserRole and SendInvite.
MailedAreMembers ==
    \A i \in Invitation : posted[i] > 0 =>
        /\ HasRole(i.team_id, i.user_id, InvitableRoles)
        /\ HasRole(i.team_id, i.invite_by, {RoleOwner, RoleAdmin})

\* "email_sent": true is never said of an invitation the email service did
\* not take, and status 200 is never said of a user who is not in the team.
HonestReply ==
    reply # None /\ reply.status = 200 =>
        /\ HasRole(reply.ask.team, reply.ask.user, Roles)
        /\ reply.email_sent => delivered[InvitationOf(reply.ask)] > 0

\* u is in t, was never mailed an invitation to t, and nobody is about to.
Unmailed(t, u) ==
    /\ HasRole(t, u, Roles)
    /\ \A a \in Users : posted[[team_id |-> t, user_id |-> u, invite_by |-> a]] = 0
    /\ \A r \in Requests : ~ (pc[r] = "post" /\ arg[r].team = t /\ arg[r].user = u)

\* An invitation the breaker refused, or that a crash or a lost answer cut off
\* between the INSERT and the POST, is never made up for: whoever retries it,
\* and however often, meets the row and mails nothing.
UnmailedForGood ==
    [][\A t \in Teams, u \in Users : Unmailed(t, u) => Unmailed(t, u)']_vars

\* The service, with its transactions, races, crashes and lost answers, does
\* what TeamDirectory does in single steps.  In particular the inviter whose
\* role was read in the call before is still allowed to invite at the INSERT.
Directory == INSTANCE TeamDirectory WITH
    users <- users, teams <- teams, team_members <- team_members
ImplementsDirectory == Directory!Spec
=============================================================================
