--------------------------- MODULE TeamDirectory ---------------------------
(***************************************************************************)
(* What the team service promises, with every operation in one step: a    *)
(* team appears together with the membership of its owner, and a member   *)
(* joins only while somebody who may invite is the one inviting.           *)
(***************************************************************************)
EXTENDS Schema

CONSTANTS
    Users,    \* ids that may be users
    Teams     \* ids that may be teams

VARIABLES
    users,         \* ids of the registered users
    teams,         \* rows [id, created_by]
    team_members   \* rows [team_id, user_id, role]

vars == <<users, teams, team_members>>

HasRole(t, u, roles) ==
    \E role \in roles :
        [team_id |-> t, user_id |-> u, role |-> role] \in team_members

Init ==
    /\ users = {}
    /\ teams = {}
    /\ team_members = {}

Register(u) ==
    /\ users' = users \cup {u}
    /\ UNCHANGED <<teams, team_members>>

\* A new team and its only owner.
CreateTeam(t, u) ==
    /\ u \in users
    /\ \A row \in teams : row.id # t
    /\ \A row \in team_members : row.team_id # t
    /\ teams' = teams \cup {[id |-> t, created_by |-> u]}
    /\ team_members' =
           team_members \cup {[team_id |-> t, user_id |-> u, role |-> RoleOwner]}
    /\ UNCHANGED users

\* Somebody who is an owner or an admin at this moment lets u in.
Join(t, inviter, u, role) ==
    /\ HasRole(t, inviter, {RoleOwner, RoleAdmin})
    /\ u \in users
    /\ ~ HasRole(t, u, Roles)
    /\ role # RoleOwner
    /\ team_members' =
           team_members \cup {[team_id |-> t, user_id |-> u, role |-> role]}
    /\ UNCHANGED <<users, teams>>

Next ==
    \/ \E u \in Users : Register(u)
    \/ \E t \in Teams, u \in Users : CreateTeam(t, u)
    \/ \E t \in Teams, inviter \in Users, u \in Users, role \in Roles :
           Join(t, inviter, u, role)

Spec == Init /\ [][Next]_vars
=============================================================================
