-------------------------- MODULE MembershipProofs --------------------------
(***************************************************************************)
(* Proofs about Membership, for every number of users, teams and requests: *)
(* type correctness, the safety invariants the runs check, and that the    *)
(* service implements TeamDirectory.                                       *)
(*                                                                         *)
(* The invariant says what a request may rely on between its calls.  All   *)
(* of it rests on three facts: committed rows stay, an id that             *)
(* AUTO_INCREMENT gave out is never given again, and the unique key lets   *)
(* one INSERT through per team and user.                                   *)
(***************************************************************************)
EXTENDS Membership, TLAPS

\* Request r holds the id of a team nobody else can see.
Pending(r) == pc[r] \in {"insert_owner", "commit"}

\* The open transaction of r is exactly what r did so far.
CreateInv(r) ==
    /\ pc[r] \notin CreateSteps => tx[r] = NoRows
    /\ pc[r] \in CreateSteps =>
           /\ arg[r].actor \in users
           /\ arg[r].user = arg[r].actor
           /\ arg[r].role = RoleOwner
           /\ tx[r].teams = IF Pending(r)
                            THEN {[id |-> arg[r].team, created_by |-> arg[r].actor]}
                            ELSE {}
           /\ tx[r].team_members = IF pc[r] = "commit" THEN {MemberRowOf(arg[r])}
                                                       ELSE {}
    /\ Pending(r) => /\ arg[r].team \in issued
                     /\ \A t \in teams : t.id # arg[r].team

\* What the calls of Invite established so far still holds.
InviteInv(r) ==
    /\ pc[r] \in InviteSteps => arg[r].team \in Teams
    /\ pc[r] \in {"add", "post", "wait"} =>
           /\ HasRole(arg[r].team, arg[r].actor, {RoleOwner, RoleAdmin})
           /\ arg[r].role \in InvitableRoles
    /\ pc[r] \in {"post", "wait"} =>
           HasRole(arg[r].team, arg[r].user, InvitableRoles)
    /\ pc[r] = "post" =>
           \A i \in Invitation :
               i.team_id = arg[r].team /\ i.user_id = arg[r].user => posted[i] = 0

RequestInv(r) ==
    /\ pc[r] # "idle" => arg[r] \in Ask
    /\ CreateInv(r)
    /\ InviteInv(r)

\* No two requests create the same team or are about to mail the same user.
Distinct(r, q) ==
    /\ Pending(r) /\ Pending(q) => arg[r].team # arg[q].team
    /\ pc[r] = "post" /\ pc[q] = "post" =>
           arg[r].team # arg[q].team \/ arg[r].user # arg[q].user

Inv ==
    /\ TypeOK
    /\ \A t \in teams : t.id \in issued
    /\ SoleOwner
    /\ MailedAreMembers
    /\ MailedOnce
    /\ \A r \in Requests : RequestInv(r)
    /\ \A r, q \in Requests : r # q => Distinct(r, q)

----------------------------------------------------------------------------
(* The initial states.                                                     *)

LEMMA InitInv == Init => Inv
<1> SUFFICES ASSUME Init PROVE Inv
  OBVIOUS
<1> USE DEF Init
<1>1. TypeOK
  BY DEF TypeOK, Transaction, NoRows, Steps
<1>2. SoleOwner
  BY DEF SoleOwner, HasRole
<1>3. MailedAreMembers /\ MailedOnce
  BY DEF MailedAreMembers, MailedOnce, Invitation
<1>4. \A r \in Requests : RequestInv(r)
  BY DEF RequestInv, CreateInv, InviteInv, Pending, CreateSteps, InviteSteps
<1>5. \A r, q \in Requests : Distinct(r, q)
  BY DEF Distinct, Pending
<1> QED BY <1>1, <1>2, <1>3, <1>4, <1>5 DEF Inv

----------------------------------------------------------------------------
(* Type correctness of a step.                                             *)

\* The answers the handlers give.
Answered(r) ==
    \/ Answer(r, 200, TRUE) \/ Answer(r, 200, FALSE) \/ Answer(r, 201, FALSE)
    \/ Answer(r, 400, FALSE) \/ Answer(r, 409, FALSE)

\* The types of what Answer and Goto change.
LEMMA AnswerType ==
  ASSUME TypeOK, NEW r \in Requests, Answered(r)
  PROVE  /\ tx' \in [Requests -> Transaction]
         /\ pc' \in [Requests -> Steps]
         /\ arg' \in [Requests -> Ask \cup {None}]
         /\ reply' \in Reply \cup {None}
<1> DEFINE Status == {200, 201, 400, 409}
<1>1. PICK status \in Status, sent \in BOOLEAN : Answer(r, status, sent)
  <2>1. CASE Answer(r, 200, TRUE)
    <3> WITNESS 200 \in Status, TRUE \in BOOLEAN
    <3> QED BY <2>1
  <2>2. CASE Answer(r, 200, FALSE)
    <3> WITNESS 200 \in Status, FALSE \in BOOLEAN
    <3> QED BY <2>2
  <2>3. CASE Answer(r, 201, FALSE)
    <3> WITNESS 201 \in Status, FALSE \in BOOLEAN
    <3> QED BY <2>3
  <2>4. CASE Answer(r, 400, FALSE)
    <3> WITNESS 400 \in Status, FALSE \in BOOLEAN
    <3> QED BY <2>4
  <2>5. CASE Answer(r, 409, FALSE)
    <3> WITNESS 409 \in Status, FALSE \in BOOLEAN
    <3> QED BY <2>5
  <2> QED BY <2>1, <2>2, <2>3, <2>4, <2>5, Zenon DEF Answered
<1>2. reply' \in Reply
  BY <1>1 DEF Reply, Answer, TypeOK
<1>3. tx' \in [Requests -> Transaction]
  BY <1>1 DEF Transaction, NoRows, Answer, TypeOK
<1>4. pc' \in [Requests -> Steps] /\ arg' \in [Requests -> Ask \cup {None}]
  BY <1>1 DEF Steps, Answer, TypeOK
<1> QED BY <1>2, <1>3, <1>4

LEMMA GotoType ==
  ASSUME TypeOK, NEW r \in Requests, NEW step \in Steps, Goto(r, step)
  PROVE  /\ pc' \in [Requests -> Steps]
         /\ reply' \in Reply \cup {None}
BY DEF TypeOK, Goto

LEMMA BeginType ==
  ASSUME TypeOK, NEW r \in Requests,
         \/ \E u \in Users : BeginCreateTeam(r, u)
         \/ \E a, u \in Users, t \in Teams, role \in AskedRoles :
                BeginInvite(r, a, t, u, role)
  PROVE  TypeOK'
<1>1. \E a \in Ask : arg' = [arg EXCEPT ![r] = a]
  BY RolesAssumption DEF BeginCreateTeam, BeginInvite, Ask, Roles, RoleOwner
<1>2. arg' \in [Requests -> Ask \cup {None}]
  BY <1>1 DEF TypeOK
<1>3. \E step \in Steps : Goto(r, step)
  BY DEF BeginCreateTeam, BeginInvite, Steps, CreateSteps, InviteSteps
<1>4. UNCHANGED <<users, teams, team_members, issued, tx, wire, posted, delivered>>
  BY DEF BeginCreateTeam, BeginInvite, db, mail
<1> QED BY <1>2, <1>3, <1>4, GotoType DEF TypeOK

LEMMA CreateType ==
  ASSUME Inv, NEW r \in Requests,
         \/ \E t \in Teams : InsertTeam(r, t)
         \/ InsertOwner(r) \/ CommitTeam(r) \/ AbortCreate(r)
  PROVE  TypeOK'
<1> USE DEF db, mail
<1>0. TypeOK /\ (pc[r] # "idle" => arg[r] \in Ask)
  BY DEF Inv, RequestInv
<1>1. ASSUME NEW t \in Teams, InsertTeam(r, t) PROVE TypeOK'
  <2>1. arg[r] \in Ask
    BY <1>0, <1>1 DEF InsertTeam
  <2>2. [arg[r] EXCEPT !.team = t] \in Ask
    BY <2>1 DEF Ask
  <2>3. arg' \in [Requests -> Ask \cup {None}]
    BY <1>0, <1>1, <2>2 DEF InsertTeam, TypeOK
  <2>4. [id |-> t, created_by |-> arg[r].actor] \in TeamRow
    BY <2>1 DEF Ask, TeamRow
  <2>5. tx' \in [Requests -> Transaction]
    BY <1>0, <1>1, <2>4 DEF InsertTeam, TypeOK, Transaction
  <2>6. issued' \subseteq Teams
    BY <1>0, <1>1 DEF InsertTeam, TypeOK
  <2> QED BY <1>0, <1>1, <2>3, <2>5, <2>6, GotoType
          DEF InsertTeam, TypeOK, Steps, CreateSteps
<1>2. CASE InsertOwner(r)
  <2>1. arg[r] \in Ask /\ arg[r].team \in Teams /\ arg[r].role \in Roles
    BY <1>0, <1>2 DEF InsertOwner, Inv, RequestInv, CreateInv, Pending, CreateSteps, TypeOK,
                      Roles
  <2>2. MemberRowOf(arg[r]) \in MemberRow
    BY <2>1 DEF MemberRowOf, MemberRow, Ask
  <2>3. tx' \in [Requests -> Transaction]
    BY <1>0, <1>2, <2>2 DEF InsertOwner, TypeOK, Transaction
  <2> QED BY <1>0, <1>2, <2>3, GotoType DEF InsertOwner, TypeOK, Steps, CreateSteps
<1>3. CASE CommitTeam(r)
  <2>1. teams' \subseteq TeamRow /\ team_members' \subseteq MemberRow
    BY <1>0, <1>3 DEF CommitTeam, TypeOK, Transaction
  <2>2. Answered(r) /\ UNCHANGED <<users, issued, wire, posted, delivered>>
    BY <1>3, Zenon DEF CommitTeam, Answered
  <2> QED BY <1>0, <2>1, <2>2, AnswerType DEF TypeOK
<1>4. CASE AbortCreate(r)
  <2>1. Answered(r) /\ UNCHANGED <<users, teams, team_members, issued, wire, posted, delivered>>
    BY <1>4, Zenon DEF AbortCreate, Answered
  <2> QED BY <1>0, <2>1, AnswerType DEF TypeOK
<1> QED BY <1>1, <1>2, <1>3, <1>4

LEMMA InviteType ==
  ASSUME Inv, NEW r \in Requests,
         \/ CheckInviter(r) \/ InviterLookupFails(r)
         \/ AddMember(r) \/ AddMemberFails(r)
         \/ PostInvite(r) \/ MailAccepted(r) \/ MailFailed(r)
  PROVE  TypeOK'
<1> USE DEF db, mail
<1>0. /\ TypeOK /\ (pc[r] # "idle" => arg[r] \in Ask)
      /\ pc[r] \in InviteSteps => arg[r].team \in Teams
      /\ pc[r] \in {"add", "post", "wait"} => arg[r].role \in Roles
  BY DEF Inv, RequestInv, InviteInv, InvitableRoles, Roles
<1>1. CASE CheckInviter(r)
  <2>1. CASE Answered(r)
    <3>1. UNCHANGED <<users, teams, team_members, issued, wire, posted, delivered>>
      BY <1>1 DEF CheckInviter
    <3> QED BY <1>0, <2>1, <3>1, AnswerType DEF TypeOK
  <2>2. CASE /\ Goto(r, "add") /\ UNCHANGED tx
             /\ arg' = [arg EXCEPT ![r].role = RequestedRole(@)]
    <3>1. [arg[r] EXCEPT !.role = RequestedRole(@)] \in Ask
      BY <1>0, <1>1 DEF CheckInviter, Ask, RequestedRole, Roles
    <3>2. arg' \in [Requests -> Ask \cup {None}]
      BY <1>0, <2>2, <3>1 DEF TypeOK
    <3> QED BY <1>0, <1>1, <2>2, <3>2, GotoType DEF CheckInviter, TypeOK, Steps, InviteSteps
  <2> QED BY <1>1, <2>1, <2>2, Zenon DEF CheckInviter, Answered
<1>2. CASE InviterLookupFails(r) \/ AddMemberFails(r) \/ MailFailed(r)
  <2>1. Answered(r) /\ UNCHANGED <<users, teams, team_members, issued, wire, posted, delivered>>
    BY <1>2, Zenon DEF InviterLookupFails, AddMemberFails, MailFailed, Answered
  <2> QED BY <1>0, <2>1, AnswerType DEF TypeOK
<1>3. CASE AddMember(r)
  <2>1. MemberRowOf(arg[r]) \in MemberRow
    BY <1>0, <1>3 DEF AddMember, MemberRowOf, MemberRow, Ask, InviteSteps
  <2>2. team_members' \subseteq MemberRow
    BY <1>0, <1>3, <2>1 DEF AddMember, TypeOK
  <2>3. CASE Answered(r)
    <3>1. UNCHANGED <<users, teams, issued, wire, posted, delivered>>
      BY <1>3 DEF AddMember
    <3> QED BY <1>0, <2>2, <2>3, <3>1, AnswerType DEF TypeOK
  <2>4. CASE Goto(r, "post") /\ UNCHANGED <<tx, arg>>
    BY <1>0, <1>3, <2>2, <2>4, GotoType DEF AddMember, TypeOK, Steps, InviteSteps
  <2> QED BY <1>3, <2>3, <2>4, Zenon DEF AddMember, AlreadyMember, Answered
<1>4. ASSUME pc[r] \in {"post", "wait"} PROVE InvitationOf(arg[r]) \in Invitation
  BY <1>0, <1>4 DEF InvitationOf, Invitation, Ask, InviteSteps
<1>5. CASE PostInvite(r)
  <2>1. wire' \in [Invitation -> Nat] /\ posted' \in [Invitation -> Nat]
    <3>1. CASE UNCHANGED <<wire, posted>>
      BY <1>0, <3>1 DEF TypeOK
    <3>2. CASE LET i == InvitationOf(arg[r])
               IN  posted' = [posted EXCEPT ![i] = @ + 1] /\ wire' = [wire EXCEPT ![i] = @ + 1]
      BY <1>0, <1>4, <1>5, <3>2 DEF PostInvite, TypeOK
    <3> QED BY <1>5, <3>1, <3>2, Zenon DEF PostInvite
  <2>2. CASE Answer(r, 200, FALSE)
    <3>1. Answered(r) /\ UNCHANGED <<users, teams, team_members, issued, delivered>>
      BY <1>5, <2>2, Zenon DEF PostInvite, Answered
    <3> QED BY <1>0, <2>1, <3>1, AnswerType DEF TypeOK
  <2>3. CASE Goto(r, "wait") /\ UNCHANGED <<tx, arg>>
    BY <1>0, <1>5, <2>1, <2>3, GotoType DEF PostInvite, TypeOK, Steps, InviteSteps
  <2> QED BY <1>5, <2>2, <2>3, Zenon DEF PostInvite
<1>6. CASE MailAccepted(r)
  <2>1. wire' \in [Invitation -> Nat] /\ delivered' \in [Invitation -> Nat]
    BY <1>0, <1>4, <1>6 DEF MailAccepted, TypeOK
  <2>2. Answered(r) /\ UNCHANGED <<users, teams, team_members, issued, posted>>
    BY <1>6, Zenon DEF MailAccepted, Answered
  <2> QED BY <1>0, <2>1, <2>2, AnswerType DEF TypeOK
<1> QED BY <1>1, <1>2, <1>3, <1>5, <1>6

LEMMA OtherType ==
  ASSUME TypeOK,
         \/ \E u \in Users : Register(u)
         \/ \E r \in Requests : Refuse(r)
         \/ \E i \in Invitation : MailUnheard(i)
         \/ Crash
  PROVE  TypeOK'
<1> USE DEF db, mail
<1>1. ASSUME NEW u \in Users, Register(u) PROVE TypeOK'
  BY <1>1 DEF Register, TypeOK
<1>2. ASSUME NEW r \in Requests, Refuse(r) PROVE TypeOK'
  <2>1. Answered(r) /\ UNCHANGED <<users, teams, team_members, issued, wire, posted, delivered>>
    BY <1>2, Zenon DEF Refuse, Answered
  <2> QED BY <2>1, AnswerType DEF TypeOK
<1>3. ASSUME NEW i \in Invitation, MailUnheard(i) PROVE TypeOK'
  BY <1>3 DEF MailUnheard, TypeOK
<1>4. CASE Crash
  BY <1>4 DEF Crash, TypeOK, Transaction, NoRows, Steps
<1> QED BY <1>1, <1>2, <1>3, <1>4

LEMMA StepType == Inv /\ [Next]_vars => TypeOK'
<1> SUFFICES ASSUME Inv, [Next]_vars PROVE TypeOK'
  OBVIOUS
<1>1. TypeOK
  BY DEF Inv
<1>2. CASE Next
  <2>1. ASSUME NEW r \in Requests, CreateStep(r) PROVE TypeOK'
    BY <1>1, <2>1, BeginType, CreateType DEF CreateStep
  <2>2. ASSUME NEW r \in Requests, InviteStep(r) PROVE TypeOK'
    BY <1>1, <2>2, BeginType, InviteType DEF InviteStep
  <2> QED BY <1>1, <1>2, <2>1, <2>2, OtherType DEF Next
<1>3. CASE UNCHANGED vars
  BY <1>1, <1>3 DEF TypeOK, vars
<1> QED BY <1>2, <1>3

----------------------------------------------------------------------------
(* What a step of one request leaves of the others.                        *)

\* Nothing committed is ever taken back.
Grows ==
    /\ users \subseteq users' /\ issued \subseteq issued'
    /\ teams \subseteq teams' /\ team_members \subseteq team_members'

\* The locals and the transaction of q are its own.
Same(q) == pc'[q] = pc[q] /\ arg'[q] = arg[q] /\ tx'[q] = tx[q]

\* The step used neither the id q holds nor the invitation q is to send.
Spared(q) ==
    /\ Pending(q) => \A t \in teams' : t.id # arg[q].team
    /\ pc[q] = "post" =>
           \A i \in Invitation :
               i.team_id = arg[q].team /\ i.user_id = arg[q].user => posted'[i] = 0

LEMMA SameKept ==
  ASSUME Inv, Grows, NEW q \in Requests, Same(q), Spared(q)
  PROVE  RequestInv(q)'
<1>1. RequestInv(q)
  BY DEF Inv
<1>2. CreateInv(q)'
  BY <1>1 DEF RequestInv, CreateInv, Grows, Same, Spared, Pending, MemberRowOf
<1>3. InviteInv(q)'
  BY <1>1 DEF RequestInv, InviteInv, Grows, Same, Spared, HasRole
<1> QED BY <1>1, <1>2, <1>3 DEF RequestInv, Same

LEMMA OthersKept ==
  ASSUME Inv, Grows, NEW r \in Requests, RequestInv(r)',
         \A q \in Requests : q # r => Same(q) /\ Spared(q),
         \A q \in Requests : q # r => Distinct(r, q)'
  PROVE  /\ \A q \in Requests : RequestInv(q)'
         /\ \A p, q \in Requests : p # q => Distinct(p, q)'
<1>1. \A q \in Requests : RequestInv(q)'
  BY SameKept
<1>2. ASSUME NEW p \in Requests, NEW q \in Requests, p # q PROVE Distinct(p, q)'
  <2>1. CASE p = r \/ q = r
    BY <1>2, <2>1 DEF Distinct, Pending
  <2>2. CASE p # r /\ q # r
    BY <1>2, <2>2 DEF Inv, Distinct, Pending, Same
  <2> QED BY <2>1, <2>2
<1> QED BY <1>1, <1>2

\* A step that commits no row and sends no invitation.
Quiet == UNCHANGED <<teams, team_members, posted>> /\ Grows

LEMMA QuietKept ==
  ASSUME Inv, Quiet
  PROVE  /\ \A t \in teams' : t.id \in issued'
         /\ SoleOwner' /\ MailedAreMembers' /\ MailedOnce'
         /\ \A q \in Requests : Spared(q)
<1>1. \A t \in teams' : t.id \in issued'
  BY DEF Inv, Quiet, Grows
<1>2. SoleOwner'
  BY DEF Inv, Quiet, SoleOwner, HasRole
<1>3. MailedAreMembers'
  BY DEF Inv, Quiet, MailedAreMembers, HasRole
<1>4. MailedOnce'
  BY DEF Inv, Quiet, MailedOnce
<1>5. \A q \in Requests : Spared(q)
  BY DEF Inv, Quiet, RequestInv, CreateInv, InviteInv, Spared
<1> QED BY <1>1, <1>2, <1>3, <1>4, <1>5

\* A request that is idle relies on nothing.
Idle(r) == pc'[r] = "idle" /\ tx'[r] = NoRows

LEMMA IdleInv ==
  ASSUME NEW r \in Requests, Idle(r)
  PROVE  RequestInv(r)' /\ \A q \in Requests : Distinct(r, q)'
BY DEF Idle, RequestInv, CreateInv, InviteInv, Distinct, Pending, CreateSteps,
       InviteSteps, NoRows

\* Every answer, whatever it says, that comes without a COMMIT or an INSERT.
LEMMA QuietAnswer ==
  ASSUME Inv, TypeOK', Quiet, NEW r \in Requests, Idle(r),
         \A q \in Requests : q # r => Same(q)
  PROVE  Inv'
<1>1. RequestInv(r)' /\ \A q \in Requests : Distinct(r, q)'
  BY IdleInv
<1> QED BY <1>1, QuietKept, OthersKept DEF Inv, Quiet

----------------------------------------------------------------------------
(* The answers and the other quiet steps.                                  *)

LEMMA AnswerIdle ==
  ASSUME TypeOK, NEW r \in Requests, Answered(r)
  PROVE  Idle(r) /\ \A q \in Requests : q # r => Same(q)
<1>1. /\ pc' = [pc EXCEPT ![r] = "idle"] /\ arg' = [arg EXCEPT ![r] = None]
      /\ tx' = [tx EXCEPT ![r] = NoRows]
  BY Zenon DEF Answered, Answer
<1> QED BY <1>1 DEF TypeOK, Idle, Same

LEMMA RefusalInv ==
  ASSUME Inv, TypeOK', NEW r \in Requests, Answered(r),
         UNCHANGED <<users, teams, team_members, issued, posted>>
  PROVE  Inv'
<1>1. TypeOK /\ Quiet
  BY DEF Inv, Quiet, Grows
<1> QED BY <1>1, AnswerIdle, QuietAnswer

LEMMA CrashInv ==
  ASSUME Inv, TypeOK', Crash
  PROVE  Inv'
<1>1. Quiet /\ \A r \in Requests : Idle(r)
  BY DEF Crash, Quiet, Grows, Idle, db, mail
<1> QED BY <1>1, QuietKept, IdleInv DEF Inv

LEMMA BystanderInv ==
  ASSUME Inv, TypeOK', Quiet, UNCHANGED <<pc, arg, tx>>
  PROVE  Inv'
<1>1. \A q \in Requests : Same(q) /\ Spared(q)
  BY QuietKept DEF Same
<1>2. \A q \in Requests : RequestInv(q)'
  BY <1>1, SameKept DEF Quiet
<1>3. \A p, q \in Requests : p # q => Distinct(p, q)'
  BY DEF Inv, Distinct, Pending
<1> QED BY <1>2, <1>3, QuietKept DEF Inv

\* A step of r that neither commits nor sends and takes r to the call "to".
LEMMA QuietGoto ==
  ASSUME Inv, TypeOK', Quiet, NEW r \in Requests, RequestInv(r)',
         \A q \in Requests : q # r => Same(q) /\ Distinct(r, q)'
  PROVE  Inv'
BY QuietKept, OthersKept DEF Inv, Quiet

----------------------------------------------------------------------------
(* POST /teams.                                                            *)

LEMMA BeginInv ==
  ASSUME Inv, TypeOK', NEW r \in Requests,
         \/ \E u \in Users : BeginCreateTeam(r, u)
         \/ \E a, u \in Users, t \in Teams, role \in AskedRoles :
                BeginInvite(r, a, t, u, role)
  PROVE  Inv'
<1> USE DEF db, mail
<1>0. TypeOK /\ RequestInv(r)
  BY DEF Inv
<1>1. Quiet
  BY DEF BeginCreateTeam, BeginInvite, Quiet, Grows
<1>2. \A q \in Requests : q # r => Same(q)
  BY <1>0 DEF BeginCreateTeam, BeginInvite, Goto, TypeOK, Same
<1>3. /\ pc'[r] \in {"insert_team", "role"}
      /\ tx'[r] = NoRows
      /\ arg'[r] \in Ask
      /\ pc'[r] = "insert_team" =>
             /\ arg'[r].actor \in users' /\ arg'[r].user = arg'[r].actor
             /\ arg'[r].role = RoleOwner
      /\ pc'[r] = "role" => arg'[r].team \in Teams
  <2>1. tx[r] = NoRows /\ pc[r] = "idle"
    BY <1>0 DEF BeginCreateTeam, BeginInvite, RequestInv, CreateInv, CreateSteps
  <2>2. CASE \E u \in Users : BeginCreateTeam(r, u)
    <3>1. PICK u \in Users : BeginCreateTeam(r, u)
      BY <2>2
    <3> DEFINE ask == [actor |-> u, team |-> None, user |-> u, role |-> RoleOwner]
    <3>2. arg'[r] = ask
      BY <1>0, <3>1 DEF BeginCreateTeam, TypeOK
    <3>3. pc'[r] = "insert_team" /\ tx' = tx /\ users' = users /\ u \in users
      BY <1>0, <3>1 DEF BeginCreateTeam, Goto, TypeOK
    <3>4. ask \in Ask
      BY DEF Ask, Roles
    <3> QED BY <2>1, <3>2, <3>3, <3>4
  <2>3. CASE \E a, u \in Users, t \in Teams, role \in AskedRoles :
                 BeginInvite(r, a, t, u, role)
    <3>1. PICK a \in Users, u \in Users, t \in Teams, role \in AskedRoles :
                   BeginInvite(r, a, t, u, role)
      BY <2>3
    <3> DEFINE ask == [actor |-> a, team |-> t, user |-> u, role |-> role]
    <3>2. arg'[r] = ask
      BY <1>0, <3>1 DEF BeginInvite, TypeOK
    <3>3. pc'[r] = "role" /\ tx' = tx
      BY <1>0, <3>1 DEF BeginInvite, Goto, TypeOK
    <3>4. ask \in Ask
      BY RolesAssumption DEF Ask
    <3> QED BY <2>1, <3>2, <3>3, <3>4
  <2> QED BY <2>2, <2>3
<1>4. RequestInv(r)'
  BY <1>3 DEF RequestInv, CreateInv, InviteInv, Pending, CreateSteps, InviteSteps, NoRows
<1>5. \A q \in Requests : Distinct(r, q)'
  BY <1>3 DEF Distinct, Pending
<1> QED BY <1>1, <1>2, <1>4, <1>5, QuietGoto

LEMMA InsertTeamInv ==
  ASSUME Inv, TypeOK', NEW r \in Requests, NEW t \in Teams, InsertTeam(r, t)
  PROVE  Inv'
<1> USE DEF db, mail
<1>0. TypeOK /\ RequestInv(r) /\ pc[r] = "insert_team"
  BY DEF Inv, InsertTeam
<1>1. Quiet
  BY DEF InsertTeam, Quiet, Grows
<1>2. \A q \in Requests : q # r => Same(q)
  BY <1>0 DEF InsertTeam, Goto, TypeOK, Same
<1>3. arg[r] \in Ask /\ tx[r].teams = {} /\ tx[r].team_members = {}
  BY <1>0 DEF RequestInv, CreateInv, Pending, CreateSteps
<1>4. /\ pc'[r] = "insert_owner"
      /\ arg'[r] = [arg[r] EXCEPT !.team = t]
      /\ tx'[r] = [tx[r] EXCEPT !.teams = {[id |-> t, created_by |-> arg[r].actor]}]
  BY <1>0, <1>3 DEF InsertTeam, Goto, TypeOK
<1>5. /\ tx'[r].teams = {[id |-> t, created_by |-> arg[r].actor]}
      /\ tx'[r].team_members = {}
  BY <1>0, <1>3, <1>4 DEF TypeOK, Transaction
<1>6. /\ arg'[r].team = t /\ arg'[r].actor = arg[r].actor
      /\ arg'[r].user = arg[r].user /\ arg'[r].role = arg[r].role
      /\ arg'[r] \in Ask
  BY <1>3, <1>4 DEF Ask
<1>7. t \in issued' /\ t \notin issued /\ UNCHANGED <<users, teams>>
  BY DEF InsertTeam
<1>8. RequestInv(r)'
  BY <1>0, <1>4, <1>5, <1>6, <1>7
     DEF Inv, RequestInv, CreateInv, InviteInv, Pending, CreateSteps, InviteSteps
<1>9. ASSUME NEW q \in Requests, q # r PROVE Distinct(r, q)'
  <2>1. Pending(q) => arg[q].team \in issued
    BY DEF Inv, RequestInv, CreateInv
  <2> QED BY <1>2, <1>4, <1>6, <1>7, <1>9, <2>1 DEF Distinct, Pending, Same
<1> QED BY <1>1, <1>2, <1>8, <1>9, QuietGoto

LEMMA InsertOwnerInv ==
  ASSUME Inv, TypeOK', NEW r \in Requests, InsertOwner(r)
  PROVE  Inv'
<1> USE DEF db, mail
<1>0. TypeOK /\ RequestInv(r) /\ pc[r] = "insert_owner"
  BY DEF Inv, InsertOwner
<1>1. Quiet
  BY DEF InsertOwner, Quiet, Grows
<1>2. \A q \in Requests : q # r => Same(q)
  BY <1>0 DEF InsertOwner, Goto, TypeOK, Same
<1>3. tx[r].team_members = {}
  BY <1>0 DEF RequestInv, CreateInv, CreateSteps
<1>4. /\ pc'[r] = "commit" /\ arg'[r] = arg[r]
      /\ tx'[r] = [tx[r] EXCEPT !.team_members = {MemberRowOf(arg[r])}]
      /\ UNCHANGED <<users, issued, teams>>
  BY <1>0, <1>3 DEF InsertOwner, Goto, TypeOK
<1>5. tx'[r].teams = tx[r].teams /\ tx'[r].team_members = {MemberRowOf(arg[r])}
  BY <1>0, <1>4 DEF TypeOK, Transaction
<1>6. RequestInv(r)'
  BY <1>0, <1>4, <1>5
     DEF RequestInv, CreateInv, InviteInv, Pending, CreateSteps, InviteSteps, MemberRowOf
<1>7. ASSUME NEW q \in Requests, q # r PROVE Distinct(r, q)'
  BY <1>0, <1>2, <1>4, <1>7 DEF Inv, Distinct, Pending, Same
<1> QED BY <1>1, <1>2, <1>6, <1>7, QuietGoto

\* What COMMIT makes visible: a team nobody saw, with its owner.
LEMMA CommitRows ==
  ASSUME Inv, NEW r \in Requests, CommitTeam(r)
  PROVE  LET t == arg[r].team
             u == arg[r].actor
         IN  /\ t \in Teams /\ u \in users /\ t \in issued
             /\ \A row \in teams : row.id # t
             /\ \A m \in team_members : m.team_id # t
             /\ teams' = teams \cup {[id |-> t, created_by |-> u]}
             /\ team_members' = team_members \cup
                    {[team_id |-> t, user_id |-> u, role |-> RoleOwner]}
             /\ UNCHANGED <<users, issued, wire, posted, delivered>>
             /\ Answered(r)
<1> USE DEF db, mail
<1>1. Answered(r) /\ UNCHANGED <<users, issued, wire, posted, delivered>>
  BY Zenon DEF CommitTeam, Answered
<1>2. TypeOK /\ SoleOwner /\ RequestInv(r) /\ pc[r] = "commit"
  BY DEF Inv, CommitTeam
<1>3. /\ arg[r].actor \in users /\ arg[r].user = arg[r].actor /\ arg[r].role = RoleOwner
      /\ tx[r].teams = {[id |-> arg[r].team, created_by |-> arg[r].actor]}
      /\ tx[r].team_members = {MemberRowOf(arg[r])}
      /\ arg[r].team \in issued
      /\ \A row \in teams : row.id # arg[r].team
  BY <1>2 DEF RequestInv, CreateInv, Pending, CreateSteps
<1>4. \A m \in team_members : m.team_id # arg[r].team
  BY <1>2, <1>3 DEF SoleOwner
<1>5. arg[r].team \in Teams
  BY <1>2, <1>3 DEF TypeOK
<1>6. teams' = teams \cup {[id |-> arg[r].team, created_by |-> arg[r].actor]}
  BY <1>3 DEF CommitTeam
<1>7. team_members' = team_members \cup
          {[team_id |-> arg[r].team, user_id |-> arg[r].actor, role |-> RoleOwner]}
  BY <1>3 DEF CommitTeam, MemberRowOf
<1> QED BY <1>1, <1>3, <1>4, <1>5, <1>6, <1>7

LEMMA CommitInv ==
  ASSUME Inv, TypeOK', NEW r \in Requests, CommitTeam(r)
  PROVE  Inv'
<1> DEFINE t == arg[r].team
<1> DEFINE u == arg[r].actor
<1>0. TypeOK /\ SoleOwner /\ MailedAreMembers /\ MailedOnce
  BY DEF Inv
<1>1. /\ t \in Teams /\ u \in users /\ t \in issued
      /\ \A row \in teams : row.id # t
      /\ \A m \in team_members : m.team_id # t
      /\ teams' = teams \cup {[id |-> t, created_by |-> u]}
      /\ team_members' = team_members \cup
             {[team_id |-> t, user_id |-> u, role |-> RoleOwner]}
      /\ UNCHANGED <<users, issued, wire, posted, delivered>>
      /\ Answered(r)
  BY CommitRows
<1> HIDE DEF t, u
<1>2. Idle(r) /\ \A q \in Requests : q # r => Same(q)
  BY <1>0, <1>1, AnswerIdle
<1>3. Grows
  BY <1>1 DEF Grows
<1>4. SoleOwner'
  <2>1. \A row \in teams' : \A m \in team_members' :
            m.team_id = row.id => (m.role = RoleOwner <=> m.user_id = row.created_by)
    BY <1>0, <1>1 DEF SoleOwner
  <2>2. \A row \in teams' : HasRole(row.id, row.created_by, {RoleOwner})'
    BY <1>0, <1>1 DEF SoleOwner, HasRole
  <2>3. ASSUME NEW m \in team_members' PROVE \E row \in teams' : row.id = m.team_id
    <3>1. CASE m \in team_members
      BY <1>0, <1>1, <3>1 DEF SoleOwner
    <3>2. CASE m.team_id = t
      <4>1. [id |-> t, created_by |-> u] \in teams' /\ [id |-> t, created_by |-> u].id = t
        BY <1>1
      <4> QED BY <3>2, <4>1
    <3> QED BY <1>1, <3>1, <3>2
  <2> QED BY <2>1, <2>2, <2>3 DEF SoleOwner
<1>5. MailedAreMembers' /\ MailedOnce'
  BY <1>0, <1>1 DEF MailedAreMembers, MailedOnce, HasRole
<1>6. \A row \in teams' : row.id \in issued'
  BY <1>1 DEF Inv
<1>7. ASSUME NEW q \in Requests, q # r PROVE Spared(q)
  <2>1. Pending(q) => arg[q].team # t
    <3>1. Pending(r) /\ Distinct(r, q)
      BY <1>7 DEF CommitTeam, Pending, Inv
    <3> QED BY <3>1 DEF Distinct, t
  <2>2. RequestInv(q)
    BY DEF Inv
  <2> QED BY <1>1, <2>1, <2>2 DEF Spared, RequestInv, CreateInv, InviteInv
<1> QED BY <1>2, <1>3, <1>4, <1>5, <1>6, <1>7, IdleInv, OthersKept DEF Inv

----------------------------------------------------------------------------
(* POST /teams/{id}/invite.                                                *)

LEMMA CheckInviterInv ==
  ASSUME Inv, TypeOK', NEW r \in Requests, CheckInviter(r)
  PROVE  Inv'
<1> USE DEF db, mail
<1>0. TypeOK /\ RequestInv(r) /\ pc[r] = "role"
  BY DEF Inv, CheckInviter
<1>1. UNCHANGED <<users, teams, team_members, issued, wire, posted, delivered>>
  BY DEF CheckInviter
<1>2. CASE Answered(r)
  BY <1>1, <1>2, RefusalInv
<1>3. CASE /\ HasRole(arg[r].team, arg[r].actor, {RoleOwner, RoleAdmin})
           /\ RequestedRole(arg[r].role) \in InvitableRoles
           /\ Goto(r, "add") /\ UNCHANGED tx
           /\ arg' = [arg EXCEPT ![r].role = RequestedRole(@)]
  <2>1. Quiet
    BY <1>1 DEF Quiet, Grows
  <2>2. \A q \in Requests : q # r => Same(q)
    BY <1>0, <1>3 DEF Goto, TypeOK, Same
  <2>3. arg[r] \in Ask /\ arg[r].team \in Teams /\ tx[r] = NoRows
    BY <1>0 DEF RequestInv, InviteInv, CreateInv, InviteSteps, CreateSteps
  <2> DEFINE role == RequestedRole(arg[r].role)
  <2>4. arg'[r] = [arg[r] EXCEPT !.role = role] /\ pc'[r] = "add" /\ tx'[r] = NoRows
    BY <1>0, <1>3, <2>3 DEF Goto, TypeOK
  <2>5. role \in InvitableRoles
    BY <1>3
  <2> HIDE DEF role
  <2>6. /\ arg'[r].team = arg[r].team /\ arg'[r].actor = arg[r].actor
        /\ arg'[r].role = role
    BY <2>3, <2>4 DEF Ask
  <2>7. arg'[r] \in Ask
    BY <2>3, <2>4, <2>5 DEF Ask, InvitableRoles, Roles
  <2>8. HasRole(arg[r].team, arg[r].actor, {RoleOwner, RoleAdmin})'
    BY <1>1, <1>3, <2>6 DEF HasRole
  <2>9. RequestInv(r)'
    BY <2>3, <2>4, <2>5, <2>6, <2>7, <2>8
       DEF RequestInv, CreateInv, InviteInv, CreateSteps, Pending, NoRows
  <2>10. \A q \in Requests : Distinct(r, q)'
    BY <2>4 DEF Distinct, Pending
  <2> QED BY <2>1, <2>2, <2>9, <2>10, QuietGoto
<1> QED BY <1>2, <1>3, Zenon DEF CheckInviter, Answered

\* What the INSERT of AddMember makes visible: a newcomer, let in by
\* somebody who may invite at this very moment.
AddedMember(r) ==
    /\ arg[r].user \in users
    /\ ~ HasRole(arg[r].team, arg[r].user, Roles)
    /\ team_members' = team_members \cup {MemberRowOf(arg[r])}
    /\ UNCHANGED <<users, teams, issued, wire, posted, delivered>>

LEMMA AddMemberCases ==
  ASSUME Inv, NEW r \in Requests, AddMember(r)
  PROVE  \/ /\ Answered(r)
            /\ UNCHANGED <<users, teams, team_members, issued, wire, posted, delivered>>
         \/ /\ AddedMember(r)
            /\ Answered(r) \/ (Goto(r, "post") /\ UNCHANGED <<tx, arg>>)
<1>1. UNCHANGED <<users, teams, issued, wire, posted, delivered>>
  BY DEF AddMember, mail
<1> QED BY <1>1, Zenon DEF AddMember, AlreadyMember, Answered, AddedMember

LEMMA AddMemberInv ==
  ASSUME Inv, TypeOK', NEW r \in Requests, AddMember(r)
  PROVE  Inv'
<1> DEFINE t == arg[r].team
<1> DEFINE u == arg[r].user
<1> DEFINE row == MemberRowOf(arg[r])
<1>0. /\ TypeOK /\ SoleOwner /\ MailedAreMembers /\ MailedOnce /\ RequestInv(r)
      /\ pc[r] = "add"
  BY DEF Inv, AddMember
<1>1. SUFFICES ASSUME AddedMember(r),
                      Answered(r) \/ (Goto(r, "post") /\ UNCHANGED <<tx, arg>>)
               PROVE  Inv'
  BY AddMemberCases, RefusalInv
<1>2. Grows /\ \A q \in Requests : q # r => Same(q)
  BY <1>0, <1>1, AnswerIdle DEF AddedMember, Grows, Goto, TypeOK, Same
<1>3. /\ arg[r] \in Ask /\ t \in Teams /\ tx[r] = NoRows
      /\ HasRole(t, arg[r].actor, {RoleOwner, RoleAdmin})
      /\ arg[r].role \in InvitableRoles
  BY <1>0 DEF RequestInv, InviteInv, CreateInv, InviteSteps, CreateSteps
<1>4. /\ row \in MemberRow /\ row.team_id = t /\ row.user_id = u
      /\ row.role \in InvitableRoles
  BY <1>3 DEF MemberRowOf, MemberRow, Ask, InvitableRoles, Roles
<1>5. \E role \in InvitableRoles :
          [team_id |-> t, user_id |-> u, role |-> role] \in team_members'
  BY <1>1, <1>3 DEF AddedMember, HasRole, MemberRowOf
<1>6. /\ teams' = teams /\ issued' = issued /\ posted' = posted
      /\ team_members' = team_members \cup {row} /\ ~ HasRole(t, u, Roles)
  BY <1>1 DEF AddedMember
<1>7. SoleOwner'
  <2>1. \E m \in team_members : m.team_id = t
    BY <1>3 DEF HasRole
  <2>2. \E team \in teams : team.id = t
    BY <1>0, <2>1 DEF SoleOwner
  <2>3. \A team \in teams : team.id = t => team.created_by # u
    BY <1>0, <1>6 DEF SoleOwner, HasRole, Roles
  <2> HIDE DEF t, u, row
  <2>4. \A team \in teams' : \A m \in team_members' :
            m.team_id = team.id => (m.role = RoleOwner <=> m.user_id = team.created_by)
    BY <1>0, <1>4, <1>6, <2>3 DEF SoleOwner, InvitableRoles, RoleOwner, RoleAdmin, RoleMember
  <2>5. \A team \in teams' : HasRole(team.id, team.created_by, {RoleOwner})'
    BY <1>0, <1>6 DEF SoleOwner, HasRole
  <2>6. \A m \in team_members' : \E team \in teams' : team.id = m.team_id
    BY <1>0, <1>4, <1>6, <2>2 DEF SoleOwner
  <2> QED BY <2>4, <2>5, <2>6 DEF SoleOwner
<1>8. MailedAreMembers' /\ MailedOnce'
  BY <1>0, <1>6 DEF MailedAreMembers, MailedOnce, HasRole
<1>9. \A team \in teams' : team.id \in issued'
  BY <1>6 DEF Inv
<1>10. ASSUME NEW q \in Requests, q # r PROVE Spared(q)
  <2>1. RequestInv(q)
    BY DEF Inv
  <2> QED BY <1>6, <2>1 DEF Spared, RequestInv, CreateInv, InviteInv
<1>11. CASE Answered(r)
  BY <1>0, <1>2, <1>7, <1>8, <1>9, <1>10, <1>11, AnswerIdle, IdleInv, OthersKept DEF Inv
<1>12. CASE Goto(r, "post") /\ UNCHANGED <<tx, arg>>
  <2>1. pc'[r] = "post" /\ arg'[r] = arg[r] /\ tx'[r] = NoRows
    BY <1>0, <1>3, <1>12 DEF Goto, TypeOK
  <2>2. \A i \in Invitation : i.team_id = t /\ i.user_id = u => posted'[i] = 0
    <3> SUFFICES ASSUME NEW i \in Invitation, i.team_id = t, i.user_id = u
                 PROVE  posted[i] = 0
      BY <1>6
    <3>1. ~ posted[i] > 0
      BY <1>0, <1>6 DEF MailedAreMembers, HasRole, InvitableRoles, Roles
    <3> QED BY <1>0, <3>1 DEF TypeOK
  <2>3. HasRole(t, arg[r].actor, {RoleOwner, RoleAdmin})'
    BY <1>3, <1>6, <2>1 DEF HasRole
  <2>4. RequestInv(r)'
    BY <1>3, <1>5, <2>1, <2>2, <2>3
       DEF RequestInv, CreateInv, InviteInv, CreateSteps, Pending, NoRows, HasRole
  <2>5. ASSUME NEW q \in Requests, q # r PROVE Distinct(r, q)'
    <3>1. pc[q] = "post" => HasRole(arg[q].team, arg[q].user, InvitableRoles)
      BY DEF Inv, RequestInv, InviteInv
    <3>2. pc[q] = "post" => arg[q].team # t \/ arg[q].user # u
      BY <1>6, <3>1 DEF HasRole, InvitableRoles, Roles
    <3> QED BY <1>2, <2>1, <2>5, <3>2 DEF Distinct, Pending, Same
  <2> QED BY <1>2, <1>7, <1>8, <1>9, <1>10, <2>4, <2>5, OthersKept DEF Inv
<1> QED BY <1>1, <1>11, <1>12

LEMMA PostInviteInv ==
  ASSUME Inv, TypeOK', NEW r \in Requests, PostInvite(r)
  PROVE  Inv'
<1> USE DEF db, mail
<1> DEFINE i == InvitationOf(arg[r])
<1>0. /\ TypeOK /\ SoleOwner /\ MailedAreMembers /\ MailedOnce /\ RequestInv(r)
      /\ pc[r] = "post"
  BY DEF Inv, PostInvite
<1>1. UNCHANGED <<users, teams, team_members, issued, delivered>>
  BY DEF PostInvite
<1>2. CASE Answered(r) /\ UNCHANGED posted
  BY <1>1, <1>2, RefusalInv
<1>3. CASE /\ Goto(r, "wait") /\ UNCHANGED <<tx, arg>>
           /\ posted' = [posted EXCEPT ![i] = @ + 1]
  <2>1. Grows /\ \A q \in Requests : q # r => Same(q)
    BY <1>0, <1>1, <1>3 DEF Grows, Goto, TypeOK, Same
  <2>2. /\ arg[r] \in Ask /\ arg[r].team \in Teams /\ tx[r] = NoRows
        /\ HasRole(arg[r].team, arg[r].actor, {RoleOwner, RoleAdmin})
        /\ HasRole(arg[r].team, arg[r].user, InvitableRoles)
        /\ arg[r].role \in InvitableRoles
        /\ \A j \in Invitation :
               j.team_id = arg[r].team /\ j.user_id = arg[r].user => posted[j] = 0
    BY <1>0 DEF RequestInv, InviteInv, CreateInv, InviteSteps, CreateSteps
  <2>3. /\ i \in Invitation /\ i.team_id = arg[r].team /\ i.user_id = arg[r].user
        /\ i.invite_by = arg[r].actor
    BY <2>2 DEF InvitationOf, Invitation, Ask
  <2>4. /\ posted'[i] = 1
        /\ \A j \in Invitation : j # i => posted'[j] = posted[j]
    BY <1>0, <1>3, <2>2, <2>3 DEF TypeOK
  <2>5. SoleOwner' /\ \A team \in teams' : team.id \in issued'
    BY <1>0, <1>1 DEF SoleOwner, HasRole, Inv
  <2>6. MailedAreMembers'
    BY <1>0, <1>1, <2>2, <2>3, <2>4 DEF MailedAreMembers, HasRole
  <2>7. MailedOnce'
    BY <1>0, <2>2, <2>3, <2>4 DEF MailedOnce
  <2>8. ASSUME NEW q \in Requests, q # r PROVE Spared(q)
    <3>1. RequestInv(q) /\ Distinct(r, q)
      BY <2>8 DEF Inv
    <3>2. Pending(q) => \A team \in teams' : team.id # arg[q].team
      BY <1>1, <3>1 DEF RequestInv, CreateInv
    <3>3. ASSUME pc[q] = "post", NEW j \in Invitation,
                 j.team_id = arg[q].team, j.user_id = arg[q].user
          PROVE  posted'[j] = 0
      <4>1. j # i
        BY <1>0, <2>3, <3>1, <3>3 DEF Distinct
      <4> QED BY <2>4, <3>1, <3>3, <4>1 DEF RequestInv, InviteInv
    <3> QED BY <3>2, <3>3 DEF Spared
  <2>9. pc'[r] = "wait" /\ arg'[r] = arg[r] /\ tx'[r] = NoRows
    BY <1>0, <1>3, <2>2 DEF Goto, TypeOK
  <2>10. RequestInv(r)'
    BY <1>1, <2>2, <2>9
       DEF RequestInv, CreateInv, InviteInv, CreateSteps, Pending, NoRows, HasRole
  <2>11. \A q \in Requests : Distinct(r, q)'
    BY <2>9 DEF Distinct, Pending
  <2> QED BY <2>1, <2>5, <2>6, <2>7, <2>8, <2>10, <2>11, OthersKept DEF Inv
<1> QED BY <1>2, <1>3, Zenon DEF PostInvite, Answered

----------------------------------------------------------------------------
(* The invariant and the theorems.                                         *)

LEMMA CreateInvStep ==
  ASSUME Inv, TypeOK', NEW r \in Requests, CreateStep(r)
  PROVE  Inv'
<1>1. ASSUME AbortCreate(r) PROVE Inv'
  <2>1. Answered(r) /\ UNCHANGED <<users, teams, team_members, issued, posted>>
    BY <1>1, Zenon DEF AbortCreate, Answered, db, mail
  <2> QED BY <2>1, RefusalInv
<1> QED BY <1>1, BeginInv, InsertTeamInv, InsertOwnerInv, CommitInv DEF CreateStep

LEMMA InviteInvStep ==
  ASSUME Inv, TypeOK', NEW r \in Requests, InviteStep(r)
  PROVE  Inv'
<1>1. ASSUME InviterLookupFails(r) \/ AddMemberFails(r) \/ MailFailed(r) \/ MailAccepted(r)
      PROVE  Inv'
  <2>1. Answered(r) /\ UNCHANGED <<users, teams, team_members, issued, posted>>
    BY <1>1, Zenon DEF InviterLookupFails, AddMemberFails, MailFailed, MailAccepted,
                       Answered, db, mail
  <2> QED BY <2>1, RefusalInv
<1> QED BY <1>1, BeginInv, CheckInviterInv, AddMemberInv, PostInviteInv DEF InviteStep

LEMMA StepInv == Inv /\ [Next]_vars => Inv'
<1> SUFFICES ASSUME Inv, [Next]_vars PROVE Inv'
  OBVIOUS
<1>1. TypeOK'
  BY StepType
<1>2. ASSUME NEW u \in Users, Register(u) PROVE Inv'
  <2>1. Quiet /\ UNCHANGED <<pc, arg, tx>>
    BY <1>2 DEF Register, Quiet, Grows, mail
  <2> QED BY <1>1, <2>1, BystanderInv
<1>3. ASSUME NEW r \in Requests, Refuse(r) PROVE Inv'
  <2>1. Answered(r) /\ UNCHANGED <<users, teams, team_members, issued, posted>>
    BY <1>3, Zenon DEF Refuse, Answered, db, mail
  <2> QED BY <1>1, <2>1, RefusalInv
<1>4. ASSUME NEW i \in Invitation, MailUnheard(i) PROVE Inv'
  <2>1. Quiet /\ UNCHANGED <<pc, arg, tx>>
    BY <1>4 DEF MailUnheard, Quiet, Grows, db
  <2> QED BY <1>1, <2>1, BystanderInv
<1>5. CASE UNCHANGED vars
  <2>1. Quiet /\ UNCHANGED <<pc, arg, tx>>
    BY <1>5 DEF vars, Quiet, Grows
  <2> QED BY <1>1, <2>1, BystanderInv
<1> QED BY <1>1, <1>2, <1>3, <1>4, <1>5, CreateInvStep, InviteInvStep, CrashInv DEF Next

LEMMA Invariant == Spec => []Inv
BY InitInv, StepInv, PTL DEF Spec

\* Type correctness of the tables, the locals of every request and the mail.
THEOREM TypeCorrect == Spec => []TypeOK
<1>1. Inv => TypeOK
  BY DEF Inv
<1> QED BY <1>1, Invariant, PTL

\* Every visible team has exactly one owner, its creator, whatever fails,
\* races or crashes in CreateTeamWithOwner and AddMember.
THEOREM OneOwner == Spec => []SoleOwner
<1>1. Inv => SoleOwner
  BY DEF Inv
<1> QED BY <1>1, Invariant, PTL

\* Nobody is mailed two invitations to one team.
THEOREM OneInvitation == Spec => []MailedOnce
<1>1. Inv => MailedOnce
  BY DEF Inv
<1> QED BY <1>1, Invariant, PTL

\* Whoever is mailed an invitation is a member, invited by an owner or admin.
THEOREM InvitedAreMembers == Spec => []MailedAreMembers
<1>1. Inv => MailedAreMembers
  BY DEF Inv
<1> QED BY <1>1, Invariant, PTL

----------------------------------------------------------------------------
(* Membership implements TeamDirectory: a COMMIT is the creation of the    *)
(* team, an INSERT the unique key lets through is the joining, and every   *)
(* other step leaves the three tables as they are.                         *)

\* Both modules take the roles from Schema.
LEMMA SameRoles ==
  /\ Directory!Roles = Roles /\ Directory!RoleOwner = RoleOwner
  /\ Directory!RoleAdmin = RoleAdmin
BY DEF Directory!Roles, Directory!RoleOwner, Directory!RoleAdmin, Directory!RoleMember,
       Roles, RoleOwner, RoleAdmin, RoleMember

LEMMA CommitCreates ==
  ASSUME Inv, NEW r \in Requests, CommitTeam(r)
  PROVE  Directory!Next
<1> DEFINE t == arg[r].team
<1> DEFINE u == arg[r].actor
<1>1. u \in Users
  BY CommitRows DEF Inv, TypeOK
<1>2. t \in Teams /\ Directory!CreateTeam(t, u)
  BY CommitRows, SameRoles DEF Directory!CreateTeam
<1> QED BY <1>1, <1>2 DEF Directory!Next

LEMMA AddedJoins ==
  ASSUME Inv, NEW r \in Requests, pc[r] = "add", AddedMember(r)
  PROVE  Directory!Next
<1>1. /\ arg[r] \in Ask /\ arg[r].team \in Teams
      /\ HasRole(arg[r].team, arg[r].actor, {RoleOwner, RoleAdmin})
      /\ arg[r].role \in InvitableRoles
  BY DEF Inv, RequestInv, InviteInv, InviteSteps
<1>2. /\ arg[r].actor \in Users /\ arg[r].user \in Users /\ arg[r].role \in Roles
      /\ arg[r].role # RoleOwner
  BY <1>1 DEF Ask, InvitableRoles, Roles, RoleOwner, RoleAdmin, RoleMember
<1>3. Directory!Join(arg[r].team, arg[r].actor, arg[r].user, arg[r].role)
  BY <1>1, <1>2, SameRoles DEF AddedMember, Directory!Join, Directory!HasRole, HasRole, MemberRowOf
<1> QED BY <1>1, <1>2, <1>3, SameRoles DEF Directory!Next

LEMMA StepImplements == Inv /\ [Next]_vars => [Directory!Next]_(Directory!vars)
<1> SUFFICES ASSUME Inv, [Next]_vars PROVE Directory!Next \/ UNCHANGED Directory!vars
  OBVIOUS
<1> USE DEF Directory!vars, db
<1>1. ASSUME NEW u \in Users, Register(u) PROVE Directory!Next
  BY <1>1 DEF Register, Directory!Register, Directory!Next
<1>2. ASSUME NEW r \in Requests, CreateStep(r)
      PROVE  Directory!Next \/ UNCHANGED Directory!vars
  BY <1>2, CommitCreates
     DEF CreateStep, BeginCreateTeam, InsertTeam, InsertOwner, AbortCreate
<1>3. ASSUME NEW r \in Requests, InviteStep(r)
      PROVE  Directory!Next \/ UNCHANGED Directory!vars
  <2>1. CASE AddMember(r)
    <3>1. pc[r] = "add"
      BY <2>1 DEF AddMember
    <3> QED BY <2>1, <3>1, AddMemberCases, AddedJoins
  <2> QED BY <1>3, <2>1
          DEF InviteStep, BeginInvite, CheckInviter, InviterLookupFails, AddMemberFails,
              PostInvite, MailAccepted, MailFailed
<1>4. CASE UNCHANGED vars
  BY <1>4 DEF vars
<1> QED BY <1>1, <1>2, <1>3, <1>4 DEF Next, Refuse, MailUnheard, Crash

\* Every behaviour of the service, with its races, crashes and lost answers,
\* is a behaviour of TeamDirectory.
THEOREM Implementation == Spec => ImplementsDirectory
<1>1. Init => Directory!Init
  BY DEF Init, Directory!Init
<1> QED BY <1>1, Invariant, StepImplements, PTL
        DEF Spec, ImplementsDirectory, Directory!Spec

----------------------------------------------------------------------------
(* What the answers say.                                                   *)

\* No answer, or one that promises nothing about the invitation.
Plain(r) ==
    \/ reply' = None
    \/ Answer(r, 201, FALSE) \/ Answer(r, 400, FALSE) \/ Answer(r, 409, FALSE)

LEMMA PlainHonest ==
  ASSUME NEW r \in Requests, Plain(r)
  PROVE  HonestReply'
<1>1. CASE reply' = None
  BY <1>1 DEF HonestReply
<1>2. CASE Answer(r, 201, FALSE) \/ Answer(r, 400, FALSE) \/ Answer(r, 409, FALSE)
  <2>1. reply'.status \in {201, 400, 409}
    BY <1>2 DEF Answer
  <2>2. reply'.status # 200
    BY <2>1
  <2> QED BY <2>2 DEF HonestReply
<1> QED BY <1>1, <1>2, Zenon DEF Plain

LEMMA UnsentHonest ==
  ASSUME NEW r \in Requests, Answer(r, 200, FALSE), Grows,
         HasRole(arg[r].team, arg[r].user, Roles)
  PROVE  HonestReply'
<1>1. /\ reply' = [status |-> 200, email_sent |-> FALSE, ask |-> arg[r]]
      /\ team_members \subseteq team_members'
  BY DEF Answer, Grows
<1>2. reply'.ask = arg[r] /\ ~ reply'.email_sent
  BY <1>1
<1>3. HasRole(reply.ask.team, reply.ask.user, Roles)'
  BY <1>1, <1>2 DEF HasRole
<1> QED BY <1>2, <1>3 DEF HonestReply

LEMMA SentHonest ==
  ASSUME Inv, NEW r \in Requests, MailAccepted(r)
  PROVE  HonestReply'
<1>1. /\ reply' = [status |-> 200, email_sent |-> TRUE, ask |-> arg[r]]
      /\ delivered' = [delivered EXCEPT ![InvitationOf(arg[r])] = @ + 1]
      /\ team_members' = team_members /\ pc[r] = "wait"
  BY DEF MailAccepted, Answer, db
<1>2. reply'.ask = arg[r]
  BY <1>1
<1>3. /\ arg[r] \in Ask /\ arg[r].team \in Teams
      /\ HasRole(arg[r].team, arg[r].user, InvitableRoles)
      /\ delivered \in [Invitation -> Nat]
  BY <1>1 DEF Inv, TypeOK, RequestInv, InviteInv, InviteSteps
<1>4. InvitationOf(arg[r]) \in Invitation
  BY <1>3 DEF InvitationOf, Invitation, Ask
<1>5. delivered'[InvitationOf(arg[r])] > 0
  BY <1>1, <1>3, <1>4
<1>6. HasRole(reply.ask.team, reply.ask.user, Roles)'
  BY <1>1, <1>2, <1>3 DEF HasRole, InvitableRoles, Roles
<1>7. delivered'[InvitationOf(reply'.ask)] > 0
  BY <1>2, <1>5 DEF InvitationOf
<1> QED BY <1>6, <1>7 DEF HonestReply, InvitationOf

LEMMA StepHonest == Inv /\ HonestReply /\ [Next]_vars => HonestReply'
<1> SUFFICES ASSUME Inv, HonestReply, [Next]_vars PROVE HonestReply'
  OBVIOUS
<1>1. ASSUME NEW r \in Requests, CreateStep(r) PROVE HonestReply'
  <2>1. Plain(r)
    BY <1>1, Zenon DEF CreateStep, BeginCreateTeam, InsertTeam, InsertOwner, CommitTeam,
                       AbortCreate, Goto, Plain
  <2> QED BY <2>1, PlainHonest
<1>2. ASSUME NEW r \in Requests, InviteStep(r) PROVE HonestReply'
  <2>1. CASE AddMember(r)
    <3>1. CASE Goto(r, "post") \/ Answer(r, 400, FALSE)
      <4>1. Plain(r)
        BY <3>1, Zenon DEF Goto, Plain
      <4> QED BY <4>1, PlainHonest
    <3>2. CASE /\ HasRole(arg[r].team, arg[r].user, Roles) /\ Answer(r, 200, FALSE)
               /\ UNCHANGED team_members
      <4>1. Grows
        BY <2>1, <3>2 DEF AddMember, Grows
      <4> QED BY <3>2, <4>1, UnsentHonest
    <3> QED BY <2>1, <3>1, <3>2, Zenon DEF AddMember, AlreadyMember
  <2>2. CASE PostInvite(r) \/ MailFailed(r)
    <3>1. pc[r] \in {"post", "wait"} /\ UNCHANGED <<users, teams, team_members, issued>>
      BY <2>2 DEF PostInvite, MailFailed, db
    <3>2. Grows /\ HasRole(arg[r].team, arg[r].user, Roles)
      BY <3>1 DEF Grows, Inv, RequestInv, InviteInv, HasRole, InvitableRoles, Roles
    <3>3. Plain(r) \/ Answer(r, 200, FALSE)
      BY <2>2, Zenon DEF PostInvite, MailFailed, Goto, Plain
    <3>4. CASE Answer(r, 200, FALSE)
      BY <3>2, <3>4, UnsentHonest
    <3> QED BY <3>3, <3>4, PlainHonest
  <2>3. CASE \/ CheckInviter(r) \/ InviterLookupFails(r) \/ AddMemberFails(r)
             \/ \E a, u \in Users, t \in Teams, role \in AskedRoles :
                    BeginInvite(r, a, t, u, role)
    <3>1. Plain(r)
      BY <2>3, Zenon DEF CheckInviter, InviterLookupFails, AddMemberFails, BeginInvite, Goto,
                         Plain
    <3> QED BY <3>1, PlainHonest
  <2> QED BY <1>2, <2>1, <2>2, <2>3, SentHonest DEF InviteStep
<1>3. ASSUME NEW r \in Requests, Refuse(r) PROVE HonestReply'
  <2>1. Plain(r)
    BY <1>3, Zenon DEF Refuse, Plain
  <2> QED BY <2>1, PlainHonest
<1>4. CASE (\E u \in Users : Register(u)) \/ (\E i \in Invitation : MailUnheard(i)) \/ Crash
  <2>1. reply' = None
    BY <1>4 DEF Register, MailUnheard, Crash
  <2> QED BY <2>1 DEF HonestReply
<1>5. CASE UNCHANGED vars
  BY <1>5 DEF vars, HonestReply, HasRole, InvitationOf
<1> QED BY <1>1, <1>2, <1>3, <1>4, <1>5 DEF Next

\* "email_sent": true means the email service has the invitation, and 200
\* means the invited user is in the team.
THEOREM HonestAnswers == Spec => []HonestReply
<1>1. Init => HonestReply
  BY DEF Init, HonestReply
<1> QED BY <1>1, Invariant, StepHonest, PTL DEF Spec

----------------------------------------------------------------------------
(* Invitations that are not mailed.                                        *)

\* The step takes back no membership, mails nothing and lets nobody mail.
MailsNothing ==
    /\ team_members \subseteq team_members'
    /\ posted' = posted
    /\ \A q \in Requests : pc'[q] = "post" => pc[q] = "post" /\ arg'[q] = arg[q]

LEMMA MailsNothingUnmailed ==
  ASSUME MailsNothing, NEW t, NEW u, Unmailed(t, u)
  PROVE  Unmailed(t, u)'
BY DEF MailsNothing, Unmailed, HasRole

LEMMA GotoMailsNothing ==
  ASSUME TypeOK, NEW r \in Requests, NEW step \in Steps \ {"post"}, Goto(r, step),
         \A q \in Requests : q # r => arg'[q] = arg[q],
         team_members' = team_members, posted' = posted
  PROVE  MailsNothing
BY DEF TypeOK, Goto, MailsNothing

LEMMA AnswerMailsNothing ==
  ASSUME TypeOK, NEW r \in Requests, Answered(r),
         team_members \subseteq team_members', posted' = posted
  PROVE  MailsNothing
<1>1. pc' = [pc EXCEPT ![r] = "idle"] /\ arg' = [arg EXCEPT ![r] = None]
  BY Zenon DEF Answered, Answer
<1> QED BY <1>1 DEF TypeOK, MailsNothing

LEMMA CreateMailsNothing ==
  ASSUME Inv, NEW r \in Requests, CreateStep(r)
  PROVE  MailsNothing
<1> USE DEF db, mail
<1>0. TypeOK /\ {"insert_team", "insert_owner", "commit"} \subseteq Steps \ {"post"}
  BY DEF Inv, Steps, CreateSteps
<1>1. ASSUME NEW u \in Users, BeginCreateTeam(r, u) PROVE MailsNothing
  BY <1>0, <1>1, GotoMailsNothing DEF BeginCreateTeam, TypeOK
<1>2. ASSUME NEW t \in Teams, InsertTeam(r, t) PROVE MailsNothing
  BY <1>0, <1>2, GotoMailsNothing DEF InsertTeam, TypeOK
<1>3. CASE InsertOwner(r)
  BY <1>0, <1>3, GotoMailsNothing DEF InsertOwner
<1>4. CASE CommitTeam(r) \/ AbortCreate(r)
  <2>1. Answered(r)
    BY <1>4, Zenon DEF CommitTeam, AbortCreate, Answered
  <2>2. team_members \subseteq team_members' /\ posted' = posted
    BY <1>4 DEF CommitTeam, AbortCreate
  <2> QED BY <1>0, <2>1, <2>2, AnswerMailsNothing
<1> QED BY <1>1, <1>2, <1>3, <1>4 DEF CreateStep

\* A request about to mail has just inserted the row of who it mails.
LEMMA AddMemberUnmailed ==
  ASSUME Inv, NEW r \in Requests, AddMember(r), NEW t, NEW u, Unmailed(t, u)
  PROVE  Unmailed(t, u)'
<1>0. TypeOK
  BY DEF Inv
<1>1. CASE /\ Answered(r)
           /\ UNCHANGED <<users, teams, team_members, issued, wire, posted, delivered>>
  BY <1>0, <1>1, AnswerMailsNothing, MailsNothingUnmailed
<1>2. CASE AddedMember(r) /\ Answered(r)
  BY <1>0, <1>2, AnswerMailsNothing, MailsNothingUnmailed DEF AddedMember
<1>3. CASE AddedMember(r) /\ Goto(r, "post") /\ UNCHANGED <<tx, arg>>
  <2>1. ~ (arg[r].team = t /\ arg[r].user = u)
    BY <1>3 DEF AddedMember, Unmailed
  <2>2. \A q \in Requests : q # r => pc'[q] = pc[q]
    BY <1>0, <1>3 DEF Goto, TypeOK
  <2>3. /\ team_members \subseteq team_members' /\ posted' = posted /\ arg' = arg
    BY <1>3 DEF AddedMember
  <2> QED BY <2>1, <2>2, <2>3 DEF Unmailed, HasRole
<1> QED BY <1>1, <1>2, <1>3, AddMemberCases

LEMMA PostInviteUnmailed ==
  ASSUME Inv, NEW r \in Requests, PostInvite(r), NEW t \in Teams, NEW u \in Users,
         Unmailed(t, u)
  PROVE  Unmailed(t, u)'
<1> DEFINE i == InvitationOf(arg[r])
<1>0. /\ TypeOK /\ team_members' = team_members /\ "wait" \in Steps \ {"post"}
      /\ pc[r] = "post"
  BY DEF Inv, PostInvite, db, Steps, InviteSteps
<1>1. CASE Answered(r) /\ posted' = posted
  BY <1>0, <1>1, AnswerMailsNothing, MailsNothingUnmailed
<1>2. CASE Goto(r, "wait") /\ arg' = arg /\ posted' = [posted EXCEPT ![i] = @ + 1]
  <2>1. i.team_id = arg[r].team /\ i.user_id = arg[r].user
    BY DEF InvitationOf
  <2>2. ~ (i.team_id = t /\ i.user_id = u)
    BY <1>0, <2>1 DEF Unmailed
  <2>3. ASSUME NEW a \in Users
        PROVE  posted'[[team_id |-> t, user_id |-> u, invite_by |-> a]] = 0
    <3> DEFINE j == [team_id |-> t, user_id |-> u, invite_by |-> a]
    <3>1. j # i /\ posted[j] = 0
      BY <2>2 DEF Unmailed
    <3>2. j \in Invitation
      BY DEF Invitation
    <3> HIDE DEF i, j
    <3>3. posted'[j] = 0
      BY <1>0, <1>2, <3>1, <3>2 DEF TypeOK
    <3> QED BY <3>3 DEF j
  <2>4. \A q \in Requests : pc'[q] = "post" => pc[q] = "post"
    BY <1>0, <1>2 DEF Goto, TypeOK
  <2> QED BY <1>0, <1>2, <2>2, <2>3, <2>4 DEF Unmailed, HasRole
<1> QED BY <1>1, <1>2, Zenon DEF PostInvite, Answered

LEMMA InviteUnmailed ==
  ASSUME Inv, NEW r \in Requests, InviteStep(r), NEW t \in Teams, NEW u \in Users,
         Unmailed(t, u)
  PROVE  Unmailed(t, u)'
<1> USE DEF db, mail
<1>0. TypeOK /\ {"role", "add"} \subseteq Steps \ {"post"}
  BY DEF Inv, Steps, InviteSteps
<1>1. ASSUME NEW a \in Users, NEW who \in Users, NEW team \in Teams,
             NEW role \in AskedRoles, BeginInvite(r, a, team, who, role)
      PROVE  MailsNothing
  BY <1>0, <1>1, GotoMailsNothing DEF BeginInvite, TypeOK
<1>2. CASE CheckInviter(r)
  <2>1. CASE Goto(r, "add") /\ arg' = [arg EXCEPT ![r].role = RequestedRole(@)]
    <3>1. \A q \in Requests : q # r => arg'[q] = arg[q]
      BY <1>0, <2>1 DEF TypeOK
    <3>2. MailsNothing
      BY <1>0, <1>2, <2>1, <3>1, GotoMailsNothing DEF CheckInviter
    <3> QED BY <3>2, MailsNothingUnmailed
  <2>2. CASE Answered(r)
    BY <1>0, <1>2, <2>2, AnswerMailsNothing, MailsNothingUnmailed DEF CheckInviter
  <2> QED BY <1>2, <2>1, <2>2, Zenon DEF CheckInviter, Answered
<1>3. CASE InviterLookupFails(r) \/ AddMemberFails(r) \/ MailAccepted(r) \/ MailFailed(r)
  <2>1. Answered(r)
    BY <1>3, Zenon DEF InviterLookupFails, AddMemberFails, MailAccepted, MailFailed, Answered
  <2>2. team_members' = team_members /\ posted' = posted
    BY <1>3 DEF InviterLookupFails, AddMemberFails, MailAccepted, MailFailed
  <2> QED BY <1>0, <2>1, <2>2, AnswerMailsNothing, MailsNothingUnmailed
<1> QED BY <1>1, <1>2, <1>3, MailsNothingUnmailed, AddMemberUnmailed, PostInviteUnmailed
        DEF InviteStep

LEMMA StepUnmailed ==
  ASSUME Inv, [Next]_vars, NEW t \in Teams, NEW u \in Users,
         Unmailed(t, u)
  PROVE  Unmailed(t, u)'
<1> USE DEF db, mail
<1>1. ASSUME NEW r \in Requests, Refuse(r) PROVE MailsNothing
  <2>1. Answered(r) /\ team_members' = team_members /\ posted' = posted
    BY <1>1, Zenon DEF Refuse, Answered
  <2> QED BY <2>1, AnswerMailsNothing DEF Inv
<1>2. CASE (\E who \in Users : Register(who)) \/ (\E i \in Invitation : MailUnheard(i))
           \/ Crash \/ UNCHANGED vars
  <2>1. MailsNothing
    BY <1>2 DEF Register, MailUnheard, Crash, vars, MailsNothing
  <2> QED BY <2>1, MailsNothingUnmailed
<1> QED BY <1>1, <1>2, CreateMailsNothing, InviteUnmailed, MailsNothingUnmailed DEF Next

\* A member whose invitation was not mailed when it should have been is never
\* mailed one, by no retry and no other inviter.
THEOREM NoLateInvitation == Spec => UnmailedForGood
<1>1. Inv /\ [Next]_vars =>
          [\A t \in Teams, u \in Users : Unmailed(t, u) => Unmailed(t, u)']_vars
  BY StepUnmailed
<1> QED BY <1>1, Invariant, PTL DEF Spec, UnmailedForGood
=============================================================================
