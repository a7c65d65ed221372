------------------------------- MODULE Schema -------------------------------
(***************************************************************************)
(* The vocabulary shared by the Go code and the MySQL schema: the roles    *)
(* and task statuses each side knows, and which of the values and          *)
(* statements the Go code sends the schema accepts.                        *)
(***************************************************************************)

\* models.TeamMemberRole; ENUM of team_members.role.  The two agree.
RoleOwner  == "owner"
RoleAdmin  == "admin"
RoleMember == "member"
Roles      == {RoleOwner, RoleAdmin, RoleMember}

\* models.TaskStatus: the statuses the use cases validate against.
StatusToDo == "to_do"
TaskStatus == {StatusToDo, "in_progress", "done"}

\* ENUM of tasks.status.  MySQL 8.4 runs in strict mode, so an INSERT of a
\* string outside the enumeration is an error and inserts nothing.
EnumTaskStatus == {"todo", "in_progress", "done"}

\* What a JSON body or a query string may carry where a status is expected:
\* nothing, a status of either vocabulary.
RequestStatus == {""} \cup TaskStatus \cup EnumTaskStatus
=============================================================================
