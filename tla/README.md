# task_service: TLA+ models, checks and proofs

task_service is an HTTP service for teams and their tasks, written in Go, with
MySQL for what must last, Redis for a list cache and a rate limit, and an email
service for invitations. This directory holds TLA+ modules of its core logic, TLC
configurations that check them on small instances, and proofs that TLAPS checks
for every value of the constants. `PROJECT.json` maps each definition to the lines
of `src/` it stands for and lists runs, mutated definitions, findings, hazards and
theorems.

Contents: 1 the system, 2 the modules, 3 the runs, 4 fairness, 5 the proofs,
6 where code and documents disagree, 7 what is not modelled, 8 the plan and what it
has left.

## 1. The system

Requests pass `app/server.go`'s chain (a 30 s context, JWT middleware, rate limit)
to a handler, which decodes, calls a use case, which calls repositories (MySQL),
the cache (Redis) and the email client. Every request is a goroutine; nothing in
the process is shared between requests but the pools and the circuit breaker, so
requests meet in MySQL, in Redis and in the email service.

| Component | State it keeps | Operations | Talks to |
|---|---|---|---|
| Teams, memberships, invitations (`handler/team_handler.go`, `core/usecase/team.go`, `repo/team_repo.go`) | tables `users`, `teams`, `team_members` | CreateTeam (transaction of two INSERTs), Invite (role, INSERT, mail), ListTeams | MySQL; email |
| Task lists and creation (`task_handler.go`, `usecase/task.go`, `task_repo.go`, `cache/tasks_cache.go`) | table `tasks`; Redis keys for list versions and lists | Create, List | MySQL; Redis; memberships |
| Task update, history, comments (same files) | `tasks`, `task_history`, `task_comments`, row locks | Update, History, AddComment, ListComments | MySQL; memberships; list version |
| Rate limit (`app/middleware_ratelimit.go`) | one Redis counter per user and minute | INCR + EXPIRE before each authenticated request | Redis |
| Email client (`email/client.go`) | a circuit breaker | SendInvite | email service |
| Registration, login, tokens (`usecase/auth.go`, `user_repo.go`, `jwt/`, `infra/jwt/`) | table `users` | Register, Login, token check | MySQL |
| Reports (`usecase/report.go`, `repo/reports_repo.go`) | none (three queries) | TeamStats, TopCreators, invalid assignees | MySQL |
| Server, configuration, shutdown (`cmd/main.go`, `app/server.go`, `config/`, `db/`) | the pools, connections of clients | start, serve, drain, close, exit | all |
| Logging, metrics, JSON helpers | counters, log lines | | |

Hard behaviour, and the property that makes each component right:

- *Teams.* The two INSERTs of CreateTeam with a crash or failure between them; a
  COMMIT whose answer is lost; the inviter's role read two calls before the row is
  inserted, with no transaction; two admins inviting one user; a retried
  invitation; a POST that times out and is delivered later. Right when every
  visible team has exactly its creator as owner, nobody is mailed twice or before
  being a member, what the answer says is true, and all of it looks like the atomic
  operations of TeamDirectory.
- *Lists.* Five Redis calls, each of which may fail; a SELECT whose rows are stored
  later under a version read later; a bump lost to a crash; keys that expire. Right
  when a list only has tasks of the filter it was asked for, is served to members
  only, is not older than a bound, and is never failed by Redis.
- *Editing.* Row lock from SELECT ... FOR UPDATE to COMMIT; permission checked on a
  row read before the lock; UPDATE and history rows in one transaction with eight
  error returns. Right when every change of a field has its history row with the
  value it replaced, only those entitled change a task, and no error keeps the lock.
- *Rate limit.* A pipeline is no transaction and go-redis repeats it; the bucket is
  computed before the INCR; every request extends the counter's life. Right when at
  most the limit passes in a minute and 429 has a cause.
- *Breaker.* It has no clock: it looks at the time when a POST begins or ends, and a
  result may come after the window or the trial it belongs to. Right when it behaves
  like one with a clock, and never refuses for ever.
- *Registration, login, tokens.* Registrations of one address race, in spellings that
  the collation takes for the same; bcrypt may outlast the request; the INSERT may be
  committed and its answer lost, or written after the WriteTimeout; Login goes on
  after it answered 400; tokens outlive the process. Right when whoever was told 201
  owns the account, a token was only ever given for the account's password, and an
  owner is let in.
- *Reports.* Joins, ties, and pages cut out of a list that changes between them. Right
  when counts are what their names say (one is not, section 6), ranks are fair, and a
  reader misses no more than the changes account for.
- *Server.* Requests before, during and after the signal; Redis and MySQL closed after
  30 s whatever still runs. Right when a request that came before the signal has
  both pools for all its time, and the process ends.

The complete list of hazards, each with its line and the properties that would
catch it, is `PROJECT.json` "hazards".

## 2. The modules

One action is one call that leaves the process (a statement, a commit, a Redis
command, a POST) together with everything the handler does until the next such
call: the checks on what the call returned, and the answer to the client if it was
the last. Between calls requests interleave in every order. `pc[r]` names the next
call of request slot `r`, `arg[r]` what it asks; a slot that has answered is free
again, so slots bound how many requests run at the same time, not how many ever
run. `reply` is the answer of the last step only, together with what was asked; it
is how properties speak of answers without a history.

**Schema** - the two vocabularies of roles and statuses: `models/*.go` and the ENUMs
of `migrations/001_init.sql`. They differ on one status (section 6).

**TeamDirectory** - the abstract specification: register, create a team with its
owner, let a member join while somebody who may invite invites; one step each.

**Membership** - TeamHandler, TeamUseCase, TeamRepo and email. `teams` and
`team_members` are committed rows; `tx[r]` the rows of r's open transaction, which
CommitTeam makes visible together and every other end drops. CreateTeam is
InsertTeam, InsertOwner, CommitTeam (or AbortCreate at each); `issued` are the
values AUTO_INCREMENT gave, also to transactions rolled back. Invite is CheckInviter
(GetUserRole and the role checks), AddMember (unique key, foreign key), PostInvite
(the breaker may refuse), MailAccepted or MailFailed. `wire` are POSTs in flight:
MailUnheard delivers or loses one that nobody waits for any more. InviterLookupFails
is GetUserRole returning `"", nil` on an error that is not ErrNoRows.

**TaskBoard** - the abstract specification of tasks being created and listed: a request
puts at most one row on the board, is told 201 only for a row that is there, and a list
is one look at the board, of a member, through the filter, that may be `Staleness` old.
400 says nothing: the row may be there. There are no statements, no cache and no
faults in it but the crash, which forgets requests and no row.

**TaskLists** - TaskUseCase.Create and List with TaskRepo and the cache. `ver[t]` is
the version key (0: absent), `lists` the cached lists with key and expiry. A list is
kept as what its SELECT saw before LIMIT and OFFSET plus the page it cut, so that
staleness and paging can be told apart. `start[r]` is when r's context began; a call
succeeds only while the context is live, fails when the other side fails (`Faults`)
or the context ended, and an INSERT MySQL already holds may still be executed after
it. Redis may restart empty; the server may crash.

**TaskAudit** - the abstract specification of editing: a PUT that changes something is
one step, by somebody who may edit, that changes the fields and adds one row of
history for each of them and none for any other; a comment is one step of a member.

**TaskEdit** - Update, History, AddComment, ListComments on the tasks of one team.
`cur[r]` is the row r read last, `lock[t]` who holds the row lock, `written[r]` the
history rows its open transaction inserted. Which fields count as changed is
`Changed`, the cascade of `task_repo.go` 178-219 with its missing case; `HistoryRow`
records the new status as the old one, as the code does. `Refused` are the
statements MySQL refuses whatever their arguments: the set `AsWritten` for the
texts in this repository against its schema, `{}` for a database that takes them,
so that the logic behind the broken texts can be checked as well. A statement outside
a transaction needs a connection of the pool that no transaction holds (`FreeConn`),
and `BeginTx` takes one until the request answers, lock wait included: this is where
requests could all wait for each other, and with UpdateOnPool they do. The version
that Update bumps is BumpByUpdate of TaskLists. A JSON null is the same as a missing field to the
handler, so no body takes an assignee away.

**RateLimit** - the middleware. A request reads the clock (`Arrive`), then INCR, then
EXPIRE; the connection may break before, between or after, and go-redis sends the
pipeline again up to `Retries` times. `arrived` and `passed` count per user and
minute; they are what the properties compare and no action reads them except for
the bound `MaxArrived`.

**CircuitBreaker** - what the email client may expect, told by a clock: closed, open for
Timeout, then MaxRequests trials, of which one failure opens and MaxRequests successes
close.

**Breaker** - gobreaker v1.0.0 with the settings of `email/client.go` 25-33. `cb` is the
breaker with its counts and the time to its expiry, `posts` the POSTs on their way,
`mine` those that began in the present generation. `Current` and `Own` are what
currentState makes of them now: the generation changes only when somebody looks.
Execute is beforeRequest and the POST's departure, Finish its end and afterRequest; a
result of an older generation is dropped (`Ignored`). That a failure in half-open opens
at once, and that MaxRequests *consecutive* successes close, are the library's. In
Membership the breaker is a free choice to refuse, which covers everything Breaker does.

**Auth** - AuthHandler, AuthUsecase, UserRepo, package auth. Register is Register (the
checks), Hash (bcrypt), then InsertUser, InsertConflict (1062 of the unique key) or
InsertFails (any other error, the row committed or not). Login is Login, GetByEmail or
GetByEmailFails, Compare, with the token. Emails are kept as ToLower and TrimSpace leave
them and compared by `Collation`, as utf8mb4_unicode_ci does. `Fit` are the passwords of
8 bytes or more that bcrypt takes. A body may be `decoded` or not: DecodeJSON reports
an unknown field after having decoded the rest, and Login goes on with that.
`delivered` says whether the client hears the answer: a 201 that nobody heard makes no
`welcomed`, a token nobody got is no token. A token is its user, what it was given for,
and the time it has left. `Access` is the middleware.

**Server** - main, NewServer and Close around the requests of Auth, whose slots are its
connections. `phase` is how far main has come; OpenMySQL, OpenRedis and Listen may each
end the process. A connection is new, active or idle; `age[r]` is the age of its request,
past RequestTimeout the context has ended and MySQL cannot be asked any more, past
WriteTimeout (the shorter of the two) an answer does not reach the client. After the
Signal Shutdown closes idle connections, and new ones after a grace; ShutdownReturns when none is left or
`drain` is over; then CloseRedis, CloseMySQL, Exit. Kill is a crash. Every step is a step
of Auth or leaves it alone, which the property AuthSpec checks: so what is proved of Auth
holds of the server with its restarts.

**Reports** - ListTeamsByUser and the three queries of ReportsRepo as operators on the
tables: `Joined` is the LEFT JOIN of one team, with DoneCount and MembersCount counting its
rows; `Rank` is ROW_NUMBER; `Window` is LIMIT and OFFSET on `Invalid` by `Place`. An answer
is the set of its rows: its order counts only where it cuts. The tables grow by
the commits of CreateTeamWithOwner, AddMember, InsertTask and UpdateTask, and time by
Day; timestamps are ages, cut off where no window can tell them apart. `Rows` are tasks
that anybody may have inserted: the program assigns a task to members only (TaskEdit's
MembersOnly), the integrity report is there for rows from elsewhere. `reader` is a client
that asks for page after page, moving on by what it got, with the history the property
needs (`standing`, `gone`).

**MembershipProofs**, **TaskListsProofs**, **BreakerProofs**, **AuthProofs**,
**TaskEditProofs**, **RateLimitProofs**, **ServerProofs**, **ReportsProofs** - the
theorems. **MC*** - instances for TLC: model values, symmetry sets, bodies and rows.

Membership and TaskLists meet in the memberships: TaskLists' Join and TaskEdit's
Join are the one-step commits of CreateTeam and Invite, which Implementation
(section 5) justifies; nobody ever leaves a team, no route does that.

Right above a definition that a run is tested with stands its *mutated form*, a
plausible bug (`AnyRole`, `ReadTask`, `ExpireWithBucket`...). It is used nowhere;
put in the place of the definition it makes the property of the run fail, which is
how each property is known to depend on the code.

## 3. The runs

Run with `tlc -config X.cfg M`. All bounds are in the cfg files.

| Run | Bounds | What it checks |
|---|---|---|
| `membership` (MCMembership.cfg) | 3 users, 1 team id, 2 requests at a time, roles "", admin, owner | TypeOK, SoleOwner, MailedOnce, MailedAreMembers, HonestReply, UnmailedForGood; implements TeamDirectory |
| `lists_stale` (MCTaskListsStale.cfg) | 1 user, 1 task id, filters "" and done, 2 requests, TTL 1, Deadline 1, clock to 3, Redis may fail | TypeOK, BoundedStaleness, RedisNeverFailsAList; implements TaskBoard (ImplementsBoard) |
| `lists_rows` (MCTaskListsRows.cfg) | 2 users, 3 assignee filters, 2 requests, MySQL and the server may fail | ServedRowsMatch, ServedToMembers, TasksOfMembers |
| `task_edit` (MCTaskEdit.cfg) | 2 users, 1 task, 2 requests, 2 connections, 3 bodies (two of two fields each, one with a status MySQL refuses), history up to 2 rows before the last PUT, all faults, statements accepted | TypeOK, MembersOnly, ChangesAreRecorded, EditorsEntitled; implements TaskAudit (ImplementsAudit) |
| `task_edit_live` (MCTaskEditLive.cfg) | 1 user, 1 task, 3 requests, 2 connections, 3 bodies, statements as written, failures and crashes, fairness | LocksReleased, RequestsAnswered |
| `rate_limit` (MCRateLimit.cfg) | 1 user, 2 requests at a time, 3 per minute, limit 2, minute 3, life 4, delay 1, 1 retry, clock to 5 | TypeOK, PromptLimit, RefusedForCause |
| `breaker` (Breaker.cfg) | 3 callers, MaxRequests 2, Interval 2, Timeout 2, MinRequests 3, counts to 4, fairness | TypeOK, WindowAccount, TrialEnds, Recovers; implements CircuitBreaker (KeepsPromise) |
| `server` (MCServer.cfg) | 2 connections, 4 bodies (two spellings of one address, two passwords, one body not decoded, one address not accepted), 1 user id, TTL 1, RequestTimeout 2, WriteTimeout 1, NewGrace 1, DrainTimeout 2, MySQL may fail, fairness | TypeOK, WelcomedOwnTheAccount, TokensOfOwners, OwnerGetsIn, PoolsOutliveRequests, Exits; implements Auth (AuthSpec) |
| `reports` (MCReports.cfg) | 2 users, 2 teams, 3 tasks of 3 kinds, both windows one step, 1 rank, limits up to 2 and one above, tables stop at 2 tasks while somebody reads pages | TypeOK, StatsAgree, RanksFair, PagesMissFew |
| `put_applied`, `page_served`, `team_stats` | 1 or 2 users, 1 or 2 requests | one violated property each, section 6 |

Why the bounds are enough:

- *Membership.* Three users are an owner, an inviter other than the owner, and one
  who is invited; two requests give every race of two, and a slot is used again and
  again, so retries and late deliveries happen as well. With one team id a second
  CreateTeam meets an exhausted AUTO_INCREMENT; teams do not interact, and the
  proofs hold for any number.
- *Lists.* The longest chain: a SELECT at 0, an INSERT right after it, the rows
  stored at 1, when the context ends, and served just before they expire at 2. A clock
  to 3 sees one tick beyond. With a context that never ends (`LiveForever`) the run
  finds a list older than the bound, so it is long enough to tell. One task id is
  enough for a list that misses a task.
- *Edit.* Two bodies change four fields, two each, so the second update meets the
  first one's status, description and assignee; u1 takes the task from u2 while u2 is
  editing. The third body has the status that the code takes and the ENUM does not.
  `MaxHistory` is checked when a PUT begins: two PUTs begun together write
  up to four rows. One comment is enough, comments do not depend on each other.
- *Rate limit.* The real 60, 70 and 30 s are 3, 4 and 1 ticks. What matters is whether
  the delay fits in the ten seconds between bucket and life (`Prompt`). The clock
  reaches into the second minute, far enough for every counter of the first to
  expire. Three arrivals are one more than the limit.
- *Edit, liveness.* Three requests on two connections: two may hold both while the
  third waits, and one of the two may wait for the other's row lock.
- *Breaker.* Three callers, of whom two may still be on their way when the third begins
  in the next generation; two trials, so that one may succeed and the other fail; an
  interval and a timeout of two ticks, so that a look may come between. Counts stop
  at 4, one above what opens the breaker.
- *Server.* Two registrations of one address in two spellings with different
  passwords, and then one of them logging in; a second login under a body that was not
  decoded. RequestTimeout is as long as the drain, as in the code (30 s and 30 s), and
  WriteTimeout shorter. A second user id would only serve a second address, which has
  no row in common with the first; the proofs hold for any number.
- *Reports.* Two members and tasks of two creators are enough for the join to multiply
  and for a tie at the last rank; two windows of one step still tell created from
  updated. A list of two tasks and pages of one or two rows have a reader between two
  pages while rows go and come.

Deadlock is checked in every run. No run needs a state constraint; the bounds
are guards of `Tick`, `BeginUpdate`, `BeginOther`, `Arrive`, and of the actions that
grow the tables of Reports.

What the passing runs show, in words:

- *ImplementsDirectory*: two unsynchronised calls, role check and INSERT, do not let
  anybody in by somebody who may no longer invite. This rests on a fact about the
  whole program: no statement lowers a role or removes a member. A route that did
  would break it.
- *HonestReply*: `email_sent: true` means the email service took the invitation. (The
  converse does not hold: false may be said of one that is delivered later.)
- *UnmailedForGood*: whoever became a member without an invitation being mailed (the
  breaker refused, the server died between INSERT and POST) never gets one, because a
  repeated invitation stops at the row it finds. This is a loss, and it is also what
  keeps MailedOnce; a retry that mailed for a row it found (`MailAgain`) breaks both.
- *ImplementsBoard*: the five Redis calls, the two versions, the bump, lost answers and
  crashes cannot be told from one look at the table. It says what the other properties of
  lists leave open: that a request makes one row and not two (`InsertTaskRetried`, a
  repeated INSERT), that 201 names a row which is there, and that all rows of an
  answer belong to the same look.
- *BoundedStaleness*: a list may miss a task for TTL plus the life of a request, not
  for TTL only, since the TTL runs from SetTasks and the rows are from the SELECT
  before it. The version in the key does not make this any better (section 6).
- *ChangesAreRecorded*: the history is complete and its old values are the ones
  replaced, statuses apart, because both are computed from the row read under the
  lock. With `ReadTask` (no FOR UPDATE) two updates record an old value that was gone.
- *ImplementsAudit* is the other half of it: no row of history without a change, no field
  recorded twice by one PUT, in the same step as the change, and what was checked before
  the lock (the user, the assignee, the status) still good at the COMMIT.
  `UnrecordedGiven`, which records every field of the body whether it changed or not,
  satisfies ChangesAreRecorded and not this.
- *EditorsEntitled* is stated with "was the assignee at some time", not "is": the
  permission is checked on the row of Get, before the lock, and somebody who lost
  the task in between still edits it. That is the strongest form that holds.
- *PromptLimit*: the counter outlives the minute long enough when requests take at
  most ten seconds from the clock to Redis. *RefusedForCause* has the factor
  1 + Retries for the same reason the code has: a request whose pipeline was repeated
  is counted again.
- *RequestsAnswered*: no set of requests waits for itself, because a transaction sends
  all its statements on the connection it has. With one statement sent through the
  pool (`UpdateOnPool`) all connections wait for one more.
- *KeepsPromise*: an outside observer cannot tell the breaker from one with a timer.
  *WindowAccount* is why: a POST that ends after its generation does not count. *Recovers*
  assumes nobody: a breaker that is not asked admits the next one who asks, and if people
  go on inviting it closes.
- *WelcomedOwnTheAccount*: the unique key alone decides a race of two registrations, in
  whichever spelling; GetByEmail before the INSERT would not be enough and is not
  there. *OwnerGetsIn* has MySQL's failure as the one excuse for a 401, since
  AuthUsecase.Login makes ErrUnauthorized of every error.
- *PoolsOutliveRequests* is stated for requests that came before the signal. The drain
  is as long as a request may live, and not a second longer: one that comes during the
  drain may meet closed pools. *Exits* needs the timeout of Shutdown, since a
  handler may hang.
- *PagesMissFew*: who reads the integrity report page after page misses at most as many
  rows that stand there all the time as rows left the list meanwhile: each of them
  moves the next page by one. LIMIT and OFFSET give no more.

## 4. Fairness

- `TaskEdit!FairSpec`: `SF(Statement(r))` for every request. A statement that can be
  sent again and again is: MySQL answers or the 30 s context and the lock wait timeout
  end the call, InnoDB grants a row lock in turn, and database/sql serves who
  waits for a connection in turn. Strong, because lock and connection may be taken by
  others in between.
- `Breaker!FairSpec`: `WF(Tick)`, and `WF(Finish(c))`, because http.Client's timeout ends
  every POST. Nobody has to invite; Recovers closes the breaker only if people do.
- `Server!FairSpec`: `WF(Tick)` and `WF(Down)`: the clock runs, and main goes on when
  what it waits for has come. Nothing is assumed of handlers, clients or MySQL.

No fairness is assumed for arrivals, failures or crashes. The other modules
promise no liveness: an invitation is not promised to be mailed, a version not to be
bumped.

## 5. The proofs

`tlapm` on each of the eight proof modules checks everything below for any sets of
users, teams, tasks, any number of requests and any bounds. The assumptions are the
named ASSUMEs of the modules, and say what the code and the schema give:

- Membership: the asked roles are roles or "". TaskLists: TTL (above 0), Deadline and
  task ids are natural numbers, pages pairs of integers, statuses those a request may
  carry and assignees users or `None`.
- TaskEdit: rows and bodies have the four fields; a stored row has no missing field, a
  body no NULL; there is a connection. *Which* statements MySQL refuses is free.
- RateLimit: limit, minute and life above 0, everything else natural; finitely many
  requests in flight. Nothing about `Prompt`: it is in the property.
- Breaker: finitely many callers; settings above 0. Auth: what bcrypt takes are
  passwords, the collation is defined on emails, a token lives a positive time.
- Server: the life of a request is at most the drain (`RequestTimeout <= DrainTimeout`),
  as `server.go` and `main.go` have it.
- Reports: user ids are natural numbers, inserted rows have the columns of `tasks`; windows
  and limits are natural, the default limit is at most the largest; a client may ask for
  any integer.
- everywhere: `None` is none of the values it stands beside.

**Membership** (`Inv` in MembershipProofs). The properties are not inductive alone.
SoleOwner needs to know what a transaction holds before its commit; MailedOnce that
the slot about to post is the only one that can post for its pair. `Inv` adds:

- `RequestInv`, by `pc`: a creating request's `tx` holds exactly the team row, then
  also the owner row, of an id that was issued and is in no table (CreateInv); a
  request at "add" has an inviter who may invite, one at "post" has its member row in
  the table, its pair never posted (InviteInv);
- `Distinct`: two requests never create the same id, nor post for the same pair, which
  AUTO_INCREMENT and the unique key give;
- ids of committed teams have been issued;
- `TypeOK`, and the three properties SoleOwner, MailedAreMembers and MailedOnce
  themselves.

A step changes one request and the tables only grow (`Grows`), so what the others
know stays true: the frame lemmas SameKept, OthersKept and QuietKept say this once, and
each action needs one lemma of its own. From `Inv` follow TypeCorrect, OneOwner,
OneInvitation, InvitedAreMembers. NoLateInvitation (UnmailedForGood) needs the same two
facts about the pair as MailedOnce: POSTs are made at "post" only, and the way to "post"
is an INSERT, which the row of an unmailed member prevents. HonestAnswers is a step argument on top of `Inv`:
an answer is true when it is sent, `reply` is reset by every other step.
Implementation maps CommitTeam to CreateTeam, AddMember to Join and everything else
to a stutter; that the inviter may still invite is InviteInv at "add".

**TaskLists** (`Inv` in TaskListsProofs). `Sound(read, filter)` says that a read is of
rows that exist and match, and misses only tasks committed at or after its time. It
holds of what a request read (RequestInv) and of each cached entry, whose expiry is at
most TTL + Deadline after its read. `Growth` (tasks and members only
grow, the clock does not go back, new tasks carry the present time) keeps `Sound`
true. TypeCorrect and TaskIntegrity follow from `Inv`; StalenessBound,
CacheServesTheFilter and MembersOnly are again properties of the moment of an
answer (`Served`), proved as a step argument.

BoardImplemented maps `arg` to what is asked and the requests at "bump" to those that
know of their row (IdleInv: a free slot holds nothing). The INSERT is Insert, and every
answer the abstract one of its kind; a list from the cache is the look its entry was
made from (HitIsFresh), one from MySQL the look of its own SELECT (OwnReadIsFresh),
with `Staleness` = TTL + Deadline. All steps of the cache map to Work.

CacheIsOptional (RedisNeverFailsAList) is the same kind of argument: of the steps that
may answer an error, none is one of a Redis call.

**TaskEdit** (`Inv` in TaskEditProofs), a conjunction by request:

- `AskInv`: what a request asks is a question, and one that is past the membership check
  is a member's. `EditInv`: whoever is past CheckEditor is entitled. Both stay true
  because members, creators and the history only grow (`Grows`); this is where the
  permission read before the lock is enough for the weaker EditorsEntitled.
- `TxInv`: whoever is past the lock holds it, `cur` is the committed row, and `written`
  are rows for changes of it, with the old values of `cur`. One request's commit cannot touch another's `cur`, because the lock has one holder. At
  "commit" no change is `Unrecorded`, which gives ChangesAreRecorded.
- of the tables: assignees and authors of comments are members, every row of the
  history was written by somebody entitled.

TypeCorrect, MembersAlone, HistoryIsComplete and OnlyEntitledEdit follow.
AuditImplemented needs more than `Inv`, since what is *not* written counts as well:
`ExactInv` adds that no field is twice in `written`, and how far a status has come
(CheckEditor's vocabulary until the UPDATE, both vocabularies after it, unless nothing
changes). With it a COMMIT is the abstract Edit (CommitAudit), or a stutter when the body
changes nothing; the INSERT of a comment is Comment; everything else stutters.

**RateLimit** (`Inv` and `Budget` in RateLimitProofs), two ways of counting:

- for MinuteLimit, `Account`: while Redis keeps its keys and requests are prompt, `passed[k]`
  and the requests that hold a value within the limit and have not been answered
  (`Pending`) are together at most the counter and at most the limit. `Expiry` says
  that a counter does not go while a request of its minute may still count on it.
- for RefusalHasCause, `Budget`: the counter and the tries that requests in flight have left
  (`Tries`, kept as a finite set so that its cardinality can be reasoned about) are at
  most (1 + Retries) times the arrivals. INCR moves one from the second to the first.

**Breaker** (`Inv` in BreakerProofs): TypeOK and `Account(cb, mine)`, the counts of a
generation as a relation between a breaker and a set of requests. Stated like that it
can be said of what is stored and of what currentState makes of it (`Current`, `Own`),
and the second follows from the first. BreakerImplements maps each step to one of
CircuitBreaker, seen through `Current`: a Tick that lets the timeout run out is the
abstract step to the trial, though the stored breaker does not change.

**Auth** (`Inv` in AuthProofs): `UniqueKey` (an address has one row, in
whatever spelling), `RequestInv` by `pc` (what Compare looks at is a committed row of
that address; a password that reaches the INSERT is one bcrypt took), and
WelcomedOwnTheAccount and TokensOfOwners themselves. `Growth`: rows stay, and
a new row has a new address. **Server**: ServerImplementsAuth shows each step to be a
step of Auth or a stutter, with which AuthSurvives takes the theorems of Auth to a
server with connections, timeouts, drain and restarts. PoolsAreThere has one
inductive fact of its own: during the drain the age of a request that came before the
signal and what is left of the drain are together at least RequestTimeout.

**Reports** (ReportsProofs). Top creators and the pages cut a finite ordered set by the
place of a row (`Upto`, `First`), so that is proved once for any order: the first n
are n or all (FirstCount), places have no gaps (PlacesFull), who leaves lets at most one
other move up (MovedUp), and the page behind the first n is empty only behind the last
(PageCount). RanksAreFair follows; StatsAreRight is the product of members and tasks
(JoinCounts). For PagesAreNearlyComplete the invariant (`Inv`) counts the rows before the
reader's place that it has not been shown (`Missed`): no more than have left the list,
since a row can pass the reader only by moving up, and only a row that leaves moves
others up. New rows are newer than all before, and move everything down.

Every invariant that a run checks is a theorem too. Out of the prover's reach and left to
TLC: liveness under fairness and ENABLED (LocksReleased, RequestsAnswered, TrialEnds, Recovers, Exits), and
what a definition by recursion computes for every input; no module here declares a
RECURSIVE operator.

## 6. Where code and documents disagree

Each of these is a run that finds the property violated.

| Run | The code | What is said of it |
|---|---|---|
| `put_applied` | The UPDATE's text is glued without spaces ("SETtitle = ?WHERE id =?"), with two arguments too many and no id (`task_repo.go:225-227`): every PUT that changes something is answered 400 | `src/README.md:153`: PUT updates and writes the history; `mysql_test.go:173` |
| `page_served` | ListKey has no limit and offset (`tasks_cache.go:53`): page two is answered with page one | `tasks_cache_test.go:23` expects a key with limit and offset |
| `team_stats` | TeamStats joins members and tasks (`reports_repo.go:24`), so each done task counts once per member | `mysql_test.go:119-120`: three done tasks in a team of three are 3 |

The models have more, which no run is spent on:

- *Lists.* BumpTeamVersion stores the constant "1" (`tasks_cache.go:41`), so a bump hides
  no list, whose age only the TTL bounds. `StatusToDo` is "to_do", the ENUM says 'todo'
  (`models/task.go:8`, `001_init.sql:45`): a create with the default status is refused,
  while `usecase/task_test.go:137` requires no error.
- *Edit.* A description is compared only when the stored one is not NULL
  (`task_repo.go:179`): the first one is dropped and the answer is 200. History,
  AddComment and ListComments name tables the schema does not have (`task_repo.go:278`,
  `:307`, `:328`; they are in `AsWritten`).
- *Teams.* GetUserRole drops errors (`team_repo.go:73`): an owner may get 409 "already a
  member or insufficient role" for a newcomer; inviting a member again is answered
  200, not that 409 (`AlreadyMember`).
- *Rate limit.* A request that takes longer than ten seconds to reach Redis finds its
  counter gone and passes over the limit (PromptLimit without `Prompt`); a repeated
  pipeline counts a request twice, so a user within the limit may get 429
  (RefusedForCause without its factor).
- *Login and registration.* Login goes on after it answered 400 and may put a token
  behind it (`auth_handler.go:52`); a failure of MySQL is answered 401
  (`auth_handler.go:62`, `usecase/auth.go:46`); Register's own refusals are answered 500.
- *Server.* An answer after the WriteTimeout of 15 s is lost, although the request's
  context lives 30 s: a registration may be committed and nobody told. A request that comes
  during the drain may meet closed pools.
- *Reports.* Any PUT renews `updated_at`, so an old done task counts as done in the
  last 7 days; a limit above 200 becomes 50.

## 7. What is not modelled

- *Names, titles, texts, ids in paths, JSON.* Data that no
  property tells apart; what a handler refuses before its first call is one action
  (`Refuse`) where it matters.
- */healthz, CORS, reading the configuration, logging, metrics.* I/O that no property
  is about. What the configuration sets (limits, lives, timeouts) are CONSTANTS.
- *JWT and bcrypt as cryptography.* A token is what it says, and nobody makes one.
- *Users that are deleted, roles that change.* No route does it.
- *The HTTP server under every component.* Server carries the requests of Auth. The other
  components have crashes and a context that ends, but no connections: what a request
  may meet there is among the failures they have already.
- *A retry as such.* That a second CreateTeam or a second POST of a task after a lost
  answer makes a second row is allowed by the models; no property is stated, since
  requests have no identity in this program.

## 8. The plan

Done, in this order: 1 Schema; 2 TeamDirectory and Membership with proofs and the
refinement; 3 TaskLists with proofs; 4 TaskEdit; 5 RateLimit; 6 CircuitBreaker and
Breaker with proofs and the refinement; 7 Auth with proofs; 8 Server around Auth, with
the refinement and proofs; 9 Reports; 10 the proofs of TaskEdit and RateLimit; 11 the
pool of connections and the liveness of TaskEdit; 12 the proofs of Reports; 13 TaskBoard and
TaskAudit, their refinements and the proofs of these, and of UnmailedForGood.

Left, most important first:

14. **Breaker in Membership**: PostInvite with Breaker's `Admits` in the place of the
    free choice, which today covers it.
15. **Server around TaskEdit**: the drain against an open transaction.
