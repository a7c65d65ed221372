-------------------------------- MODULE Auth --------------------------------
(***************************************************************************)
(* POST /register, POST /login and the middleware that lets a request      *)
(* through with a token: AuthHandler, AuthUsecase, UserRepo, package auth. *)
(*                                                                         *)
(* A request in flight is a process; bcrypt, which takes long and heeds no *)
(* context, and the statement to MySQL are steps of their own.  A password *)
(* stands for its hash too.  Tokens are in the hands of the clients, so    *)
(* they outlive requests and the server itself.                            *)
(***************************************************************************)
EXTENDS Naturals

CONSTANTS
    Emails,     \* addresses as ToLower and TrimSpace leave them
    Collation,  \* Collation[e]: what utf8mb4_unicode_ci compares of e
    Passwords,
    Fit,        \* passwords of 8 bytes or more that bcrypt takes, at most 72
    Bodies,     \* bodies that may be sent
    UserIds,    \* values AUTO_INCREMENT may give to users.id
    Requests,   \* slots for HTTP requests in flight at the same time
    TTL,        \* life of a token, cfg.Auth.AccessTokenTTL
    None        \* "" of email and password, no request, no reply

\* decoded: DecodeJSON returned no error.  An unknown field is an error too,
\* but the fields that are known have been decoded all the same.
Body == [decoded : BOOLEAN, email : Emails \cup {None}, password : Passwords \cup {None}]

ASSUME BodyAssumption == Bodies \subseteq Body /\ None \notin Emails \cup Passwords
ASSUME FitAssumption == Fit \subseteq Passwords
ASSUME CollationAssumption == DOMAIN Collation = Emails
ASSUME TTLAssumption == TTL \in Nat \ {0}

VARIABLES
    users,     \* committed rows of table users
    pc,        \* pc[r]: the next step of request r
    arg,       \* arg[r]: its body, and whether its account was there before it
    row,       \* row[r]: what GetByEmail returned
    tokens,    \* tokens that have not expired, and what they were given for
    reply,     \* the answer the last step sent, None if it sent none
    welcomed   \* history: the registrations that got 201

flight   == <<pc, arg, row>>
authVars == <<users, flight, tokens, reply, welcomed>>

----------------------------------------------------------------------------
(* Values.                                                                 *)

Row    == [id : UserIds, email : Emails, password : Fit]
Pair   == [email : Emails, password : Passwords]
Token  == [user : UserIds, by : Pair, left : 1 .. TTL]
Steps  == {"idle", "hash", "insert", "select", "compare"}
Ask    == [body : Body, known : BOOLEAN]
Reply  == [op : {"register", "login", "access"}, status : {200, 201, 400, 401, 409, 500},
           ask : Ask \cup {None}, failed : BOOLEAN, as : UserIds \cup {None}]

PairOf(b) == [email |-> b.email, password |-> b.password]

\* What the unique key ux_users_email and WHERE email = ? compare.
SameEmail(e, f) == Collation[e] = Collation[f]
WithEmail(e) == {u \in users : SameEmail(u.email, e)}

----------------------------------------------------------------------------
AuthInit ==
    /\ users = {} /\ tokens = {} /\ welcomed = {} /\ reply = None
    /\ pc = [r \in Requests |-> "idle"]
    /\ arg = [r \in Requests |-> None]
    /\ row = [r \in Requests |-> None]

\* A step that is not one of the requests.
Silent == reply' = None /\ UNCHANGED <<users, flight, tokens, welcomed>>

Goto(r, step) ==
    /\ pc' = [pc EXCEPT ![r] = step]
    /\ reply' = None
    /\ UNCHANGED <<arg, tokens, welcomed>>

\* The slot is free again.  failed: MySQL is to blame, not the client.
\* delivered: the client gets the answer.
Answer(r, op, status, failed, delivered) ==
    /\ reply' = IF delivered
                THEN [op |-> op, status |-> status, ask |-> arg[r],
                      failed |-> failed, as |-> None]
                ELSE None
    /\ pc' = [pc EXCEPT ![r] = "idle"]
    /\ arg' = [arg EXCEPT ![r] = None]
    /\ row' = [row EXCEPT ![r] = None]

\* A request that is refused before it reaches MySQL.
Refuse(r, op, b, status) ==
    /\ reply' = [op |-> op, status |-> status, ask |-> [body |-> b, known |-> FALSE],
                 failed |-> FALSE, as |-> None]
    /\ UNCHANGED <<users, flight, tokens, welcomed>>

\* known: someone was told of an account with this address and password.
Begin(r, b, step) ==
    /\ pc' = [pc EXCEPT ![r] = step]
    /\ arg' = [arg EXCEPT ![r] =
           [body |-> b, known |-> \E w \in welcomed :
                            SameEmail(w.email, b.email) /\ w.password = b.password]]
    /\ reply' = None
    /\ UNCHANGED <<users, row, tokens, welcomed>>

----------------------------------------------------------------------------
(* Registration.                                                           *)

\* Mutated form of Register: what the use case refuses is taken.
RegisterUnchecked(r, b) ==
    /\ pc[r] = "idle"
    /\ IF b.decoded THEN Begin(r, b, "hash") ELSE Refuse(r, "register", b, 400)

\* The handler has no status of its own for what the use case refuses.
Register(r, b) ==
    /\ pc[r] = "idle"
    /\ \/ ~ b.decoded /\ Refuse(r, "register", b, 400)
       \/ /\ b.decoded /\ (b.email = None \/ b.password \notin Fit)
          /\ Refuse(r, "register", b, 500)
       \/ /\ b.decoded /\ b.email # None /\ b.password \in Fit
          /\ Begin(r, b, "hash")

\* GenerateFromPassword.
Hash(r) ==
    /\ pc[r] = "hash"
    /\ Goto(r, "insert")
    /\ UNCHANGED <<users, row>>

NewUser(r, id) ==
    [id |-> id, email |-> arg[r].body.email, password |-> arg[r].body.password]

\* Mutated form of InsertUser: INSERT ... ON DUPLICATE KEY UPDATE password_hash.
Upsert(r, id, delivered) ==
    LET b == arg[r].body
        theirs == WithEmail(b.email) IN
    /\ pc[r] = "insert"
    /\ IF theirs = {}
       THEN users' = users \cup {NewUser(r, id)}
       ELSE users' = (users \ theirs) \cup {[u EXCEPT !.password = b.password] : u \in theirs}
    /\ welcomed' = IF delivered THEN welcomed \cup {PairOf(b)} ELSE welcomed
    /\ Answer(r, "register", 201, FALSE, delivered)
    /\ UNCHANGED tokens

\* INSERT INTO users commits, and the client may or may not hear of it.
InsertUser(r, id, delivered) ==
    /\ pc[r] = "insert"
    /\ WithEmail(arg[r].body.email) = {}
    /\ \A u \in users : u.id # id
    /\ users' = users \cup {NewUser(r, id)}
    /\ welcomed' = IF delivered THEN welcomed \cup {PairOf(arg[r].body)} ELSE welcomed
    /\ Answer(r, "register", 201, FALSE, delivered)
    /\ UNCHANGED tokens

\* Error 1062 of the unique key: ErrConflict.
InsertConflict(r, delivered) ==
    /\ pc[r] = "insert"
    /\ WithEmail(arg[r].body.email) # {}
    /\ Answer(r, "register", 409, FALSE, delivered)
    /\ UNCHANGED <<users, tokens, welcomed>>

\* Any other error.  The row may have been committed and the answer lost.
InsertFails(r, delivered) ==
    /\ pc[r] = "insert"
    /\ \/ UNCHANGED users
       \/ /\ WithEmail(arg[r].body.email) = {}
          /\ \E id \in UserIds :
                 /\ \A u \in users : u.id # id
                 /\ users' = users \cup {NewUser(r, id)}
    /\ Answer(r, "register", 500, TRUE, delivered)
    /\ UNCHANGED <<tokens, welcomed>>

----------------------------------------------------------------------------
(* Login.                                                                  *)

\* A body that was not decoded is answered 400, but the handler does not
\* return: it goes on with what was decoded.
Login(r, b) ==
    /\ pc[r] = "idle"
    /\ \/ /\ b.email = None \/ b.password = None
          /\ Refuse(r, "login", b, 400)
       \/ /\ b.email # None /\ b.password # None
          /\ Begin(r, b, "select")

\* The status line is sent once: after the 400 it is not 200 or 401.
LoginStatus(r, status) == IF arg[r].body.decoded THEN status ELSE 400

GetByEmail(r) ==
    /\ pc[r] = "select"
    /\ \E u \in WithEmail(arg[r].body.email) : row' = [row EXCEPT ![r] = u]
    /\ Goto(r, "compare")
    /\ UNCHANGED users

\* No row, or any error of MySQL: both become 401.
GetByEmailFails(r, failed, delivered) ==
    /\ pc[r] = "select"
    /\ ~ failed => WithEmail(arg[r].body.email) = {}
    /\ Answer(r, "login", LoginStatus(r, 401), failed, delivered)
    /\ UNCHANGED <<users, tokens, welcomed>>

\* CompareHashAndPassword, then Issue.  A token in an answer that is lost is
\* lost as well; one in an answer that says 400 is not.
Compare(r, delivered) ==
    LET b == arg[r].body IN
    /\ pc[r] = "compare"
    /\ \/ /\ row[r].password = b.password
          /\ tokens' = IF delivered
                       THEN tokens \cup {[user |-> row[r].id, by |-> PairOf(b), left |-> TTL]}
                       ELSE tokens
          /\ Answer(r, "login", LoginStatus(r, 200), FALSE, delivered)
       \/ /\ row[r].password # b.password
          /\ Answer(r, "login", LoginStatus(r, 401), FALSE, delivered)
          /\ UNCHANGED tokens
    /\ UNCHANGED <<users, welcomed>>

----------------------------------------------------------------------------
(* Tokens.                                                                 *)

\* auth.Middleware: with a token that is live the request goes on as the
\* token's user, whatever has become of the user.  Anything else is 401.
Access(t) ==
    /\ reply' = [op |-> "access", status |-> 200, ask |-> None, failed |-> FALSE,
                 as |-> t.user]
    /\ UNCHANGED <<users, flight, tokens, welcomed>>

\* Time passes: ParseAccessToken refuses a token from its exp on.
Expire ==
    /\ tokens' = {[t EXCEPT !.left = @ - 1] : t \in {u \in tokens : u.left > 1}}
    /\ reply' = None
    /\ UNCHANGED <<users, flight, welcomed>>

\* The process ends with its requests in flight.
Abandon ==
    /\ pc' = [r \in Requests |-> "idle"]
    /\ arg' = [r \in Requests |-> None]
    /\ row' = [r \in Requests |-> None]
    /\ reply' = None
    /\ UNCHANGED <<users, tokens, welcomed>>

AuthStep(r, delivered) ==
    \/ Hash(r) \/ GetByEmail(r)
    \/ \E id \in UserIds : InsertUser(r, id, delivered)
    \/ InsertConflict(r, delivered) \/ InsertFails(r, delivered)
    \/ \E failed \in BOOLEAN : GetByEmailFails(r, failed, delivered)
    \/ Compare(r, delivered)

AuthNext ==
    \/ \E r \in Requests :
           \/ \E b \in Bodies : Register(r, b) \/ Login(r, b)
           \/ \E delivered \in BOOLEAN : AuthStep(r, delivered)
    \/ \E t \in tokens : Access(t)
    \/ Expire \/ Abandon \/ Silent

AuthSpec == AuthInit /\ [][AuthNext]_authVars

----------------------------------------------------------------------------
(* Properties.                                                             *)

AuthTypeOK ==
    /\ users \subseteq Row
    /\ pc \in [Requests -> Steps]
    /\ arg \in [Requests -> Ask \cup {None}]
    /\ row \in [Requests -> Row \cup {None}]
    /\ tokens \subseteq Token
    /\ reply \in Reply \cup {None}
    /\ welcomed \subseteq Pair

\* However registrations race, retry and lose their answers, who was told 201
\* has the one account of the address, with the password of that request.
WelcomedOwnTheAccount ==
    \A w \in welcomed : \E u \in users :
        u.password = w.password /\ WithEmail(w.email) = {u}

\* The middleware lets nobody through as a user without a login, within the
\* life of the token, with the password the account has now; a 400 that
\* carries a token changes nothing about that.
TokensOfOwners ==
    \A t \in tokens : \E u \in users :
        u.id = t.user /\ SameEmail(u.email, t.by.email) /\ u.password = t.by.password

\* Who was told of the account before logging in, in whatever spelling MySQL
\* takes for the same address, is told 401 only because MySQL failed: that
\* answer does not tell a wrong password from a database that is down.
OwnerGetsIn ==
    reply # None /\ reply.op = "login" /\ reply.status = 401 /\ reply.ask.known
        => reply.failed
=============================================================================
