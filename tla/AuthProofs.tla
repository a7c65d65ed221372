----------------------------- MODULE AuthProofs -----------------------------
(***************************************************************************)
(* Proofs about Auth, for every collation, every set of bodies, every      *)
(* number of requests and every life of a token.                           *)
(*                                                                         *)
(* The invariant rests on the unique key: an address has one row, and no   *)
(* row ever changes.  What a request has read and what a token was given   *)
(* for therefore stays true while others register.                         *)
(***************************************************************************)
EXTENDS Auth, TLAPS

UniqueKey == \A u, v \in users : SameEmail(u.email, v.email) => u = v

\* What request r has at each of its steps.
RequestInv(r) ==
    pc[r] # "idle" =>
        /\ arg[r] \in Ask
        /\ arg[r].body.email \in Emails /\ arg[r].body.password \in Passwords
        /\ pc[r] \in {"hash", "insert"} => arg[r].body.password \in Fit
        /\ arg[r].known =>
               \E w \in welcomed : /\ SameEmail(w.email, arg[r].body.email)
                                   /\ w.password = arg[r].body.password
        /\ pc[r] = "compare" =>
               row[r] \in users /\ SameEmail(row[r].email, arg[r].body.email)

Inv ==
    /\ AuthTypeOK
    /\ UniqueKey
    /\ WelcomedOwnTheAccount
    /\ TokensOfOwners
    /\ \A r \in Requests : RequestInv(r)

\* What every step leaves standing: rows stay, and a new row has a new address.
Growth ==
    /\ users \subseteq users'
    /\ welcomed \subseteq welcomed'
    /\ \A u \in users' \ users : \A v \in users' : SameEmail(u.email, v.email) => u = v

Kept(q) == pc'[q] = pc[q] /\ arg'[q] = arg[q] /\ row'[q] = row[q]

----------------------------------------------------------------------------
LEMMA InitInv == AuthInit => Inv
BY DEF AuthInit, Inv, AuthTypeOK, Steps, UniqueKey, WelcomedOwnTheAccount,
       TokensOfOwners, RequestInv

LEMMA UniqueGrows ==
  ASSUME UniqueKey, Growth
  PROVE  UniqueKey'
BY DEF UniqueKey, Growth, SameEmail

\* Whoever had the account has it after others have registered.
LEMMA OwnersStay ==
  ASSUME WelcomedOwnTheAccount, Growth, NEW w \in welcomed
  PROVE  \E u \in users' : /\ u.password = w.password
                           /\ {v \in users' : SameEmail(v.email, w.email)} = {u}
<1>1. PICK u \in users : u.password = w.password /\ WithEmail(w.email) = {u}
  BY DEF WelcomedOwnTheAccount
<1>2. u \in users' /\ SameEmail(u.email, w.email)
  BY <1>1 DEF WithEmail, Growth
<1>3. ASSUME NEW v \in users', SameEmail(v.email, w.email) PROVE v = u
  <2>1. CASE v \in users
    BY <1>1, <1>3, <2>1 DEF WithEmail
  <2>2. CASE v \notin users
    BY <1>2, <1>3, <2>2 DEF Growth, SameEmail
  <2> QED BY <2>1, <2>2
<1> QED BY <1>1, <1>2, <1>3

LEMMA WelcomedGrows ==
  ASSUME WelcomedOwnTheAccount, Growth, welcomed' = welcomed
  PROVE  WelcomedOwnTheAccount'
BY OwnersStay DEF WelcomedOwnTheAccount, WithEmail, SameEmail

LEMMA TokensGrow ==
  ASSUME TokensOfOwners, Growth, NEW t \in tokens
  PROVE  \E u \in users' : /\ u.id = t.user /\ SameEmail(u.email, t.by.email)
                           /\ u.password = t.by.password
BY DEF TokensOfOwners, Growth

LEMMA RequestKept ==
  ASSUME Growth, NEW q \in Requests, Kept(q), RequestInv(q)
  PROVE  RequestInv(q)'
BY DEF Growth, Kept, RequestInv, SameEmail

\* A step that commits nothing and hands out nothing.
LEMMA QuietStep ==
  ASSUME Inv, UNCHANGED <<users, tokens, welcomed>>
  PROVE  /\ Growth /\ UniqueKey' /\ WelcomedOwnTheAccount' /\ TokensOfOwners'
<1>1. Growth
  BY DEF Growth
<1> QED BY <1>1, UniqueGrows, WelcomedGrows DEF Inv, TokensOfOwners, SameEmail

----------------------------------------------------------------------------
(* The ends of a request.                                                  *)

\* What Answer does to the request, whatever it answers.
Ends(r) ==
    /\ reply' \in Reply \cup {None}
    /\ pc' = [pc EXCEPT ![r] = "idle"]
    /\ arg' = [arg EXCEPT ![r] = None]
    /\ row' = [row EXCEPT ![r] = None]

LEMMA EndsType ==
  ASSUME AuthTypeOK, NEW r \in Requests, Ends(r)
  PROVE  /\ pc' \in [Requests -> Steps]
         /\ arg' \in [Requests -> Ask \cup {None}]
         /\ row' \in [Requests -> Row \cup {None}]
         /\ RequestInv(r)' /\ \A q \in Requests \ {r} : Kept(q)
BY DEF AuthTypeOK, Ends, Steps, RequestInv, Kept

----------------------------------------------------------------------------
(* The steps of a request.                                                 *)

\* What a step of request r has to show.
Preserved ==
    Inv' /\ OwnerGetsIn'

\* What it is enough to show when the step ends the request.
LEMMA Ended ==
  ASSUME Inv, NEW r \in Requests, Ends(r), OwnerGetsIn',
         users' \subseteq Row, tokens' \subseteq Token, welcomed' \subseteq Pair,
         Growth, WelcomedOwnTheAccount', TokensOfOwners'
  PROVE  Preserved
<1>1. AuthTypeOK'
  BY EndsType DEF Inv, AuthTypeOK, Ends
<1>2. UniqueKey'
  BY UniqueGrows DEF Inv
<1>3. \A q \in Requests : RequestInv(q)'
  <2>1. RequestInv(r)' /\ \A q \in Requests \ {r} : Kept(q)
    BY EndsType DEF Inv
  <2>2. ASSUME NEW q \in Requests \ {r} PROVE RequestInv(q)'
    BY <2>1, RequestKept DEF Inv
  <2> QED BY <2>1, <2>2
<1> QED BY <1>1, <1>2, <1>3 DEF Inv, Preserved

\* The same for an answer that reports nothing new.
LEMMA EndedQuietly ==
  ASSUME Inv, NEW r \in Requests, Ends(r), OwnerGetsIn',
         UNCHANGED <<users, tokens, welcomed>>
  PROVE  Preserved
<1>1. Growth /\ WelcomedOwnTheAccount' /\ TokensOfOwners'
  BY QuietStep
<1>2. users' \subseteq Row /\ tokens' \subseteq Token /\ welcomed' \subseteq Pair
  BY DEF Inv, AuthTypeOK
<1> QED BY <1>1, <1>2, Ended

\* A step without an answer, which moves request r.
LEMMA Moved ==
  ASSUME Inv, NEW r \in Requests,
         UNCHANGED <<users, tokens, welcomed>>, reply' = None \/ reply'.op # "login" \/ reply'.status # 401,
         reply' \in Reply \cup {None},
         pc' \in [Requests -> Steps], arg' \in [Requests -> Ask \cup {None}],
         row' \in [Requests -> Row \cup {None}],
         RequestInv(r)', \A q \in Requests \ {r} : Kept(q)
  PROVE  Preserved
<1>1. Growth /\ UniqueKey' /\ WelcomedOwnTheAccount' /\ TokensOfOwners'
  BY QuietStep
<1>2. ASSUME NEW q \in Requests \ {r} PROVE RequestInv(q)'
  BY <1>1, RequestKept DEF Inv
<1>3. AuthTypeOK'
  BY DEF Inv, AuthTypeOK
<1> QED BY <1>1, <1>2, <1>3 DEF Inv, Preserved, OwnerGetsIn

LEMMA RefuseStep ==
  ASSUME Inv, NEW r \in Requests, NEW op \in {"register", "login"},
         NEW b \in Body, NEW status \in {400, 500}, Refuse(r, op, b, status)
  PROVE  Preserved
<1>1. reply' \in Reply /\ reply'.status # 401
  BY DEF Refuse, Reply, Ask
<1>2. UNCHANGED <<users, pc, arg, row, tokens, welcomed>>
  BY DEF Refuse, flight
<1> QED BY <1>1, <1>2, Moved, RequestKept, QuietStep DEF Inv, AuthTypeOK, Kept

LEMMA BeginStep ==
  ASSUME Inv, NEW r \in Requests, NEW b \in Bodies, NEW step \in {"hash", "select"},
         Begin(r, b, step), b.email # None, b.password # None,
         step = "hash" => b.password \in Fit
  PROVE  Preserved
<1> DEFINE known == \E w \in welcomed : SameEmail(w.email, b.email) /\ w.password = b.password
           a == [body |-> b, known |-> known]
<1>1. b \in Body /\ b.email \in Emails /\ b.password \in Passwords
  BY BodyAssumption DEF Body
<1>2. a \in Ask /\ a.body = b /\ a.known = known
  BY <1>1 DEF Ask
<1>3. /\ pc' = [pc EXCEPT ![r] = step] /\ arg' = [arg EXCEPT ![r] = a]
      /\ row' = row /\ reply' = None /\ UNCHANGED <<users, tokens, welcomed>>
  BY DEF Begin
<1> HIDE DEF a
<1>4. /\ pc' \in [Requests -> Steps] /\ arg' \in [Requests -> Ask \cup {None}]
      /\ row' \in [Requests -> Row \cup {None}]
      /\ pc'[r] = step /\ arg'[r] = a /\ \A q \in Requests \ {r} : Kept(q)
  BY <1>2, <1>3 DEF Inv, AuthTypeOK, Steps, Kept
<1>5. RequestInv(r)'
  BY <1>1, <1>2, <1>3, <1>4 DEF RequestInv, SameEmail
<1> QED BY <1>3, <1>4, <1>5, Moved

LEMMA GotoStep ==
  ASSUME Inv, NEW r \in Requests, NEW step \in Steps, Goto(r, step), users' = users,
         row' \in [Requests -> Row \cup {None}],
         \A q \in Requests \ {r} : row'[q] = row[q],
         RequestInv(r)'
  PROVE  Preserved
<1>1. /\ pc' \in [Requests -> Steps] /\ arg' \in [Requests -> Ask \cup {None}]
      /\ \A q \in Requests \ {r} : Kept(q)
  BY DEF Goto, Inv, AuthTypeOK, Kept
<1> QED BY <1>1, Moved DEF Goto

LEMMA HashStep ==
  ASSUME Inv, NEW r \in Requests, Hash(r)
  PROVE  Preserved
<1>1. RequestInv(r)'
  BY DEF Hash, Goto, Inv, AuthTypeOK, RequestInv, SameEmail
<1> QED BY <1>1, GotoStep DEF Hash, Inv, AuthTypeOK, Steps

\* A new row: its address is new, so whoever was welcomed still has theirs.
LEMMA NewRow ==
  ASSUME Inv, NEW r \in Requests, NEW id \in UserIds, pc[r] = "insert",
         WithEmail(arg[r].body.email) = {}, users' = users \cup {NewUser(r, id)},
         welcomed \subseteq welcomed'
  PROVE  users' \subseteq Row /\ Growth
<1>1. arg[r].body.email \in Emails /\ arg[r].body.password \in Fit
  BY DEF Inv, RequestInv
<1>2. users' \subseteq Row
  BY <1>1 DEF Inv, AuthTypeOK, NewUser, Row
<1>3. \A u \in users : ~ SameEmail(u.email, arg[r].body.email)
  BY DEF WithEmail
<1>4. NewUser(r, id).email = arg[r].body.email
  BY DEF NewUser
<1>5. ASSUME NEW u \in users' \ users, NEW v \in users', SameEmail(u.email, v.email)
      PROVE  u = v
  BY <1>3, <1>4, <1>5 DEF SameEmail
<1> QED BY <1>2, <1>5 DEF Growth

LEMMA InsertUserStep ==
  ASSUME Inv, NEW r \in Requests, NEW id \in UserIds, NEW delivered \in BOOLEAN,
         InsertUser(r, id, delivered)
  PROVE  Preserved
<1> DEFINE w == PairOf(arg[r].body)
<1>1. /\ arg[r] \in Ask /\ arg[r].body.email \in Emails /\ arg[r].body.password \in Fit
      /\ pc[r] = "insert"
  BY DEF Inv, RequestInv, InsertUser
<1>2. w \in Pair
  BY <1>1, FitAssumption DEF PairOf, Pair
<1>3. welcomed \subseteq welcomed' /\ welcomed' \subseteq welcomed \cup {w}
  BY DEF InsertUser
<1>4. users' \subseteq Row /\ Growth
  BY <1>1, <1>3, NewRow DEF InsertUser
<1>5. NewUser(r, id) \in users' /\ {v \in users' : SameEmail(v.email, w.email)} = {NewUser(r, id)}
  BY DEF InsertUser, WithEmail, NewUser, PairOf, SameEmail
<1>6. WelcomedOwnTheAccount'
  <2>1. NewUser(r, id).password = w.password
    BY DEF NewUser, PairOf
  <2> SUFFICES ASSUME NEW x \in welcomed'
               PROVE  \E u \in users' : /\ u.password = x.password
                          /\ {v \in users' : SameEmail(v.email, x.email)} = {u}
    BY DEF WelcomedOwnTheAccount, WithEmail, SameEmail
  <2>2. CASE x \in welcomed
    BY <1>4, <2>2, OwnersStay DEF Inv
  <2>3. CASE x = w
    BY <1>5, <2>1, <2>3
  <2> HIDE DEF w
  <2> QED BY <1>3, <2>2, <2>3
<1>7. TokensOfOwners' /\ tokens' \subseteq Token
  BY <1>4, TokensGrow DEF InsertUser, Inv, AuthTypeOK, TokensOfOwners, SameEmail
<1>8. welcomed' \subseteq Pair
  BY <1>2, <1>3 DEF Inv, AuthTypeOK
<1>9. Ends(r) /\ OwnerGetsIn'
  BY <1>1 DEF InsertUser, Answer, Ends, Reply, OwnerGetsIn
<1> HIDE DEF w
<1> QED BY <1>4, <1>6, <1>7, <1>8, <1>9, Ended

LEMMA InsertConflictStep ==
  ASSUME Inv, NEW r \in Requests, NEW delivered \in BOOLEAN, InsertConflict(r, delivered)
  PROVE  Preserved
<1>1. arg[r] \in Ask
  BY DEF Inv, RequestInv, InsertConflict
<1>2. Ends(r) /\ OwnerGetsIn'
  BY <1>1 DEF InsertConflict, Answer, Ends, Reply, OwnerGetsIn
<1> QED BY <1>2, EndedQuietly DEF InsertConflict

LEMMA InsertFailsStep ==
  ASSUME Inv, NEW r \in Requests, NEW delivered \in BOOLEAN, InsertFails(r, delivered)
  PROVE  Preserved
<1>1. arg[r] \in Ask /\ pc[r] = "insert"
  BY DEF Inv, RequestInv, InsertFails
<1>4. Ends(r) /\ OwnerGetsIn'
  BY <1>1 DEF InsertFails, Answer, Ends, Reply, OwnerGetsIn
<1>2. CASE users' = users
  BY <1>2, <1>4, EndedQuietly DEF InsertFails
<1>3. CASE /\ WithEmail(arg[r].body.email) = {}
           /\ \E id \in UserIds : users' = users \cup {NewUser(r, id)}
  <2>1. PICK id \in UserIds : users' = users \cup {NewUser(r, id)}
    BY <1>3
  <2>2. users' \subseteq Row /\ Growth
    BY <1>1, <1>3, <2>1, NewRow DEF InsertFails
  <2>3. TokensOfOwners' /\ tokens' \subseteq Token /\ welcomed' \subseteq Pair
    BY <2>2, TokensGrow DEF InsertFails, Inv, AuthTypeOK, TokensOfOwners, SameEmail
  <2>4. WelcomedOwnTheAccount'
    BY <2>2, WelcomedGrows DEF InsertFails, Inv
  <2> QED BY <1>4, <2>2, <2>3, <2>4, Ended
<1> QED BY <1>2, <1>3 DEF InsertFails

LEMMA GetByEmailStep ==
  ASSUME Inv, NEW r \in Requests, GetByEmail(r)
  PROVE  Preserved
<1>1. PICK u \in WithEmail(arg[r].body.email) : row' = [row EXCEPT ![r] = u]
  BY DEF GetByEmail
<1>2. u \in users /\ u \in Row /\ SameEmail(u.email, arg[r].body.email)
  BY DEF WithEmail, Inv, AuthTypeOK
<1>3. row' \in [Requests -> Row \cup {None}] /\ row'[r] = u
      /\ \A q \in Requests \ {r} : row'[q] = row[q]
  BY <1>1, <1>2 DEF Inv, AuthTypeOK
<1>4. RequestInv(r)'
  BY <1>2, <1>3 DEF GetByEmail, Goto, Inv, AuthTypeOK, RequestInv, SameEmail
<1> QED BY <1>3, <1>4, GotoStep DEF GetByEmail, Steps

\* An account that its owner was told of before the login is still there.
LEMMA GetByEmailFailsStep ==
  ASSUME Inv, NEW r \in Requests, NEW failed \in BOOLEAN, NEW delivered \in BOOLEAN,
         GetByEmailFails(r, failed, delivered)
  PROVE  Preserved
<1>1. arg[r] \in Ask /\ RequestInv(r) /\ pc[r] = "select"
  BY DEF Inv, RequestInv, GetByEmailFails
<1>2. ASSUME arg[r].known PROVE WithEmail(arg[r].body.email) # {}
  <2>1. PICK w \in welcomed : SameEmail(w.email, arg[r].body.email)
    BY <1>1, <1>2 DEF RequestInv
  <2>2. PICK u \in users : WithEmail(w.email) = {u}
    BY DEF Inv, WelcomedOwnTheAccount
  <2> QED BY <2>1, <2>2 DEF WithEmail, SameEmail
<1>3. Ends(r)
  <2>1. LoginStatus(r, 401) \in {200, 201, 400, 401, 409, 500}
    BY DEF LoginStatus
  <2>2. reply' \in Reply \cup {None}
    <3>1. GetByEmailFails(r, TRUE, delivered) \/ GetByEmailFails(r, FALSE, delivered)
      BY Zenon
    <3>2. CASE GetByEmailFails(r, TRUE, delivered)
      BY <1>1, <2>1, <3>2 DEF GetByEmailFails, Answer, Reply
    <3>3. CASE GetByEmailFails(r, FALSE, delivered)
      BY <1>1, <2>1, <3>3 DEF GetByEmailFails, Answer, Reply
    <3> QED BY <3>1, <3>2, <3>3
  <2> QED BY <2>2 DEF GetByEmailFails, Answer, Ends
<1>4. OwnerGetsIn'
  BY <1>2 DEF GetByEmailFails, Answer, OwnerGetsIn
<1> QED BY <1>3, <1>4, EndedQuietly DEF GetByEmailFails

\* The row a login has read is the one of its account, and the token says so.
LEMMA CompareStep ==
  ASSUME Inv, NEW r \in Requests, NEW delivered \in BOOLEAN, Compare(r, delivered)
  PROVE  Preserved
<1> DEFINE b == arg[r].body
           t == [user |-> row[r].id, by |-> PairOf(b), left |-> TTL]
<1>1. /\ pc[r] = "compare" /\ arg[r] \in Ask /\ b.email \in Emails /\ b.password \in Passwords
      /\ row[r] \in users /\ row[r] \in Row /\ SameEmail(row[r].email, b.email)
      /\ arg[r].known => \E w \in welcomed :
                             SameEmail(w.email, b.email) /\ w.password = b.password
  BY DEF Inv, AuthTypeOK, RequestInv, Compare
<1>2. UNCHANGED <<users, welcomed>> /\ tokens' \subseteq tokens \cup {t}
      /\ (row[r].password # b.password => tokens' = tokens)
  BY DEF Compare
<1>3. Ends(r)
  <2>1. LoginStatus(r, 200) \in {200, 400} /\ LoginStatus(r, 401) \in {400, 401}
    BY DEF LoginStatus
  <2>2. \/ Answer(r, "login", LoginStatus(r, 200), FALSE, delivered)
        \/ Answer(r, "login", LoginStatus(r, 401), FALSE, delivered)
    BY DEF Compare
  <2>3. reply' \in Reply \cup {None}
    <3>1. CASE Answer(r, "login", LoginStatus(r, 200), FALSE, delivered)
      BY <1>1, <2>1, <3>1 DEF Answer, Reply
    <3>2. CASE Answer(r, "login", LoginStatus(r, 401), FALSE, delivered)
      BY <1>1, <2>1, <3>2 DEF Answer, Reply
    <3> QED BY <2>2, <3>1, <3>2
  <2> QED BY <2>2, <2>3 DEF Answer, Ends
<1>4. OwnerGetsIn'
  <2>1. ASSUME arg[r].known PROVE row[r].password = b.password
    <3>1. PICK w \in welcomed : SameEmail(w.email, b.email) /\ w.password = b.password
      BY <1>1, <2>1
    <3>2. PICK u \in users : u.password = w.password /\ WithEmail(w.email) = {u}
      BY DEF Inv, WelcomedOwnTheAccount
    <3> QED BY <1>1, <3>1, <3>2 DEF WithEmail, SameEmail
  <2> QED BY <2>1 DEF Compare, Answer, OwnerGetsIn, LoginStatus
<1>5. Growth /\ WelcomedOwnTheAccount'
  <2>1. Growth
    BY <1>2 DEF Growth
  <2> QED BY <1>2, <2>1, WelcomedGrows DEF Inv
<1>6. t \in Token
  BY <1>1, TTLAssumption DEF Token, Row, PairOf, Pair
<1>7. TokensOfOwners'
  <2>1. t.user = row[r].id /\ t.by.email = b.email /\ t.by.password = b.password
    BY DEF PairOf
  <2> HIDE DEF t
  <2> QED BY <1>1, <1>2, <2>1 DEF Inv, TokensOfOwners, SameEmail
<1>8. users' \subseteq Row /\ tokens' \subseteq Token /\ welcomed' \subseteq Pair
  BY <1>2, <1>6 DEF Inv, AuthTypeOK
<1> QED BY <1>3, <1>4, <1>5, <1>7, <1>8, Ended

----------------------------------------------------------------------------
(* The other steps.                                                        *)

LEMMA AccessStep ==
  ASSUME Inv, NEW t \in tokens, Access(t)
  PROVE  Preserved
<1>1. reply' \in Reply /\ reply'.op = "access"
  BY DEF Access, Reply, Inv, AuthTypeOK, Token
<1> QED BY <1>1, QuietStep DEF Access, flight, Inv, AuthTypeOK, Preserved, OwnerGetsIn,
           RequestInv, SameEmail

LEMMA ExpireStep ==
  ASSUME Inv, Expire
  PROVE  Preserved
<1>1. UNCHANGED <<users, pc, arg, row, welcomed>> /\ reply' = None
  BY DEF Expire, flight
<1>2. ASSUME NEW t \in tokens'
      PROVE  t \in Token /\ \E u \in tokens : t.user = u.user /\ t.by = u.by
  <2>1. PICK u \in tokens : u.left > 1 /\ t = [u EXCEPT !.left = @ - 1]
    BY DEF Expire
  <2>2. u \in Token
    BY DEF Inv, AuthTypeOK
  <2> QED BY <2>1, <2>2, TTLAssumption DEF Token
<1>3. TokensOfOwners'
  BY <1>1, <1>2 DEF Inv, TokensOfOwners, SameEmail
<1>4. Growth /\ WelcomedOwnTheAccount' /\ UniqueKey'
  <2>1. Growth
    BY <1>1 DEF Growth
  <2> QED BY <1>1, <2>1, WelcomedGrows, UniqueGrows DEF Inv
<1>5. \A q \in Requests : RequestInv(q)'
  BY <1>1 DEF Inv, RequestInv, SameEmail
<1>6. AuthTypeOK'
  BY <1>1, <1>2 DEF Inv, AuthTypeOK
<1> QED BY <1>1, <1>3, <1>4, <1>5, <1>6 DEF Inv, Preserved, OwnerGetsIn

LEMMA AbandonStep ==
  ASSUME Inv, Abandon
  PROVE  Preserved
<1>1. UniqueKey' /\ WelcomedOwnTheAccount' /\ TokensOfOwners'
  BY QuietStep DEF Abandon
<1>2. AuthTypeOK' /\ OwnerGetsIn' /\ \A q \in Requests : RequestInv(q)'
  BY DEF Abandon, Inv, AuthTypeOK, Steps, OwnerGetsIn, RequestInv
<1> QED BY <1>1, <1>2 DEF Inv, Preserved

LEMMA Still ==
  ASSUME Inv, UNCHANGED <<users, pc, arg, row, tokens, welcomed>>,
         (reply' = reply /\ OwnerGetsIn) \/ reply' = None
  PROVE  Preserved
BY QuietStep DEF Inv, AuthTypeOK, Preserved, OwnerGetsIn, RequestInv, SameEmail

LEMMA NextPreserves ==
  ASSUME Inv, OwnerGetsIn, [AuthNext]_authVars
  PROVE  Preserved
<1>1. ASSUME NEW r \in Requests, NEW b \in Bodies, Register(r, b) PROVE Preserved
  <2>1. b \in Body
    BY BodyAssumption
  <2>2. "register" \in {"register", "login"}
    OBVIOUS
  <2> QED BY <1>1, <2>1, <2>2, RefuseStep, BeginStep, FitAssumption, BodyAssumption DEF Register
<1>2. ASSUME NEW r \in Requests, NEW b \in Bodies, Login(r, b) PROVE Preserved
  <2>1. b \in Body
    BY BodyAssumption
  <2> QED BY <1>2, <2>1, RefuseStep, BeginStep DEF Login
<1>3. ASSUME NEW r \in Requests, NEW delivered \in BOOLEAN, AuthStep(r, delivered)
      PROVE  Preserved
  BY <1>3, HashStep, GetByEmailStep, InsertUserStep, InsertConflictStep, InsertFailsStep,
     GetByEmailFailsStep, CompareStep DEF AuthStep
<1>4. CASE Silent
  BY <1>4, Still DEF Silent, flight
<1>5. CASE UNCHANGED authVars
  BY <1>5, Still DEF authVars, flight
<1> QED BY <1>1, <1>2, <1>3, <1>4, <1>5, AccessStep, ExpireStep, AbandonStep DEF AuthNext

LEMMA AlwaysInv == AuthSpec => [](Inv /\ OwnerGetsIn)
<1>1. AuthInit => Inv /\ OwnerGetsIn
  BY InitInv DEF AuthInit, OwnerGetsIn
<1>2. Inv /\ OwnerGetsIn /\ [AuthNext]_authVars => (Inv /\ OwnerGetsIn)'
  BY NextPreserves DEF Preserved
<1> QED BY <1>1, <1>2, PTL DEF AuthSpec

----------------------------------------------------------------------------
(* Theorems.                                                               *)

\* Requests, rows, tokens and answers keep their types.
THEOREM TypeCorrect == AuthSpec => []AuthTypeOK
<1> QED BY AlwaysInv, PTL DEF Inv

\* However many registrations of one address race, in whatever spelling the
\* collation takes for the same, and whatever answers are lost, the one that
\* was told 201 has the only account, with its password.
THEOREM AccountsStay == AuthSpec => []WelcomedOwnTheAccount
<1> QED BY AlwaysInv, PTL DEF Inv

\* A token that the middleware takes was given to someone who knew the
\* password which its user's account has now.
THEOREM TokensAreEarned == AuthSpec => []TokensOfOwners
<1> QED BY AlwaysInv, PTL DEF Inv

\* An owner who is told 401 can blame MySQL.
THEOREM OwnersGetIn == AuthSpec => []OwnerGetsIn
<1> QED BY AlwaysInv, PTL
=============================================================================
