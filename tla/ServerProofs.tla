----------------------------- MODULE ServerProofs -----------------------------
(***************************************************************************)
(* Proofs about Server, for any requests and timeouts: it implements Auth, *)
(* so that what is proved of Auth survives its restarts, and the pools     *)
(* outlive the requests that came before the signal.                       *)
(*                                                                         *)
(* The clock of the drain and the age of a request run together: Budget    *)
(* says that what is left of the one covers what is left of the other.     *)
(***************************************************************************)
EXTENDS Server, AuthProofs

ServerTypes ==
    /\ phase \in Phases
    /\ mysql \in {"none", "open", "closed"} /\ redis \in {"none", "open", "closed"}
    /\ conn \in [Requests -> {"none", "new", "active", "idle"}]
    /\ age \in [Requests -> Nat]
    /\ early \in [Requests -> BOOLEAN]
    /\ drain \in 0 .. DrainTimeout

Connected == \A r \in Requests : pc[r] # "idle" <=> conn[r] = "active"

\* Nobody is connected to a server that is not up.
Quiet == phase \in {"off", "connect", "listen"} => \A r \in Requests : conn[r] = "none"

PoolsOpen == phase \in {"listen", "serving", "draining"} => mysql = "open" /\ redis = "open"

\* A request that came before the signal is over before the drain is.
Budget ==
    \A r \in Requests :
        conn[r] = "active" /\ early[r] =>
            /\ phase = "draining" => age[r] + drain >= RequestTimeout
            /\ phase = "closing" => age[r] >= RequestTimeout

ServerInv == ServerTypes /\ Connected /\ Quiet /\ PoolsOpen /\ Budget

----------------------------------------------------------------------------
(* Server implements Auth.                                                 *)

LEMMA WorkIsAuth ==
  ASSUME NEW r \in Requests, Work(r)
  PROVE  \E delivered \in BOOLEAN : AuthStep(r, delivered)
BY DEF Work, AuthStep

LEMMA StepIsAuth == [Next]_vars => [AuthNext]_authVars
<1> SUFFICES ASSUME [Next]_vars PROVE [AuthNext]_authVars
  OBVIOUS
<1>1. CASE UNCHANGED vars
  BY <1>1 DEF vars
<1>2. ASSUME Stop PROVE Abandon
  BY <1>2 DEF Stop
<1>3. CASE Load \/ OpenMySQL \/ OpenRedis \/ Listen
  BY <1>2, <1>3 DEF Load, OpenMySQL, OpenRedis, Listen, AuthNext
<1>4. ASSUME NEW r \in Requests, Connect(r) \/ CloseIdle(r) PROVE AuthNext
  BY <1>4 DEF Connect, CloseIdle, AuthNext
<1>5. ASSUME NEW r \in Requests, Work(r) PROVE AuthNext
  BY <1>5, WorkIsAuth DEF AuthNext
<1>6. ASSUME NEW r \in Requests, NEW b \in Bodies, Receive(r, b) PROVE AuthNext
  BY <1>6 DEF Receive, AuthNext
<1>7. ASSUME NEW t \in tokens, Authorized(t) PROVE AuthNext
  BY <1>7 DEF Authorized, AuthNext
<1>8. CASE Signal \/ Tick
  BY <1>8 DEF Signal, Tick, AuthNext
<1>9. CASE Down \/ Kill
  BY <1>2, <1>9 DEF Down, ShutdownReturns, CloseRedis, CloseMySQL, Exit, Kill, AuthNext
<1>10. CASE TokensExpire
  BY <1>10 DEF TokensExpire, AuthNext
<1> QED BY <1>1, <1>3, <1>4, <1>5, <1>6, <1>7, <1>8, <1>9, <1>10 DEF Next

----------------------------------------------------------------------------
(* The invariant of the connections and the pools.                         *)

LEMMA InitServer == Init => ServerInv
<1> SUFFICES ASSUME Init PROVE ServerInv
  OBVIOUS
<1>1. ServerTypes
  BY TimeoutAssumption DEF Init, ServerTypes, Phases
<1> QED BY <1>1 DEF Init, AuthInit, ServerInv, Connected, Quiet, PoolsOpen, Budget

\* What Connected says depends on pc and conn alone.
LEMMA SameConnected ==
  ASSUME Connected, Silent, UNCHANGED conn
  PROVE  Connected'
BY DEF Connected, Silent, flight

LEMMA StopServer == ASSUME Stop PROVE ServerInv'
<1>1. ServerTypes'
  BY TimeoutAssumption DEF Stop, ServerTypes, Phases
<1>2. Connected'
  BY DEF Stop, Abandon, Connected
<1> QED BY <1>1, <1>2 DEF Stop, ServerInv, Quiet, PoolsOpen, Budget

LEMMA StartServer ==
  ASSUME ServerInv, Load \/ OpenMySQL \/ OpenRedis \/ Listen
  PROVE  ServerInv'
<1>1. CASE Stop
  BY <1>1, StopServer
<1>2. CASE ~ Stop
  <2>1. /\ Silent /\ UNCHANGED <<conn, age, early, drain>>
        /\ phase \in {"off", "connect", "listen"} /\ phase' \in {"connect", "listen", "serving"}
        /\ phase' \in {"listen", "serving"} => mysql' = "open" /\ redis' = "open"
        /\ mysql' \in {mysql, "open"} /\ redis' \in {redis, "open"}
    BY <1>2 DEF Load, OpenMySQL, OpenRedis, Listen, ServerInv, PoolsOpen
  <2>2. /\ conn' = conn /\ age' = age /\ early' = early /\ drain' = drain
        /\ \A r \in Requests : conn[r] = "none"
    BY <2>1 DEF ServerInv, Quiet
  <2>3. ServerTypes' /\ Connected'
    BY <2>1, <2>2, SameConnected DEF ServerInv, ServerTypes, Phases
  <2>4. Quiet' /\ PoolsOpen' /\ Budget'
    BY <2>1, <2>2 DEF Quiet, PoolsOpen, Budget
  <2> QED BY <2>3, <2>4 DEF ServerInv
<1> QED BY <1>1, <1>2

\* A step of the request on connection r: what becomes of the connection.
Served(r) ==
    /\ \A q \in Requests \ {r} : (pc'[q] # "idle") = (pc[q] # "idle")
    /\ \/ pc'[r] = "idle" /\ Done(r)
       \/ pc'[r] # "idle" /\ conn[r] = "active" /\ UNCHANGED <<conn, age, early>>
       \/ /\ pc'[r] # "idle" /\ conn[r] \in {"new", "idle"}
          /\ conn' = [conn EXCEPT ![r] = "active"]
          /\ age' = [age EXCEPT ![r] = 0]
          /\ early' = [early EXCEPT ![r] = phase = "serving"]
    /\ UNCHANGED <<phase, mysql, redis, drain>>

LEMMA ServedServer ==
  ASSUME ServerInv, NEW r \in Requests, conn[r] # "none", Served(r)
  PROVE  ServerInv'
<1>1. /\ ServerTypes /\ Connected /\ Quiet /\ PoolsOpen /\ Budget
      /\ phase' = phase /\ mysql' = mysql /\ redis' = redis /\ drain' = drain
      /\ \A q \in Requests \ {r} : (pc'[q] # "idle") = (pc[q] # "idle")
  BY DEF ServerInv, Served
<1>2. /\ conn' \in [Requests -> {"none", "new", "active", "idle"}]
      /\ age' \in [Requests -> Nat]
      /\ \A q \in Requests \ {r} : conn'[q] = conn[q] /\ age'[q] = age[q]
      /\ pc'[r] # "idle" <=> conn'[r] = "active"
  BY <1>1 DEF Served, Done, ServerTypes
<1>3. /\ early' \in [Requests -> BOOLEAN]
      /\ \A q \in Requests \ {r} : early'[q] = early[q]
  <2>1. \/ early' = early
        \/ early' = [early EXCEPT ![r] = FALSE]
        \/ early' = [early EXCEPT ![r] = phase = "serving"]
    BY DEF Served, Done
  <2>2. (phase = "serving") \in BOOLEAN
    OBVIOUS
  <2> QED BY <1>1, <2>1, <2>2 DEF ServerTypes
<1>4. ServerTypes'
  BY <1>1, <1>2, <1>3 DEF ServerTypes
<1>5. Connected'
  BY <1>1, <1>2 DEF Connected
<1>6. phase \notin {"off", "connect", "listen"}
  BY <1>1 DEF Quiet
<1>7. Quiet' /\ PoolsOpen'
  BY <1>1, <1>6 DEF Quiet, PoolsOpen
<1>8. ASSUME NEW q \in Requests, conn'[q] = "active", early'[q]
      PROVE  /\ phase' = "draining" => age'[q] + drain' >= RequestTimeout
             /\ phase' = "closing" => age'[q] >= RequestTimeout
  <2>1. CASE q # r
    BY <1>1, <1>2, <1>3, <1>8, <2>1 DEF Budget
  <2>2. CASE q = r /\ conn[r] = "active" /\ UNCHANGED <<conn, age, early>>
    BY <1>1, <1>8, <2>2 DEF Budget
  <2>3. CASE q = r /\ early' = [early EXCEPT ![r] = phase = "serving"]
    BY <1>1, <1>8, <2>3 DEF ServerTypes
  <2>4. pc'[r] # "idle" \/ q # r
    BY <1>2, <1>8
  <2> QED BY <2>1, <2>2, <2>3, <2>4 DEF Served
<1>9. Budget'
  BY <1>8 DEF Budget
<1> QED BY <1>4, <1>5, <1>7, <1>9 DEF ServerInv

\* What a step of Auth does to the requests of the others.
LEMMA WorkServed ==
  ASSUME AuthTypeOK, ServerInv, NEW r \in Requests, Work(r)
  PROVE  conn[r] = "active" /\ Served(r)
<1>1. pc[r] # "idle" /\ \E step \in Steps : pc' = [pc EXCEPT ![r] = step]
  BY DEF Work, Hash, Compare, GetByEmail, GetByEmailFails, InsertUser, InsertConflict,
         InsertFails, Goto, Answer, Steps
<1>2. conn[r] = "active"
  BY <1>1 DEF ServerInv, Connected
<1>3. \A q \in Requests \ {r} : pc'[q] = pc[q]
  BY <1>1 DEF AuthTypeOK
<1> QED BY <1>2, <1>3 DEF Work, Served

LEMMA ReceiveServed ==
  ASSUME AuthTypeOK, ServerInv, NEW r \in Requests, NEW b \in Bodies, Receive(r, b)
  PROVE  conn[r] # "none" /\ Served(r)
<1>1. pc' = pc \/ \E step \in Steps : pc' = [pc EXCEPT ![r] = step]
  BY DEF Receive, Register, Login, Refuse, Begin, flight, Steps
<1>2. \A q \in Requests \ {r} : pc'[q] = pc[q]
  BY <1>1 DEF AuthTypeOK
<1> QED BY <1>2 DEF Receive, Served

LEMMA IdleServer ==
  ASSUME ServerInv, NEW r \in Requests, Connect(r) \/ CloseIdle(r)
  PROVE  ServerInv'
<1>1. /\ ServerTypes /\ Connected /\ Quiet /\ PoolsOpen /\ Budget
      /\ pc' = pc /\ UNCHANGED <<phase, mysql, redis, early, drain>>
      /\ phase \in {"serving", "draining"} /\ conn[r] # "active"
      /\ conn' = [conn EXCEPT ![r] = "new"] \/ conn' = [conn EXCEPT ![r] = "none"]
      /\ age' = [age EXCEPT ![r] = 0]
  BY DEF ServerInv, Connect, CloseIdle, Silent, flight
<1>2. ServerTypes'
  BY <1>1 DEF ServerTypes
<1>3. /\ conn'[r] # "active"
      /\ \A q \in Requests \ {r} : conn'[q] = conn[q] /\ age'[q] = age[q]
  BY <1>1 DEF ServerTypes
<1>4. Connected' /\ Quiet' /\ PoolsOpen' /\ Budget'
  BY <1>1, <1>3 DEF Connected, Quiet, PoolsOpen, Budget
<1> QED BY <1>2, <1>4 DEF ServerInv

LEMMA SignalServer ==
  ASSUME ServerInv, Signal
  PROVE  ServerInv'
<1>1. /\ ServerTypes /\ Connected /\ Quiet /\ PoolsOpen
      /\ phase \in {"listen", "serving"} /\ phase' = "draining" /\ drain' = DrainTimeout
      /\ conn' = conn /\ age' = age /\ mysql' = mysql /\ redis' = redis /\ early' = early
  BY DEF ServerInv, Signal
<1>2. ServerTypes' /\ Connected'
  BY <1>1, TimeoutAssumption, SameConnected DEF Signal, ServerTypes, Phases
<1>3. Budget'
  BY <1>1, TimeoutAssumption DEF ServerTypes, Budget
<1> QED BY <1>1, <1>2, <1>3 DEF ServerInv, Quiet, PoolsOpen

LEMMA TickServer ==
  ASSUME ServerInv, Tick
  PROVE  ServerInv'
<1>1. /\ ServerTypes /\ Connected /\ Quiet /\ PoolsOpen /\ Budget
      /\ phase' = phase /\ mysql' = mysql /\ redis' = redis /\ conn' = conn /\ early' = early
      /\ age' = [r \in Requests |->
             IF conn[r] \in {"new", "active"} /\ age[r] < RequestTimeout
             THEN age[r] + 1 ELSE age[r]]
      /\ drain' = IF drain = 0 THEN 0 ELSE drain - 1
  BY DEF ServerInv, Tick
<1>2. drain \in Nat /\ drain' \in 0 .. DrainTimeout /\ drain' \in Nat /\ drain' + 1 >= drain
  BY <1>1, TimeoutAssumption DEF ServerTypes
<1>3. age' \in [Requests -> Nat]
  BY <1>1 DEF ServerTypes
<1>4. ServerTypes' /\ Connected'
  BY <1>1, <1>2, <1>3, SameConnected DEF Tick, ServerTypes
<1>5. ASSUME NEW q \in Requests, conn[q] = "active", early[q]
      PROVE  /\ phase = "draining" => age'[q] + drain' >= RequestTimeout
             /\ phase = "closing" => age'[q] >= RequestTimeout
  <2>1. /\ phase = "draining" => age[q] + drain >= RequestTimeout
        /\ phase = "closing" => age[q] >= RequestTimeout
    BY <1>1, <1>5 DEF Budget
  <2>2. /\ age[q] \in Nat /\ age'[q] \in Nat
        /\ age'[q] = IF age[q] < RequestTimeout THEN age[q] + 1 ELSE age[q]
    BY <1>1, <1>3, <1>5 DEF ServerTypes
  <2>3. age'[q] >= RequestTimeout \/ age'[q] + drain' >= age[q] + drain
    <3>1. drain \in Nat /\ drain' \in Nat /\ drain' + 1 >= drain /\ RequestTimeout \in Nat
      BY <1>2, TimeoutAssumption
    <3>2. CASE age[q] < RequestTimeout
      <4>1. age'[q] = age[q] + 1 /\ age[q] \in Nat
        BY <2>2, <3>2
      <4> QED BY <3>1, <4>1
    <3>3. CASE ~ (age[q] < RequestTimeout)
      BY <2>2, <3>1, <3>3
    <3> QED BY <3>2, <3>3
  <2>4. age'[q] >= age[q]
    BY <2>2
  <2>5. drain' \in Nat /\ drain \in Nat /\ RequestTimeout \in Nat
    BY <1>2, TimeoutAssumption
  <2>6. phase = "draining" => age'[q] + drain' >= RequestTimeout
    BY <2>1, <2>2, <2>3, <2>5
  <2>7. phase = "closing" => age'[q] >= RequestTimeout
    BY <2>1, <2>2, <2>4, <2>5
  <2> QED BY <2>6, <2>7
<1>6. Budget'
  BY <1>1, <1>5 DEF Budget
<1> QED BY <1>1, <1>4, <1>6 DEF ServerInv, Quiet, PoolsOpen

LEMMA DownServer ==
  ASSUME ServerInv, Down \/ Kill
  PROVE  ServerInv'
<1>1. CASE Stop
  BY <1>1, StopServer
<1>2. CASE ShutdownReturns
  <2>1. /\ ServerTypes /\ Connected /\ Budget /\ phase = "draining" /\ phase' = "closing"
        /\ drain = 0 \/ \A r \in Requests : conn[r] = "none"
        /\ mysql' = mysql /\ redis' = redis /\ conn' = conn /\ age' = age
        /\ early' = early /\ drain' = drain
    BY <1>2 DEF ShutdownReturns, ServerInv
  <2>2. ServerTypes' /\ Connected'
    BY <1>2, <2>1, SameConnected DEF ShutdownReturns, ServerTypes, Phases
  <2>3. Budget'
    BY <2>1 DEF Budget, ServerTypes
  <2> QED BY <2>1, <2>2, <2>3 DEF ServerInv, Quiet, PoolsOpen
<1>3. CASE CloseRedis \/ CloseMySQL
  <2>1. /\ ServerTypes /\ Connected /\ Budget /\ phase = "closing" /\ phase' = phase
        /\ Silent /\ conn' = conn /\ age' = age /\ early' = early /\ drain' = drain
        /\ mysql' \in {mysql, "closed"} /\ redis' \in {redis, "closed"}
    BY <1>3 DEF CloseRedis, CloseMySQL, ServerInv
  <2>2. ServerTypes' /\ Connected'
    BY <2>1, SameConnected DEF ServerTypes
  <2> QED BY <2>1, <2>2 DEF ServerInv, Quiet, PoolsOpen, Budget
<1> QED BY <1>1, <1>2, <1>3 DEF Down, Exit, Kill

LEMMA NextServer == AuthTypeOK /\ ServerInv /\ [Next]_vars => ServerInv'
<1> SUFFICES ASSUME AuthTypeOK, ServerInv, [Next]_vars PROVE ServerInv'
  OBVIOUS
<1>1. CASE UNCHANGED serverVars /\ pc' = pc
  BY <1>1 DEF serverVars, ServerInv, ServerTypes, Connected, Quiet, PoolsOpen, Budget
<1>2. ASSUME NEW r \in Requests, Work(r) PROVE ServerInv'
  BY <1>2, WorkServed, ServedServer
<1>3. ASSUME NEW r \in Requests, NEW b \in Bodies, Receive(r, b) PROVE ServerInv'
  BY <1>3, ReceiveServed, ServedServer
<1>4. CASE UNCHANGED vars
  BY <1>1, <1>4 DEF vars, authVars, flight
<1>5. ASSUME NEW t \in tokens, Authorized(t) PROVE ServerInv'
  BY <1>1, <1>5 DEF Authorized, Access, flight
<1>6. CASE TokensExpire
  BY <1>1, <1>6 DEF TokensExpire, Expire, flight
<1> QED BY <1>2, <1>3, <1>4, <1>5, <1>6, StartServer, IdleServer, SignalServer, TickServer,
           DownServer DEF Next

----------------------------------------------------------------------------
(* Theorems.                                                               *)

\* Start-up, drain, crash and restart are nothing but steps of Auth to the
\* clients and to MySQL: an account and a token live through all of them.
THEOREM ServerImplementsAuth == Spec => AuthSpec
<1>1. Init => AuthInit
  BY DEF Init
<1> QED BY <1>1, StepIsAuth, PTL DEF Spec, AuthSpec

LEMMA ServerInvariant == Spec => [](AuthTypeOK /\ ServerInv)
<1>1. Spec => []AuthTypeOK
  BY ServerImplementsAuth, TypeCorrect, PTL
<1>2. Spec => []ServerInv
  BY <1>1, InitServer, NextServer, PTL DEF Spec
<1> QED BY <1>1, <1>2, PTL

\* The state of the process, its pools and its connections has its type, and
\* a connection is active exactly while its request is in flight.
THEOREM ServerTypeCorrect == Spec => []TypeOK
<1>1. AuthTypeOK /\ ServerInv => TypeOK
  BY DEF ServerInv, ServerTypes, Connected, TypeOK
<1> QED BY <1>1, ServerInvariant, PTL

\* The pools stay open for every request that came before the signal, for as
\* long as its context lives, if the drain may take as long as a request.
THEOREM PoolsAreThere == Spec => []PoolsOutliveRequests
<1>1. ServerInv => PoolsOutliveRequests
  <2> SUFFICES ASSUME ServerInv, NEW r \in Requests,
                      pc[r] # "idle", early[r], age[r] < RequestTimeout
               PROVE  mysql = "open" /\ redis = "open"
    BY DEF PoolsOutliveRequests
  <2>1. conn[r] = "active" /\ age[r] \in Nat /\ phase \in Phases
    BY DEF ServerInv, Connected, ServerTypes
  <2>2. phase # "closing"
    BY <2>1, TimeoutAssumption DEF ServerInv, Budget
  <2>3. phase \notin {"off", "connect", "listen"}
    BY <2>1 DEF ServerInv, Quiet
  <2> QED BY <2>1, <2>2, <2>3 DEF ServerInv, PoolsOpen, Phases
<1> QED BY <1>1, ServerInvariant, PTL

\* Owners keep their accounts, tokens their meaning and logins their truth
\* across any number of starts, drains, crashes and restarts.
THEOREM AuthSurvives ==
  Spec => [](WelcomedOwnTheAccount /\ TokensOfOwners /\ OwnerGetsIn)
BY ServerImplementsAuth, AccountsStay, TokensAreEarned, OwnersGetIn, PTL
=============================================================================
