------------------------------- MODULE Server -------------------------------
(***************************************************************************)
(* main, NewServer and Close around the requests of Auth: start-up, the    *)
(* signal, http.Server.Shutdown, the closing of the pools and the exit.    *)
(*                                                                         *)
(* A slot of Auth is a connection here.  Time passes in steps that the     *)
(* timeouts below are counted in; what a call finds of it is the age of    *)
(* its request.                                                            *)
(***************************************************************************)
EXTENDS Auth

CONSTANTS
    Faults,          \* {"mysql"} if MySQL may fail by itself, else {}
    RequestTimeout,  \* middleware.Timeout: 30 s
    WriteTimeout,    \* http.Server.WriteTimeout: 15 s
    NewGrace,        \* Shutdown closes a connection without a request after 5 s
    DrainTimeout     \* shutdownCtx: 30 s

ASSUME TimeoutAssumption ==
    /\ RequestTimeout \in Nat /\ WriteTimeout \in Nat /\ NewGrace \in Nat
    /\ DrainTimeout \in Nat /\ RequestTimeout <= DrainTimeout

VARIABLES
    phase,    \* how far main has come, "off" before it and after
    mysql,    \* the pools: "none", "open", "closed"
    redis,
    conn,     \* conn[r]: "none", "new" (no request yet), "active", "idle"
    age,      \* age[r]: of the request, or of a new connection
    early,    \* early[r]: the request came before the signal
    drain     \* what is left of shutdownCtx

serverVars == <<phase, mysql, redis, conn, age, early, drain>>
vars       == <<authVars, serverVars>>

Phases == {"off", "connect", "listen", "serving", "draining", "closing"}

Init ==
    /\ AuthInit
    /\ phase = "off" /\ mysql = "none" /\ redis = "none" /\ drain = 0
    /\ conn = [r \in Requests |-> "none"]
    /\ age = [r \in Requests |-> 0]
    /\ early = [r \in Requests |-> FALSE]

----------------------------------------------------------------------------
(* Start-up.                                                               *)

\* config.Load: without a secret the program panics and stays off.
Load ==
    /\ phase = "off"
    /\ phase' = "connect"
    /\ Silent /\ UNCHANGED <<mysql, redis, conn, age, early, drain>>

\* Mutated form of Stop: what was issued goes with the process.
StopAndForget ==
    /\ phase' = "off" /\ mysql' = "none" /\ redis' = "none" /\ drain' = 0
    /\ conn' = [r \in Requests |-> "none"]
    /\ age' = [r \in Requests |-> 0]
    /\ early' = [r \in Requests |-> FALSE]
    /\ pc' = [r \in Requests |-> "idle"]
    /\ tokens' = {}
    /\ UNCHANGED <<users, arg, row, reply, welcomed>>

\* The process ends, and with it its connections and its requests.
Stop ==
    /\ phase' = "off" /\ mysql' = "none" /\ redis' = "none" /\ drain' = 0
    /\ conn' = [r \in Requests |-> "none"]
    /\ age' = [r \in Requests |-> 0]
    /\ early' = [r \in Requests |-> FALSE]
    /\ Abandon

\* A pool is open once its Ping was answered; if it was not, NewServer returns
\* the error and main ends with Fatal.
OpenMySQL ==
    /\ phase = "connect" /\ mysql = "none"
    /\ \/ /\ mysql' = "open"
          /\ Silent /\ UNCHANGED <<phase, redis, conn, age, early, drain>>
       \/ Stop

OpenRedis ==
    /\ phase = "connect" /\ mysql = "open"
    /\ \/ /\ redis' = "open" /\ phase' = "listen"
          /\ Silent /\ UNCHANGED <<mysql, conn, age, early, drain>>
       \/ Stop

\* ListenAndServe in its own goroutine.  That it fails is Fatal as well.
Listen ==
    /\ phase = "listen"
    /\ \/ /\ phase' = "serving"
          /\ Silent /\ UNCHANGED <<mysql, redis, conn, age, early, drain>>
       \/ Stop

----------------------------------------------------------------------------
(* Connections and requests.                                               *)

Connect(r) ==
    /\ phase = "serving" /\ conn[r] = "none"
    /\ conn' = [conn EXCEPT ![r] = "new"]
    /\ age' = [age EXCEPT ![r] = 0]
    /\ Silent /\ UNCHANGED <<phase, mysql, redis, early, drain>>

\* What becomes of a connection that was answered: after the signal keep-alive
\* is off.
Done(r) ==
    /\ conn' = [conn EXCEPT ![r] = IF phase = "serving" THEN "idle" ELSE "none"]
    /\ age' = [age EXCEPT ![r] = 0]
    /\ early' = [early EXCEPT ![r] = FALSE]

\* A request comes, after the signal too: Shutdown leaves a new connection its
\* grace, and whoever is quicker than Shutdown is served.
Receive(r, b) ==
    /\ conn[r] \in {"new", "idle"}
    /\ Register(r, b) \/ Login(r, b)
    /\ \/ pc'[r] = "idle" /\ Done(r)
       \/ /\ pc'[r] # "idle"
          /\ conn' = [conn EXCEPT ![r] = "active"]
          /\ age' = [age EXCEPT ![r] = 0]
          /\ early' = [early EXCEPT ![r] = phase = "serving"]
    /\ UNCHANGED <<phase, mysql, redis, drain>>

\* MySQL can be asked while the pool is open and the context has not ended.
CanQuery(r) == mysql = "open" /\ age[r] < RequestTimeout
Fails(r)    == "mysql" \in Faults \/ ~ CanQuery(r)

\* A step of the handler.  An answer that is written after WriteTimeout does
\* not reach the client, though the context goes on and the row stays; nor
\* does any answer to a client that has gone.
Work(r) ==
    /\ \E delivered \in BOOLEAN :
           /\ delivered => age[r] < WriteTimeout
           /\ \/ Hash(r) \/ Compare(r, delivered)
              \/ /\ CanQuery(r)
                 /\ \/ GetByEmail(r) \/ GetByEmailFails(r, FALSE, delivered)
                    \/ \E id \in UserIds : InsertUser(r, id, delivered)
                    \/ InsertConflict(r, delivered)
              \/ /\ Fails(r)
                 /\ InsertFails(r, delivered) \/ GetByEmailFails(r, TRUE, delivered)
    /\ \/ pc'[r] = "idle" /\ Done(r)
       \/ pc'[r] # "idle" /\ UNCHANGED <<conn, age, early>>
    /\ UNCHANGED <<phase, mysql, redis, drain>>

\* A request with a token; the middleware needs neither pool.
Authorized(t) ==
    /\ phase \in {"serving", "draining"}
    /\ Access(t)
    /\ UNCHANGED serverVars

----------------------------------------------------------------------------
(* The end.                                                                *)

\* NotifyContext has been called before the goroutine that listens starts.
Signal ==
    /\ phase \in {"listen", "serving"}
    /\ phase' = "draining"
    /\ drain' = DrainTimeout
    /\ Silent /\ UNCHANGED <<mysql, redis, conn, age, early>>

\* Shutdown closes what is idle or new for too long.
CloseIdle(r) ==
    /\ phase = "draining"
    /\ conn[r] = "idle" \/ (conn[r] = "new" /\ age[r] >= NewGrace)
    /\ conn' = [conn EXCEPT ![r] = "none"]
    /\ age' = [age EXCEPT ![r] = 0]
    /\ Silent /\ UNCHANGED <<phase, mysql, redis, early, drain>>

\* Mutated form of ShutdownReturns: Shutdown with a context that never ends.
ShutdownWaits ==
    /\ phase = "draining"
    /\ \A r \in Requests : conn[r] = "none"
    /\ phase' = "closing"
    /\ Silent /\ UNCHANGED <<mysql, redis, conn, age, early, drain>>

\* When no connection is left, or shutdownCtx has ended.
ShutdownReturns ==
    /\ phase = "draining"
    /\ drain = 0 \/ \A r \in Requests : conn[r] = "none"
    /\ phase' = "closing"
    /\ Silent /\ UNCHANGED <<mysql, redis, conn, age, early, drain>>

\* Mutated form of CloseRedis: Close before Shutdown has returned.
CloseAtOnce ==
    /\ phase \in {"draining", "closing"} /\ redis = "open"
    /\ redis' = "closed"
    /\ Silent /\ UNCHANGED <<phase, mysql, conn, age, early, drain>>

\* Server.Close closes Redis, then MySQL, then main returns.
CloseRedis ==
    /\ phase = "closing" /\ redis = "open"
    /\ redis' = "closed"
    /\ Silent /\ UNCHANGED <<phase, mysql, conn, age, early, drain>>

CloseMySQL ==
    /\ phase = "closing" /\ redis = "closed" /\ mysql = "open"
    /\ mysql' = "closed"
    /\ Silent /\ UNCHANGED <<phase, redis, conn, age, early, drain>>

Exit == phase = "closing" /\ mysql = "closed" /\ Stop

\* The process is killed, by a signal too that comes before NotifyContext.
Kill == phase # "off" /\ Stop

Tick ==
    /\ phase \in {"serving", "draining", "closing"}
    /\ age' = [r \in Requests |->
           IF conn[r] \in {"new", "active"} /\ age[r] < RequestTimeout
           THEN age[r] + 1 ELSE age[r]]
    /\ drain' = IF drain = 0 THEN 0 ELSE drain - 1
    /\ Silent /\ UNCHANGED <<phase, mysql, redis, conn, early>>

TokensExpire == Expire /\ UNCHANGED serverVars

Down == ShutdownReturns \/ CloseRedis \/ CloseMySQL \/ Exit

Next ==
    \/ Load \/ OpenMySQL \/ OpenRedis \/ Listen
    \/ \E r \in Requests :
           \/ Connect(r) \/ Work(r) \/ CloseIdle(r)
           \/ \E b \in Bodies : Receive(r, b)
    \/ \E t \in tokens : Authorized(t)
    \/ Signal \/ Down \/ Kill \/ Tick \/ TokensExpire

Spec == Init /\ [][Next]_vars

\* The clock runs and so does main.  Nothing is assumed of the handlers: a
\* call may hang as long as it likes.
FairSpec == Spec /\ WF_vars(Tick) /\ WF_vars(Down)

----------------------------------------------------------------------------
(* Properties.                                                             *)

TypeOK ==
    /\ AuthTypeOK
    /\ phase \in Phases
    /\ mysql \in {"none", "open", "closed"} /\ redis \in {"none", "open", "closed"}
    /\ conn \in [Requests -> {"none", "new", "active", "idle"}]
    /\ age \in [Requests -> Nat]
    /\ early \in [Requests -> BOOLEAN]
    /\ drain \in 0 .. DrainTimeout
    /\ \A r \in Requests : pc[r] # "idle" <=> conn[r] = "active"

\* A request that came before the signal has both pools for as long as its
\* context lives: Close comes after its time, whatever comes in between.  (A
\* request that comes during the drain does not.)
PoolsOutliveRequests ==
    \A r \in Requests :
        pc[r] # "idle" /\ early[r] /\ age[r] < RequestTimeout
            => mysql = "open" /\ redis = "open"

\* After the signal the process ends, though a handler hangs.
Exits == phase = "draining" ~> phase = "off"
=============================================================================
