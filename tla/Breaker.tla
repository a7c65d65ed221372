------------------------------- MODULE Breaker -------------------------------
(***************************************************************************)
(* email.Client.SendInvite: the POST to the mail service inside a          *)
(* gobreaker circuit breaker, which all invitations of the process share.  *)
(*                                                                         *)
(* The breaker has no clock of its own: it looks at the time when a        *)
(* request begins and when it ends (currentState in gobreaker) and starts  *)
(* a new generation if the time of the old one is over.  A result counts   *)
(* only in the generation its request began in.                            *)
(***************************************************************************)
EXTENDS Integers, FiniteSets

CONSTANTS
    Callers,      \* invitations in progress, at most
    MaxRequests,  \* Settings.MaxRequests: 5
    Interval,     \* Settings.Interval: 30 s
    Timeout,      \* Settings.Timeout: 15 s
    MinRequests,  \* requests before ReadyToTrip looks at the failures: 10
    MaxCount      \* bound on the requests of one window, for TLC

ASSUME CallersAssumption == IsFiniteSet(Callers)
ASSUME SettingsAssumption ==
    /\ MaxRequests \in Nat \ {0} /\ MinRequests \in Nat \ {0} /\ MaxCount \in Nat
    /\ Interval \in Nat \ {0} /\ Timeout \in Nat \ {0}

VARIABLES
    cb,       \* the breaker: state, counts, and the time left to expiry
    posts,    \* the callers whose POST is on its way
    mine,     \* those of them that began in the current generation
    healthy   \* mails get through

vars == <<cb, posts, mine, healthy>>

States  == {"closed", "open", "half-open"}
\* left is expiry - now, -1 for any past; consecutive counts successes.
Breakers == [state : States, requests : Nat, successes : Nat, failures : Nat,
             consecutive : Nat, left : Nat \cup {-1}]

\* toNewGeneration: counts cleared, a new expiry.  A half-open breaker has none.
Lifetime(state) == CASE state = "closed" -> Interval
                     [] state = "open" -> Timeout
                     [] OTHER -> 0
NewGeneration(state) ==
    [state |-> state, requests |-> 0, successes |-> 0, failures |-> 0,
     consecutive |-> 0, left |-> Lifetime(state)]

\* Mutated form of Expired: only the window of a closed breaker ends.
ExpiredIfClosed == cb.state = "closed" /\ cb.left < 0
\* currentState: the breaker and the requests it takes for its own, now.
Expired == cb.left < 0
Current == IF ~ Expired THEN cb
           ELSE NewGeneration(IF cb.state = "open" THEN "half-open" ELSE "closed")
Own     == IF Expired THEN {} ELSE mine

\* TotalFailures*100/Requests >= 50 on at least MinRequests requests.
ReadyToTrip(b) ==
    b.requests >= MinRequests /\ b.failures * 100 >= 50 * b.requests

----------------------------------------------------------------------------
Init ==
    /\ cb = NewGeneration("closed")
    /\ posts = {} /\ mine = {}
    /\ healthy = TRUE

\* Mutated form of Admits: one trial too many.
AdmitsOneMore(b) ==
    b.state = "closed" \/ (b.state = "half-open" /\ b.requests <= MaxRequests)
\* beforeRequest lets a request through.
Admits(b) ==
    b.state = "closed" \/ (b.state = "half-open" /\ b.requests < MaxRequests)

\* Execute begins.  A request that is not admitted ends with ErrOpenState or
\* ErrTooManyRequests; looking at the time changed the breaker all the same.
Execute(c) ==
    /\ c \notin posts
    /\ \/ /\ Admits(Current)
          /\ Current.state = "closed" => Current.requests < MaxCount
          /\ cb' = [Current EXCEPT !.requests = @ + 1]
          /\ posts' = posts \cup {c}
          /\ mine' = Own \cup {c}
       \/ /\ ~ Admits(Current)
          /\ cb' = Current
          /\ mine' = Own
          /\ UNCHANGED posts
    /\ UNCHANGED healthy

\* A success in half-open closes the breaker once MaxRequests have succeeded.
Succeeded(b) == [b EXCEPT !.successes = @ + 1, !.consecutive = @ + 1]
\* Mutated form of Closes: one success more than requests are admitted.
ClosesLate(b) == b.state = "half-open" /\ b.consecutive > MaxRequests
Closes(b) == b.state = "half-open" /\ b.consecutive >= MaxRequests

\* Mutated form of Failed: a failure takes one success off the run.
FailedShortensRun(b) == [b EXCEPT !.failures = @ + 1, !.consecutive = @ - 1]
\* A failure in half-open opens the breaker at once.
Failed(b) == [b EXCEPT !.failures = @ + 1, !.consecutive = 0]
Opens(b)  == b.state = "half-open" \/ ReadyToTrip(Failed(b))

\* Mutated form of Ignored: every result counts.
NothingIgnored(c) == c \notin posts
\* afterRequest returns when the generation is not the one it began in.
Ignored(c) == c \notin Own

\* afterRequest(generation, success).
After(c, success) ==
    LET old == Own \ {c} IN
    /\ c \in posts
    /\ posts' = posts \ {c}
    /\ \/ Ignored(c) /\ cb' = Current /\ mine' = old
       \/ ~ Ignored(c) /\ success /\ Closes(Succeeded(Current))
              /\ cb' = NewGeneration("closed") /\ mine' = {}
       \/ ~ Ignored(c) /\ success /\ ~ Closes(Succeeded(Current))
              /\ cb' = Succeeded(Current) /\ mine' = old
       \/ ~ Ignored(c) /\ ~ success /\ Opens(Current)
              /\ cb' = NewGeneration("open") /\ mine' = {}
       \/ ~ Ignored(c) /\ ~ success /\ ~ Opens(Current)
              /\ cb' = Failed(Current) /\ mine' = old

\* A POST ends, at the latest with the timeout of http.Client.  Anything but
\* a 200 is a failure, and so is the end of the caller's own context.
Finish(c) ==
    /\ \E success \in BOOLEAN : (healthy => success) /\ After(c, success)
    /\ UNCHANGED healthy

Tick ==
    /\ cb.state # "half-open" /\ cb.left >= 0
    /\ cb' = [cb EXCEPT !.left = @ - 1]
    /\ UNCHANGED <<posts, mine, healthy>>

Trouble == healthy' = ~ healthy /\ UNCHANGED <<cb, posts, mine>>

Next ==
    \/ \E c \in Callers : Execute(c) \/ Finish(c)
    \/ Tick \/ Trouble

Spec == Init /\ [][Next]_vars

\* Time passes, and http.Client's timeout ends every POST.  That anyone
\* invites is not assumed.
FairSpec == Spec /\ WF_vars(Tick) /\ \A c \in Callers : WF_vars(Finish(c))

----------------------------------------------------------------------------
(* Properties.                                                             *)

TypeOK ==
    /\ cb \in Breakers
    /\ posts \subseteq Callers
    /\ mine \subseteq posts
    /\ healthy \in BOOLEAN

\* The counts ReadyToTrip and the trial go by are those of the window's own
\* requests: results of requests of an older window, which come in later,
\* never count, and none is counted twice or lost.
WindowAccount ==
    /\ cb.requests = Cardinality(mine) + cb.successes + cb.failures
    /\ cb.state = "open" => cb.requests = 0
    /\ cb.state = "half-open" => cb.failures = 0 /\ cb.requests <= MaxRequests

\* The breaker as the clock of CircuitBreaker sees it.
Trial   == Current.state = "half-open"
Promise == INSTANCE CircuitBreaker WITH
    mode   <- IF Trial THEN "trial" ELSE Current.state,
    trials <- IF Trial THEN Own ELSE {},
    passed <- IF Trial THEN Current.successes ELSE 0,
    quiet  <- IF Current.state = "open" THEN Current.left ELSE 0

\* A breaker that looks at the time only when it is called is as good as one
\* with a timer: no mail goes out for Timeout after it opened, at most
\* MaxRequests trials do then, and one failure among them opens it again.
KeepsPromise == Promise!Spec

\* A breaker that has sent all its trials does not stay half-open, where it
\* would refuse every invitation for ever.
TrialEnds == Trial /\ Current.requests >= MaxRequests ~> ~ Trial

\* When the mail service is well again, the breaker does not go on refusing,
\* and if people go on inviting it closes for good: nothing that happened
\* before keeps it open.
Recovers ==
    <>[]healthy =>
        /\ []<>Admits(Current)
        /\ []<><<\E c \in Callers : Execute(c)>>_vars => <>[](cb.state = "closed")
=============================================================================
