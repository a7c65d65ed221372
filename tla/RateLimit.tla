------------------------------ MODULE RateLimit ------------------------------
(***************************************************************************)
(* NewRateLimitMiddleware: one Redis counter per user and minute, raised   *)
(* and given a life by a pipeline of INCR and EXPIRE.                      *)
(*                                                                         *)
(* A pipeline is no transaction: Redis may serve other clients between the *)
(* two commands, the connection may break before, between or after them,   *)
(* and the client then sends the whole pipeline again.  Time passes in     *)
(* ticks; the clock of the server and of Redis are one.                    *)
(***************************************************************************)
EXTENDS Integers, FiniteSets, Functions

CONSTANTS
    Users,     \* users of the tokens
    Requests,  \* slots for requests in flight at the same time
    Limit,     \* perUserPerMinute
    Minute,    \* length of a bucket, in ticks
    KeyTTL,    \* life EXPIRE gives a counter, in ticks
    Deadline,  \* ticks from reading the clock to the last effect on Redis: the
               \* 30 s of the request's context, and what Redis is late by
    Retries,   \* times the client sends a failed pipeline again
    MaxTime,   \* bound on the clock
    MaxArrived, \* bound on the requests that arrive
    None       \* no request, no reply, no expiry

ASSUME TimeAssumption ==
    /\ Limit \in Nat \ {0} /\ Minute \in Nat \ {0} /\ KeyTTL \in Nat \ {0}
    /\ Deadline \in Nat /\ Retries \in Nat /\ MaxTime \in Nat
    /\ MaxArrived \in Nat

ASSUME NoneAssumption == None \notin Nat
ASSUME RequestsAssumption == IsFiniteSet(Requests)

Buckets == 0 .. (MaxTime \div Minute)
Keys    == Users \X Buckets

VARIABLES
    now,
    counter,    \* counter[k]: the value of key k, 0 when it does not exist
    expires,    \* expires[k]: when k goes, None if it has no life yet
    pc,         \* pc[r]: the next command of request r
    arg,        \* arg[r]: the key r counts on, when r read the clock, the
                \* retries left and the value its INCR returned
    reply,      \* the answer of the last step
    arrived,    \* arrived[k]: requests that read the clock in this bucket
    passed,     \* passed[k]: those handed to the next handler
    restarted   \* Redis lost its keys

vars == <<now, counter, expires, pc, arg, reply, arrived, passed, restarted>>

redis == <<counter, expires>>
seen  == <<arrived, restarted>>

Locals == [key : Keys, at : 0 .. MaxTime, retries : 0 .. Retries, val : Nat]

----------------------------------------------------------------------------
Init ==
    /\ now = 0
    /\ counter = [k \in Keys |-> 0]
    /\ expires = [k \in Keys |-> None]
    /\ pc = [r \in Requests |-> "idle"]
    /\ arg = [r \in Requests |-> None]
    /\ reply = None
    /\ arrived = [k \in Keys |-> 0]
    /\ passed = [k \in Keys |-> 0]
    /\ restarted = FALSE

\* The key the middleware formats from the user and now / 60.
KeyOf(u) == <<u, now \div Minute>>

Arrive(r, u) ==
    /\ pc[r] = "idle"
    /\ SumFunction(arrived) < MaxArrived
    /\ pc' = [pc EXCEPT ![r] = "incr"]
    /\ arg' = [arg EXCEPT ![r] = [key |-> KeyOf(u), at |-> now,
                                  retries |-> Retries, val |-> 0]]
    /\ arrived' = [arrived EXCEPT ![<<u, now \div Minute>>] = @ + 1]
    /\ reply' = None
    /\ UNCHANGED <<now, redis, passed, restarted>>

Answer(r, status) ==
    /\ reply' = [status |-> status, key |-> arg[r].key]
    /\ pc' = [pc EXCEPT ![r] = "idle"]
    /\ arg' = [arg EXCEPT ![r] = None]

\* The pipeline failed: the client sends it again, or the answer is 503.
Failed(r) ==
    \/ /\ arg[r].retries > 0
       /\ pc' = [pc EXCEPT ![r] = "incr"]
       /\ arg' = [arg EXCEPT ![r].retries = @ - 1]
       /\ reply' = None
    \/ Answer(r, 503)

\* No command reached Redis.
Unreached(r) ==
    /\ pc[r] = "incr"
    /\ Failed(r)
    /\ UNCHANGED <<now, redis, seen, passed>>

Incr(r) ==
    LET k == arg[r].key IN
    /\ pc[r] = "incr"
    /\ counter' = [counter EXCEPT ![k] = @ + 1]
    /\ arg' = [arg EXCEPT ![r].val = counter[k] + 1]
    /\ pc' = [pc EXCEPT ![r] = "expire"]
    /\ reply' = None
    /\ UNCHANGED <<now, expires, seen, passed>>

\* The connection broke between the commands.
Cut(r) ==
    /\ pc[r] = "expire"
    /\ Failed(r)
    /\ UNCHANGED <<now, redis, seen, passed>>

\* EXPIRE takes effect on a key that exists.
\* Mutated forms: 70 minutes for 70 s; 70 without its unit, nanoseconds, of
\* which the client makes a second, gone with the next tick.
ExpireInMinutes(k) ==
    expires' = [expires EXCEPT ![k] = IF counter[k] > 0 THEN now + Minute * KeyTTL ELSE @]
ExpireInNanoseconds(k) ==
    expires' = [expires EXCEPT ![k] = IF counter[k] > 0 THEN now + 1 ELSE @]
ExpireKey(k) ==
    expires' = [expires EXCEPT ![k] = IF counter[k] > 0 THEN now + KeyTTL ELSE @]

\* The check on what INCR returned.
\* Mutated form: off by one.
UnderByOne(val) == val >= Limit
TooMany(val)    == val > Limit

Expire(r) ==
    LET k == arg[r].key IN
    /\ pc[r] = "expire"
    /\ ExpireKey(k)
    /\ \/ /\ TooMany(arg[r].val)
          /\ Answer(r, 429)
          /\ UNCHANGED passed
       \/ /\ ~ TooMany(arg[r].val)
          /\ Answer(r, 200)
          /\ passed' = [passed EXCEPT ![k] = @ + 1]
    /\ UNCHANGED <<now, counter, seen>>

\* Both commands ran and their results were lost.
AnswerLost(r) ==
    /\ pc[r] = "expire"
    /\ ExpireKey(arg[r].key)
    /\ Failed(r)
    /\ UNCHANGED <<now, counter, seen, passed>>

\* A tick of the clock; Redis drops the keys whose time has come.
Tick ==
    /\ now < MaxTime
    /\ \A r \in Requests : pc[r] # "idle" => now < arg[r].at + Deadline
    /\ now' = now + 1
    /\ counter' = [k \in Keys |-> IF expires[k] = now + 1 THEN 0 ELSE counter[k]]
    /\ expires' = [k \in Keys |-> IF expires[k] = now + 1 THEN None ELSE expires[k]]
    /\ reply' = None
    /\ UNCHANGED <<pc, arg, seen, passed>>

\* Redis keeps nothing on disk that survives its container.
RedisRestart ==
    /\ counter' = [k \in Keys |-> 0]
    /\ expires' = [k \in Keys |-> None]
    /\ restarted' = TRUE
    /\ reply' = None
    /\ UNCHANGED <<now, pc, arg, arrived, passed>>

\* The server is killed with everything in flight.
Crash ==
    /\ \E r \in Requests : pc[r] # "idle"
    /\ pc' = [r \in Requests |-> "idle"]
    /\ arg' = [r \in Requests |-> None]
    /\ reply' = None
    /\ UNCHANGED <<now, redis, seen, passed>>

Step(r) ==
    \/ \E u \in Users : Arrive(r, u)
    \/ Unreached(r) \/ Incr(r) \/ Cut(r) \/ Expire(r) \/ AnswerLost(r)

Next == (\E r \in Requests : Step(r)) \/ Tick \/ RedisRestart \/ Crash

Spec == Init /\ [][Next]_vars

----------------------------------------------------------------------------
TypeOK ==
    /\ now \in 0 .. MaxTime
    /\ counter \in [Keys -> Nat]
    /\ expires \in [Keys -> 0 .. (MaxTime + KeyTTL) \cup {None}]
    /\ pc \in [Requests -> {"idle", "incr", "expire"}]
    /\ arg \in [Requests -> Locals \cup {None}]
    /\ reply \in [status : {200, 429, 503}, key : Keys] \cup {None}
    /\ arrived \in [Keys -> Nat]
    /\ passed \in [Keys -> Nat]
    /\ restarted \in BOOLEAN

Start(k) == k[2] * Minute

\* Lives the counter of k may have begun by now.  A life begins KeyTTL after the
\* last EXPIRE of the one before, at the earliest, and nobody counts on k any
\* more when the last request of its minute has given up.  60 s and the delay
\* of a request are longer than the 70 s of a counter, so there may be two.
Lives(k) ==
    LET last == Minute + Deadline - 1
        age  == now - Start(k)
    IN  1 + (IF age < last THEN age ELSE last) \div KeyTTL

\* While Redis keeps its keys, the requests a user starts within a minute pass
\* at most Limit times for each life of their counter, though their pipelines
\* interleave, break, repeat, outlast the minute and the counter itself: at
\* most Limit until KeyTTL after the start of the minute.
LimitPerLife ==
    ~ restarted =>
        \A k \in Keys : Start(k) <= now => passed[k] <= Limit * Lives(k)

\* 429 is answered only to a user whose requests of this minute, each counted
\* once for every time its pipeline was sent, exceed the limit.
RefusedForCause ==
    reply # None /\ reply.status = 429 =>
        (1 + Retries) * arrived[reply.key] > Limit
=============================================================================
