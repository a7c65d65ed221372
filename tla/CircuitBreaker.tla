--------------------------- MODULE CircuitBreaker ---------------------------
(***************************************************************************)
(* What email.Client may expect of its circuit breaker, told by a clock    *)
(* that works by itself: after too many failures no invitation is mailed   *)
(* for Timeout, then MaxRequests trials are, and only when every one of    *)
(* them succeeds does the breaker close.  Breaker implements this without  *)
(* a clock of its own.                                                     *)
(***************************************************************************)
EXTENDS Naturals, FiniteSets

CONSTANTS
    Callers,      \* invitations in progress
    MaxRequests,  \* trials, Settings.MaxRequests
    Timeout       \* time without mail, Settings.Timeout

VARIABLES
    mode,    \* "closed", "open", "trial"
    posts,   \* the callers whose POST is on its way
    trials,  \* those of them that are trials
    passed,  \* trials that have succeeded
    quiet    \* what is left of Timeout

promise == <<mode, posts, trials, passed, quiet>>

Init == mode = "closed" /\ posts = {} /\ trials = {} /\ passed = 0 /\ quiet = 0

Open  == mode' = "open" /\ trials' = {} /\ passed' = 0 /\ quiet' = Timeout
Close == mode' = "closed" /\ trials' = {} /\ passed' = 0 /\ quiet' = 0

Post(c) ==
    /\ c \notin posts
    /\ \/ mode = "closed" /\ UNCHANGED trials
       \/ /\ mode = "trial"
          /\ Cardinality(trials) + passed < MaxRequests
          /\ trials' = trials \cup {c}
    /\ posts' = posts \cup {c}
    /\ UNCHANGED <<mode, passed, quiet>>

\* Only failures open; a post from before the trial decides nothing.
Finish(c) ==
    /\ c \in posts
    /\ posts' = posts \ {c}
    /\ \/ c \notin trials /\ UNCHANGED <<mode, trials, passed, quiet>>
       \/ mode = "closed" /\ Open
       \/ c \in trials /\ Open
       \/ c \in trials /\ passed + 1 = MaxRequests /\ Close
       \/ /\ c \in trials /\ passed + 1 < MaxRequests
          /\ trials' = trials \ {c}
          /\ passed' = passed + 1
          /\ UNCHANGED <<mode, quiet>>

Tick ==
    /\ mode = "open"
    /\ \/ quiet > 0 /\ quiet' = quiet - 1 /\ UNCHANGED mode
       \/ quiet = 0 /\ mode' = "trial" /\ UNCHANGED quiet
    /\ UNCHANGED <<posts, trials, passed>>

Next == Tick \/ \E c \in Callers : Post(c) \/ Finish(c)

Spec == Init /\ [][Next]_promise
=============================================================================
