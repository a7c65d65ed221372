---------------------------- MODULE BreakerProofs ----------------------------
(***************************************************************************)
(* Proofs about Breaker, for every number of callers and every setting:    *)
(* its account is right, and it implements CircuitBreaker.                 *)
(*                                                                         *)
(* Account says of a breaker and of the requests of its generation what    *)
(* WindowAccount says of cb and mine, with what a trial needs besides.  It *)
(* survives the look at the time, so the steps can be proved as if the     *)
(* breaker were always current.                                            *)
(***************************************************************************)
EXTENDS Breaker, FiniteSetTheorems, TLAPS

Account(b, m) ==
    /\ b \in Breakers
    /\ m \subseteq Callers
    /\ b.requests = Cardinality(m) + b.successes + b.failures
    /\ b.state = "open" => b.requests = 0 /\ m = {}
    /\ b.state = "half-open" =>
           /\ b.failures = 0 /\ b.consecutive = b.successes
           /\ b.requests <= MaxRequests /\ b.successes < MaxRequests
           /\ b.left = 0

Inv == TypeOK /\ Account(cb, mine)

----------------------------------------------------------------------------
(* The breaker at the time it is looked at.                                *)

LEMMA NewAccount ==
  ASSUME NEW state \in States
  PROVE  Account(NewGeneration(state), {})
<1>1. Lifetime(state) \in Nat /\ (state = "half-open" => Lifetime(state) = 0)
  BY SettingsAssumption DEF Lifetime, States
<1>2. NewGeneration(state) \in Breakers
  BY <1>1 DEF NewGeneration, Breakers
<1>3. Cardinality({}) = 0
  BY FS_EmptySet
<1> QED BY <1>1, <1>2, <1>3, SettingsAssumption DEF Account, NewGeneration

\* A new generation has time left.
LEMMA NewLeft ==
  ASSUME NEW state \in States
  PROVE  NewGeneration(state).left >= 0 /\ NewGeneration(state).state = state
BY SettingsAssumption DEF NewGeneration, Lifetime, States

LEMMA CurrentAccount ==
  ASSUME Inv
  PROVE  /\ Account(Current, Own) /\ Current.left >= 0
         /\ Own \subseteq posts
<1>1. CASE Expired
  BY <1>1, NewAccount, NewLeft DEF Current, Own, States
<1>2. CASE ~ Expired
  BY <1>2 DEF Inv, TypeOK, Breakers, Current, Own, Expired
<1> QED BY <1>1, <1>2

\* The next step finds the breaker as the last one left it.
LEMMA Settled ==
  ASSUME cb' \in Breakers, cb'.left >= 0
  PROVE  Current' = cb' /\ Own' = mine'
BY DEF Current, Own, Expired, Breakers

----------------------------------------------------------------------------
(* What begins and what ends.                                              *)

LEMMA Begun ==
  ASSUME NEW b, NEW m, NEW c \in Callers, Account(b, m), c \notin m, Admits(b), b.left >= 0
  PROVE  /\ Account([b EXCEPT !.requests = @ + 1], m \cup {c})
         /\ [b EXCEPT !.requests = @ + 1].left >= 0
<1> DEFINE n == [b EXCEPT !.requests = @ + 1]
<1>1. IsFiniteSet(m) /\ Cardinality(m) \in Nat
  BY CallersAssumption, FS_Subset, FS_CardinalityType DEF Account
<1>2. Cardinality(m \cup {c}) = Cardinality(m) + 1
  BY <1>1, FS_AddElement
<1>3. b \in Breakers
  BY DEF Account
<1>4. /\ n \in Breakers /\ n.state = b.state /\ n.requests = b.requests + 1
      /\ n.successes = b.successes /\ n.failures = b.failures
      /\ n.consecutive = b.consecutive /\ n.left = b.left
  BY <1>3 DEF Breakers
<1> HIDE DEF n
<1>5. b.state # "open" /\ (b.state = "half-open" => b.requests < MaxRequests)
  BY DEF Admits
<1>6. b.requests \in Nat /\ b.successes \in Nat /\ b.failures \in Nat
  BY <1>3 DEF Breakers
<1>7. n.requests = Cardinality(m \cup {c}) + n.successes + n.failures
  BY <1>1, <1>2, <1>4, <1>6 DEF Account
<1>8. Account(n, m \cup {c})
  BY <1>4, <1>5, <1>6, <1>7, SettingsAssumption DEF Account
<1> QED BY <1>4, <1>8 DEF n

LEMMA Ended ==
  ASSUME NEW b, NEW m, NEW c \in m, Account(b, m)
  PROVE  /\ b.state # "open"
         /\ Cardinality(m \ {c}) \in Nat
         /\ Cardinality(m) = Cardinality(m \ {c}) + 1
<1>1. IsFiniteSet(m)
  BY CallersAssumption, FS_Subset DEF Account
<1>2. Cardinality(m) \in Nat /\ Cardinality(m \ {c}) = Cardinality(m) - 1
  BY <1>1, FS_RemoveElement, FS_CardinalityType
<1>3. IsFiniteSet(m \ {c})
  BY <1>1, FS_Subset
<1>4. Cardinality(m \ {c}) \in Nat
  BY <1>3, FS_CardinalityType
<1> QED BY <1>2, <1>4 DEF Account

LEMMA EndedWell ==
  ASSUME NEW b, NEW m, NEW c \in m, Account(b, m), ~ Closes(Succeeded(b)), b.left >= 0
  PROVE  Account(Succeeded(b), m \ {c}) /\ Succeeded(b).left >= 0
<1> DEFINE n == Succeeded(b)
<1>1. /\ b \in Breakers
      /\ b.successes \in Nat /\ b.failures \in Nat /\ b.consecutive \in Nat
      /\ b.requests \in Nat
  BY DEF Account, Breakers
<1>2. /\ n \in Breakers /\ n.state = b.state /\ n.requests = b.requests
      /\ n.successes = b.successes + 1 /\ n.failures = b.failures
      /\ n.consecutive = b.consecutive + 1 /\ n.left = b.left
  <2>1. b.successes + 1 \in Nat /\ b.consecutive + 1 \in Nat
    BY <1>1
  <2>2. \A i, j \in Nat : [b EXCEPT !.successes = i, !.consecutive = j] \in Breakers
    BY <1>1 DEF Breakers
  <2>3. n \in Breakers
    BY <2>1, <2>2 DEF Succeeded
  <2>4. /\ n.state = b.state /\ n.requests = b.requests
        /\ n.successes = b.successes + 1 /\ n.failures = b.failures
        /\ n.consecutive = b.consecutive + 1 /\ n.left = b.left
    BY <1>1 DEF Breakers, Succeeded
  <2> QED BY <2>3, <2>4
<1>3. n.state = "half-open" => ~ n.consecutive >= MaxRequests
  BY DEF Closes
<1> HIDE DEF n
<1>4. /\ Cardinality(m \ {c}) \in Nat
      /\ b.requests = Cardinality(m \ {c}) + 1 + b.successes + b.failures
  BY Ended DEF Account
<1>5. n.requests = Cardinality(m \ {c}) + n.successes + n.failures
  BY <1>1, <1>2, <1>4
<1>6. b.state # "open"
  BY Ended
<1>7. n.state = "half-open" =>
          /\ n.failures = 0 /\ n.consecutive = n.successes
          /\ n.requests <= MaxRequests /\ n.successes < MaxRequests
          /\ n.left = 0
  BY <1>1, <1>2, <1>3, SettingsAssumption DEF Account
<1>8. m \ {c} \subseteq Callers
  BY DEF Account
<1>9. Account(n, m \ {c})
  BY <1>2, <1>5, <1>6, <1>7, <1>8 DEF Account
<1> QED BY <1>2, <1>9 DEF n

LEMMA EndedBadly ==
  ASSUME NEW b, NEW m, NEW c \in m, Account(b, m), ~ Opens(b), b.left >= 0
  PROVE  Account(Failed(b), m \ {c}) /\ Failed(b).left >= 0 /\ Failed(b).state = "closed"
<1> DEFINE n == Failed(b)
<1>1. /\ b \in Breakers
      /\ b.successes \in Nat /\ b.failures \in Nat /\ b.consecutive \in Nat
      /\ b.requests \in Nat
  BY DEF Account, Breakers
<1>2. /\ n \in Breakers /\ n.state = b.state /\ n.requests = b.requests
      /\ n.successes = b.successes /\ n.failures = b.failures + 1
      /\ n.left = b.left
  <2>1. b.failures + 1 \in Nat
    BY <1>1
  <2>2. \A i, j \in Nat : [b EXCEPT !.failures = i, !.consecutive = j] \in Breakers
    BY <1>1 DEF Breakers
  <2>3. n \in Breakers
    BY <2>1, <2>2 DEF Failed
  <2>4. /\ n.state = b.state /\ n.requests = b.requests
        /\ n.successes = b.successes /\ n.failures = b.failures + 1
        /\ n.left = b.left
    BY <1>1 DEF Breakers, Failed
  <2> QED BY <2>3, <2>4
<1>3. n.state = "closed"
  BY <1>1, <1>2, Ended DEF Opens, Breakers, States
<1> HIDE DEF n
<1>4. /\ Cardinality(m \ {c}) \in Nat
      /\ b.requests = Cardinality(m \ {c}) + 1 + b.successes + b.failures
  BY Ended DEF Account
<1>5. n.requests = Cardinality(m \ {c}) + n.successes + n.failures
  BY <1>1, <1>2, <1>4
<1>6. Account(n, m \ {c})
  BY <1>2, <1>3, <1>5 DEF Account
<1> QED BY <1>2, <1>3, <1>6 DEF n

----------------------------------------------------------------------------
(* The invariant.                                                          *)

LEMMA InitInv == Init => Inv
<1> SUFFICES ASSUME Init PROVE Inv
  OBVIOUS
<1>1. Account(cb, mine)
  BY NewAccount DEF Init, States
<1> QED BY <1>1 DEF Init, Inv, TypeOK, Account

LEMMA ExecuteInv ==
  ASSUME Inv, NEW c \in Callers, Execute(c)
  PROVE  Inv' /\ cb'.left >= 0
<1>1. Account(Current, Own) /\ Current.left >= 0 /\ Own \subseteq posts
  BY CurrentAccount
<1>2. CASE /\ Admits(Current) /\ cb' = [Current EXCEPT !.requests = @ + 1]
           /\ posts' = posts \cup {c} /\ mine' = Own \cup {c}
  <2>1. c \notin Own
    BY <1>1 DEF Execute
  <2>2. Account(cb', mine') /\ cb'.left >= 0
    BY <1>1, <1>2, <2>1, Begun
  <2> QED BY <1>1, <1>2, <2>2 DEF Inv, TypeOK, Account, Execute
<1>3. CASE cb' = Current /\ mine' = Own /\ posts' = posts
  BY <1>1, <1>3 DEF Inv, TypeOK, Account, Execute
<1> QED BY <1>2, <1>3 DEF Execute

LEMMA FinishInv ==
  ASSUME Inv, NEW c \in Callers, Finish(c)
  PROVE  Inv' /\ cb'.left >= 0
<1>1. Account(Current, Own) /\ Current.left >= 0 /\ Own \subseteq posts
  BY CurrentAccount
<1>2. PICK success \in BOOLEAN : After(c, success)
  BY DEF Finish
<1>3. Account(cb', mine') /\ cb'.left >= 0 /\ mine' \subseteq Own \ {c}
  <2>1. CASE Ignored(c) /\ cb' = Current /\ mine' = Own \ {c}
    BY <1>1, <2>1 DEF Ignored
  <2>2. CASE cb' = NewGeneration("closed") /\ mine' = {}
    BY <2>2, NewAccount, NewLeft DEF States
  <2>3. CASE /\ ~ Ignored(c) /\ ~ Closes(Succeeded(Current))
             /\ cb' = Succeeded(Current) /\ mine' = Own \ {c}
    BY <1>1, <2>3, EndedWell DEF Ignored
  <2>4. CASE cb' = NewGeneration("open") /\ mine' = {}
    BY <2>4, NewAccount, NewLeft DEF States
  <2>5. CASE /\ ~ Ignored(c) /\ ~ Opens(Current)
             /\ cb' = Failed(Current) /\ mine' = Own \ {c}
    BY <1>1, <2>5, EndedBadly DEF Ignored
  <2> QED BY <1>2, <2>1, <2>2, <2>3, <2>4, <2>5 DEF After
<1>4. posts' = posts \ {c} /\ healthy' = healthy
  BY <1>2 DEF Finish, After
<1> QED BY <1>1, <1>3, <1>4 DEF Inv, TypeOK, Account

LEMMA TickLeft ==
  ASSUME Inv, Tick
  PROVE  /\ cb.state \in {"closed", "open"} /\ cb.left \in Nat
         /\ cb' \in Breakers /\ cb'.left = cb.left - 1
         /\ cb'.state = cb.state /\ cb'.requests = cb.requests
         /\ cb'.successes = cb.successes /\ cb'.failures = cb.failures
         /\ cb'.consecutive = cb.consecutive
<1>1. /\ cb \in Breakers /\ cb.left \in Nat
      /\ cb.state \in {"closed", "open"}
  BY DEF Inv, TypeOK, Tick, Breakers, States
<1>2. cb.left - 1 \in Nat \cup {-1}
  BY <1>1
<1>3. \A i \in Nat \cup {-1} : [cb EXCEPT !.left = i] \in Breakers
  BY <1>1 DEF Breakers
<1>4. cb' \in Breakers
  BY <1>2, <1>3 DEF Tick
<1> QED BY <1>1, <1>4 DEF Tick, Breakers

LEMMA NextInv == Inv /\ [Next]_vars => Inv'
<1> SUFFICES ASSUME Inv, [Next]_vars PROVE Inv'
  OBVIOUS
<1>1. ASSUME NEW c \in Callers, Execute(c) \/ Finish(c) PROVE Inv'
  BY <1>1, ExecuteInv, FinishInv
<1>2. CASE Tick
  BY <1>2, TickLeft DEF Tick, Inv, TypeOK, Account
<1>3. CASE Trouble \/ UNCHANGED vars
  BY <1>3 DEF Trouble, vars, Inv, TypeOK, Account
<1> QED BY <1>1, <1>2, <1>3 DEF Next

----------------------------------------------------------------------------
(* The refinement.  A step of the code ends with a breaker that is current,  *)
(* so what CircuitBreaker sees after it is cb and mine themselves.           *)

LEMMA ExecuteStep ==
  ASSUME Inv, NEW c \in Callers, Execute(c)
  PROVE  [Promise!Next]_Promise!promise
<1>1. Account(Current, Own) /\ Current.left >= 0 /\ Own \subseteq posts
  BY CurrentAccount
<1>2. Current' = cb' /\ Own' = mine'
  BY ExecuteInv, Settled DEF Inv, TypeOK
<1>3. CASE /\ Admits(Current) /\ cb' = [Current EXCEPT !.requests = @ + 1]
           /\ posts' = posts \cup {c} /\ mine' = Own \cup {c}
  <2>1. /\ cb'.state = Current.state /\ cb'.successes = Current.successes
        /\ cb'.left = Current.left
    BY <1>1, <1>3 DEF Account, Breakers
  <2>2. CASE Current.state = "closed"
    BY <1>2, <1>3, <2>1, <2>2 DEF Execute, Trial, Promise!Post, Promise!Next
  <2>3. CASE Current.state = "half-open" /\ Current.requests < MaxRequests
    <3>1. Cardinality(Own) + Current.successes < MaxRequests
      <4>1. /\ Current.requests = Cardinality(Own) + Current.successes + 0
            /\ Current.successes \in Nat /\ Current.requests \in Nat
        BY <1>1, <2>3 DEF Account, Breakers
      <4>2. Cardinality(Own) \in Nat
        BY <1>1, CallersAssumption, FS_Subset, FS_CardinalityType DEF Account
      <4> QED BY <2>3, <4>1, <4>2
    <3>2. /\ c \notin posts /\ Trial /\ Trial'
          /\ Own' = Own \cup {c} /\ Current'.successes = Current.successes
          /\ Current.state = "half-open" /\ Current'.state = "half-open"
      BY <1>2, <1>3, <2>1, <2>3 DEF Execute, Trial
    <3>3. /\ (IF Trial THEN Own ELSE {}) = Own
          /\ (IF Trial THEN Current.successes ELSE 0) = Current.successes
          /\ (IF Trial' THEN Own' ELSE {}) = Own'
          /\ (IF Trial' THEN Current'.successes ELSE 0) = Current'.successes
          /\ (IF Trial THEN "trial" ELSE Current.state) = "trial"
          /\ (IF Trial' THEN "trial" ELSE Current'.state) = "trial"
      BY <3>2
    <3>4. Cardinality(IF Trial THEN Own ELSE {})
              + (IF Trial THEN Current.successes ELSE 0) < MaxRequests
      BY <3>1, <3>3
    <3>5. /\ (IF Current.state = "open" THEN Current.left ELSE 0) = 0
          /\ (IF Current'.state = "open" THEN Current'.left ELSE 0) = 0
      BY <3>2
    <3>6. /\ (IF Trial THEN Own ELSE {})' = (IF Trial THEN Own ELSE {}) \cup {c}
          /\ (IF Trial THEN "trial" ELSE Current.state)'
                 = (IF Trial THEN "trial" ELSE Current.state)
          /\ (IF Trial THEN Current.successes ELSE 0)'
                 = (IF Trial THEN Current.successes ELSE 0)
          /\ (IF Current.state = "open" THEN Current.left ELSE 0)'
                 = (IF Current.state = "open" THEN Current.left ELSE 0)
      BY <3>2, <3>3, <3>5
    <3>7. c \notin posts /\ posts' = posts \cup {c}
      BY <1>3, <3>2
    <3>8. Promise!Post(c)
      BY <3>3, <3>4, <3>6, <3>7 DEF Promise!Post, Cardinality, Promise!Cardinality
    <3> QED BY <3>8 DEF Promise!Next
  <2> QED BY <1>3, <2>2, <2>3 DEF Admits
<1>4. CASE cb' = Current /\ mine' = Own /\ posts' = posts
  BY <1>2, <1>4 DEF Trial, Promise!promise
<1> QED BY <1>3, <1>4 DEF Execute

\* How an admitted POST ends, for a trial and in a closed breaker.
LEMMA TrialStep ==
  ASSUME Inv, NEW c \in Own, NEW success \in BOOLEAN, After(c, success),
         Current' = cb' /\ Own' = mine', Current.state = "half-open"
  PROVE  Promise!Finish(c)
<1>1. /\ Account(Current, Own) /\ Current \in Breakers
      /\ Current.successes \in Nat /\ Current.consecutive = Current.successes
      /\ Current.successes < MaxRequests
  BY CurrentAccount DEF Account, Breakers
<1>2. c \in posts /\ posts' = posts \ {c}
  BY DEF After
<1>3. CASE Closes(Succeeded(Current)) /\ cb' = NewGeneration("closed") /\ mine' = {}
  <2>1. Current.successes + 1 = MaxRequests
    <3>1. Succeeded(Current).consecutive = Current.consecutive + 1
      BY <1>1 DEF Succeeded, Breakers
    <3> QED BY <1>1, <1>3, <3>1, SettingsAssumption DEF Closes
  <2> QED BY <1>2, <1>3, <2>1 DEF NewGeneration, Trial, Promise!Finish, Promise!Close
<1>4. CASE /\ ~ Closes(Succeeded(Current))
           /\ cb' = Succeeded(Current) /\ mine' = Own \ {c}
  <2>1. /\ cb'.state = "half-open" /\ cb'.successes = Current.successes + 1
        /\ Succeeded(Current).state = "half-open"
        /\ Succeeded(Current).consecutive = Current.successes + 1
    BY <1>1, <1>4 DEF Succeeded, Breakers
  <2>2. Current.successes + 1 < MaxRequests
    BY <1>1, <1>4, <2>1, SettingsAssumption DEF Closes
  <2> QED BY <1>2, <1>4, <2>1, <2>2 DEF Trial, Promise!Finish
<1>5. CASE cb' = NewGeneration("open") /\ mine' = {}
  BY <1>2, <1>5 DEF NewGeneration, Lifetime, Trial, Promise!Finish, Promise!Open
<1> QED BY <1>3, <1>4, <1>5 DEF After, Ignored, Opens

LEMMA ClosedStep ==
  ASSUME Inv, NEW c \in Own, NEW success \in BOOLEAN, After(c, success),
         Current' = cb' /\ Own' = mine', Current.state = "closed"
  PROVE  Promise!Finish(c)
<1>1. Current \in Breakers
  BY CurrentAccount DEF Account
<1>2. c \in posts /\ posts' = posts \ {c}
  BY DEF After
<1>3. Succeeded(Current).state = "closed" /\ Failed(Current).state = "closed"
  BY <1>1 DEF Succeeded, Failed, Breakers
<1>4. CASE cb'.state = "closed"
  BY <1>2, <1>4 DEF Trial, Promise!Finish
<1>5. CASE cb' = NewGeneration("open")
  BY <1>2, <1>5 DEF NewGeneration, Lifetime, Trial, Promise!Finish, Promise!Open
<1> QED BY <1>3, <1>4, <1>5 DEF After, Ignored, Closes

LEMMA FinishStep ==
  ASSUME Inv, NEW c \in Callers, Finish(c)
  PROVE  Promise!Finish(c)
<1>1. Account(Current, Own) /\ Own \subseteq posts
  BY CurrentAccount
<1>2. Current' = cb' /\ Own' = mine'
  BY FinishInv, Settled DEF Inv, TypeOK
<1>3. PICK success \in BOOLEAN : After(c, success)
  BY DEF Finish
<1>4. CASE Ignored(c)
  BY <1>2, <1>3, <1>4 DEF After, Ignored, Trial, Promise!Finish
<1>5. CASE c \in Own
  <2>1. Current.state \in {"closed", "half-open"}
    BY <1>1, <1>5 DEF Account, Breakers, States
  <2> QED BY <1>2, <1>3, <1>5, <2>1, TrialStep, ClosedStep
<1> QED BY <1>4, <1>5 DEF Ignored

\* Time that runs out is the abstract breaker's own step; the code learns of
\* it later.
LEMMA TickStep ==
  ASSUME Inv, Tick
  PROVE  [Promise!Next]_Promise!promise
<1>1. Current = cb /\ Own = mine
  BY TickLeft DEF Current, Own, Expired
<1>2. posts' = posts /\ mine' = mine
  BY DEF Tick
<1>3. CASE cb.left > 0
  <2>1. Current' = cb' /\ Own' = mine'
    BY <1>3, TickLeft, Settled
  <2>2. CASE cb.state = "open"
    BY <1>1, <1>2, <1>3, <2>1, <2>2, TickLeft DEF Trial, Promise!Tick, Promise!Next
  <2>3. CASE cb.state = "closed"
    BY <1>1, <1>2, <2>1, <2>3, TickLeft DEF Trial, Promise!promise
  <2> QED BY <2>2, <2>3, TickLeft
<1>4. CASE cb.left = 0
  <2>1. Expired'
    BY <1>4, TickLeft DEF Expired
  <2>2. CASE cb.state = "open"
    <3>1. Current' = NewGeneration("half-open") /\ Own' = {}
      BY <2>1, <2>2, TickLeft DEF Current, Own
    <3> QED BY <1>1, <1>2, <1>4, <2>2, <3>1
            DEF NewGeneration, Trial, Promise!Tick, Promise!Next
  <2>3. CASE cb.state = "closed"
    <3>1. Current' = NewGeneration("closed") /\ Own' = {}
      BY <2>1, <2>3, TickLeft DEF Current, Own
    <3> QED BY <1>1, <1>2, <2>3, <3>1 DEF NewGeneration, Trial, Promise!promise
  <2> QED BY <2>2, <2>3, TickLeft
<1> QED BY <1>3, <1>4, TickLeft

LEMMA NextStep == Inv /\ [Next]_vars => [Promise!Next]_Promise!promise
<1> SUFFICES ASSUME Inv, [Next]_vars PROVE [Promise!Next]_Promise!promise
  OBVIOUS
<1>1. ASSUME NEW c \in Callers, Execute(c) PROVE [Promise!Next]_Promise!promise
  BY <1>1, ExecuteStep
<1>2. ASSUME NEW c \in Callers, Finish(c) PROVE [Promise!Next]_Promise!promise
  BY <1>2, FinishStep DEF Promise!Next
<1>3. CASE Tick
  BY <1>3, TickStep
<1>4. CASE Trouble \/ UNCHANGED vars
  BY <1>4 DEF Trouble, vars, Trial, Current, Own, Expired, NewGeneration, Promise!promise
<1> QED BY <1>1, <1>2, <1>3, <1>4 DEF Next

LEMMA InitPromise == Init => Promise!Init
BY SettingsAssumption DEF Init, NewGeneration, Lifetime, Current, Own, Expired, Trial, Promise!Init

----------------------------------------------------------------------------
(* Theorems.                                                               *)

\* Type correctness: whatever ends whenever, the requests of a generation are
\* requests on their way.
THEOREM TypeCorrect == Spec => []TypeOK
<1>1. Inv => TypeOK
  BY DEF Inv
<1> QED BY <1>1, InitInv, NextInv, PTL DEF Spec

\* The counts are those of the requests of the window or the trial, for every
\* number of callers and every setting.
THEOREM AccountIsRight == Spec => []WindowAccount
<1>1. Inv => WindowAccount
  BY DEF Inv, Account, WindowAccount
<1> QED BY <1>1, InitInv, NextInv, PTL DEF Spec

\* The breaker keeps what CircuitBreaker promises, though it has no clock and
\* ignores the results that come late.
THEOREM BreakerImplements == Spec => KeepsPromise
<1>1. Init => Promise!Init
  BY InitPromise
<1>2. Inv /\ [Next]_vars => [Promise!Next]_Promise!promise
  BY NextStep
<1> QED BY <1>1, <1>2, InitInv, NextInv, PTL DEF Spec, KeepsPromise, Promise!Spec
=============================================================================
