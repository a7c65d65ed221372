--------------------------- MODULE RateLimitProofs ---------------------------
(***************************************************************************)
(* Proofs about RateLimit, for any users, requests, limit and times: type  *)
(* correctness, how far the limit of a minute holds, and that a 429 has    *)
(* cause.                                                                  *)
(*                                                                         *)
(* Within one life of a counter no more requests pass, or are going to,    *)
(* than INCR has counted, and Limit at most.  Account says so with the     *)
(* lives that may have ended before: the moment of the last EXPIRE tells   *)
(* how many (Past).  A life ends KeyTTL after it, so it makes room for one *)
(* more.  When nobody counts any more, the number stays (Limited).  And    *)
(* INCR counts a request once for every time its pipeline is sent, which   *)
(* is 1 + Retries times at most (Budget).                                  *)
(***************************************************************************)
EXTENDS RateLimit, FiniteSetTheorems, TLAPS

\* The first moment after the minute of key k.
End(k) == k[2] * Minute + Minute

RequestInv(r) ==
    pc[r] # "idle" =>
        /\ arg[r] \in Locals
        /\ arg[r].at <= now /\ now <= arg[r].at + Deadline
        /\ End(arg[r].key) - Minute <= arg[r].at /\ arg[r].at < End(arg[r].key)

Expiry(k) ==
    expires[k] # None =>
        /\ counter[k] > 0
        /\ now < expires[k] /\ expires[k] <= now + KeyTTL
        /\ Start(k) + KeyTTL <= expires[k]

\* Requests that will pass if their EXPIRE is answered.
Pending(k) ==
    {r \in Requests : pc[r] = "expire" /\ arg[r].key = k /\ ~ TooMany(arg[r].val)}

Total(k) == passed[k] + Cardinality(Pending(k))

\* Ticks since the start of the minute of k, and those until the last EXPIRE.
Age(k)     == IF now < Start(k) THEN 0 ELSE now - Start(k)
Renewed(k) == IF expires[k] = None THEN Age(k) ELSE expires[k] - KeyTTL - Start(k)

\* Lives of the counter that may have ended, and what this one has counted.
Past(k)    == Renewed(k) \div KeyTTL
Counted(k) == IF counter[k] < Limit THEN counter[k] ELSE Limit

Account(k) == ~ restarted => Total(k) <= Limit * Past(k) + Counted(k)
Limited(k) == ~ restarted => (Start(k) <= now => Total(k) <= Limit * Lives(k))

Inv ==
    /\ TypeOK
    /\ \A r \in Requests : RequestInv(r)
    /\ \A k \in Keys : Expiry(k)
    /\ \A k \in Keys : Account(k) /\ Limited(k)

----------------------------------------------------------------------------
(* Arithmetic and counting.                                                *)

LEMMA DivBounds ==
  ASSUME NEW a \in Nat, NEW m \in Nat \ {0}
  PROVE  /\ a \div m \in Nat
         /\ (a \div m) * m <= a /\ a < (a \div m) * m + m
OBVIOUS

LEMMA DivGrows ==
  ASSUME NEW a \in Nat, NEW b \in Nat, a <= b, NEW m \in Nat \ {0}
  PROVE  a \div m <= b \div m
<1> DEFINE p == a \div m
           q == b \div m
<1>1. p \in Nat /\ q \in Nat /\ p * m <= a /\ b < q * m + m
  BY DivBounds
<1> HIDE DEF p, q
<1>2. ASSUME p > q PROVE FALSE
  <2>1. PICK d \in Nat : p = q + 1 + d
    <3>1. p - q - 1 \in Nat /\ p = q + 1 + (p - q - 1)
      BY <1>1, <1>2
    <3> QED BY <3>1
  <2>2. p * m = q * m + m + d * m
    BY <1>1, <2>1
  <2>3. d * m \in Nat /\ p * m \in Nat /\ q * m \in Nat
    BY <1>1, <2>1
  <2> QED BY <1>1, <2>2, <2>3
<1>3. p <= q
  BY <1>1, <1>2
<1> QED BY <1>3 DEF p, q

\* A divisor later is a quotient more.
LEMMA DivNext ==
  ASSUME NEW a \in Nat, NEW m \in Nat \ {0}
  PROVE  (a + m) \div m = 1 + a \div m
<1> DEFINE p == a \div m
           q == (a + m) \div m
<1>1. p \in Nat /\ p * m <= a /\ a < p * m + m
  BY DivBounds
<1>2. q \in Nat /\ q * m <= a + m /\ a + m < q * m + m
  BY DivBounds
<1> HIDE DEF p, q
<1>3. p * m \in Nat /\ q * m \in Nat
  BY <1>1, <1>2
<1>4. ~ (q > 1 + p)
  <2> SUFFICES ASSUME q > 1 + p PROVE FALSE
    OBVIOUS
  <2>1. PICK d \in Nat : q = p + 2 + d
    <3>1. q - p - 2 \in Nat /\ q = p + 2 + (q - p - 2)
      BY <1>1, <1>2
    <3> QED BY <3>1
  <2>2. q * m = p * m + m + m + d * m /\ d * m \in Nat
    BY <1>1, <2>1
  <2> QED BY <1>1, <1>2, <1>3, <2>2
<1>5. ~ (q < 1 + p)
  <2> SUFFICES ASSUME q < 1 + p PROVE FALSE
    OBVIOUS
  <2>1. PICK d \in Nat : p = q + d
    <3>1. p - q \in Nat /\ p = q + (p - q)
      BY <1>1, <1>2
    <3> QED BY <3>1
  <2>2. p * m = q * m + d * m /\ d * m \in Nat
    BY <1>2, <2>1
  <2> QED BY <1>1, <1>2, <1>3, <2>2
<1>6. q = 1 + p
  BY <1>1, <1>2, <1>4, <1>5
<1> QED BY <1>6 DEF p, q

LEMMA TimesGrows ==
  ASSUME NEW a \in Nat, NEW b \in Nat, a <= b
  PROVE  /\ Limit * a \in Nat /\ Limit * b \in Nat /\ Limit * a <= Limit * b
         /\ Limit * (1 + a) = Limit * a + Limit
<1>1. PICK d \in Nat : b = a + d
  <2>1. b - a \in Nat /\ b = a + (b - a)
    OBVIOUS
  <2> QED BY <2>1
<1>2. Limit * b = Limit * a + Limit * d /\ Limit * d \in Nat /\ Limit * a \in Nat
  BY <1>1, TimeAssumption
<1>3. Limit * (1 + a) = Limit * a + Limit
  BY TimeAssumption
<1> QED BY <1>2, <1>3

LEMMA EndType ==
  ASSUME NEW k \in Keys
  PROVE  End(k) \in Nat /\ Start(k) \in Nat /\ End(k) = Start(k) + Minute
<1>1. k[2] \in Nat
  BY DEF Keys, Buckets
<1> QED BY <1>1, TimeAssumption DEF End, Start

LEMMA KeyOfNow ==
  ASSUME NEW u \in Users, now \in 0 .. MaxTime
  PROVE  /\ KeyOf(u) \in Keys
         /\ End(KeyOf(u)) - Minute <= now /\ now < End(KeyOf(u))
<1> DEFINE b == now \div Minute
<1>1. b \in Nat /\ b * Minute <= now /\ now < b * Minute + Minute
  BY DivBounds, TimeAssumption
<1>2. b <= MaxTime \div Minute /\ MaxTime \div Minute \in Nat
  BY DivGrows, DivBounds, TimeAssumption
<1>3. KeyOf(u) = <<u, b>>
  BY DEF KeyOf
<1> HIDE DEF b
<1>4. KeyOf(u) \in Keys
  BY <1>1, <1>2, <1>3 DEF Keys, Buckets
<1>5. End(KeyOf(u)) = b * Minute + Minute /\ b * Minute \in Nat
  BY <1>1, <1>3, TimeAssumption DEF End
<1> QED BY <1>1, <1>4, <1>5, TimeAssumption

LEMMA CountOne ==
  ASSUME NEW S, IsFiniteSet(S), NEW r
  PROVE  /\ Cardinality(S \ {r}) \in Nat
         /\ r \in S => Cardinality(S) = Cardinality(S \ {r}) + 1
         /\ r \notin S => Cardinality(S) = Cardinality(S \ {r})
<1>1. IsFiniteSet(S \ {r})
  BY FS_Subset
<1>2. CASE r \in S
  <2>1. Cardinality(S \ {r}) = Cardinality(S) - 1
    BY <1>2, FS_RemoveElement
  <2> QED BY <1>1, <1>2, <2>1, FS_CardinalityType
<1>3. CASE r \notin S
  <2>1. S \ {r} = S
    BY <1>3
  <2> QED BY <1>1, <1>3, <2>1, FS_CardinalityType
<1> QED BY <1>2, <1>3

LEMMA PendingFinite ==
  ASSUME NEW k
  PROVE  IsFiniteSet(Pending(k)) /\ IsFiniteSet(Pending(k)')
<1>1. Pending(k) \subseteq Requests /\ Pending(k)' \subseteq Requests
  BY DEF Pending
<1> QED BY <1>1, RequestsAssumption, FS_Subset

LEMMA TotalType ==
  ASSUME TypeOK, NEW k \in Keys
  PROVE  /\ Total(k) \in Nat /\ passed[k] \in Nat /\ passed[k] <= Total(k)
         /\ counter[k] \in Nat /\ Counted(k) \in 0 .. Limit
<1>1. Cardinality(Pending(k)) \in Nat
  BY PendingFinite, FS_CardinalityType
<1>2. passed[k] \in Nat /\ counter[k] \in Nat
  BY DEF TypeOK
<1> QED BY <1>1, <1>2, TimeAssumption DEF Total, Counted

\* The last EXPIRE of a counter was not after now.
LEMMA RenewedType ==
  ASSUME TypeOK, NEW k \in Keys, Expiry(k)
  PROVE  /\ Age(k) \in Nat /\ Renewed(k) \in Nat /\ Renewed(k) <= Age(k)
         /\ Past(k) \in Nat /\ Age(k) \div KeyTTL \in Nat /\ Past(k) <= Age(k) \div KeyTTL
<1>1. now \in Nat /\ Start(k) \in Nat /\ expires[k] \in Nat \cup {None} /\ KeyTTL \in Nat \ {0}
  BY EndType, TimeAssumption DEF TypeOK
<1>2. Age(k) \in Nat /\ Renewed(k) \in Nat /\ Renewed(k) <= Age(k)
  BY <1>1 DEF Age, Renewed, Expiry
<1> QED BY <1>1, <1>2, DivBounds, DivGrows DEF Past

\* How many lives there may have been by t.
LivesBy(k, t) ==
    LET last == Minute + Deadline - 1
        age  == t - Start(k)
    IN  1 + (IF age < last THEN age ELSE last) \div KeyTTL

LEMMA LivesAre ==
  /\ \A k : Lives(k) = LivesBy(k, now)
  /\ \A k : Lives(k)' = LivesBy(k, now')
BY DEF Lives, LivesBy, Start

LEMMA LivesGrow ==
  ASSUME NEW k \in Keys, NEW t \in Nat, Start(k) <= t
  PROVE  /\ LivesBy(k, t) \in Nat \ {0}
         /\ LivesBy(k, t) <= LivesBy(k, t + 1)
         /\ LivesBy(k, t + 1) \in Nat
         /\ t < End(k) + Deadline => LivesBy(k, t) = 1 + (t - Start(k)) \div KeyTTL
<1> DEFINE last == Minute + Deadline - 1
           age == t - Start(k)
           a == IF age < last THEN age ELSE last
           b == IF age + 1 < last THEN age + 1 ELSE last
<1>1. /\ Start(k) \in Nat /\ End(k) = Start(k) + Minute /\ Minute \in Nat \ {0}
      /\ Deadline \in Nat /\ KeyTTL \in Nat \ {0}
  BY EndType, TimeAssumption
<1>2. /\ last \in Nat /\ age \in Nat
      /\ t < End(k) + Deadline => age <= last
  BY <1>1
<1>3. LivesBy(k, t) = 1 + a \div KeyTTL /\ LivesBy(k, t + 1) = 1 + b \div KeyTTL
  <2> DEFINE c == IF (t + 1) - Start(k) < last THEN (t + 1) - Start(k) ELSE last
  <2>1. LivesBy(k, t) = 1 + a \div KeyTTL /\ LivesBy(k, t + 1) = 1 + c \div KeyTTL
    BY DEF LivesBy
  <2>2. b = c
    <3>1. (t + 1) - Start(k) = age + 1
      BY <1>1
    <3> QED BY <3>1
  <2> HIDE DEF a, b, c
  <2> QED BY <2>1, <2>2
<1>4. a \in Nat /\ b \in Nat /\ a <= b /\ (age <= last => a = age)
  BY <1>2
<1> HIDE DEF a, b, last
<1>5. a \div KeyTTL \in Nat /\ b \div KeyTTL \in Nat /\ a \div KeyTTL <= b \div KeyTTL
  BY <1>1, <1>4, DivBounds, DivGrows
<1> QED BY <1>2, <1>3, <1>4, <1>5

LEMMA LivesType ==
  ASSUME TypeOK, NEW k \in Keys, Start(k) <= now
  PROVE  Lives(k) \in Nat \ {0} /\ Limit * Lives(k) \in Nat
<1>1. now \in Nat
  BY TimeAssumption DEF TypeOK
<1>2. Lives(k) \in Nat \ {0}
  BY <1>1, LivesGrow, LivesAre
<1> QED BY <1>2, TimeAssumption

LEMMA InitInv == Init => Inv
<1> SUFFICES ASSUME Init PROVE Inv
  OBVIOUS
<1>1. TypeOK
  <2>1. now \in 0 .. MaxTime
    BY TimeAssumption DEF Init
  <2>5. restarted \in BOOLEAN
    BY DEF Init
  <2>2. counter \in [Keys -> Nat] /\ arrived \in [Keys -> Nat] /\ passed \in [Keys -> Nat]
    BY DEF Init
  <2>3. expires \in [Keys -> 0 .. (MaxTime + KeyTTL) \cup {None}]
    BY DEF Init
  <2>4. /\ pc \in [Requests -> {"idle", "incr", "expire"}]
        /\ arg \in [Requests -> Locals \cup {None}]
    BY DEF Init
  <2> QED BY <2>1, <2>2, <2>3, <2>4, <2>5 DEF Init, TypeOK
<1>2. \A r \in Requests : RequestInv(r)
  BY DEF Init, RequestInv
<1>3. \A k \in Keys : Expiry(k)
  BY DEF Init, Expiry
<1>4. ASSUME NEW k \in Keys PROVE Account(k) /\ Limited(k)
  <2>1. Total(k) = 0
    <3>1. Pending(k) = {}
      BY DEF Init, Pending
    <3> QED BY <3>1, FS_EmptySet DEF Init, Total
  <2>2. Counted(k) \in 0 .. Limit /\ Past(k) \in Nat /\ Limit * Past(k) \in Nat
    BY <1>1, <1>3, TotalType, RenewedType, TimesGrows
  <2>3. Start(k) <= now => Limit * Lives(k) \in Nat
    BY <1>1, LivesType
  <2> QED BY <2>1, <2>2, <2>3, TimeAssumption DEF Account, Limited
<1> QED BY <1>1, <1>2, <1>3, <1>4 DEF Inv

----------------------------------------------------------------------------
(* A step of request r.                                                    *)

\* What it leaves alone.
Frame(r) ==
    /\ now' = now /\ restarted' = restarted
    /\ \A q \in Requests \ {r} : pc'[q] = pc[q] /\ arg'[q] = arg[q]

LEMMA OthersKept ==
  ASSUME NEW r \in Requests, Frame(r), NEW k
  PROVE  Pending(k)' \ {r} = Pending(k) \ {r}
BY DEF Frame, Pending

\* What a step of a request may do to the life of a counter.
Renews(k) ==
    \/ expires'[k] = expires[k]
    \/ expires'[k] = now + KeyTTL /\ counter[k] > 0 /\ Start(k) <= now

LEMMA RenewsKeeps ==
  ASSUME TypeOK, TypeOK', NEW k \in Keys, Expiry(k), Renews(k),
         now' = now, counter'[k] >= counter[k]
  PROVE  /\ Expiry(k)' /\ Past(k) \in Nat /\ Past(k)' \in Nat /\ Past(k) <= Past(k)'
         /\ Age(k) \in Nat /\ Past(k)' <= Age(k) \div KeyTTL
<1>1. /\ now \in Nat /\ Start(k) \in Nat /\ Start(k)' = Start(k)
      /\ counter[k] \in Nat /\ counter'[k] \in Nat /\ KeyTTL \in Nat \ {0}
      /\ expires[k] \in Nat \cup {None} /\ expires'[k] \in Nat \cup {None}
  BY EndType, TimeAssumption DEF TypeOK, Start
<1>2. Expiry(k)'
  BY <1>1, NoneAssumption DEF Renews, Expiry
<1>3. Renewed(k) \in Nat /\ Renewed(k) <= Age(k) /\ Past(k) \in Nat /\ Age(k) \in Nat
  BY RenewedType
<1>4. Age(k)' = Age(k)
  BY <1>1 DEF Age
<1>5. Renewed(k)' \in Nat /\ Renewed(k) <= Renewed(k)' /\ Renewed(k)' <= Age(k)
  <2>1. CASE expires'[k] = expires[k]
    BY <1>1, <1>3, <1>4, <2>1 DEF Renewed
  <2>2. CASE expires'[k] = now + KeyTTL /\ Start(k) <= now
    <3>1. now + KeyTTL # None
      BY <1>1, NoneAssumption
    <3>2. Renewed(k)' = now + KeyTTL - KeyTTL - Start(k)
      BY <1>1, <2>2, <3>1 DEF Renewed
    <3>3. Age(k) = now - Start(k)
      BY <1>1, <2>2 DEF Age
    <3> QED BY <1>1, <1>3, <2>2, <3>2, <3>3
  <2> QED BY <2>1, <2>2 DEF Renews
<1>6. Past(k)' = Renewed(k)' \div KeyTTL
  BY DEF Past
<1>7. Past(k)' \in Nat /\ Past(k) <= Past(k)' /\ Past(k)' <= Age(k) \div KeyTTL
  BY <1>1, <1>3, <1>5, <1>6, DivBounds, DivGrows DEF Past
<1> QED BY <1>2, <1>3, <1>7

\* How the account moves when only r may enter or leave the pending.
LEMMA AccountMoves ==
  ASSUME TypeOK, TypeOK', NEW r \in Requests, NEW k \in Keys, Frame(r),
         Expiry(k), Renews(k), Account(k), Limited(k),
         \/ r \in Pending(k)' /\ r \in Pending(k)
              /\ passed'[k] = passed[k] /\ counter'[k] >= counter[k]
         \/ r \notin Pending(k)' /\ passed'[k] = passed[k] /\ counter'[k] >= counter[k]
         \/ r \notin Pending(k)' /\ r \in Pending(k)
              /\ passed'[k] = passed[k] + 1 /\ counter'[k] >= counter[k]
         \/ r \in Pending(k)' /\ counter[k] < Limit /\ now < End(k) + Deadline
              /\ passed'[k] = passed[k] /\ counter'[k] = counter[k] + 1
  PROVE  Account(k)' /\ Limited(k)'
<1> DEFINE n == Cardinality(Pending(k) \ {r})
           a == Cardinality(Pending(k))
           b == Cardinality(Pending(k)')
<1>1. /\ n \in Nat /\ (r \in Pending(k) => a = n + 1) /\ (r \notin Pending(k) => a = n)
  BY PendingFinite, CountOne
<1>2. /\ (r \in Pending(k)' => b = n + 1) /\ (r \notin Pending(k)' => b = n)
  BY PendingFinite, CountOne, OthersKept
<1>3. /\ passed[k] \in Nat /\ passed'[k] \in Nat /\ counter[k] \in Nat /\ counter'[k] \in Nat
      /\ now' = now /\ restarted' = restarted
  BY DEF TypeOK, Frame
<1>4. Total(k) = passed[k] + a /\ Total(k)' = passed'[k] + b
  BY DEF Total
<1> HIDE DEF n, a, b
<1>5. \/ Total(k)' <= Total(k) /\ counter'[k] >= counter[k]
      \/ /\ Total(k)' = Total(k) + 1 /\ counter'[k] = counter[k] + 1
         /\ counter[k] < Limit /\ now < End(k) + Deadline
  BY <1>1, <1>2, <1>3, <1>4
<1>6. /\ Past(k) \in Nat /\ Past(k)' \in Nat /\ Past(k) <= Past(k)'
      /\ Age(k) \in Nat /\ Past(k)' <= Age(k) \div KeyTTL
  BY <1>3, <1>5, RenewsKeeps
<1>7. Total(k) \in Nat /\ Total(k)' \in Nat
  BY <1>1, <1>2, <1>3, <1>4
<1>8. Account(k)'
  <2> SUFFICES ASSUME ~ restarted PROVE Total(k)' <= Limit * Past(k)' + Counted(k)'
    BY <1>3 DEF Account
  <2>1. Total(k) <= Limit * Past(k) + Counted(k)
    BY DEF Account
  <2>2. /\ Limit * Past(k) \in Nat /\ Limit * Past(k)' \in Nat
        /\ Limit * Past(k) <= Limit * Past(k)'
    BY <1>6, TimesGrows
  <2>3. Counted(k) = (IF counter[k] < Limit THEN counter[k] ELSE Limit)
        /\ Counted(k)' = (IF counter'[k] < Limit THEN counter'[k] ELSE Limit)
    BY DEF Counted
  <2>4. Counted(k) \in Nat /\ Counted(k)' \in Nat /\ Counted(k) <= Counted(k)'
        /\ Total(k)' - Total(k) <= Counted(k)' - Counted(k)
    BY <1>3, <1>5, <1>7, <2>3, TimeAssumption
  <2> QED BY <1>7, <2>1, <2>2, <2>4
<1>9. CASE Total(k)' <= Total(k)
  <2>1. Start(k)' = Start(k) /\ Lives(k)' = Lives(k)
    BY <1>3 DEF Start, Lives
  <2>2. Start(k) <= now => Limit * Lives(k) \in Nat
    BY LivesType
  <2> QED BY <1>3, <1>7, <1>8, <1>9, <2>1, <2>2 DEF Limited
<1>10. CASE now < End(k) + Deadline
  <2> SUFFICES ASSUME ~ restarted, Start(k) <= now PROVE Total(k)' <= Limit * Lives(k)'
    BY <1>3, <1>8 DEF Limited, Start
  <2> DEFINE m == Age(k) \div KeyTTL
  <2>1. Lives(k)' = 1 + m
    <3>1. now \in Nat
      BY TimeAssumption DEF TypeOK
    <3>2. Age(k) = now - Start(k)
      BY <3>1, EndType DEF Age
    <3> QED BY <1>3, <1>10, <3>1, <3>2, LivesGrow, LivesAre
  <2>2. m \in Nat
    BY <1>6, DivBounds, TimeAssumption
  <2>3. Past(k)' <= m
    BY <1>6
  <2> HIDE DEF m
  <2>4. /\ Limit * Past(k)' \in Nat /\ Limit * m \in Nat /\ Limit * Past(k)' <= Limit * m
        /\ Limit * (1 + m) = Limit * m + Limit
    BY <1>6, <2>2, <2>3, TimesGrows
  <2>5. Total(k)' <= Limit * Past(k)' + Counted(k)'
    BY <1>3, <1>8 DEF Account
  <2>6. Counted(k)' \in Nat /\ Counted(k)' <= Limit
    BY <1>3, TimeAssumption DEF Counted
  <2> QED BY <1>7, <2>1, <2>4, <2>5, <2>6, TimeAssumption
<1> QED BY <1>5, <1>8, <1>9, <1>10

\* What a step of r has to show besides its types.
LEMMA Kept ==
  ASSUME Inv, NEW r \in Requests, Frame(r), TypeOK', RequestInv(r)',
         \A k \in Keys : Renews(k) /\ counter'[k] >= counter[k],
         \A k \in Keys : Account(k)' /\ Limited(k)'
  PROVE  Inv'
<1>1. ASSUME NEW q \in Requests \ {r} PROVE RequestInv(q)'
  <2>1. RequestInv(q)
    BY DEF Inv
  <2> QED BY <2>1 DEF Frame, RequestInv, End
<1>2. ASSUME NEW k \in Keys PROVE Expiry(k)'
  BY RenewsKeeps DEF Inv, Frame
<1> QED BY <1>1, <1>2 DEF Inv

\* A request has a live key: its minute, and the time to answer, are not over.
LEMMA InFlight ==
  ASSUME Inv, NEW r \in Requests, pc[r] # "idle"
  PROVE  /\ arg[r] \in Locals /\ arg[r].key \in Keys
         /\ now < End(arg[r].key) + Deadline
         /\ End(arg[r].key) - Minute <= now
<1>1. /\ arg[r] \in Locals /\ arg[r].at <= now /\ now <= arg[r].at + Deadline
      /\ End(arg[r].key) - Minute <= arg[r].at /\ arg[r].at < End(arg[r].key)
  BY DEF Inv, RequestInv
<1>2. arg[r].key \in Keys /\ arg[r].at \in Nat /\ now \in Nat
  BY <1>1, TimeAssumption DEF Locals, Inv, TypeOK
<1>3. End(arg[r].key) \in Nat
  BY <1>2, EndType
<1> QED BY <1>1, <1>2, <1>3, TimeAssumption

LEMMA AnswerKeeps ==
  ASSUME Inv, NEW r \in Requests, NEW status \in {200, 429, 503}, pc[r] # "idle",
         Answer(r, status), now' = now
  PROVE  /\ pc' \in [Requests -> {"idle", "incr", "expire"}]
         /\ arg' \in [Requests -> Locals \cup {None}]
         /\ reply' \in [status : {200, 429, 503}, key : Keys] \cup {None}
         /\ RequestInv(r)' /\ pc'[r] = "idle"
         /\ \A q \in Requests \ {r} : pc'[q] = pc[q] /\ arg'[q] = arg[q]
<1>1. arg[r].key \in Keys
  BY InFlight
<1> QED BY <1>1 DEF Answer, Inv, TypeOK, RequestInv

LEMMA FailedKeeps ==
  ASSUME Inv, NEW r \in Requests, pc[r] # "idle", Failed(r), now' = now
  PROVE  /\ pc' \in [Requests -> {"idle", "incr", "expire"}]
         /\ arg' \in [Requests -> Locals \cup {None}]
         /\ reply' \in [status : {200, 429, 503}, key : Keys] \cup {None}
         /\ RequestInv(r)' /\ pc'[r] # "expire"
         /\ \A q \in Requests \ {r} : pc'[q] = pc[q] /\ arg'[q] = arg[q]
<1>1. CASE Answer(r, 503)
  BY <1>1, AnswerKeeps
<1>2. CASE /\ arg[r].retries > 0 /\ pc' = [pc EXCEPT ![r] = "incr"]
           /\ arg' = [arg EXCEPT ![r].retries = @ - 1] /\ reply' = None
  <2> DEFINE a == [arg[r] EXCEPT !.retries = @ - 1]
  <2>1. arg[r] \in Locals /\ RequestInv(r)
    BY InFlight DEF Inv
  <2>2. a \in Locals /\ a.key = arg[r].key /\ a.at = arg[r].at
    BY <1>2, <2>1, TimeAssumption DEF Locals
  <2>3. arg' = [arg EXCEPT ![r] = a]
    BY <1>2
  <2> HIDE DEF a
  <2>4. RequestInv(r)'
    BY <1>2, <2>1, <2>2, <2>3 DEF RequestInv, Inv, TypeOK, End
  <2> QED BY <1>2, <2>2, <2>3, <2>4 DEF Inv, TypeOK
<1> QED BY <1>1, <1>2 DEF Failed

\* A step after which r is not about to pass and nothing was counted.
LEMMA UncountedKeeps ==
  ASSUME Inv, NEW r \in Requests, Frame(r), TypeOK', RequestInv(r)',
         \A k \in Keys : Renews(k),
         pc'[r] # "expire", passed' = passed, counter' = counter
  PROVE  Inv'
<1>1. ASSUME NEW k \in Keys PROVE Account(k)' /\ Limited(k)'
  <2>1. r \notin Pending(k)'
    BY DEF Pending
  <2>2. TypeOK /\ Expiry(k) /\ Account(k) /\ Limited(k)
    BY DEF Inv
  <2>3. passed'[k] = passed[k] /\ counter'[k] >= counter[k]
    BY <2>2 DEF TypeOK
  <2> QED BY <2>1, <2>2, <2>3, AccountMoves
<1>2. \A k \in Keys : counter'[k] >= counter[k]
  BY DEF Inv, TypeOK
<1> QED BY <1>1, <1>2, Kept

LEMMA ExpireKeeps ==
  ASSUME Inv, NEW r \in Requests, pc[r] # "idle", ExpireKey(arg[r].key)
  PROVE  /\ expires' \in [Keys -> 0 .. (MaxTime + KeyTTL) \cup {None}]
         /\ \A k \in Keys : Renews(k)
<1> DEFINE c == arg[r].key
           t == now + KeyTTL
<1>1. c \in Keys /\ Start(c) <= now
  <2>1. c \in Keys /\ End(c) - Minute <= now
    BY InFlight
  <2> QED BY <2>1, EndType, TimeAssumption
<1>2. /\ now \in 0 .. MaxTime /\ now \in Nat
      /\ expires \in [Keys -> 0 .. (MaxTime + KeyTTL) \cup {None}]
  BY TimeAssumption DEF Inv, TypeOK
<1>3. t \in 0 .. (MaxTime + KeyTTL)
  BY <1>2, TimeAssumption
<1>4. expires' = [expires EXCEPT ![c] = IF counter[c] > 0 THEN t ELSE @]
  BY DEF ExpireKey
<1> HIDE DEF c
<1>5. \A k \in Keys : Renews(k)
  BY <1>1, <1>2, <1>4 DEF Renews
<1> HIDE DEF t
<1>6. expires' \in [Keys -> 0 .. (MaxTime + KeyTTL) \cup {None}]
  BY <1>1, <1>2, <1>3, <1>4
<1> QED BY <1>5, <1>6

----------------------------------------------------------------------------
(* One lemma for each action.                                              *)

LEMMA ArriveInv ==
  ASSUME Inv, NEW r \in Requests, NEW u \in Users, Arrive(r, u)
  PROVE  Inv'
<1> DEFINE a == [key |-> KeyOf(u), at |-> now, retries |-> Retries, val |-> 0]
<1>1. TypeOK /\ now \in 0 .. MaxTime /\ now \in Nat
  BY TimeAssumption DEF Inv, TypeOK
<1>2. KeyOf(u) \in Keys /\ End(KeyOf(u)) - Minute <= now /\ now < End(KeyOf(u))
  BY <1>1, KeyOfNow
<1>3. a \in Locals
  BY <1>1, <1>2, TimeAssumption DEF Locals
<1>4. /\ pc' = [pc EXCEPT ![r] = "incr"] /\ arg' = [arg EXCEPT ![r] = a]
      /\ arrived' = [arrived EXCEPT ![KeyOf(u)] = @ + 1] /\ reply' = None
      /\ now' = now /\ counter' = counter /\ expires' = expires
      /\ passed' = passed /\ restarted' = restarted
  BY DEF Arrive, redis, KeyOf
<1>5. a.key = KeyOf(u) /\ a.at = now
  OBVIOUS
<1> HIDE DEF a
<1>6. arrived' \in [Keys -> Nat]
  BY <1>1, <1>2, <1>4 DEF TypeOK
<1>7. TypeOK'
  <2>1. /\ pc' \in [Requests -> {"idle", "incr", "expire"}]
        /\ arg' \in [Requests -> Locals \cup {None}]
    BY <1>1, <1>3, <1>4 DEF TypeOK
  <2> QED BY <1>1, <1>4, <1>6, <2>1 DEF TypeOK
<1>8. RequestInv(r)'
  <2>1. pc'[r] = "incr" /\ arg'[r] = a
    BY <1>1, <1>4 DEF TypeOK
  <2> QED BY <1>1, <1>2, <1>3, <1>4, <1>5, <2>1, TimeAssumption DEF RequestInv, End
<1>9. Frame(r) /\ pc'[r] # "expire"
  BY <1>1, <1>4 DEF Frame, TypeOK
<1>10. \A k \in Keys : Renews(k)
  BY <1>4 DEF Renews
<1> QED BY <1>4, <1>7, <1>8, <1>9, <1>10, UncountedKeeps

LEMMA FailedInv ==
  ASSUME Inv, NEW r \in Requests, pc[r] # "idle", Failed(r),
         \/ UNCHANGED expires
         \/ ExpireKey(arg[r].key),
         UNCHANGED <<now, counter, seen, passed>>
  PROVE  Inv'
<1>1. /\ now' = now /\ counter' = counter /\ arrived' = arrived
      /\ passed' = passed /\ restarted' = restarted
  BY DEF seen
<1>2. /\ expires' \in [Keys -> 0 .. (MaxTime + KeyTTL) \cup {None}]
      /\ \A k \in Keys : Renews(k)
  BY ExpireKeeps DEF Inv, TypeOK, Renews
<1>3. /\ pc' \in [Requests -> {"idle", "incr", "expire"}]
      /\ arg' \in [Requests -> Locals \cup {None}]
      /\ reply' \in [status : {200, 429, 503}, key : Keys] \cup {None}
      /\ RequestInv(r)' /\ pc'[r] # "expire"
      /\ \A q \in Requests \ {r} : pc'[q] = pc[q] /\ arg'[q] = arg[q]
  BY <1>1, FailedKeeps
<1>4. TypeOK'
  BY <1>1, <1>2, <1>3 DEF Inv, TypeOK
<1>5. Frame(r)
  BY <1>1, <1>3 DEF Frame
<1> QED BY <1>1, <1>2, <1>3, <1>4, <1>5, UncountedKeeps

LEMMA IncrInv ==
  ASSUME Inv, NEW r \in Requests, Incr(r)
  PROVE  Inv'
<1> DEFINE c == arg[r].key
           a == [arg[r] EXCEPT !.val = counter[c] + 1]
<1>1. TypeOK /\ pc[r] = "incr" /\ RequestInv(r)
  BY DEF Inv, Incr
<1>2. /\ arg[r] \in Locals /\ c \in Keys /\ now < End(c) + Deadline
  BY <1>1, InFlight
<1>3. /\ counter' = [counter EXCEPT ![c] = @ + 1] /\ arg' = [arg EXCEPT ![r] = a]
      /\ pc' = [pc EXCEPT ![r] = "expire"] /\ reply' = None
      /\ now' = now /\ expires' = expires /\ arrived' = arrived
      /\ passed' = passed /\ restarted' = restarted
  BY DEF Incr, seen
<1>4. /\ counter[c] \in Nat /\ a \in Locals /\ a.key = c /\ a.at = arg[r].at
      /\ a.val = counter[c] + 1
  BY <1>1, <1>2 DEF TypeOK, Locals
<1>10. c = arg[r].key
  OBVIOUS
<1> HIDE DEF a, c
<1>5. TypeOK'
  <2>1. /\ counter' \in [Keys -> Nat] /\ pc' \in [Requests -> {"idle", "incr", "expire"}]
        /\ arg' \in [Requests -> Locals \cup {None}]
    BY <1>1, <1>2, <1>3, <1>4 DEF TypeOK
  <2> QED BY <1>1, <1>3, <2>1 DEF TypeOK
<1>6. Frame(r) /\ pc'[r] = "expire" /\ arg'[r] = a
  BY <1>1, <1>3 DEF Frame, TypeOK
<1>7. RequestInv(r)'
  BY <1>1, <1>3, <1>4, <1>6, <1>10 DEF RequestInv, End
<1>8. ASSUME NEW k \in Keys
      PROVE  Account(k)' /\ Limited(k)' /\ Renews(k) /\ counter'[k] >= counter[k]
  <2>1. /\ Expiry(k) /\ Account(k) /\ Limited(k) /\ counter[k] \in Nat
        /\ passed'[k] = passed[k] /\ Renews(k)
    BY <1>3 DEF Inv, TypeOK, Renews
  <2>2. counter'[k] = IF k = c THEN counter[k] + 1 ELSE counter[k]
    BY <1>1, <1>3 DEF TypeOK
  <2>3. CASE r \notin Pending(k)'
    <3>1. counter'[k] >= counter[k]
      BY <2>1, <2>2
    <3> QED BY <1>1, <1>5, <1>6, <2>1, <2>3, <3>1, AccountMoves
  <2>4. CASE r \in Pending(k)'
    <3>1. k = c /\ ~ (a.val > Limit)
      BY <1>4, <1>6, <2>4 DEF Pending, TooMany
    <3>2. counter[k] < Limit /\ counter'[k] = counter[k] + 1 /\ now < End(k) + Deadline
      BY <1>2, <1>4, <2>1, <2>2, <3>1, TimeAssumption
    <3>3. counter'[k] >= counter[k]
      BY <2>1, <3>2
    <3> QED BY <1>1, <1>5, <1>6, <2>1, <2>4, <3>2, <3>3, AccountMoves
  <2> QED BY <2>3, <2>4
<1> QED BY <1>3, <1>5, <1>6, <1>7, <1>8, Kept

LEMMA ExpireInv ==
  ASSUME Inv, NEW r \in Requests, Expire(r)
  PROVE  Inv'
<1> DEFINE c == arg[r].key
<1>1. TypeOK /\ pc[r] = "expire" /\ c \in Keys
  BY InFlight DEF Inv, Expire
<1>2. /\ ExpireKey(c) /\ now' = now /\ counter' = counter /\ arrived' = arrived
      /\ restarted' = restarted
  BY DEF Expire, seen
<1>3. /\ expires' \in [Keys -> 0 .. (MaxTime + KeyTTL) \cup {None}]
      /\ \A k \in Keys : Renews(k)
  BY <1>1, <1>2, ExpireKeeps
<1>4. PICK status \in {200, 429, 503} : Answer(r, status)
  BY DEF Expire
<1>5. /\ pc' \in [Requests -> {"idle", "incr", "expire"}]
      /\ arg' \in [Requests -> Locals \cup {None}]
      /\ reply' \in [status : {200, 429, 503}, key : Keys] \cup {None}
      /\ RequestInv(r)' /\ pc'[r] = "idle"
      /\ \A q \in Requests \ {r} : pc'[q] = pc[q] /\ arg'[q] = arg[q]
  BY <1>1, <1>2, <1>4, AnswerKeeps
<1>6. Frame(r)
  BY <1>2, <1>5 DEF Frame
<1>7. CASE passed' = passed
  <2>1. TypeOK'
    BY <1>1, <1>2, <1>3, <1>5, <1>7 DEF TypeOK
  <2> QED BY <1>2, <1>3, <1>5, <1>6, <1>7, <2>1, UncountedKeeps
<1>8. CASE ~ TooMany(arg[r].val) /\ passed' = [passed EXCEPT ![c] = @ + 1]
  <2>1. r \in Pending(c)
    BY <1>1, <1>8 DEF Pending
  <2> HIDE DEF c
  <2>2. passed' \in [Keys -> Nat]
    BY <1>1, <1>8 DEF TypeOK
  <2>3. TypeOK'
    BY <1>1, <1>2, <1>3, <1>5, <2>2 DEF TypeOK
  <2>4. ASSUME NEW k \in Keys
        PROVE  Account(k)' /\ Limited(k)' /\ counter'[k] >= counter[k]
    <3>1. /\ Expiry(k) /\ Account(k) /\ Limited(k) /\ Renews(k)
          /\ counter'[k] >= counter[k]
      BY <1>1, <1>2, <1>3 DEF Inv, TypeOK
    <3>2. r \notin Pending(k)'
      BY <1>5 DEF Pending
    <3>3. passed'[k] = IF k = c THEN passed[k] + 1 ELSE passed[k]
      BY <1>1, <1>8 DEF TypeOK
    <3>4. CASE k = c
      BY <1>1, <1>6, <2>1, <2>3, <3>1, <3>2, <3>3, <3>4, AccountMoves
    <3>5. CASE k # c
      BY <1>1, <1>6, <2>3, <3>1, <3>2, <3>3, <3>5, AccountMoves
    <3> QED BY <3>1, <3>4, <3>5
  <2> QED BY <1>3, <1>5, <1>6, <2>3, <2>4, Kept
<1> QED BY <1>7, <1>8 DEF Expire

\* A life that ends makes room for one more.
LEMMA TickInv ==
  ASSUME Inv, Tick
  PROVE  Inv'
<1>1. /\ TypeOK /\ now \in Nat /\ now < MaxTime /\ now' = now + 1
      /\ pc' = pc /\ arg' = arg /\ arrived' = arrived /\ passed' = passed
      /\ restarted' = restarted /\ reply' = None
  BY TimeAssumption DEF Inv, TypeOK, Tick, seen
<1>2. ASSUME NEW k \in Keys
      PROVE  \/ /\ expires[k] # now + 1 /\ expires'[k] = expires[k]
                /\ counter'[k] = counter[k]
             \/ expires[k] = now + 1 /\ expires'[k] = None /\ counter'[k] = 0
  BY DEF Tick
<1>3. /\ counter' = [k \in Keys |-> IF expires[k] = now + 1 THEN 0 ELSE counter[k]]
      /\ expires' = [k \in Keys |-> IF expires[k] = now + 1 THEN None ELSE expires[k]]
  BY DEF Tick
<1>4. TypeOK'
  <2>1. now' \in 0 .. MaxTime
    BY <1>1, TimeAssumption
  <2>2. counter' \in [Keys -> Nat]
    BY <1>1, <1>3 DEF TypeOK
  <2>3. expires' \in [Keys -> 0 .. (MaxTime + KeyTTL) \cup {None}]
    BY <1>1, <1>3 DEF TypeOK
  <2> QED BY <1>1, <2>1, <2>2, <2>3 DEF TypeOK
<1>5. ASSUME NEW r \in Requests PROVE RequestInv(r)'
  <2>1. RequestInv(r) /\ (pc[r] # "idle" => now < arg[r].at + Deadline)
    BY DEF Inv, Tick
  <2>2. CASE pc[r] = "idle"
    BY <1>1, <2>2 DEF RequestInv
  <2>3. CASE pc[r] # "idle"
    <3>1. arg[r] \in Locals /\ arg[r].at \in Nat
      BY <2>1, <2>3, TimeAssumption DEF RequestInv, Locals
    <3>2. arg[r].at <= now + 1 /\ now + 1 <= arg[r].at + Deadline
      BY <1>1, <2>1, <2>3, <3>1, TimeAssumption DEF RequestInv
    <3> QED BY <1>1, <2>1, <2>3, <3>2 DEF RequestInv, End
  <2> QED BY <2>2, <2>3
<1>6. ASSUME NEW k \in Keys PROVE Expiry(k)'
  <2>1. Expiry(k) /\ expires[k] \in 0 .. (MaxTime + KeyTTL) \cup {None}
    BY <1>1 DEF Inv, TypeOK
  <2>2. Start(k)' = Start(k) /\ KeyTTL \in Nat
    BY TimeAssumption DEF Start
  <2>3. CASE expires'[k] = None
    BY <2>3 DEF Expiry
  <2>4. CASE /\ expires[k] # now + 1 /\ expires'[k] = expires[k] /\ expires[k] # None
             /\ counter'[k] = counter[k]
    <3>1. expires[k] \in Nat
      BY <2>1, <2>4, TimeAssumption
    <3>2. expires[k] > now + 1 /\ expires[k] <= now + 1 + KeyTTL
      BY <1>1, <2>1, <2>2, <2>4, <3>1 DEF Expiry
    <3> QED BY <1>1, <2>1, <2>2, <2>4, <3>2 DEF Expiry
  <2> QED BY <1>2, <2>3, <2>4
<1>7. ASSUME NEW k \in Keys PROVE Account(k)' /\ Limited(k)'
  <2>1. /\ Expiry(k) /\ Account(k) /\ Limited(k) /\ Start(k) \in Nat /\ Start(k)' = Start(k)
        /\ KeyTTL \in Nat \ {0} /\ expires[k] \in Nat \cup {None}
    BY <1>1, EndType, TimeAssumption DEF Inv, Start, TypeOK
  <2>2. Total(k)' = Total(k) /\ Total(k) \in Nat
    <3>1. Pending(k)' = Pending(k)
      BY <1>1 DEF Pending
    <3> QED BY <1>1, <3>1, TotalType DEF Total
  <2>3. Past(k) \in Nat /\ Age(k) \in Nat /\ Renewed(k) \in Nat /\ Renewed(k) <= Age(k)
        /\ Past(k) <= Age(k) \div KeyTTL /\ Counted(k) \in 0 .. Limit
    BY <1>1, <2>1, RenewedType, TotalType
  <2>4. /\ Age(k)' \in Nat /\ Age(k) <= Age(k)'
        /\ Start(k) <= now + 1 => Age(k)' = now + 1 - Start(k)
    BY <1>1, <2>1 DEF Age
  <2>5. Account(k)'
    <3> SUFFICES ASSUME ~ restarted PROVE Total(k) <= Limit * Past(k)' + Counted(k)'
      BY <1>1, <2>2 DEF Account
    <3>1. Total(k) <= Limit * Past(k) + Counted(k)
      BY <2>1 DEF Account
    <3>2. CASE expires[k] # now + 1 /\ expires'[k] = expires[k] /\ counter'[k] = counter[k]
      <4>1. Renewed(k)' \in Nat /\ Renewed(k) <= Renewed(k)'
        BY <2>1, <2>3, <2>4, <3>2 DEF Renewed
      <4>2. Past(k)' \in Nat /\ Past(k) <= Past(k)'
        BY <2>1, <2>3, <4>1, DivBounds, DivGrows DEF Past
      <4>3. Counted(k)' = Counted(k)
        BY <3>2 DEF Counted
      <4>4. /\ Limit * Past(k) \in Nat /\ Limit * Past(k)' \in Nat
            /\ Limit * Past(k) <= Limit * Past(k)'
        BY <2>3, <4>2, TimesGrows
      <4> QED BY <2>2, <2>3, <3>1, <4>3, <4>4
    <3>3. CASE expires[k] = now + 1 /\ expires'[k] = None /\ counter'[k] = 0
      <4>1. /\ expires[k] # None /\ Start(k) + KeyTTL <= now + 1
            /\ Renewed(k) = now + 1 - KeyTTL - Start(k)
        BY <1>1, <2>1, <3>3, NoneAssumption DEF Expiry, Renewed
      <4>2. Renewed(k)' = Age(k)' /\ Age(k)' = Renewed(k) + KeyTTL
        BY <1>1, <2>1, <2>4, <3>3, <4>1 DEF Renewed
      <4>3. Past(k)' = 1 + Past(k)
        BY <2>1, <2>3, <4>2, DivNext DEF Past
      <4>4. Counted(k)' = 0
        BY <3>3, TimeAssumption DEF Counted
      <4>5. Limit * Past(k)' = Limit * Past(k) + Limit /\ Limit * Past(k) \in Nat
        BY <2>3, <4>3, TimesGrows
      <4> QED BY <2>2, <2>3, <3>1, <4>4, <4>5, TimeAssumption
    <3> QED BY <1>2, <3>2, <3>3
  <2>6. Limited(k)'
    <3> SUFFICES ASSUME ~ restarted, Start(k) <= now + 1
                 PROVE  Total(k) <= Limit * LivesBy(k, now + 1)
      BY <1>1, <2>1, <2>2, LivesAre DEF Limited
    <3>1. CASE Start(k) <= now
      <4>1. Total(k) <= Limit * LivesBy(k, now)
        BY <2>1, <3>1, LivesAre DEF Limited
      <4>2. /\ LivesBy(k, now) \in Nat /\ LivesBy(k, now + 1) \in Nat
            /\ LivesBy(k, now) <= LivesBy(k, now + 1)
        BY <1>1, <3>1, LivesGrow
      <4>3. /\ Limit * LivesBy(k, now) \in Nat /\ Limit * LivesBy(k, now + 1) \in Nat
            /\ Limit * LivesBy(k, now) <= Limit * LivesBy(k, now + 1)
        BY <4>2, TimesGrows
      <4> QED BY <2>2, <4>1, <4>3
    <3>2. CASE now < Start(k)
      <4>1. Age(k) = 0
        BY <3>2 DEF Age
      <4>2. 0 \div KeyTTL = 0
        BY <2>1
      <4>3. Past(k) = 0
        BY <2>3, <4>1, <4>2
      <4>4. Total(k) <= Limit
        <5>1. Total(k) <= Limit * Past(k) + Counted(k) /\ Limit * Past(k) = 0
          BY <2>1, <4>3, TimeAssumption DEF Account
        <5> QED BY <2>2, <2>3, <5>1, TimeAssumption
      <4>5. now + 1 \in Nat /\ LivesBy(k, now + 1) \in Nat \ {0}
        BY <1>1, LivesGrow
      <4>6. PICK d \in Nat : LivesBy(k, now + 1) = 1 + d
        <5>1. LivesBy(k, now + 1) - 1 \in Nat
          BY <4>5
        <5> QED BY <4>5, <5>1
      <4>7. Limit * LivesBy(k, now + 1) = Limit * d + Limit /\ Limit * d \in Nat
        BY <4>6, TimesGrows
      <4> QED BY <2>2, <4>4, <4>7, TimeAssumption
    <3> QED BY <1>1, <2>1, <3>1, <3>2
  <2> QED BY <2>5, <2>6
<1> QED BY <1>4, <1>5, <1>6, <1>7 DEF Inv

LEMMA RestartInv ==
  ASSUME Inv, RedisRestart
  PROVE  Inv'
<1>1. /\ TypeOK /\ counter' = [k \in Keys |-> 0] /\ expires' = [k \in Keys |-> None]
      /\ reply' = None /\ now' = now /\ pc' = pc /\ arg' = arg
      /\ arrived' = arrived /\ passed' = passed
  BY DEF Inv, RedisRestart
<1>2. restarted' = TRUE
  BY DEF RedisRestart
<1>3. TypeOK'
  <2>1. counter' \in [Keys -> Nat] /\ expires' \in [Keys -> 0 .. (MaxTime + KeyTTL) \cup {None}]
    BY <1>1
  <2>2. restarted' \in BOOLEAN
    BY <1>2
  <2> QED BY <1>1, <2>1, <2>2 DEF TypeOK
<1>4. \A r \in Requests : RequestInv(r)'
  BY <1>1 DEF Inv, RequestInv, End
<1>5. \A k \in Keys : Expiry(k)' /\ Account(k)' /\ Limited(k)'
  BY <1>1, <1>2 DEF Expiry, Account, Limited
<1> QED BY <1>3, <1>4, <1>5 DEF Inv

LEMMA CrashInv ==
  ASSUME Inv, Crash
  PROVE  Inv'
<1>1. /\ TypeOK /\ pc' = [r \in Requests |-> "idle"] /\ arg' = [r \in Requests |-> None]
      /\ reply' = None /\ now' = now /\ counter' = counter /\ expires' = expires
      /\ arrived' = arrived /\ passed' = passed /\ restarted' = restarted
  BY DEF Inv, Crash, redis, seen
<1>2. TypeOK'
  BY <1>1 DEF TypeOK
<1>3. \A r \in Requests : RequestInv(r)'
  BY <1>1 DEF RequestInv
<1>4. \A k \in Keys : Expiry(k)'
  BY <1>1 DEF Inv, Expiry, Start
<1>5. ASSUME NEW k \in Keys PROVE Account(k)' /\ Limited(k)'
  <2>1. Account(k) /\ Limited(k) /\ Expiry(k)
    BY DEF Inv
  <2>2. Total(k)' \in Nat /\ Total(k) \in Nat /\ Total(k)' <= Total(k)
    <3>1. Pending(k)' = {} /\ Cardinality(Pending(k)') = 0
      BY <1>1, FS_EmptySet DEF Pending
    <3> QED BY <1>1, <3>1, TotalType DEF Total
  <2>3. Past(k)' = Past(k) /\ Counted(k)' = Counted(k) /\ Lives(k)' = Lives(k)
        /\ Start(k)' = Start(k)
    BY <1>1 DEF Past, Renewed, Age, Start, Counted, Lives
  <2>4. Limit * Past(k) + Counted(k) \in Nat
    BY <1>1, <2>1, RenewedType, TotalType, TimesGrows, TimeAssumption
  <2>5. Start(k) <= now => Limit * Lives(k) \in Nat
    BY <1>1, LivesType
  <2>6. Account(k)'
    BY <1>1, <2>1, <2>2, <2>3, <2>4 DEF Account
  <2>7. Limited(k)'
    BY <1>1, <2>1, <2>2, <2>3, <2>5 DEF Limited
  <2> QED BY <2>6, <2>7
<1> QED BY <1>2, <1>3, <1>4, <1>5 DEF Inv

LEMMA NextInv == Inv /\ [Next]_vars => Inv'
<1> SUFFICES ASSUME Inv, [Next]_vars PROVE Inv'
  OBVIOUS
<1>1. ASSUME NEW r \in Requests, NEW u \in Users, Arrive(r, u) PROVE Inv'
  BY <1>1, ArriveInv
<1>2. ASSUME NEW r \in Requests, Unreached(r) \/ Cut(r) PROVE Inv'
  BY <1>2, FailedInv DEF Unreached, Cut, redis
<1>3. ASSUME NEW r \in Requests, AnswerLost(r) PROVE Inv'
  BY <1>3, FailedInv DEF AnswerLost
<1>4. ASSUME NEW r \in Requests, Incr(r) PROVE Inv'
  BY <1>4, IncrInv
<1>5. ASSUME NEW r \in Requests, Expire(r) PROVE Inv'
  BY <1>5, ExpireInv
<1>6. CASE UNCHANGED vars
  <2>1. \A k \in Keys : Pending(k)' = Pending(k)
    BY <1>6 DEF vars, Pending
  <2>2. \A k \in Keys : /\ Total(k)' = Total(k) /\ Past(k)' = Past(k)
                       /\ Counted(k)' = Counted(k) /\ Lives(k)' = Lives(k)
                       /\ Start(k)' = Start(k)
    BY <1>6, <2>1 DEF vars, Total, Past, Renewed, Age, Start, Counted, Lives
  <2>3. \A k \in Keys : Expiry(k)' /\ Account(k)' /\ Limited(k)'
    BY <1>6, <2>2 DEF vars, Inv, Expiry, Account, Limited
  <2> QED BY <1>6, <2>3 DEF vars, Inv, TypeOK, RequestInv, End
<1> QED BY <1>1, <1>2, <1>3, <1>4, <1>5, <1>6, TickInv, RestartInv, CrashInv DEF Next, Step

LEMMA Invariant == Spec => []Inv
BY InitInv, NextInv, PTL DEF Spec

----------------------------------------------------------------------------
(* How often INCR may run: once for every time a pipeline is sent.         *)

\* Times r may still send INCR.
Left(r) == arg[r].retries + (IF pc[r] = "incr" THEN 1 ELSE 0)

\* The same for all requests that count on k, as a set.
Tries(k) ==
    {p \in Requests \X (1 .. (Retries + 1)) :
        pc[p[1]] # "idle" /\ arg[p[1]].key = k /\ p[2] <= Left(p[1])}

Sent(k) == counter[k] + Cardinality(Tries(k)) <= (1 + Retries) * arrived[k]

Value(r) == pc[r] = "expire" => arg[r].val <= (1 + Retries) * arrived[arg[r].key]

Budget == (\A k \in Keys : Sent(k)) /\ (\A r \in Requests : Value(r))

LEMMA TriesFinite ==
  ASSUME NEW k
  PROVE  IsFiniteSet(Tries(k)) /\ Cardinality(Tries(k)) \in Nat
         /\ IsFiniteSet(Tries(k)') /\ Cardinality(Tries(k)') \in Nat
<1>1. IsFiniteSet(1 .. (Retries + 1))
  BY FS_Interval, TimeAssumption
<1>2. IsFiniteSet(Requests \X (1 .. (Retries + 1)))
  BY <1>1, RequestsAssumption, FS_Product
<1>3. /\ Tries(k) \subseteq Requests \X (1 .. (Retries + 1))
      /\ Tries(k)' \subseteq Requests \X (1 .. (Retries + 1))
  BY DEF Tries
<1> QED BY <1>2, <1>3, FS_Subset, FS_CardinalityType

\* Nothing is sent, nobody comes.
LEMMA FewerKeeps ==
  ASSUME Inv, NEW k \in Keys, Sent(k), Tries(k)' \subseteq Tries(k),
         arrived'[k] = arrived[k], counter'[k] \in 0 .. counter[k]
  PROVE  Sent(k)'
<1>1. Cardinality(Tries(k)') <= Cardinality(Tries(k))
  BY TriesFinite, FS_Subset
<1>2. counter[k] \in Nat /\ arrived[k] \in Nat
  BY DEF Inv, TypeOK
<1>3. (1 + Retries) * arrived[k] \in Nat
  BY <1>2, TimeAssumption
<1> QED BY <1>1, <1>2, <1>3, TriesFinite DEF Sent

LEMMA InitBudget == Init => Budget
<1> SUFFICES ASSUME Init PROVE Budget
  OBVIOUS
<1>1. ASSUME NEW k \in Keys PROVE Sent(k)
  <2>1. Tries(k) = {}
    BY DEF Init, Tries
  <2>2. counter[k] = 0 /\ arrived[k] = 0
    BY DEF Init
  <2> QED BY <2>1, <2>2, FS_EmptySet, TimeAssumption DEF Sent
<1> QED BY <1>1 DEF Init, Budget, Value

\* What the tries of r become in a step of r, the others standing still.
LEMMA TriesOf ==
  ASSUME NEW r \in Requests, NEW k,
         \A q \in Requests \ {r} : pc'[q] = pc[q] /\ arg'[q] = arg[q],
         pc'[r] # "idle" => /\ pc[r] # "idle" /\ arg'[r].key = arg[r].key
                            /\ Left(r) \in Nat /\ Left(r)' \in Nat /\ Left(r)' <= Left(r)
  PROVE  Tries(k)' \subseteq Tries(k)
<1> SUFFICES ASSUME NEW p \in Tries(k)' PROVE p \in Tries(k)
  OBVIOUS
<1>1. /\ p \in Requests \X (1 .. (Retries + 1)) /\ p[1] \in Requests /\ p[2] \in Int
      /\ pc'[p[1]] # "idle" /\ arg'[p[1]].key = k
      /\ p[2] <= arg'[p[1]].retries + (IF pc'[p[1]] = "incr" THEN 1 ELSE 0)
  BY DEF Tries, Left
<1>2. CASE p[1] # r
  BY <1>1, <1>2 DEF Tries, Left
<1>3. CASE p[1] = r
  <2>1. p[2] <= Left(r)
    <3>1. p[2] <= Left(r)'
      BY <1>1, <1>3 DEF Left
    <3>2. Left(r) \in Nat /\ Left(r)' \in Nat /\ Left(r)' <= Left(r)
      BY <1>1, <1>3
    <3> HIDE DEF Left
    <3> QED BY <1>1, <3>1, <3>2
  <2> QED BY <1>1, <1>3, <2>1 DEF Tries
<1> QED BY <1>2, <1>3

LEMMA FailedLeft ==
  ASSUME Inv, NEW r \in Requests, pc[r] # "idle",
         Failed(r) \/ \E status : Answer(r, status)
  PROVE  /\ \A q \in Requests \ {r} : pc'[q] = pc[q] /\ arg'[q] = arg[q]
         /\ pc'[r] # "expire"
         /\ pc'[r] # "idle" => /\ arg'[r].key = arg[r].key
                               /\ Left(r) \in Nat /\ Left(r)' \in Nat /\ Left(r)' <= Left(r)
<1>1. arg[r] \in Locals /\ TypeOK
  BY InFlight DEF Inv
<1>2. ASSUME NEW status, Answer(r, status)
      PROVE  /\ \A q \in Requests \ {r} : pc'[q] = pc[q] /\ arg'[q] = arg[q]
             /\ pc'[r] = "idle"
  BY <1>1, <1>2 DEF Answer, TypeOK
<1>3. CASE /\ arg[r].retries > 0 /\ pc' = [pc EXCEPT ![r] = "incr"]
           /\ arg' = [arg EXCEPT ![r].retries = @ - 1]
  <2>1. arg[r].retries \in Nat
    BY <1>1, TimeAssumption DEF Locals
  <2>2. /\ pc'[r] = "incr" /\ arg'[r].key = arg[r].key
        /\ arg'[r].retries = arg[r].retries - 1
    BY <1>1, <1>3 DEF TypeOK, Locals
  <2>3. \A q \in Requests \ {r} : pc'[q] = pc[q] /\ arg'[q] = arg[q]
    BY <1>1, <1>3 DEF TypeOK
  <2>4. /\ Left(r) = arg[r].retries + (IF pc[r] = "incr" THEN 1 ELSE 0)
        /\ Left(r)' = arg[r].retries - 1 + 1
    BY <2>2 DEF Left
  <2> QED BY <1>3, <2>1, <2>2, <2>3, <2>4
<1> QED BY <1>2, <1>3 DEF Failed

LEMMA EndedBudget ==
  ASSUME Inv, Budget, NEW r \in Requests, pc[r] # "idle",
         Failed(r) \/ \E status : Answer(r, status),
         counter' = counter, arrived' = arrived
  PROVE  Budget'
<1>1. /\ \A q \in Requests \ {r} : pc'[q] = pc[q] /\ arg'[q] = arg[q]
      /\ pc'[r] # "expire"
      /\ pc'[r] # "idle" => /\ arg'[r].key = arg[r].key
                            /\ Left(r) \in Nat /\ Left(r)' \in Nat /\ Left(r)' <= Left(r)
  BY FailedLeft
<1>2. ASSUME NEW k \in Keys PROVE Sent(k)'
  <2>1. Tries(k)' \subseteq Tries(k)
    BY <1>1, TriesOf
  <2>2. counter'[k] \in 0 .. counter[k]
    BY DEF Inv, TypeOK
  <2> QED BY <2>1, <2>2, FewerKeeps DEF Budget
<1>3. \A q \in Requests : Value(q)'
  BY <1>1 DEF Budget, Value
<1> QED BY <1>2, <1>3 DEF Budget

LEMMA IncrBudget ==
  ASSUME Inv, Budget, NEW r \in Requests, Incr(r)
  PROVE  Budget'
<1>0. arg[r] \in Locals /\ arg[r].key \in Keys
  BY InFlight DEF Incr, Locals
<1>a. PICK c \in Keys : c = arg[r].key
  BY <1>0
<1>b. PICK n \in Nat : n = arg[r].retries + 1
  BY <1>0, TimeAssumption DEF Locals
<1>1. TypeOK /\ pc[r] = "incr" /\ arg[r] \in Locals
  BY <1>0 DEF Inv, Incr
<1>2. /\ counter' = [counter EXCEPT ![c] = @ + 1]
      /\ arg' = [arg EXCEPT ![r].val = counter[c] + 1]
      /\ pc' = [pc EXCEPT ![r] = "expire"] /\ arrived' = arrived
  BY <1>a DEF Incr, seen
<1>3. arg[r].retries \in Nat /\ arg[r].retries <= Retries
  BY <1>1, TimeAssumption DEF Locals
<1>4. /\ \A q \in Requests \ {r} : pc'[q] = pc[q] /\ arg'[q] = arg[q]
      /\ pc'[r] = "expire"
  BY <1>1, <1>2 DEF TypeOK
<1>5. /\ arg'[r].key = c /\ arg'[r].retries = arg[r].retries
      /\ arg'[r].val = counter[c] + 1
  BY <1>1, <1>2, <1>a DEF TypeOK, Locals
<1>6. Left(r) = arg[r].retries + 1 /\ Left(r)' = arg[r].retries
  BY <1>1, <1>3, <1>4, <1>5 DEF Left
<1>7. ASSUME NEW k \in Keys PROVE Tries(k)' \subseteq Tries(k)
  <2>1. /\ pc[r] # "idle" /\ arg'[r].key = arg[r].key
        /\ Left(r) \in Nat /\ Left(r)' \in Nat /\ Left(r)' <= Left(r)
    BY <1>1, <1>3, <1>5, <1>6, <1>a
  <2>2. \A q \in Requests \ {r} : pc'[q] = pc[q] /\ arg'[q] = arg[q]
    BY <1>4
  <2> HIDE DEF Left
  <2> QED BY <2>1, <2>2, TriesOf
<1> DEFINE p0 == <<r, n>>
<1>8. p0 \in Tries(c) /\ p0 \notin Tries(c)'
  <2>1. p0 \in Requests \X (1 .. (Retries + 1)) /\ p0[1] = r /\ p0[2] = arg[r].retries + 1
    BY <1>3, <1>b, TimeAssumption
  <2>2. p0[2] <= Left(r) /\ ~ (p0[2] <= Left(r)')
    BY <1>3, <1>6, <2>1
  <2>3. pc[r] # "idle"
    BY <1>1
  <2> QED BY <1>a, <2>1, <2>2, <2>3 DEF Tries, Left
<1>9. counter[c] \in Nat /\ arrived[c] \in Nat
  BY <1>1 DEF TypeOK
<1>10. Sent(c)' /\ counter[c] + 1 <= (1 + Retries) * arrived[c]
  <2>1. Tries(c)' \subseteq Tries(c) \ {p0}
    BY <1>1, <1>7, <1>8
  <2>2. /\ IsFiniteSet(Tries(c) \ {p0})
        /\ Cardinality(Tries(c) \ {p0}) = Cardinality(Tries(c)) - 1
    BY <1>8, TriesFinite, FS_RemoveElement
  <2>3. Cardinality(Tries(c)') <= Cardinality(Tries(c)) - 1
    BY <2>1, <2>2, TriesFinite, FS_Subset
  <2>4. counter[c] + Cardinality(Tries(c)) <= (1 + Retries) * arrived[c]
    BY <1>1 DEF Budget, Sent
  <2>5. counter'[c] = counter[c] + 1
    BY <1>1, <1>2 DEF TypeOK
  <2>6. (1 + Retries) * arrived[c] \in Nat
    BY <1>9, TimeAssumption
  <2>7. Cardinality(Tries(c)) \in Nat /\ Cardinality(Tries(c)') \in Nat
    BY TriesFinite
  <2> HIDE DEF p0
  <2>8. /\ counter'[c] + Cardinality(Tries(c)') <= (1 + Retries) * arrived[c]
        /\ counter[c] + 1 <= (1 + Retries) * arrived[c]
    BY <1>9, <2>3, <2>4, <2>5, <2>6, <2>7
  <2> QED BY <1>2, <2>8 DEF Sent
<1>11. ASSUME NEW k \in Keys, k # c PROVE Sent(k)'
  <2>1. counter'[k] \in 0 .. counter[k]
    BY <1>1, <1>2, <1>11 DEF TypeOK
  <2> QED BY <1>2, <1>7, <2>1, FewerKeeps DEF Budget
<1>12. Value(r)'
  BY <1>2, <1>5, <1>10 DEF Value
<1>13. \A q \in Requests \ {r} : Value(q)'
  BY <1>2, <1>4 DEF Budget, Value
<1> QED BY <1>10, <1>11, <1>12, <1>13 DEF Budget

LEMMA ArriveBudget ==
  ASSUME Inv, Budget, NEW r \in Requests, NEW u \in Users, Arrive(r, u)
  PROVE  Budget'
<1>0. KeyOf(u) \in Keys
  BY KeyOfNow DEF Inv, TypeOK, Arrive
<1>a. PICK c \in Keys : c = KeyOf(u)
  BY <1>0
<1> DEFINE N == {r} \X (1 .. (Retries + 1))
<1>1. TypeOK /\ pc[r] = "idle"
  BY DEF Inv, Arrive
<1>2. /\ pc' = [pc EXCEPT ![r] = "incr"]
      /\ arg' = [arg EXCEPT ![r] = [key |-> c, at |-> now, retries |-> Retries, val |-> 0]]
      /\ arrived' = [arrived EXCEPT ![c] = @ + 1] /\ counter' = counter
  BY <1>a DEF Arrive, redis, KeyOf
<1>3. /\ \A q \in Requests \ {r} : pc'[q] = pc[q] /\ arg'[q] = arg[q]
      /\ pc'[r] = "incr" /\ arg'[r].key = c
  BY <1>1, <1>2 DEF TypeOK
<1>4. ASSUME NEW k \in Keys, NEW p \in Tries(k)', p[1] # r PROVE p \in Tries(k)
  BY <1>3, <1>4 DEF Tries, Left
<1>5. ASSUME NEW k \in Keys, k # c PROVE Sent(k)'
  <2>1. Tries(k)' \subseteq Tries(k)
    <3>1. \A p \in Tries(k)' : p[1] # r
      BY <1>3, <1>5 DEF Tries
    <3> QED BY <1>4, <3>1
  <2>2. arrived'[k] = arrived[k] /\ counter'[k] \in 0 .. counter[k]
    BY <1>1, <1>2, <1>5 DEF TypeOK
  <2> QED BY <2>1, <2>2, FewerKeeps DEF Budget
<1>6. Sent(c)'
  <2>1. Tries(c)' \subseteq Tries(c) \cup N
    <3>1. ASSUME NEW p \in Tries(c)', p[1] = r PROVE p \in N
      BY <3>1 DEF Tries
    <3> QED BY <1>1, <1>4, <3>1
  <2>2. IsFiniteSet(N) /\ Cardinality(N) = Retries + 1
    <3>1. IsFiniteSet({r}) /\ Cardinality({r}) = 1
      BY FS_Singleton
    <3>2. IsFiniteSet(1 .. (Retries + 1)) /\ Cardinality(1 .. (Retries + 1)) = Retries + 1
      BY FS_Interval, TimeAssumption
    <3>3. /\ IsFiniteSet(N)
          /\ Cardinality(N) = Cardinality({r}) * Cardinality(1 .. (Retries + 1))
      BY <3>1, <3>2, FS_Product
    <3> QED BY <3>1, <3>2, <3>3, TimeAssumption
  <2> HIDE DEF N
  <2>3. /\ IsFiniteSet(Tries(c) \cup N)
        /\ Cardinality(Tries(c) \cup N) =
               Cardinality(Tries(c)) + Cardinality(N) - Cardinality(Tries(c) \cap N)
    BY <2>2, TriesFinite, FS_Union
  <2>4. Cardinality(Tries(c) \cap N) \in Nat
    BY <2>2, FS_Intersection, FS_CardinalityType
  <2>5. Cardinality(Tries(c)') <= Cardinality(Tries(c) \cup N)
    BY <2>1, <2>3, FS_Subset
  <2>6. Cardinality(Tries(c)) \in Nat /\ Cardinality(Tries(c)') \in Nat
    BY TriesFinite
  <2>7. counter[c] \in Nat /\ arrived[c] \in Nat /\ arrived'[c] = arrived[c] + 1
        /\ counter'[c] = counter[c]
    BY <1>1, <1>2 DEF TypeOK
  <2>8. counter[c] + Cardinality(Tries(c)) <= (1 + Retries) * arrived[c]
    BY <1>1 DEF Budget, Sent
  <2>9. (1 + Retries) * (arrived[c] + 1) = (1 + Retries) * arrived[c] + 1 + Retries
        /\ (1 + Retries) * arrived[c] \in Nat
    BY <2>7, TimeAssumption
  <2>10. counter'[c] + Cardinality(Tries(c)') <= (1 + Retries) * arrived[c] + 1 + Retries
    BY <2>2, <2>3, <2>4, <2>5, <2>6, <2>7, <2>8, <2>9, TimeAssumption
  <2> QED BY <2>7, <2>9, <2>10 DEF Sent, Tries
<1>7. ASSUME NEW q \in Requests PROVE Value(q)'
  <2>1. CASE q = r
    BY <1>3, <2>1 DEF Value
  <2>2. CASE q # r /\ pc[q] = "expire"
    <3>1. arg[q].key \in Keys /\ arg[q].val \in Nat
      BY <2>2, InFlight DEF Locals
    <3>2. arg[q].val <= (1 + Retries) * arrived[arg[q].key]
      BY <2>2 DEF Budget, Value
    <3>3. /\ arrived[arg[q].key] \in Nat /\ arrived'[arg[q].key] \in Nat
          /\ arrived'[arg[q].key] >= arrived[arg[q].key]
      BY <1>1, <1>2, <3>1 DEF TypeOK
    <3>4. (1 + Retries) * arrived[arg[q].key] <= (1 + Retries) * arrived'[arg[q].key]
      BY <3>3, TimeAssumption
    <3>5. /\ (1 + Retries) * arrived[arg[q].key] \in Nat
          /\ (1 + Retries) * arrived'[arg[q].key] \in Nat
      BY <3>3, TimeAssumption
    <3> QED BY <1>3, <2>2, <3>1, <3>2, <3>4, <3>5 DEF Value
  <2>3. CASE q # r /\ pc[q] # "expire"
    BY <1>3, <2>3 DEF Value
  <2> QED BY <2>1, <2>2, <2>3
<1> QED BY <1>5, <1>6, <1>7 DEF Budget

\* Keys go, Redis or the server restarts: nobody may send more.
LEMMA IdleBudget ==
  ASSUME Inv, Budget, Tick \/ RedisRestart \/ Crash \/ UNCHANGED vars
  PROVE  Budget'
<1>1. TypeOK /\ arrived' = arrived
  BY DEF Inv, Tick, RedisRestart, Crash, vars, seen
<1>2. ASSUME NEW k \in Keys PROVE counter'[k] \in 0 .. counter[k]
  <2>1. counter[k] \in Nat
    BY <1>1 DEF TypeOK
  <2>2. counter'[k] = 0 \/ counter'[k] = counter[k]
    BY DEF Tick, RedisRestart, Crash, vars, redis
  <2> QED BY <2>1, <2>2
<1>3. \/ pc' = pc /\ arg' = arg
      \/ \A q \in Requests : pc'[q] = "idle"
  BY DEF Tick, RedisRestart, Crash, vars
<1>4. ASSUME NEW k \in Keys PROVE Tries(k)' \subseteq Tries(k)
  BY <1>3 DEF Tries, Left
<1>5. \A k \in Keys : Sent(k)'
  BY <1>1, <1>2, <1>4, FewerKeeps DEF Budget
<1>6. \A q \in Requests : Value(q)'
  BY <1>1, <1>3 DEF Budget, Value
<1> QED BY <1>5, <1>6 DEF Budget

LEMMA NextBudget == Inv /\ Budget /\ [Next]_vars => Budget'
<1> SUFFICES ASSUME Inv, Budget, [Next]_vars PROVE Budget'
  OBVIOUS
<1>1. ASSUME NEW r \in Requests, Unreached(r) \/ Cut(r) \/ AnswerLost(r) PROVE Budget'
  BY <1>1, EndedBudget DEF Unreached, Cut, AnswerLost, redis, seen
<1>2. ASSUME NEW r \in Requests, Expire(r) PROVE Budget'
  BY <1>2, EndedBudget DEF Expire, seen
<1>3. ASSUME NEW r \in Requests, Incr(r) PROVE Budget'
  BY <1>3, IncrBudget
<1>4. ASSUME NEW r \in Requests, NEW u \in Users, Arrive(r, u) PROVE Budget'
  BY <1>4, ArriveBudget
<1> QED BY <1>1, <1>2, <1>3, <1>4, IdleBudget DEF Next, Step

\* A 429 is answered by Expire alone, with a value that INCR returned.
LEMMA NextRefused ==
  Inv /\ Budget /\ RefusedForCause /\ [Next]_vars => RefusedForCause'
<1> SUFFICES ASSUME Inv, Budget, RefusedForCause, [Next]_vars PROVE RefusedForCause'
  OBVIOUS
<1>1. ASSUME reply' = None PROVE RefusedForCause'
  BY <1>1 DEF RefusedForCause
<1>2. CASE UNCHANGED vars
  BY <1>2 DEF vars, RefusedForCause
<1>3. ASSUME NEW r \in Requests, Failed(r) PROVE RefusedForCause'
  <2>1. reply' = None \/ reply' = [status |-> 503, key |-> arg[r].key]
    BY <1>3 DEF Failed, Answer
  <2> QED BY <2>1 DEF RefusedForCause
<1>4. ASSUME NEW r \in Requests, Expire(r) PROVE RefusedForCause'
  <2>1. CASE Answer(r, 200)
    BY <2>1 DEF Answer, RefusedForCause
  <2>2. CASE TooMany(arg[r].val) /\ Answer(r, 429)
    <3>1. arg[r].key \in Keys /\ arg[r].val \in Nat /\ arg[r].val > Limit
      BY <1>4, <2>2, InFlight DEF Expire, Locals, TooMany
    <3>2. arg[r].val <= (1 + Retries) * arrived[arg[r].key]
      BY <1>4 DEF Expire, Budget, Value
    <3>3. (1 + Retries) * arrived[arg[r].key] \in Nat
      BY <3>1, TimeAssumption DEF Inv, TypeOK
    <3>4. (1 + Retries) * arrived[arg[r].key] > Limit
      BY <3>1, <3>2, <3>3, TimeAssumption
    <3>5. reply' = [status |-> 429, key |-> arg[r].key] /\ arrived' = arrived
      BY <1>4, <2>2 DEF Answer, Expire, seen
    <3> QED BY <3>4, <3>5 DEF RefusedForCause
  <2> QED BY <1>4, <2>1, <2>2 DEF Expire
<1> QED BY <1>1, <1>2, <1>3, <1>4
       DEF Next, Step, Arrive, Unreached, Incr, Cut, AnswerLost, Tick, RedisRestart, Crash

----------------------------------------------------------------------------
\* Counters, expiries, requests and answers have their types, whatever the
\* times, the retries and the number of requests in flight.
THEOREM TypeCorrect == Spec => []TypeOK
<1>1. Inv => TypeOK
  BY DEF Inv
<1> QED BY <1>1, Invariant, PTL

\* A user's requests of one minute are handed on at most Limit times for each
\* life their counter may have begun, as long as Redis keeps it: for any number
\* of requests at once, broken pipelines, repeated and late ones.
THEOREM MinuteLimit == Spec => []LimitPerLife
<1>1. Inv => LimitPerLife
  <2> SUFFICES ASSUME Inv, ~ restarted, NEW k \in Keys, Start(k) <= now
               PROVE  passed[k] <= Limit * Lives(k)
    BY DEF LimitPerLife
  <2>1. Total(k) \in Nat /\ passed[k] \in Nat /\ passed[k] <= Total(k)
    BY TotalType DEF Inv
  <2>2. Total(k) <= Limit * Lives(k) /\ Limit * Lives(k) \in Nat
    BY LivesType DEF Inv, Limited
  <2> QED BY <2>1, <2>2
<1> QED BY <1>1, Invariant, PTL

\* The limit holds but for a factor of two, if a minute and the slowest of its
\* requests are over within two lives of a counter, as 60 s and 40 s are within
\* twice 70 s.
Twice ==
    ~ restarted =>
        \A k \in Keys : Start(k) <= now => passed[k] <= 2 * Limit

THEOREM AtMostTwice ==
  ASSUME Minute + Deadline <= 2 * KeyTTL
  PROVE  Spec => []Twice
<1>1. TypeOK /\ LimitPerLife => Twice
  <2> SUFFICES ASSUME TypeOK, LimitPerLife, ~ restarted, NEW k \in Keys, Start(k) <= now
               PROVE  passed[k] <= 2 * Limit
    BY DEF Twice
  <2> DEFINE last == Minute + Deadline - 1
             age  == now - Start(k)
             a    == IF age < last THEN age ELSE last
  <2>1. a \in Nat /\ a < 2 * KeyTTL /\ KeyTTL \in Nat \ {0}
    BY EndType, TimeAssumption DEF TypeOK
  <2>2. Lives(k) = 1 + a \div KeyTTL
    BY DEF Lives
  <2> HIDE DEF a
  <2>3. PICK q \in Nat : q = a \div KeyTTL /\ q * KeyTTL <= a
    BY <2>1, DivBounds
  <2>4. q < 2
    <3> SUFFICES ASSUME q >= 2 PROVE FALSE
      BY <2>3
    <3>1. PICK d \in Nat : q = 2 + d
      <4>1. q - 2 \in Nat /\ q = 2 + (q - 2)
        BY <2>3
      <4> QED BY <4>1
    <3>2. q * KeyTTL = 2 * KeyTTL + d * KeyTTL /\ d * KeyTTL \in Nat
      BY <2>1, <3>1
    <3> QED BY <2>1, <2>3, <3>2
  <2>5. Limit * Lives(k) = Limit \/ Limit * Lives(k) = 2 * Limit
    BY <2>2, <2>3, <2>4, TimeAssumption
  <2>6. passed[k] \in Nat /\ passed[k] <= Limit * Lives(k)
    BY DEF TypeOK, LimitPerLife
  <2> QED BY <2>5, <2>6, TimeAssumption
<1> QED BY <1>1, TypeCorrect, MinuteLimit, PTL

\* Who is told 429 has sent more pipelines in this minute than the limit
\* allows: no counter carries anything over, and repeated pipelines are the
\* only way to be counted more often than one has come.
THEOREM RefusalHasCause == Spec => []RefusedForCause
<1>1. Init => RefusedForCause
  BY DEF Init, RefusedForCause
<1>2. Spec => [](Inv /\ Budget)
  <2>1. Spec => []Budget
    BY Invariant, InitBudget, NextBudget, PTL DEF Spec
  <2> QED BY <2>1, Invariant, PTL
<1> QED BY <1>1, <1>2, NextRefused, PTL DEF Spec
=============================================================================
