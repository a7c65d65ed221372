---------------------------- MODULE ReportsProofs ----------------------------
(***************************************************************************)
(* Proofs about Reports, for any users, tasks, windows and limits.         *)
(*                                                                         *)
(* LIMIT, OFFSET and ROW_NUMBER all cut a finite set by the place of a row *)
(* in an order.  What the proofs need of that is said once, of any order:  *)
(* the first n rows are n, or all (FirstCount), and places are 1, 2, ...   *)
(* without gaps (PlacesFull).                                              *)
(***************************************************************************)
EXTENDS Reports, FiniteSetTheorems, TLAPS

----------------------------------------------------------------------------
(* Places in a finite set S ordered by R, a set of pairs.                  *)

Ordered(S, R) ==
    /\ IsFiniteSet(S)
    /\ \A a \in S : <<a, a>> \notin R
    /\ \A a, b, c \in S : <<a, b>> \in R /\ <<b, c>> \in R => <<a, c>> \in R
    /\ \A a, b \in S : a = b \/ <<a, b>> \in R \/ <<b, a>> \in R

Upto(S, R, x)  == {y \in S : y = x \/ <<y, x>> \in R}
First(S, R, n) == {x \in S : Cardinality(Upto(S, R, x)) <= n}

LEMMA UptoFinite ==
  ASSUME NEW S, NEW R, Ordered(S, R), NEW x
  PROVE  IsFiniteSet(Upto(S, R, x)) /\ Cardinality(Upto(S, R, x)) \in Nat
<1>1. Upto(S, R, x) \subseteq S /\ IsFiniteSet(S)
  BY DEF Upto, Ordered
<1> QED BY <1>1, FS_Subset, FS_CardinalityType

LEMMA FirstFinite ==
  ASSUME NEW S, NEW R, Ordered(S, R), NEW n
  PROVE  IsFiniteSet(First(S, R, n)) /\ Cardinality(First(S, R, n)) \in Nat
<1>1. First(S, R, n) \subseteq S /\ IsFiniteSet(S)
  BY DEF First, Ordered
<1> QED BY <1>1, FS_Subset, FS_CardinalityType

\* Who comes earlier has a smaller place.
LEMMA Earlier ==
  ASSUME NEW S, NEW R, Ordered(S, R), NEW x \in S, NEW y \in S, <<y, x>> \in R
  PROVE  /\ Upto(S, R, y) \subseteq Upto(S, R, x) /\ x \notin Upto(S, R, y)
         /\ Cardinality(Upto(S, R, y)) < Cardinality(Upto(S, R, x))
<1>1. Upto(S, R, y) \subseteq Upto(S, R, x)
  BY DEF Ordered, Upto
<1>2. x \in Upto(S, R, x) /\ x \notin Upto(S, R, y)
  BY DEF Ordered, Upto
<1>3. /\ Cardinality(Upto(S, R, y)) <= Cardinality(Upto(S, R, x))
      /\ Cardinality(Upto(S, R, x)) # Cardinality(Upto(S, R, y))
  BY <1>1, <1>2, UptoFinite, FS_Subset
<1> QED BY <1>1, <1>2, <1>3, UptoFinite

LEMMA Least ==
  ASSUME NEW S, NEW R, Ordered(S, R), NEW T \in SUBSET S, T # {}
  PROVE  \E x \in T : \A y \in T : y = x \/ <<x, y>> \in R
<1> DEFINE W == {Upto(S, R, x) : x \in T}
<1>1. IsWellFoundedOn(StrictSubsetOrdering(S), FiniteSubsetsOf(S))
  BY FS_StrictSubsetOrderingWellFounded
<1>2. W \subseteq FiniteSubsetsOf(S) /\ W # {}
  <2>1. ASSUME NEW x \in T PROVE Upto(S, R, x) \in FiniteSubsetsOf(S)
    <3>1. Upto(S, R, x) \in SUBSET S
      BY DEF Upto
    <3> QED BY <3>1, UptoFinite DEF FiniteSubsetsOf
  <2> QED BY <2>1
<1>3. PICK D \in W : \A E \in W : ~ (<<E, D>> \in StrictSubsetOrdering(S))
  BY <1>1, <1>2, WFMin
<1>4. PICK x \in T : D = Upto(S, R, x)
  BY <1>3
<1>5. ASSUME NEW y \in T, <<y, x>> \in R PROVE FALSE
  <2>1. Upto(S, R, y) \subseteq D /\ Upto(S, R, y) # D
    BY <1>4, <1>5, Earlier DEF Upto
  <2>2. Upto(S, R, y) \in SUBSET S /\ D \in SUBSET S
    BY <1>4 DEF Upto
  <2>3. <<Upto(S, R, y), D>> \in StrictSubsetOrdering(S)
    BY <2>1, <2>2 DEF StrictSubsetOrdering
  <2> QED BY <1>3, <2>3
<1> QED BY <1>5 DEF Ordered

LEMMA Greatest ==
  ASSUME NEW S, NEW R, Ordered(S, R), NEW T \in SUBSET S, T # {}
  PROVE  \E x \in T : \A y \in T : y = x \/ <<y, x>> \in R
<1> DEFINE Q == {p \in S \X S : <<p[2], p[1]>> \in R}
<1>1. \A a, b \in S : <<a, b>> \in Q <=> <<b, a>> \in R
  OBVIOUS
<1> HIDE DEF Q
<1>2. Ordered(S, Q)
  BY <1>1 DEF Ordered
<1>3. PICK x \in T : \A y \in T : y = x \/ <<x, y>> \in Q
  BY <1>2, Least
<1> QED BY <1>1, <1>3

\* The first n of S are n, or they are all.
LEMMA FirstCount ==
  ASSUME NEW S, NEW R, Ordered(S, R), NEW n \in Nat
  PROVE  /\ Cardinality(First(S, R, n)) <= n
         /\ First(S, R, n) = S \/ Cardinality(First(S, R, n)) = n
<1> DEFINE F == First(S, R, n)
<1>1. IsFiniteSet(F) /\ Cardinality(F) \in Nat /\ F \subseteq S
  BY FirstFinite DEF First
<1>2. \A x \in S : x \in F <=> Cardinality(Upto(S, R, x)) <= n
  BY DEF First
<1>3. \A x \in S : Cardinality(Upto(S, R, x)) \in Nat
  BY UptoFinite
<1> HIDE DEF F
<1>4. Cardinality(F) <= n
  <2>1. CASE F = {}
    BY <2>1, FS_EmptySet
  <2>2. CASE F # {}
    <3>1. PICK g \in F : \A y \in F : y = g \/ <<y, g>> \in R
      BY <1>1, <2>2, Greatest
    <3>2. F \subseteq Upto(S, R, g)
      BY <1>1, <3>1 DEF Upto
    <3>3. Cardinality(F) <= Cardinality(Upto(S, R, g))
      BY <3>2, UptoFinite, FS_Subset
    <3> QED BY <1>1, <1>2, <1>3, <3>1, <3>3
  <2> QED BY <2>1, <2>2
<1>5. ASSUME F # S PROVE Cardinality(F) >= n
  <2>1. S \ F \in SUBSET S /\ S \ F # {}
    BY <1>1, <1>5
  <2>2. PICK l \in S \ F : \A y \in S \ F : y = l \/ <<l, y>> \in R
    <3> DEFINE U == S \ F
    <3>1. U \in SUBSET S /\ U # {}
      BY <2>1
    <3> HIDE DEF U
    <3>2. \E l \in U : \A y \in U : y = l \/ <<l, y>> \in R
      BY <3>1, Least
    <3> QED BY <3>2 DEF U
  <2>3. Upto(S, R, l) \subseteq F \cup {l}
    BY <2>2 DEF Ordered, Upto
  <2>4. /\ IsFiniteSet(F \cup {l}) /\ Cardinality(F \cup {l}) = Cardinality(F) + 1
    BY <1>1, <2>2, FS_AddElement
  <2>5. Cardinality(Upto(S, R, l)) <= Cardinality(F) + 1
    BY <2>3, <2>4, FS_Subset
  <2>6. ~ (Cardinality(Upto(S, R, l)) <= n)
    BY <1>2, <2>2
  <2> QED BY <1>1, <1>3, <2>2, <2>5, <2>6
<1> QED BY <1>1, <1>4, <1>5 DEF F

\* Among the first n, places are 1, 2, ... without gaps.
LEMMA PlacesFull ==
  ASSUME NEW S, NEW R, Ordered(S, R), NEW n \in Nat
  PROVE  {Cardinality(Upto(S, R, x)) : x \in First(S, R, n)} =
             1 .. Cardinality(First(S, R, n))
<1> DEFINE F == First(S, R, n)
<1>1. ASSUME NEW x \in F PROVE Cardinality(Upto(S, R, x)) \in 1 .. Cardinality(F)
  <2>1. x \in S /\ Cardinality(Upto(S, R, x)) <= n
    BY DEF First
  <2>2. Cardinality(Upto(S, R, x)) # 0
    <3>1. x \in Upto(S, R, x)
      BY <2>1 DEF Upto
    <3> QED BY <3>1, UptoFinite, FS_EmptySet
  <2>3. ASSUME NEW y \in Upto(S, R, x) PROVE y \in F
    <3>1. y \in S /\ (y = x \/ <<y, x>> \in R)
      BY DEF Upto
    <3>2. Cardinality(Upto(S, R, y)) <= Cardinality(Upto(S, R, x))
      BY <2>1, <3>1, Earlier, UptoFinite
    <3> QED BY <2>1, <3>1, <3>2, UptoFinite DEF First
  <2>4. Cardinality(Upto(S, R, x)) <= Cardinality(F)
    BY <2>3, FirstFinite, FS_Subset
  <2> QED BY <2>2, <2>4, UptoFinite, FirstFinite
<1>2. ASSUME NEW m \in 1 .. Cardinality(F)
      PROVE  \E x \in F : Cardinality(Upto(S, R, x)) = m
  <2>1. m \in Nat /\ m - 1 \in Nat /\ m <= Cardinality(F)
    BY FirstFinite
  <2>2. Cardinality(First(S, R, m - 1)) <= m - 1
    BY <2>1, FirstCount
  <2>3. Cardinality(First(S, R, m)) >= m
    <3>1. CASE First(S, R, m) = S
      <4>1. F \subseteq S
        BY DEF First
      <4>2. Cardinality(F) <= Cardinality(S) /\ Cardinality(S) \in Nat
        BY <4>1, FS_Subset, FS_CardinalityType DEF Ordered
      <4> QED BY <2>1, <3>1, <4>2, FirstFinite
    <3> QED BY <2>1, <3>1, FirstCount
  <2>4. ~ (First(S, R, m) \subseteq First(S, R, m - 1))
    <3> SUFFICES ASSUME First(S, R, m) \subseteq First(S, R, m - 1) PROVE FALSE
      OBVIOUS
    <3>1. Cardinality(First(S, R, m)) <= Cardinality(First(S, R, m - 1))
      BY FirstFinite, FS_Subset
    <3> QED BY <2>1, <2>2, <2>3, <3>1, FirstFinite
  <2>5. PICK x \in First(S, R, m) : x \notin First(S, R, m - 1)
    BY <2>4
  <2>6. x \in S /\ Cardinality(Upto(S, R, x)) = m
    BY <2>1, <2>5, UptoFinite DEF First
  <2>7. m <= n
    BY <2>1, FirstCount, FirstFinite
  <2> QED BY <2>6, <2>7 DEF First
<1> QED BY <1>1, <1>2

\* Who leaves S lets at most one other move up among the first n.
LEMMA MovedUp ==
  ASSUME NEW S, NEW R, Ordered(S, R), NEW T \in SUBSET S, NEW n \in Nat
  PROVE  Cardinality(First(T, R, n) \ First(S, R, n)) <= Cardinality(S \ T)
<1> DEFINE F == First(S, R, n)
           G == First(T, R, n)
<1>1. Ordered(T, R) /\ IsFiniteSet(S \ T) /\ Cardinality(S \ T) \in Nat
  BY FS_Subset, FS_Difference, FS_CardinalityType DEF Ordered
<1>2. /\ IsFiniteSet(F) /\ Cardinality(F) \in Nat /\ F \subseteq S
      /\ IsFiniteSet(G) /\ Cardinality(G) \in Nat /\ G \subseteq T
  BY <1>1, FirstFinite DEF First
<1>3. F \cap T \subseteq G
  <2> SUFFICES ASSUME NEW x \in F, x \in T PROVE x \in G
    OBVIOUS
  <2>1. Upto(T, R, x) \subseteq Upto(S, R, x)
    BY DEF Upto
  <2>2. Cardinality(Upto(T, R, x)) <= Cardinality(Upto(S, R, x))
    BY <2>1, UptoFinite, FS_Subset
  <2>3. Cardinality(Upto(S, R, x)) <= n
    BY DEF First
  <2> QED BY <1>1, <2>2, <2>3, UptoFinite DEF First
<1>4. Cardinality(G) <= n /\ (F = S \/ Cardinality(F) = n)
  BY <1>1, FirstCount
<1> HIDE DEF F, G
<1>5. CASE F = S
  <2>1. G \ F = {}
    BY <1>2, <1>5
  <2> QED BY <1>1, <2>1, FS_EmptySet DEF F, G
<1>6. CASE Cardinality(F) = n
  <2>1. /\ Cardinality(G \ F) = Cardinality(G) - Cardinality(G \cap F)
        /\ Cardinality(F \ T) = Cardinality(F) - Cardinality(F \cap T)
    BY <1>2, FS_Difference
  <2>2. Cardinality(G \cap F) = Cardinality(F \cap T)
    <3>1. G \cap F = F \cap T
      BY <1>2, <1>3
    <3> QED BY <3>1
  <2>3. Cardinality(F \ T) <= Cardinality(S \ T)
    <3>1. F \ T \subseteq S \ T
      BY <1>2
    <3> QED BY <1>1, <3>1, FS_Subset
  <2>4. Cardinality(F \cap T) \in Nat
    BY <1>2, FS_Intersection, FS_CardinalityType
  <2>5. Cardinality(G \ F) <= Cardinality(S \ T)
    BY <1>1, <1>2, <1>4, <1>6, <2>1, <2>2, <2>3, <2>4
  <2> QED BY <2>5 DEF F, G
<1> QED BY <1>4, <1>5, <1>6

\* The page behind the first n: whoever moves on by its length has been shown
\* all before, and it is empty only behind the last.
LEMMA PageCount ==
  ASSUME NEW S, NEW R, Ordered(S, R), NEW n \in Nat, NEW limit \in Nat \ {0},
         NEW page, page = First(S, R, n + limit) \ First(S, R, n)
  PROVE  /\ IsFiniteSet(page) /\ Cardinality(page) \in Nat
         /\ First(S, R, n + Cardinality(page)) \subseteq First(S, R, n) \cup page
         /\ page = {} => First(S, R, n) = S
<1> DEFINE F == First(S, R, n)
           G == First(S, R, n + limit)
<1>1. /\ IsFiniteSet(F) /\ Cardinality(F) \in Nat /\ F \subseteq S
      /\ IsFiniteSet(G) /\ Cardinality(G) \in Nat /\ G \subseteq S
  <2>1. IsFiniteSet(F) /\ Cardinality(F) \in Nat /\ F \subseteq S
    BY FirstFinite DEF First
  <2> DEFINE m == n + limit
  <2>2. IsFiniteSet(First(S, R, m)) /\ Cardinality(First(S, R, m)) \in Nat
        /\ First(S, R, m) \subseteq S
    BY FirstFinite DEF First
  <2> QED BY <2>1, <2>2
<1>2. IsFiniteSet(page) /\ Cardinality(page) \in Nat
  BY <1>1, FS_Difference, FS_CardinalityType
<1>3. /\ Cardinality(F) <= n /\ Cardinality(G) <= n + limit
      /\ F = S \/ Cardinality(F) = n
      /\ G = S \/ Cardinality(G) = n + limit
  BY FirstCount
<1>4. F \subseteq G
  BY UptoFinite DEF First
<1> HIDE DEF F, G
<1>5. Cardinality(page) <= limit
  <2>1. CASE F = S
    BY <1>1, <2>1, FS_EmptySet DEF F, G
  <2>2. CASE Cardinality(F) = n
    <3>1. Cardinality(page) = Cardinality(G) - Cardinality(G \cap F) /\ G \cap F = F
      BY <1>1, <1>4, FS_Difference DEF F, G
    <3> QED BY <1>1, <1>3, <2>2, <3>1
  <2> QED BY <1>3, <2>1, <2>2
<1>6. ASSUME NEW x \in First(S, R, n + Cardinality(page)) PROVE x \in F \cup page
  <2>1. x \in S /\ Cardinality(Upto(S, R, x)) <= n + Cardinality(page)
    BY DEF First
  <2>2. x \in G
    BY <1>2, <1>5, <2>1, UptoFinite DEF First, G
  <2> QED BY <2>2 DEF F, G
<1>7. ASSUME page = {} PROVE F = S
  <2>1. G = F
    BY <1>4, <1>7 DEF F, G
  <2> QED BY <1>1, <1>3, <2>1
<1> QED BY <1>2, <1>6, <1>7 DEF F

----------------------------------------------------------------------------
(* Types.                                                                  *)

Newer == {p \in Nat \X Nat : p[1] > p[2]}

LEMMA NewerOrders ==
  ASSUME NEW S \in SUBSET Nat, IsFiniteSet(S)
  PROVE  Ordered(S, Newer)
BY DEF Ordered, Newer

LEMMA KeysFinite ==
  ASSUME NEW s \in Seq(Task), NEW K, K \subseteq DOMAIN s
  PROVE  K \in SUBSET Nat /\ IsFiniteSet(K) /\ DOMAIN s = 1 .. Len(s)
<1>1. DOMAIN s = 1 .. Len(s) /\ Len(s) \in Nat
  OBVIOUS
<1>2. IsFiniteSet(1 .. Len(s))
  BY <1>1, FS_Interval
<1>3. IsFiniteSet(K)
  BY <1>1, <1>2, FS_Subset
<1> QED BY <1>1, <1>3

LEMMA InvalidFinite ==
  ASSUME tasks \in Seq(Task)
  PROVE  /\ Invalid \in SUBSET Nat /\ IsFiniteSet(Invalid)
         /\ Ordered(Invalid, Newer)
<1>1. Invalid \subseteq DOMAIN tasks
  BY DEF Invalid
<1> QED BY <1>1, KeysFinite, NewerOrders

\* The rows before a reader's place that it has not been shown.
Missed == (reader.standing \ reader.seen) \cap First(Invalid, Newer, reader.offset)

ReaderInv ==
    reader # None =>
        reader.standing \subseteq Invalid /\ Cardinality(Missed) <= reader.gone

Tables == TypeOK /\ IsFiniteSet(members)
Inv    == Tables /\ ReaderInv

LEMMA InitTables == Init => Inv
BY FS_EmptySet DEF Init, Inv, Tables, TypeOK, ReaderInv

\* What the steps of the tables leave: rows stay, and what is in the list now
\* and was not before is newer than all that was.
Changes ==
    /\ Tables'
    /\ \/ Invalid' \subseteq Invalid
       \/ /\ Invalid \subseteq Invalid'
          /\ \A j \in Invalid' \ Invalid, k \in Invalid : j > k

\* The tables have their types, if their rows do.
TablesNext ==
    /\ teams' \in Nat /\ members' \subseteq (1 .. teams') \X Users
    /\ IsFiniteSet(members')
    /\ tasks' \in Seq(Task) /\ DOMAIN tasks \subseteq DOMAIN tasks'
    /\ \A k \in DOMAIN tasks' :
           tasks'[k].team <= teams' /\ tasks'[k].updated <= tasks'[k].created

LEMMA FollowTypes ==
  ASSUME Tables, TablesNext, Follow
  PROVE  Tables'
<1>1. tasks \in Seq(Task) /\ reader \in Reader \cup {None}
      /\ (reader # None => reader.seen \cup reader.standing \subseteq DOMAIN tasks)
  BY DEF Tables, TypeOK
<1>2. CASE reader = None
  BY <1>2 DEF Follow, Tables, TypeOK, TablesNext
<1>3. CASE reader # None
  <2>1. reader \in Reader
    BY <1>1, <1>3
  <2>2. IsFiniteSet(Invalid \ Invalid') /\ Cardinality(Invalid \ Invalid') \in Nat
    BY <1>1, InvalidFinite, FS_Difference, FS_CardinalityType
  <2>3. reader' = [reader EXCEPT !.standing = @ \cap Invalid',
                                 !.gone = @ + Cardinality(Invalid \ Invalid')]
    BY <1>3 DEF Follow
  <2>4. reader' \in Reader /\ reader'.seen = reader.seen
        /\ reader'.standing = reader.standing \cap Invalid'
    <3>1. PICK kept \in SUBSET Nat : kept = reader.standing \cap Invalid'
      BY <2>1 DEF Reader
    <3>2. PICK gone \in Nat : gone = reader.gone + Cardinality(Invalid \ Invalid')
      BY <2>1, <2>2 DEF Reader
    <3>3. PICK q \in Reader : q = [reader EXCEPT !.standing = kept]
      BY <2>1 DEF Reader
    <3>4. q.standing = kept /\ q.seen = reader.seen
      BY <2>1, <3>3 DEF Reader
    <3>5. reader' = [q EXCEPT !.gone = gone]
      BY <2>3, <3>1, <3>2, <3>3
    <3>6. reader' \in Reader /\ reader'.seen = q.seen /\ reader'.standing = q.standing
      BY <3>5 DEF Reader
    <3> QED BY <3>1, <3>4, <3>6
  <2>5. reader'.seen \cup reader'.standing \subseteq DOMAIN tasks'
    BY <1>1, <1>3, <2>4 DEF TablesNext
  <2> QED BY <2>4, <2>5 DEF Tables, TypeOK, TablesNext
<1> QED BY <1>2, <1>3

LEMMA JoinChanges ==
  ASSUME Tables, NEW n \in Nat, n >= teams, NEW t \in 1 .. n, NEW u \in Users,
         teams' = n, members' = members \cup {<<t, u>>}, tasks' = tasks, Follow
  PROVE  Changes
<1>1. TablesNext
  <2>1. IsFiniteSet(members')
    BY FS_AddElement DEF Tables
  <2>2. teams \in Nat /\ members \subseteq (1 .. teams) \X Users
    BY DEF Tables, TypeOK
  <2>3. members' \subseteq (1 .. teams') \X Users
    BY <2>2
  <2>4. ASSUME NEW k \in DOMAIN tasks'
        PROVE  tasks'[k].team <= teams' /\ tasks'[k].updated <= tasks'[k].created
    <3>1. tasks[k] \in Task /\ tasks[k].team <= teams /\ tasks[k].updated <= tasks[k].created
      BY <2>4 DEF Tables, TypeOK
    <3> QED BY <2>2, <3>1 DEF Task
  <2> QED BY <2>1, <2>3, <2>4 DEF TablesNext, Tables, TypeOK
<1>2. Invalid' \subseteq Invalid
  BY DEF Invalid, MembersOf
<1> QED BY <1>1, <1>2, FollowTypes DEF Changes

LEMMA CreateTeamChanges ==
  ASSUME Tables, NEW u \in Users, CreateTeam(u)
  PROVE  Changes
<1>1. teams \in Nat
  BY DEF Tables, TypeOK
<1>2. PICK n \in Nat : n = teams + 1
  BY <1>1
<1>3. n >= teams /\ n \in 1 .. n
  BY <1>1, <1>2
<1>4. teams' = n /\ members' = members \cup {<<n, u>>} /\ tasks' = tasks /\ Follow
  BY <1>2 DEF CreateTeam
<1> QED BY <1>3, <1>4, JoinChanges

LEMMA AddMemberChanges ==
  ASSUME Tables, NEW u \in Users, NEW t \in 1 .. teams, AddMember(t, u)
  PROVE  Changes
<1>1. teams \in Nat
  BY DEF Tables, TypeOK
<1>2. PICK n \in Nat : n = teams
  BY <1>1
<1>3. n >= teams /\ t \in 1 .. n
  BY <1>2
<1>4. teams' = n /\ members' = members \cup {<<t, u>>} /\ tasks' = tasks /\ Follow
  BY <1>2 DEF AddMember
<1> QED BY <1>3, <1>4, JoinChanges

LEMMA InsertChanges ==
  ASSUME Tables, NEW row \in Rows, InsertTask(row)
  PROVE  Changes
<1>1. /\ tasks' = Append(tasks, TaskRow(row)) /\ teams' = teams /\ members' = members
      /\ Follow /\ row.team <= teams
  BY DEF InsertTask
<1>2. tasks \in Seq(Task) /\ Len(tasks) \in Nat /\ DOMAIN tasks = 1 .. Len(tasks)
  BY DEF Tables, TypeOK
<1>3. TaskRow(row) \in Task
  BY RowsAssumption, WindowAssumption DEF TaskRow, Task, Age, Old
<1>4. /\ tasks' \in Seq(Task) /\ DOMAIN tasks' = 1 .. (Len(tasks) + 1)
      /\ \A k \in DOMAIN tasks : tasks'[k] = tasks[k]
      /\ tasks'[Len(tasks) + 1] = TaskRow(row)
  BY <1>1, <1>2, <1>3
<1>5. \A k \in DOMAIN tasks' : k \in DOMAIN tasks \/ k = Len(tasks) + 1
  BY <1>2, <1>4
<1>6. TablesNext
  <2>1. ASSUME NEW k \in DOMAIN tasks'
        PROVE  tasks'[k].team <= teams' /\ tasks'[k].updated <= tasks'[k].created
    <3>1. CASE k \in DOMAIN tasks
      BY <1>1, <1>4, <3>1 DEF Tables, TypeOK
    <3>2. CASE k = Len(tasks) + 1
      BY <1>1, <1>4, <3>2 DEF TaskRow
    <3> QED BY <1>5, <3>1, <3>2
  <2>2. DOMAIN tasks \subseteq DOMAIN tasks'
    BY <1>2, <1>4
  <2> QED BY <1>1, <1>4, <2>1, <2>2 DEF TablesNext, Tables, TypeOK
<1>7. Invalid \subseteq Invalid' /\ \A j \in Invalid' \ Invalid, k \in Invalid : j > k
  <2>1. \A k \in DOMAIN tasks : k \in Invalid <=> k \in Invalid'
    BY <1>1, <1>2, <1>4 DEF Invalid, MembersOf
  <2>2. \A j \in Invalid' \ Invalid : j = Len(tasks) + 1
    BY <1>5, <2>1 DEF Invalid
  <2>3. Invalid \subseteq 1 .. Len(tasks)
    BY <1>2 DEF Invalid
  <2> QED BY <1>2, <2>1, <2>2, <2>3
<1> QED BY <1>1, <1>6, <1>7, FollowTypes DEF Changes

\* A step that lets every task its team, and its assignee or none that is invalid.
LEMMA EditChanges ==
  ASSUME Tables, teams' = teams, members' = members, Follow,
         tasks' \in Seq(Task), DOMAIN tasks' = DOMAIN tasks,
         \A k \in DOMAIN tasks :
             /\ tasks'[k].team = tasks[k].team
             /\ tasks'[k].updated <= tasks'[k].created
             /\ tasks'[k].assignee \in MembersOf(tasks[k].team) \cup {None, tasks[k].assignee}
  PROVE  Changes
<1>1. TablesNext
  BY DEF TablesNext, Tables, TypeOK
<1>2. Invalid' \subseteq Invalid
  BY DEF Invalid, MembersOf
<1> QED BY <1>1, <1>2, FollowTypes DEF Changes

LEMMA UpdateChanges ==
  ASSUME Tables, NEW k \in DOMAIN tasks, NEW assignee \in Users \cup {None},
         NEW done \in BOOLEAN, UpdateTask(k, assignee, done)
  PROVE  Changes
<1>1. /\ tasks' = [tasks EXCEPT ![k].assignee = assignee, ![k].done = done, ![k].updated = 0]
      /\ teams' = teams /\ members' = members /\ Follow
      /\ assignee \in MembersOf(tasks[k].team) \cup {None, tasks[k].assignee}
  BY DEF UpdateTask
<1>2. /\ tasks \in Seq(Task) /\ tasks[k] \in Task
      /\ \A j \in DOMAIN tasks : tasks[j].updated <= tasks[j].created
  BY DEF Tables, TypeOK
<1>3. PICK row \in Task :
          row = [tasks[k] EXCEPT !.assignee = assignee, !.done = done, !.updated = 0]
  <2>1. PICK a \in Task : a = [tasks[k] EXCEPT !.assignee = assignee]
    BY <1>2 DEF Task
  <2>2. PICK b \in Task : b = [a EXCEPT !.done = done]
    BY <2>1 DEF Task
  <2>3. PICK c \in Task : c = [b EXCEPT !.updated = 0]
    <3>1. 0 \in Age
      BY WindowAssumption DEF Age, Old
    <3> QED BY <2>2, <3>1 DEF Task
  <2> QED BY <2>1, <2>2, <2>3
<1>4. /\ row.team = tasks[k].team /\ row.assignee = assignee /\ row.updated <= row.created
  BY <1>2, <1>3, WindowAssumption DEF Task, Age, Old
<1>5. tasks' = [tasks EXCEPT ![k] = row]
  BY <1>1, <1>2, <1>3 DEF Task
<1>6. /\ tasks' \in Seq(Task) /\ DOMAIN tasks' = DOMAIN tasks
      /\ tasks'[k] = row /\ \A j \in DOMAIN tasks : j # k => tasks'[j] = tasks[j]
  BY <1>2, <1>5
<1>7. ASSUME NEW j \in DOMAIN tasks
      PROVE  /\ tasks'[j].team = tasks[j].team
             /\ tasks'[j].updated <= tasks'[j].created
             /\ tasks'[j].assignee \in MembersOf(tasks[j].team) \cup {None, tasks[j].assignee}
  BY <1>1, <1>2, <1>4, <1>6
<1> QED BY <1>1, <1>6, <1>7, EditChanges

LEMMA DayChanges ==
  ASSUME Tables, Day
  PROVE  Changes
<1> DEFINE row(k) == [tasks[k] EXCEPT !.created = Older(@), !.updated = Older(@)]
<1>1. /\ tasks' = [k \in DOMAIN tasks |-> row(k)]
      /\ teams' = teams /\ members' = members /\ Follow
  BY DEF Day
<1>2. /\ tasks \in Seq(Task) /\ Len(tasks) \in Nat /\ DOMAIN tasks = 1 .. Len(tasks)
      /\ \A k \in DOMAIN tasks : tasks[k] \in Task /\ tasks[k].updated <= tasks[k].created
  BY DEF Tables, TypeOK
<1>3. ASSUME NEW k \in DOMAIN tasks
      PROVE  /\ row(k) \in Task /\ row(k).team = tasks[k].team
             /\ row(k).updated <= row(k).created /\ row(k).assignee = tasks[k].assignee
  <2>1. tasks[k] \in Task /\ tasks[k].updated <= tasks[k].created
    BY <1>2
  <2>2. \A a, b \in Age : a <= b => Older(a) \in Age /\ Older(b) \in Age /\ Older(a) <= Older(b)
    BY WindowAssumption DEF Age, Old, Older
  <2> QED BY <2>1, <2>2 DEF Task
<1> HIDE DEF row
<1>4. /\ tasks' \in Seq(Task) /\ DOMAIN tasks' = DOMAIN tasks
      /\ \A k \in DOMAIN tasks : tasks'[k] = row(k)
  BY <1>1, <1>2, <1>3
<1> QED BY <1>1, <1>3, <1>4, EditChanges

----------------------------------------------------------------------------
(* The reader.                                                             *)

LEMMA MissedFinite ==
  ASSUME Tables
  PROVE  /\ Ordered(Invalid, Newer)
         /\ IsFiniteSet(Missed) /\ Cardinality(Missed) \in Nat
<1>1. Ordered(Invalid, Newer)
  BY InvalidFinite DEF Tables, TypeOK
<1>2. Missed \subseteq First(Invalid, Newer, reader.offset)
  BY DEF Missed
<1> QED BY <1>1, <1>2, FirstFinite, FS_Subset, FS_CardinalityType

\* Who is newer than all of S puts nobody of S on a smaller place.
LEMMA MovedDown ==
  ASSUME NEW S \in SUBSET Nat, NEW T \in SUBSET Nat, IsFiniteSet(T), S \subseteq T, NEW n \in Nat
  PROVE  First(T, Newer, n) \cap S \subseteq First(S, Newer, n)
<1> SUFFICES ASSUME NEW x \in S, x \in First(T, Newer, n) PROVE x \in First(S, Newer, n)
  OBVIOUS
<1>1. Upto(S, Newer, x) \subseteq Upto(T, Newer, x)
  BY DEF Upto
<1>2. Ordered(T, Newer) /\ Ordered(S, Newer)
  BY NewerOrders, FS_Subset
<1>3. Cardinality(Upto(S, Newer, x)) <= Cardinality(Upto(T, Newer, x))
  BY <1>1, <1>2, UptoFinite, FS_Subset
<1>4. Cardinality(Upto(T, Newer, x)) <= n
  BY DEF First
<1> QED BY <1>2, <1>3, <1>4, UptoFinite DEF First

LEMMA ChangesReader ==
  ASSUME Inv, Changes, Follow
  PROVE  ReaderInv'
<1> SUFFICES ASSUME reader' # None
             PROVE  reader'.standing \subseteq Invalid' /\ Cardinality(Missed') <= reader'.gone
  BY DEF ReaderInv
<1>1. reader # None /\ reader \in Reader /\ Tables
  BY DEF Follow, Inv, Tables, TypeOK
<1>2. /\ Ordered(Invalid, Newer) /\ IsFiniteSet(Missed) /\ Cardinality(Missed) \in Nat
      /\ Invalid \in SUBSET Nat /\ IsFiniteSet(Invalid)
  BY <1>1, MissedFinite, InvalidFinite DEF Tables, TypeOK
<1>3. Invalid' \in SUBSET Nat /\ IsFiniteSet(Invalid')
  <2>1. tasks' \in Seq(Task) /\ Invalid' \subseteq DOMAIN tasks'
    BY DEF Changes, Tables, TypeOK, Invalid
  <2> QED BY <2>1, KeysFinite
<1>4. PICK I \in SUBSET Nat : I = Invalid
  BY <1>2
<1>5. PICK J \in SUBSET Nat : J = Invalid'
  BY <1>3
<1>6. IsFiniteSet(I \ J) /\ Cardinality(I \ J) \in Nat
  BY <1>2, <1>4, FS_Difference, FS_CardinalityType
<1>7. /\ reader'.offset = reader.offset /\ reader'.seen = reader.seen
      /\ reader'.standing = reader.standing \cap J
      /\ reader'.gone = reader.gone + Cardinality(I \ J)
  <2>1. reader' = [reader EXCEPT !.standing = @ \cap J, !.gone = @ + Cardinality(I \ J)]
    BY <1>1, <1>4, <1>5 DEF Follow
  <2>2. PICK q \in Reader : q = [reader EXCEPT !.standing = @ \cap J]
    BY <1>1 DEF Reader
  <2>3. /\ q.offset = reader.offset /\ q.seen = reader.seen /\ q.gone = reader.gone
        /\ q.standing = reader.standing \cap J
    BY <1>1, <2>2 DEF Reader
  <2>4. reader' = [q EXCEPT !.gone = reader.gone + Cardinality(I \ J)]
    BY <2>1, <2>2
  <2> QED BY <2>3, <2>4 DEF Reader
<1>8. PICK n \in Nat : n = reader.offset
  BY <1>1 DEF Reader
<1>9. PICK F \in SUBSET Nat : F = First(I, Newer, n)
  BY DEF First
<1>10. PICK G \in SUBSET Nat : G = First(J, Newer, n)
  BY DEF First
<1>11. /\ Missed = (reader.standing \ reader.seen) \cap F
       /\ Missed' = ((reader.standing \cap J) \ reader.seen) \cap G
       /\ reader.standing \subseteq I /\ Cardinality(Missed) <= reader.gone
  BY <1>1, <1>4, <1>5, <1>7, <1>8, <1>9, <1>10 DEF Missed, Inv, ReaderInv
<1>12. reader.gone \in Nat
  BY <1>1 DEF Reader
<1>13. CASE J \subseteq I
  <2>1. Cardinality(G \ F) <= Cardinality(I \ J)
    BY <1>2, <1>4, <1>9, <1>10, <1>13, MovedUp
  <2>2. IsFiniteSet(G \ F) /\ Cardinality(G \ F) \in Nat
    <3>1. G \ F \subseteq I /\ IsFiniteSet(I)
      BY <1>2, <1>4, <1>10, <1>13 DEF First
    <3> QED BY <3>1, FS_Subset, FS_CardinalityType
  <2>3. Missed' \subseteq Missed \cup (G \ F)
    BY <1>11
  <2>4. /\ IsFiniteSet(Missed \cup (G \ F))
        /\ Cardinality(Missed \cup (G \ F)) =
               Cardinality(Missed) + Cardinality(G \ F) - Cardinality(Missed \cap (G \ F))
    BY <1>2, <2>2, FS_Union
  <2>5. Cardinality(Missed \cap (G \ F)) \in Nat
    BY <1>2, FS_Intersection, FS_CardinalityType
  <2>6. Cardinality(Missed') <= Cardinality(Missed \cup (G \ F)) /\ Cardinality(Missed') \in Nat
    BY <2>3, <2>4, FS_Subset, FS_CardinalityType
  <2>7. Cardinality(Missed') <= reader.gone + Cardinality(I \ J)
    BY <1>2, <1>6, <1>11, <1>12, <2>1, <2>2, <2>4, <2>5, <2>6
  <2> QED BY <1>5, <1>7, <2>7
<1>14. CASE I \subseteq J
  <2>1. G \cap I \subseteq F
    BY <1>3, <1>5, <1>9, <1>10, <1>14, MovedDown
  <2>2. Missed' \subseteq Missed
    BY <1>11, <2>1
  <2>3. Cardinality(Missed') <= Cardinality(Missed) /\ Cardinality(Missed') \in Nat
    BY <1>2, <2>2, FS_Subset, FS_CardinalityType
  <2>4. Cardinality(Missed') <= reader.gone + Cardinality(I \ J)
    BY <1>2, <1>6, <1>11, <1>12, <2>3
  <2> QED BY <1>5, <1>7, <2>4
<1> QED BY <1>4, <1>5, <1>13, <1>14 DEF Changes

LEMMA OpenInv ==
  ASSUME Inv, NEW limit \in Limits, Open(limit)
  PROVE  Inv'
<1>1. /\ reader' = [limit |-> limit, offset |-> 0, seen |-> {}, standing |-> Invalid, gone |-> 0]
      /\ teams' = teams /\ members' = members /\ tasks' = tasks
  BY DEF Open
<1>2. Invalid' = Invalid /\ Invalid \subseteq DOMAIN tasks /\ Tables
  BY <1>1 DEF Invalid, MembersOf, Inv
<1>3. Invalid \in SUBSET Nat /\ Ordered(Invalid, Newer)
  BY <1>2, InvalidFinite DEF Tables, TypeOK
<1>4. Tables'
  <2>1. reader' \in Reader
    BY <1>1, <1>3 DEF Reader
  <2>2. reader'.seen \cup reader'.standing \subseteq DOMAIN tasks'
    BY <1>1, <1>2
  <2> QED BY <1>1, <1>2, <2>1, <2>2 DEF Tables, TypeOK
<1>5. ReaderInv'
  <2>1. reader'.offset = 0 /\ reader'.standing = Invalid /\ reader'.gone = 0
    BY <1>1
  <2>2. First(Invalid, Newer, 0) = {}
    <3>1. Cardinality(First(Invalid, Newer, 0)) <= 0
      BY <1>3, FirstCount
    <3> QED BY <1>3, <3>1, FirstFinite, FS_EmptySet
  <2>3. Missed' = {}
    BY <1>2, <2>1, <2>2 DEF Missed
  <2> QED BY <1>2, <2>1, <2>3, FS_EmptySet DEF ReaderInv
<1> QED BY <1>4, <1>5 DEF Inv

\* What the query returns are the rows behind the reader's place.
LEMMA WindowIsPage ==
  ASSUME Tables, NEW n \in Nat, NEW limit \in Nat
  PROVE  Window(limit, n) =
             First(Invalid, Newer, n + limit) \ First(Invalid, Newer, n)
<1>1. Invalid \in SUBSET Nat /\ Ordered(Invalid, Newer)
  BY InvalidFinite DEF Tables, TypeOK
<1>2. ASSUME NEW k \in Invalid
      PROVE  Place(k) = Cardinality(Upto(Invalid, Newer, k)) /\ Place(k) \in Nat
  <2>1. {j \in Invalid : j >= k} = Upto(Invalid, Newer, k)
    <3>1. \A j \in Nat : j >= k <=> j = k \/ <<j, k>> \in Newer
      BY <1>1 DEF Newer
    <3> QED BY <1>1, <3>1 DEF Upto
  <2> QED BY <1>1, <2>1, UptoFinite DEF Place
<1> QED BY <1>2 DEF Window, First

LEMMA PageOf ==
  ASSUME Tables, reader # None
  PROVE  \E limit \in Nat \ {0} :
             TaskWithInvalidAssignee(reader.limit, reader.offset) =
                 First(Invalid, Newer, reader.offset + limit)
                 \ First(Invalid, Newer, reader.offset)
<1>1. reader.limit \in Int /\ reader.offset \in Nat
  BY LimitAssumption DEF Tables, TypeOK, Reader
<1>2. EffectiveLimit(reader.limit) \in Nat \ {0} /\ EffectiveOffset(reader.offset) = reader.offset
  BY <1>1, LimitAssumption DEF EffectiveLimit, EffectiveOffset
<1>3. PICK limit \in Nat \ {0} : limit = EffectiveLimit(reader.limit)
  BY <1>2
<1>4. PICK n \in Nat : n = reader.offset
  BY <1>1
<1>5. TaskWithInvalidAssignee(reader.limit, reader.offset) = Window(limit, n)
  BY <1>2, <1>3, <1>4 DEF TaskWithInvalidAssignee
<1> QED BY <1>4, <1>5, WindowIsPage

LEMMA NextPageInv ==
  ASSUME Inv, NextPage
  PROVE  Inv'
<1>1. /\ teams' = teams /\ members' = members /\ tasks' = tasks /\ Tables
      /\ Invalid' = Invalid /\ Invalid \subseteq DOMAIN tasks
  BY DEF NextPage, Inv, Invalid, MembersOf
<1>2. reader # None /\ reader \in Reader
  BY <1>1 DEF NextPage, Tables, TypeOK
<1>3. PICK rows : rows = TaskWithInvalidAssignee(reader.limit, reader.offset)
  OBVIOUS
<1>4. PICK limit \in Nat \ {0} :
          rows = First(Invalid, Newer, reader.offset + limit)
                 \ First(Invalid, Newer, reader.offset)
  BY <1>1, <1>2, <1>3, PageOf
<1>5. PICK n \in Nat : n = reader.offset
  BY <1>2 DEF Reader
<1>6. /\ IsFiniteSet(rows) /\ Cardinality(rows) \in Nat
      /\ First(Invalid, Newer, n + Cardinality(rows)) \subseteq First(Invalid, Newer, n) \cup rows
  BY <1>1, <1>4, <1>5, MissedFinite, PageCount
<1>7. CASE reader' = None
  BY <1>1, <1>7 DEF Inv, Tables, TypeOK, ReaderInv
<1>8. CASE reader' # None
  <2>1. reader' = [reader EXCEPT !.offset = @ + Cardinality(rows), !.seen = @ \cup rows]
    BY <1>3, <1>8 DEF NextPage
  <2>2. rows \subseteq Invalid /\ rows \in SUBSET Nat
    BY <1>1, <1>4, InvalidFinite DEF First, Tables, TypeOK
  <2> PICK m \in Nat : m = n + Cardinality(rows)
    BY <1>6
  <2>3. PICK q \in Reader : q = [reader EXCEPT !.offset = m]
    BY <1>2 DEF Reader
  <2>4. /\ q.offset = n + Cardinality(rows) /\ q.seen = reader.seen
        /\ q.standing = reader.standing /\ q.gone = reader.gone
    BY <1>2, <1>5, <2>3 DEF Reader
  <2>5. reader' = [q EXCEPT !.seen = reader.seen \cup rows]
    BY <1>5, <2>1, <2>3
  <2>6. /\ reader' \in Reader /\ reader'.offset = n + Cardinality(rows)
        /\ reader'.seen = reader.seen \cup rows
        /\ reader'.standing = reader.standing /\ reader'.gone = reader.gone
    BY <1>2, <2>2, <2>4, <2>5 DEF Reader
  <2>7. Tables'
    <3>1. reader'.seen \cup reader'.standing \subseteq DOMAIN tasks'
      BY <1>1, <1>2, <2>2, <2>6 DEF Tables, TypeOK
    <3> QED BY <1>1, <2>6, <3>1 DEF Tables, TypeOK
  <2>8. Missed' \subseteq Missed
    BY <1>1, <1>5, <1>6, <2>6 DEF Missed
  <2>9. Cardinality(Missed') <= Cardinality(Missed) /\ Cardinality(Missed') \in Nat
    BY <1>1, <2>8, MissedFinite, FS_Subset, FS_CardinalityType
  <2>10. reader.standing \subseteq Invalid /\ Cardinality(Missed) <= reader.gone
         /\ reader.gone \in Nat
    BY <1>2 DEF Inv, ReaderInv, Reader
  <2>11. Cardinality(Missed') <= reader.gone
    BY <1>1, <2>9, <2>10, MissedFinite
  <2>12. ReaderInv'
    BY <1>1, <2>6, <2>10, <2>11 DEF ReaderInv
  <2> QED BY <2>7, <2>12 DEF Inv
<1> QED BY <1>7, <1>8

LEMMA NextInv == Inv /\ [Next]_vars => Inv'
<1> SUFFICES ASSUME Inv, [Next]_vars PROVE Inv'
  OBVIOUS
<1>1. Tables
  BY DEF Inv
<1>2. ASSUME Changes, Follow PROVE Inv'
  BY <1>2, ChangesReader DEF Changes, Inv
<1>3. ASSUME NEW u \in Users, CreateTeam(u) PROVE Inv'
  BY <1>1, <1>2, <1>3, CreateTeamChanges DEF CreateTeam
<1>4. ASSUME NEW u \in Users, NEW t \in 1 .. teams, AddMember(t, u) PROVE Inv'
  BY <1>1, <1>2, <1>4, AddMemberChanges DEF AddMember
<1>5. ASSUME NEW row \in Rows, InsertTask(row) PROVE Inv'
  BY <1>1, <1>2, <1>5, InsertChanges DEF InsertTask
<1>6. ASSUME NEW k \in DOMAIN tasks, NEW assignee \in Users \cup {None}, NEW done \in BOOLEAN,
             UpdateTask(k, assignee, done)
      PROVE  Inv'
  BY <1>1, <1>2, <1>6, UpdateChanges DEF UpdateTask
<1>7. ASSUME NEW limit \in Limits, Open(limit) PROVE Inv'
  BY <1>7, OpenInv
<1>8. CASE NextPage
  BY <1>8, NextPageInv
<1>9. CASE Day
  BY <1>1, <1>2, <1>9, DayChanges DEF Day
<1>10. CASE UNCHANGED vars
  BY <1>10 DEF vars, Inv, Tables, TypeOK, ReaderInv, Missed, Invalid, MembersOf
<1> QED BY <1>3, <1>4, <1>5, <1>6, <1>7, <1>8, <1>9, <1>10 DEF Next

LEMMA Invariant == Spec => []Inv
BY InitTables, NextInv, PTL DEF Spec

\* Teams, members, tasks and the reader have their types.
THEOREM TypeCorrect == Spec => []TypeOK
<1>1. Inv => TypeOK
  BY DEF Inv, Tables
<1> QED BY <1>1, Invariant, PTL

\* Who reads the integrity report page after page misses at most as many of
\* the rows that stand in it all the time as rows leave it meanwhile, for any
\* number of tasks and any limit.
THEOREM PagesAreNearlyComplete == Spec => PagesMissFew
<1>1. Inv /\ [Next]_vars =>
          [reader # None /\ reader' = None
              => Cardinality(reader.standing \ reader.seen) <= reader.gone]_vars
  <2> SUFFICES ASSUME Inv, [Next]_vars, reader # None, reader' = None
               PROVE  Cardinality(reader.standing \ reader.seen) <= reader.gone \/ UNCHANGED vars
    OBVIOUS
  <2>1. reader \in Reader /\ Tables /\ reader.standing \subseteq Invalid
        /\ Cardinality(Missed) <= reader.gone
    BY DEF Inv, Tables, TypeOK, ReaderInv
  <2>2. CASE Follow
    <3>1. reader' = [reader EXCEPT !.standing = @ \cap Invalid',
                                   !.gone = @ + Cardinality(Invalid \ Invalid')]
      BY <2>2 DEF Follow
    <3>2. IsFiniteSet(Invalid \ Invalid') /\ Cardinality(Invalid \ Invalid') \in Nat
      BY <2>1, InvalidFinite, FS_Difference, FS_CardinalityType DEF Tables, TypeOK
    <3>3. PICK q \in Reader : q = [reader EXCEPT !.standing = @ \cap Invalid']
      BY <2>1 DEF Reader
    <3>4. q.gone = reader.gone /\ reader.gone \in Nat
      BY <2>1, <3>3 DEF Reader
    <3>5. reader' = [q EXCEPT !.gone = reader.gone + Cardinality(Invalid \ Invalid')]
      BY <3>1, <3>3
    <3>6. reader' \in Reader
      BY <3>2, <3>4, <3>5 DEF Reader
    <3> QED BY <3>6, UsersAssumption
  <2>3. CASE NextPage
    <3>1. PICK rows : rows = TaskWithInvalidAssignee(reader.limit, reader.offset)
      OBVIOUS
    <3>2. PICK limit \in Nat \ {0} :
              rows = First(Invalid, Newer, reader.offset + limit)
                     \ First(Invalid, Newer, reader.offset)
      BY <2>1, <3>1, PageOf
    <3>3. PICK n \in Nat : n = reader.offset
      BY <2>1 DEF Reader
    <3>4. CASE rows = {}
      <4>1. First(Invalid, Newer, n) = Invalid
        BY <2>1, <3>2, <3>3, <3>4, MissedFinite, PageCount
      <4>2. Missed = reader.standing \ reader.seen
        BY <2>1, <3>3, <4>1 DEF Missed
      <4> QED BY <2>1, <4>2
    <3>5. CASE rows # {}
      <4>1. reader' = [reader EXCEPT !.offset = @ + Cardinality(rows), !.seen = @ \cup rows]
        BY <2>3, <3>1, <3>5 DEF NextPage
      <4>2. rows \in SUBSET Nat /\ IsFiniteSet(rows) /\ Cardinality(rows) \in Nat
        BY <2>1, <3>2, InvalidFinite, FS_Subset, FS_CardinalityType
           DEF First, Tables, TypeOK
      <4>3. PICK m \in Nat : m = reader.offset + Cardinality(rows)
        BY <2>1, <4>2 DEF Reader
      <4>4. PICK q \in Reader : q = [reader EXCEPT !.offset = m]
        BY <2>1 DEF Reader
      <4>5. q.seen = reader.seen
        BY <2>1, <4>4 DEF Reader
      <4>6. reader' = [q EXCEPT !.seen = reader.seen \cup rows]
        BY <4>1, <4>4, <4>3
      <4>7. reader' \in Reader
        BY <2>1, <4>2, <4>5, <4>6 DEF Reader
      <4> QED BY <4>7, UsersAssumption
    <3> QED BY <3>4, <3>5
  <2> QED BY <2>2, <2>3
         DEF Next, CreateTeam, AddMember, InsertTask, UpdateTask, Day, Open, vars
<1> QED BY <1>1, Invariant, PTL DEF Spec, PagesMissFew

----------------------------------------------------------------------------
(* TeamStats.                                                              *)

\* A user and a task in as many rows of the join as there are others.
LEMMA JoinCounts ==
  ASSUME Tables, NEW t \in 1 .. teams
  PROVE  /\ MembersCount(t) = Cardinality(MembersOf(t)) /\ Cardinality(MembersOf(t)) \in Nat
         /\ Done(t) \in Nat
         /\ \E m \in Nat \ {0} : /\ DoneCount(t) = m * Done(t)
                                 /\ Cardinality(MembersOf(t)) = 1 => m = 1
<1> DEFINE M == OrNull(MembersOf(t))
           T == OrNull(TasksOf(t))
           D == {k \in TasksOf(t) : DoneLately(k)}
<1>1. IsFiniteSet(MembersOf(t)) /\ Cardinality(MembersOf(t)) \in Nat
  <2>1. IsFiniteSet(members) /\ members \subseteq (1 .. teams) \X Users
    BY DEF Tables, TypeOK
  <2> DEFINE f == [u \in MembersOf(t) |-> <<t, u>>]
  <2>2. f \in Injection(MembersOf(t), members)
    BY DEF MembersOf, Injection, IsInjective
  <2> QED BY <2>1, <2>2, FS_Injection, FS_CardinalityType
<1>2. IsFiniteSet(D) /\ Cardinality(D) \in Nat
  <2>1. tasks \in Seq(Task) /\ D \subseteq DOMAIN tasks
    BY DEF Tables, TypeOK, TasksOf
  <2> QED BY <2>1, KeysFinite, FS_CardinalityType
<1>3. M # {} /\ T # {} /\ M \ {None} = MembersOf(t)
  BY UsersAssumption DEF OrNull, MembersOf
<1>4. MembersCount(t) = Cardinality(MembersOf(t))
  <2>1. \A u \in M : \E j \in M \X T : j[1] = u
    <3>1. PICK k : k \in T
      BY <1>3
    <3>2. ASSUME NEW u \in M PROVE <<u, k>> \in M \X T /\ <<u, k>>[1] = u
      BY <3>1
    <3> QED BY <3>2
  <2>2. \A j \in M \X T : j[1] \in M
    OBVIOUS
  <2>3. {j[1] : j \in M \X T} = M
    <3> HIDE DEF M, T
    <3> QED BY <2>1, <2>2
  <2> QED BY <1>3, <2>3 DEF MembersCount, Joined
<1>5. IsFiniteSet(M) /\ Cardinality(M) \in Nat \ {0}
      /\ (Cardinality(MembersOf(t)) = 1 => Cardinality(M) = 1)
  <2>1. CASE MembersOf(t) = {}
    <3>1. M = {None}
      BY <2>1 DEF OrNull
    <3>2. IsFiniteSet(M) /\ Cardinality(M) = 1
      BY <3>1, FS_Singleton
    <3> QED BY <3>2
  <2>2. CASE MembersOf(t) # {}
    BY <1>1, <2>2, FS_EmptySet DEF OrNull
  <2> QED BY <2>1, <2>2
<1>6. DoneCount(t) = Cardinality(M) * Cardinality(D)
  <2>1. \A k : k \in T /\ DoneLately(k) <=> k \in D
    BY DEF OrNull, DoneLately
  <2>2. {j \in M \X T : DoneLately(j[2])} = M \X D
    BY <2>1
  <2>3. DoneCount(t) = Cardinality(M \X D)
    BY <2>2 DEF DoneCount, Joined
  <2> HIDE DEF M, D
  <2> QED BY <1>2, <1>5, <2>3, FS_Product
<1>7. Done(t) = Cardinality(D)
  BY DEF Done
<1> HIDE DEF M, D
<1> QED BY <1>1, <1>2, <1>4, <1>5, <1>6, <1>7

LEMMA TimesZero ==
  ASSUME NEW m \in Nat \ {0}, NEW n \in Nat
  PROVE  m * n = 0 <=> n = 0
OBVIOUS

\* The members of team-stats are those who find the team in their list, and
\* done tasks are reported when there are any, for every team and any number
\* of members and tasks.
THEOREM StatsAreRight == Spec => []StatsAgree
<1>1. Inv => StatsAgree
  <2> SUFFICES ASSUME Tables, NEW t \in 1 .. teams
               PROVE  /\ MembersCount(t) = Cardinality({u \in Users : t \in ListTeams(u)})
                      /\ DoneCount(t) = 0 <=> Done(t) = 0
                      /\ MembersCount(t) = 1 => DoneCount(t) = Done(t)
    BY DEF Inv, StatsAgree, TeamStats
  <2>1. {u \in Users : t \in ListTeams(u)} = MembersOf(t)
    BY DEF ListTeams, MembersOf
  <2>2. MembersCount(t) = Cardinality(MembersOf(t)) /\ Done(t) \in Nat
    BY JoinCounts
  <2>3. PICK m \in Nat \ {0} : /\ DoneCount(t) = m * Done(t)
                               /\ Cardinality(MembersOf(t)) = 1 => m = 1
    BY JoinCounts
  <2>4. DoneCount(t) = 0 <=> Done(t) = 0
    BY <2>2, <2>3, TimesZero
  <2>5. MembersCount(t) = 1 => DoneCount(t) = Done(t)
    BY <2>2, <2>3
  <2> QED BY <2>1, <2>2, <2>4, <2>5
<1> QED BY <1>1, Invariant, PTL

----------------------------------------------------------------------------
(* TopCreatorsLastMonth.                                                   *)

Row  == [user : Nat, created : Nat]
Best == {p \in Row \X Row : Before(p[1], p[2])}

LEMMA CreatedFinite ==
  ASSUME Tables, NEW t, NEW u
  PROVE  IsFiniteSet(CreatedBy(t, u)) /\ Cardinality(CreatedBy(t, u)) \in Nat
<1>1. tasks \in Seq(Task) /\ CreatedBy(t, u) \subseteq DOMAIN tasks
  BY DEF Tables, TypeOK, CreatedBy, TasksOf
<1> QED BY <1>1, KeysFinite, FS_CardinalityType

\* One row for each creator.
LEMMA PerUserRows ==
  ASSUME Tables, NEW t
  PROVE  /\ PerUser(t) \subseteq Row
         /\ \A a \in PerUser(t) : /\ a.user \in Users /\ a.created = Cardinality(CreatedBy(t, a.user))
                                  /\ CreatedBy(t, a.user) # {}
         /\ \A a, b \in PerUser(t) : a.user = b.user => a = b
         /\ \A u \in Users : CreatedBy(t, u) # {} => \E a \in PerUser(t) : a.user = u
         /\ IsFiniteSet(PerUser(t))
<1>1. tasks \in Seq(Task) /\ Len(tasks) \in Nat /\ DOMAIN tasks = 1 .. Len(tasks)
  BY DEF Tables, TypeOK
<1>2. \A a \in PerUser(t) :
          /\ a \in [user : Users, created : 1 .. Len(tasks)]
          /\ a.user \in Users /\ a.created \in 1 .. Len(tasks)
          /\ a.created = Cardinality(CreatedBy(t, a.user))
  BY DEF PerUser
<1>3. ASSUME NEW a \in PerUser(t) PROVE a \in Row
  <2>1. a \in [user : Users, created : 1 .. Len(tasks)]
    BY <1>2
  <2>2. Users \subseteq Nat /\ 1 .. Len(tasks) \subseteq Nat
    BY <1>1, UsersAssumption
  <2> QED BY <2>1, <2>2 DEF Row
<1>4. ASSUME NEW a \in PerUser(t) PROVE CreatedBy(t, a.user) # {}
  <2>1. Cardinality(CreatedBy(t, a.user)) # 0
    BY <1>1, <1>2
  <2> QED BY <2>1, FS_EmptySet
<1>5. \A a, b \in PerUser(t) : a.user = b.user => a = b
  BY <1>2
<1>6. ASSUME NEW u \in Users, CreatedBy(t, u) # {} PROVE \E a \in PerUser(t) : a.user = u
  <2> DEFINE n == Cardinality(CreatedBy(t, u))
  <2>1. n \in Nat /\ n # 0
    BY <1>6, CreatedFinite, FS_EmptySet
  <2>2. n <= Len(tasks)
    <3>1. CreatedBy(t, u) \subseteq 1 .. Len(tasks)
      BY <1>1 DEF CreatedBy, TasksOf
    <3>2. IsFiniteSet(1 .. Len(tasks)) /\ Cardinality(1 .. Len(tasks)) = Len(tasks)
      BY <1>1, FS_Interval
    <3>3. n <= Cardinality(1 .. Len(tasks))
      BY <3>1, <3>2, FS_Subset
    <3> QED BY <3>2, <3>3
  <2>3. [user |-> u, created |-> n] \in PerUser(t)
    BY <1>1, <2>1, <2>2 DEF PerUser
  <2> QED BY <2>3
<1>7. IsFiniteSet(PerUser(t))
  <2> DEFINE f == [a \in PerUser(t) |-> CHOOSE k \in CreatedBy(t, a.user) : TRUE]
  <2>1. ASSUME NEW a \in PerUser(t) PROVE f[a] \in DOMAIN tasks /\ tasks[f[a]].by = a.user
    <3>1. f[a] \in CreatedBy(t, a.user)
      BY <1>4
    <3> HIDE DEF f
    <3> QED BY <3>1 DEF CreatedBy, TasksOf
  <2>2. \A a, b \in PerUser(t) : f[a] = f[b] => a = b
    BY <1>5, <2>1
  <2>3. f \in [PerUser(t) -> DOMAIN tasks]
    BY <2>1
  <2> HIDE DEF f
  <2>4. f \in Injection(PerUser(t), DOMAIN tasks)
    BY <2>2, <2>3 DEF Injection, IsInjective
  <2>5. IsFiniteSet(DOMAIN tasks)
    BY <1>1, FS_Interval
  <2> QED BY <2>4, <2>5, FS_Injection
<1> QED BY <1>2, <1>3, <1>4, <1>5, <1>6, <1>7

LEMMA BestOrders ==
  ASSUME NEW S \in SUBSET Row, IsFiniteSet(S), \A a, b \in S : a.user = b.user => a = b
  PROVE  Ordered(S, Best)
<1>1. \A a, b \in Row : <<a, b>> \in Best <=> Before(a, b)
  BY DEF Best
<1>2. \A a \in Row : a.user \in Nat /\ a.created \in Nat
  BY DEF Row
<1>3. \A a \in S : <<a, a>> \notin Best
  BY <1>1, <1>2 DEF Before
<1>4. \A a, b, c \in S : <<a, b>> \in Best /\ <<b, c>> \in Best => <<a, c>> \in Best
  BY <1>1, <1>2 DEF Before
<1>5. ASSUME NEW a \in S, NEW b \in S, a # b
      PROVE  <<a, b>> \in Best \/ <<b, a>> \in Best
  <2>1. a \in Row /\ b \in Row /\ a.user # b.user
    BY <1>5
  <2>2. a.user \in Nat /\ b.user \in Nat /\ a.created \in Nat /\ b.created \in Nat
    BY <2>1, <1>2
  <2>3. Before(a, b) \/ Before(b, a)
    BY <2>1, <2>2 DEF Before
  <2> QED BY <1>1, <2>1, <2>3
<1> QED BY <1>3, <1>4, <1>5 DEF Ordered

\* ROW_NUMBER is the place among the creators.
LEMMA RankIsPlace ==
  ASSUME Tables, NEW t, NEW row \in PerUser(t)
  PROVE  Rank(t, row) = Cardinality(Upto(PerUser(t), Best, row))
<1>1. PerUser(t) \subseteq Row
  BY PerUserRows
<1>2. {a \in PerUser(t) : a = row \/ Before(a, row)} = Upto(PerUser(t), Best, row)
  BY <1>1 DEF Upto, Best
<1> QED BY <1>2 DEF Rank

\* The shown creators of a team, one row for each of the first Top.
Shown(t) == First(PerUser(t), Best, Top)
RowOf(t, a) ==
    [user |-> a.user, created |-> a.created,
     rank |-> Cardinality(Upto(PerUser(t), Best, a))]

LEMMA ShownRows ==
  ASSUME Tables, NEW t \in 1 .. teams
  PROVE  TopCreatorsLastMonth[t] = {RowOf(t, a) : a \in Shown(t)}
<1>1. TopCreatorsLastMonth[t] = {row \in Ranked(t) : row.rank <= Top}
  BY DEF TopCreatorsLastMonth
<1>2. Ranked(t) = {RowOf(t, a) : a \in PerUser(t)}
  BY RankIsPlace DEF Ranked, RowOf
<1>3. \A a : RowOf(t, a).rank = Cardinality(Upto(PerUser(t), Best, a))
  BY DEF RowOf
<1> QED BY <1>1, <1>2, <1>3 DEF Shown, First

\* Whom the order puts behind, it has not created more.
LEMMA BehindIsFewer ==
  ASSUME Tables, NEW t, NEW a \in PerUser(t), NEW b \in PerUser(t),
         Cardinality(Upto(PerUser(t), Best, a)) <= Cardinality(Upto(PerUser(t), Best, b))
  PROVE  a.created >= b.created
<1>1. /\ PerUser(t) \subseteq Row /\ Ordered(PerUser(t), Best)
      /\ a.created \in Nat /\ b.created \in Nat
  BY PerUserRows, BestOrders DEF Row
<1>2. <<b, a>> \notin Best
  BY <1>1, Earlier, UptoFinite
<1>3. a = b \/ <<a, b>> \in Best
  BY <1>1, <1>2 DEF Ordered
<1>4. CASE <<a, b>> \in Best
  BY <1>1, <1>4 DEF Best, Before
<1> QED BY <1>1, <1>3, <1>4

\* As many rows as there is room and are creators for.
LEMMA RowsCount ==
  ASSUME Tables, NEW t
  PROVE  LET creators == {u \in Users : CreatedBy(t, u) # {}}
             rows     == {RowOf(t, a) : a \in Shown(t)} IN
         /\ Cardinality(rows) = Cardinality(Shown(t))
         /\ Cardinality(rows) =
                IF Cardinality(creators) < Top THEN Cardinality(creators) ELSE Top
<1> DEFINE creators == {u \in Users : CreatedBy(t, u) # {}}
           rows     == {RowOf(t, a) : a \in Shown(t)}
           S        == PerUser(t)
           f        == [a \in Shown(t) |-> RowOf(t, a)]
           g        == [a \in S |-> a.user]
<1>1. Ordered(S, Best) /\ IsFiniteSet(S) /\ Cardinality(S) \in Nat
  BY PerUserRows, BestOrders, FS_CardinalityType
<1>2. Shown(t) \subseteq S
  BY DEF Shown, First
<1>3. IsFiniteSet(Shown(t)) /\ Cardinality(Shown(t)) \in Nat
  BY <1>1, FirstFinite DEF Shown
<1>4. Cardinality(rows) = Cardinality(Shown(t))
  <2>1. \A a, b \in Shown(t) : RowOf(t, a) = RowOf(t, b) => a = b
    <3>1. \A a : RowOf(t, a).user = a.user
      BY DEF RowOf
    <3> QED BY <1>2, <3>1, PerUserRows
  <2>2. f \in Bijection(Shown(t), rows)
    BY <2>1 DEF Bijection, Injection, Surjection, IsInjective
  <2> HIDE DEF f, rows
  <2> QED BY <1>3, <2>2, FS_Bijection DEF ExistsBijection
<1>5. Cardinality(creators) = Cardinality(S)
  <2>1. /\ \A a \in S : a.user \in creators
        /\ \A a, b \in S : a.user = b.user => a = b
        /\ \A u \in creators : \E a \in S : a.user = u
    BY PerUserRows
  <2> HIDE DEF S, creators
  <2>2. g \in Bijection(S, creators)
    BY <2>1 DEF Bijection, Injection, Surjection, IsInjective
  <2> HIDE DEF g
  <2> QED BY <1>1, <2>2, FS_Bijection DEF ExistsBijection
<1>6. /\ Cardinality(Shown(t)) <= Top
      /\ Shown(t) = S \/ Cardinality(Shown(t)) = Top
      /\ Cardinality(Shown(t)) <= Cardinality(S) /\ Top \in Nat
  BY <1>1, <1>2, FirstCount, FS_Subset, LimitAssumption DEF Shown
<1> HIDE DEF creators, rows, S
<1>7. Cardinality(Shown(t)) = IF Cardinality(S) < Top THEN Cardinality(S) ELSE Top
  BY <1>1, <1>3, <1>6
<1>8. Cardinality(rows) = IF Cardinality(creators) < Top THEN Cardinality(creators) ELSE Top
  BY <1>4, <1>5, <1>7
<1> QED BY <1>4, <1>8 DEF creators, rows

\* Ranks of a team are 1, 2, ... without ties or gaps, better for who created
\* more; nobody left out has created more than somebody shown, and no place is
\* empty while there is a creator for it: for any number of teams, users and
\* tasks.
THEOREM RanksAreFair == Spec => []RanksFair
<1>1. ASSUME Tables, NEW t \in 1 .. teams
      PROVE  LET rows     == TopCreatorsLastMonth[t]
                 creators == {u \in Users : CreatedBy(t, u) # {}}
                 shown    == {row.user : row \in rows}
                 count(u) == Cardinality(CreatedBy(t, u)) IN
             /\ shown \subseteq creators
             /\ \A u \in shown, v \in creators \ shown : count(u) >= count(v)
             /\ \A a, b \in rows :
                    /\ a.created = count(a.user)
                    /\ a.rank < b.rank => a.created >= b.created
                    /\ a.user = b.user \/ a.rank = b.rank => a = b
             /\ {row.rank : row \in rows} = 1 .. Cardinality(rows)
             /\ Cardinality(rows) =
                    IF Cardinality(creators) < Top THEN Cardinality(creators) ELSE Top
  <2> DEFINE S        == PerUser(t)
             place(a) == Cardinality(Upto(S, Best, a))
             rows     == {RowOf(t, a) : a \in Shown(t)}
             creators == {u \in Users : CreatedBy(t, u) # {}}
             shown    == {row.user : row \in rows}
             count(u) == Cardinality(CreatedBy(t, u))
  <2>1. TopCreatorsLastMonth[t] = rows
    BY <1>1, ShownRows
  <2>2. \A a : /\ RowOf(t, a).user = a.user /\ RowOf(t, a).created = a.created
                /\ RowOf(t, a).rank = place(a)
    BY DEF RowOf
  <2>3. /\ Shown(t) \subseteq S /\ Ordered(S, Best) /\ Top \in Nat
        /\ \A a \in S : a \in Shown(t) <=> place(a) <= Top
    BY <1>1, PerUserRows, BestOrders, LimitAssumption DEF Shown, First
  <2>4. \A a \in S : place(a) \in Nat
    BY <2>3, UptoFinite
  <2>5. /\ \A a \in S : a.user \in creators /\ a.created = count(a.user)
        /\ \A a, b \in S : a.user = b.user => a = b
        /\ \A u \in creators : \E a \in S : a.user = u
    BY <1>1, PerUserRows
  <2>6. \A a, b \in S : place(a) <= place(b) => a.created >= b.created
    BY <1>1, BehindIsFewer
  <2>7. ASSUME NEW a \in S, NEW b \in S, place(a) = place(b) PROVE a = b
    <3>1. <<a, b>> \notin Best /\ <<b, a>> \notin Best
      BY <2>3, <2>4, <2>7, Earlier
    <3> QED BY <2>3, <3>1 DEF Ordered
  <2>8. {place(a) : a \in Shown(t)} = 1 .. Cardinality(Shown(t))
    BY <2>3, PlacesFull DEF Shown
  <2>9. /\ Cardinality(rows) = Cardinality(Shown(t))
        /\ Cardinality(rows) =
               IF Cardinality(creators) < Top THEN Cardinality(creators) ELSE Top
    BY <1>1, RowsCount
  <2>10. \A row \in rows : \E a \in Shown(t) : row = RowOf(t, a)
    OBVIOUS
  <2>11. \A a \in Shown(t) : RowOf(t, a) \in rows
    OBVIOUS
  <2>12. shown = {a.user : a \in Shown(t)}
    BY <2>2
  <2>13. {row.rank : row \in rows} = {place(a) : a \in Shown(t)}
    BY <2>2
  <2> HIDE DEF S, place, rows, creators, shown, count
  <2>14. shown \subseteq creators
    BY <2>3, <2>5, <2>12
  <2>15. ASSUME NEW u \in shown, NEW v \in creators \ shown PROVE count(u) >= count(v)
    <3>1. PICK a \in Shown(t) : a.user = u
      BY <2>12
    <3>2. PICK b \in S : b.user = v
      BY <2>5
    <3>3. b \notin Shown(t)
      BY <2>12, <3>2
    <3>4. place(a) <= place(b)
      BY <2>3, <2>4, <3>3
    <3>5. a.created >= b.created
      BY <2>3, <2>6, <3>4
    <3> QED BY <2>3, <2>5, <3>1, <3>2, <3>5
  <2>16. ASSUME NEW p \in rows, NEW q \in rows
         PROVE  /\ p.created = count(p.user)
                /\ p.rank < q.rank => p.created >= q.created
                /\ p.user = q.user \/ p.rank = q.rank => p = q
    <3>1. PICK a \in Shown(t) : p = RowOf(t, a)
      BY <2>10
    <3>2. PICK b \in Shown(t) : q = RowOf(t, b)
      BY <2>10
    <3>3. /\ a \in S /\ b \in S /\ place(a) \in Nat /\ place(b) \in Nat
      BY <2>3, <2>4
    <3>4. /\ p.user = a.user /\ p.created = a.created /\ p.rank = place(a)
          /\ q.user = b.user /\ q.created = b.created /\ q.rank = place(b)
      BY <2>2, <3>1, <3>2
    <3>5. p.created = count(p.user)
      BY <2>5, <3>3, <3>4
    <3>6. p.rank < q.rank => p.created >= q.created
      BY <2>6, <3>3, <3>4
    <3>7. p.user = q.user \/ p.rank = q.rank => p = q
      BY <2>5, <2>7, <3>1, <3>2, <3>3, <3>4
    <3> QED BY <3>5, <3>6, <3>7
  <2>17. {row.rank : row \in rows} = 1 .. Cardinality(rows)
    BY <2>8, <2>9, <2>13
  <2> QED BY <2>1, <2>9, <2>14, <2>15, <2>16, <2>17
          DEF shown, creators, count
<1>2. Inv => RanksFair
  BY <1>1 DEF Inv, RanksFair
<1> QED BY <1>2, Invariant, PTL
=============================================================================
