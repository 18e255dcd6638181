---------------------------- MODULE AccountsProofs ----------------------------
(***************************************************************************)
(* Theorems about Accounts, for any users, requests and ids, and for any   *)
(* limits of attempts and sessions.                                        *)
(***************************************************************************)
EXTENDS Accounts, FiniteSetTheorems, SequenceTheorems, TLAPS

-----------------------------------------------------------------------------
(***************************************************************************)
(* Sequences of sessions                                                   *)
(***************************************************************************)
\* The number of members up to k, which Without counts its positions by.
Rank(K, k) == Cardinality({j \in K : j <= k})

LEMMA RankType ==
    ASSUME NEW K, IsFiniteSet(K), K \subseteq Int, NEW k \in K
    PROVE  /\ IsFiniteSet({j \in K : j <= k})
           /\ Rank(K, k) \in 1..Cardinality(K)
  <1> DEFINE U == {j \in K : j <= k}
  <1>1. U \in SUBSET K /\ k \in U
    OBVIOUS
  <1>2. IsFiniteSet(U) /\ Cardinality(U) <= Cardinality(K)
    BY <1>1, FS_Subset
  <1>3. Cardinality(U) # 0
    BY <1>1, <1>2, FS_EmptySet
  <1>4. Cardinality(U) \in Nat /\ Cardinality(K) \in Nat
    BY <1>2, FS_CardinalityType
  <1> HIDE DEF U
  <1>5. Cardinality(U) \in 1..Cardinality(K)
    BY <1>2, <1>3, <1>4
  <1> QED BY <1>2, <1>5 DEF Rank, U

\* Of two members the greater has more up to it.
LEMMA RankInjective ==
    ASSUME NEW K, IsFiniteSet(K), K \subseteq Int, NEW k \in K, NEW l \in K,
           Rank(K, k) = Rank(K, l)
    PROVE  k = l
  <1>1. ASSUME NEW x \in K, NEW y \in K, x < y, Rank(K, x) = Rank(K, y) PROVE FALSE
    <2> DEFINE U == {j \in K : j <= x}
               V == {j \in K : j <= y}
    <2>1. IsFiniteSet(V)
      BY RankType
    <2>2. x \in Int /\ y \in Int
      BY <1>1
    <2>3. U \in SUBSET V
      <3>1. \A j \in K : j \in Int /\ (j <= x => j <= y)
        BY <1>1, <2>2
      <3> QED BY <3>1
    <2>4. Cardinality(V) = Cardinality(U)
      BY <1>1 DEF Rank
    <2>5. U = V
      <3> HIDE DEF U, V
      <3> QED BY <2>1, <2>3, <2>4, FS_Subset
    <2>6. y \in V /\ y \notin U
      BY <1>1, <2>2
    <2> QED BY <2>5, <2>6
  <1>2. k \in Int /\ l \in Int
    OBVIOUS
  <1> QED BY <1>1, <1>2

\* As many ranks as members: an injection between finite sets of one size.
LEMMA RankOnto ==
    ASSUME NEW K, IsFiniteSet(K), K \subseteq Int, NEW n \in 1..Cardinality(K)
    PROVE  \E k \in K : Rank(K, k) = n
  <1> DEFINE N == 1..Cardinality(K)
             f == [k \in K |-> Rank(K, k)]
  <1>1. f \in [K -> N]
    BY RankType
  <1>2. \A k, l \in K : f[k] = f[l] => k = l
    BY RankInjective
  <1>3. f \in Injection(K, N)
    <2> HIDE DEF f, N
    <2>1. DOMAIN f = K
      BY <1>1
    <2> QED BY <1>1, <1>2, <2>1 DEF Injection, IsInjective
  <1>4. Cardinality(K) \in Nat
    BY FS_CardinalityType
  <1>5. IsFiniteSet(N) /\ Cardinality(N) = Cardinality(K)
    <2>1. /\ IsFiniteSet(N)
          /\ Cardinality(N) = IF 1 > Cardinality(K) THEN 0 ELSE Cardinality(K) - 1 + 1
      BY <1>4, FS_Interval
    <2> QED BY <1>4, <2>1
  <1>6. f \in Surjection(K, N)
    <2> HIDE DEF f, N
    <2> QED BY <1>3, <1>5, FS_Injection
  <1> QED BY <1>6 DEF Surjection

\* Without takes away what is in S, and nothing else.
LEMMA WithoutFacts ==
    ASSUME sessions \in [Users -> Seq(Ids)], NEW u \in Users, NEW S
    PROVE  /\ Without(u, S) \in Seq(Ids)
           /\ Range(Without(u, S)) = Range(sessions[u]) \ S
           /\ IsInjective(sessions[u]) => IsInjective(Without(u, S))
  <1> DEFINE s == sessions[u]
             K == {k \in DOMAIN s : s[k] \notin S}
             at(n) == CHOOSE k \in K : Rank(K, k) = n
             w == [n \in 1..Cardinality(K) |-> s[at(n)]]
  <1>1. Without(u, S) = w
    BY DEF Without, Rank
  <1>2. s \in Seq(Ids) /\ Len(s) \in Nat /\ DOMAIN s = 1..Len(s) /\ s \in [1..Len(s) -> Ids]
    BY LenProperties
  <1>3. IsFiniteSet(K) /\ K \subseteq Int /\ Cardinality(K) \in Nat
    <2>1. IsFiniteSet(1..Len(s))
      BY <1>2, FS_Interval
    <2>2. K \in SUBSET (1..Len(s))
      BY <1>2
    <2>3. 1..Len(s) \subseteq Int
      BY <1>2
    <2> HIDE DEF K
    <2>4. IsFiniteSet(K)
      BY <2>1, <2>2, FS_Subset
    <2> QED BY <2>2, <2>3, <2>4, FS_CardinalityType
  <1>4. \A n \in 1..Cardinality(K) : at(n) \in K /\ Rank(K, at(n)) = n
    <2> HIDE DEF K
    <2> QED BY <1>3, RankOnto
  <1>5. \A k \in K : \E n \in 1..Cardinality(K) : at(n) = k
    <2> SUFFICES ASSUME NEW k \in K PROVE \E n \in 1..Cardinality(K) : at(n) = k
      OBVIOUS
    <2> HIDE DEF K
    <2>1. Rank(K, k) \in 1..Cardinality(K)
      BY <1>3, RankType
    <2>2. at(Rank(K, k)) \in K /\ Rank(K, at(Rank(K, k))) = Rank(K, k)
      BY <1>4, <2>1
    <2> HIDE DEF at
    <2>3. at(Rank(K, k)) = k
      BY <1>3, <2>2, RankInjective
    <2> QED BY <2>1, <2>3
  <1> HIDE DEF at
  <1>6. w \in Seq(Ids)
    <2>1. \A n \in 1..Cardinality(K) : s[at(n)] \in Ids
      BY <1>2, <1>4
    <2>2. w \in [1..Cardinality(K) -> Ids]
      BY <2>1
    <2> HIDE DEF w, K
    <2> QED BY <1>3, <2>2, SeqDef
  <1>7. Range(w) = Range(s) \ S
    <2>1. ASSUME NEW n \in 1..Cardinality(K) PROVE w[n] \in Range(s) \ S
      BY <1>4 DEF Range
    <2>2. ASSUME NEW k \in DOMAIN s, s[k] \notin S
          PROVE  \E n \in 1..Cardinality(K) : w[n] = s[k]
      <3>1. PICK n \in 1..Cardinality(K) : at(n) = k
        BY <1>5, <2>2
      <3> QED BY <3>1
    <2>3. DOMAIN w = 1..Cardinality(K)
      OBVIOUS
    <2> HIDE DEF w, K, s
    <2> QED BY <2>1, <2>2, <2>3 DEF Range
  <1>8. IsInjective(s) => IsInjective(w)
    <2> SUFFICES ASSUME IsInjective(s), NEW m \in DOMAIN w, NEW n \in DOMAIN w, w[m] = w[n]
                 PROVE  m = n
      BY DEF IsInjective
    <2>1. m \in 1..Cardinality(K) /\ n \in 1..Cardinality(K)
      OBVIOUS
    <2>2. at(m) \in DOMAIN s /\ at(n) \in DOMAIN s /\ s[at(m)] = s[at(n)]
      BY <1>4, <2>1
    <2>3. at(m) = at(n)
      BY <2>2 DEF IsInjective
    <2> QED BY <1>4, <2>1, <2>3
  <1> QED BY <1>1, <1>6, <1>7, <1>8

\* A session that is added comes last.
LEMMA AppendFacts ==
    ASSUME NEW s \in Seq(Ids), NEW i \in Ids
    PROVE  /\ Append(s, i) \in Seq(Ids)
           /\ Range(Append(s, i)) = Range(s) \cup {i}
           /\ IsInjective(s) /\ i \notin Range(s) => IsInjective(Append(s, i))
  <1> DEFINE a == Append(s, i)
  <1>1. Len(s) \in Nat /\ DOMAIN s = 1..Len(s)
    BY LenProperties
  <1>2. a \in Seq(Ids) /\ DOMAIN a = 1..(Len(s) + 1)
    BY <1>1
  <1>3. \A k \in 1..Len(s) : a[k] = s[k]
    BY <1>1
  <1>4. a[Len(s) + 1] = i
    BY <1>1
  <1>5. DOMAIN a = DOMAIN s \cup {Len(s) + 1} /\ Len(s) + 1 \notin DOMAIN s
    BY <1>1, <1>2
  <1> HIDE DEF a
  <1>6. Range(a) = Range(s) \cup {i}
    BY <1>1, <1>3, <1>4, <1>5 DEF Range
  <1>7. IsInjective(s) /\ i \notin Range(s) => IsInjective(a)
    BY <1>1, <1>3, <1>4, <1>5 DEF Range, IsInjective
  <1> QED BY <1>2, <1>6, <1>7 DEF a

\* Where no session is listed twice, as many are listed as there are.
LEMMA LenIsCardinality ==
    ASSUME NEW s \in Seq(Ids)
    PROVE  /\ IsFiniteSet(Range(s))
           /\ IsInjective(s) => Len(s) = Cardinality(Range(s))
  <1>1. Len(s) \in Nat /\ DOMAIN s = 1..Len(s) /\ s \in [1..Len(s) -> Ids]
    BY LenProperties
  <1>2. s \in Surjection(1..Len(s), Range(s))
    BY <1>1 DEF Surjection, Range
  <1>3. /\ IsFiniteSet(1..Len(s))
        /\ Cardinality(1..Len(s)) = IF 1 > Len(s) THEN 0 ELSE Len(s) - 1 + 1
    BY <1>1, FS_Interval
  <1>4. Cardinality(1..Len(s)) = Len(s)
    BY <1>1, <1>3
  <1>5. /\ IsFiniteSet(Range(s))
        /\ Cardinality(Range(s)) = Len(s) <=> s \in Injection(1..Len(s), Range(s))
    BY <1>2, <1>3, <1>4, FS_Surjection
  <1>6. IsInjective(s) => s \in Injection(1..Len(s), Range(s))
    BY <1>1 DEF Injection, Range
  <1> QED BY <1>5, <1>6

\* Without the oldest there is room for one session more.
LEMMA OldestFacts ==
    ASSUME NEW s \in Seq(Ids), Len(s) >= MaxSessions
    PROVE  /\ Oldest(s) \in SUBSET Range(s)
           /\ IsFiniteSet(Range(s) \ Oldest(s))
           /\ Cardinality(Range(s) \ Oldest(s)) <= MaxSessions - 1
  <1> DEFINE first == Len(s) - (MaxSessions - 1)
             newest == (first + 1)..Len(s)
             rest == [k \in newest |-> s[k]]
  <1>1. Len(s) \in Nat /\ DOMAIN s = 1..Len(s) /\ MaxSessions \in Nat \ {0}
    BY LenProperties, AccountsAssumption
  <1>2. /\ first \in Int /\ 1 <= first /\ first <= Len(s)
        /\ 1..Len(s) = (1..first) \cup newest
    BY <1>1
  <1>3. Oldest(s) = {s[k] : k \in 1..first}
    BY DEF Oldest
  <1>4. Oldest(s) \in SUBSET Range(s)
    BY <1>1, <1>2, <1>3 DEF Range
  <1>5. IsFiniteSet(newest) /\ Cardinality(newest) = MaxSessions - 1
    <2>1. /\ IsFiniteSet(newest)
          /\ Cardinality(newest) = IF first + 1 > Len(s) THEN 0 ELSE Len(s) - (first + 1) + 1
      <3>1. first + 1 \in Int /\ Len(s) \in Int
        BY <1>1, <1>2
      <3> HIDE DEF first
      <3> QED BY <3>1, FS_Interval
    <2> QED BY <1>1, <1>2, <2>1
  <1> HIDE DEF first, newest
  <1>6. IsFiniteSet(Range(rest)) /\ Cardinality(Range(rest)) <= MaxSessions - 1
    <2>1. rest \in Surjection(newest, Range(rest))
      BY DEF Surjection, Range
    <2> HIDE DEF rest
    <2> QED BY <1>5, <2>1, FS_Surjection
  <1>7. Range(s) \ Oldest(s) \in SUBSET Range(rest)
    BY <1>1, <1>2, <1>3 DEF Range
  <1>8. /\ IsFiniteSet(Range(s) \ Oldest(s))
        /\ Cardinality(Range(s) \ Oldest(s)) <= Cardinality(Range(rest))
    BY <1>6, <1>7, FS_Subset
  <1>9. Cardinality(Range(s) \ Oldest(s)) \in Nat /\ Cardinality(Range(rest)) \in Nat
    BY <1>6, <1>8, FS_CardinalityType
  <1> QED BY <1>1, <1>4, <1>6, <1>8, <1>9

-----------------------------------------------------------------------------
(***************************************************************************)
(* The invariant of types and lockouts                                     *)
(***************************************************************************)
\* A request that is under way is about a user.
HandOK(r) == r.pc # "idle" => r.u \in Users

TypeInv == TypeOK /\ LockTellsAttempts /\ \A h \in Handlers : HandOK(hand[h])

LEMMA IdleHand == Idle \in Handler /\ HandOK(Idle) /\ Idle.pc = "idle"
  BY AccountsAssumption DEF Idle, Handler, HandOK

\* A login that has read the user.
LEMMA CompareHand ==
    ASSUME NEW u \in Users, NEW b \in 0..(MaxAttempts - 1), NEW r,
           r = [Idle EXCEPT !.pc = "compare", !.u = u, !.fresh = u \in fresh, !.base = b]
    PROVE  r \in Handler /\ HandOK(r) /\ r.pc = "compare"
  <1>1. r = [pc |-> "compare", u |-> u, base |-> b, fresh |-> (u \in fresh), id |-> None,
             old |-> {}]
    BY DEF Idle
  <1>2. u \in Users /\ b \in 0..(MaxAttempts - 1) /\ (u \in fresh) \in BOOLEAN
    OBVIOUS
  <1> QED BY ONLY <1>1, <1>2 DEF Handler, HandOK

\* A request that is about to list the sessions, or has compared the code.
LEMMA UserHand ==
    ASSUME NEW u \in Users, NEW pc \in {"list", "reset"}, NEW r,
           r = [Idle EXCEPT !.pc = pc, !.u = u]
    PROVE  r \in Handler /\ HandOK(r) /\ r.pc = pc
  <1>1. r = [pc |-> pc, u |-> u, base |-> 0, fresh |-> FALSE, id |-> None, old |-> {}]
    BY DEF Idle
  <1>2. u \in Users /\ pc \in {"list", "reset"} /\ 0 \in 0..(MaxAttempts - 1)
    BY AccountsAssumption
  <1> QED BY ONLY <1>1, <1>2 DEF Handler, HandOK

\* One that has found its session.
LEMMA FoundHand ==
    ASSUME NEW u \in Users, NEW i \in Ids, NEW pc \in {"rotate", "logout", "others"}, NEW r,
           r = [Idle EXCEPT !.pc = pc, !.u = u, !.id = i]
    PROVE  r \in Handler /\ HandOK(r) /\ r.pc = pc
  <1>1. r = [pc |-> pc, u |-> u, base |-> 0, fresh |-> FALSE, id |-> i, old |-> {}]
    BY DEF Idle
  <1>2. /\ u \in Users /\ i \in Ids /\ pc \in {"rotate", "logout", "others"}
        /\ 0 \in 0..(MaxAttempts - 1)
    BY AccountsAssumption
  <1> QED BY ONLY <1>1, <1>2 DEF Handler, HandOK

\* One that goes on to its new session.
LEMMA RoomLeftHand ==
    ASSUME NEW q \in Handler, HandOK(q), q.pc # "idle", NEW r, r = [q EXCEPT !.pc = "create"]
    PROVE  r \in Handler /\ HandOK(r) /\ r.pc = "create" /\ r.u = q.u
  BY DEF Handler, HandOK

LEMMA HandGoes ==
    ASSUME TypeInv, NEW h \in Handlers, NEW r \in Handler, HandOK(r), Goes(h, r)
    PROVE  /\ hand' \in [Handlers -> Handler]
           /\ \A g \in Handlers : HandOK(hand'[g])
           /\ \A g \in Handlers : hand'[g] = IF g = h THEN r ELSE hand[g]
  <1>1. hand' = [hand EXCEPT ![h] = r] /\ hand \in [Handlers -> Handler]
    BY DEF Goes, TypeInv, TypeOK
  <1>2. \A g \in Handlers : hand'[g] = IF g = h THEN r ELSE hand[g]
    BY <1>1
  <1> QED BY <1>1, <1>2 DEF TypeInv

-----------------------------------------------------------------------------
(***************************************************************************)
(* What a step does to the sessions                                        *)
(***************************************************************************)
Shrinks(u) == /\ Range(sessions'[u]) \subseteq Range(sessions[u])
              /\ IsInjective(sessions[u]) => IsInjective(sessions'[u])

Shrink == sessions' \in [Users -> Seq(Ids)] /\ \A u \in Users : Shrinks(u)

LEMMA SessionsStay == ASSUME TypeInv, UNCHANGED sessions PROVE Shrink
  BY DEF TypeInv, TypeOK, Shrink, Shrinks

\* The sessions of one user become others, all of them old.
LEMMA SessionsOfOne ==
    ASSUME TypeInv, NEW v \in Users, NEW s \in Seq(Ids), Range(s) \subseteq Range(sessions[v]),
           IsInjective(sessions[v]) => IsInjective(s),
           sessions' = [sessions EXCEPT ![v] = s]
    PROVE  Shrink
  <1>1. sessions \in [Users -> Seq(Ids)]
    BY DEF TypeInv, TypeOK
  <1>2. sessions' \in [Users -> Seq(Ids)]
    BY <1>1
  <1>3. \A u \in Users : sessions'[u] = IF u = v THEN s ELSE sessions[u]
    BY <1>1
  <1> QED BY <1>2, <1>3 DEF Shrink, Shrinks

LEMMA SessionsCut ==
    ASSUME TypeInv, NEW v \in Users, NEW S, sessions' = [sessions EXCEPT ![v] = Without(v, S)]
    PROVE  Shrink
  <1>1. sessions \in [Users -> Seq(Ids)]
    BY DEF TypeInv, TypeOK
  <1>2. /\ Without(v, S) \in Seq(Ids)
        /\ Range(Without(v, S)) = Range(sessions[v]) \ S
        /\ IsInjective(sessions[v]) => IsInjective(Without(v, S))
    BY <1>1, WithoutFacts
  <1>3. Range(Without(v, S)) \subseteq Range(sessions[v])
    BY <1>2
  <1> QED BY <1>2, <1>3, SessionsOfOne

LEMMA SessionsCleared ==
    ASSUME TypeInv, NEW v \in Users, sessions' = [sessions EXCEPT ![v] = <<>>]
    PROVE  Shrink
  <1>1. <<>> \in Seq(Ids) /\ Range(<<>>) = {} /\ IsInjective(<<>>)
    BY DEF Range, IsInjective
  <1>2. Range(<<>>) \subseteq Range(sessions[v])
    BY <1>1
  <1> QED BY <1>1, <1>2, SessionsOfOne

\* A session that is rotated was there, and moves to the end.
LEMMA SessionsRotated ==
    ASSUME TypeInv, NEW v \in Users, NEW i, sessions' = [sessions EXCEPT ![v] = Rotated(v, i)]
    PROVE  Shrink
  <1>1. sessions \in [Users -> Seq(Ids)]
    BY DEF TypeInv, TypeOK
  <1>2. CASE Has(v, i)
    <2>1. Rotated(v, i) = Append(Without(v, {i}), i)
      BY <1>2 DEF Rotated
    <2>2. i \in Range(sessions[v]) /\ i \in Ids
      <3>1. PICK k \in DOMAIN sessions[v] : sessions[v][k] = i
        BY <1>2 DEF Has
      <3>2. sessions[v] \in Seq(Ids) /\ DOMAIN sessions[v] = 1..Len(sessions[v])
        BY <1>1, LenProperties
      <3>3. sessions[v][k] \in Ids
        BY <3>1, <3>2, ElementOfSeq
      <3> QED BY <3>1, <3>3 DEF Range
    <2>3. /\ Without(v, {i}) \in Seq(Ids)
          /\ Range(Without(v, {i})) = Range(sessions[v]) \ {i}
          /\ IsInjective(sessions[v]) => IsInjective(Without(v, {i}))
      BY <1>1, WithoutFacts
    <2>4. i \notin Range(Without(v, {i}))
      BY <2>3
    <2>5. /\ Append(Without(v, {i}), i) \in Seq(Ids)
          /\ Range(Append(Without(v, {i}), i)) = Range(Without(v, {i})) \cup {i}
          /\ IsInjective(Without(v, {i})) /\ i \notin Range(Without(v, {i}))
             => IsInjective(Append(Without(v, {i}), i))
      BY <2>2, <2>3, AppendFacts
    <2>6. Range(Append(Without(v, {i}), i)) \subseteq Range(sessions[v])
      BY <2>2, <2>3, <2>5
    <2> QED BY <2>1, <2>3, <2>4, <2>5, <2>6, SessionsOfOne
  <1>3. CASE ~Has(v, i)
    <2>1. Rotated(v, i) = sessions[v]
      BY <1>3 DEF Rotated
    <2> QED BY <1>1, <2>1, SessionsOfOne
  <1> QED BY <1>2, <1>3

\* A new session comes last, and is one that nobody has or remembers.
Adds(h, i) ==
    /\ hand[h].pc = "create"
    /\ ~InUse(i)
    /\ sessions' = [sessions EXCEPT ![hand[h].u] = Append(@, i)]
    /\ Goes(h, Idle)

LEMMA SessionAdded ==
    ASSUME TypeInv, NEW h \in Handlers, NEW i \in Ids, Adds(h, i)
    PROVE  LET u == hand[h].u IN
           /\ u \in Users
           /\ i \notin Range(sessions[u])
           /\ sessions' \in [Users -> Seq(Ids)]
           /\ Range(sessions'[u]) = Range(sessions[u]) \cup {i}
           /\ IsInjective(sessions[u]) => IsInjective(sessions'[u])
           /\ \A v \in Users : v # u => sessions'[v] = sessions[v]
  <1> DEFINE u == hand[h].u
  <1>1. u \in Users
    BY DEF TypeInv, HandOK, Adds
  <1>2. sessions \in [Users -> Seq(Ids)]
    BY DEF TypeInv, TypeOK
  <1>3. i \notin Range(sessions[u])
    BY <1>1 DEF Adds, InUse, Has, Range
  <1> HIDE DEF u
  <1>4. sessions[u] \in Seq(Ids)
    BY <1>1, <1>2
  <1>5. /\ Append(sessions[u], i) \in Seq(Ids)
        /\ Range(Append(sessions[u], i)) = Range(sessions[u]) \cup {i}
        /\ IsInjective(sessions[u]) /\ i \notin Range(sessions[u])
           => IsInjective(Append(sessions[u], i))
    BY <1>4, AppendFacts
  <1>6. sessions' = [sessions EXCEPT ![u] = Append(sessions[u], i)]
    BY DEF Adds, u
  <1>7. /\ sessions' \in [Users -> Seq(Ids)]
        /\ sessions'[u] = Append(sessions[u], i)
        /\ \A v \in Users : v # u => sessions'[v] = sessions[v]
    BY <1>1, <1>2, <1>5, <1>6
  <1> QED BY <1>1, <1>3, <1>5, <1>7 DEF u

LEMMA SessionsStep ==
    ASSUME TypeInv, [Next]_vars
    PROVE  Shrink \/ \E h \in Handlers, i \in Ids : Adds(h, i)
  <1>1. CASE UNCHANGED sessions
    BY <1>1, SessionsStay
  <1>2. ASSUME NEW h \in Handlers, EvictSessions(h) PROVE Shrink
    <2>1. hand[h].u \in Users
      BY <1>2 DEF EvictSessions, TypeInv, HandOK
    <2> QED BY <1>2, <2>1, SessionsCut DEF EvictSessions
  <1>3. ASSUME NEW h \in Handlers, CreateSession(h)
        PROVE  \E i \in Ids : Adds(h, i)
    BY <1>3 DEF CreateSession, Adds
  <1>4. ASSUME NEW h \in Handlers, RotateSession(h) PROVE Shrink
    <2>1. hand[h].u \in Users
      BY <1>4 DEF RotateSession, TypeInv, HandOK
    <2> QED BY <1>4, <2>1, SessionsRotated DEF RotateSession
  <1>5. ASSUME NEW h \in Handlers, RevokeMatched(h) PROVE Shrink
    <2>1. hand[h].u \in Users
      BY <1>5 DEF RevokeMatched, TypeInv, HandOK
    <2> QED BY <1>5, <2>1, SessionsCut DEF RevokeMatched
  <1>6. ASSUME NEW u \in Users, AdminReset(u) \/ Deactivate(u) PROVE Shrink
    BY <1>6, SessionsCleared DEF AdminReset, Deactivate
  <1>7. ASSUME NEW u \in Users, RevokeSessions(u) PROVE Shrink
    BY <1>7, SessionsCut DEF RevokeSessions
  <1>8. ASSUME NEW h \in Handlers,
               \/ LoginRead(h) \/ SetupNewPassword(h) \/ ResetRead(h) \/ AuthorizeQr(h)
               \/ FindSession(h) \/ LoginFail(h) \/ LoginPass(h) \/ ResetWrite(h)
               \/ ListSessions(h) \/ Abort(h)
        PROVE  UNCHANGED sessions
    BY <1>8 DEF LoginRead, SetupNewPassword, ResetRead, AuthorizeQr, FindSession, LoginFail,
                LoginPass, ResetWrite, ListSessions, Abort
  <1>9. ASSUME NEW u \in Users, LockExpires(u) \/ RequestPasswordReset(u) \/ Reactivate(u)
        PROVE  UNCHANGED sessions
    BY <1>9 DEF LockExpires, RequestPasswordReset, Reactivate
  <1>10. CASE TokensExpire \/ UNCHANGED vars
    BY <1>1, <1>10 DEF TokensExpire, vars
  <1> QED BY <1>1, <1>2, <1>3, <1>4, <1>5, <1>6, <1>7, <1>8, <1>9, <1>10 DEF Next, Step

LEMMA TypeInit == Init => TypeInv
  BY IdleHand, AccountsAssumption DEF Init, TypeInv, TypeOK, LockTellsAttempts

\* A request that reads the user or finds its session, goes on, ends or is lost.
Reads(h) == \/ LoginRead(h) \/ SetupNewPassword(h) \/ ResetRead(h) \/ AuthorizeQr(h)
            \/ FindSession(h) \/ LoginFail(h) \/ LoginPass(h) \/ ResetWrite(h)
            \/ RotateSession(h) \/ RevokeMatched(h) \/ Abort(h)

LEMMA ReadsHand ==
    ASSUME TypeInv, NEW h \in Handlers, Reads(h)
    PROVE  \E r \in Handler : HandOK(r) /\ r.pc \notin {"evict", "create"} /\ Goes(h, r)
  <1>1. CASE LoginRead(h)
    <2>1. PICK u \in active :
             /\ lock[u] # "locked"
             /\ Goes(h, [Idle EXCEPT !.pc = "compare", !.u = u, !.fresh = u \in fresh,
                                     !.base = AttemptsBefore(u)])
      BY <1>1 DEF LoginRead
    <2>2. u \in Users /\ attempts[u] \in 0..MaxAttempts /\ lock[u] \in {"none", "locked", "expired"}
      BY <2>1 DEF TypeInv, TypeOK
    <2>3. attempts[u] = MaxAttempts <=> lock[u] # "none"
      BY <2>2 DEF TypeInv, LockTellsAttempts
    <2>4. AttemptsBefore(u) \in 0..(MaxAttempts - 1)
      BY <2>1, <2>2, <2>3, AccountsAssumption DEF AttemptsBefore
    <2>5. PICK r : r = [Idle EXCEPT !.pc = "compare", !.u = u, !.fresh = u \in fresh,
                                    !.base = AttemptsBefore(u)]
      OBVIOUS
    <2>6. r \in Handler /\ HandOK(r) /\ r.pc = "compare"
      BY <2>2, <2>4, <2>5, CompareHand
    <2>7. Goes(h, r)
      BY <2>1, <2>5
    <2> QED BY ONLY <2>6, <2>7
  <1>2. ASSUME NEW u \in Users, NEW pc \in {"list", "reset"}, NEW r,
               r = [Idle EXCEPT !.pc = pc, !.u = u], Goes(h, r)
        PROVE  \E q \in Handler : HandOK(q) /\ q.pc \notin {"evict", "create"} /\ Goes(h, q)
    <2>1. r \in Handler /\ HandOK(r) /\ r.pc = pc
      BY <1>2, UserHand
    <2>2. pc \in {"list", "reset"} /\ Goes(h, r)
      BY <1>2
    <2> QED BY ONLY <2>1, <2>2
  <1>3. active \subseteq Users /\ code \subseteq Users /\ setup \subseteq Users
    BY DEF TypeInv, TypeOK
  <1>4. CASE SetupNewPassword(h) \/ AuthorizeQr(h)
    <2>1. PICK u \in Users : Goes(h, [Idle EXCEPT !.pc = "list", !.u = u])
      BY <1>3, <1>4 DEF SetupNewPassword, AuthorizeQr
    <2> QED BY <1>2, <2>1
  <1>5. CASE ResetRead(h)
    <2>1. PICK u \in Users : Goes(h, [Idle EXCEPT !.pc = "reset", !.u = u])
      BY <1>3, <1>5 DEF ResetRead
    <2> QED BY <1>2, <2>1
  <1>6. CASE FindSession(h)
    <2>1. PICK u \in Users, i \in Ids, to \in {"rotate", "logout", "others"} :
             Goes(h, [Idle EXCEPT !.pc = to, !.u = u, !.id = i])
      BY <1>6 DEF FindSession
    <2>2. PICK r : r = [Idle EXCEPT !.pc = to, !.u = u, !.id = i]
      OBVIOUS
    <2>3. r \in Handler /\ HandOK(r) /\ r.pc = to
      BY <2>2, FoundHand
    <2>4. Goes(h, r) /\ to \in {"rotate", "logout", "others"}
      BY <2>1, <2>2
    <2> QED BY ONLY <2>3, <2>4
  <1>7. CASE Goes(h, Idle)
    BY <1>7, IdleHand
  <1>8. CASE LoginPass(h)
    <2>1. CASE hand[h].fresh
      BY <1>7, <1>8, <2>1 DEF LoginPass
    <2>2. CASE ~hand[h].fresh
      <3>1. hand[h].u \in Users
        BY <1>8 DEF LoginPass, TypeInv, HandOK
      <3>2. Goes(h, [Idle EXCEPT !.pc = "list", !.u = hand[h].u])
        BY <1>8, <2>2 DEF LoginPass
      <3> QED BY <1>2, <3>1, <3>2
    <2> QED BY <2>1, <2>2
  <1>9. CASE LoginFail(h) \/ ResetWrite(h) \/ RotateSession(h) \/ RevokeMatched(h) \/ Abort(h)
    BY <1>7, <1>9 DEF LoginFail, ResetWrite, RotateSession, RevokeMatched, Abort
  <1> QED BY <1>1, <1>4, <1>5, <1>6, <1>8, <1>9 DEF Reads

\* One that makes room for its session, or finds that there is.
LEMMA ListHand ==
    ASSUME TypeInv, NEW h \in Handlers, ListSessions(h)
    PROVE  LET u == hand[h].u IN
           /\ u \in Users
           /\ \E r \in Handler :
                 /\ HandOK(r) /\ Goes(h, r) /\ r.u = u
                 /\ IF Len(sessions[u]) >= MaxSessions
                    THEN r.pc = "evict" /\ r.old = Oldest(sessions[u])
                    ELSE r.pc = "create"
  <1> DEFINE u == hand[h].u
  <1>1. hand[h] \in Handler /\ HandOK(hand[h]) /\ hand[h].pc = "list"
    BY DEF TypeInv, TypeOK, ListSessions
  <1>2. u \in Users
    BY <1>1 DEF HandOK
  <1>3. CASE Len(sessions[u]) >= MaxSessions
    <2>1. sessions[u] \in Seq(Ids)
      BY <1>2 DEF TypeInv, TypeOK
    <2>2. Oldest(sessions[u]) \in SUBSET Ids
      <3>1. Oldest(sessions[u]) \in SUBSET Range(sessions[u])
        BY <1>3, <2>1, OldestFacts
      <3>2. sessions[u] \in [1..Len(sessions[u]) -> Ids]
        BY <2>1, LenProperties
      <3>3. Range(sessions[u]) \subseteq Ids
        BY <3>2 DEF Range
      <3> QED BY <3>1, <3>3
    <2>3. PICK r : r = [hand[h] EXCEPT !.pc = "evict", !.old = Oldest(sessions[u])]
      OBVIOUS
    <2>4. /\ r \in Handler /\ HandOK(r) /\ r.pc = "evict" /\ r.u = u
          /\ r.old = Oldest(sessions[u])
      BY ONLY <1>1, <2>2, <2>3 DEF Handler, HandOK
    <2>5. Goes(h, r)
      BY <1>3, <2>3 DEF ListSessions
    <2> QED BY <1>2, <1>3, <2>4, <2>5
  <1>4. CASE ~(Len(sessions[u]) >= MaxSessions)
    <2>1. PICK r : r = [hand[h] EXCEPT !.pc = "create"]
      OBVIOUS
    <2>2. r \in Handler /\ HandOK(r) /\ r.pc = "create" /\ r.u = u
      BY <1>1, <2>1, RoomLeftHand
    <2>3. Goes(h, r)
      BY <1>4, <2>1 DEF ListSessions
    <2> QED BY <1>2, <1>4, <2>2, <2>3
  <1> QED BY <1>3, <1>4

LEMMA EvictHand ==
    ASSUME TypeInv, NEW h \in Handlers, EvictSessions(h)
    PROVE  \E r \in Handler : HandOK(r) /\ Goes(h, r) /\ r.u = hand[h].u /\ r.pc = "create"
  <1>1. hand[h] \in Handler /\ HandOK(hand[h]) /\ hand[h].pc = "evict"
    BY DEF TypeInv, TypeOK, EvictSessions
  <1>2. PICK r : r = [hand[h] EXCEPT !.pc = "create", !.old = {}]
    OBVIOUS
  <1>3. r \in Handler /\ HandOK(r) /\ r.pc = "create" /\ r.u = hand[h].u
    BY ONLY <1>1, <1>2 DEF Handler, HandOK
  <1>4. Goes(h, r)
    BY <1>2 DEF EvictSessions
  <1> QED BY <1>3, <1>4

\* The attempts and the lockout of a user are written together.
LEMMA AttemptsWritten ==
    ASSUME TypeInv, NEW u \in Users, NEW n \in 0..MaxAttempts, NEW l \in {"none", "locked"},
           n = MaxAttempts <=> l # "none",
           attempts' = [attempts EXCEPT ![u] = n], lock' = [lock EXCEPT ![u] = l]
    PROVE  /\ attempts' \in [Users -> 0..MaxAttempts]
           /\ lock' \in [Users -> {"none", "locked", "expired"}]
           /\ LockTellsAttempts'
  <1>1. attempts \in [Users -> 0..MaxAttempts] /\ lock \in [Users -> {"none", "locked", "expired"}]
    BY DEF TypeInv, TypeOK
  <1>2. \A v \in Users : /\ attempts'[v] = IF v = u THEN n ELSE attempts[v]
                         /\ lock'[v] = IF v = u THEN l ELSE lock[v]
    BY <1>1
  <1>3. \A v \in Users : attempts[v] = MaxAttempts <=> lock[v] # "none"
    BY DEF TypeInv, LockTellsAttempts
  <1>4. \A v \in Users : attempts'[v] = MaxAttempts <=> lock'[v] # "none"
    BY <1>2, <1>3
  <1> QED BY <1>1, <1>4 DEF LockTellsAttempts

LEMMA AttemptsStep ==
    ASSUME TypeInv, [Next]_vars
    PROVE  /\ attempts' \in [Users -> 0..MaxAttempts]
           /\ lock' \in [Users -> {"none", "locked", "expired"}]
           /\ LockTellsAttempts'
  <1> DEFINE Goal == /\ attempts' \in [Users -> 0..MaxAttempts]
                     /\ lock' \in [Users -> {"none", "locked", "expired"}]
                     /\ LockTellsAttempts'
  <1>1. CASE UNCHANGED <<attempts, lock>>
    BY <1>1 DEF TypeInv, TypeOK, LockTellsAttempts
  <1>2. ASSUME NEW h \in Handlers, LoginFail(h) PROVE Goal
    <2>1. hand[h].u \in Users
      BY <1>2 DEF LoginFail, TypeInv, HandOK
    <2>2. hand[h].base \in 0..(MaxAttempts - 1)
      BY DEF TypeInv, TypeOK, Handler
    <2>3. PICK n : n = hand[h].base + 1
      OBVIOUS
    <2>4. PICK l : l = LockAfter(n)
      OBVIOUS
    <2>5. n \in 0..MaxAttempts /\ l \in {"none", "locked"} /\ (n = MaxAttempts <=> l # "none")
      BY <2>2, <2>3, <2>4, AccountsAssumption DEF LockAfter
    <2>6. attempts' = [attempts EXCEPT ![hand[h].u] = n] /\ lock' = [lock EXCEPT ![hand[h].u] = l]
      BY <1>2, <2>3, <2>4 DEF LoginFail
    <2> QED BY <2>1, <2>5, <2>6, AttemptsWritten
  <1>3. ASSUME NEW h \in Handlers, LoginPass(h) \/ ResetWrite(h) PROVE Goal
    <2>1. hand[h].u \in Users
      BY <1>3 DEF LoginPass, ResetWrite, TypeInv, HandOK
    <2>2. attempts' = [attempts EXCEPT ![hand[h].u] = 0] /\ lock' = [lock EXCEPT ![hand[h].u] = "none"]
      BY <1>3 DEF LoginPass, ResetWrite, AttemptsAfterReset
    <2>3. 0 \in 0..MaxAttempts /\ MaxAttempts # 0
      BY AccountsAssumption
    <2> QED BY <2>1, <2>2, <2>3, AttemptsWritten
  <1>4. ASSUME NEW u \in Users, LockExpires(u) PROVE Goal
    <2>1. /\ lock[u] = "locked" /\ attempts' = attempts
          /\ lock' = [lock EXCEPT ![u] = "expired"]
      BY <1>4 DEF LockExpires
    <2>2. /\ attempts \in [Users -> 0..MaxAttempts]
          /\ lock \in [Users -> {"none", "locked", "expired"}]
      BY DEF TypeInv, TypeOK
    <2>3. \A v \in Users : lock'[v] = IF v = u THEN "expired" ELSE lock[v]
      BY <2>1, <2>2
    <2>4. \A v \in Users : attempts[v] = MaxAttempts <=> lock[v] # "none"
      BY DEF TypeInv, LockTellsAttempts
    <2>5. LockTellsAttempts'
      BY <2>1, <2>3, <2>4 DEF LockTellsAttempts
    <2> QED BY <2>1, <2>2, <2>5
  <1>5. ASSUME NEW h \in Handlers,
               \/ LoginRead(h) \/ SetupNewPassword(h) \/ ResetRead(h) \/ AuthorizeQr(h)
               \/ FindSession(h) \/ ListSessions(h) \/ EvictSessions(h) \/ CreateSession(h)
               \/ RotateSession(h) \/ RevokeMatched(h) \/ Abort(h)
        PROVE  UNCHANGED <<attempts, lock>>
    BY <1>5 DEF LoginRead, SetupNewPassword, ResetRead, AuthorizeQr, FindSession, ListSessions,
                EvictSessions, CreateSession, RotateSession, RevokeMatched, Abort
  <1>6. ASSUME NEW u \in Users,
               \/ RequestPasswordReset(u) \/ AdminReset(u) \/ Deactivate(u) \/ Reactivate(u)
               \/ RevokeSessions(u)
        PROVE  UNCHANGED <<attempts, lock>>
    BY <1>6 DEF RequestPasswordReset, AdminReset, Deactivate, Reactivate, RevokeSessions
  <1>7. CASE TokensExpire \/ UNCHANGED vars
    BY <1>1, <1>7 DEF TokensExpire, vars
  <1> QED BY <1>1, <1>2, <1>3, <1>4, <1>5, <1>6, <1>7 DEF Next, Step

\* A step is that of one request, or leaves the requests alone.
LEMMA HandsStep ==
    ASSUME TypeInv, [Next]_vars
    PROVE  \/ UNCHANGED hand
           \/ \E h \in Handlers :
                 Reads(h) \/ ListSessions(h) \/ EvictSessions(h) \/ CreateSession(h)
  BY DEF Next, Step, Reads, LockExpires, RequestPasswordReset, AdminReset, Deactivate,
         Reactivate, RevokeSessions, TokensExpire, vars

LEMMA TypeStep == TypeInv /\ [Next]_vars => TypeInv'
  <1> SUFFICES ASSUME TypeInv, [Next]_vars PROVE TypeInv'
    OBVIOUS
  <1>1. hand' \in [Handlers -> Handler] /\ \A g \in Handlers : HandOK(hand'[g])
    <2>1. CASE UNCHANGED hand
      BY <2>1 DEF TypeInv, TypeOK
    <2>2. ASSUME NEW h \in Handlers,
                 Reads(h) \/ ListSessions(h) \/ EvictSessions(h) \/ CreateSession(h)
          PROVE  \E r \in Handler : HandOK(r) /\ Goes(h, r)
      BY <2>2, ReadsHand, ListHand, EvictHand, IdleHand DEF CreateSession
    <2> QED BY <2>1, <2>2, HandsStep, HandGoes
  <1>2. sessions' \in [Users -> Seq(Ids)]
    <2>1. ASSUME NEW h \in Handlers, NEW i \in Ids, Adds(h, i)
          PROVE  sessions' \in [Users -> Seq(Ids)]
      BY <2>1, SessionAdded
    <2> QED BY <2>1, SessionsStep DEF Shrink
  <1>3. /\ active' \in SUBSET Users /\ fresh' \in SUBSET Users
        /\ code' \in SUBSET Users /\ setup' \in SUBSET Users
    <2>1. /\ active \in SUBSET Users /\ fresh \in SUBSET Users
          /\ code \in SUBSET Users /\ setup \in SUBSET Users
      BY DEF TypeInv, TypeOK
    <2>2. CASE UNCHANGED account
      BY <2>1, <2>2 DEF account
    <2>3. ASSUME NEW h \in Handlers, LoginPass(h) PROVE setup' \in SUBSET Users
      <3>1. hand[h].u \in Users
        BY <2>3 DEF LoginPass, TypeInv, HandOK
      <3> QED BY <2>1, <2>3, <3>1 DEF LoginPass
    <2>4. ASSUME NEW h \in Handlers, LoginPass(h) PROVE UNCHANGED <<active, fresh, code>>
      BY <2>4 DEF LoginPass
    <2>5. ASSUME NEW h \in Handlers, SetupNewPassword(h) \/ ResetWrite(h)
          PROVE  /\ active' = active /\ setup' = setup
                 /\ fresh' \in SUBSET fresh /\ code' \in SUBSET code
      BY <2>5 DEF SetupNewPassword, ResetWrite
    <2>6. ASSUME NEW h \in Handlers,
                 \/ LoginRead(h) \/ ResetRead(h) \/ AuthorizeQr(h) \/ FindSession(h)
                 \/ LoginFail(h) \/ ListSessions(h) \/ EvictSessions(h) \/ CreateSession(h)
                 \/ RotateSession(h) \/ RevokeMatched(h) \/ Abort(h)
          PROVE  UNCHANGED account
      BY <2>6 DEF LoginRead, ResetRead, AuthorizeQr, FindSession, LoginFail, ListSessions,
                  EvictSessions, CreateSession, RotateSession, RevokeMatched, Abort
    <2>7. ASSUME NEW u \in Users,
                 \/ LockExpires(u) \/ RequestPasswordReset(u) \/ AdminReset(u)
                 \/ Deactivate(u) \/ Reactivate(u) \/ RevokeSessions(u)
          PROVE  /\ active' \in SUBSET (active \cup {u}) /\ fresh' \in SUBSET (fresh \cup {u})
                 /\ code' \in SUBSET (code \cup {u}) /\ setup' = setup
      BY <2>7 DEF LockExpires, RequestPasswordReset, AdminReset, Deactivate, Reactivate,
                  RevokeSessions, account
    <2>8. CASE TokensExpire \/ UNCHANGED vars
      BY <2>1, <2>8 DEF TokensExpire, vars
    <2> QED BY <2>1, <2>2, <2>3, <2>4, <2>5, <2>6, <2>7, <2>8 DEF Next, Step
  <1> QED BY <1>1, <1>2, <1>3, AttemptsStep DEF TypeInv, TypeOK

\* The columns, the sessions and the requests are of their types.
THEOREM TypeCorrect == Spec => []TypeOK
  <1>1. TypeInv => TypeOK
    BY DEF TypeInv
  <1> QED BY TypeInit, TypeStep, <1>1, PTL DEF Spec

\* LockTellsAttempts, for any users, requests and limits.
THEOREM LocksTellAttempts == Spec => []LockTellsAttempts
  <1>1. TypeInv => LockTellsAttempts
    BY DEF TypeInv
  <1> QED BY TypeInit, TypeStep, <1>1, PTL DEF Spec

\* NoSessionComesBack: the only session that a user gets is one that nobody has
\* found before.
THEOREM RevokedSessionsStay == Spec => NoSessionComesBack
  <1> DEFINE New == \A u \in Users, i \in Ids :
                       Has(u, i)' /\ ~Has(u, i) => \A h \in Handlers : hand[h].id # i
  <1>1. ASSUME TypeInv, [Next]_vars PROVE New
    <2>1. \A u \in Users, i \in Ids : /\ Has(u, i) <=> i \in Range(sessions[u])
                                      /\ Has(u, i)' <=> i \in Range(sessions'[u])
      BY DEF Has, Range
    <2>2. CASE Shrink
      BY <2>1, <2>2 DEF Shrink, Shrinks
    <2>3. ASSUME NEW g \in Handlers, NEW j \in Ids, Adds(g, j)
          PROVE  New
      <3>1. /\ hand[g].u \in Users
            /\ Range(sessions'[hand[g].u]) = Range(sessions[hand[g].u]) \cup {j}
            /\ \A v \in Users : v # hand[g].u => sessions'[v] = sessions[v]
        BY <1>1, <2>3, SessionAdded
      <3>2. \A h \in Handlers : hand[h].id # j
        BY <2>3 DEF Adds, InUse
      <3>3. \A u \in Users, i \in Ids : Has(u, i)' /\ ~Has(u, i) => i = j
        BY <2>1, <3>1
      <3> QED BY <3>2, <3>3
    <2> QED BY <1>1, <2>2, <2>3, SessionsStep
  <1>2. TypeInv /\ [Next]_vars => [New]_vars
    BY <1>1
  <1> QED BY TypeInit, TypeStep, <1>2, PTL DEF Spec, NoSessionComesBack

-----------------------------------------------------------------------------
(***************************************************************************)
(* The limit of sessions                                                   *)
(*                                                                         *)
(* Neither the sessions nor the requests can be counted alone: a request   *)
(* that has listed the sessions has yet to delete the oldest and to add    *)
(* its own.  Whichever of the deletions to come are done, the sessions     *)
(* that they leave and the requests that add one are within the budget.    *)
(***************************************************************************)
At(pc, u) == {h \in Handlers : hand[h].pc = pc /\ hand[h].u = u}

\* What the requests in E are to delete, and the sessions of u that are left.
Evicted(E) == UNION {hand[h].old : h \in E}
Left(u, E) == Range(sessions[u]) \ Evicted(E)

Budget(u) ==
    \A E \in SUBSET At("evict", u) :
        Cardinality(Left(u, E)) + Cardinality(At("create", u)) + Cardinality(E)
          <= MaxSessions - 1 + Cardinality(Handlers)

SessionsInv == TypeInv /\ \A u \in Users : IsInjective(sessions[u]) /\ Budget(u)

LEMMA HandlersFinite ==
    ASSUME NEW H \in SUBSET Handlers
    PROVE  IsFiniteSet(H) /\ Cardinality(H) \in Nat /\ Cardinality(Handlers) \in Nat
  <1>1. IsFiniteSet(H)
    BY AccountsAssumption, FS_Subset
  <1> QED BY <1>1, AccountsAssumption, FS_CardinalityType

\* The requests of two groups that have none in common are not more than all.
LEMMA GroupsApart ==
    ASSUME NEW C \in SUBSET Handlers, NEW E \in SUBSET Handlers, C \cap E = {}
    PROVE  Cardinality(C) + Cardinality(E) <= Cardinality(Handlers)
  <1>1. IsFiniteSet(C) /\ IsFiniteSet(E) /\ Cardinality(C) \in Nat /\ Cardinality(E) \in Nat
    BY HandlersFinite
  <1>2. Cardinality(C \cup E) = Cardinality(C) + Cardinality(E) - Cardinality(C \cap E)
    BY <1>1, FS_Union
  <1>3. Cardinality(C \cap E) = 0
    BY FS_EmptySet
  <1>4. C \cup E \in SUBSET Handlers
    OBVIOUS
  <1>5. Cardinality(C \cup E) <= Cardinality(Handlers)
    BY <1>4, AccountsAssumption, FS_Subset
  <1> QED BY <1>1, <1>2, <1>3, <1>5

LEMMA LeftFinite ==
    ASSUME TypeInv, NEW u \in Users, NEW E
    PROVE  IsFiniteSet(Left(u, E)) /\ Cardinality(Left(u, E)) \in Nat
  <1>1. sessions[u] \in Seq(Ids)
    BY DEF TypeInv, TypeOK
  <1>2. IsFiniteSet(Range(sessions[u]))
    BY <1>1, LenIsCardinality
  <1>3. Left(u, E) \in SUBSET Range(sessions[u])
    BY DEF Left
  <1> QED BY <1>2, <1>3, FS_Subset, FS_CardinalityType

\* A finite set that is not larger.
LEMMA SubsetCounts ==
    ASSUME NEW S, IsFiniteSet(S), NEW T \in SUBSET S
    PROVE  Cardinality(T) \in Nat /\ Cardinality(S) \in Nat /\ Cardinality(T) <= Cardinality(S)
  BY FS_Subset, FS_CardinalityType

\* A user has no more sessions than before, and no more requests under way.
LEMMA BudgetStays ==
    ASSUME SessionsInv, NEW u \in Users, Range(sessions'[u]) \subseteq Range(sessions[u]),
           \A g \in Handlers : \/ hand'[g] = hand[g]
                               \/ hand'[g].pc \notin {"evict", "create"}
                               \/ hand'[g].u # u
    PROVE  Budget(u)'
  <1> SUFFICES ASSUME NEW E \in SUBSET (At("evict", u)')
               PROVE  Cardinality(Left(u, E)') + Cardinality(At("create", u)') + Cardinality(E)
                        <= MaxSessions - 1 + Cardinality(Handlers)
    BY DEF Budget
  <1>1. \A h \in E : h \in At("evict", u) /\ hand'[h] = hand[h]
    BY DEF At
  <1>2. E \in SUBSET At("evict", u)
    BY <1>1
  <1>3. Left(u, E)' \in SUBSET Left(u, E)
    BY <1>1 DEF Left, Evicted
  <1>4. At("create", u)' \in SUBSET At("create", u)
    BY DEF At
  <1>5. Cardinality(Left(u, E)) + Cardinality(At("create", u)) + Cardinality(E)
          <= MaxSessions - 1 + Cardinality(Handlers)
    BY <1>2 DEF SessionsInv, Budget
  <1>6. /\ Cardinality(Left(u, E)') \in Nat /\ Cardinality(Left(u, E)) \in Nat
        /\ Cardinality(Left(u, E)') <= Cardinality(Left(u, E))
    BY <1>3, LeftFinite, SubsetCounts DEF SessionsInv
  <1>7. At("create", u) \in SUBSET Handlers /\ E \in SUBSET Handlers
    BY <1>2 DEF At
  <1>8. /\ Cardinality(At("create", u)') \in Nat /\ Cardinality(At("create", u)) \in Nat
        /\ Cardinality(At("create", u)') <= Cardinality(At("create", u))
    BY <1>4, <1>7, HandlersFinite, SubsetCounts
  <1>9. Cardinality(E) \in Nat /\ Cardinality(Handlers) \in Nat
    BY <1>7, HandlersFinite
  <1> QED BY <1>5, <1>6, <1>8, <1>9, AccountsAssumption

\* One request of a user that lists the sessions: either there is room, or it
\* deletes so many that there is.
LEMMA BudgetAfterList ==
    ASSUME SessionsInv, NEW h \in Handlers, ListSessions(h), NEW u \in Users
    PROVE  Budget(u)'
  <1>1. TypeInv
    BY DEF SessionsInv
  <1>2. sessions' = sessions /\ hand[h].pc = "list"
    BY DEF ListSessions
  <1>3. PICK r \in Handler :
           /\ HandOK(r) /\ Goes(h, r) /\ r.u = hand[h].u
           /\ IF Len(sessions[hand[h].u]) >= MaxSessions
              THEN r.pc = "evict" /\ r.old = Oldest(sessions[hand[h].u])
              ELSE r.pc = "create"
    BY <1>1, ListHand
  <1>4. \A g \in Handlers : hand'[g] = IF g = h THEN r ELSE hand[g]
    BY <1>1, <1>3, HandGoes
  <1>5. CASE hand[h].u # u
    <2>1. \A g \in Handlers : hand'[g] = hand[g] \/ hand'[g].u # u
      BY <1>3, <1>4, <1>5
    <2> QED BY <1>2, <2>1, BudgetStays
  <1>6. CASE hand[h].u = u
    <2> SUFFICES ASSUME NEW E \in SUBSET (At("evict", u)')
                 PROVE  Cardinality(Left(u, E)') + Cardinality(At("create", u)') + Cardinality(E)
                          <= MaxSessions - 1 + Cardinality(Handlers)
      BY DEF Budget
    <2>1. sessions[u] \in Seq(Ids) /\ IsInjective(sessions[u])
      BY <1>1 DEF SessionsInv, TypeInv, TypeOK
    <2>2. /\ IsFiniteSet(Range(sessions[u])) /\ Len(sessions[u]) = Cardinality(Range(sessions[u]))
          /\ Len(sessions[u]) \in Nat
      BY <2>1, LenIsCardinality, LenProperties
    <2>3. /\ At("create", u)' \in SUBSET Handlers /\ E \in SUBSET Handlers
          /\ At("create", u)' \cap E = {}
      BY DEF At
    <2>4. Cardinality(At("create", u)') + Cardinality(E) <= Cardinality(Handlers)
      BY <2>3, GroupsApart
    <2>5. /\ Cardinality(At("create", u)') \in Nat /\ Cardinality(E) \in Nat
          /\ Cardinality(Handlers) \in Nat /\ MaxSessions \in Nat
      BY <2>3, HandlersFinite, AccountsAssumption
    <2>6. CASE Len(sessions[u]) < MaxSessions
      <3>1. Left(u, E)' \in SUBSET Range(sessions[u])
        BY <1>2 DEF Left
      <3>2. /\ Cardinality(Left(u, E)') \in Nat
            /\ Cardinality(Left(u, E)') <= Cardinality(Range(sessions[u]))
        BY <2>2, <3>1, SubsetCounts
      <3> QED BY <2>2, <2>4, <2>5, <2>6, <3>2
    <2>7. CASE Len(sessions[u]) >= MaxSessions /\ h \in E
      <3>1. r.old = Oldest(sessions[u])
        BY <1>3, <1>6, <2>7
      <3>2. /\ IsFiniteSet(Range(sessions[u]) \ Oldest(sessions[u]))
            /\ Cardinality(Range(sessions[u]) \ Oldest(sessions[u])) <= MaxSessions - 1
        BY <2>1, <2>7, OldestFacts
      <3>3. Oldest(sessions[u]) \subseteq Evicted(E)'
        BY <1>4, <2>7, <3>1 DEF Evicted
      <3>4. Left(u, E)' \in SUBSET (Range(sessions[u]) \ Oldest(sessions[u]))
        BY <1>2, <3>3 DEF Left
      <3>5. /\ Cardinality(Left(u, E)') \in Nat
            /\ Cardinality(Range(sessions[u]) \ Oldest(sessions[u])) \in Nat
            /\ Cardinality(Left(u, E)') <= Cardinality(Range(sessions[u]) \ Oldest(sessions[u]))
        BY <3>2, <3>4, SubsetCounts
      <3> QED BY <2>4, <2>5, <3>2, <3>5
    <2>8. CASE Len(sessions[u]) >= MaxSessions /\ h \notin E
      <3>1. r.pc = "evict"
        BY <1>3, <1>6, <2>8
      <3>2. E \in SUBSET At("evict", u) /\ \A g \in E : hand'[g] = hand[g]
        BY <1>4, <2>8 DEF At
      <3>3. At("create", u)' = At("create", u)
        BY <1>2, <1>4, <3>1 DEF At
      <3>4. Left(u, E)' = Left(u, E)
        BY <1>2, <3>2 DEF Left, Evicted
      <3> QED BY <3>2, <3>3, <3>4 DEF SessionsInv, Budget
    <2> QED BY <2>2, <2>5, <2>6, <2>7, <2>8
  <1> QED BY <1>5, <1>6

\* One that deletes what it had listed: it counts as the session it will add.
LEMMA BudgetAfterEvict ==
    ASSUME SessionsInv, NEW h \in Handlers, EvictSessions(h), NEW u \in Users
    PROVE  Budget(u)'
  <1>1. TypeInv /\ sessions \in [Users -> Seq(Ids)]
    BY DEF SessionsInv, TypeInv, TypeOK
  <1>2. /\ hand[h].pc = "evict"
        /\ sessions' = [sessions EXCEPT ![hand[h].u] = Without(hand[h].u, hand[h].old)]
    BY DEF EvictSessions
  <1>3. PICK r \in Handler : HandOK(r) /\ Goes(h, r) /\ r.u = hand[h].u /\ r.pc = "create"
    BY <1>1, EvictHand
  <1>4. \A g \in Handlers : hand'[g] = IF g = h THEN r ELSE hand[g]
    BY <1>1, <1>3, HandGoes
  <1>5. CASE hand[h].u # u
    <2>1. \A g \in Handlers : hand'[g] = hand[g] \/ hand'[g].u # u
      BY <1>3, <1>4, <1>5
    <2>2. sessions'[u] = sessions[u]
      BY <1>1, <1>2, <1>5
    <2> QED BY <2>1, <2>2, BudgetStays
  <1>6. CASE hand[h].u = u
    <2> SUFFICES ASSUME NEW E \in SUBSET (At("evict", u)')
                 PROVE  Cardinality(Left(u, E)') + Cardinality(At("create", u)') + Cardinality(E)
                          <= MaxSessions - 1 + Cardinality(Handlers)
      BY DEF Budget
    <2>1. sessions'[u] = Without(u, hand[h].old)
      BY <1>1, <1>2, <1>6
    <2>2. Range(sessions'[u]) = Range(sessions[u]) \ hand[h].old
      BY <1>1, <2>1, WithoutFacts
    <2>3. h \notin E /\ \A g \in E : g \in At("evict", u) /\ hand'[g] = hand[g]
      BY <1>3, <1>4 DEF At
    <2>4. E \cup {h} \in SUBSET At("evict", u)
      BY <1>2, <1>6, <2>3 DEF At
    <2>5. Left(u, E)' = Left(u, E \cup {h})
      <3>1. Evicted(E)' = UNION {hand[g].old : g \in E}
        BY <2>3 DEF Evicted
      <3> QED BY <2>2, <3>1 DEF Left, Evicted
    <2>6. At("create", u)' = At("create", u) \cup {h} /\ h \notin At("create", u)
      BY <1>2, <1>3, <1>4, <1>6 DEF At
    <2>7. At("create", u) \in SUBSET Handlers /\ E \in SUBSET Handlers
      BY <2>3 DEF At
    <2>8. /\ IsFiniteSet(At("create", u)) /\ Cardinality(At("create", u)) \in Nat
          /\ IsFiniteSet(E) /\ Cardinality(E) \in Nat
      BY <2>7, HandlersFinite
    <2>9. /\ Cardinality(At("create", u) \cup {h}) = Cardinality(At("create", u)) + 1
          /\ Cardinality(E \cup {h}) = Cardinality(E) + 1
      BY <2>3, <2>6, <2>8, FS_AddElement
    <2>10. Cardinality(Left(u, E \cup {h})) \in Nat
      BY <1>1, LeftFinite
    <2>11. Cardinality(Left(u, E \cup {h})) + Cardinality(At("create", u)) + Cardinality(E \cup {h})
             <= MaxSessions - 1 + Cardinality(Handlers)
      BY <2>4 DEF SessionsInv, Budget
    <2>12. /\ Cardinality(Left(u, E)') = Cardinality(Left(u, E \cup {h}))
           /\ Cardinality(At("create", u)') = Cardinality(At("create", u)) + 1
      BY <2>5, <2>6, <2>9
    <2>13. Cardinality(Handlers) \in Nat /\ MaxSessions \in Nat
      BY <2>7, HandlersFinite, AccountsAssumption
    <2> QED BY ONLY <2>8, <2>9, <2>10, <2>11, <2>12, <2>13
  <1> QED BY <1>5, <1>6

\* One that adds its session, and is done.
LEMMA BudgetAfterAdd ==
    ASSUME SessionsInv, NEW h \in Handlers, NEW i \in Ids, Adds(h, i), NEW u \in Users
    PROVE  Budget(u)'
  <1>1. TypeInv
    BY DEF SessionsInv
  <1>2. /\ Range(sessions'[hand[h].u]) = Range(sessions[hand[h].u]) \cup {i}
        /\ \A v \in Users : v # hand[h].u => sessions'[v] = sessions[v]
    BY <1>1, SessionAdded
  <1>3. hand[h].pc = "create" /\ \A g \in Handlers : hand'[g] = IF g = h THEN Idle ELSE hand[g]
    BY <1>1, IdleHand, HandGoes DEF Adds
  <1>4. Idle.pc = "idle"
    BY IdleHand
  <1>5. CASE hand[h].u # u
    <2>1. \A g \in Handlers : hand'[g] = hand[g] \/ hand'[g].pc \notin {"evict", "create"}
      BY <1>3, <1>4
    <2>2. sessions'[u] = sessions[u]
      BY <1>2, <1>5
    <2> QED BY <2>1, <2>2, BudgetStays
  <1>6. CASE hand[h].u = u
    <2> SUFFICES ASSUME NEW E \in SUBSET (At("evict", u)')
                 PROVE  Cardinality(Left(u, E)') + Cardinality(At("create", u)') + Cardinality(E)
                          <= MaxSessions - 1 + Cardinality(Handlers)
      BY DEF Budget
    <2>1. \A g \in E : g \in At("evict", u) /\ hand'[g] = hand[g]
      BY <1>3, <1>4 DEF At
    <2>2. E \in SUBSET At("evict", u)
      BY <2>1
    <2>3. Evicted(E)' = Evicted(E)
      BY <2>1 DEF Evicted
    <2>4. Left(u, E)' \in SUBSET (Left(u, E) \cup {i})
      BY <1>2, <1>6, <2>3 DEF Left
    <2>5. IsFiniteSet(Left(u, E)) /\ Cardinality(Left(u, E)) \in Nat
      BY <1>1, LeftFinite
    <2>6. /\ IsFiniteSet(Left(u, E) \cup {i})
          /\ Cardinality(Left(u, E) \cup {i}) <= Cardinality(Left(u, E)) + 1
      <3>1. /\ IsFiniteSet(Left(u, E) \cup {i})
            /\ Cardinality(Left(u, E) \cup {i})
                 = IF i \in Left(u, E) THEN Cardinality(Left(u, E)) ELSE Cardinality(Left(u, E)) + 1
        BY <2>5, FS_AddElement
      <3> QED BY <2>5, <3>1
    <2>7. /\ Cardinality(Left(u, E)') \in Nat
          /\ Cardinality(Left(u, E) \cup {i}) \in Nat
          /\ Cardinality(Left(u, E)') <= Cardinality(Left(u, E) \cup {i})
      BY <2>4, <2>6, SubsetCounts
    <2>8. At("create", u)' = At("create", u) \ {h} /\ h \in At("create", u)
      BY <1>3, <1>4, <1>6 DEF At
    <2>9. At("create", u) \in SUBSET Handlers /\ E \in SUBSET Handlers
      BY <2>2 DEF At
    <2>10. /\ IsFiniteSet(At("create", u)) /\ Cardinality(At("create", u)) \in Nat
           /\ Cardinality(E) \in Nat /\ Cardinality(Handlers) \in Nat
      BY <2>9, HandlersFinite
    <2>11. Cardinality(At("create", u) \ {h}) = Cardinality(At("create", u)) - 1
      BY <2>8, <2>10, FS_RemoveElement
    <2>12. Cardinality(Left(u, E)) + Cardinality(At("create", u)) + Cardinality(E)
             <= MaxSessions - 1 + Cardinality(Handlers)
      BY <2>2 DEF SessionsInv, Budget
    <2>13. Cardinality(At("create", u)') = Cardinality(At("create", u)) - 1
      BY <2>8, <2>11
    <2>14. MaxSessions \in Nat
      BY AccountsAssumption
    <2> QED BY ONLY <2>5, <2>6, <2>7, <2>10, <2>12, <2>13, <2>14
  <1> QED BY <1>5, <1>6

LEMMA SessionsInit == Init => SessionsInv
  <1> SUFFICES ASSUME Init PROVE SessionsInv
    OBVIOUS
  <1>1. TypeInv
    BY TypeInit
  <1>2. \A h \in Handlers : hand[h].pc = "idle"
    BY IdleHand DEF Init
  <1>3. ASSUME NEW u \in Users PROVE IsInjective(sessions[u]) /\ Budget(u)
    <2>1. sessions[u] = <<>>
      BY DEF Init
    <2>2. IsInjective(sessions[u]) /\ Range(sessions[u]) = {}
      BY <2>1 DEF IsInjective, Range
    <2>3. At("create", u) = {} /\ At("evict", u) = {}
      BY <1>2 DEF At
    <2>4. \A E \in SUBSET At("evict", u) : E = {} /\ Left(u, E) = {}
      BY <2>2, <2>3 DEF Left
    <2>5. Cardinality({}) = 0 /\ Cardinality(Handlers) \in Nat
      BY FS_EmptySet, HandlersFinite
    <2>6. 0 + 0 + 0 <= MaxSessions - 1 + Cardinality(Handlers)
      BY <2>5, AccountsAssumption
    <2> QED BY <2>2, <2>3, <2>4, <2>5, <2>6 DEF Budget
  <1> QED BY <1>1, <1>3 DEF SessionsInv

LEMMA SessionsInvStep == SessionsInv /\ [Next]_vars => SessionsInv'
  <1> SUFFICES ASSUME SessionsInv, [Next]_vars PROVE SessionsInv'
    OBVIOUS
  <1>1. TypeInv /\ TypeInv'
    BY TypeStep DEF SessionsInv
  <1>2. ASSUME NEW u \in Users PROVE IsInjective(sessions'[u])
    <2>1. IsInjective(sessions[u])
      BY DEF SessionsInv
    <2>2. ASSUME NEW h \in Handlers, NEW i \in Ids, Adds(h, i) PROVE IsInjective(sessions'[u])
      <3>1. CASE hand[h].u = u
        BY <1>1, <2>1, <2>2, <3>1, SessionAdded
      <3>2. CASE hand[h].u # u
        BY <1>1, <2>1, <2>2, <3>2, SessionAdded
      <3> QED BY <3>1, <3>2
    <2> QED BY <1>1, <2>1, <2>2, SessionsStep DEF Shrink, Shrinks
  <1>3. ASSUME NEW u \in Users PROVE Budget(u)'
    <2>1. ASSUME NEW h \in Handlers, ListSessions(h) PROVE Budget(u)'
      BY <2>1, BudgetAfterList
    <2>2. ASSUME NEW h \in Handlers, EvictSessions(h) PROVE Budget(u)'
      BY <2>2, BudgetAfterEvict
    <2>3. ASSUME NEW h \in Handlers, NEW i \in Ids, Adds(h, i) PROVE Budget(u)'
      BY <2>3, BudgetAfterAdd
    <2>4. ASSUME Shrink, NEW h \in Handlers, Reads(h) PROVE Budget(u)'
      <3>1. PICK r \in Handler : HandOK(r) /\ r.pc \notin {"evict", "create"} /\ Goes(h, r)
        BY <1>1, <2>4, ReadsHand
      <3>2. \A g \in Handlers : hand'[g] = IF g = h THEN r ELSE hand[g]
        BY <1>1, <3>1, HandGoes
      <3>3. \A g \in Handlers : hand'[g] = hand[g] \/ hand'[g].pc \notin {"evict", "create"}
        BY <3>1, <3>2
      <3> QED BY <2>4, <3>3, BudgetStays DEF Shrink, Shrinks
    <2>5. CASE Shrink /\ UNCHANGED hand
      BY <2>5, BudgetStays DEF Shrink, Shrinks
    <2>6. ASSUME NEW h \in Handlers, CreateSession(h) PROVE \E i \in Ids : Adds(h, i)
      BY <2>6 DEF CreateSession, Adds
    <2> QED BY <1>1, <2>1, <2>2, <2>3, <2>4, <2>5, <2>6, SessionsStep, HandsStep
  <1> QED BY <1>1, <1>2, <1>3 DEF SessionsInv

\* SessionsBounded, for any number of requests and any limit: the sessions of a
\* user are at most the limit and the requests that run beside the last one.
THEOREM SessionsStayBounded == Spec => []SessionsBounded
  <1>1. SessionsInv => SessionsBounded
    <2> SUFFICES ASSUME SessionsInv, NEW u \in Users
                 PROVE  /\ Len(sessions[u]) <= MaxSessions + Cardinality(Handlers) - 1
                        /\ IsInjective(sessions[u])
      BY DEF SessionsBounded
    <2>1. TypeInv /\ IsInjective(sessions[u]) /\ Budget(u)
      BY DEF SessionsInv
    <2>2. sessions[u] \in Seq(Ids)
      BY <2>1 DEF TypeInv, TypeOK
    <2>3. Len(sessions[u]) = Cardinality(Range(sessions[u])) /\ Len(sessions[u]) \in Nat
      BY <2>1, <2>2, LenIsCardinality, LenProperties
    <2>4. Left(u, {}) = Range(sessions[u])
      BY DEF Left, Evicted
    <2>5. Cardinality(Left(u, {})) + Cardinality(At("create", u)) + Cardinality({})
            <= MaxSessions - 1 + Cardinality(Handlers)
      BY <2>1 DEF Budget
    <2>6. Cardinality(At("create", u)) \in Nat /\ Cardinality(Handlers) \in Nat
      <3>1. At("create", u) \in SUBSET Handlers
        BY DEF At
      <3> QED BY <3>1, HandlersFinite
    <2>7. Cardinality({}) = 0
      BY FS_EmptySet
    <2> QED BY <2>1, <2>3, <2>4, <2>5, <2>6, <2>7, AccountsAssumption
  <1> QED BY SessionsInit, SessionsInvStep, <1>1, PTL DEF Spec
===============================================================================
