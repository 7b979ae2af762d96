----------------------------- MODULE ReplayProofs -----------------------------
(***************************************************************************)
(* Proofs for the REPLAY game: no activity of a durable level is lost with *)
(* the tab - for any levels, chaos, orb values, keys, page loads and       *)
(* number of ticks.                                                        *)
(*                                                                         *)
(* The engine's folds are unfolded step by step (a least counterexample    *)
(* stands in for induction), which gives the shape of what a tick returns. *)
(* The invariant of the game, GameOK, says what each part of it is made of *)
(* and that the stored save covers the history.                            *)
(***************************************************************************)
EXTENDS ReplayGame, FiniteSetTheorems, WellFoundedInduction, TLAPS

-----------------------------------------------------------------------------
(* Numbers. *)

\* A set of numbers has a least one.
LEMMA LeastNat ==
  ASSUME NEW T, T \subseteq Nat, T # {}
  PROVE  \E m \in T : \A x \in T : m <= x
<1> DEFINE R == OpToRel(<, Nat)
<1>1. IsWellFoundedOn(R, Nat)
  BY NatLessThanWellFounded
<1>2. ASSUME NEW x \in Nat, NEW y \in Nat, x < y PROVE <<x, y>> \in R
  BY <1>2 DEF OpToRel
<1> HIDE DEF R
<1>3. PICK m \in T : \A y \in T : ~ (<<y, m>> \in R)
  BY <1>1, WFMin
<1>4. ASSUME NEW x \in T PROVE m <= x
  <2>1. x \in Nat /\ m \in Nat /\ ~(<<x, m>> \in R)
    BY <1>3
  <2> QED
    BY <1>2, <2>1
<1> QED
  BY <1>4

\* A set of numbers with a bound has a greatest one.
LEMMA GreatestNat ==
  ASSUME NEW T, NEW n \in Nat, T \subseteq 1..n, T # {}
  PROVE  \E m \in T : \A x \in T : x <= m
<1> DEFINE B == {m \in Nat : \A x \in T : x <= m}
<1>1. B \subseteq Nat /\ n \in B
  OBVIOUS
<1>2. PICK m \in B : \A x \in B : m <= x
  BY <1>1, LeastNat
<1>3. m \in Nat /\ \A x \in T : x <= m
  BY <1>2
<1>4. m \in T
  <2> SUFFICES ASSUME m \notin T PROVE FALSE
    OBVIOUS
  <2>1. PICK x \in T : TRUE
    OBVIOUS
  <2>2. m - 1 \in Nat
    BY <1>3, <2>1
  <2>3. \A y \in T : y <= m - 1
    BY <1>3
  <2>4. m - 1 \in B
    BY <2>2, <2>3
  <2> HIDE DEF B
  <2> QED
    BY <1>2, <1>3, <2>4
<1> QED
  BY <1>3, <1>4

\* How many members of X lie from m to n.
Cnt(X, m, n) == Cardinality(X \cap (m..n))

\* The count over no interval, and over one number more.
LEMMA CntSteps ==
  ASSUME NEW X, NEW m \in Int, NEW n \in Int
  PROVE  /\ Cnt(X, m, n) \in Nat
         /\ n < m => Cnt(X, m, n) = 0
         /\ m <= n + 1 /\ n + 1 \in X => Cnt(X, m, n + 1) = Cnt(X, m, n) + 1
         /\ m <= n + 1 /\ n + 1 \notin X => Cnt(X, m, n + 1) = Cnt(X, m, n)
<1> DEFINE Y == X \cap (m..n)
           Z == X \cap (m..(n + 1))
<1>1. IsFiniteSet(m..n)
  BY FS_Interval
<1>2. Y \subseteq m..n
  OBVIOUS
<1>3. IsFiniteSet(Y)
  <2> HIDE DEF Y
  <2> QED
    BY <1>1, <1>2, FS_Subset
<1>4. n < m => Y = {}
  OBVIOUS
<1>5. m <= n + 1 /\ n + 1 \in X => Z = Y \cup {n + 1}
  OBVIOUS
<1>6. m <= n + 1 /\ n + 1 \notin X => Z = Y
  OBVIOUS
<1>7. n + 1 \notin Y
  OBVIOUS
<1> HIDE DEF Y, Z
<1>8. Cardinality(Y) \in Nat
  BY <1>3, FS_CardinalityType
<1>9. Cardinality(Y \cup {n + 1}) = Cardinality(Y) + 1
  BY <1>3, <1>7, FS_AddElement
<1>10. Y = {} => Cardinality(Y) = 0
  BY FS_EmptySet
<1> QED
  BY <1>4, <1>5, <1>6, <1>8, <1>9, <1>10 DEF Cnt, Y, Z

-----------------------------------------------------------------------------
(* Sequences of anything. *)

IsSeq(x) == Len(x) \in Nat /\ x = [k \in 1..Len(x) |-> x[k]]

\* A function on the first n numbers is a sequence.
LEMMA FcnSeq ==
  ASSUME NEW n \in Nat, NEW f, f = [k \in 1..n |-> f[k]]
  PROVE  IsSeq(f) /\ Len(f) = n /\ DOMAIN f = 1..n
<1> DEFINE V == {f[k] : k \in 1..n}
<1>1. f \in [1..n -> V]
  OBVIOUS
<1> HIDE DEF V
<1>2. f \in Seq(V) /\ Len(f) = n
  BY <1>1
<1> QED
  BY <1>2 DEF IsSeq

\* What a sequence of anything is made of.
LEMMA MadeOf ==
  ASSUME NEW x, IsSeq(x), NEW V, \A k \in 1..Len(x) : x[k] \in V
  PROVE  x \in Seq(V) /\ DOMAIN x = 1..Len(x)
<1>1. x \in [1..Len(x) -> V]
  BY DEF IsSeq
<1> QED
  BY <1>1 DEF IsSeq

\* A sequence over a set.
LEMMA SeqIs ==
  ASSUME NEW V, NEW x \in Seq(V)
  PROVE  IsSeq(x) /\ DOMAIN x = 1..Len(x)
<1>1. Len(x) \in Nat /\ x = [k \in 1..Len(x) |-> x[k]] /\ DOMAIN x = 1..Len(x)
  OBVIOUS
<1> QED
  BY <1>1 DEF IsSeq

\* The empty sequence.
LEMMA NoneSeq ==
  ASSUME NEW x, x = <<>>
  PROVE  Len(x) = 0 /\ IsSeq(x)
<1>1. x \in Seq({}) /\ Len(x) = 0
  OBVIOUS
<1>2. IsSeq(x)
  BY <1>1, SeqIs
<1> QED
  BY <1>1, <1>2

\* One member more.
LEMMA AppendSeq ==
  ASSUME NEW x, IsSeq(x), NEW e
  PROVE  /\ IsSeq(Append(x, e)) /\ Len(Append(x, e)) = Len(x) + 1
         /\ \A k \in 1..Len(x) : Append(x, e)[k] = x[k]
         /\ Append(x, e)[Len(x) + 1] = e
<1> DEFINE V == {x[k] : k \in 1..Len(x)} \cup {e}
           y == Append(x, e)
<1>1. x \in Seq(V) /\ e \in V /\ Len(x) \in Nat
  BY MadeOf DEF IsSeq
<1> HIDE DEF V
<1>2. /\ y \in Seq(V) /\ Len(y) = Len(x) + 1 /\ y[Len(x) + 1] = e
      /\ \A k \in 1..Len(x) : y[k] = x[k]
  BY <1>1
<1> HIDE DEF y
<1>3. y = [k \in 1..Len(y) |-> y[k]] /\ Len(y) \in Nat
  BY <1>2
<1> QED
  BY <1>2, <1>3 DEF IsSeq, y

\* Two sequences in a row.
LEMMA ConcatSeq ==
  ASSUME NEW x, IsSeq(x), NEW y, IsSeq(y)
  PROVE  /\ IsSeq(x \o y) /\ Len(x \o y) = Len(x) + Len(y)
         /\ \A k \in 1..Len(x) : (x \o y)[k] = x[k]
         /\ \A k \in 1..Len(y) : (x \o y)[Len(x) + k] = y[k]
<1> DEFINE V == {x[k] : k \in 1..Len(x)} \cup {y[k] : k \in 1..Len(y)}
           z == x \o y
<1>1. x \in Seq(V) /\ y \in Seq(V) /\ Len(x) \in Nat /\ Len(y) \in Nat
  BY MadeOf DEF IsSeq
<1> HIDE DEF V
<1>2. /\ z \in Seq(V) /\ Len(z) = Len(x) + Len(y)
      /\ \A k \in 1..Len(x) : z[k] = x[k]
      /\ \A k \in 1..Len(y) : z[Len(x) + k] = y[k]
  BY <1>1
<1> HIDE DEF z
<1>3. z = [k \in 1..Len(z) |-> z[k]] /\ Len(z) \in Nat
  BY <1>2
<1> QED
  BY <1>2, <1>3 DEF IsSeq, z

\* All but the first.
LEMMA TailSeq ==
  ASSUME NEW x, IsSeq(x), Len(x) > 0
  PROVE  /\ IsSeq(Tail(x)) /\ Len(Tail(x)) = Len(x) - 1
         /\ \A k \in 1..(Len(x) - 1) : Tail(x)[k] = x[k + 1]
<1> DEFINE V == {x[k] : k \in 1..Len(x)}
           y == Tail(x)
<1>1. x \in Seq(V) /\ Len(x) \in Nat
  BY MadeOf DEF IsSeq
<1> HIDE DEF V
<1>2. x # <<>>
  BY <1>1
<1>3. y \in Seq(V) /\ Len(y) = Len(x) - 1 /\ \A k \in 1..(Len(x) - 1) : y[k] = x[k + 1]
  BY <1>1, <1>2
<1> HIDE DEF y
<1>4. y = [k \in 1..Len(y) |-> y[k]] /\ Len(y) \in Nat
  BY <1>1, <1>2, <1>3
<1> QED
  BY <1>3, <1>4 DEF IsSeq, y

\* The rank of a place, and the place of a rank.
Rank(K, k) == Cardinality({j \in K : j <= k})
PlaceOf(K, n) == CHOOSE k \in K : Rank(K, k) = n

\* Each number up to how many places there are is the rank of one.
LEMMA RankTaken ==
  ASSUME NEW N \in Nat, NEW K, K \subseteq 1..N, NEW n \in 1..Cardinality(K)
  PROVE  Cardinality(K) \in Nat /\ PlaceOf(K, n) \in K
<1> DEFINE B == {m \in Nat : n <= Cnt(K, 1, m)}
<1>0. K \cap (1..N) = K
  OBVIOUS
<1>1. Cnt(K, 1, N) = Cardinality(K) /\ Cnt(K, 1, N) \in Nat
  BY <1>0, CntSteps DEF Cnt
<1>2. N \in B /\ B \subseteq Nat
  BY <1>1
<1>3. PICK m \in B : \A x \in B : m <= x
  BY <1>2, LeastNat
<1>4. m \in Nat /\ n <= Cnt(K, 1, m) /\ n \in Nat /\ n > 0
  BY <1>1, <1>3
<1>5. m # 0
  <2>1. Cnt(K, 1, 0) = 0
    BY CntSteps
  <2> QED
    BY <1>4, <2>1
<1>6. m - 1 \in Nat /\ (m - 1) + 1 = m /\ m - 1 \in Int /\ 1 <= (m - 1) + 1 /\ ~(m <= m - 1)
  BY <1>4, <1>5
<1>7. m - 1 \notin B
  <2> HIDE DEF B
  <2> QED
    BY <1>3, <1>6
<1>8. /\ Cnt(K, 1, m - 1) \in Nat /\ Cnt(K, 1, m) \in Nat
      /\ m \in K => Cnt(K, 1, m) = Cnt(K, 1, m - 1) + 1
      /\ m \notin K => Cnt(K, 1, m) = Cnt(K, 1, m - 1)
  BY <1>4, <1>6, CntSteps
<1>9. ~(n <= Cnt(K, 1, m - 1))
  BY <1>6, <1>7
<1>10. m \in K /\ Cnt(K, 1, m) = n
  BY <1>4, <1>8, <1>9
<1>11. {j \in K : j <= m} = K \cap (1..m)
  <2>1. ASSUME NEW j \in K PROVE j <= m <=> j \in 1..m
    <3>1. j \in 1..N
      OBVIOUS
    <3> QED
      BY <1>4, <3>1
  <2> HIDE DEF B
  <2> QED
    BY <2>1
<1>12. Rank(K, m) = n
  BY <1>10, <1>11 DEF Cnt, Rank
<1>13. \E k \in K : Rank(K, k) = n
  BY <1>10, <1>12
<1>14. PlaceOf(K, n) \in K
  BY <1>13 DEF PlaceOf
<1> QED
  BY <1>1, <1>14

\* The members at some places are a sequence.
LEMMA PlacesSeq ==
  ASSUME NEW N \in Nat, NEW K, K \subseteq 1..N, NEW x
  PROVE  IsSeq(AtPlaces(x, K)) /\ Len(AtPlaces(x, K)) = Cardinality(K)
<1> DEFINE y == AtPlaces(x, K)
<1>1. IsFiniteSet(1..N)
  BY FS_Interval
<1>2. IsFiniteSet(K)
  BY <1>1, FS_Subset
<1>3. Cardinality(K) \in Nat
  BY <1>2, FS_CardinalityType
<1>4. y = [n \in 1..Cardinality(K) |-> x[PlaceOf(K, n)]]
  BY DEF AtPlaces, PlaceOf, Rank
<1> HIDE DEF y
<1>6. y = [n \in 1..Cardinality(K) |-> y[n]]
  BY <1>4
<1>7. IsSeq(y) /\ Len(y) = Cardinality(K)
  BY <1>3, <1>6, FcnSeq
<1> QED
  BY <1>7 DEF y

\* What is true of the members at some places is true of what is made of them.
LEMMA PlacesFrom ==
  ASSUME NEW N \in Nat, NEW K, K \subseteq 1..N, NEW x, NEW V, \A k \in K : x[k] \in V, NEW y, y = AtPlaces(x, K)
  PROVE  \A n \in 1..Len(y) : y[n] \in V
<1>1. Len(y) = Cardinality(K)
  BY PlacesSeq
<1>2. y = [n \in 1..Cardinality(K) |-> x[PlaceOf(K, n)]]
  BY DEF AtPlaces, PlaceOf, Rank
<1>3. ASSUME NEW n \in 1..Cardinality(K) PROVE y[n] \in V
  <2>1. PlaceOf(K, n) \in K
    BY RankTaken
  <2>2. y[n] = x[PlaceOf(K, n)]
    BY <1>2
  <2> QED
    BY <2>1, <2>2
<1> QED
  BY <1>1, <1>3

-----------------------------------------------------------------------------
(* The engine's folds. *)

\* The keys of a tick are applied one by one.
LEMMA SteerUnfolds ==
  ASSUME NEW p, NEW inputs, Len(inputs) \in Nat, NEW now, NEW ground, ground = (p.y = 0)
  PROVE  \E f : /\ f[0] = p
                /\ \A n \in 1..Len(inputs) : f[n] = applyInput(f[n - 1], inputs[n], now, ground)
                /\ applyInputs(p, inputs, now) = f[Len(inputs)]
<1> DEFINE N == Len(inputs)
           Op(x, n) == applyInput(x, inputs[n], now, ground)
           F(m, g) == [n \in 0..m |-> IF n = 0 THEN p ELSE Op(g[n - 1], n)]
           Bad == {m \in Nat : ~ \E g : g = F(m, g)}
           f0 == CHOOSE g : g = F(N, g)
<1>1. applyInputs(p, inputs, now) = f0[N]
  BY DEF applyInputs
<1> HIDE DEF Op
<1>2. 0 \notin Bad
  <2> DEFINE g == [n \in 0..0 |-> p]
  <2>1. g = F(0, g)
    OBVIOUS
  <2> HIDE DEF g, F
  <2> QED
    BY <2>1
<1>3. ASSUME NEW m \in Nat, m + 1 \in Bad PROVE m \in Bad
  <2> SUFFICES ASSUME NEW g, g = F(m, g) PROVE FALSE
    OBVIOUS
  <2> DEFINE f == [n \in 0..(m + 1) |-> IF n <= m THEN g[n] ELSE Op(g[m], m + 1)]
  <2>1. ASSUME NEW n \in 0..(m + 1)
        PROVE  f[n] = IF n = 0 THEN p ELSE Op(f[n - 1], n)
    <3>1. CASE n <= m
      <4>1. n \in 0..m /\ (n # 0 => n - 1 \in 0..m)
        BY <3>1
      <4>2. g[n] = IF n = 0 THEN p ELSE Op(g[n - 1], n)
        BY <4>1
      <4>3. f[n] = g[n] /\ (n # 0 => f[n - 1] = g[n - 1])
        BY <4>1
      <4> HIDE DEF f
      <4> QED
        BY <4>2, <4>3
    <3>2. CASE ~(n <= m)
      <4>1. n = m + 1 /\ n - 1 = m /\ n # 0
        BY <3>2
      <4>2. f[n] = Op(g[m], m + 1) /\ f[n - 1] = g[m]
        BY <4>1
      <4> HIDE DEF f
      <4> QED
        BY <4>1, <4>2
    <3> QED
      BY <3>1, <3>2
  <2>2. f = F(m + 1, f)
    <3>1. f = [n \in 0..(m + 1) |-> f[n]]
      OBVIOUS
    <3> HIDE DEF f
    <3> QED
      BY <2>1, <3>1
  <2> HIDE DEF f, F
  <2> QED
    BY <1>3, <2>2
<1> HIDE DEF Bad
<1>4. Bad = {}
  <2> SUFFICES ASSUME Bad # {} PROVE FALSE
    OBVIOUS
  <2>1. Bad \subseteq Nat
    BY DEF Bad
  <2>2. PICK m \in Bad : \A x \in Bad : m <= x
    BY <2>1, LeastNat
  <2>3. m - 1 \in Nat /\ (m - 1) + 1 = m
    BY <1>2, <2>1, <2>2
  <2>4. m - 1 \in Bad
    BY <1>3, <2>2, <2>3
  <2> QED
    BY <2>1, <2>2, <2>4
<1>5. N \in Nat
  BY LevelsAssumption
<1> HIDE DEF N
<1>6. \E g : g = F(N, g)
  BY <1>4, <1>5 DEF Bad
<1> HIDE DEF F
<1>7. f0 = F(N, f0)
  BY <1>6
<1> HIDE DEF f0
<1>8. f0 = [n \in 0..N |-> IF n = 0 THEN p ELSE Op(f0[n - 1], n)]
  BY <1>7 DEF F
<1>9. f0[0] = p /\ \A n \in 1..N : f0[n] = Op(f0[n - 1], n)
  BY <1>5, <1>8
<1> QED
  BY <1>1, <1>9 DEF Op, N

\* The inputs of a tick are looked at one by one.
LEMMA BeginUnfolds ==
  ASSUME NEW s, NEW inputs, Len(inputs) \in Nat
  PROVE  \E f : /\ f[0] = expire(s)
                /\ \A n \in 1..Len(inputs) : f[n] = graceOf(f[n - 1], inputs[n])
                /\ beginTick(s, inputs) = f[Len(inputs)]
<1> DEFINE N == Len(inputs)
           Op(x, n) == graceOf(x, inputs[n])
           F(m, g) == [n \in 0..m |-> IF n = 0 THEN expire(s) ELSE Op(g[n - 1], n)]
           Bad == {m \in Nat : ~ \E g : g = F(m, g)}
           f0 == CHOOSE g : g = F(N, g)
<1>1. beginTick(s, inputs) = f0[N]
  BY DEF beginTick
<1> HIDE DEF Op
<1>2. 0 \notin Bad
  <2> DEFINE g == [n \in 0..0 |-> expire(s)]
  <2>1. g = F(0, g)
    OBVIOUS
  <2> HIDE DEF g, F
  <2> QED
    BY <2>1
<1>3. ASSUME NEW m \in Nat, m + 1 \in Bad PROVE m \in Bad
  <2> SUFFICES ASSUME NEW g, g = F(m, g) PROVE FALSE
    OBVIOUS
  <2> DEFINE f == [n \in 0..(m + 1) |-> IF n <= m THEN g[n] ELSE Op(g[m], m + 1)]
  <2>1. ASSUME NEW n \in 0..(m + 1)
        PROVE  f[n] = IF n = 0 THEN expire(s) ELSE Op(f[n - 1], n)
    <3>1. CASE n <= m
      <4>1. n \in 0..m /\ (n # 0 => n - 1 \in 0..m)
        BY <3>1
      <4>2. g[n] = IF n = 0 THEN expire(s) ELSE Op(g[n - 1], n)
        BY <4>1
      <4>3. f[n] = g[n] /\ (n # 0 => f[n - 1] = g[n - 1])
        BY <4>1
      <4> HIDE DEF f
      <4> QED
        BY <4>2, <4>3
    <3>2. CASE ~(n <= m)
      <4>1. n = m + 1 /\ n - 1 = m /\ n # 0
        BY <3>2
      <4>2. f[n] = Op(g[m], m + 1) /\ f[n - 1] = g[m]
        BY <4>1
      <4> HIDE DEF f
      <4> QED
        BY <4>1, <4>2
    <3> QED
      BY <3>1, <3>2
  <2>2. f = F(m + 1, f)
    <3>1. f = [n \in 0..(m + 1) |-> f[n]]
      OBVIOUS
    <3> HIDE DEF f
    <3> QED
      BY <2>1, <3>1
  <2> HIDE DEF f, F
  <2> QED
    BY <1>3, <2>2
<1> HIDE DEF Bad
<1>4. Bad = {}
  <2> SUFFICES ASSUME Bad # {} PROVE FALSE
    OBVIOUS
  <2>1. Bad \subseteq Nat
    BY DEF Bad
  <2>2. PICK m \in Bad : \A x \in Bad : m <= x
    BY <2>1, LeastNat
  <2>3. m - 1 \in Nat /\ (m - 1) + 1 = m
    BY <1>2, <2>1, <2>2
  <2>4. m - 1 \in Bad
    BY <1>3, <2>2, <2>3
  <2> QED
    BY <2>1, <2>2, <2>4
<1>5. N \in Nat
  BY LevelsAssumption
<1> HIDE DEF N
<1>6. \E g : g = F(N, g)
  BY <1>4, <1>5 DEF Bad
<1> HIDE DEF F
<1>7. f0 = F(N, f0)
  BY <1>6
<1> HIDE DEF f0
<1>8. f0 = [n \in 0..N |-> IF n = 0 THEN expire(s) ELSE Op(f0[n - 1], n)]
  BY <1>7 DEF F
<1>9. f0[0] = expire(s) /\ \A n \in 1..N : f0[n] = Op(f0[n - 1], n)
  BY <1>5, <1>8
<1> QED
  BY <1>1, <1>9 DEF Op, N

\* The lanes spawn one by one.
LEMMA SpawnUnfolds ==
  ASSUME NEW s, NEW cfg, ~(s.fan.until - s.tick <= SPAWN_X + FAN_CLEAR)
  PROVE  \E f : /\ f[0] = s
                /\ \A n \in 1..FAN_LANES : f[n] = spawnLane(f[n - 1], cfg, n)
                /\ spawnLanes(s, cfg) = f[FAN_LANES]
<1> DEFINE N == FAN_LANES
           Op(x, n) == spawnLane(x, cfg, n)
           F(m, g) == [n \in 0..m |-> IF n = 0 THEN s ELSE Op(g[n - 1], n)]
           Bad == {m \in Nat : ~ \E g : g = F(m, g)}
           f0 == CHOOSE g : g = F(N, g)
<1>1. spawnLanes(s, cfg) = f0[N]
  BY DEF spawnLanes
<1> HIDE DEF Op
<1>2. 0 \notin Bad
  <2> DEFINE g == [n \in 0..0 |-> s]
  <2>1. g = F(0, g)
    OBVIOUS
  <2> HIDE DEF g, F
  <2> QED
    BY <2>1
<1>3. ASSUME NEW m \in Nat, m + 1 \in Bad PROVE m \in Bad
  <2> SUFFICES ASSUME NEW g, g = F(m, g) PROVE FALSE
    OBVIOUS
  <2> DEFINE f == [n \in 0..(m + 1) |-> IF n <= m THEN g[n] ELSE Op(g[m], m + 1)]
  <2>1. ASSUME NEW n \in 0..(m + 1)
        PROVE  f[n] = IF n = 0 THEN s ELSE Op(f[n - 1], n)
    <3>1. CASE n <= m
      <4>1. n \in 0..m /\ (n # 0 => n - 1 \in 0..m)
        BY <3>1
      <4>2. g[n] = IF n = 0 THEN s ELSE Op(g[n - 1], n)
        BY <4>1
      <4>3. f[n] = g[n] /\ (n # 0 => f[n - 1] = g[n - 1])
        BY <4>1
      <4> HIDE DEF f
      <4> QED
        BY <4>2, <4>3
    <3>2. CASE ~(n <= m)
      <4>1. n = m + 1 /\ n - 1 = m /\ n # 0
        BY <3>2
      <4>2. f[n] = Op(g[m], m + 1) /\ f[n - 1] = g[m]
        BY <4>1
      <4> HIDE DEF f
      <4> QED
        BY <4>1, <4>2
    <3> QED
      BY <3>1, <3>2
  <2>2. f = F(m + 1, f)
    <3>1. f = [n \in 0..(m + 1) |-> f[n]]
      OBVIOUS
    <3> HIDE DEF f
    <3> QED
      BY <2>1, <3>1
  <2> HIDE DEF f, F
  <2> QED
    BY <1>3, <2>2
<1> HIDE DEF Bad
<1>4. Bad = {}
  <2> SUFFICES ASSUME Bad # {} PROVE FALSE
    OBVIOUS
  <2>1. Bad \subseteq Nat
    BY DEF Bad
  <2>2. PICK m \in Bad : \A x \in Bad : m <= x
    BY <2>1, LeastNat
  <2>3. m - 1 \in Nat /\ (m - 1) + 1 = m
    BY <1>2, <2>1, <2>2
  <2>4. m - 1 \in Bad
    BY <1>3, <2>2, <2>3
  <2> QED
    BY <2>1, <2>2, <2>4
<1>5. N \in Nat
  BY LevelsAssumption
<1> HIDE DEF N
<1>6. \E g : g = F(N, g)
  BY <1>4, <1>5 DEF Bad
<1> HIDE DEF F
<1>7. f0 = F(N, f0)
  BY <1>6
<1> HIDE DEF f0
<1>8. f0 = [n \in 0..N |-> IF n = 0 THEN s ELSE Op(f0[n - 1], n)]
  BY <1>7 DEF F
<1>9. f0[0] = s /\ \A n \in 1..N : f0[n] = Op(f0[n - 1], n)
  BY <1>5, <1>8
<1> QED
  BY <1>1, <1>9 DEF Op, N

\* A hat meets the entities of its track one by one.
LEMMA TouchUnfolds ==
  ASSUME NEW a, NEW cfg, NEW t, NEW ports, Len(tracks(a.s)[t].entities) \in Nat
  PROVE  \E f : /\ f[0] = sink(a, cfg, t)
                /\ \A n \in 1..Len(tracks(a.s)[t].entities) : f[n] = touchEntity(f[n - 1], cfg, t, n, tracks(a.s)[t].player, ports)
                /\ collideTrack(a, cfg, t, ports) = f[Len(tracks(a.s)[t].entities)]
<1> DEFINE N == Len(tracks(a.s)[t].entities)
           Op(x, n) == touchEntity(x, cfg, t, n, tracks(a.s)[t].player, ports)
           F(m, g) == [n \in 0..m |-> IF n = 0 THEN sink(a, cfg, t) ELSE Op(g[n - 1], n)]
           Bad == {m \in Nat : ~ \E g : g = F(m, g)}
           f0 == CHOOSE g : g = F(N, g)
<1>1. collideTrack(a, cfg, t, ports) = f0[N]
  BY DEF collideTrack
<1> HIDE DEF Op
<1>2. 0 \notin Bad
  <2> DEFINE g == [n \in 0..0 |-> sink(a, cfg, t)]
  <2>1. g = F(0, g)
    OBVIOUS
  <2> HIDE DEF g, F
  <2> QED
    BY <2>1
<1>3. ASSUME NEW m \in Nat, m + 1 \in Bad PROVE m \in Bad
  <2> SUFFICES ASSUME NEW g, g = F(m, g) PROVE FALSE
    OBVIOUS
  <2> DEFINE f == [n \in 0..(m + 1) |-> IF n <= m THEN g[n] ELSE Op(g[m], m + 1)]
  <2>1. ASSUME NEW n \in 0..(m + 1)
        PROVE  f[n] = IF n = 0 THEN sink(a, cfg, t) ELSE Op(f[n - 1], n)
    <3>1. CASE n <= m
      <4>1. n \in 0..m /\ (n # 0 => n - 1 \in 0..m)
        BY <3>1
      <4>2. g[n] = IF n = 0 THEN sink(a, cfg, t) ELSE Op(g[n - 1], n)
        BY <4>1
      <4>3. f[n] = g[n] /\ (n # 0 => f[n - 1] = g[n - 1])
        BY <4>1
      <4> HIDE DEF f
      <4> QED
        BY <4>2, <4>3
    <3>2. CASE ~(n <= m)
      <4>1. n = m + 1 /\ n - 1 = m /\ n # 0
        BY <3>2
      <4>2. f[n] = Op(g[m], m + 1) /\ f[n - 1] = g[m]
        BY <4>1
      <4> HIDE DEF f
      <4> QED
        BY <4>1, <4>2
    <3> QED
      BY <3>1, <3>2
  <2>2. f = F(m + 1, f)
    <3>1. f = [n \in 0..(m + 1) |-> f[n]]
      OBVIOUS
    <3> HIDE DEF f
    <3> QED
      BY <2>1, <3>1
  <2> HIDE DEF f, F
  <2> QED
    BY <1>3, <2>2
<1> HIDE DEF Bad
<1>4. Bad = {}
  <2> SUFFICES ASSUME Bad # {} PROVE FALSE
    OBVIOUS
  <2>1. Bad \subseteq Nat
    BY DEF Bad
  <2>2. PICK m \in Bad : \A x \in Bad : m <= x
    BY <2>1, LeastNat
  <2>3. m - 1 \in Nat /\ (m - 1) + 1 = m
    BY <1>2, <2>1, <2>2
  <2>4. m - 1 \in Bad
    BY <1>3, <2>2, <2>3
  <2> QED
    BY <2>1, <2>2, <2>4
<1>5. N \in Nat
  BY LevelsAssumption
<1> HIDE DEF N
<1>6. \E g : g = F(N, g)
  BY <1>4, <1>5 DEF Bad
<1> HIDE DEF F
<1>7. f0 = F(N, f0)
  BY <1>6
<1> HIDE DEF f0
<1>8. f0 = [n \in 0..N |-> IF n = 0 THEN sink(a, cfg, t) ELSE Op(f0[n - 1], n)]
  BY <1>7 DEF F
<1>9. f0[0] = sink(a, cfg, t) /\ \A n \in 1..N : f0[n] = Op(f0[n - 1], n)
  BY <1>5, <1>8
<1> QED
  BY <1>1, <1>9 DEF Op, N

\* The accumulator of a tick before its hits and pickups.
Untouched(b) == [s |-> b.s, ev |-> b.ev, calls |-> 0, hit |-> FALSE]

\* The function that collide folds.
Collided(b, cfg, ports) ==
    CHOOSE f : f = [t \in 0..Len(tracks(b.s)) |->
                      IF t = 0 THEN Untouched(b) ELSE collideTrack(f[t - 1], cfg, t, ports)]

\* The tracks are looked at one by one.
LEMMA CollideUnfolds ==
  ASSUME NEW b, NEW cfg, NEW ports, Len(tracks(b.s)) \in Nat
  PROVE  /\ Collided(b, cfg, ports)[0] = Untouched(b)
         /\ \A n \in 1..Len(tracks(b.s)) :
               Collided(b, cfg, ports)[n] = collideTrack(Collided(b, cfg, ports)[n - 1], cfg, n, ports)
         /\ collide(b, cfg, ports) = Collided(b, cfg, ports)[Len(tracks(b.s))]
<1> DEFINE N == Len(tracks(b.s))
           Op(x, n) == collideTrack(x, cfg, n, ports)
           F(m, g) == [n \in 0..m |-> IF n = 0 THEN Untouched(b) ELSE Op(g[n - 1], n)]
           Bad == {m \in Nat : ~ \E g : g = F(m, g)}
           f0 == Collided(b, cfg, ports)
<1>1. collide(b, cfg, ports) = f0[N]
  BY DEF collide, Untouched, Collided
<1> HIDE DEF Op
<1>2. 0 \notin Bad
  <2> DEFINE g == [n \in 0..0 |-> Untouched(b)]
  <2>1. g = F(0, g)
    OBVIOUS
  <2> HIDE DEF g, F
  <2> QED
    BY <2>1
<1>3. ASSUME NEW m \in Nat, m + 1 \in Bad PROVE m \in Bad
  <2> SUFFICES ASSUME NEW g, g = F(m, g) PROVE FALSE
    OBVIOUS
  <2> DEFINE f == [n \in 0..(m + 1) |-> IF n <= m THEN g[n] ELSE Op(g[m], m + 1)]
  <2>1. ASSUME NEW n \in 0..(m + 1)
        PROVE  f[n] = IF n = 0 THEN Untouched(b) ELSE Op(f[n - 1], n)
    <3>1. CASE n <= m
      <4>1. n \in 0..m /\ (n # 0 => n - 1 \in 0..m)
        BY <3>1
      <4>2. g[n] = IF n = 0 THEN Untouched(b) ELSE Op(g[n - 1], n)
        BY <4>1
      <4>3. f[n] = g[n] /\ (n # 0 => f[n - 1] = g[n - 1])
        BY <4>1
      <4> HIDE DEF f
      <4> QED
        BY <4>2, <4>3
    <3>2. CASE ~(n <= m)
      <4>1. n = m + 1 /\ n - 1 = m /\ n # 0
        BY <3>2
      <4>2. f[n] = Op(g[m], m + 1) /\ f[n - 1] = g[m]
        BY <4>1
      <4> HIDE DEF f
      <4> QED
        BY <4>1, <4>2
    <3> QED
      BY <3>1, <3>2
  <2>2. f = F(m + 1, f)
    <3>1. f = [n \in 0..(m + 1) |-> f[n]]
      OBVIOUS
    <3> HIDE DEF f
    <3> QED
      BY <2>1, <3>1
  <2> HIDE DEF f, F
  <2> QED
    BY <1>3, <2>2
<1> HIDE DEF Bad
<1>4. Bad = {}
  <2> SUFFICES ASSUME Bad # {} PROVE FALSE
    OBVIOUS
  <2>1. Bad \subseteq Nat
    BY DEF Bad
  <2>2. PICK m \in Bad : \A x \in Bad : m <= x
    BY <2>1, LeastNat
  <2>3. m - 1 \in Nat /\ (m - 1) + 1 = m
    BY <1>2, <2>1, <2>2
  <2>4. m - 1 \in Bad
    BY <1>3, <2>2, <2>3
  <2> QED
    BY <2>1, <2>2, <2>4
<1>5. N \in Nat
  OBVIOUS
<1> HIDE DEF N
<1>6. \E g : g = F(N, g)
  BY <1>4, <1>5 DEF Bad
<1>7. f0 = F(N, f0)
  <2>1. f0 = CHOOSE g : g = F(N, g)
    BY DEF F, N, Op, Collided
  <2> HIDE DEF f0
  <2> QED
    BY <1>6, <2>1
<1> HIDE DEF f0, F
<1>8. f0 = [n \in 0..N |-> IF n = 0 THEN Untouched(b) ELSE Op(f0[n - 1], n)]
  BY <1>7 DEF F
<1>9. f0[0] = Untouched(b) /\ \A n \in 1..N : f0[n] = Op(f0[n - 1], n)
  BY <1>5, <1>8
<1> QED
  BY <1>1, <1>9 DEF Op, N, f0

-----------------------------------------------------------------------------
(* The shape of the engine's values. *)

StateFields ==
    {"level", "tick", "elapsed", "rng", "score", "multiplier", "multUntil", "player", "scroll", "distance",
     "nextSpawnAt", "nextId", "entities", "bossUntil", "status", "retries", "shield", "graceUntil", "failedAt",
     "fan", "nextGateAt"}

PlayerOK(p) ==
    /\ DOMAIN p = {"y", "sliding", "jumpHeld", "coyoteUntil", "jumpBufferUntil"}
    /\ p.sliding \in BOOLEAN

LaneOK(l) ==
    /\ DOMAIN l = {"player", "entities", "nextSpawnAt", "coins"}
    /\ PlayerOK(l.player) /\ IsSeq(l.entities)

LanesOK(ls) == IsSeq(ls) /\ Len(ls) = FAN_LANES /\ \A t \in 1..FAN_LANES : LaneOK(ls[t])

FanOK(f) == f # NoFan => DOMAIN f = {"until", "lanes"} /\ LanesOK(f.lanes)

StateOK(s) ==
    /\ DOMAIN s = StateFields
    /\ PlayerOK(s.player) /\ IsSeq(s.entities) /\ FanOK(s.fan) /\ s.tick \in Nat

\* What no part of a tick but the merge of the lanes and the clock changes.
Kept(s, s2) ==
    /\ StateOK(s2) /\ s2.bossUntil = s.bossUntil /\ s2.tick = s.tick
    /\ s2.fan = NoFan <=> s.fan = NoFan
    /\ livePlayer(s2).sliding => livePlayer(s).sliding

\* What the engine tells of a tick: no key among it.
EventOK(e) == "type" \in DOMAIN e /\ e.type # "Input"

EventsOK(ev) == IsSeq(ev) /\ \A k \in 1..Len(ev) : EventOK(ev[k])

AccOK(a, s) ==
    /\ DOMAIN a = {"s", "ev", "calls", "hit"}
    /\ Kept(s, a.s) /\ EventsOK(a.ev)

\* An entity that changes leaves a sequence a sequence.
LEMMA ChangedSeq ==
  ASSUME NEW x, IsSeq(x), NEW i, NEW v
  PROVE  /\ IsSeq([x EXCEPT ![i] = v]) /\ Len([x EXCEPT ![i] = v]) = Len(x)
         /\ DOMAIN x = 1..Len(x)
<1> DEFINE y == [x EXCEPT ![i] = v]
<1>1. DOMAIN x = 1..Len(x) /\ Len(x) \in Nat
  BY DEF IsSeq
<1>2. y = [k \in 1..Len(x) |-> y[k]]
  BY <1>1
<1> HIDE DEF y
<1>3. IsSeq(y) /\ Len(y) = Len(x)
  BY <1>1, <1>2, FcnSeq
<1> QED
  BY <1>1, <1>3 DEF y

\* No events.
LEMMA NoEvents == EventsOK(<<>>)
<1>1. Len(<<>>) = 0 /\ IsSeq(<<>>)
  BY NoneSeq
<1> QED
  BY <1>1 DEF EventsOK

\* One event more.
LEMMA EventsGrow ==
  ASSUME NEW ev, EventsOK(ev), NEW e, EventOK(e)
  PROVE  EventsOK(Append(ev, e))
<1> DEFINE y == Append(ev, e)
<1>1. /\ IsSeq(y) /\ Len(y) = Len(ev) + 1
      /\ \A k \in 1..Len(ev) : y[k] = ev[k]
      /\ y[Len(ev) + 1] = e
  BY AppendSeq DEF EventsOK
<1>2. Len(ev) \in Nat
  BY DEF EventsOK, IsSeq
<1> HIDE DEF y
<1>3. ASSUME NEW k \in 1..Len(y) PROVE EventOK(y[k])
  <2>1. k \in 1..Len(ev) \/ k = Len(ev) + 1
    BY <1>1, <1>2
  <2> QED
    BY <1>1, <2>1 DEF EventsOK
<1>4. EventsOK(y)
  BY <1>1, <1>3 DEF EventsOK
<1> QED
  BY <1>4 DEF y

\* An event of the engine.
LEMMA EventMade ==
  ASSUME NEW T, T # "Input", NEW s, NEW id, NEW result
  PROVE  EventOK(Event(T, s, id, result))
BY DEF EventOK, Event

\* Lanes are no fan-out in their absence.
LEMMA LanesAreFan ==
  ASSUME NEW f, LanesOK(f.lanes)
  PROVE  f # NoFan
<1>1. NoFan.lanes = <<>>
  BY DEF NoFan
<1>2. Len(NoFan.lanes) = 0
  BY <1>1, NoneSeq
<1> QED
  BY <1>2, LevelsAssumption DEF LanesOK

\* The hat the keys steer.
LEMMA LiveIs ==
  ASSUME NEW s
  PROVE  livePlayer(s) = IF s.fan = NoFan THEN s.player ELSE s.fan.lanes[1].player
<1>1. s.fan = NoFan => tracks(s)[1] = [player |-> s.player, entities |-> s.entities]
  BY DEF tracks
<1>2. s.fan # NoFan => tracks(s) = s.fan.lanes
  BY DEF tracks
<1> QED
  BY <1>1, <1>2 DEF livePlayer, MERGE_LANE

-----------------------------------------------------------------------------
(* One hat. *)

\* A key changes the hat, and only a slide key or a slide makes it slide.
LEMMA InputShape ==
  ASSUME NEW p, PlayerOK(p), NEW input, NEW now, NEW ground
  PROVE  /\ PlayerOK(applyInput(p, input, now, ground))
         /\ applyInput(p, input, now, ground).sliding =>
              input = "slideStart" \/ (p.sliding /\ input # "slideEnd")
<1>1. ASSUME NEW q, PlayerOK(q) PROVE PlayerOK(launch(q)) /\ ~launch(q).sliding
  BY <1>1 DEF PlayerOK, launch
<1> DEFINE q == [p EXCEPT !.jumpHeld = TRUE]
<1>2. PlayerOK(q) /\ q.sliding = p.sliding
  BY DEF PlayerOK
<1>3. ASSUME NEW v PROVE LET r == [q EXCEPT !.jumpBufferUntil = v] IN PlayerOK(r) /\ r.sliding = p.sliding
  BY <1>2 DEF PlayerOK
<1>4. CASE input = "jump"
  <2>1. PlayerOK(launch(q)) /\ ~launch(q).sliding
    BY <1>1, <1>2
  <2> HIDE DEF q
  <2>2. \/ applyInput(p, input, now, ground) = launch(q)
        \/ applyInput(p, input, now, ground) = [q EXCEPT !.jumpBufferUntil = now + JUMP_BUFFER_TICKS]
    BY <1>4 DEF applyInput, q
  <2> QED
    BY <1>3, <1>4, <2>1, <2>2
<1>5. CASE input = "jumpEnd"
  BY <1>5 DEF applyInput, PlayerOK
<1>6. CASE input = "slideStart"
  BY <1>6 DEF applyInput, PlayerOK
<1>7. CASE input = "slideEnd"
  BY <1>7 DEF applyInput, PlayerOK
<1>8. CASE input \notin {"jump", "jumpEnd", "slideStart", "slideEnd"}
  BY <1>8 DEF applyInput
<1> QED
  BY <1>4, <1>5, <1>6, <1>7, <1>8

\* The keys of a tick leave the hat sliding only if a slide is not ended by them.
LEMMA SteerShape ==
  ASSUME NEW p, PlayerOK(p), NEW inputs, IsSeq(inputs), NEW now
  PROVE  /\ PlayerOK(applyInputs(p, inputs, now))
         /\ applyInputs(p, inputs, now).sliding => WillSlide(p.sliding, inputs)
<1>1. Len(inputs) \in Nat /\ DOMAIN inputs = 1..Len(inputs)
  BY DEF IsSeq
<1> DEFINE ground == p.y = 0
<1>0. ground = (p.y = 0)
  OBVIOUS
<1> HIDE DEF ground
<1>2. PICK f : /\ f[0] = p
               /\ \A n \in 1..Len(inputs) : f[n] = applyInput(f[n - 1], inputs[n], now, ground)
               /\ applyInputs(p, inputs, now) = f[Len(inputs)]
  BY <1>0, <1>1, SteerUnfolds
<1> DEFINE Slides(n) ==
             \/ p.sliding /\ \A k \in 1..n : inputs[k] # "slideEnd"
             \/ \E k \in 1..n : inputs[k] = "slideStart" /\ \A j \in 1..n : j > k => inputs[j] # "slideEnd"
           Good(n) == PlayerOK(f[n]) /\ (f[n].sliding => Slides(n))
           Bad == {n \in 0..Len(inputs) : ~Good(n)}
<1>3. Good(0)
  BY <1>2
<1>4. ASSUME NEW n \in 1..Len(inputs), Good(n - 1) PROVE Good(n)
  <2>1. f[n] = applyInput(f[n - 1], inputs[n], now, ground)
    BY <1>2
  <2>2. PlayerOK(f[n]) /\ (f[n].sliding => inputs[n] = "slideStart" \/ (f[n - 1].sliding /\ inputs[n] # "slideEnd"))
    BY <1>4, <2>1, InputShape
  <2>3. inputs[n] = "slideStart" => Slides(n)
    <3>1. \A j \in 1..n : ~(j > n)
      BY <1>1
    <3>2. n \in 1..n
      BY <1>1
    <3> QED
      BY <3>1, <3>2
  <2>4. ASSUME Slides(n - 1), inputs[n] # "slideEnd" PROVE Slides(n)
    <3>1. \A j \in 1..n : j \in 1..(n - 1) \/ j = n
      BY <1>1
    <3>2. \A j \in 1..(n - 1) : j \in 1..n
      BY <1>1
    <3>3. CASE p.sliding /\ \A k \in 1..(n - 1) : inputs[k] # "slideEnd"
      BY <2>4, <3>1, <3>3
    <3>4. CASE \E k \in 1..(n - 1) : inputs[k] = "slideStart" /\ \A j \in 1..(n - 1) : j > k => inputs[j] # "slideEnd"
      <4>1. PICK k \in 1..(n - 1) : inputs[k] = "slideStart" /\ \A j \in 1..(n - 1) : j > k => inputs[j] # "slideEnd"
        BY <3>4
      <4>2. \A j \in 1..n : j > k => inputs[j] # "slideEnd"
        BY <2>4, <3>1, <4>1
      <4> QED
        BY <3>2, <4>1, <4>2
    <3> QED
      BY <2>4, <3>3, <3>4
  <2> HIDE DEF Slides
  <2> QED
    BY <1>4, <2>2, <2>3, <2>4
<1> HIDE DEF Good
<1>5. Bad = {}
  <2> SUFFICES ASSUME Bad # {} PROVE FALSE
    OBVIOUS
  <2>1. Bad \subseteq Nat
    BY <1>1
  <2> HIDE DEF Bad
  <2>2. PICK m \in Bad : \A x \in Bad : m <= x
    BY <2>1, LeastNat
  <2>3. m \in 0..Len(inputs) /\ ~Good(m)
    BY DEF Bad
  <2>4. m # 0
    BY <1>3, <2>3
  <2>5. m \in 1..Len(inputs) /\ m - 1 \in 0..Len(inputs) /\ ~(m <= m - 1)
    BY <1>1, <2>3, <2>4
  <2>6. Good(m - 1)
    BY <2>2, <2>5 DEF Bad
  <2> QED
    BY <1>4, <2>3, <2>5, <2>6
<1>6. Good(Len(inputs))
  BY <1>1, <1>5
<1>7. Slides(Len(inputs)) => WillSlide(p.sliding, inputs)
  BY <1>1 DEF WillSlide
<1> QED
  BY <1>2, <1>6, <1>7 DEF Good

\* A hat that moves slides only if the keys leave it sliding.
LEMMA MoveShape ==
  ASSUME NEW p, PlayerOK(p), NEW inputs, IsSeq(inputs), NEW now, NEW es
  PROVE  /\ PlayerOK(movePlayer(p, inputs, now, es))
         /\ movePlayer(p, inputs, now, es).sliding => WillSlide(p.sliding, inputs)
<1> DEFINE q == applyInputs(p, inputs, now)
           pit == overPit(es)
<1>1. PlayerOK(q) /\ (q.sliding => WillSlide(p.sliding, inputs))
  BY SteerShape
<1>2. movePlayer(p, inputs, now, es) = IF q.y = 0 /\ ~pit THEN q ELSE fall(q, now, pit)
  BY DEF movePlayer
<1> HIDE DEF q, pit
<1>3. PlayerOK(fall(q, now, pit)) /\ (fall(q, now, pit).sliding => q.sliding)
  <2> DEFINE q2 == IF q.y = 0 THEN [q EXCEPT !.coyoteUntil = now + COYOTE_TICKS] ELSE q
             y == IF pit /\ q2.y \in {0, 1} THEN -1 ELSE q2.y - 1
  <2>1. PlayerOK(q2) /\ q2.sliding = q.sliding
    BY <1>1 DEF PlayerOK
  <2>2. \/ fall(q, now, pit) = launch([q2 EXCEPT !.y = 0])
        \/ fall(q, now, pit) = [q2 EXCEPT !.y = y]
    BY DEF fall
  <2> HIDE DEF q2, y
  <2>3. LET r == launch([q2 EXCEPT !.y = 0]) IN PlayerOK(r) /\ ~r.sliding
    BY <2>1 DEF PlayerOK, launch
  <2>4. LET r == [q2 EXCEPT !.y = y] IN PlayerOK(r) /\ r.sliding = q.sliding
    BY <2>1 DEF PlayerOK
  <2> QED
    BY <2>2, <2>3, <2>4
<1> QED
  BY <1>1, <1>2, <1>3

-----------------------------------------------------------------------------
(* A tick, part by part. *)

\* Looking at the inputs changes graces and counters only.
LEMMA BeginShape ==
  ASSUME NEW s, StateOK(s), NEW inputs, IsSeq(inputs)
  PROVE  LET b == beginTick(s, inputs)
         IN StateOK(b) /\ b.bossUntil = s.bossUntil /\ b.tick = s.tick /\ b.player = s.player /\ b.fan = s.fan
<1>1. Len(inputs) \in Nat
  BY DEF IsSeq
<1>2. PICK f : /\ f[0] = expire(s)
               /\ \A n \in 1..Len(inputs) : f[n] = graceOf(f[n - 1], inputs[n])
               /\ beginTick(s, inputs) = f[Len(inputs)]
  BY <1>1, BeginUnfolds
<1> DEFINE Good(n) == StateOK(f[n]) /\ f[n].bossUntil = s.bossUntil /\ f[n].tick = s.tick /\ f[n].player = s.player /\ f[n].fan = s.fan
           Bad == {n \in 0..Len(inputs) : ~Good(n)}
<1>3. Good(0)
  BY <1>2 DEF expire, StateOK, StateFields
<1>4. ASSUME NEW n \in 1..Len(inputs), Good(n - 1) PROVE Good(n)
  <2>1. f[n] = graceOf(f[n - 1], inputs[n])
    BY <1>2
  <2>2. /\ StateOK(f[n - 1]) /\ f[n - 1].bossUntil = s.bossUntil /\ f[n - 1].tick = s.tick
        /\ f[n - 1].player = s.player /\ f[n - 1].fan = s.fan
    BY <1>4
  <2> DEFINE x == f[n - 1]
  <2> HIDE DEF x
  <2> QED
    BY <2>1, <2>2 DEF graceOf, StateOK, StateFields
<1> HIDE DEF Good
<1>5. Bad = {}
  <2> SUFFICES ASSUME Bad # {} PROVE FALSE
    OBVIOUS
  <2>1. Bad \subseteq Nat
    BY <1>1
  <2> HIDE DEF Bad
  <2>2. PICK m \in Bad : \A x \in Bad : m <= x
    BY <2>1, LeastNat
  <2>3. m \in 0..Len(inputs) /\ ~Good(m)
    BY DEF Bad
  <2>4. m # 0
    BY <1>3, <2>3
  <2>5. m \in 1..Len(inputs) /\ m - 1 \in 0..Len(inputs) /\ ~(m <= m - 1)
    BY <1>1, <2>3, <2>4
  <2>6. Good(m - 1)
    BY <2>2, <2>5 DEF Bad
  <2> QED
    BY <1>4, <2>3, <2>5, <2>6
<1>6. Good(Len(inputs))
  BY <1>1, <1>5
<1> QED
  BY <1>2, <1>6 DEF Good

\* Other lanes for the old ones.
LEMMA LanesChange ==
  ASSUME NEW s, StateOK(s), s.fan # NoFan, NEW ls, LanesOK(ls)
  PROVE  LET s2 == [s EXCEPT !.fan.lanes = ls]
         IN /\ StateOK(s2) /\ s2.bossUntil = s.bossUntil /\ s2.tick = s.tick
            /\ s2.fan # NoFan /\ s2.fan.lanes = ls
<1> DEFINE s2 == [s EXCEPT !.fan.lanes = ls]
           f2 == [s.fan EXCEPT !.lanes = ls]
<1>1. DOMAIN s = StateFields /\ DOMAIN s.fan = {"until", "lanes"}
  BY DEF StateOK, FanOK
<1>2. DOMAIN f2 = {"until", "lanes"} /\ f2.lanes = ls
  BY <1>1
<1>3. f2 # NoFan
  <2> HIDE DEF f2
  <2> QED
    BY <1>2, LanesAreFan
<1>4. s2 = [s EXCEPT !.fan = f2]
  OBVIOUS
<1> HIDE DEF f2, s2
<1>5. /\ DOMAIN s2 = StateFields /\ s2.fan = f2 /\ s2.player = s.player /\ s2.entities = s.entities
      /\ s2.bossUntil = s.bossUntil /\ s2.tick = s.tick
  BY <1>1, <1>4 DEF StateFields
<1>6. FanOK(s2.fan)
  BY <1>2, <1>5 DEF FanOK
<1>7. StateOK(s2)
  BY <1>5, <1>6 DEF StateOK
<1> QED
  BY <1>2, <1>3, <1>5, <1>7 DEF s2

\* The lanes of a fan-out, one changed.
LEMMA LaneChange ==
  ASSUME NEW ls, LanesOK(ls), NEW t, NEW l, LaneOK(l)
  PROVE  LET ls2 == [ls EXCEPT ![t] = l]
         IN LanesOK(ls2) /\ \A u \in 1..FAN_LANES : ls2[u] = IF u = t THEN l ELSE ls[u]
<1> DEFINE ls2 == [ls EXCEPT ![t] = l]
<1>1. IsSeq(ls2) /\ Len(ls2) = FAN_LANES /\ DOMAIN ls = 1..FAN_LANES
  BY ChangedSeq DEF LanesOK
<1>2. \A u \in 1..FAN_LANES : ls2[u] = IF u = t THEN l ELSE ls[u]
  BY <1>1
<1> HIDE DEF ls2
<1>3. LanesOK(ls2)
  BY <1>1, <1>2 DEF LanesOK
<1> QED
  BY <1>2, <1>3 DEF ls2

\* Moving the tracks: the hat slides on only if the keys leave it sliding.
LEMMA TracksMove ==
  ASSUME NEW s, StateOK(s), NEW inputs, IsSeq(inputs)
  PROVE  LET s2 == moveTracks(s, inputs)
         IN /\ StateOK(s2) /\ s2.bossUntil = s.bossUntil /\ s2.tick = s.tick
            /\ livePlayer(s2).sliding => WillSlide(livePlayer(s).sliding, inputs)
<1> DEFINE moved(track) == movePlayer(track.player, inputs, s.tick, track.entities)
           s2 == moveTracks(s, inputs)
<1>1. ASSUME NEW track, PlayerOK(track.player)
      PROVE  PlayerOK(moved(track)) /\ (moved(track).sliding => WillSlide(track.player.sliding, inputs))
  BY <1>1, MoveShape
<1>2. CASE s.fan = NoFan
  <2>1. s2 = [s EXCEPT !.player = moved(s)]
    BY <1>2 DEF moveTracks
  <2>2. PlayerOK(moved(s)) /\ (moved(s).sliding => WillSlide(s.player.sliding, inputs))
    BY <1>1 DEF StateOK
  <2> HIDE DEF moved, s2
  <2>3. StateOK(s2) /\ s2.bossUntil = s.bossUntil /\ s2.tick = s.tick /\ s2.fan = NoFan /\ s2.player = moved(s)
    BY <1>2, <2>1, <2>2 DEF StateOK, StateFields
  <2> QED
    BY <1>2, <2>2, <2>3, LiveIs DEF s2
<1>3. CASE s.fan # NoFan
  <2> DEFINE ls == s.fan.lanes
             ls2 == [t \in DOMAIN ls |-> [ls[t] EXCEPT !.player = moved(ls[t])]]
  <2>1. s2 = [s EXCEPT !.fan.lanes = ls2]
    BY <1>3 DEF moveTracks
  <2>2. LanesOK(ls)
    BY <1>3 DEF StateOK, FanOK
  <2>3. DOMAIN ls = 1..FAN_LANES /\ FAN_LANES \in Nat /\ 1 \in 1..FAN_LANES
    BY <2>2, LevelsAssumption DEF LanesOK, IsSeq
  <2> HIDE DEF ls, moved, s2
  <2>4. ASSUME NEW t \in 1..FAN_LANES
        PROVE  LaneOK(ls2[t]) /\ ls2[t].player = moved(ls[t]) /\ (moved(ls[t]).sliding => WillSlide(ls[t].player.sliding, inputs))
    <3>1. LaneOK(ls[t])
      BY <2>2 DEF LanesOK
    <3>2. PlayerOK(moved(ls[t])) /\ (moved(ls[t]).sliding => WillSlide(ls[t].player.sliding, inputs))
      BY <1>1, <3>1 DEF LaneOK
    <3>3. ls2[t] = [ls[t] EXCEPT !.player = moved(ls[t])]
      BY <2>3
    <3> HIDE DEF ls2
    <3> QED
      BY <3>1, <3>2, <3>3 DEF LaneOK
  <2>5. ls2 = [t \in 1..FAN_LANES |-> ls2[t]]
    BY <2>3
  <2> HIDE DEF ls2
  <2>6. LanesOK(ls2)
    BY <2>3, <2>4, <2>5, FcnSeq DEF LanesOK
  <2>7. StateOK(s2) /\ s2.bossUntil = s.bossUntil /\ s2.tick = s.tick /\ s2.fan # NoFan /\ s2.fan.lanes = ls2
    BY <1>3, <2>1, <2>6, LanesChange
  <2>8. livePlayer(s2) = ls2[1].player /\ livePlayer(s) = ls[1].player
    BY <1>3, <2>7, LiveIs DEF ls
  <2> QED
    BY <2>3, <2>4, <2>7, <2>8 DEF s2
<1> QED
  BY <1>2, <1>3

\* Scrolling a track leaves a sequence.
LEMMA TrackScrolls ==
  ASSUME NEW es, IsSeq(es)
  PROVE  IsSeq(scrollTrack(es))
<1> DEFINE scrolled == [i \in DOMAIN es |-> [es[i] EXCEPT !.x = @ - 1]]
           K == {i \in DOMAIN es : scrolled[i].x + Width(scrolled[i]) > 0}
<1>1. Len(es) \in Nat /\ DOMAIN es = 1..Len(es)
  BY DEF IsSeq
<1>2. K \subseteq 1..Len(es)
  BY <1>1
<1>3. scrollTrack(es) = AtPlaces(scrolled, K)
  BY DEF scrollTrack
<1> HIDE DEF K, scrolled
<1> QED
  BY <1>1, <1>2, <1>3, PlacesSeq

\* Scrolling moves no hat.
LEMMA TracksScroll ==
  ASSUME NEW s, StateOK(s)
  PROVE  Kept(s, scrollTracks(s))
<1> DEFINE s2 == scrollTracks(s)
           r == [s EXCEPT !.scroll = @ + 1]
<1>0. StateOK(r) /\ r.bossUntil = s.bossUntil /\ r.tick = s.tick /\ r.fan = s.fan /\ r.player = s.player
  BY DEF StateOK, StateFields
<1>2. CASE s.fan = NoFan
  <2>1. s2 = [r EXCEPT !.entities = scrollTrack(s.entities)]
    BY <1>2 DEF scrollTracks
  <2>2. IsSeq(scrollTrack(s.entities))
    BY TrackScrolls DEF StateOK
  <2> HIDE DEF r, s2
  <2>3. StateOK(s2) /\ s2.bossUntil = s.bossUntil /\ s2.tick = s.tick /\ s2.fan = NoFan /\ s2.player = s.player
    BY <1>0, <1>2, <2>1, <2>2 DEF StateOK, StateFields
  <2> QED
    BY <1>2, <2>3, LiveIs DEF s2, Kept
<1>3. CASE s.fan # NoFan
  <2> DEFINE ls == s.fan.lanes
             ls2 == [t \in DOMAIN ls |-> [ls[t] EXCEPT !.entities = scrollTrack(ls[t].entities)]]
  <2>1. s2 = [r EXCEPT !.fan.lanes = ls2]
    <3>1. r.fan.lanes = ls
      BY <1>0
    <3>2. s2 = [r EXCEPT !.fan.lanes = [t \in DOMAIN @ |-> [@[t] EXCEPT !.entities = scrollTrack(s.fan.lanes[t].entities)]]]
      BY <1>3 DEF scrollTracks
    <3> HIDE DEF s2, r
    <3> QED
      BY <3>1, <3>2
  <2>2. LanesOK(ls)
    BY <1>3 DEF StateOK, FanOK
  <2>3. DOMAIN ls = 1..FAN_LANES /\ FAN_LANES \in Nat /\ 1 \in 1..FAN_LANES
    BY <2>2, LevelsAssumption DEF LanesOK, IsSeq
  <2> HIDE DEF ls, s2, r
  <2>4. ASSUME NEW t \in 1..FAN_LANES
        PROVE  LaneOK(ls2[t]) /\ ls2[t].player = ls[t].player
    <3>1. LaneOK(ls[t])
      BY <2>2 DEF LanesOK
    <3>2. IsSeq(scrollTrack(ls[t].entities))
      BY <3>1, TrackScrolls DEF LaneOK
    <3>3. ls2[t] = [ls[t] EXCEPT !.entities = scrollTrack(ls[t].entities)]
      BY <2>3
    <3> HIDE DEF ls2
    <3> QED
      BY <3>1, <3>2, <3>3 DEF LaneOK
  <2>5. ls2 = [t \in 1..FAN_LANES |-> ls2[t]]
    BY <2>3
  <2> HIDE DEF ls2
  <2>6. LanesOK(ls2)
    BY <2>3, <2>4, <2>5, FcnSeq DEF LanesOK
  <2>7. StateOK(s2) /\ s2.bossUntil = r.bossUntil /\ s2.tick = r.tick /\ s2.fan # NoFan /\ s2.fan.lanes = ls2
    BY <1>0, <1>3, <2>1, <2>6, LanesChange
  <2>8. livePlayer(s2) = ls2[1].player /\ livePlayer(s) = ls[1].player
    BY <1>3, <2>7, LiveIs DEF ls
  <2> QED
    BY <1>0, <1>3, <2>3, <2>4, <2>7, <2>8 DEF s2, Kept
<1> QED
  BY <1>2, <1>3

\* Keeping twice is keeping.
LEMMA KeptTwice ==
  ASSUME NEW s, NEW s2, NEW s3, Kept(s, s2), Kept(s2, s3)
  PROVE  Kept(s, s3)
BY DEF Kept

\* A state keeps itself.
LEMMA KeptSelf ==
  ASSUME NEW s, StateOK(s)
  PROVE  Kept(s, s)
BY DEF Kept

\* A state that differs in numbers and entities only is kept.
LEMMA KeptBy ==
  ASSUME NEW s, StateOK(s), NEW s2, DOMAIN s2 = StateFields, IsSeq(s2.entities),
         s2.bossUntil = s.bossUntil, s2.tick = s.tick, s2.fan = s.fan, s2.player = s.player
  PROVE  Kept(s, s2)
<1>1. StateOK(s2)
  BY DEF StateOK
<1>2. livePlayer(s2) = livePlayer(s)
  BY LiveIs
<1> QED
  BY <1>1, <1>2 DEF Kept

\* Spawning on the main track.
LEMMA MainSpawns ==
  ASSUME NEW s, StateOK(s), NEW cfg
  PROVE  Kept(s, spawnMain(s, cfg)) /\ spawnMain(s, cfg).fan = s.fan
<1> DEFINE gate == [id |-> s.nextId, kind |-> "fanout", x |-> SPAWN_X, taken |-> FALSE]
           e == spawn(IF s.bossUntil > 0 THEN cfg.bossKinds ELSE cfg.kinds, s, SPAWN_X)
           s1 == [s EXCEPT !.entities = Append(@, gate), !.nextId = @ + 1]
           s2 == [s EXCEPT !.entities = Append(@, e), !.rng = nextRandom(@), !.nextId = @ + 1, !.nextSpawnAt = @ + GAP]
<1>1. spawnMain(s, cfg) \in {s, s1, s2}
  BY DEF spawnMain
<1>2. DOMAIN s = StateFields /\ IsSeq(s.entities)
  BY DEF StateOK
<1> HIDE DEF gate, e
<1>3. IsSeq(Append(s.entities, gate)) /\ IsSeq(Append(s.entities, e))
  BY <1>2, AppendSeq
<1>4. /\ DOMAIN s1 = StateFields /\ s1.entities = Append(s.entities, gate)
      /\ s1.bossUntil = s.bossUntil /\ s1.tick = s.tick /\ s1.fan = s.fan /\ s1.player = s.player
  BY <1>2 DEF StateFields
<1>5. /\ DOMAIN s2 = StateFields /\ s2.entities = Append(s.entities, e)
      /\ s2.bossUntil = s.bossUntil /\ s2.tick = s.tick /\ s2.fan = s.fan /\ s2.player = s.player
  BY <1>2 DEF StateFields
<1> HIDE DEF s1, s2
<1>6. Kept(s, s1) /\ Kept(s, s2) /\ Kept(s, s)
  BY <1>3, <1>4, <1>5, KeptBy, KeptSelf
<1> QED
  BY <1>1, <1>4, <1>5, <1>6

\* One lane changed, its hat not sliding more than before.
LEMMA LaneKept ==
  ASSUME NEW s, StateOK(s), s.fan # NoFan, NEW t, t \in 1..FAN_LANES, NEW l, LaneOK(l),
         l.player.sliding => s.fan.lanes[t].player.sliding,
         NEW s2, DOMAIN s2 = StateFields, s2.fan = [s.fan EXCEPT !.lanes = [@ EXCEPT ![t] = l]],
         s2.bossUntil = s.bossUntil, s2.tick = s.tick, s2.player = s.player, s2.entities = s.entities
  PROVE  Kept(s, s2)
<1> DEFINE ls == s.fan.lanes
           ls2 == [ls EXCEPT ![t] = l]
<1>1. LanesOK(ls) /\ DOMAIN s.fan = {"until", "lanes"} /\ DOMAIN s = StateFields
  BY DEF StateOK, FanOK
<1>2. LanesOK(ls2) /\ \A u \in 1..FAN_LANES : ls2[u] = IF u = t THEN l ELSE ls[u]
  <2> HIDE DEF ls
  <2>1. IsSeq(ls2) /\ Len(ls2) = FAN_LANES /\ DOMAIN ls = 1..FAN_LANES
    <3>1. IsSeq(ls) /\ Len(ls) = FAN_LANES
      BY <1>1 DEF LanesOK
    <3>2. \A i, v : IsSeq([ls EXCEPT ![i] = v]) /\ Len([ls EXCEPT ![i] = v]) = Len(ls) /\ DOMAIN ls = 1..Len(ls)
      BY <3>1, ChangedSeq
    <3> QED
      BY <3>1, <3>2
  <2>2. \A u \in 1..FAN_LANES : ls2[u] = IF u = t THEN l ELSE ls[u]
    BY <2>1
  <2> HIDE DEF ls2
  <2> QED
    BY <1>1, <2>1, <2>2 DEF LanesOK
<1>3. s2.fan = [s.fan EXCEPT !.lanes = ls2]
  OBVIOUS
<1>4. 1 \in 1..FAN_LANES
  BY LevelsAssumption
<1> HIDE DEF ls2
<1>5. DOMAIN s2.fan = {"until", "lanes"} /\ s2.fan.lanes = ls2
  BY <1>1, <1>3
<1>6. s2.fan # NoFan
  BY <1>2, <1>5, LanesAreFan
<1>7. livePlayer(s2) = ls2[1].player /\ livePlayer(s) = ls[1].player
  BY <1>5, <1>6, LiveIs
<1>8. StateOK(s2)
  BY <1>2, <1>5 DEF StateOK, FanOK
<1> HIDE DEF ls
<1>9. livePlayer(s2).sliding => livePlayer(s).sliding
  BY <1>2, <1>4, <1>7 DEF ls
<1> QED
  BY <1>6, <1>8, <1>9 DEF Kept

\* Spawning on one lane.
LEMMA LaneSpawns ==
  ASSUME NEW s, StateOK(s), s.fan # NoFan, NEW cfg, NEW t, t \in 1..FAN_LANES
  PROVE  Kept(s, spawnLane(s, cfg, t))
<1> DEFINE l == s.fan.lanes[t]
           e == spawn(cfg.laneKinds, s, SPAWN_X)
           l2 == [l EXCEPT !.entities = Append(@, e), !.nextSpawnAt = @ + GAP]
           s2 == [s EXCEPT !.fan.lanes[t] = l2, !.rng = nextRandom(@), !.nextId = @ + 1]
<1>1. spawnLane(s, cfg, t) \in {s, s2}
  BY DEF spawnLane
<1>2. LaneOK(l)
  BY DEF StateOK, FanOK, LanesOK
<1>3. DOMAIN s = StateFields /\ DOMAIN s.fan = {"until", "lanes"} /\ DOMAIN s.fan.lanes = 1..FAN_LANES
  BY DEF StateOK, FanOK, LanesOK, IsSeq
<1>4. LaneOK(l2) /\ l2.player = l.player
  <2> HIDE DEF l, e
  <2>1. IsSeq(Append(l.entities, e))
    BY <1>2, AppendSeq DEF LaneOK
  <2> QED
    BY <1>2, <2>1 DEF LaneOK
<1>5. /\ DOMAIN s2 = StateFields /\ s2.fan = [s.fan EXCEPT !.lanes = [@ EXCEPT ![t] = l2]]
      /\ s2.bossUntil = s.bossUntil /\ s2.tick = s.tick /\ s2.player = s.player /\ s2.entities = s.entities
  <2> HIDE DEF l2
  <2> QED
    BY <1>3 DEF StateFields
<1> HIDE DEF s2, l2, e
<1>6. l2.player.sliding => s.fan.lanes[t].player.sliding
  BY <1>4
<1> HIDE DEF l
<1>7. Kept(s, s2)
  BY <1>4, <1>5, <1>6, LaneKept
<1> QED
  BY <1>1, <1>7, KeptSelf

\* Spawning on every lane.
LEMMA LanesSpawn ==
  ASSUME NEW s, StateOK(s), s.fan # NoFan, NEW cfg
  PROVE  Kept(s, spawnLanes(s, cfg))
<1>1. CASE s.fan.until - s.tick <= SPAWN_X + FAN_CLEAR
  BY <1>1, KeptSelf DEF spawnLanes
<1>2. CASE ~(s.fan.until - s.tick <= SPAWN_X + FAN_CLEAR)
  <2>1. PICK f : /\ f[0] = s
                 /\ \A n \in 1..FAN_LANES : f[n] = spawnLane(f[n - 1], cfg, n)
                 /\ spawnLanes(s, cfg) = f[FAN_LANES]
    BY <1>2, SpawnUnfolds
  <2> DEFINE Good(n) == Kept(s, f[n])
             Bad == {n \in 0..FAN_LANES : ~Good(n)}
  <2>2. FAN_LANES \in Nat
    BY LevelsAssumption
  <2>3. Good(0)
    BY <2>1, KeptSelf
  <2>4. ASSUME NEW n, n \in 1..FAN_LANES, Good(n - 1) PROVE Good(n)
    <3>1. f[n] = spawnLane(f[n - 1], cfg, n)
      BY <2>1, <2>4
    <3>2. StateOK(f[n - 1]) /\ f[n - 1].fan # NoFan
      BY <2>4 DEF Kept
    <3> DEFINE x == f[n - 1]
    <3> HIDE DEF x
    <3>3. Kept(x, spawnLane(x, cfg, n))
      BY <2>4, <3>2, LaneSpawns DEF x
    <3> QED
      BY <2>4, <3>1, <3>3, KeptTwice DEF x
  <2> HIDE DEF Good
  <2>5. Bad = {}
    <3> SUFFICES ASSUME Bad # {} PROVE FALSE
      OBVIOUS
    <3>1. Bad \subseteq Nat
      BY <2>2
    <3> HIDE DEF Bad
    <3>2. PICK m \in Bad : \A x \in Bad : m <= x
      BY <3>1, LeastNat
    <3>3. m \in 0..FAN_LANES /\ ~Good(m)
      BY DEF Bad
    <3>4. m # 0
      BY <2>3, <3>3
    <3>5. m \in 1..FAN_LANES /\ m - 1 \in 0..FAN_LANES /\ ~(m <= m - 1)
      BY <2>2, <3>3, <3>4
    <3>6. Good(m - 1)
      BY <3>2, <3>5 DEF Bad
    <3> QED
      BY <2>4, <3>3, <3>5, <3>6
  <2>6. Good(FAN_LANES)
    BY <2>2, <2>5
  <2> QED
    BY <2>1, <2>6 DEF Good
<1> QED
  BY <1>1, <1>2

\* A gate that is entered gives every lane the hat.
LEMMA GateEntered ==
  ASSUME NEW s, StateOK(s), s.fan = NoFan, NEW cfg
  PROVE  LET r == enterGate(s, cfg)
         IN /\ StateOK(r.s) /\ r.s.bossUntil = s.bossUntil /\ r.s.tick = s.tick
            /\ livePlayer(r.s) = livePlayer(s) /\ EventsOK(r.ev)
<1> DEFINE l == [player |-> s.player, entities |-> <<>>, nextSpawnAt |-> s.scroll + FAN_CLEAR, coins |-> 0]
           ls == [t \in 1..FAN_LANES |-> l]
           f == [until |-> s.tick + cfg.fanTicks, lanes |-> ls]
           s2 == [s EXCEPT !.entities = <<>>, !.fan = f]
           ev == <<Event("FanOut", s, 0, 0)>>
           r == enterGate(s, cfg)
<1>1. r = [s |-> s2, ev |-> ev] \/ r = [s |-> s, ev |-> <<>>]
  BY DEF enterGate
<1>2. IsSeq(<<>>)
  BY NoneSeq
<1>3. LaneOK(l) /\ l.player = s.player
  BY <1>2 DEF LaneOK, StateOK
<1> HIDE DEF l
<1>4. FAN_LANES \in Nat /\ 1 \in 1..FAN_LANES
  BY LevelsAssumption
<1>5. ls = [t \in 1..FAN_LANES |-> ls[t]] /\ \A t \in 1..FAN_LANES : ls[t] = l
  OBVIOUS
<1> HIDE DEF ls
<1>6. LanesOK(ls)
  BY <1>3, <1>4, <1>5, FcnSeq DEF LanesOK
<1>7. DOMAIN f = {"until", "lanes"} /\ f.lanes = ls
  OBVIOUS
<1> HIDE DEF f
<1>8. f # NoFan
  BY <1>6, <1>7, LanesAreFan
<1>9. /\ DOMAIN s2 = StateFields /\ s2.entities = <<>> /\ s2.fan = f
      /\ s2.bossUntil = s.bossUntil /\ s2.tick = s.tick /\ s2.player = s.player
  BY DEF StateOK, StateFields
<1> HIDE DEF s2
<1>10. StateOK(s2)
  BY <1>2, <1>6, <1>7, <1>9 DEF StateOK, FanOK
<1>11. livePlayer(s2) = livePlayer(s)
  BY <1>3, <1>4, <1>5, <1>7, <1>8, <1>9, LiveIs
<1>12. EventsOK(ev)
  <2> DEFINE e == Event("FanOut", s, 0, 0)
  <2>1. EventOK(e)
    BY EventMade
  <2> HIDE DEF e
  <2>2. ev = [k \in 1..1 |-> ev[k]] /\ ev[1] = e
    BY DEF e
  <2>3. IsSeq(ev) /\ Len(ev) = 1
    BY <2>2, FcnSeq
  <2> HIDE DEF ev
  <2> QED
    BY <2>1, <2>2, <2>3 DEF EventsOK
<1> HIDE DEF ev, r
<1>13. CASE r = [s |-> s2, ev |-> ev]
  BY <1>9, <1>10, <1>11, <1>12, <1>13 DEF r
<1>14. CASE r = [s |-> s, ev |-> <<>>]
  BY <1>2, <1>14, NoEvents DEF r
<1> QED
  BY <1>1, <1>13, <1>14

\* Spawning, on the main track or on the lanes.
LEMMA AllSpawn ==
  ASSUME NEW s, StateOK(s), NEW cfg
  PROVE  LET r == spawnAll(s, cfg)
         IN /\ StateOK(r.s) /\ r.s.bossUntil = s.bossUntil /\ r.s.tick = s.tick
            /\ (livePlayer(r.s).sliding => livePlayer(s).sliding) /\ EventsOK(r.ev)
<1>1. CASE s.fan # NoFan
  <2>1. Kept(s, spawnLanes(s, cfg))
    BY <1>1, LanesSpawn
  <2>2. spawnAll(s, cfg) = [s |-> spawnLanes(s, cfg), ev |-> <<>>]
    BY <1>1 DEF spawnAll
  <2> QED
    BY <2>1, <2>2, NoEvents DEF Kept
<1>2. CASE s.fan = NoFan
  <2> DEFINE m == spawnMain(s, cfg)
  <2>1. spawnAll(s, cfg) = enterGate(m, cfg)
    BY <1>2 DEF spawnAll
  <2>2. Kept(s, m) /\ m.fan = NoFan
    BY <1>2, MainSpawns
  <2> HIDE DEF m
  <2>3. LET r == enterGate(m, cfg)
        IN /\ StateOK(r.s) /\ r.s.bossUntil = m.bossUntil /\ r.s.tick = m.tick
           /\ livePlayer(r.s) = livePlayer(m) /\ EventsOK(r.ev)
    BY <2>2, GateEntered DEF Kept
  <2> QED
    BY <2>1, <2>2, <2>3 DEF Kept
<1> QED
  BY <1>1, <1>2

-----------------------------------------------------------------------------
(* Hits and pickups. *)

IsTrack(s, t) == IF s.fan = NoFan THEN t = 1 ELSE t \in 1..FAN_LANES

\* The tracks of a state.
LEMMA TracksAre ==
  ASSUME NEW s, StateOK(s)
  PROVE  /\ Len(tracks(s)) \in Nat /\ \A t \in 1..Len(tracks(s)) : IsTrack(s, t)
         /\ \A t : IsTrack(s, t) => PlayerOK(tracks(s)[t].player) /\ IsSeq(tracks(s)[t].entities)
<1>1. CASE s.fan = NoFan
  <2> DEFINE r == [player |-> s.player, entities |-> s.entities]
             x == <<r>>
  <2>1. tracks(s) = x
    BY <1>1 DEF tracks
  <2>2. r.player = s.player /\ r.entities = s.entities
    OBVIOUS
  <2> HIDE DEF r
  <2>3. Len(x) = 1 /\ x[1] = r
    OBVIOUS
  <2> HIDE DEF x
  <2>4. PlayerOK(r.player) /\ IsSeq(r.entities)
    BY <2>2 DEF StateOK
  <2> QED
    BY <1>1, <2>1, <2>3, <2>4 DEF IsTrack
<1>2. CASE s.fan # NoFan
  <2>1. tracks(s) = s.fan.lanes
    BY <1>2 DEF tracks
  <2>2. LanesOK(s.fan.lanes) /\ FAN_LANES \in Nat
    BY <1>2, LevelsAssumption DEF StateOK, FanOK
  <2> QED
    BY <1>2, <2>1, <2>2 DEF IsTrack, LanesOK, LaneOK
<1> QED
  BY <1>1, <1>2

\* Another hat on a track, not sliding more than the old one.
LEMMA WithPlayerKept ==
  ASSUME NEW s, StateOK(s), NEW t, IsTrack(s, t), NEW p, PlayerOK(p), p.sliding => tracks(s)[t].player.sliding
  PROVE  Kept(s, WithPlayer(s, t, p))
<1> DEFINE s2 == WithPlayer(s, t, p)
<1>0. DOMAIN s = StateFields
  BY DEF StateOK
<1>1. CASE s.fan = NoFan
  <2>1. s2 = [s EXCEPT !.player = p]
    BY <1>1 DEF WithPlayer
  <2>2. tracks(s)[t].player = s.player
    BY <1>1 DEF tracks, IsTrack
  <2> HIDE DEF s2
  <2>3. /\ DOMAIN s2 = StateFields /\ s2.bossUntil = s.bossUntil /\ s2.tick = s.tick /\ s2.fan = s.fan
        /\ s2.player = p /\ s2.entities = s.entities
    BY <1>0, <2>1 DEF StateFields
  <2>4. StateOK(s2)
    BY <2>3 DEF StateOK
  <2>5. livePlayer(s2) = p /\ livePlayer(s) = s.player
    BY <1>1, <2>3, LiveIs
  <2> QED
    BY <2>2, <2>3, <2>4, <2>5 DEF Kept, s2
<1>2. CASE s.fan # NoFan
  <2> DEFINE l == s.fan.lanes[t]
             l2 == [l EXCEPT !.player = p]
  <2>1. s2 = [s EXCEPT !.fan.lanes[t].player = p]
    BY <1>2 DEF WithPlayer
  <2>2. tracks(s)[t] = l /\ t \in 1..FAN_LANES
    BY <1>2 DEF tracks, IsTrack
  <2>3. LaneOK(l) /\ DOMAIN s.fan = {"until", "lanes"} /\ DOMAIN s.fan.lanes = 1..FAN_LANES
    BY <1>2, <2>2 DEF StateOK, FanOK, LanesOK, IsSeq
  <2>4. LaneOK(l2) /\ l2.player = p
    <3> HIDE DEF l
    <3> QED
      BY <2>3 DEF LaneOK
  <2>5. s2 = [s EXCEPT !.fan.lanes[t] = l2]
    BY <2>1
  <2> HIDE DEF s2, l2
  <2>6. /\ DOMAIN s2 = StateFields /\ s2.bossUntil = s.bossUntil /\ s2.tick = s.tick
        /\ s2.fan = [s.fan EXCEPT !.lanes = [@ EXCEPT ![t] = l2]]
        /\ s2.player = s.player /\ s2.entities = s.entities
    BY <1>0, <2>5 DEF StateFields
  <2>7. l2.player.sliding => s.fan.lanes[t].player.sliding
    BY <2>2, <2>4
  <2> HIDE DEF l
  <2> QED
    BY <1>2, <2>2, <2>4, <2>6, <2>7, LaneKept DEF s2
<1> QED
  BY <1>1, <1>2

\* Other entities on a track.
LEMMA WithEntitiesKept ==
  ASSUME NEW s, StateOK(s), NEW t, IsTrack(s, t), NEW es, IsSeq(es)
  PROVE  Kept(s, WithEntities(s, t, es))
<1> DEFINE s2 == WithEntities(s, t, es)
<1>0. DOMAIN s = StateFields
  BY DEF StateOK
<1>1. CASE s.fan = NoFan
  <2>1. s2 = [s EXCEPT !.entities = es]
    BY <1>1 DEF WithEntities
  <2> HIDE DEF s2
  <2>3. /\ DOMAIN s2 = StateFields /\ s2.bossUntil = s.bossUntil /\ s2.tick = s.tick /\ s2.fan = s.fan
        /\ s2.player = s.player /\ s2.entities = es
    BY <1>0, <2>1 DEF StateFields
  <2> QED
    BY <2>3, KeptBy DEF s2
<1>2. CASE s.fan # NoFan
  <2> DEFINE l == s.fan.lanes[t]
             l2 == [l EXCEPT !.entities = es]
  <2>1. s2 = [s EXCEPT !.fan.lanes[t].entities = es]
    BY <1>2 DEF WithEntities
  <2>2. t \in 1..FAN_LANES
    BY <1>2 DEF IsTrack
  <2>3. LaneOK(l) /\ DOMAIN s.fan = {"until", "lanes"} /\ DOMAIN s.fan.lanes = 1..FAN_LANES
    BY <1>2, <2>2 DEF StateOK, FanOK, LanesOK, IsSeq
  <2>4. LaneOK(l2) /\ l2.player = l.player
    <3> HIDE DEF l
    <3> QED
      BY <2>3 DEF LaneOK
  <2>5. s2 = [s EXCEPT !.fan.lanes[t] = l2]
    BY <2>1
  <2> HIDE DEF s2, l2
  <2>6. /\ DOMAIN s2 = StateFields /\ s2.bossUntil = s.bossUntil /\ s2.tick = s.tick
        /\ s2.fan = [s.fan EXCEPT !.lanes = [@ EXCEPT ![t] = l2]]
        /\ s2.player = s.player /\ s2.entities = s.entities
    BY <1>0, <2>5 DEF StateFields
  <2>7. l2.player.sliding => s.fan.lanes[t].player.sliding
    BY <2>4
  <2> HIDE DEF l
  <2> QED
    BY <1>2, <2>2, <2>4, <2>6, <2>7, LaneKept DEF s2
<1> QED
  BY <1>1, <1>2

\* What goes on from an accumulator.
LEMMA AccGoesOn ==
  ASSUME NEW s, NEW a, AccOK(a, s), NEW b, DOMAIN b = {"s", "ev", "calls", "hit"}, Kept(a.s, b.s), EventsOK(b.ev)
  PROVE  AccOK(b, s)
BY KeptTwice DEF AccOK

\* A hat that bounces no longer slides.
LEMMA BounceKept ==
  ASSUME NEW s, NEW a, AccOK(a, s), NEW t, IsTrack(a.s, t), NEW pit
  PROVE  AccOK(bounce(a, t, pit), s)
<1> DEFINE p == tracks(a.s)[t].player
           q == [p EXCEPT !.y = JUMP_TICKS, !.sliding = FALSE]
           b == [a EXCEPT !.s = WithPlayer(a.s, t, q)]
<1>1. bounce(a, t, pit) \in {a, b}
  BY DEF bounce
<1>2. StateOK(a.s) /\ DOMAIN a = {"s", "ev", "calls", "hit"} /\ EventsOK(a.ev)
  BY DEF AccOK, Kept
<1>3. PlayerOK(p)
  BY <1>2, TracksAre
<1>4. PlayerOK(q) /\ ~q.sliding
  <2> HIDE DEF p
  <2> QED
    BY <1>3 DEF PlayerOK
<1> HIDE DEF p, q
<1>5. Kept(a.s, WithPlayer(a.s, t, q))
  BY <1>2, <1>4, WithPlayerKept
<1>6. DOMAIN b = {"s", "ev", "calls", "hit"} /\ b.s = WithPlayer(a.s, t, q) /\ b.ev = a.ev
  BY <1>2
<1> HIDE DEF b
<1>7. AccOK(b, s)
  BY <1>2, <1>5, <1>6, AccGoesOn
<1> QED
  BY <1>1, <1>7

\* An entity that is taken.
LEMMA TakenKept ==
  ASSUME NEW s, StateOK(s), NEW t, IsTrack(s, t), NEW i
  PROVE  Kept(s, WithEntities(s, t, [tracks(s)[t].entities EXCEPT ![i].taken = TRUE]))
<1> DEFINE es == tracks(s)[t].entities
           v == [es[i] EXCEPT !.taken = TRUE]
<1>1. IsSeq(es)
  BY TracksAre
<1>2. [es EXCEPT ![i].taken = TRUE] = [es EXCEPT ![i] = v]
  OBVIOUS
<1> HIDE DEF es, v
<1>3. IsSeq([es EXCEPT ![i] = v])
  BY <1>1, ChangedSeq
<1> QED
  BY <1>2, <1>3, WithEntitiesKept DEF es

\* A hit costs a shield, a boost, a retry or the run.
LEMMA HitKept ==
  ASSUME NEW s, NEW a, AccOK(a, s), NEW cfg, NEW t, IsTrack(a.s, t), NEW i
  PROVE  AccOK(resolveHit(a, cfg, t, i), s)
<1> DEFINE s0 == a.s
           pit == i = 0
           id == IF pit THEN 0 ELSE tracks(s0)[t].entities[i].id
           e1 == Event("CircuitBreakerTripped", s0, id, 0)
           e2 == Event("BoostLost", s0, id, 0)
           a1 == [a EXCEPT !.s.shield = 0, !.s.graceUntil = s0.tick + GRACE_BARGE, !.ev = Append(@, e1)]
           a2 == [a EXCEPT !.s.multiplier = 1, !.s.multUntil = s0.tick,
                           !.s.graceUntil = s0.tick + GRACE_BOOST, !.ev = Append(@, e2)]
           a3 == [a EXCEPT !.s.status = "retry", !.s.failedAt = s0.tick]
           a4 == [a EXCEPT !.s.status = "failed"]
           smashed == [a1 EXCEPT !.s = WithEntities(a1.s, t, [tracks(a1.s)[t].entities EXCEPT ![i].taken = TRUE])]
<1>1. resolveHit(a, cfg, t, i) \in
        {bounce(a, t, pit), bounce(a1, t, TRUE), smashed, bounce(a2, t, pit), a3, a4}
  BY Zenon DEF resolveHit
<1>2. DOMAIN a = {"s", "ev", "calls", "hit"} /\ EventsOK(a.ev) /\ StateOK(a.s) /\ DOMAIN a.s = StateFields
  BY DEF AccOK, Kept, StateOK
<1>0. EventOK(e1) /\ EventOK(e2)
  BY EventMade
<1> HIDE DEF pit, e1, e2
<1>3. EventsOK(Append(a.ev, e1)) /\ EventsOK(Append(a.ev, e2))
  BY <1>0, <1>2, EventsGrow
<1>4. /\ DOMAIN a1 = {"s", "ev", "calls", "hit"} /\ a1.ev = Append(a.ev, e1)
      /\ DOMAIN a1.s = StateFields /\ a1.s.entities = a.s.entities /\ a1.s.bossUntil = a.s.bossUntil
      /\ a1.s.tick = a.s.tick /\ a1.s.fan = a.s.fan /\ a1.s.player = a.s.player
  BY <1>2 DEF StateFields
<1>5. /\ DOMAIN a2 = {"s", "ev", "calls", "hit"} /\ a2.ev = Append(a.ev, e2)
      /\ DOMAIN a2.s = StateFields /\ a2.s.entities = a.s.entities /\ a2.s.bossUntil = a.s.bossUntil
      /\ a2.s.tick = a.s.tick /\ a2.s.fan = a.s.fan /\ a2.s.player = a.s.player
  BY <1>2 DEF StateFields
<1>6. /\ DOMAIN a3 = {"s", "ev", "calls", "hit"} /\ a3.ev = a.ev
      /\ DOMAIN a3.s = StateFields /\ a3.s.entities = a.s.entities /\ a3.s.bossUntil = a.s.bossUntil
      /\ a3.s.tick = a.s.tick /\ a3.s.fan = a.s.fan /\ a3.s.player = a.s.player
  BY <1>2 DEF StateFields
<1>7. /\ DOMAIN a4 = {"s", "ev", "calls", "hit"} /\ a4.ev = a.ev
      /\ DOMAIN a4.s = StateFields /\ a4.s.entities = a.s.entities /\ a4.s.bossUntil = a.s.bossUntil
      /\ a4.s.tick = a.s.tick /\ a4.s.fan = a.s.fan /\ a4.s.player = a.s.player
  BY <1>2 DEF StateFields
<1>8. IsSeq(a.s.entities)
  BY <1>2 DEF StateOK
<1> HIDE DEF a1, a2, a3, a4
<1>9. Kept(a.s, a1.s) /\ Kept(a.s, a2.s) /\ Kept(a.s, a3.s) /\ Kept(a.s, a4.s)
  BY <1>2, <1>4, <1>5, <1>6, <1>7, <1>8, KeptBy
<1>10. AccOK(a1, s) /\ AccOK(a2, s) /\ AccOK(a3, s) /\ AccOK(a4, s)
  BY <1>2, <1>3, <1>4, <1>5, <1>6, <1>7, <1>9, AccGoesOn
<1>11. IsTrack(a1.s, t) /\ IsTrack(a2.s, t) /\ StateOK(a1.s)
  BY <1>4, <1>5, <1>9 DEF IsTrack, Kept
<1>12. AccOK(bounce(a, t, pit), s) /\ AccOK(bounce(a1, t, TRUE), s) /\ AccOK(bounce(a2, t, pit), s)
  BY <1>10, <1>11, BounceKept
<1>13. AccOK(smashed, s)
  <2> DEFINE w == WithEntities(a1.s, t, [tracks(a1.s)[t].entities EXCEPT ![i].taken = TRUE])
  <2>1. Kept(a1.s, w)
    BY <1>11, TakenKept
  <2> HIDE DEF w
  <2>2. smashed = [a1 EXCEPT !.s = w]
    BY DEF w
  <2>3. DOMAIN smashed = {"s", "ev", "calls", "hit"} /\ smashed.s = w /\ smashed.ev = a1.ev
    BY <1>4, <2>2
  <2> HIDE DEF smashed
  <2> QED
    BY <1>3, <1>4, <1>10, <2>1, <2>3, AccGoesOn
<1> HIDE DEF smashed
<1> QED
  BY <1>1, <1>10, <1>12, <1>13

\* A coin counted on a lane.
LEMMA CoinKept ==
  ASSUME NEW s, StateOK(s), s.fan # NoFan, NEW t, t \in 1..FAN_LANES
  PROVE  Kept(s, [s EXCEPT !.fan.lanes[t].coins = @ + 1])
<1> DEFINE l == s.fan.lanes[t]
           l2 == [l EXCEPT !.coins = @ + 1]
           s2 == [s EXCEPT !.fan.lanes[t].coins = @ + 1]
<1>1. LaneOK(l) /\ DOMAIN s = StateFields
  BY DEF StateOK, FanOK, LanesOK
<1>2. LaneOK(l2) /\ l2.player = l.player
  <2> HIDE DEF l
  <2> QED
    BY <1>1 DEF LaneOK
<1>3. s2 = [s EXCEPT !.fan.lanes[t] = l2]
  OBVIOUS
<1> HIDE DEF s2, l2
<1>4. /\ DOMAIN s2 = StateFields /\ s2.bossUntil = s.bossUntil /\ s2.tick = s.tick
      /\ s2.fan = [s.fan EXCEPT !.lanes = [@ EXCEPT ![t] = l2]]
      /\ s2.player = s.player /\ s2.entities = s.entities
  BY <1>1, <1>3 DEF StateFields
<1>5. l2.player.sliding => s.fan.lanes[t].player.sliding
  BY <1>2
<1>6. LaneOK(l2)
  BY <1>2
<1>7. Kept(s, s2)
  BY <1>4, <1>5, <1>6, LaneKept
<1> QED
  BY <1>7 DEF s2

\* A pickup counts, boosts and mixes; it moves no hat.
LEMMA PickupKept ==
  ASSUME NEW s, NEW a, AccOK(a, s), NEW cfg, NEW t, IsTrack(a.s, t), NEW i, NEW ports
  PROVE  AccOK(pickup(a, cfg, t, i, ports), s)
<1> DEFINE e == tracks(a.s)[t].entities[i]
           w == WithEntities(a.s, t, [tracks(a.s)[t].entities EXCEPT ![i].taken = TRUE])
           coined == [w EXCEPT !.score = @ + w.multiplier,
                               !.shield = IF cfg.shieldEnabled /\ @ < SHIELD_FULL THEN @ + 1 ELSE @]
           laned == [coined EXCEPT !.fan.lanes[t].coins = @ + 1]
           known == e.id \in DOMAIN ports.crates
           v == IF e.kind = "crate" /\ known THEN ports.crates[e.id] ELSE ports.impure
           mixed == [w EXCEPT !.rng = mix(@, v)]
           boosted == boost(mixed)
           scored == [boosted EXCEPT !.score = @ + boosted.multiplier]
           x == IF w.fan = NoFan THEN coined ELSE laned
           e1 == Event("ActivityCoinCollected", w, e.id, 0)
           e2 == Event("OrbTaken", w, e.id, 0)
           e3 == Event("ActivityCrateCollected", w, e.id, v)
           a1 == [a EXCEPT !.s = x, !.ev = Append(@, e1)]
           a2 == [a EXCEPT !.s = boosted, !.calls = @ + 1, !.ev = Append(@, e2)]
           a3 == [a EXCEPT !.s = scored, !.calls = IF known THEN @ ELSE @ + 1, !.ev = Append(@, e3)]
<1>1. pickup(a, cfg, t, i, ports) \in {a1, a2, a3}
  BY Zenon DEF pickup
<1>2. DOMAIN a = {"s", "ev", "calls", "hit"} /\ EventsOK(a.ev) /\ StateOK(a.s)
  BY DEF AccOK, Kept
<1>3. Kept(a.s, w)
  BY <1>2, TakenKept
<1> HIDE DEF e, w, known, v
<1>4. StateOK(w) /\ DOMAIN w = StateFields /\ IsSeq(w.entities)
  BY <1>3 DEF Kept, StateOK
<1>5. IsTrack(w, t)
  BY <1>3 DEF Kept, IsTrack
<1>6. /\ DOMAIN coined = StateFields /\ coined.bossUntil = w.bossUntil /\ coined.tick = w.tick
      /\ coined.fan = w.fan /\ coined.player = w.player /\ coined.entities = w.entities
  BY <1>4 DEF StateFields
<1>7. /\ DOMAIN mixed = StateFields /\ mixed.bossUntil = w.bossUntil /\ mixed.tick = w.tick
      /\ mixed.fan = w.fan /\ mixed.player = w.player /\ mixed.entities = w.entities
  BY <1>4 DEF StateFields
<1>8. /\ DOMAIN boosted = StateFields /\ boosted.bossUntil = w.bossUntil /\ boosted.tick = w.tick
      /\ boosted.fan = w.fan /\ boosted.player = w.player /\ boosted.entities = w.entities
  <2> HIDE DEF mixed
  <2> QED
    BY <1>7 DEF StateFields, boost
<1>9. /\ DOMAIN scored = StateFields /\ scored.bossUntil = w.bossUntil /\ scored.tick = w.tick
      /\ scored.fan = w.fan /\ scored.player = w.player /\ scored.entities = w.entities
  <2> HIDE DEF boosted
  <2> QED
    BY <1>8 DEF StateFields
<1> HIDE DEF coined, mixed, boosted, scored
<1>10. Kept(w, coined) /\ Kept(w, boosted) /\ Kept(w, scored)
  BY <1>4, <1>6, <1>8, <1>9, KeptBy
<1>11. ASSUME w.fan # NoFan PROVE Kept(coined, laned)
  BY <1>5, <1>6, <1>10, <1>11, CoinKept DEF Kept, IsTrack
<1> HIDE DEF laned
<1>12. Kept(w, x)
  BY <1>10, <1>11, KeptTwice
<1> HIDE DEF x
<1>13. Kept(a.s, x) /\ Kept(a.s, boosted) /\ Kept(a.s, scored)
  BY <1>3, <1>10, <1>12, KeptTwice
<1>0. EventOK(e1) /\ EventOK(e2) /\ EventOK(e3)
  BY EventMade
<1> HIDE DEF e1, e2, e3
<1>14. EventsOK(Append(a.ev, e1)) /\ EventsOK(Append(a.ev, e2)) /\ EventsOK(Append(a.ev, e3))
  BY <1>0, <1>2, EventsGrow
<1>15. /\ DOMAIN a1 = {"s", "ev", "calls", "hit"} /\ a1.s = x /\ a1.ev = Append(a.ev, e1)
       /\ DOMAIN a2 = {"s", "ev", "calls", "hit"} /\ a2.s = boosted /\ a2.ev = Append(a.ev, e2)
       /\ DOMAIN a3 = {"s", "ev", "calls", "hit"} /\ a3.s = scored /\ a3.ev = Append(a.ev, e3)
  BY <1>2
<1> HIDE DEF a1, a2, a3
<1>16. AccOK(a1, s) /\ AccOK(a2, s) /\ AccOK(a3, s)
  BY <1>13, <1>14, <1>15, AccGoesOn
<1> QED
  BY <1>1, <1>16

\* The mark that this tick's hit was resolved.
LEMMA MarkKept ==
  ASSUME NEW s, NEW a, AccOK(a, s)
  PROVE  AccOK([a EXCEPT !.hit = TRUE], s)
<1> DEFINE b == [a EXCEPT !.hit = TRUE]
<1>1. DOMAIN b = {"s", "ev", "calls", "hit"} /\ b.s = a.s /\ b.ev = a.ev
  BY DEF AccOK
<1> HIDE DEF b
<1>2. AccOK(b, s)
  BY <1>1 DEF AccOK
<1> QED
  BY <1>2 DEF b

\* An entity that is touched.
LEMMA TouchKept ==
  ASSUME NEW s, NEW a, AccOK(a, s), NEW cfg, NEW t, IsTrack(s, t), NEW i, NEW p, NEW ports
  PROVE  AccOK(touchEntity(a, cfg, t, i, p, ports), s)
<1>1. IsTrack(a.s, t)
  BY DEF AccOK, Kept, IsTrack
<1>2. touchEntity(a, cfg, t, i, p, ports) \in
        {a, pickup(a, cfg, t, i, ports), [resolveHit(a, cfg, t, i) EXCEPT !.hit = TRUE]}
  BY Zenon DEF touchEntity
<1>3. AccOK(pickup(a, cfg, t, i, ports), s)
  BY <1>1, PickupKept
<1>4. AccOK(resolveHit(a, cfg, t, i), s)
  BY <1>1, HitKept
<1>5. AccOK([resolveHit(a, cfg, t, i) EXCEPT !.hit = TRUE], s)
  BY <1>4, MarkKept
<1> QED
  BY <1>2, <1>3, <1>5

\* A hat that sinks.
LEMMA SinkKept ==
  ASSUME NEW s, NEW a, AccOK(a, s), NEW cfg, NEW t, IsTrack(s, t)
  PROVE  AccOK(sink(a, cfg, t), s)
<1>1. IsTrack(a.s, t)
  BY DEF AccOK, Kept, IsTrack
<1>2. sink(a, cfg, t) \in {a, [resolveHit(a, cfg, t, 0) EXCEPT !.hit = TRUE]}
  BY Zenon DEF sink
<1>3. AccOK(resolveHit(a, cfg, t, 0), s)
  BY <1>1, HitKept
<1>4. AccOK([resolveHit(a, cfg, t, 0) EXCEPT !.hit = TRUE], s)
  BY <1>3, MarkKept
<1> QED
  BY <1>2, <1>4

\* The hits and pickups of one track.
LEMMA TrackCollides ==
  ASSUME NEW s, NEW a, AccOK(a, s), NEW cfg, NEW t, IsTrack(s, t), NEW ports
  PROVE  AccOK(collideTrack(a, cfg, t, ports), s)
<1> DEFINE N == Len(tracks(a.s)[t].entities)
           p == tracks(a.s)[t].player
<1>1. StateOK(a.s) /\ IsTrack(a.s, t)
  BY DEF AccOK, Kept, IsTrack
<1>2. N \in Nat
  BY <1>1, TracksAre DEF IsSeq
<1>3. PICK f : /\ f[0] = sink(a, cfg, t)
               /\ \A n \in 1..N : f[n] = touchEntity(f[n - 1], cfg, t, n, p, ports)
               /\ collideTrack(a, cfg, t, ports) = f[N]
  BY <1>2, TouchUnfolds
<1> HIDE DEF N, p
<1> DEFINE Good(n) == AccOK(f[n], s)
           Bad == {n \in 0..N : ~Good(n)}
<1>4. Good(0)
  BY <1>3, SinkKept
<1>5. ASSUME NEW n, n \in 1..N, Good(n - 1) PROVE Good(n)
  <2>1. f[n] = touchEntity(f[n - 1], cfg, t, n, p, ports)
    BY <1>3, <1>5
  <2> DEFINE x == f[n - 1]
  <2>2. AccOK(x, s)
    BY <1>5
  <2> HIDE DEF x
  <2>3. AccOK(touchEntity(x, cfg, t, n, p, ports), s)
    BY <2>2, TouchKept
  <2> QED
    BY <2>1, <2>3 DEF x
<1> HIDE DEF Good
<1>6. Bad = {}
  <2> SUFFICES ASSUME Bad # {} PROVE FALSE
    OBVIOUS
  <2>1. Bad \subseteq Nat
    BY <1>2
  <2> HIDE DEF Bad
  <2>2. PICK m \in Bad : \A x \in Bad : m <= x
    BY <2>1, LeastNat
  <2>3. m \in 0..N /\ ~Good(m)
    BY DEF Bad
  <2>4. m # 0
    BY <1>4, <2>3
  <2>5. m \in 1..N /\ m - 1 \in 0..N /\ ~(m <= m - 1)
    BY <1>2, <2>3, <2>4
  <2>6. Good(m - 1)
    BY <2>2, <2>5 DEF Bad
  <2> QED
    BY <1>5, <2>3, <2>5, <2>6
<1>7. Good(N)
  BY <1>2, <1>6
<1> QED
  BY <1>3, <1>7 DEF Good

\* The hits and pickups of a tick.
LEMMA AllCollide ==
  ASSUME NEW b, StateOK(b.s), EventsOK(b.ev), NEW cfg, NEW ports
  PROVE  AccOK(collide(b, cfg, ports), b.s)
<1> DEFINE s == b.s
           N == Len(tracks(s))
           z == Untouched(b)
<1>1. N \in Nat /\ \A t \in 1..N : IsTrack(s, t)
  BY TracksAre
<1>2. AccOK(z, s)
  BY KeptSelf DEF AccOK, Untouched
<1> DEFINE f == Collided(b, cfg, ports)
<1>3. /\ f[0] = z
      /\ \A n \in 1..N : f[n] = collideTrack(f[n - 1], cfg, n, ports)
      /\ collide(b, cfg, ports) = f[N]
  BY <1>1, CollideUnfolds
<1> HIDE DEF f
<1> HIDE DEF N, z
<1> DEFINE Good(n) == AccOK(f[n], s)
           Bad == {n \in 0..N : ~Good(n)}
<1>4. Good(0)
  BY <1>2, <1>3
<1> HIDE DEF s
<1>5. ASSUME NEW n, n \in 1..N, Good(n - 1) PROVE Good(n)
  <2>1. f[n] = collideTrack(f[n - 1], cfg, n, ports)
    BY <1>3, <1>5
  <2> DEFINE x == f[n - 1]
  <2>2. AccOK(x, s) /\ IsTrack(s, n)
    BY <1>1, <1>5
  <2> HIDE DEF x
  <2>3. AccOK(collideTrack(x, cfg, n, ports), s)
    BY <2>2, TrackCollides
  <2> QED
    BY <2>1, <2>3 DEF x
<1> HIDE DEF Good
<1>6. Bad = {}
  <2> SUFFICES ASSUME Bad # {} PROVE FALSE
    OBVIOUS
  <2>1. Bad \subseteq Nat
    BY <1>1
  <2> HIDE DEF Bad
  <2>2. PICK m \in Bad : \A x \in Bad : m <= x
    BY <2>1, LeastNat
  <2>3. m \in 0..N /\ ~Good(m)
    BY DEF Bad
  <2>4. m # 0
    BY <1>4, <2>3
  <2>5. m \in 1..N /\ m - 1 \in 0..N /\ ~(m <= m - 1)
    BY <1>1, <2>3, <2>4
  <2>6. Good(m - 1)
    BY <2>2, <2>5 DEF Bad
  <2> QED
    BY <1>5, <2>3, <2>5, <2>6
<1>7. Good(N)
  BY <1>1, <1>6
<1> QED
  BY <1>3, <1>7 DEF Good, s

\* What is left of a tick's state when the tick ends.
EndsAs(s, s2) ==
    /\ StateOK(s2) /\ s2.bossUntil = s.bossUntil
    /\ livePlayer(s2).sliding => livePlayer(s).sliding

\* The lanes merge into the hat of the lane the keys steer.
LEMMA LanesMerge ==
  ASSUME NEW s, NEW a, AccOK(a, s), NEW cfg
  PROVE  LET b == mergeLanes(a, cfg)
         IN /\ DOMAIN b = {"s", "ev", "calls", "hit"} /\ EndsAs(s, b.s) /\ b.s.tick = s.tick /\ EventsOK(b.ev)
<1> DEFINE b == mergeLanes(a, cfg)
           s0 == a.s
           s2 == [s0 EXCEPT !.player = s0.fan.lanes[MERGE_LANE].player, !.entities = <<>>, !.fan = NoFan,
                            !.nextGateAt = s0.distance + s0.scroll + cfg.fanEvery,
                            !.nextSpawnAt = s0.scroll + FAN_CLEAR]
           e == Event("FanIn", s0, 0, [t \in DOMAIN s0.fan.lanes |-> s0.fan.lanes[t].coins])
           b2 == [a EXCEPT !.s = s2, !.ev = Append(@, e)]
<1>1. DOMAIN a = {"s", "ev", "calls", "hit"} /\ EventsOK(a.ev) /\ StateOK(s0) /\ Kept(s, s0)
  BY DEF AccOK, Kept
<1>2. b = a \/ (s0.fan # NoFan /\ b = b2)
  BY DEF mergeLanes, fanIn
<1>3. CASE b = a
  BY <1>1, <1>3 DEF Kept, EndsAs
<1>4. CASE s0.fan # NoFan /\ b = b2
  <2>1. IsSeq(<<>>)
    BY NoneSeq
  <2>2. PlayerOK(s0.fan.lanes[1].player)
    <3>1. 1 \in 1..FAN_LANES
      BY LevelsAssumption
    <3> QED
      BY <1>1, <1>4, <3>1 DEF StateOK, FanOK, LanesOK, LaneOK
  <2>3. /\ DOMAIN s2 = StateFields /\ s2.player = s0.fan.lanes[1].player /\ s2.entities = <<>> /\ s2.fan = NoFan
        /\ s2.bossUntil = s0.bossUntil /\ s2.tick = s0.tick
    BY <1>1 DEF StateOK, StateFields, MERGE_LANE
  <2>0. EventOK(e)
    BY EventMade
  <2> HIDE DEF s2, e
  <2>4. StateOK(s2)
    BY <1>1, <2>1, <2>2, <2>3 DEF StateOK, FanOK
  <2>5. livePlayer(s2) = livePlayer(s0)
    BY <1>4, <2>3, LiveIs
  <2>6. DOMAIN b2 = {"s", "ev", "calls", "hit"} /\ b2.s = s2 /\ b2.ev = Append(a.ev, e)
    BY <1>1
  <2>7. EventsOK(Append(a.ev, e))
    BY <1>1, <2>0, EventsGrow
  <2> HIDE DEF b2, b
  <2>8. EndsAs(s, s2) /\ s2.tick = s.tick
    BY <1>1, <2>3, <2>4, <2>5 DEF EndsAs, Kept
  <2> QED
    BY <1>4, <2>6, <2>7, <2>8 DEF b
<1> QED
  BY <1>2, <1>3, <1>4

-----------------------------------------------------------------------------
(* A whole tick, and a replayed one. *)

\* The end of a tick.
LEMMA TickCloses ==
  ASSUME NEW s, NEW a, DOMAIN a = {"s", "ev", "calls", "hit"}, EndsAs(s, a.s), EventsOK(a.ev), NEW cfg
  PROVE  LET r == seal(closeTick(a, cfg))
         IN EndsAs(s, r.state) /\ r.state.tick = a.s.tick + 1 /\ EventsOK(r.events)
<1> DEFINE s0 == a.s
           done == s0.status = "running" /\ s0.fan = NoFan /\ s0.distance + s0.scroll >= cfg.length
           b == [a EXCEPT !.s.status = IF done THEN "levelDone" ELSE @, !.s.tick = @ + 1, !.s.elapsed = @ + 1]
           r == seal(b)
           evs == [k \in DOMAIN b.ev |-> hashed(b.ev[k], b.s)]
<1>1. closeTick(a, cfg) = b
  BY Zenon DEF closeTick
<1>2. DOMAIN s0 = StateFields /\ StateOK(s0) /\ s0.tick \in Nat
  BY DEF EndsAs, StateOK
<1> HIDE DEF done
<1>3. /\ DOMAIN b.s = StateFields /\ b.s.tick = s0.tick + 1 /\ b.s.player = s0.player /\ b.s.entities = s0.entities
      /\ b.s.bossUntil = s0.bossUntil /\ b.s.fan = s0.fan /\ b.ev = a.ev
  BY <1>2 DEF StateFields
<1>4. r.state = b.s /\ r.events = evs
  BY DEF seal
<1> HIDE DEF b, r
<1>5. StateOK(b.s)
  BY <1>2, <1>3 DEF StateOK
<1>6. livePlayer(b.s) = livePlayer(s0)
  BY <1>3, LiveIs
<1>7. EndsAs(s, b.s)
  BY <1>3, <1>5, <1>6 DEF EndsAs
<1>8. DOMAIN b.ev = 1..Len(b.ev) /\ Len(b.ev) \in Nat /\ EventsOK(b.ev)
  BY <1>3 DEF IsSeq, EventsOK
<1>9. evs = [k \in 1..Len(b.ev) |-> evs[k]] /\ \A k \in 1..Len(b.ev) : evs[k] = hashed(b.ev[k], b.s)
  BY <1>8
<1> HIDE DEF evs
<1>10. EventsOK(evs)
  <2>1. IsSeq(evs) /\ Len(evs) = Len(b.ev)
    BY <1>8, <1>9, FcnSeq
  <2>2. ASSUME NEW e, EventOK(e) PROVE EventOK(hashed(e, b.s))
    BY <2>2 DEF EventOK, hashed
  <2> QED
    BY <1>8, <1>9, <2>1, <2>2 DEF EventsOK
<1> QED
  BY <1>1, <1>3, <1>4, <1>7, <1>10 DEF r

\* One tick of the engine: a state of the engine, its boss phase as before, its
\* clock one further, its hat sliding only if the inputs leave it sliding.
LEMMA StepShape ==
  ASSUME NEW prev, StateOK(prev), NEW inputs, IsSeq(inputs), NEW ports
  PROVE  LET r == step(prev, inputs, ports)
         IN /\ StateOK(r.state) /\ EventsOK(r.events) /\ r.state.bossUntil = prev.bossUntil
            /\ prev.status # "running" => r.state = prev
            /\ prev.status = "running" =>
                  /\ r.state.tick = prev.tick + 1
                  /\ livePlayer(r.state).sliding => WillSlide(livePlayer(prev).sliding, inputs)
<1> DEFINE cfg == Levels[prev.level]
           b == beginTick(prev, inputs)
           m == moveTracks(b, inputs)
           c == scrollTracks(m)
           w == spawnAll(c, cfg)
           a == collide(w, cfg, ports)
           g == mergeLanes(a, cfg)
           r == step(prev, inputs, ports)
<1>1. CASE prev.status # "running"
  <2>1. r = [state |-> prev, events |-> <<>>, calls |-> 0]
    BY <1>1 DEF step
  <2> QED
    BY <1>1, <2>1, NoEvents
<1>2. CASE prev.status = "running"
  <2>1. r = seal(closeTick(g, cfg))
    BY <1>2 DEF step
  <2>2. StateOK(b) /\ b.bossUntil = prev.bossUntil /\ b.tick = prev.tick /\ b.player = prev.player /\ b.fan = prev.fan
    BY BeginShape
  <2>3. livePlayer(b) = livePlayer(prev)
    BY <2>2, LiveIs
  <2> HIDE DEF b, cfg
  <2>4. /\ StateOK(m) /\ m.bossUntil = b.bossUntil /\ m.tick = b.tick
        /\ livePlayer(m).sliding => WillSlide(livePlayer(b).sliding, inputs)
    BY <2>2, TracksMove
  <2> HIDE DEF m
  <2>5. Kept(m, c)
    BY <2>4, TracksScroll
  <2>6. StateOK(c) /\ c.bossUntil = m.bossUntil /\ c.tick = m.tick /\ (livePlayer(c).sliding => livePlayer(m).sliding)
    BY <2>5 DEF Kept
  <2> HIDE DEF c
  <2>7. /\ StateOK(w.s) /\ w.s.bossUntil = c.bossUntil /\ w.s.tick = c.tick
        /\ (livePlayer(w.s).sliding => livePlayer(c).sliding) /\ EventsOK(w.ev)
    BY <2>6, AllSpawn
  <2> HIDE DEF w
  <2>8. AccOK(a, w.s)
    BY <2>7, AllCollide
  <2> HIDE DEF a
  <2>9. DOMAIN g = {"s", "ev", "calls", "hit"} /\ EndsAs(w.s, g.s) /\ g.s.tick = w.s.tick /\ EventsOK(g.ev)
    BY <2>8, LanesMerge
  <2> HIDE DEF g
  <2>10. EndsAs(w.s, r.state) /\ r.state.tick = g.s.tick + 1 /\ EventsOK(r.events)
    BY <2>1, <2>9, TickCloses
  <2> HIDE DEF r
  <2>11. StateOK(r.state) /\ r.state.bossUntil = prev.bossUntil /\ r.state.tick = prev.tick + 1
    BY <2>2, <2>4, <2>6, <2>7, <2>9, <2>10 DEF EndsAs
  <2>12. livePlayer(r.state).sliding => WillSlide(livePlayer(prev).sliding, inputs)
    BY <2>3, <2>4, <2>6, <2>7, <2>10 DEF EndsAs
  <2> QED
    BY <1>2, <2>10, <2>11, <2>12 DEF r
<1> QED
  BY <1>1, <1>2

\* The first state of a segment.
LEMMA FirstState ==
  ASSUME NEW start
  PROVE  StateOK(initialState(start)) /\ initialState(start).tick = 0 /\ ~livePlayer(initialState(start)).sliding
<1> DEFINE s == initialState(start)
<1>1. /\ DOMAIN s = StateFields /\ s.tick = 0 /\ s.player = newPlayer /\ s.entities = <<>> /\ s.fan = NoFan
  BY DEF initialState, StateFields
<1> HIDE DEF s
<1>2. IsSeq(<<>>)
  BY NoneSeq
<1>3. PlayerOK(newPlayer) /\ ~newPlayer.sliding
  BY DEF PlayerOK, newPlayer
<1>4. StateOK(s)
  BY <1>1, <1>2, <1>3 DEF StateOK, FanOK
<1> QED
  BY <1>1, <1>3, <1>4, LiveIs DEF s

ReplayerOK(r) ==
    /\ DOMAIN r = {"state", "history", "toTick", "cursor", "divergedAt", "done"}
    /\ StateOK(r.state) /\ IsSeq(r.history) /\ r.cursor \in Nat \ {0}

\* A replayer at its start.
LEMMA ReplayerStarts ==
  ASSUME NEW start, NEW history, IsSeq(history), NEW toTick
  PROVE  LET r == createReplayer(start, history, toTick)
         IN ReplayerOK(r) /\ r.state = initialState(start)
<1> DEFINE s == initialState(start)
           r == createReplayer(start, history, toTick)
<1>1. StateOK(s)
  BY FirstState
<1> HIDE DEF s
<1>2. /\ DOMAIN r = {"state", "history", "toTick", "cursor", "divergedAt", "done"}
      /\ r.state = s /\ r.history = history /\ r.cursor = 1
  BY DEF createReplayer, s
<1> HIDE DEF r
<1>3. ReplayerOK(r)
  BY <1>1, <1>2 DEF ReplayerOK
<1> QED
  BY <1>2, <1>3 DEF r, s

\* A replayed tick.
LEMMA ReplayerAdvances ==
  ASSUME NEW r, ReplayerOK(r), NEW v
  PROVE  ReplayerOK(advance(r, v).r)
<1> DEFINE due == {k \in r.cursor..Len(r.history) : r.history[k].tick <= r.state.tick}
           cursor == r.cursor + Cardinality(due)
           K == {k \in r.cursor..(cursor - 1) : isInputEvent(r.history[k])}
           ins == AtPlaces(r.history, K)
           inputs == [k \in DOMAIN ins |-> inputOf(ins[k])]
           ports == [impure |-> v, crates |-> crateResults(r.history)]
           next == step(r.state, inputs, ports)
           x == conclude(r, next, cursor).r
<1>1. advance(r, v).r = x
  BY DEF advance
<1>2. r.cursor \in Nat /\ r.cursor > 0 /\ Len(r.history) \in Nat /\ StateOK(r.state) /\ IsSeq(r.history)
  BY DEF ReplayerOK, IsSeq
<1>3. Cardinality(due) \in Nat
  <2>1. IsFiniteSet(r.cursor..Len(r.history))
    BY <1>2, FS_Interval
  <2>2. due \subseteq r.cursor..Len(r.history)
    OBVIOUS
  <2> HIDE DEF due
  <2>3. IsFiniteSet(due)
    BY <2>1, <2>2, FS_Subset
  <2> QED
    BY <2>3, FS_CardinalityType
<1> HIDE DEF due
<1>4. cursor \in Nat \ {0} /\ cursor - 1 \in Nat
  BY <1>2, <1>3
<1> HIDE DEF cursor
<1>5. K \subseteq 1..(cursor - 1)
  BY <1>2, <1>4
<1> HIDE DEF K
<1>6. IsSeq(ins)
  <2> DEFINE N == cursor - 1
  <2>1. N \in Nat /\ K \subseteq 1..N
    BY <1>4, <1>5
  <2> HIDE DEF N
  <2> QED
    BY <2>1, PlacesSeq
<1> HIDE DEF ins
<1>7. IsSeq(inputs)
  <2>1. Len(ins) \in Nat /\ DOMAIN ins = 1..Len(ins)
    BY <1>6 DEF IsSeq
  <2>2. inputs = [k \in 1..Len(ins) |-> inputs[k]]
    BY <2>1
  <2> HIDE DEF inputs
  <2> QED
    BY <2>1, <2>2, FcnSeq
<1> HIDE DEF inputs, ports
<1>8. StateOK(next.state)
  BY <1>2, <1>7, StepShape
<1> HIDE DEF next
<1>9. /\ DOMAIN x = {"state", "history", "toTick", "cursor", "divergedAt", "done"}
      /\ x.state \in {r.state, next.state} /\ x.history = r.history /\ x.cursor = cursor
  BY DEF conclude, ReplayerOK
<1> HIDE DEF x
<1> QED
  BY <1>1, <1>2, <1>4, <1>8, <1>9 DEF ReplayerOK

-----------------------------------------------------------------------------
(* What a saved history covers. *)

\* A history covers itself.
LEMMA CoversSelf ==
  ASSUME NEW h, IsSeq(h)
  PROVE  Covers(h, h)
<1>1. Len(h) \in Nat
  BY DEF IsSeq
<1> QED
  BY <1>1 DEF Covers

\* Events that are no activities need no saving.
LEMMA CoversMore ==
  ASSUME NEW saved, IsSeq(saved), NEW h, IsSeq(h), Covers(saved, h), NEW x, IsSeq(x),
         \A k \in 1..Len(x) : x[k].type \notin Activities
  PROVE  Covers(saved, h \o x)
<1> DEFINE y == h \o x
<1>1. /\ IsSeq(y) /\ Len(y) = Len(h) + Len(x)
      /\ \A k \in 1..Len(h) : y[k] = h[k]
      /\ \A k \in 1..Len(x) : y[Len(h) + k] = x[k]
  BY ConcatSeq
<1>2. Len(saved) \in Nat /\ Len(h) \in Nat /\ Len(x) \in Nat /\ Len(saved) <= Len(h) /\ DOMAIN saved = 1..Len(saved)
  BY DEF IsSeq, Covers
<1> HIDE DEF y
<1>3. ASSUME NEW k \in DOMAIN saved PROVE y[k] = saved[k]
  <2>1. k \in 1..Len(h)
    BY <1>2
  <2> QED
    BY <1>1, <2>1 DEF Covers
<1>4. ASSUME NEW k \in (Len(saved) + 1)..Len(y) PROVE y[k].type \notin Activities
  <2>1. CASE k <= Len(h)
    <3>1. k \in 1..Len(h) /\ k \in (Len(saved) + 1)..Len(h)
      BY <1>2, <2>1
    <3> QED
      BY <1>1, <3>1 DEF Covers
  <2>2. CASE ~(k <= Len(h))
    <3> DEFINE j == k - Len(h)
    <3>1. j \in 1..Len(x) /\ Len(h) + j = k
      BY <1>1, <1>2, <2>2
    <3> HIDE DEF j
    <3> QED
      BY <1>1, <3>1
  <2> QED
    BY <2>1, <2>2
<1>5. Len(saved) <= Len(y)
  BY <1>1, <1>2
<1>6. Covers(saved, y)
  BY <1>3, <1>4, <1>5 DEF Covers
<1> QED
  BY <1>6 DEF y

\* The same for one event.
LEMMA CoversOneMore ==
  ASSUME NEW saved, IsSeq(saved), NEW h, IsSeq(h), Covers(saved, h), NEW e, e.type \notin Activities
  PROVE  Covers(saved, Append(h, e))
<1> DEFINE y == Append(h, e)
<1>1. IsSeq(y) /\ Len(y) = Len(h) + 1 /\ y[Len(h) + 1] = e /\ \A k \in 1..Len(h) : y[k] = h[k]
  BY AppendSeq
<1>2. Len(saved) \in Nat /\ Len(h) \in Nat /\ Len(saved) <= Len(h) /\ DOMAIN saved = 1..Len(saved)
  BY DEF IsSeq, Covers
<1> HIDE DEF y
<1>3. ASSUME NEW k \in DOMAIN saved PROVE y[k] = saved[k]
  <2>1. k \in 1..Len(h)
    BY <1>2
  <2> QED
    BY <1>1, <2>1 DEF Covers
<1>4. ASSUME NEW k \in (Len(saved) + 1)..Len(y) PROVE y[k].type \notin Activities
  <2>1. CASE k <= Len(h)
    <3>1. k \in 1..Len(h) /\ k \in (Len(saved) + 1)..Len(h)
      BY <1>2, <2>1
    <3> QED
      BY <1>1, <3>1 DEF Covers
  <2>2. CASE ~(k <= Len(h))
    <3>1. k = Len(h) + 1
      BY <1>1, <1>2, <2>2
    <3> QED
      BY <1>1, <3>1
  <2> QED
    BY <2>1, <2>2
<1>5. Len(saved) <= Len(y)
  BY <1>1, <1>2
<1>6. Covers(saved, y)
  BY <1>3, <1>4, <1>5 DEF Covers
<1> QED
  BY <1>6 DEF y

-----------------------------------------------------------------------------
(* The invariant of the game. *)

GameFields ==
    {"phase", "reason", "runDate", "dailyBest", "best", "start", "history", "state", "stats", "divergedAt", "tape",
     "playback", "liveTick", "inputCursor", "restartCursor", "impureAt", "chaosAt", "exhausted", "pending", "queued",
     "slideHeld", "segments", "orbValues", "montage", "replayer", "crashTick", "want", "savedRun", "dueAt", "rewind",
     "store"}

\* The phases of a run.
InRun == {"tip", "playing", "paused", "rewinding", "crashing", "replaying", "montage"}

Shape(g) ==
    /\ DOMAIN g = GameFields /\ DOMAIN g.store = {"save", "best", "daily"}
    /\ g.phase \in InRun \cup {"title", "resume", "over", "lost"}
    /\ g.store.save # None => IsSeq(g.store.save.body.history)

RewindOK(b) ==
    /\ DOMAIN b = {"anchor", "ring", "wrapped"} /\ StateOK(b.anchor)
    /\ IsSeq(b.ring) /\ \A k \in 1..Len(b.ring) : StateOK(b.ring[k])
    /\ b.wrapped => Len(b.ring) > 0

PartsOK(g) ==
    /\ IsSeq(g.history) /\ IsSeq(g.pending) /\ IsSeq(g.queued)
    /\ StateOK(g.state) /\ RewindOK(g.rewind)
    /\ g.phase = "replaying" => ReplayerOK(g.replayer)

Agree(g) == g.store.save # None /\ Covers(g.store.save.body.history, g.history)

\* A live run.  In a boss phase nothing is saved while it is played, but every
\* way out of playing saves or begins a segment.
RunOK(g) ==
    /\ PartsOK(g)
    /\ Cfg(g).durable /\ ~(g.phase = "playing" /\ g.state.bossUntil # 0) => Agree(g)

GameOK(g) ==
    /\ Shape(g)
    /\ ~g.playback /\ g.phase = "resume" => g.savedRun # None /\ g.savedRun = g.store.save
    /\ ~g.playback /\ g.phase \in InRun => RunOK(g)

\* The parts the invariant reads.
Alike(g, h) ==
    /\ DOMAIN h = GameFields
    /\ h.phase = g.phase /\ h.playback = g.playback /\ h.start = g.start /\ h.history = g.history
    /\ h.state = g.state /\ h.pending = g.pending /\ h.queued = g.queued /\ h.rewind = g.rewind
    /\ h.replayer = g.replayer /\ h.savedRun = g.savedRun /\ h.store = g.store

\* Nothing the invariant reads is changed by two such changes in a row.
LEMMA AlikeTwice ==
  ASSUME NEW g, NEW h, NEW i, Alike(g, h), Alike(h, i)
  PROVE  Alike(g, i)
BY DEF Alike

\* A draw from the sources changes the tape and its cursors only.
LEMMA DrawsAlike ==
  ASSUME NEW g, DOMAIN g = GameFields, NEW v
  PROVE  Alike(g, DrawChaos(g, v)) /\ Alike(g, DrawImpure(g, v)) /\ Alike(g, g)
<1>1. Alike(g, DrawChaos(g, v))
  BY DEF Alike, DrawChaos, GameFields
<1>2. Alike(g, DrawImpure(g, v))
  BY DEF Alike, DrawImpure, GameFields
<1> QED
  BY <1>1, <1>2 DEF Alike

\* So does the crash scheduler, which also sets when the next crash is due.
LEMMA DueAlike ==
  ASSUME NEW g, NEW h, Alike(g, h), NEW at
  PROVE  Alike(g, [h EXCEPT !.dueAt = at])
BY DEF Alike, GameFields

\* The next crash is scheduled.
LEMMA ScheduleAlike ==
  ASSUME NEW g, DOMAIN g = GameFields, NEW level, NEW at, NEW c
  PROVE  Alike(g, scheduleNext(g, level, at, c))
<1>1. Alike(g, g) /\ Alike(g, DrawChaos(g, c))
  BY DrawsAlike
<1> DEFINE t == at + (Levels[level].chaosMean * (1 + 2 * ChaosOf(g, c))) \div 2
<1>2. scheduleNext(g, level, at, c) \in {[g EXCEPT !.dueAt = 0], [DrawChaos(g, c) EXCEPT !.dueAt = t]}
  BY DEF scheduleNext
<1> HIDE DEF t
<1>3. Alike(g, [g EXCEPT !.dueAt = 0]) /\ Alike(g, [DrawChaos(g, c) EXCEPT !.dueAt = t])
  BY <1>1, DueAlike
<1> QED
  BY <1>2, <1>3

\* The first crash of a segment is scheduled.
LEMMA ChaosStartAlike ==
  ASSUME NEW g, DOMAIN g = GameFields, NEW level, NEW first, NEW c
  PROVE  Alike(g, chaosStart(g, level, first, c))
<1>1. Alike(g, g) /\ Alike(g, DrawChaos(g, c))
  BY DrawsAlike
<1> DEFINE t1 == Levels[level].scriptedCrashAt
           t2 == Between(Levels[level].firstCrash, ChaosOf(g, c))
<1>2. chaosStart(g, level, first, c) \in
        {[g EXCEPT !.dueAt = t1], [DrawChaos(g, c) EXCEPT !.dueAt = t2], scheduleNext(g, level, 0, c)}
  BY DEF chaosStart
<1> HIDE DEF t1, t2
<1>3. Alike(g, [g EXCEPT !.dueAt = t1]) /\ Alike(g, [DrawChaos(g, c) EXCEPT !.dueAt = t2])
  BY <1>1, DueAlike
<1>4. Alike(g, scheduleNext(g, level, 0, c))
  BY ScheduleAlike
<1> QED
  BY <1>2, <1>3, <1>4

\* A pickup may bring the next crash forward.
LEMMA PickupAlike ==
  ASSUME NEW g, DOMAIN g = GameFields, NEW level, NEW kind, NEW at, NEW c
  PROVE  Alike(g, onPickup(g, level, kind, at, c))
<1>1. Alike(g, g) /\ Alike(g, DrawChaos(g, c))
  BY DrawsAlike
<1> DEFINE b == at + Between(CrashAfterPickup, ChaosOf(g, c))
           d == DrawChaos(g, c)
           t == IF d.dueAt = 0 \/ b < d.dueAt THEN b ELSE d.dueAt
<1>2. onPickup(g, level, kind, at, c) \in {g, [d EXCEPT !.dueAt = t]}
  BY DEF onPickup
<1> HIDE DEF t
<1>3. Alike(g, [d EXCEPT !.dueAt = t])
  BY <1>1, DueAlike
<1> QED
  BY <1>1, <1>2, <1>3

\* A game that is alike is as good.
LEMMA AlikeGood ==
  ASSUME NEW g, NEW h, Alike(g, h)
  PROVE  /\ Shape(g) => Shape(h)
         /\ PartsOK(g) => PartsOK(h)
         /\ Agree(g) => Agree(h)
         /\ GameOK(g) => GameOK(h)
<1>1. Shape(g) => Shape(h)
  BY DEF Alike, Shape
<1>2. PartsOK(g) => PartsOK(h)
  BY DEF Alike, PartsOK
<1>3. Agree(g) => Agree(h)
  BY DEF Alike, Agree
<1>4. RunOK(g) => RunOK(h)
  BY <1>2, <1>3 DEF Alike, RunOK, Cfg
<1> QED
  BY <1>1, <1>2, <1>3, <1>4 DEF Alike, GameOK

\* Another phase: only the phase and the keys that wait change.
LEMMA PhaseSet ==
  ASSUME NEW g, DOMAIN g = GameFields, NEW phase
  PROVE  LET h == setPhase(g, phase)
         IN /\ DOMAIN h = GameFields /\ h.phase = phase /\ h.playback = g.playback /\ h.start = g.start
            /\ h.history = g.history /\ h.state = g.state /\ h.queued = g.queued /\ h.rewind = g.rewind
            /\ h.replayer = g.replayer /\ h.savedRun = g.savedRun /\ h.store = g.store
            /\ IsSeq(g.pending) => IsSeq(h.pending)
<1> DEFINE p == [g EXCEPT !.phase = phase]
           h == setPhase(g, phase)
<1>1. /\ DOMAIN p = GameFields /\ p.phase = phase /\ p.playback = g.playback /\ p.start = g.start
      /\ p.history = g.history /\ p.state = g.state /\ p.queued = g.queued /\ p.rewind = g.rewind
      /\ p.replayer = g.replayer /\ p.savedRun = g.savedRun /\ p.store = g.store /\ p.pending = g.pending
  BY DEF GameFields
<1> HIDE DEF p
<1>2. h = p \/ h = syncSlide(p)
  BY DEF setPhase, p
<1> DEFINE K == {k \in DOMAIN p.pending : p.pending[k] = "jump"}
           jumps == AtPlaces(p.pending, K)
           j1 == Append(jumps, "slideEnd")
           j2 == Append(jumps, "slideStart")
<1>3. ASSUME IsSeq(g.pending) PROVE IsSeq(jumps) /\ IsSeq(j1) /\ IsSeq(j2)
  <2>1. Len(p.pending) \in Nat /\ K \subseteq 1..Len(p.pending)
    BY <1>1, <1>3 DEF IsSeq
  <2> HIDE DEF K
  <2>2. IsSeq(jumps)
    BY <2>1, PlacesSeq
  <2> HIDE DEF jumps
  <2> QED
    BY <2>2, AppendSeq
<1>4. syncSlide(p) \in {[p EXCEPT !.pending = j1], [p EXCEPT !.pending = j2], [p EXCEPT !.pending = jumps]}
  BY Zenon DEF syncSlide
<1> HIDE DEF K, jumps, j1, j2
<1>5. ASSUME NEW x
      PROVE  LET q == [p EXCEPT !.pending = x]
             IN /\ DOMAIN q = GameFields /\ q.phase = phase /\ q.playback = g.playback /\ q.start = g.start
                /\ q.history = g.history /\ q.state = g.state /\ q.queued = g.queued /\ q.rewind = g.rewind
                /\ q.replayer = g.replayer /\ q.savedRun = g.savedRun /\ q.store = g.store /\ q.pending = x
  BY <1>1 DEF GameFields
<1> HIDE DEF h
<1>6. CASE h = p
  BY <1>1, <1>6 DEF h
<1>7. ASSUME NEW x, h = [p EXCEPT !.pending = x], IsSeq(g.pending) => IsSeq(x)
      PROVE  /\ DOMAIN h = GameFields /\ h.phase = phase /\ h.playback = g.playback /\ h.start = g.start
             /\ h.history = g.history /\ h.state = g.state /\ h.queued = g.queued /\ h.rewind = g.rewind
             /\ h.replayer = g.replayer /\ h.savedRun = g.savedRun /\ h.store = g.store
             /\ IsSeq(g.pending) => IsSeq(h.pending)
  BY <1>5, <1>7
<1>8. CASE h = syncSlide(p)
  <2>1. h = [p EXCEPT !.pending = j1] \/ h = [p EXCEPT !.pending = j2] \/ h = [p EXCEPT !.pending = jumps]
    BY <1>4, <1>8
  <2> QED
    BY <1>3, <1>7, <2>1 DEF h
<1> QED
  BY <1>2, <1>6, <1>8

-----------------------------------------------------------------------------
(* The methods of the game. *)

\* Saving makes a run whose parts are right a run that is right.
LEMMA SaveGood ==
  ASSUME NEW g, Shape(g), g.phase # "resume", ~g.playback /\ g.phase \in InRun => PartsOK(g)
  PROVE  GameOK(save(g))
<1> DEFINE b == SaveBody(g)
           x == [body |-> b, tape |-> g.tape]
           h == [g EXCEPT !.store.save = x]
<1>1. CASE g.playback \/ g.phase \in {"title", "resume", "over", "lost"} \/ ~Cfg(g).durable
  <2>1. save(g) = g
    BY <1>1 DEF save
  <2> QED
    BY <1>1, <2>1 DEF GameOK, RunOK, InRun
<1>2. CASE ~(g.playback \/ g.phase \in {"title", "resume", "over", "lost"} \/ ~Cfg(g).durable)
  <2>1. save(g) = h
    BY <1>2 DEF save
  <2>2. b.history = g.history
    BY DEF SaveBody
  <2>3. x # None /\ x.body = b
    BY DEF None
  <2> HIDE DEF b, x
  <2>4. /\ DOMAIN h = GameFields /\ DOMAIN h.store = {"save", "best", "daily"} /\ h.store.save = x
        /\ h.phase = g.phase /\ h.playback = g.playback /\ h.start = g.start /\ h.history = g.history
        /\ h.state = g.state /\ h.pending = g.pending /\ h.queued = g.queued /\ h.rewind = g.rewind
        /\ h.replayer = g.replayer
    BY DEF Shape, GameFields
  <2> HIDE DEF h
  <2>5. PartsOK(g) /\ g.phase \in InRun
    BY <1>2 DEF Shape
  <2>6. PartsOK(h) /\ IsSeq(g.history)
    BY <2>4, <2>5 DEF PartsOK
  <2>7. Covers(g.history, g.history)
    BY <2>6, CoversSelf
  <2>8. Agree(h)
    BY <2>2, <2>3, <2>4, <2>7 DEF Agree
  <2>9. Shape(h)
    BY <2>2, <2>3, <2>4, <2>5, <2>6 DEF Shape
  <2> QED
    BY <1>2, <2>1, <2>4, <2>6, <2>8, <2>9 DEF GameOK, RunOK
<1> QED
  BY <1>1, <1>2

\* Saving changes the store only.
LEMMA SaveSame ==
  ASSUME NEW g, DOMAIN g = GameFields
  PROVE  save(g).phase = g.phase /\ save(g).playback = g.playback /\ save(g).start = g.start
<1> DEFINE x == [body |-> SaveBody(g), tape |-> g.tape]
           h == [g EXCEPT !.store.save = x]
<1>1. save(g) \in {g, h}
  BY DEF save
<1> HIDE DEF x
<1>2. h.phase = g.phase /\ h.playback = g.playback /\ h.start = g.start
  BY DEF GameFields
<1> HIDE DEF h
<1> QED
  BY <1>1, <1>2

\* An empty rewind buffer.
LEMMA RewindStarts ==
  ASSUME NEW s, StateOK(s)
  PROVE  RewindOK(rewindReset(s))
<1> DEFINE b == rewindReset(s)
<1>1. DOMAIN b = {"anchor", "ring", "wrapped"} /\ b.anchor = s /\ b.ring = <<>> /\ b.wrapped = FALSE
  BY DEF rewindReset
<1>2. Len(<<>>) = 0 /\ IsSeq(<<>>)
  BY NoneSeq
<1> HIDE DEF b
<1>3. RewindOK(b)
  BY <1>1, <1>2 DEF RewindOK
<1> QED
  BY <1>3 DEF b

\* A segment begins, and is saved when its level is durable.
LEMMA SegmentBegins ==
  ASSUME NEW g, Shape(g), NEW start, NEW showTip \in BOOLEAN, NEW c
  PROVE  LET r == beginSegment(g, start, showTip, c)
         IN /\ GameOK(r) /\ r.playback = g.playback
            /\ r.phase = IF showTip THEN "tip" ELSE "playing"
<1> DEFINE s == initialState(start)
           h == [g EXCEPT !.start = start, !.history = <<>>, !.orbValues = <<>>, !.state = s,
                          !.rewind = rewindReset(s), !.pending = <<>>, !.queued = <<>>]
           d == chaosStart(h, start.level, showTip, c)
           phase == IF showTip THEN "tip" ELSE "playing"
           p == setPhase(d, phase)
<1>1. beginSegment(g, start, showTip, c) = save(p)
  BY Zenon DEF beginSegment
<1>2. StateOK(s)
  BY FirstState
<1> HIDE DEF s
<1>3. RewindOK(rewindReset(s))
  BY <1>2, RewindStarts
<1>4. IsSeq(<<>>)
  BY NoneSeq
<1>5. /\ DOMAIN h = GameFields /\ h.start = start /\ h.history = <<>> /\ h.state = s
      /\ h.rewind = rewindReset(s) /\ h.pending = <<>> /\ h.queued = <<>> /\ h.store = g.store /\ h.playback = g.playback
  BY DEF Shape, GameFields
<1> HIDE DEF h
<1>6. Alike(h, d)
  BY <1>5, ChaosStartAlike
<1> HIDE DEF d
<1>7. DOMAIN d = GameFields /\ IsSeq(d.pending)
  BY <1>4, <1>5, <1>6 DEF Alike
<1>8. /\ DOMAIN p = GameFields /\ p.phase = phase /\ p.playback = d.playback
      /\ p.history = d.history /\ p.state = d.state /\ p.queued = d.queued /\ p.rewind = d.rewind
      /\ p.store = d.store /\ IsSeq(p.pending)
  BY <1>7, PhaseSet
<1>9. phase \in InRun /\ phase # "resume" /\ phase # "replaying"
  BY DEF InRun
<1> HIDE DEF p, phase
<1>10. Shape(p)
  BY <1>5, <1>6, <1>8, <1>9 DEF Shape, Alike
<1>11. PartsOK(p)
  BY <1>2, <1>3, <1>4, <1>5, <1>6, <1>8, <1>9 DEF PartsOK, Alike
<1>12. GameOK(save(p))
  BY <1>8, <1>9, <1>10, <1>11, SaveGood
<1>13. save(p).phase = phase /\ save(p).playback = g.playback
  BY <1>5, <1>6, <1>8, SaveSame DEF Alike
<1> QED
  BY <1>1, <1>12, <1>13 DEF phase

\* A run begins, live or from a tape.
LEMMA RunStarts ==
  ASSUME NEW g, Shape(g), NEW c
  PROVE  GameOK(startRun(g, c))
<1> DEFINE h == [g EXCEPT !.stats = emptyStats, !.divergedAt = -1, !.segments = <<>>, !.liveTick = 0,
                          !.inputCursor = 1, !.restartCursor = 1]
           start == LevelStart(0, Seeds[g.runDate])
<1>1. startRun(g, c) = beginSegment(h, start, TRUE, c)
  BY DEF startRun
<1>2. DOMAIN h = GameFields /\ h.phase = g.phase /\ h.store = g.store
  BY DEF Shape, GameFields
<1> HIDE DEF h, start
<1>3. Shape(h)
  BY <1>2 DEF Shape
<1> QED
  BY <1>1, <1>3, SegmentBegins

\* A new live run drops the save of the old one.
LEMMA NewRunGood ==
  ASSUME NEW g, Shape(g), NEW c
  PROVE  GameOK(newRun(g, c))
<1> DEFINE h == leavePlayback(g)
           r == [h EXCEPT !.tape = emptyTape(h.runDate), !.exhausted = FALSE, !.store.save = None]
<1>1. newRun(g, c) = startRun(r, c)
  BY DEF newRun
<1>2. DOMAIN h = GameFields /\ h.phase = g.phase /\ h.store = g.store
  BY DEF Shape, GameFields, leavePlayback
<1> HIDE DEF h
<1>3. DOMAIN r = GameFields /\ r.phase = g.phase /\ DOMAIN r.store = {"save", "best", "daily"} /\ r.store.save = None
  BY <1>2 DEF Shape, GameFields
<1> HIDE DEF r
<1>4. Shape(r)
  BY <1>3 DEF Shape
<1> QED
  BY <1>1, <1>4, RunStarts

\* A tape is watched, or refused.
LEMMA WatchGood ==
  ASSUME NEW g, GameOK(g), NEW tape, NEW c
  PROVE  GameOK(watch(g, tape, c))
<1> DEFINE r == [g EXCEPT !.playback = TRUE, !.runDate = tape.date, !.tape = tape,
                          !.impureAt = 0, !.chaosAt = 0, !.exhausted = FALSE]
<1>1. watch(g, tape, c) \in {g, startRun(r, c)}
  BY DEF watch
<1>2. DOMAIN r = GameFields /\ r.phase = g.phase /\ r.store = g.store
  BY DEF GameOK, Shape, GameFields
<1> HIDE DEF r
<1>3. Shape(r)
  BY <1>2 DEF GameOK, Shape
<1> QED
  BY <1>1, <1>3, RunStarts

\* The end of a run.
LEMMA OverGood ==
  ASSUME NEW g, Shape(g), NEW reason
  PROVE  GameOK(gameOver(g, reason))
<1> DEFINE score == g.state.score
           b == IF score > g.best THEN [g EXCEPT !.best = score, !.store.best = score] ELSE g
           d == IF g.runDate = today /\ score > g.dailyBest
                THEN [b EXCEPT !.dailyBest = score, !.store.daily = [date |-> g.runDate, best |-> score]] ELSE b
           x == [(IF g.playback THEN g ELSE [d EXCEPT !.store.save = None]) EXCEPT !.reason = reason]
           h == setPhase(x, "over")
<1>1. gameOver(g, reason) = h
  BY DEF gameOver
<1> HIDE DEF score
<1>2. DOMAIN b = GameFields /\ DOMAIN b.store = {"save", "best", "daily"}
  BY DEF Shape, GameFields
<1> HIDE DEF b
<1>3. DOMAIN d = GameFields /\ DOMAIN d.store = {"save", "best", "daily"}
  BY <1>2 DEF GameFields
<1> HIDE DEF d
<1>4. DOMAIN x = GameFields /\ DOMAIN x.store = {"save", "best", "daily"} /\ x.store.save \in {None, g.store.save}
  BY <1>3 DEF GameFields, Shape
<1> HIDE DEF x
<1>5. DOMAIN h = GameFields /\ h.phase = "over" /\ h.store = x.store
  BY <1>4, PhaseSet
<1> HIDE DEF h
<1> QED
  BY <1>1, <1>4, <1>5 DEF GameOK, Shape, InRun

\* From a card, a pause or a rewind to play, or to the next card.
LEMMA PhaseGood ==
  ASSUME NEW g, GameOK(g), g.phase \in InRun \ {"playing"}, NEW phase, phase \in {"playing", "tip", "montage"}
  PROVE  GameOK(setPhase(g, phase))
<1> DEFINE h == setPhase(g, phase)
<1>1. DOMAIN g = GameFields /\ Shape(g)
  BY DEF GameOK, Shape
<1>2. /\ DOMAIN h = GameFields /\ h.phase = phase /\ h.playback = g.playback /\ h.start = g.start
      /\ h.history = g.history /\ h.state = g.state /\ h.queued = g.queued /\ h.rewind = g.rewind
      /\ h.store = g.store /\ (IsSeq(g.pending) => IsSeq(h.pending))
  BY <1>1, PhaseSet
<1> HIDE DEF h
<1>3. Shape(h)
  BY <1>1, <1>2 DEF Shape, InRun
<1>4. CASE g.playback
  BY <1>2, <1>3, <1>4 DEF GameOK, h
<1>5. CASE ~g.playback
  <2>1. RunOK(g)
    BY <1>5 DEF GameOK
  <2>2. PartsOK(h)
    BY <1>2, <2>1 DEF RunOK, PartsOK
  <2>3. Cfg(g).durable => Agree(h)
    BY <1>2, <2>1 DEF RunOK, Agree
  <2>4. RunOK(h)
    BY <1>2, <2>2, <2>3 DEF RunOK, Cfg
  <2> QED
    BY <1>2, <1>3, <2>4 DEF GameOK, h
<1> QED
  BY <1>4, <1>5

\* A card is dismissed.
LEMMA ConfirmGood ==
  ASSUME NEW g, GameOK(g), NEW c
  PROVE  GameOK(confirm(g, c)) /\ confirm(g, c).playback = g.playback
<1> DEFINE r == [g EXCEPT !.stats = emptyStats]
           start == LevelStart(1, seedFrom(Seeds[g.runDate]))
<1>1. CASE g.phase = "tip"
  <2>1. GameOK(setPhase(g, "playing"))
    BY <1>1, PhaseGood DEF InRun
  <2>2. setPhase(g, "playing").playback = g.playback
    BY PhaseSet DEF GameOK, Shape
  <2> QED
    BY <1>1, <2>1, <2>2 DEF confirm
<1>2. CASE g.phase # "tip"
  <2>1. confirm(g, c) = beginSegment(r, start, TRUE, c)
    BY <1>2 DEF confirm
  <2>2. DOMAIN r = GameFields /\ r.phase = g.phase /\ r.store = g.store /\ r.playback = g.playback
    BY DEF GameOK, Shape, GameFields
  <2> HIDE DEF r, start
  <2>3. Shape(r)
    BY <2>2 DEF GameOK, Shape
  <2> DEFINE b == beginSegment(r, start, TRUE, c)
  <2>4. GameOK(b)
    BY <2>3, SegmentBegins
  <2>5. b.playback = r.playback
    <3> DEFINE tip == TRUE
    <3>1. tip \in BOOLEAN
      OBVIOUS
    <3> HIDE DEF tip
    <3>2. beginSegment(r, start, tip, c).playback = r.playback
      BY <2>3, <3>1, SegmentBegins
    <3> QED
      BY <3>2 DEF tip
  <2>6. confirm(g, c) = b
    BY <2>1
  <2> HIDE DEF b
  <2> QED
    BY <2>2, <2>4, <2>5, <2>6
<1> QED
  BY <1>1, <1>2

\* A crash saves what was played.
LEMMA CrashGood ==
  ASSUME NEW g, Shape(g), ~g.playback => PartsOK(g)
  PROVE  GameOK(crash(g))
<1> DEFINE r == [g EXCEPT !.crashTick = g.state.tick, !.want = g.state]
           h == setPhase(r, "crashing")
<1>1. crash(g) = save(h)
  BY DEF crash
<1>2. Alike(g, r)
  BY DEF Shape, GameFields, Alike
<1> HIDE DEF r
<1>3. DOMAIN r = GameFields /\ Shape(r) /\ r.playback = g.playback /\ (PartsOK(g) => PartsOK(r))
  BY <1>2, AlikeGood DEF Alike
<1>4. /\ DOMAIN h = GameFields /\ h.phase = "crashing" /\ h.playback = r.playback
      /\ h.history = r.history /\ h.state = r.state /\ h.queued = r.queued /\ h.rewind = r.rewind
      /\ h.store = r.store /\ (IsSeq(r.pending) => IsSeq(h.pending))
  BY <1>3, PhaseSet
<1> HIDE DEF h
<1>5. Shape(h)
  BY <1>3, <1>4 DEF Shape, InRun
<1>6. PartsOK(r) => PartsOK(h)
  BY <1>4 DEF PartsOK
<1> QED
  BY <1>1, <1>3, <1>4, <1>5, <1>6, SaveGood

\* The replay of a history that agrees with the save.
LEMMA ReplayStarts ==
  ASSUME NEW g, Shape(g),
         ~g.playback => IsSeq(g.history) /\ IsSeq(g.pending) /\ IsSeq(g.queued) /\ (Cfg(g).durable => Agree(g))
  PROVE  GameOK(startReplay(g))
<1>1. CASE ~Cfg(g).durable
  <2> DEFINE r == IF g.playback THEN g ELSE [g EXCEPT !.store.save = None]
             h == setPhase(r, "lost")
  <2>1. startReplay(g) = h
    BY <1>1 DEF startReplay
  <2>2. DOMAIN r = GameFields /\ DOMAIN r.store = {"save", "best", "daily"} /\ r.store.save \in {None, g.store.save}
    BY DEF Shape, GameFields
  <2> HIDE DEF r
  <2>3. DOMAIN h = GameFields /\ h.phase = "lost" /\ h.store = r.store
    BY <2>2, PhaseSet
  <2> HIDE DEF h
  <2> QED
    BY <2>1, <2>2, <2>3 DEF GameOK, Shape, InRun
<1>2. CASE Cfg(g).durable
  <2> DEFINE x == createReplayer(g.start, g.history, g.crashTick)
             r == [g EXCEPT !.stats.replays = @ + 1, !.replayer = x, !.state = x.state, !.rewind = rewindReset(x.state)]
             h == setPhase(r, "replaying")
  <2>1. startReplay(g) = h
    BY <1>2 DEF startReplay
  <2>2. ~g.playback => ReplayerOK(x)
    BY ReplayerStarts
  <2> HIDE DEF x
  <2>3. ~g.playback => RewindOK(rewindReset(x.state)) /\ StateOK(x.state)
    BY <2>2, RewindStarts DEF ReplayerOK
  <2>4. /\ DOMAIN r = GameFields /\ r.playback = g.playback /\ r.start = g.start /\ r.history = g.history
        /\ r.pending = g.pending /\ r.queued = g.queued /\ r.store = g.store
        /\ r.replayer = x /\ r.state = x.state /\ r.rewind = rewindReset(x.state)
    BY DEF Shape, GameFields
  <2> HIDE DEF r
  <2>5. /\ DOMAIN h = GameFields /\ h.phase = "replaying" /\ h.playback = r.playback /\ h.start = r.start
        /\ h.history = r.history /\ h.state = r.state /\ h.queued = r.queued /\ h.rewind = r.rewind
        /\ h.replayer = r.replayer /\ h.store = r.store /\ (IsSeq(r.pending) => IsSeq(h.pending))
    BY <2>4, PhaseSet
  <2> HIDE DEF h
  <2>6. Shape(h)
    BY <2>4, <2>5 DEF Shape, InRun
  <2>7. CASE g.playback
    BY <2>1, <2>4, <2>5, <2>6, <2>7 DEF GameOK
  <2>8. CASE ~g.playback
    <3>1. PartsOK(h)
      BY <2>2, <2>3, <2>4, <2>5, <2>8 DEF PartsOK
    <3>2. Agree(h)
      BY <1>2, <2>4, <2>5, <2>8 DEF Agree
    <3> QED
      BY <2>1, <2>5, <2>6, <3>1, <3>2 DEF GameOK, RunOK
  <2> QED
    BY <2>7, <2>8
<1> QED
  BY <1>1, <1>2

\* A save is restored: from the store in live play, from the tape in playback.
LEMMA RestoreGood ==
  ASSUME NEW g, Shape(g), NEW b, NEW c,
         ~g.playback => g.store.save # None /\ g.store.save.body = b
  PROVE  GameOK(restoreSave(g, b, c))
<1> DEFINE best == IF g.playback THEN g.dailyBest ELSE loadDailyBest(g, b.date)
           h == [g EXCEPT !.start = b.start, !.history = b.history, !.stats = b.stats, !.divergedAt = b.divergedAt,
                       !.segments = b.segments, !.orbValues = b.orbValues, !.runDate = b.date, !.want = b.want,
                       !.dailyBest = best,
                       !.montage = <<>>, !.crashTick = b.tick, !.pending = <<>>, !.queued = <<>>]
           d == chaosStart(h, b.start.level, FALSE, c)
<1>1. restoreSave(g, b, c) = startReplay(d)
  BY DEF restoreSave
<1>2. IsSeq(<<>>)
  BY NoneSeq
<1> HIDE DEF best
<1>3. /\ DOMAIN h = GameFields /\ h.phase = g.phase /\ h.playback = g.playback /\ h.history = b.history
      /\ h.pending = <<>> /\ h.queued = <<>> /\ h.store = g.store
  BY DEF Shape, GameFields
<1> HIDE DEF h
<1>4. Alike(h, d)
  BY <1>3, ChaosStartAlike
<1> HIDE DEF d
<1>5. Shape(h)
  BY <1>3 DEF Shape
<1>6. Shape(d) /\ d.playback = g.playback
  BY <1>3, <1>4, <1>5, AlikeGood DEF Alike
<1>7. ASSUME ~g.playback PROVE IsSeq(d.history) /\ IsSeq(d.pending) /\ IsSeq(d.queued) /\ Agree(d)
  <2>1. IsSeq(b.history)
    BY <1>7 DEF Shape
  <2>2. Covers(b.history, b.history)
    BY <2>1, CoversSelf
  <2> QED
    BY <1>2, <1>3, <1>4, <1>7, <2>1, <2>2 DEF Alike, Agree
<1> QED
  BY <1>1, <1>6, <1>7, ReplayStarts

\* The saved run is resumed.
LEMMA ResumeGood ==
  ASSUME NEW g, GameOK(g), ~g.playback, g.phase = "resume", NEW c
  PROVE  GameOK(resumeSaved(g, c))
<1> DEFINE s == g.savedRun
           entry == [liveTick |-> s.tape.liveTick, impureAt |-> Len(s.tape.impure),
                     chaosAt |-> Len(s.tape.chaos), save |-> s.body]
           tape == [s.tape EXCEPT !.restarts = Append(@, entry)]
           h == [g EXCEPT !.savedRun = None, !.tape = tape, !.liveTick = s.tape.liveTick]
<1>1. resumeSaved(g, c) = restoreSave(h, s.body, c)
  BY DEF resumeSaved
<1>2. s # None /\ s = g.store.save /\ Shape(g)
  BY DEF GameOK
<1> HIDE DEF tape, s
<1>3. DOMAIN h = GameFields /\ h.phase = g.phase /\ h.playback = g.playback /\ h.store = g.store
  BY <1>2 DEF Shape, GameFields
<1> HIDE DEF h
<1>4. Shape(h)
  BY <1>2, <1>3 DEF Shape
<1> QED
  BY <1>1, <1>2, <1>3, <1>4, RestoreGood

-----------------------------------------------------------------------------
(* The rewind buffer. *)

\* A state is pushed; the oldest one falls out of a full buffer.
LEMMA PushKeeps ==
  ASSUME NEW b, RewindOK(b), NEW s, StateOK(s)
  PROVE  RewindOK(rewindPush(b, s))
<1> DEFINE y1 == Append(b.ring, s)
           y2 == Append(Tail(b.ring), s)
           c1 == [b EXCEPT !.ring = y1]
           c2 == [b EXCEPT !.ring = y2, !.wrapped = TRUE]
<1>1. /\ DOMAIN b = {"anchor", "ring", "wrapped"} /\ StateOK(b.anchor) /\ IsSeq(b.ring) /\ Len(b.ring) \in Nat
      /\ \A k \in 1..Len(b.ring) : StateOK(b.ring[k])
  BY DEF RewindOK, IsSeq
<1>2. CASE Len(b.ring) < RewindTicks
  <2>1. rewindPush(b, s) = c1
    BY <1>2 DEF rewindPush
  <2>2. /\ IsSeq(y1) /\ Len(y1) = Len(b.ring) + 1 /\ y1[Len(b.ring) + 1] = s
        /\ \A k \in 1..Len(b.ring) : y1[k] = b.ring[k]
    BY <1>1, AppendSeq
  <2> HIDE DEF y1
  <2>3. DOMAIN c1 = {"anchor", "ring", "wrapped"} /\ c1.anchor = b.anchor /\ c1.ring = y1
    BY <1>1
  <2>4. ASSUME NEW k \in 1..Len(y1) PROVE StateOK(y1[k])
    <3>1. k \in 1..Len(b.ring) \/ k = Len(b.ring) + 1
      BY <1>1, <2>2
    <3> QED
      BY <1>1, <2>2, <3>1
  <2>5. Len(y1) > 0
    BY <1>1, <2>2
  <2> HIDE DEF c1
  <2>6. RewindOK(c1)
    BY <1>1, <2>2, <2>3, <2>4, <2>5 DEF RewindOK
  <2> QED
    BY <2>1, <2>6
<1>3. CASE ~(Len(b.ring) < RewindTicks)
  <2> DEFINE t == Tail(b.ring)
  <2>1. rewindPush(b, s) = c2
    BY <1>3 DEF rewindPush
  <2>2. Len(b.ring) > 0
    BY <1>1, <1>3, RewindAssumption
  <2>3. IsSeq(t) /\ Len(t) = Len(b.ring) - 1 /\ \A k \in 1..(Len(b.ring) - 1) : t[k] = b.ring[k + 1]
    BY <1>1, <2>2, TailSeq
  <2> HIDE DEF t
  <2>4. /\ IsSeq(y2) /\ Len(y2) = Len(t) + 1 /\ y2[Len(t) + 1] = s
        /\ \A k \in 1..Len(t) : y2[k] = t[k]
    BY <2>3, AppendSeq DEF t
  <2> HIDE DEF y2
  <2>5. DOMAIN c2 = {"anchor", "ring", "wrapped"} /\ c2.anchor = b.anchor /\ c2.ring = y2
    BY <1>1
  <2>6. ASSUME NEW k \in 1..Len(y2) PROVE StateOK(y2[k])
    <3>1. k \in 1..Len(t) \/ k = Len(t) + 1
      BY <1>1, <2>3, <2>4
    <3>2. ASSUME k \in 1..Len(t) PROVE y2[k] = b.ring[k + 1] /\ k + 1 \in 1..Len(b.ring)
      BY <1>1, <2>3, <2>4, <3>2
    <3> QED
      BY <1>1, <2>4, <3>1, <3>2
  <2>7. Len(y2) > 0
    BY <1>1, <2>3, <2>4
  <2> HIDE DEF c2
  <2>8. RewindOK(c2)
    BY <1>1, <2>4, <2>5, <2>6, <2>7 DEF RewindOK
  <2> QED
    BY <2>1, <2>8
<1> QED
  BY <1>2, <1>3

\* The buffer holds a state to go back to, and nothing but states.
LEMMA BufferHolds ==
  ASSUME NEW b, RewindOK(b)
  PROVE  LET all == rewindAll(b)
         IN /\ IsSeq(all) /\ Len(all) \in Nat \ {0} /\ \A k \in 1..Len(all) : StateOK(all[k])
            /\ b.wrapped => all = b.ring
<1> DEFINE all == rewindAll(b)
<1>0. /\ StateOK(b.anchor) /\ IsSeq(b.ring) /\ Len(b.ring) \in Nat
      /\ \A k \in 1..Len(b.ring) : StateOK(b.ring[k])
  BY DEF RewindOK, IsSeq
<1>1. CASE b.wrapped
  <2>1. all = b.ring /\ Len(b.ring) > 0
    BY <1>1 DEF rewindAll, RewindOK
  <2> QED
    BY <1>0, <2>1
<1>2. CASE ~b.wrapped
  <2> DEFINE f == <<b.anchor>>
  <2>1. all = f \o b.ring
    BY <1>2 DEF rewindAll
  <2>2. Len(f) = 1 /\ f[1] = b.anchor /\ f \in Seq({b.anchor})
    OBVIOUS
  <2>3. IsSeq(f)
    BY <2>2, SeqIs
  <2> HIDE DEF f, all
  <2>4. /\ IsSeq(all) /\ Len(all) = Len(f) + Len(b.ring)
        /\ \A k \in 1..Len(f) : all[k] = f[k]
        /\ \A k \in 1..Len(b.ring) : all[Len(f) + k] = b.ring[k]
    BY <1>0, <2>1, <2>3, ConcatSeq
  <2>5. ASSUME NEW k \in 1..Len(all) PROVE StateOK(all[k])
    <3>1. CASE k = 1
      BY <1>0, <2>2, <2>4, <3>1
    <3>2. CASE k # 1
      <4> DEFINE j == k - 1
      <4>1. j \in 1..Len(b.ring) /\ Len(f) + j = k
        BY <1>0, <2>2, <2>4, <3>2
      <4> HIDE DEF j
      <4> QED
        BY <1>0, <2>4, <4>1
    <3> QED
      BY <3>1, <3>2
  <2>6. Len(all) \in Nat \ {0}
    BY <1>0, <2>2, <2>4
  <2> QED
    BY <1>2, <2>4, <2>5, <2>6 DEF all
<1> QED
  BY <1>1, <1>2

\* The state a retry goes back to is one of the buffer's.
LEMMA PickFinds ==
  ASSUME NEW b, RewindOK(b), NEW failedAt, NEW minBack, NEW floor
  PROVE  /\ StateOK(pick(b, failedAt, minBack, floor))
         /\ b.wrapped => \E k \in 1..Len(b.ring) : b.ring[k] = pick(b, failedAt, minBack, floor)
<1> DEFINE all == rewindAll(b)
           candidates == {k \in DOMAIN all : all[k].tick >= floor}
           safe == {k \in candidates : all[k].tick <= failedAt - minBack /\ isSafe(all[k])}
           p == pick(b, failedAt, minBack, floor)
<1>1. /\ StateOK(b.anchor) /\ IsSeq(b.ring) /\ Len(b.ring) \in Nat
      /\ \A k \in 1..Len(b.ring) : StateOK(b.ring[k])
  BY DEF RewindOK, IsSeq
<1>2. /\ IsSeq(all) /\ Len(all) \in Nat \ {0} /\ \A k \in 1..Len(all) : StateOK(all[k])
      /\ b.wrapped => all = b.ring
  BY BufferHolds
<1>3. DOMAIN all = 1..Len(all)
  BY <1>2 DEF IsSeq
<1>4. p = IF safe # {} THEN all[Max(safe)] ELSE IF candidates # {} THEN all[Min(candidates)] ELSE all[Len(all)]
  BY DEF pick
<1> HIDE DEF all, p
<1>5. candidates \subseteq 1..Len(all) /\ safe \subseteq 1..Len(all)
  BY <1>3
<1> HIDE DEF safe, candidates
<1>6. ASSUME NEW T, T \subseteq 1..Len(all), T # {} PROVE Max(T) \in T /\ Min(T) \in T
  <2>1. \E m \in T : \A x \in T : x <= m
    BY <1>2, <1>6, GreatestNat
  <2>2. T \subseteq Nat
    BY <1>2, <1>6
  <2>3. \E m \in T : \A x \in T : m <= x
    BY <1>6, <2>2, LeastNat
  <2>4. Max(T) \in T
    BY <2>1, <2>2 DEF Max
  <2>5. Min(T) \in T
    BY <2>2, <2>3 DEF Min
  <2> QED
    BY <2>4, <2>5
<1>7. \E k \in 1..Len(all) : p = all[k]
  <2>1. Len(all) \in 1..Len(all)
    BY <1>2
  <2> QED
    BY <1>4, <1>5, <1>6, <2>1
<1> QED
  BY <1>2, <1>7 DEF p

\* What comes after the state gone back to leaves the buffer.
LEMMA RingKeeps ==
  ASSUME NEW b, RewindOK(b), NEW s, StateOK(s), b.wrapped => \E k \in 1..Len(b.ring) : b.ring[k] = s
  PROVE  RewindOK([b EXCEPT !.ring = ringTo(@, s.tick)])
<1> DEFINE K == {k \in DOMAIN b.ring : b.ring[k].tick <= s.tick}
           y == ringTo(b.ring, s.tick)
           c == [b EXCEPT !.ring = y]
<1>1. /\ DOMAIN b = {"anchor", "ring", "wrapped"} /\ StateOK(b.anchor) /\ IsSeq(b.ring) /\ Len(b.ring) \in Nat
      /\ DOMAIN b.ring = 1..Len(b.ring) /\ \A k \in 1..Len(b.ring) : StateOK(b.ring[k])
  BY DEF RewindOK, IsSeq
<1>2. y = AtPlaces(b.ring, K)
  BY DEF ringTo
<1>3. K \subseteq 1..Len(b.ring)
  BY <1>1
<1>4. b.wrapped => K # {}
  <2>1. s.tick <= s.tick
    BY DEF StateOK
  <2> QED
    BY <1>1, <2>1
<1> HIDE DEF K, y
<1>5. /\ IsSeq(y) /\ Len(y) = Cardinality(K)
      /\ \A n \in 1..Len(y) : \E k \in K : y[n] = b.ring[k]
  <2> DEFINE N == Len(b.ring)
             x == b.ring
  <2>1. N \in Nat /\ K \subseteq 1..N
    BY <1>1, <1>3
  <2> HIDE DEF N, x
  <2>2. IsSeq(AtPlaces(x, K))
    BY <2>1, PlacesSeq
  <2>2a. Len(AtPlaces(x, K)) = Cardinality(K)
    BY <2>1, PlacesSeq
  <2>3. y = AtPlaces(x, K)
    BY <1>2 DEF x
  <2> DEFINE V == {x[k] : k \in K}
  <2>4. \A k \in K : x[k] \in V
    OBVIOUS
  <2> HIDE DEF V
  <2>5. \A n \in 1..Len(y) : y[n] \in V
    BY <2>1, <2>3, <2>4, PlacesFrom
  <2>6. \A n \in 1..Len(y) : \E k \in K : y[n] = x[k]
    BY <2>5 DEF V
  <2> QED
    BY <2>2, <2>2a, <2>3, <2>6 DEF x
<1>6. b.wrapped => Len(y) > 0
  <2>1. IsFiniteSet(1..Len(b.ring))
    BY <1>1, FS_Interval
  <2>2. IsFiniteSet(K)
    BY <1>3, <2>1, FS_Subset
  <2>3. Cardinality(K) \in Nat /\ (Cardinality(K) = 0 <=> K = {})
    BY <2>2, FS_CardinalityType, FS_EmptySet
  <2> QED
    BY <1>4, <1>5, <2>3
<1>7. DOMAIN c = {"anchor", "ring", "wrapped"} /\ c.anchor = b.anchor /\ c.ring = y /\ c.wrapped = b.wrapped
  BY <1>1
<1> HIDE DEF c
<1>8. RewindOK(c)
  BY <1>1, <1>3, <1>5, <1>6, <1>7 DEF RewindOK
<1> QED
  BY <1>8 DEF c, y

-----------------------------------------------------------------------------
(* Live play. *)

\* What the shape of a game depends on.
LEMMA ShapeKept ==
  ASSUME NEW g, Shape(g), NEW h, DOMAIN h = GameFields, h.phase = g.phase, h.store = g.store
  PROVE  Shape(h)
BY DEF Shape

\* A retry goes back to an earlier state, and saves the history that is left.
LEMMA RewindGood ==
  ASSUME NEW g, Shape(g), NEW hit, NEW target, NEW c,
         ~g.playback => /\ PartsOK(g) /\ StateOK(target)
                        /\ g.rewind.wrapped => \E k \in 1..Len(g.rewind.ring) : g.rewind.ring[k] = target
  PROVE  GameOK(rewindTo(g, hit, target, c))
<1> DEFINE K == {k \in DOMAIN g.history : g.history[k].tick < target.tick}
           past == AtPlaces(g.history, K)
           b == [g.rewind EXCEPT !.ring = ringTo(@, target.tick)]
           h == [g EXCEPT !.history = past, !.rewind.ring = ringTo(@, target.tick),
                          !.state = target, !.pending = <<>>, !.queued = <<>>, !.stats.retriesUsed = @ + 1]
           e == [type |-> "RetryAttempt", tick |-> target.tick,
                 attempt |-> Levels[hit.level].retries - target.retries + 1, failedAt |-> hit.failedAt]
           r == recordInput(h, e)
           q == IF r.dueAt = 0 THEN scheduleNext(r, target.level, target.tick, c) ELSE r
           p == setPhase(q, "rewinding")
<1>1. rewindTo(g, hit, target, c) = save(p)
  BY DEF rewindTo
<1>2. IsSeq(<<>>)
  BY NoneSeq
<1>3. ~g.playback => IsSeq(past)
  <2> SUFFICES ASSUME ~g.playback PROVE IsSeq(past)
    OBVIOUS
  <2> DEFINE N == Len(g.history)
  <2>1. N \in Nat /\ DOMAIN g.history = 1..N
    BY DEF PartsOK, IsSeq
  <2>2. K \subseteq 1..N
    BY <2>1
  <2> HIDE DEF N, K
  <2> QED
    BY <2>1, <2>2, PlacesSeq
<1> HIDE DEF past, e
<1>4. ~g.playback => RewindOK(b)
  <2> SUFFICES ASSUME ~g.playback PROVE RewindOK(b)
    OBVIOUS
  <2>1. RewindOK(g.rewind)
    BY DEF PartsOK
  <2> DEFINE w == g.rewind
  <2>2. RewindOK(w) /\ StateOK(target) /\ (w.wrapped => \E k \in 1..Len(w.ring) : w.ring[k] = target)
    BY <2>1
  <2> HIDE DEF w
  <2>3. RewindOK([w EXCEPT !.ring = ringTo(@, target.tick)])
    BY <2>2, RingKeeps
  <2> QED
    BY <2>3 DEF w
<1>5. /\ DOMAIN h = GameFields /\ h.phase = g.phase /\ h.store = g.store /\ h.playback = g.playback
      /\ h.history = past /\ h.rewind = b /\ h.state = target /\ h.pending = <<>> /\ h.queued = <<>>
  BY DEF Shape, GameFields
<1> HIDE DEF h, b
<1>6. /\ DOMAIN r = GameFields /\ r.phase = g.phase /\ r.store = g.store /\ r.playback = g.playback
      /\ r.history = Append(past, e) /\ r.rewind = b /\ r.state = target /\ r.pending = <<>>
      /\ r.queued = Append(<<>>, e)
  BY <1>5 DEF recordInput, GameFields
<1> HIDE DEF r
<1>7. Alike(r, q)
  BY <1>6, ScheduleAlike, DrawsAlike
<1> HIDE DEF q
<1>8. DOMAIN q = GameFields
  BY <1>7 DEF Alike
<1>9. /\ DOMAIN p = GameFields /\ p.phase = "rewinding" /\ p.playback = q.playback
      /\ p.history = q.history /\ p.state = q.state /\ p.queued = q.queued /\ p.rewind = q.rewind
      /\ p.store = q.store /\ (IsSeq(q.pending) => IsSeq(p.pending))
  BY <1>8, PhaseSet
<1> HIDE DEF p
<1>10. Shape(p)
  BY <1>6, <1>7, <1>9 DEF Shape, InRun, Alike
<1>11. ASSUME ~g.playback PROVE PartsOK(p)
  <2>1. IsSeq(Append(past, e)) /\ IsSeq(Append(<<>>, e))
    BY <1>2, <1>3, <1>11, AppendSeq
  <2> QED
    BY <1>2, <1>4, <1>6, <1>7, <1>9, <1>11, <2>1 DEF PartsOK, Alike
<1> QED
  BY <1>1, <1>6, <1>7, <1>9, <1>10, <1>11, SaveGood DEF Alike

\* A hit with retries left.
LEMMA RetryGood ==
  ASSUME NEW g, Shape(g), NEW hit, NEW c, ~g.playback => PartsOK(g)
  PROVE  GameOK(retry(g, hit, c))
<1> DEFINE retried == {k \in DOMAIN g.history : g.history[k].type = "RetryAttempt"}
           floor == IF retried = {} THEN 0 ELSE g.history[Max(retried)].tick + 1
           w == g.rewind
           target == pick(w, hit.failedAt, RewindBack, floor)
<1>1. retry(g, hit, c) = rewindTo(g, hit, target, c)
  BY DEF retry
<1> HIDE DEF retried, floor
<1>2. ~g.playback => RewindOK(w)
  BY DEF PartsOK
<1> HIDE DEF w
<1>3. ~g.playback => StateOK(target) /\ (w.wrapped => \E k \in 1..Len(w.ring) : w.ring[k] = target)
  BY <1>2, PickFinds
<1> HIDE DEF target
<1> QED
  BY <1>1, <1>3, RewindGood DEF w

\* The keys of a live tick enter the history; they are no activities.
LEMMA InputsTaken ==
  ASSUME NEW g, Shape(g)
  PROVE  LET h == takeInputs(g)
         IN /\ DOMAIN h = GameFields /\ h.phase = g.phase /\ h.store = g.store /\ h.playback = g.playback
            /\ h.start = g.start /\ h.state = g.state /\ h.rewind = g.rewind
            /\ h.pending = <<>> /\ h.queued = <<>>
            /\ ~g.playback /\ PartsOK(g) => IsSeq(h.history) /\ (Agree(g) => Agree(h))
<1> DEFINE ins == TickInputs(g)
           events == [k \in DOMAIN ins |-> [type |-> "Input", tick |-> g.state.tick, kind |-> ins[k]]]
           x == [g EXCEPT !.queued = <<>>, !.pending = <<>>, !.liveTick = @ + 1, !.history = @ \o events]
           more == [k \in DOMAIN ins |-> <<g.liveTick, ins[k]>>]
           y1 == [x EXCEPT !.inputCursor = @ + Len(ins)]
           y2 == [x EXCEPT !.tape.inputs = @ \o more, !.tape.liveTick = g.liveTick + 1]
           h == takeInputs(g)
<1>1. h \in {y1, y2}
  BY DEF takeInputs
<1>2. ~g.playback => ins = g.pending
  BY DEF TickInputs
<1> HIDE DEF ins
<1>3. ASSUME ~g.playback, PartsOK(g)
      PROVE  IsSeq(events) /\ \A k \in 1..Len(events) : events[k].type \notin Activities
  <2>1. IsSeq(ins)
    BY <1>2, <1>3 DEF PartsOK
  <2>2. Len(ins) \in Nat /\ DOMAIN ins = 1..Len(ins)
    BY <2>1 DEF IsSeq
  <2>3. /\ events = [k \in 1..Len(ins) |-> events[k]]
        /\ \A k \in 1..Len(ins) : events[k].type = "Input"
    BY <2>2
  <2> HIDE DEF events
  <2>4. IsSeq(events) /\ Len(events) = Len(ins)
    BY <2>2, <2>3, FcnSeq
  <2> QED
    BY <2>3, <2>4 DEF Activities
<1> HIDE DEF events, more
<1>4. /\ DOMAIN x = GameFields /\ x.phase = g.phase /\ x.store = g.store /\ x.playback = g.playback
      /\ x.start = g.start /\ x.state = g.state /\ x.rewind = g.rewind
      /\ x.pending = <<>> /\ x.queued = <<>> /\ x.history = g.history \o events
  BY DEF Shape, GameFields
<1> HIDE DEF x
<1>5. /\ DOMAIN h = GameFields /\ h.phase = g.phase /\ h.store = g.store /\ h.playback = g.playback
      /\ h.start = g.start /\ h.state = g.state /\ h.rewind = g.rewind
      /\ h.pending = <<>> /\ h.queued = <<>> /\ h.history = g.history \o events
  BY <1>1, <1>4 DEF GameFields
<1> HIDE DEF h
<1>6. ASSUME ~g.playback, PartsOK(g) PROVE IsSeq(h.history) /\ (Agree(g) => Agree(h))
  <2>1. IsSeq(g.history)
    BY <1>6 DEF PartsOK
  <2>2. IsSeq(g.history \o events)
    BY <1>3, <1>6, <2>1, ConcatSeq
  <2>3. ASSUME Agree(g) PROVE Agree(h)
    <3> DEFINE saved == g.store.save.body.history
    <3>1. IsSeq(saved) /\ Covers(saved, g.history)
      BY <2>3 DEF Agree, Shape
    <3> HIDE DEF saved
    <3>2. Covers(saved, g.history \o events)
      BY <1>3, <1>6, <2>1, <3>1, CoversMore
    <3> QED
      BY <1>5, <2>3, <3>2 DEF Agree, saved
  <2> QED
    BY <1>5, <2>2, <2>3
<1> QED
  BY <1>5, <1>6 DEF h

\* What a tick did enters the history.
LEMMA EventsRecorded ==
  ASSUME NEW g, DOMAIN g = GameFields, NEW state, NEW events, NEW v, NEW c
  PROVE  LET h == recordEvents(g, state, events, v, c)
         IN /\ DOMAIN h = GameFields /\ h.phase = g.phase /\ h.store = g.store /\ h.playback = g.playback
            /\ h.start = g.start /\ h.state = state /\ h.rewind = g.rewind /\ h.history = g.history \o events
            /\ h.pending = g.pending /\ h.queued = g.queued
<1> DEFINE orbs == {k \in DOMAIN events : events[k].type = "OrbTaken"}
           values == [id \in DOMAIN g.orbValues \cup {events[k].id : k \in orbs} |->
                        IF \E k \in orbs : events[k].id = id THEN v ELSE g.orbValues[id]]
           h == [g EXCEPT !.state = state, !.history = @ \o events, !.orbValues = values,
                          !.stats.executed = @ + CountOf(events, Activities),
                          !.stats.circuitTrips = @ + CountOf(events, {"CircuitBreakerTripped"}),
                          !.stats.boostsLost = @ + CountOf(events, {"BoostLost"})]
           o == IF orbs # {} THEN onPickup(h, state.level, "orb", state.tick, c) ELSE h
           r == recordEvents(g, state, events, v, c)
<1>1. r = IF CountOf(events, {"ActivityCrateCollected"}) > 0
          THEN onPickup(o, state.level, "crate", state.tick, c) ELSE o
  BY DEF recordEvents
<1> HIDE DEF orbs, values
<1>2. /\ DOMAIN h = GameFields /\ h.phase = g.phase /\ h.store = g.store /\ h.playback = g.playback
      /\ h.start = g.start /\ h.state = state /\ h.rewind = g.rewind /\ h.history = g.history \o events
      /\ h.pending = g.pending /\ h.queued = g.queued
  BY DEF GameFields
<1> HIDE DEF h
<1>3. Alike(h, o)
  BY <1>2, PickupAlike, DrawsAlike
<1> HIDE DEF o
<1>4. DOMAIN o = GameFields
  BY <1>3 DEF Alike
<1>5. Alike(o, r)
  BY <1>1, <1>4, PickupAlike, DrawsAlike
<1> HIDE DEF r
<1> QED
  BY <1>2, <1>3, <1>5 DEF Alike, r

\* A segment is closed: it joins the run's segments.
LEMMA CloseAlike ==
  ASSUME NEW g, DOMAIN g = GameFields, NEW endTick
  PROVE  Alike(g, closeSegment(g, endTick))
<1> DEFINE x == [start |-> g.start, history |-> g.history, endTick |-> endTick, orbValues |-> g.orbValues]
           h == [g EXCEPT !.segments = Append(@, x)]
<1>1. closeSegment(g, endTick) \in {g, h}
  BY DEF closeSegment
<1> HIDE DEF x
<1>2. Alike(g, h)
  BY DEF Alike, GameFields
<1> QED
  BY <1>1, <1>2, DrawsAlike

\* A level ends: the next one begins, behind the montage of this one.
LEMMA LevelDoneGood ==
  ASSUME NEW g, Shape(g), NEW c
  PROVE  GameOK(levelDone(g, c))
<1> DEFINE d == [g EXCEPT !.divergedAt = -1]
           closed == closeSegment(d, g.state.tick)
           next == nextLevel(g.state.level)
           start == [continueAsNew(g.state) EXCEPT !.level = next, !.elapsed = 0, !.distance = 0,
                                                   !.retries = Levels[next].retries]
           x == [closed EXCEPT !.segments = <<>>]
           h == beginSegment(x, start, TRUE, c)
           y == [h EXCEPT !.montage = closed.segments]
<1>1. levelDone(g, c) \in {h, setPhase(y, "montage")}
  BY Zenon DEF levelDone
<1>2. DOMAIN g = GameFields
  BY DEF Shape
<1>3. DOMAIN d = GameFields /\ d.phase = g.phase /\ d.store = g.store
  BY <1>2 DEF GameFields
<1> HIDE DEF d, next
<1>4. Alike(d, closed)
  BY <1>3, CloseAlike
<1> HIDE DEF closed
<1>5. DOMAIN closed = GameFields /\ closed.phase = g.phase /\ closed.store = g.store
  BY <1>3, <1>4 DEF Alike
<1>6. DOMAIN x = GameFields /\ x.phase = g.phase /\ x.store = g.store
  BY <1>5 DEF GameFields
<1> HIDE DEF x, start
<1>7. Shape(x)
  BY <1>6, ShapeKept
<1>8. GameOK(h) /\ h.phase = "tip"
  BY <1>7, SegmentBegins
<1> HIDE DEF h
<1>9. Alike(h, y)
  BY <1>8 DEF GameOK, Shape, Alike, GameFields
<1> HIDE DEF y
<1>10. GameOK(y) /\ y.phase = "tip"
  BY <1>8, <1>9, AlikeGood DEF Alike
<1>11. GameOK(setPhase(y, "montage"))
  BY <1>10, PhaseGood DEF InRun
<1> QED
  BY <1>1, <1>8, <1>11

\* The boss phase ends: the level goes on as a new segment.
LEMMA HotfixGood ==
  ASSUME NEW g, Shape(g), NEW c
  PROVE  GameOK(hotfix(g, c))
<1> DEFINE d == [g EXCEPT !.divergedAt = -1]
           closed == closeSegment(d, g.state.tick)
           start == continueAsNew(g.state)
<1>1. hotfix(g, c) = beginSegment(closed, start, FALSE, c)
  BY DEF hotfix
<1>2. DOMAIN d = GameFields /\ d.phase = g.phase /\ d.store = g.store
  BY DEF Shape, GameFields
<1> HIDE DEF d, start
<1>3. Alike(d, closed)
  BY <1>2, CloseAlike
<1> HIDE DEF closed
<1>4. DOMAIN closed = GameFields /\ closed.phase = g.phase /\ closed.store = g.store
  BY <1>2, <1>3 DEF Alike
<1>5. Shape(closed)
  BY <1>4, ShapeKept
<1> QED
  BY <1>1, <1>5, SegmentBegins

\* After a live tick: outside a boss phase, what was collected is saved before
\* anything else happens.
LEMMA AfterTickGood ==
  ASSUME NEW g, Shape(g), g.phase = "playing", NEW events, NEW c,
         ~g.playback => PartsOK(g),
         ~g.playback /\ Cfg(g).durable /\ g.state.bossUntil = 0 /\ events = <<>> => Agree(g)
  PROVE  GameOK(afterTick(g, events, c))
<1> DEFINE s == g.state
           b == rewindPush(g.rewind, s)
           p == [g EXCEPT !.rewind = b]
           reason == IF s.bossUntil > 0 /\ g.divergedAt # -1 THEN "non-determinism" ELSE "obstacle"
           r == afterTick(g, events, c)
<1>1. /\ r \in {gameOver(g, reason), levelDone(g, c), hotfix(p, c), crash(p), save(p), p}
      /\ r = p /\ ~(s.bossUntil > 0) => events = <<>> \/ p = save(p) \/ p = crash(p) \/ p = levelDone(g, c)
                                         \/ p = gameOver(g, reason)
  BY DEF afterTick
<1> HIDE DEF reason, r
<1>2. ~g.playback => RewindOK(b)
  <2> DEFINE w == g.rewind
  <2>1. ~g.playback => RewindOK(w) /\ StateOK(s)
    BY DEF PartsOK
  <2> HIDE DEF w
  <2>2. ~g.playback => RewindOK(rewindPush(w, s))
    BY <2>1, PushKeeps
  <2> QED
    BY <2>2 DEF w
<1> HIDE DEF b
<1>3. /\ DOMAIN p = GameFields /\ p.phase = g.phase /\ p.store = g.store /\ p.playback = g.playback /\ p.start = g.start
      /\ p.state = g.state /\ p.history = g.history /\ p.pending = g.pending /\ p.queued = g.queued
      /\ p.rewind = b /\ p.replayer = g.replayer
  BY DEF Shape, GameFields
<1> HIDE DEF p
<1>4. Shape(p) /\ (~g.playback => PartsOK(p))
  BY <1>2, <1>3, ShapeKept DEF PartsOK
<1>5. GameOK(gameOver(g, reason)) /\ GameOK(levelDone(g, c)) /\ GameOK(hotfix(p, c))
  BY <1>4, OverGood, LevelDoneGood, HotfixGood
<1>6. GameOK(crash(p)) /\ GameOK(save(p))
  BY <1>3, <1>4, CrashGood, SaveGood
<1>7. ASSUME r = p PROVE GameOK(p)
  <2>1. CASE s.bossUntil > 0
    <3>1. s.bossUntil # 0
      BY <2>1
    <3> QED
      BY <1>3, <1>4, <3>1 DEF GameOK, RunOK
  <2>2. CASE ~(s.bossUntil > 0) /\ events = <<>>
    <3>1. ~g.playback /\ Cfg(p).durable /\ p.state.bossUntil = 0 => Agree(p)
      BY <1>3, <2>2 DEF Agree, Cfg
    <3> QED
      BY <1>3, <1>4, <3>1 DEF GameOK, RunOK
  <2> QED
    BY <1>1, <1>5, <1>6, <1>7, <2>1, <2>2
<1> QED
  BY <1>1, <1>5, <1>6, <1>7 DEF r

\* What the engine returned is applied: a retry, or the history grows.
LEMMA StepApplied ==
  ASSUME NEW g, Shape(g), g.phase = "playing", NEW r, NEW v, NEW c,
         ~g.playback => PartsOK(g) /\ StateOK(r.state) /\ EventsOK(r.events),
         ~g.playback /\ Cfg(g).durable /\ r.state.bossUntil = 0 => Agree(g)
  PROVE  GameOK(applyStep(g, r, v, c))
<1> DEFINE h == recordEvents(g, r.state, r.events, v, c)
<1>1. applyStep(g, r, v, c) \in {retry(g, r.state, c), afterTick(h, r.events, c)}
  BY DEF applyStep
<1>2. /\ DOMAIN h = GameFields /\ h.phase = g.phase /\ h.store = g.store /\ h.playback = g.playback
      /\ h.start = g.start /\ h.state = r.state /\ h.rewind = g.rewind /\ h.history = g.history \o r.events
      /\ h.pending = g.pending /\ h.queued = g.queued
  <2> DEFINE s == r.state
             ev == r.events
             x == recordEvents(g, s, ev, v, c)
  <2>1. DOMAIN g = GameFields
    BY DEF Shape
  <2> HIDE DEF s, ev
  <2>2. /\ DOMAIN x = GameFields /\ x.phase = g.phase /\ x.store = g.store /\ x.playback = g.playback
        /\ x.start = g.start /\ x.state = s /\ x.rewind = g.rewind /\ x.history = g.history \o ev
        /\ x.pending = g.pending /\ x.queued = g.queued
    BY <2>1, EventsRecorded
  <2> QED
    BY <2>2 DEF s, ev
<1> HIDE DEF h
<1>3. Shape(h)
  BY <1>2, ShapeKept
<1>4. ASSUME ~g.playback PROVE PartsOK(h)
  <2>1. IsSeq(g.history) /\ IsSeq(r.events)
    BY <1>4 DEF PartsOK, EventsOK
  <2>2. IsSeq(g.history \o r.events)
    BY <2>1, ConcatSeq
  <2> QED
    BY <1>2, <1>4, <2>2 DEF PartsOK
<1>5. ASSUME ~g.playback, Cfg(h).durable, h.state.bossUntil = 0, r.events = <<>> PROVE Agree(h)
  <2>1. Agree(g) /\ IsSeq(g.history)
    BY <1>2, <1>5 DEF PartsOK, Cfg
  <2> DEFINE saved == g.store.save.body.history
  <2>2. IsSeq(saved) /\ Covers(saved, g.history)
    BY <2>1 DEF Agree, Shape
  <2> HIDE DEF saved
  <2> DEFINE x == r.events
  <2>3. IsSeq(x) /\ \A k \in 1..Len(x) : x[k].type \notin Activities
    <3>1. x = <<>>
      BY <1>5
    <3> HIDE DEF x
    <3>2. Len(x) = 0 /\ IsSeq(x)
      BY <3>1, NoneSeq
    <3> QED
      BY <3>2
  <2> HIDE DEF x
  <2>4. Covers(saved, g.history \o x)
    BY <2>1, <2>2, <2>3, CoversMore
  <2> QED
    BY <1>2, <2>1, <2>4 DEF Agree, saved, x
<1>6. GameOK(retry(g, r.state, c))
  BY RetryGood
<1>7. GameOK(afterTick(h, r.events, c))
  BY <1>2, <1>3, <1>4, <1>5, AfterTickGood
<1> QED
  BY <1>1, <1>6, <1>7

\* A tick of the game, live or from a tape.
LEMMA TickGood ==
  ASSUME NEW g, GameOK(g), g.phase = "playing", NEW v, NEW c
  PROVE  GameOK(tick(g, v, c))
<1> DEFINE keys == [k \in DOMAIN g.queued |-> inputOf(g.queued[k])]
           inputs == keys \o TickInputs(g)
           ports == [impure |-> ImpureOf(g, v), crates |-> <<>>]
           r == step(g.state, inputs, ports)
           t == takeInputs(g)
           h == IF r.calls > 0 THEN DrawImpure(t, v) ELSE t
<1>1. tick(g, v, c) = applyStep(h, r, ImpureOf(g, v), c)
  BY DEF tick
<1>2. Shape(g) /\ (~g.playback => RunOK(g))
  BY DEF GameOK, InRun
<1>3. /\ DOMAIN t = GameFields /\ t.phase = g.phase /\ t.store = g.store /\ t.playback = g.playback
      /\ t.start = g.start /\ t.state = g.state /\ t.rewind = g.rewind
      /\ t.pending = <<>> /\ t.queued = <<>>
      /\ ~g.playback /\ PartsOK(g) => IsSeq(t.history) /\ (Agree(g) => Agree(t))
  BY <1>2, InputsTaken
<1> HIDE DEF t
<1>4. Alike(t, h)
  BY <1>3, DrawsAlike
<1>5. ASSUME ~g.playback
      PROVE  StateOK(r.state) /\ EventsOK(r.events) /\ r.state.bossUntil = g.state.bossUntil
  <2>1. IsSeq(g.queued) /\ IsSeq(g.pending) /\ StateOK(g.state)
    BY <1>2, <1>5 DEF RunOK, PartsOK
  <2>2. IsSeq(keys)
    <3>1. Len(g.queued) \in Nat /\ DOMAIN g.queued = 1..Len(g.queued)
      BY <2>1 DEF IsSeq
    <3>2. keys = [k \in 1..Len(g.queued) |-> keys[k]]
      BY <3>1
    <3> HIDE DEF keys
    <3> QED
      BY <3>1, <3>2, FcnSeq
  <2> HIDE DEF keys
  <2>3. IsSeq(TickInputs(g))
    BY <1>5, <2>1 DEF TickInputs
  <2>4. IsSeq(inputs)
    BY <2>2, <2>3, ConcatSeq
  <2> HIDE DEF inputs, ports
  <2> QED
    BY <2>1, <2>4, StepShape
<1> HIDE DEF r, h
<1>6. Shape(t) /\ (~g.playback => PartsOK(t))
  <2>1. IsSeq(<<>>)
    BY NoneSeq
  <2> QED
    BY <1>2, <1>3, <2>1, ShapeKept DEF RunOK, PartsOK
<1>7. Shape(h) /\ (~g.playback => PartsOK(h)) /\ h.phase = "playing" /\ h.playback = g.playback
  BY <1>3, <1>4, <1>6, AlikeGood DEF Alike
<1>8. ASSUME ~g.playback, Cfg(h).durable, r.state.bossUntil = 0 PROVE Agree(h)
  <2>1. Cfg(g).durable /\ g.state.bossUntil = 0
    BY <1>3, <1>4, <1>5, <1>8 DEF Alike, Cfg
  <2>2. Agree(g)
    BY <1>2, <1>8, <2>1 DEF RunOK
  <2>3. Agree(t)
    BY <1>2, <1>3, <1>8, <2>2 DEF RunOK
  <2> QED
    BY <1>4, <2>3, AlikeGood
<1> QED
  BY <1>1, <1>5, <1>7, <1>8, StepApplied

-----------------------------------------------------------------------------
(* Replays. *)

\* The replay reached the interruption: what it recorded is no activity.
LEMMA ReplayDoneGood ==
  ASSUME NEW g, Shape(g), NEW r, NEW c,
         ~g.playback => /\ IsSeq(g.history) /\ IsSeq(g.pending) /\ StateOK(g.state) /\ RewindOK(g.rewind)
                        /\ Cfg(g).durable => Agree(g)
  PROVE  GameOK(replayDone(g, r, c))
<1> DEFINE at == r.state.tick
           K == {k \in DOMAIN g.history : isInputEvent(g.history[k]) /\ g.history[k].tick = at}
           again == AtPlaces(g.history, K)
           h == [g EXCEPT !.queued = again]
           q == scheduleNext(h, r.state.level, at, c)
           e == [type |-> "OrchestratorStarted", tick |-> at]
           x == recordInput(q, e)
           p == setPhase(x, "playing")
<1>1. replayDone(g, r, c) = p
  BY DEF replayDone
<1>2. ~g.playback => IsSeq(again)
  <2> SUFFICES ASSUME ~g.playback PROVE IsSeq(again)
    OBVIOUS
  <2> DEFINE N == Len(g.history)
  <2>1. N \in Nat /\ DOMAIN g.history = 1..N
    BY DEF IsSeq
  <2>2. K \subseteq 1..N
    BY <2>1
  <2> HIDE DEF N, K
  <2> QED
    BY <2>1, <2>2, PlacesSeq
<1> HIDE DEF again
<1>3. /\ DOMAIN h = GameFields /\ h.phase = g.phase /\ h.store = g.store /\ h.playback = g.playback /\ h.start = g.start
      /\ h.state = g.state /\ h.history = g.history /\ h.pending = g.pending /\ h.queued = again
      /\ h.rewind = g.rewind
  BY DEF Shape, GameFields
<1> HIDE DEF h
<1>4. Alike(h, q)
  BY <1>3, ScheduleAlike
<1>5. e.type \notin Activities
  BY DEF Activities
<1> HIDE DEF q, e
<1>6. /\ DOMAIN x = GameFields /\ x.phase = g.phase /\ x.store = g.store /\ x.playback = g.playback /\ x.start = g.start
      /\ x.state = g.state /\ x.history = Append(g.history, e) /\ x.pending = g.pending
      /\ x.queued = Append(again, e) /\ x.rewind = g.rewind
  BY <1>3, <1>4 DEF Alike, recordInput, GameFields
<1> HIDE DEF x
<1>7. /\ DOMAIN p = GameFields /\ p.phase = "playing" /\ p.playback = x.playback /\ p.start = x.start
      /\ p.history = x.history /\ p.state = x.state /\ p.queued = x.queued /\ p.rewind = x.rewind
      /\ p.store = x.store /\ (IsSeq(x.pending) => IsSeq(p.pending))
  BY <1>6, PhaseSet
<1> HIDE DEF p
<1>8. Shape(p)
  BY <1>6, <1>7 DEF Shape, InRun
<1>9. ASSUME ~g.playback PROVE RunOK(p)
  <2>1. IsSeq(Append(g.history, e)) /\ IsSeq(Append(again, e))
    BY <1>2, <1>9, AppendSeq
  <2>2. PartsOK(p)
    BY <1>6, <1>7, <1>9, <2>1 DEF PartsOK
  <2>3. ASSUME Cfg(p).durable PROVE Agree(p)
    <3>1. Agree(g)
      BY <1>6, <1>7, <1>9, <2>3 DEF Cfg
    <3> DEFINE saved == g.store.save.body.history
    <3>2. IsSeq(saved) /\ Covers(saved, g.history)
      BY <3>1 DEF Agree, Shape
    <3> HIDE DEF saved
    <3>3. Covers(saved, Append(g.history, e))
      BY <1>5, <1>9, <3>2, CoversOneMore
    <3> QED
      BY <1>6, <1>7, <3>1, <3>3 DEF Agree, saved
  <2> QED
    BY <2>2, <2>3 DEF RunOK
<1> QED
  BY <1>1, <1>6, <1>7, <1>8, <1>9 DEF GameOK

\* One more input event in live play.
LEMMA RecordGood ==
  ASSUME NEW g, GameOK(g), g.phase = "playing", NEW e, e.type \notin Activities
  PROVE  GameOK(recordInput(g, e))
<1> DEFINE x == recordInput(g, e)
<1>1. Shape(g) /\ (~g.playback => RunOK(g))
  BY DEF GameOK, InRun
<1>2. /\ DOMAIN x = GameFields /\ x.phase = g.phase /\ x.store = g.store /\ x.playback = g.playback /\ x.start = g.start
      /\ x.state = g.state /\ x.history = Append(g.history, e) /\ x.pending = g.pending
      /\ x.queued = Append(g.queued, e) /\ x.rewind = g.rewind
  BY <1>1 DEF Shape, recordInput, GameFields
<1> HIDE DEF x
<1>3. Shape(x)
  BY <1>1, <1>2, ShapeKept
<1>4. ASSUME ~g.playback PROVE RunOK(x)
  <2>1. PartsOK(g) /\ IsSeq(g.history) /\ IsSeq(g.queued)
    BY <1>1, <1>4 DEF RunOK, PartsOK
  <2>2. IsSeq(Append(g.history, e)) /\ IsSeq(Append(g.queued, e))
    BY <2>1, AppendSeq
  <2>3. PartsOK(x)
    BY <1>2, <2>1, <2>2 DEF PartsOK
  <2>4. ASSUME Agree(g) PROVE Agree(x)
    <3> DEFINE saved == g.store.save.body.history
    <3>1. IsSeq(saved) /\ Covers(saved, g.history)
      BY <1>1, <2>4 DEF Agree, Shape
    <3> HIDE DEF saved
    <3>2. Covers(saved, Append(g.history, e))
      BY <2>1, <3>1, CoversOneMore
    <3> QED
      BY <1>2, <2>4, <3>2 DEF Agree, saved
  <2> QED
    BY <1>1, <1>2, <1>4, <2>3, <2>4 DEF RunOK, Cfg
<1> QED
  BY <1>2, <1>3, <1>4 DEF GameOK, x

\* The replay diverged: the boss phase is a new segment.
LEMMA DivergedGood ==
  ASSUME NEW g, Shape(g), NEW r, NEW c
  PROVE  GameOK(replayDiverged(g, r, c))
<1> DEFINE d == [g EXCEPT !.stats.incidents = @ + 1, !.divergedAt = r.divergedAt]
           failed == closeSegment(d, g.crashTick)
           start == [continueAsNew(r.state) EXCEPT !.boss = TRUE]
           b == beginSegment(failed, start, FALSE, c)
           e == [type |-> "OrchestratorStarted", tick |-> 0]
<1>1. replayDiverged(g, r, c) = recordInput(b, e)
  BY DEF replayDiverged
<1>2. DOMAIN d = GameFields /\ d.phase = g.phase /\ d.store = g.store
  BY DEF Shape, GameFields
<1> HIDE DEF d, start
<1>3. Alike(d, failed)
  BY <1>2, CloseAlike
<1> HIDE DEF failed
<1>4. DOMAIN failed = GameFields /\ failed.phase = g.phase /\ failed.store = g.store
  BY <1>2, <1>3 DEF Alike
<1>5. Shape(failed)
  BY <1>4, ShapeKept
<1>6. GameOK(b) /\ b.phase = "playing"
  BY <1>5, SegmentBegins
<1>7. e.type \notin Activities
  BY DEF Activities
<1> HIDE DEF b, e
<1> QED
  BY <1>1, <1>6, <1>7, RecordGood

\* A replay ends.
LEMMA FinishGood ==
  ASSUME NEW g, Shape(g), NEW r, NEW c,
         ~g.playback => PartsOK(g) /\ (Cfg(g).durable => Agree(g))
  PROVE  GameOK(finishReplay(g, r, c))
<1> DEFINE served == IF r.divergedAt = -1 THEN g.history ELSE SubSeq(g.history, 1, r.divergedAt)
           h == [g EXCEPT !.replayer = None, !.stats.fromHistory = @ + CountOf(served, Activities)]
<1>1. finishReplay(g, r, c) \in {replayDone(h, r, c), replayDiverged(h, r, c)}
  BY DEF finishReplay
<1> HIDE DEF served
<1>2. /\ DOMAIN h = GameFields /\ h.phase = g.phase /\ h.store = g.store /\ h.playback = g.playback /\ h.start = g.start
      /\ h.state = g.state /\ h.history = g.history /\ h.pending = g.pending /\ h.queued = g.queued
      /\ h.rewind = g.rewind
  BY DEF Shape, GameFields
<1> HIDE DEF h
<1>3. Shape(h)
  BY <1>2, ShapeKept
<1>4. ~g.playback => /\ IsSeq(h.history) /\ IsSeq(h.pending) /\ StateOK(h.state) /\ RewindOK(h.rewind)
                     /\ Cfg(h).durable => Agree(h)
  BY <1>2 DEF PartsOK, Cfg, Agree
<1>5. GameOK(replayDone(h, r, c))
  BY <1>2, <1>3, <1>4, ReplayDoneGood
<1>6. GameOK(replayDiverged(h, r, c))
  BY <1>3, DivergedGood
<1> QED
  BY <1>1, <1>5, <1>6

\* A replayed tick is shown.
LEMMA ShownGood ==
  ASSUME NEW g, Shape(g), g.phase = "replaying", NEW r, NEW w,
         ~g.playback => PartsOK(g) /\ (Cfg(g).durable => Agree(g)) /\ ReplayerOK(r) /\ RewindOK(w),
         NEW h, DOMAIN h = GameFields, h.phase = g.phase, h.store = g.store, h.playback = g.playback, h.start = g.start,
         h.history = g.history, h.pending = g.pending, h.queued = g.queued,
         h.replayer = r, h.state = r.state, h.rewind = w
  PROVE  /\ Shape(h) /\ h.phase = "replaying" /\ h.playback = g.playback
         /\ ~g.playback => PartsOK(h) /\ (Cfg(h).durable => Agree(h))
<1>2. Shape(h)
  BY ShapeKept
<1>3. ASSUME ~g.playback PROVE PartsOK(h) /\ (Cfg(h).durable => Agree(h))
  <2>1. StateOK(r.state)
    BY <1>3 DEF ReplayerOK
  <2>2. PartsOK(h)
    BY <1>3, <2>1 DEF PartsOK
  <2>3. Cfg(h).durable => Agree(h)
    BY <1>3 DEF Cfg, Agree
  <2> QED
    BY <2>2, <2>3
<1> QED
  BY <1>2, <1>3

\* A frame of a replay.
LEMMA AdvanceGood ==
  ASSUME NEW g, GameOK(g), g.phase = "replaying", NEW v, NEW c
  PROVE  GameOK(advanceReplay(g, v, c))
<1>1. Shape(g) /\ (~g.playback => PartsOK(g) /\ (Cfg(g).durable => Agree(g)))
  BY DEF GameOK, InRun, RunOK
<1> DEFINE a == advance(g.replayer, ImpureOf(g, v))
           d == IF a.calls > 0 THEN DrawImpure(g, v) ELSE g
           w == IF a.r.state.status = "running" THEN rewindPush(d.rewind, a.r.state) ELSE d.rewind
           h == [d EXCEPT !.replayer = a.r, !.state = a.r.state, !.rewind = w]
           x == IF g.replayer.done THEN g ELSE h
<1>2. advanceReplay(g, v, c) = IF x.replayer.done THEN finishReplay(x, x.replayer, c) ELSE x
  BY DEF advanceReplay
<1>3. ~g.playback => ReplayerOK(g.replayer)
  BY <1>1 DEF PartsOK
<1>4. ~g.playback => ReplayerOK(a.r)
  <2> DEFINE y == g.replayer
             z == ImpureOf(g, v)
  <2>1. ~g.playback => ReplayerOK(y)
    BY <1>3
  <2> HIDE DEF y, z
  <2>2. ~g.playback => ReplayerOK(advance(y, z).r)
    BY <2>1, ReplayerAdvances
  <2> QED
    BY <2>2 DEF y, z
<1> HIDE DEF a
<1>5. Alike(g, d)
  BY <1>1, DrawsAlike DEF Shape
<1> HIDE DEF d
<1>6. /\ Shape(d) /\ d.phase = "replaying" /\ d.playback = g.playback
      /\ ~g.playback => PartsOK(d) /\ (Cfg(d).durable => Agree(d))
  BY <1>1, <1>5, AlikeGood DEF Alike, Cfg
<1>7. ~g.playback => RewindOK(w)
  <2> DEFINE y == d.rewind
             s == a.r.state
  <2>1. ~g.playback => RewindOK(y) /\ StateOK(s)
    BY <1>4, <1>6 DEF PartsOK, ReplayerOK
  <2> HIDE DEF y, s
  <2>2. ~g.playback => RewindOK(rewindPush(y, s))
    BY <2>1, PushKeeps
  <2> QED
    BY <2>1, <2>2 DEF y, s
<1> HIDE DEF w
<1>8. /\ Shape(h) /\ h.phase = "replaying" /\ h.playback = d.playback
      /\ ~d.playback => PartsOK(h) /\ (Cfg(h).durable => Agree(h))
  <2> DEFINE r == a.r
  <2>1. ~d.playback => PartsOK(d) /\ (Cfg(d).durable => Agree(d)) /\ ReplayerOK(r) /\ RewindOK(w)
    BY <1>4, <1>6, <1>7
  <2> HIDE DEF r
  <2> DEFINE y == [d EXCEPT !.replayer = r, !.state = r.state, !.rewind = w]
  <2>2. /\ DOMAIN y = GameFields /\ y.phase = d.phase /\ y.store = d.store /\ y.playback = d.playback
        /\ y.start = d.start /\ y.history = d.history /\ y.pending = d.pending /\ y.queued = d.queued
        /\ y.replayer = r /\ y.state = r.state /\ y.rewind = w
    BY <1>6 DEF Shape, GameFields
  <2> HIDE DEF y
  <2>3. /\ Shape(y) /\ y.phase = "replaying" /\ y.playback = d.playback
        /\ ~d.playback => PartsOK(y) /\ (Cfg(y).durable => Agree(y))
    BY <1>6, <2>1, <2>2, ShownGood
  <2> QED
    BY <2>3 DEF r, y
<1> HIDE DEF h
<1>9. /\ Shape(x) /\ x.phase = "replaying" /\ x.playback = g.playback
      /\ ~g.playback => PartsOK(x) /\ (Cfg(x).durable => Agree(x))
  BY <1>1, <1>6, <1>8
<1> HIDE DEF x
<1>10. GameOK(finishReplay(x, x.replayer, c))
  BY <1>9, FinishGood
<1>11. GameOK(x)
  BY <1>9 DEF GameOK, RunOK
<1> QED
  BY <1>2, <1>10, <1>11

-----------------------------------------------------------------------------
(* Frames and commands. *)

\* Playback dismisses cards and repeats the recorded resumes.
LEMMA AutoplayGood ==
  ASSUME NEW g, GameOK(g), g.playback, NEW c
  PROVE  GameOK(autoplay(g, c))
<1> DEFINE h == IF g.phase \in {"tip", "lost"} THEN confirm(g, c) ELSE g
           r == g.tape.restarts[g.restartCursor]
           x == [h EXCEPT !.restartCursor = @ + 1, !.impureAt = r.impureAt, !.chaosAt = r.chaosAt]
<1>1. autoplay(g, c) \in {h, restoreSave(x, r.save, c)}
  BY DEF autoplay
<1>2. GameOK(h) /\ h.playback
  BY ConfirmGood
<1> HIDE DEF h, r
<1>3. DOMAIN x = GameFields /\ x.phase = h.phase /\ x.store = h.store /\ x.playback = h.playback
  BY <1>2 DEF GameOK, Shape, GameFields
<1> HIDE DEF x
<1>4. Shape(x)
  BY <1>2, <1>3, ShapeKept DEF GameOK
<1>5. GameOK(restoreSave(x, r.save, c))
  BY <1>2, <1>3, <1>4, RestoreGood
<1> QED
  BY <1>1, <1>2, <1>5

\* The montage is over.
LEMMA MontageGood ==
  ASSUME NEW g, GameOK(g), g.phase = "montage"
  PROVE  GameOK(endMontage(g))
<1> DEFINE h == [g EXCEPT !.montage = <<>>]
<1>1. endMontage(g) = setPhase(h, "tip")
  BY DEF endMontage
<1>2. Alike(g, h)
  BY DEF GameOK, Shape, Alike, GameFields
<1> HIDE DEF h
<1>3. GameOK(h) /\ h.phase = "montage"
  BY <1>2, AlikeGood DEF Alike
<1> QED
  BY <1>1, <1>3, PhaseGood DEF InRun

\* A frame, in any phase.
LEMMA FramePhaseGood ==
  ASSUME NEW g, GameOK(g), NEW v, NEW c
  PROVE  GameOK(framePhase(g, v, c))
<1>1. CASE g.phase = "playing"
  <2>1. framePhase(g, v, c) \in {g, tick(g, v, c)}
    BY <1>1 DEF framePhase
  <2> QED
    BY <1>1, <2>1, TickGood
<1>2. CASE g.phase = "crashing"
  <2>1. framePhase(g, v, c) = startReplay(g)
    BY <1>2 DEF framePhase
  <2>2. Shape(g) /\ (~g.playback => RunOK(g))
    BY <1>2 DEF GameOK, InRun
  <2>3. ~g.playback => IsSeq(g.history) /\ IsSeq(g.pending) /\ IsSeq(g.queued) /\ (Cfg(g).durable => Agree(g))
    BY <1>2, <2>2 DEF RunOK, PartsOK
  <2> QED
    BY <2>1, <2>2, <2>3, ReplayStarts
<1>3. CASE g.phase = "replaying"
  <2>1. framePhase(g, v, c) = advanceReplay(g, v, c)
    BY <1>3 DEF framePhase
  <2> QED
    BY <1>3, <2>1, AdvanceGood
<1>4. CASE g.phase = "rewinding"
  <2>1. framePhase(g, v, c) = setPhase(g, "playing")
    BY <1>4 DEF framePhase
  <2> QED
    BY <1>4, <2>1, PhaseGood DEF InRun
<1>5. CASE g.phase = "montage"
  <2>1. framePhase(g, v, c) = endMontage(g)
    BY <1>5 DEF framePhase
  <2> QED
    BY <1>5, <2>1, MontageGood
<1>6. CASE g.phase \notin {"playing", "crashing", "replaying", "rewinding", "montage"}
  BY <1>6 DEF framePhase
<1> QED
  BY <1>1, <1>2, <1>3, <1>4, <1>5, <1>6

\* A frame of the animation loop.
LEMMA FrameGood ==
  ASSUME NEW g, GameOK(g), NEW v, NEW c
  PROVE  GameOK(frame(g, v, c))
<1> DEFINE h == IF g.playback THEN autoplay(g, c) ELSE g
           x == framePhase(h, v, c)
           reason == "ended early"
           y == gameOver(x, reason)
<1>1. frame(g, v, c) \in {x, y}
  BY DEF frame, endEarly
<1>2. GameOK(h)
  BY AutoplayGood
<1> HIDE DEF h, reason
<1>3. GameOK(x)
  BY <1>2, FramePhaseGood
<1>4. Shape(x)
  BY <1>3 DEF GameOK
<1> HIDE DEF x
<1>5. GameOK(y)
  BY <1>4, OverGood
<1> HIDE DEF y
<1> QED
  BY <1>1, <1>3, <1>5

\* A save at any time.
LEMMA SaveAnyGood ==
  ASSUME NEW g, GameOK(g)
  PROVE  GameOK(save(g))
<1>1. CASE g.phase = "resume"
  BY <1>1 DEF save
<1>2. CASE g.phase # "resume"
  <2>1. Shape(g) /\ (~g.playback /\ g.phase \in InRun => PartsOK(g))
    BY DEF GameOK, RunOK
  <2> QED
    BY <1>2, <2>1, SaveGood
<1> QED
  BY <1>1, <1>2

\* A pause saves.
LEMMA PauseGood ==
  ASSUME NEW g, GameOK(g), g.phase = "playing"
  PROVE  GameOK(save(setPhase(g, "paused")))
<1> DEFINE h == setPhase(g, "paused")
<1>1. Shape(g) /\ (~g.playback => PartsOK(g)) /\ DOMAIN g = GameFields
  BY DEF GameOK, Shape, InRun, RunOK
<1>2. /\ DOMAIN h = GameFields /\ h.phase = "paused" /\ h.playback = g.playback
      /\ h.history = g.history /\ h.state = g.state /\ h.queued = g.queued /\ h.rewind = g.rewind
      /\ h.store = g.store /\ (IsSeq(g.pending) => IsSeq(h.pending))
  BY <1>1, PhaseSet
<1> HIDE DEF h
<1>3. Shape(h)
  BY <1>1, <1>2 DEF Shape, InRun
<1>4. ~g.playback => PartsOK(h)
  BY <1>1, <1>2 DEF PartsOK
<1>5. GameOK(save(h))
  BY <1>2, <1>3, <1>4, SaveGood
<1> QED
  BY <1>5 DEF h

\* The tab is hidden.
LEMMA SuspendGood ==
  ASSUME NEW g, GameOK(g)
  PROVE  GameOK(suspend(g))
<1>1. CASE g.phase = "playing"
  <2>1. suspend(g) = save(setPhase(g, "paused"))
    BY <1>1 DEF suspend
  <2> QED
    BY <1>1, <2>1, PauseGood
<1>2. CASE g.phase # "playing"
  <2>1. suspend(g) = save(g)
    BY <1>2 DEF suspend
  <2> QED
    BY <2>1, SaveAnyGood
<1> QED
  BY <1>1, <1>2

\* A player key waits for the next tick.
LEMMA PendingGood ==
  ASSUME NEW g, GameOK(g), g.phase = "playing", NEW k
  PROVE  GameOK([g EXCEPT !.pending = Append(@, k)])
<1> DEFINE h == [g EXCEPT !.pending = Append(@, k)]
<1>1. Shape(g) /\ (~g.playback => RunOK(g))
  BY DEF GameOK, InRun
<1>2. /\ DOMAIN h = GameFields /\ h.phase = g.phase /\ h.store = g.store /\ h.playback = g.playback /\ h.start = g.start
      /\ h.state = g.state /\ h.history = g.history /\ h.pending = Append(g.pending, k)
      /\ h.queued = g.queued /\ h.rewind = g.rewind
  BY <1>1 DEF Shape, GameFields
<1> HIDE DEF h
<1>3. Shape(h)
  BY <1>1, <1>2, ShapeKept
<1>4. ASSUME ~g.playback PROVE RunOK(h)
  <2>1. IsSeq(g.pending)
    BY <1>1, <1>4 DEF RunOK, PartsOK
  <2>2. IsSeq(Append(g.pending, k))
    BY <2>1, AppendSeq
  <2>3. PartsOK(h)
    BY <1>1, <1>2, <1>4, <2>2 DEF RunOK, PartsOK
  <2> QED
    BY <1>1, <1>2, <1>4, <2>3 DEF RunOK, Agree, Cfg
<1>5. GameOK(h)
  BY <1>2, <1>3, <1>4 DEF GameOK
<1> QED
  BY <1>5 DEF h

\* The saved run is turned down, or playback is left.
LEMMA TitleGood ==
  ASSUME NEW g, Shape(g)
  PROVE  GameOK(setPhase(g, "title"))
<1> DEFINE h == setPhase(g, "title")
<1>1. DOMAIN h = GameFields /\ h.phase = "title" /\ h.store = g.store
  BY PhaseSet DEF Shape
<1> HIDE DEF h
<1>2. GameOK(h)
  BY <1>1 DEF GameOK, Shape, InRun
<1> QED
  BY <1>2 DEF h

\* A key or a command of live play; in playback, those it shares with live play.
LEMMA CommandInGood ==
  ASSUME NEW g, GameOK(g), NEW k, NEW c, g.playback => k \in {"pause", "cancel"} \/ g.phase = "paused"
  PROVE  GameOK(commandIn(g, k, c))
<1> DEFINE d == [g EXCEPT !.savedRun = None, !.store.save = None]
           p == [g EXCEPT !.pending = Append(@, k)]
           r == commandIn(g, k, c)
<1>1. \/ r = g
      \/ r = newRun(g, c)
      \/ r = resumeSaved(g, c) /\ g.phase = "resume" /\ k = "confirm"
      \/ r = setPhase(d, "title")
      \/ r = confirm(g, c)
      \/ r = endMontage(g) /\ g.phase = "montage"
      \/ r = save(setPhase(g, "paused")) /\ g.phase = "playing"
      \/ r = p /\ g.phase = "playing"
      \/ r = setPhase(g, "playing") /\ g.phase = "paused"
  BY DEF commandIn
<1>2. Shape(g)
  BY DEF GameOK
<1>3. DOMAIN d = GameFields /\ d.phase = g.phase /\ DOMAIN d.store = {"save", "best", "daily"} /\ d.store.save = None
  BY <1>2 DEF Shape, GameFields
<1> HIDE DEF d, r
<1>4. Shape(d)
  BY <1>2, <1>3 DEF Shape
<1>5. GameOK(newRun(g, c)) /\ GameOK(confirm(g, c))
  BY <1>2, NewRunGood, ConfirmGood
<1>6. GameOK(setPhase(d, "title"))
  BY <1>4, TitleGood
<1>7. g.phase = "resume" /\ k = "confirm" => GameOK(resumeSaved(g, c))
  <2> SUFFICES ASSUME g.phase = "resume", k = "confirm" PROVE GameOK(resumeSaved(g, c))
    OBVIOUS
  <2>1. ~g.playback
    OBVIOUS
  <2> QED
    BY <2>1, ResumeGood
<1>8. g.phase = "montage" => GameOK(endMontage(g))
  BY MontageGood
<1>9. g.phase = "playing" => GameOK(save(setPhase(g, "paused"))) /\ GameOK(p)
  BY PauseGood, PendingGood
<1>10. g.phase = "paused" => GameOK(setPhase(g, "playing"))
  BY PhaseGood DEF InRun
<1> HIDE DEF p
<1>11. GameOK(r)
  BY <1>1, <1>5, <1>6, <1>7, <1>8, <1>9, <1>10
<1> QED
  BY <1>11 DEF r

\* A key or a command, live or in playback.
LEMMA CommandGood ==
  ASSUME NEW g, GameOK(g), NEW k, NEW c
  PROVE  GameOK(command(g, k, c))
<1> DEFINE h == IF k = "slideStart" THEN [g EXCEPT !.slideHeld = TRUE]
                ELSE IF k = "slideEnd" THEN [g EXCEPT !.slideHeld = FALSE] ELSE g
           l == leavePlayback(h)
           r == command(g, k, c)
<1>1. \/ r = h
      \/ r = commandIn(h, k, c) /\ (g.playback => k \in {"pause", "cancel"} \/ g.phase = "paused")
      \/ r = newRun(h, c)
      \/ r = setPhase(l, "title")
  BY DEF command
<1>2. DOMAIN g = GameFields
  BY DEF GameOK, Shape
<1>3. Alike(g, h)
  BY <1>2 DEF Alike, GameFields
<1> HIDE DEF h, r
<1>4. GameOK(h) /\ h.playback = g.playback /\ h.phase = g.phase /\ DOMAIN h = GameFields
  BY <1>3, AlikeGood DEF Alike
<1>5. Shape(h)
  BY <1>4 DEF GameOK
<1>6. DOMAIN l = GameFields /\ l.phase = h.phase /\ l.store = h.store
  BY <1>4 DEF leavePlayback, GameFields
<1> HIDE DEF l
<1>7. Shape(l)
  BY <1>5, <1>6, ShapeKept
<1>8. GameOK(setPhase(l, "title")) /\ GameOK(newRun(h, c))
  BY <1>5, <1>7, TitleGood, NewRunGood
<1>9. (g.playback => k \in {"pause", "cancel"} \/ g.phase = "paused") => GameOK(commandIn(h, k, c))
  BY <1>4, CommandInGood
<1>10. GameOK(r)
  BY <1>1, <1>4, <1>8, <1>9
<1> QED
  BY <1>10 DEF r

\* The page is opened.
LEMMA BootGood ==
  ASSUME NEW store, DOMAIN store = {"save", "best", "daily"}, store.save # None => IsSeq(store.save.body.history)
  PROVE  GameOK(boot(store))
<1> DEFINE b == boot(store)
           saved == parseSave(store.save)
<1>1. /\ DOMAIN b = GameFields /\ b.store = store /\ b.savedRun = saved
      /\ b.phase = IF saved # None THEN "resume" ELSE "title"
  BY DEF boot, GameFields
<1>2. saved # None => saved = store.save
  BY DEF parseSave
<1> HIDE DEF b, saved
<1>3. GameOK(b)
  BY <1>1, <1>2 DEF GameOK, Shape, InRun
<1> QED
  BY <1>3 DEF b

-----------------------------------------------------------------------------
(* The theorem. *)

\* The game's invariant holds at the first page load.
LEMMA GameStarts == Init => GameOK(game)
<1> SUFFICES ASSUME Init PROVE GameOK(game)
  OBVIOUS
<1> DEFINE store == [save |-> None, best |-> 0, daily |-> [date |-> 0, best |-> 0]]
<1>1. game = boot(store)
  BY DEF Init
<1>2. DOMAIN store = {"save", "best", "daily"} /\ store.save = None
  OBVIOUS
<1> HIDE DEF store
<1> QED
  BY <1>1, <1>2, BootGood

\* Every step of the game keeps it.
LEMMA GameGoesOn == GameOK(game) /\ [Next]_vars => GameOK(game')
<1> SUFFICES ASSUME GameOK(game), [Next]_vars PROVE GameOK(game')
  OBVIOUS
<1>1. CASE Frame
  <2>1. PICK v \in ImpureValues, c \in ChaosValues : game' = frame(game, v, c)
    BY <1>1 DEF Frame, Become
  <2> QED
    BY <2>1, FrameGood
<1>2. CASE \E k \in PlayerInputs : Key(k)
  <2>1. PICK k \in PlayerInputs : game' = command(game, k, 0)
    BY <1>2 DEF Key, Become
  <2> QED
    BY <2>1, CommandGood
<1>3. CASE \E k \in {"confirm", "cancel", "pause"} : Command(k)
  <2>1. PICK k \in {"confirm", "cancel", "pause"} : \E c \in ChaosValues : game' = command(game, k, c)
    BY <1>3 DEF Command, Become
  <2>2. PICK c \in ChaosValues : game' = command(game, k, c)
    BY <2>1
  <2> QED
    BY <2>2, CommandGood
<1>4. CASE Suspend
  <2>1. game' = suspend(game)
    BY <1>4 DEF Suspend, Become
  <2> QED
    BY <2>1, SuspendGood
<1>5. CASE PageHide
  <2>1. game' = save(game)
    BY <1>5 DEF PageHide, Become
  <2> QED
    BY <2>1, SaveAnyGood
<1>6. CASE Reload
  <2> DEFINE store == game.store
  <2>1. game' = boot(store)
    BY <1>6 DEF Reload, Become
  <2>2. DOMAIN store = {"save", "best", "daily"} /\ (store.save # None => IsSeq(store.save.body.history))
    BY DEF GameOK, Shape
  <2> HIDE DEF store
  <2> QED
    BY <2>1, <2>2, BootGood
<1>7. CASE Decoded
  <2>1. game' = watch(game, decoding, 0)
    BY <1>7 DEF Decoded, Become
  <2> QED
    BY <2>1, WatchGood
<1>8. CASE RequestWatch \/ NextDay \/ UNCHANGED vars
  <2>1. game' = game
    BY <1>8 DEF RequestWatch, NextDay, vars
  <2> QED
    BY <2>1
<1> QED
  BY <1>1, <1>2, <1>3, <1>4, <1>5, <1>6, <1>7, <1>8 DEF Next

\* While a durable level is played outside a boss phase, every activity of the
\* history is in the stored save, whatever crashed, was retried, paused, reloaded
\* or watched before: for any levels, chaos, orb values, keys and number of ticks
\* (game.ts save, afterTick, crash, the retry rewind and finishReplay).
THEOREM ActivitiesAreSaved == Spec => []ActivitiesSaved
<1>1. Init => GameOK(game)
  BY GameStarts
<1>2. GameOK(game) /\ [Next]_vars => GameOK(game)'
  BY GameGoesOn
<1>3. GameOK(game) => ActivitiesSaved
  <2> SUFFICES ASSUME GameOK(game), game.phase \in {"playing", "rewinding", "crashing"}, ~game.playback,
                      Cfg(game).durable, game.state.bossUntil = 0
               PROVE  game.store.save # None /\ Covers(game.store.save.body.history, game.history)
    BY DEF ActivitiesSaved
  <2>1. RunOK(game)
    BY DEF GameOK, InRun
  <2> QED
    BY <2>1 DEF RunOK, Agree
<1> QED
  BY <1>1, <1>2, <1>3, PTL DEF Spec

\* A retry always finds a state to go back to: the "rewind buffer is empty" error
\* of rewind.ts pick is never thrown in a live run.
RewindNeverEmpty ==
  game.phase \in InRun /\ ~game.playback => rewindAll(game.rewind) # <<>>

\* The rewind buffer is never empty while a live run lasts, though every retry
\* drops what it undid and a full buffer forgets the segment's start (rewind.ts).
THEOREM RetryFindsAState == Spec => []RewindNeverEmpty
<1>1. Init => GameOK(game)
  BY GameStarts
<1>2. GameOK(game) /\ [Next]_vars => GameOK(game)'
  BY GameGoesOn
<1>3. GameOK(game) => RewindNeverEmpty
  <2> SUFFICES ASSUME GameOK(game), game.phase \in InRun, ~game.playback
               PROVE  rewindAll(game.rewind) # <<>>
    BY DEF RewindNeverEmpty
  <2> DEFINE b == game.rewind
             all == rewindAll(b)
  <2>1. RewindOK(b)
    BY DEF GameOK, RunOK, PartsOK
  <2> HIDE DEF b
  <2>2. Len(all) \in Nat \ {0}
    BY <2>1, BufferHolds
  <2> HIDE DEF all
  <2>3. all # <<>>
    BY <2>2, NoneSeq
  <2> QED
    BY <2>3 DEF all, b
<1> QED
  BY <1>1, <1>2, <1>3, PTL DEF Spec

=============================================================================
