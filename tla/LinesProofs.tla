----------------------------- MODULE LinesProofs -----------------------------
(***************************************************************************)
(* Two pages made of lines.  What changed between two versions: the        *)
(* comparison is a shortest one, and the hunks are the lines near a change *)
(* - for any files, context and size of the table.  The log a page         *)
(* follows: it shows lines of one question and has no holes nobody         *)
(* mentions - for any ring, limits and number of polls under way.  Before  *)
(* them, what both rest on: numbers in order.                              *)
(***************************************************************************)
EXTENDS LineDiff, LogFollowing, FiniteSetTheorems, WellFoundedInduction, SequenceTheorems, TLAPS

(***************************************************************************)
(* Numbers in order.                                                       *)
(***************************************************************************)
\* Any numbers there are have a least one.
LEMMA HasLeast ==
  ASSUME NEW S \in SUBSET Nat, S # {}
  PROVE  \E m \in S : \A n \in S : m <= n
<1>1. PICK m \in S : \A n \in S : ~(<<n, m>> \in OpToRel(<, Nat))
  BY NatLessThanWellFounded, WFMin
<1>2. \A n \in S : ~(n < m)
  BY <1>1 DEF OpToRel
<1> QED BY <1>2

\* Where a number stands among the others.
Rank(n, S) == Cardinality({m \in S : m <= n})

\* Each has a place of its own, and the greater one a later place.
LEMMA RankIsOrder ==
  ASSUME NEW S \in SUBSET Nat, IsFiniteSet(S)
  PROVE  /\ \A n \in S : Rank(n, S) \in 1..Cardinality(S)
         /\ \A n, m \in S : n < m => Rank(n, S) < Rank(m, S)
<1> DEFINE Upto(n) == {m \in S : m <= n}
<1>1. \A n \in S : IsFiniteSet(Upto(n)) /\ Cardinality(Upto(n)) \in Nat /\ Cardinality(Upto(n)) <= Cardinality(S)
  <2>1. \A n \in S : Upto(n) \in SUBSET S
    OBVIOUS
  <2> QED BY <2>1, FS_Subset, FS_CardinalityType
<1>2. Cardinality(S) \in Nat
  BY FS_CardinalityType
<1>3. ASSUME NEW n \in S PROVE Cardinality(Upto(n)) # 0
  <2>1. n \in Upto(n)
    OBVIOUS
  <2> QED BY <1>1, <2>1, FS_EmptySet
<1>4. ASSUME NEW n \in S, NEW m \in S, n < m PROVE Cardinality(Upto(n)) < Cardinality(Upto(m))
  <2>1. Upto(n) \in SUBSET Upto(m) /\ m \in Upto(m) /\ m \notin Upto(n)
    <3>1. n \in Nat /\ m \in Nat /\ \A k \in S : k \in Nat
      OBVIOUS
    <3>2. \A k \in S : k <= n => k <= m
      BY <1>4, <3>1
    <3>3. m \in Upto(m) /\ m \notin Upto(n)
      BY <1>4, <3>1
    <3> QED BY <3>2, <3>3
  <2>2. Upto(n) # Upto(m)
    BY <2>1
  <2> QED BY <1>1, <2>1, <2>2, FS_Subset
<1> QED BY <1>1, <1>2, <1>3, <1>4 DEF Rank

\* Every place is taken.
LEMMA EveryRank ==
  ASSUME NEW S \in SUBSET Nat, IsFiniteSet(S), NEW k \in 1..Cardinality(S)
  PROVE  \E n \in S : Rank(n, S) = k
<1> DEFINE rank == [n \in S |-> Rank(n, S)]
           c == Cardinality(S)
<1>1. c \in Nat
  BY FS_CardinalityType
<1>2. rank \in Injection(S, 1..c)
  <2>1. rank \in [S -> 1..c]
    BY RankIsOrder
  <2>2. \A n, m \in S : rank[n] = rank[m] => n = m
    <3>1. \A n, m \in S : rank[n] \in Nat /\ (n < m => rank[n] < rank[m]) /\ n \in Nat /\ m \in Nat
      BY RankIsOrder
    <3> HIDE DEF rank
    <3> QED BY <3>1
  <2> QED BY <2>1, <2>2 DEF Injection, IsInjective
<1>3. IsFiniteSet(1..c) /\ Cardinality(1..c) = c
  BY <1>1, FS_Interval
<1>4. rank \in Surjection(S, 1..c)
  BY <1>2, <1>3, FS_Injection
<1> QED BY <1>4 DEF Surjection

(***************************************************************************)
(* The sequence a set of numbers is made into has all of them and nothing  *)
(* else, and goes up.                                                      *)
(***************************************************************************)
LEMMA InOrderOfAll ==
  ASSUME NEW S \in SUBSET Nat, IsFiniteSet(S)
  PROVE  /\ Cardinality(S) \in Nat
         /\ InOrderOf(S) \in [1..Cardinality(S) -> S]
         /\ \A n \in S : \E k \in 1..Cardinality(S) : InOrderOf(S)[k] = n
         /\ \A k, l \in 1..Cardinality(S) : k < l <=> InOrderOf(S)[k] < InOrderOf(S)[l]
<1> DEFINE c == Cardinality(S)
           F == InOrderOf(S)
<1>1. c \in Nat
  BY FS_CardinalityType
<1>2. ASSUME NEW k \in 1..c PROVE F[k] \in S /\ Rank(F[k], S) = k
  <2>1. F[k] = CHOOSE n \in S : Rank(n, S) = k
    BY DEF InOrderOf, Rank
  <2> QED BY <2>1, EveryRank
<1>3. F \in [1..c -> S]
  BY <1>2 DEF InOrderOf
<1>4. ASSUME NEW k \in 1..c, NEW l \in 1..c PROVE k < l <=> F[k] < F[l]
  <2>1. F[k] \in S /\ F[l] \in S /\ F[k] \in Nat /\ F[l] \in Nat
    BY <1>3
  <2>2. Rank(F[k], S) = k /\ Rank(F[l], S) = l
    BY <1>2
  <2>3. /\ F[k] < F[l] => Rank(F[k], S) < Rank(F[l], S)
        /\ F[l] < F[k] => Rank(F[l], S) < Rank(F[k], S)
    BY <2>1, RankIsOrder
  <2> HIDE DEF F
  <2>4. F[k] = F[l] => k = l
    BY <2>2
  <2> QED BY <1>1, <2>1, <2>2, <2>3, <2>4
<1>5. ASSUME NEW n \in S PROVE F[Rank(n, S)] = n
  <2>1. Rank(n, S) \in 1..c
    BY RankIsOrder
  <2> DEFINE m == F[Rank(n, S)]
  <2>2. m \in S /\ Rank(m, S) = Rank(n, S) /\ Rank(n, S) \in Nat
    BY <1>1, <1>2, <2>1
  <2> HIDE DEF m
  <2>3. ~(m < n) /\ ~(n < m) /\ m \in Nat /\ n \in Nat
    BY <2>2, RankIsOrder
  <2>4. m = n
    BY <2>3
  <2> QED BY <2>4 DEF m
<1> QED BY <1>1, <1>3, <1>4, <1>5, RankIsOrder

\* A set of numbers that is not empty and goes no higher than a bound has a greatest one.
LEMMA HasGreatest ==
  ASSUME NEW S \in SUBSET Nat, S # {}, NEW bound \in Nat, \A k \in S : k <= bound
  PROVE  Max(S) \in S /\ \A l \in S : l <= Max(S)
<1> DEFINE below == {d \in Nat : bound - d \in S}
<1>1. PICK k \in S : TRUE
  OBVIOUS
<1>2. bound - k \in below
  BY <1>1
<1>3. PICK d \in below : \A e \in below : d <= e
  BY <1>2, HasLeast
<1>4. ASSUME NEW l \in S PROVE l <= bound - d
  <2>1. bound - l \in Nat /\ bound - (bound - l) = l /\ l \in Nat /\ d \in Nat
    BY <1>4, <1>3
  <2>2. bound - l \in below
    BY <2>1
  <2>3. d <= bound - l
    BY <1>3, <2>2
  <2> QED BY <2>1, <2>3
<1>5. bound - d \in S
  BY <1>3
<1> HIDE DEF below
<1>6. \A l \in S : bound - d >= l
  BY <1>4, <1>5, <1>3
<1>7. \E x \in S : \A y \in S : x >= y
  BY <1>5, <1>6
<1>8. Max(S) \in S /\ \A l \in S : Max(S) >= l
  BY <1>7 DEF Max
<1> QED BY <1>8

\* The greatest of two numbers.
LEMMA GreatestOfTwo ==
  ASSUME NEW k \in Int, NEW l \in Int
  PROVE  Max({k, l}) = IF k >= l THEN k ELSE l
BY DEF Max

\* The least of two numbers.
LEMMA LeastOfTwo ==
  ASSUME NEW k \in Int, NEW l \in Int
  PROVE  Min({k, l}) = IF k <= l THEN k ELSE l
BY DEF Min

\* Only one sequence of the numbers of a set goes up.
LEMMA OrderIsUnique ==
  ASSUME NEW S \in SUBSET Nat, NEW c \in Nat, NEW f \in [1..c -> S],
         \A n \in S : \E k \in 1..c : f[k] = n,
         \A k, l \in 1..c : k < l => f[k] < f[l]
  PROVE  IsFiniteSet(S) /\ Cardinality(S) = c /\ InOrderOf(S) = f
<1>1. \A k, l \in 1..c : f[k] \in Nat /\ f[l] \in Nat /\ (k < l <=> f[k] < f[l]) /\ (f[k] = f[l] => k = l)
  <2> TAKE k, l \in 1..c
  <2>1. f[k] \in Nat /\ f[l] \in Nat /\ (k < l => f[k] < f[l]) /\ (l < k => f[l] < f[k])
    OBVIOUS
  <2> QED BY <2>1
<1>2. f \in Bijection(1..c, S)
  <2>1. f \in Injection(1..c, S)
    BY <1>1 DEF Injection, IsInjective
  <2>2. f \in Surjection(1..c, S)
    BY DEF Surjection
  <2> QED BY <2>1, <2>2 DEF Bijection
<1>4. IsFiniteSet(S) /\ Cardinality(S) = c
  <2>1. ExistsBijection(1..c, S)
    BY <1>2 DEF ExistsBijection
  <2> QED BY <2>1, FS_NatBijection, FS_CountingElements
<1>5. ASSUME NEW k \in 1..c PROVE Rank(f[k], S) = k
  <2> DEFINE T == {m \in S : m <= f[k]}
             h == [l \in 1..k |-> f[l]]
  <2>1. k \in Nat /\ \A l \in 1..k : l \in 1..c
    OBVIOUS
  <2>2. h \in [1..k -> T]
    <3>1. ASSUME NEW l \in 1..k PROVE f[l] \in S /\ f[l] <= f[k]
      <4>1. l \in 1..c /\ (l < k \/ l = k)
        BY <2>1
      <4>2. f[l] \in Nat /\ f[k] \in Nat /\ f[l] \in S /\ (l < k => f[l] < f[k])
        BY <1>1, <4>1
      <4> QED BY <4>1, <4>2
    <3> QED BY <3>1
  <2>3. h \in Injection(1..k, T)
    <3>1. \A l, m \in 1..k : h[l] = h[m] => l = m
      BY <1>1, <2>1
    <3> QED BY <2>2, <3>1 DEF Injection, IsInjective
  <2>4. ASSUME NEW n \in T PROVE \E l \in 1..k : h[l] = n
    <3>1. PICK l \in 1..c : f[l] = n
      OBVIOUS
    <3>2. ~(k < l)
      <4>1. f[l] <= f[k] /\ f[l] \in Nat /\ f[k] \in Nat /\ (k < l <=> f[k] < f[l])
        BY <1>1, <2>4, <3>1
      <4> QED BY <4>1
    <3>3. l \in 1..k
      BY <3>2
    <3> QED BY <3>1, <3>3
  <2>5. h \in Surjection(1..k, T)
    BY <2>2, <2>4 DEF Surjection
  <2>6. ExistsBijection(1..k, T)
    BY <2>3, <2>5 DEF Bijection, ExistsBijection
  <2>7. Cardinality(T) = k
    <3> HIDE DEF T
    <3> QED BY <2>1, <2>6, FS_CountingElements
  <2> QED BY <2>7 DEF Rank
<1> DEFINE F == InOrderOf(S)
<1>6. F \in [1..c -> S]
  BY <1>4, InOrderOfAll
<1>7. ASSUME NEW k \in 1..c PROVE F[k] = f[k]
  <2>1. F[k] = CHOOSE n \in S : Rank(n, S) = k
    <3>1. k \in 1..Cardinality(S)
      BY <1>4
    <3> QED BY <3>1 DEF InOrderOf, Rank
  <2>2. f[k] \in S /\ Rank(f[k], S) = k
    BY <1>5
  <2>3. F[k] \in S /\ Rank(F[k], S) = k
    <3> HIDE DEF F
    <3> QED BY <2>1, <2>2
  <2>4. PICK l \in 1..c : F[k] = f[l]
    BY <2>3
  <2>5. Rank(f[l], S) = l
    BY <1>5
  <2> HIDE DEF F
  <2> QED BY <2>3, <2>4, <2>5
<1> QED BY <1>4, <1>6, <1>7

(***************************************************************************)
(* A function may be defined by what it is at the places before.           *)
(***************************************************************************)
IsRecursion(D, V, rank, G, f0, top) ==
  /\ rank \in [D -> Nat] /\ G \in [D -> [[D -> V] -> V]] /\ f0 \in [D -> V]
  /\ top \in Nat /\ \A d \in D : rank[d] < top
  /\ \A d \in D : \A f, g \in [D -> V] :
       (\A e \in D : rank[e] < rank[d] => f[e] = g[e]) => G[d][f] = G[d][g]

\* A function that says at each place what follows from the places of a lower rank exists: its recursive definition means what it says.
LEMMA RecursionIsSound ==
  ASSUME NEW D, NEW V, NEW rank, NEW G, NEW f0, NEW top, IsRecursion(D, V, rank, G, f0, top)
  PROVE  \E f \in [D -> V] : \A d \in D : f[d] = G[d][f]
<1> USE DEF IsRecursion
<1> DEFINE Good(f, n) == \A d \in D : rank[d] < n => f[d] = G[d][f]
           bad == {n \in Nat : \A f \in [D -> V] : ~Good(f, n)}
<1>1. 0 \notin bad
  <2>1. \A d \in D : rank[d] \in Nat
    OBVIOUS
  <2>2. Good(f0, 0)
    BY <2>1
  <2> QED BY <2>2
<1>2. ASSUME NEW n \in Nat, n \notin bad PROVE n + 1 \notin bad
  <2>1. PICK f \in [D -> V] : Good(f, n)
    BY <1>2
  <2> DEFINE g == [d \in D |-> IF rank[d] = n THEN G[d][f] ELSE f[d]]
  <2>2. g \in [D -> V]
    OBVIOUS
  <2>3. ASSUME NEW d \in D, rank[d] < n + 1 PROVE g[d] = G[d][g]
    <3>1. \A e \in D : rank[e] < rank[d] => f[e] = g[e]
      <4>1. rank[d] \in Nat /\ \A e \in D : rank[e] \in Nat
        OBVIOUS
      <4> QED BY <2>3, <4>1
    <3> HIDE DEF g
    <3>2. G[d][f] = G[d][g]
      BY <2>2, <3>1
    <3>3. CASE rank[d] = n
      BY <3>2, <3>3 DEF g
    <3>4. CASE rank[d] # n
      <4> DEFINE r == rank[d]
      <4>1. r \in Nat /\ r < n + 1 /\ r # n /\ n \in Nat
        BY <1>2, <2>3, <3>4
      <4> HIDE DEF r
      <4>2. r < n
        BY <4>1
      <4>3. f[d] = G[d][f] /\ g[d] = f[d]
        BY <2>1, <3>4, <4>2 DEF g, r
      <4> QED BY <3>2, <4>3
    <3> QED BY <3>3, <3>4
  <2> HIDE DEF g
  <2>4. Good(g, n + 1)
    BY <2>3
  <2> QED BY <2>2, <2>4
<1>3. top \notin bad
  <2> HIDE DEF bad
  <2>1. SUFFICES ASSUME bad # {} PROVE FALSE
    OBVIOUS
  <2>2. bad \in SUBSET Nat
    BY DEF bad
  <2>3. PICK m \in bad : \A n \in bad : m <= n
    BY <2>1, <2>2, HasLeast
  <2>4. m \in Nat /\ m # 0
    BY <1>1, <2>2, <2>3
  <2>5. m - 1 \in Nat /\ (m - 1) + 1 = m
    BY <2>4
  <2>6. m - 1 \notin bad
    BY <2>3, <2>4, <2>5
  <2> QED BY <1>2, <2>3, <2>5, <2>6
<1>4. PICK f \in [D -> V] : Good(f, top)
  BY <1>3
<1> QED BY <1>4

-----------------------------------------------------------------------------
(***************************************************************************)
(* Following the log (LogFollowing).                                       *)
(***************************************************************************)
\* The newest that fit are of the lines that match, and with one there are all newer (LogBook.Read).
LEMMA NewestUpward ==
  ASSUME NEW S \in SUBSET Nat, IsFiniteSet(S), NEW limit \in Nat \ {0}
  PROVE  /\ Newest(S, limit) \in SUBSET S
         /\ \A n \in Newest(S, limit), m \in S : n <= m => m \in Newest(S, limit)
<1> DEFINE After(n) == {m \in S : m > n}
<1>1. \A n \in S : IsFiniteSet(After(n)) /\ Cardinality(After(n)) \in Nat
  <2>1. \A n \in S : After(n) \in SUBSET S
    OBVIOUS
  <2> QED BY <2>1, FS_Subset, FS_CardinalityType
<1>2. ASSUME NEW n \in S, NEW m \in S, n <= m PROVE Cardinality(After(m)) <= Cardinality(After(n))
  <2>1. \A k \in S : k > m => k > n
    BY <1>2
  <2>2. After(m) \in SUBSET After(n)
    BY <2>1
  <2> QED BY <1>1, <2>2, FS_Subset
<1>3. \A n \in S : n \in Newest(S, limit) <=> Cardinality(After(n)) < limit
  BY DEF Newest
<1>4. Newest(S, limit) \in SUBSET S
  BY DEF Newest
<1>5. ASSUME NEW n \in Newest(S, limit), NEW m \in S, n <= m PROVE m \in Newest(S, limit)
  <2>1. n \in S /\ Cardinality(After(n)) < limit
    BY <1>3, <1>4
  <2> HIDE DEF After
  <2>2. Cardinality(After(m)) <= Cardinality(After(n)) /\ Cardinality(After(m)) \in Nat /\ Cardinality(After(n)) \in Nat
    BY <1>1, <1>2, <1>5, <2>1
  <2>3. Cardinality(After(m)) < limit
    BY <2>1, <2>2
  <2> QED BY <1>3, <2>3
<1> QED BY <1>4, <1>5

\* The oldest line the ring may still have (LogBook.Read).
LEMMA OldestType ==
  ASSUME LogTypeOK
  PROVE  Len(log) \in Nat /\ Oldest \in Nat \ {0}
<1>1. Len(log) \in Nat
  BY DEF LogTypeOK
<1>2. Capacity \in Nat
  BY LogAssumption
<1> QED BY <1>1, <1>2 DEF Oldest, MaxOf

\* The lines that match are lines of the ring after the cursor, of the question (LogBook.Read).
LEMMA MatchingType ==
  ASSUME LogTypeOK, NEW q, NEW since \in Nat
  PROVE  /\ Matching(q, since) \in SUBSET Nat
         /\ IsFiniteSet(Matching(q, since))
         /\ \A n \in Matching(q, since) : n \in 1..Len(log) /\ n > since /\ n >= Oldest /\ q \in log[n]
<1>1. Matching(q, since) \in SUBSET (1..Len(log))
  BY OldestType DEF Matching
<1>2. IsFiniteSet(1..Len(log))
  BY OldestType, FS_Interval
<1> QED BY <1>1, <1>2, OldestType, FS_Subset DEF Matching

(***************************************************************************)
(* What the ring answers (LogBook.Read).                                   *)
(***************************************************************************)
LEMMA ReadTells ==
  ASSUME LogTypeOK, NEW q \in Questions, NEW since \in Nat, since <= MaxLines, NEW first \in BOOLEAN
  PROVE  LET answer == Read(q, since, first) IN
         /\ answer \in Answers
         /\ answer.cursor = Len(log)
         /\ \A i \in DOMAIN answer.lines :
              LET line == answer.lines[i] IN
              line.run = run /\ line.number \in (since + 1)..Len(log) /\ q \in line.answers
         /\ \A n \in (since + 1)..Len(log) :
              /\ q \in log[n]
              /\ (\E m \in NumbersOf(answer.lines) : m <= n) \/ (since > 0 /\ ~answer.missed)
              => n \in NumbersOf(answer.lines)
<1> DEFINE answer == Read(q, since, first)
           matching == Matching(q, since)
           limit == IF first THEN FirstLimit ELSE NextLimit
           carried == Newest(matching, limit)
           numbers == InOrderOf(carried)
           c == Cardinality(carried)
<1>1. limit \in Nat \ {0}
  BY LogAssumption
<1>2. /\ matching \in SUBSET Nat /\ IsFiniteSet(matching)
      /\ \A n \in matching : n \in 1..Len(log) /\ n > since /\ n >= Oldest /\ q \in log[n]
  BY MatchingType
<1>3. /\ carried \in SUBSET matching
      /\ \A n \in carried, m \in matching : n <= m => m \in carried
  BY <1>1, <1>2, NewestUpward
<1>4. carried \in SUBSET Nat /\ IsFiniteSet(carried)
  BY <1>2, <1>3, FS_Subset
<1>5. /\ c \in Nat /\ numbers \in [1..c -> carried]
      /\ \A n \in carried : \E k \in 1..c : numbers[k] = n
  BY <1>4, InOrderOfAll
<1>6. /\ answer.lines = [i \in DOMAIN numbers |-> Line(numbers[i])]
      /\ answer.cursor = Len(log)
      /\ answer.missed = ((since > 0 /\ since + 1 < Oldest) \/ (since > 0 /\ matching # carried))
      /\ answer = [lines |-> answer.lines, cursor |-> answer.cursor, missed |-> answer.missed]
  BY DEF Read
<1> HIDE DEF answer, matching, limit, carried, numbers, c
<1>7. /\ DOMAIN answer.lines = 1..c
      /\ \A i \in 1..c : /\ answer.lines[i] = Line(numbers[i]) /\ answer.lines[i].number = numbers[i]
                         /\ numbers[i] \in matching
                         /\ answer.lines[i].run = run /\ answer.lines[i].answers = log[numbers[i]]
  BY <1>3, <1>5, <1>6 DEF Line
<1>8. NumbersOf(answer.lines) = carried
  BY <1>5, <1>7 DEF NumbersOf
<1>9. Len(log) \in Nat /\ Len(log) <= MaxLines /\ log \in Seq(Kinds) /\ run \in 1..MaxRuns /\ Oldest \in Nat \ {0}
  BY OldestType DEF LogTypeOK
<1>10. answer \in Answers
  <2>1. \A i \in 1..c : answer.lines[i] \in AllLines
    <3> SUFFICES ASSUME NEW i \in 1..c PROVE Line(numbers[i]) \in AllLines
      BY <1>7
    <3>1. numbers[i] \in 1..Len(log)
      BY <1>2, <1>7
    <3>2. log[numbers[i]] \in Kinds /\ numbers[i] \in 1..MaxLines
      BY <1>9, <3>1, LogAssumption
    <3> QED BY <1>9, <3>2 DEF Line, AllLines
  <2>2. answer.lines \in [1..c -> AllLines]
    BY <1>6, <1>7, <2>1
  <2>3. answer.lines \in Seq(AllLines)
    BY <1>5, <2>2
  <2>4. answer.cursor \in 0..MaxLines /\ answer.missed \in BOOLEAN
    BY <1>6, <1>9, LogAssumption
  <2> QED BY <1>6, <2>3, <2>4 DEF Answers
<1>11. ASSUME NEW i \in DOMAIN answer.lines
       PROVE  answer.lines[i].run = run /\ answer.lines[i].number \in (since + 1)..Len(log) /\ q \in answer.lines[i].answers
  <2>1. i \in 1..c /\ numbers[i] \in matching
    BY <1>7
  <2>2. numbers[i] \in 1..Len(log) /\ numbers[i] > since /\ q \in log[numbers[i]]
    BY <1>2, <2>1
  <2> QED BY <1>7, <1>9, <2>1, <2>2
<1>12. ASSUME NEW n \in (since + 1)..Len(log), q \in log[n],
              (\E m \in NumbersOf(answer.lines) : m <= n) \/ (since > 0 /\ ~answer.missed)
       PROVE  n \in carried
  <2>1. n >= Oldest => n \in matching
    BY <1>9, <1>12 DEF matching, Matching
  <2>2. CASE \E m \in NumbersOf(answer.lines) : m <= n
    <3>1. PICK m \in carried : m <= n
      BY <1>8, <2>2
    <3>2. m \in matching /\ m >= Oldest /\ m \in Nat /\ n \in Nat
      BY <1>2, <1>3, <3>1
    <3>3. n \in matching
      BY <1>9, <2>1, <3>1, <3>2
    <3> QED BY <1>3, <3>1, <3>3
  <2>3. CASE since > 0 /\ ~answer.missed
    <3>1. since + 1 >= Oldest /\ matching = carried
      <4>1. ~(since > 0 /\ since + 1 < Oldest) /\ ~(since > 0 /\ matching # carried)
        BY <1>6, <2>3
      <4> QED BY <1>9, <2>3, <4>1
    <3>2. n >= Oldest
      BY <1>9, <3>1
    <3> QED BY <2>1, <3>1, <3>2
  <2> QED BY <1>12, <2>2, <2>3
<1>13. \A n \in (since + 1)..Len(log) :
         q \in log[n] /\ ((\E m \in NumbersOf(answer.lines) : m <= n) \/ (since > 0 /\ ~answer.missed))
         => n \in NumbersOf(answer.lines)
  BY <1>8, <1>12
<1>14. answer.cursor = Len(log)
  BY <1>6
<1> QED BY <1>10, <1>11, <1>13, <1>14 DEF answer

(***************************************************************************)
(* What the page holds once it took an answer, and what it let go.         *)
(***************************************************************************)
LEMMA HeldLines ==
  ASSUME NEW s \in Seq(AllLines)
  PROVE  /\ LastHeld(s) \in Seq(AllLines) /\ Len(LastHeld(s)) <= Held
         /\ \A i \in DOMAIN LastHeld(s) : \E j \in DOMAIN s : LastHeld(s)[i] = s[j]
         /\ \A j \in DOMAIN s : s[j].number \in NumbersOf(LastHeld(s)) \union LetGo(s)
         /\ LetGo(s) \subseteq NumbersOf(s)
<1> DEFINE from == MaxOf(1, Len(s) - Held + 1)
           held == LastHeld(s)
<1>0. /\ Len(s) \in Nat /\ Held \in Nat \ {0} /\ DOMAIN s = 1..Len(s) /\ \A i \in 1..Len(s) : s[i] \in AllLines
  BY LogAssumption
<1>1. /\ from \in Nat \ {0} /\ from <= Len(s) + 1 /\ Len(s) - from + 1 <= Held
      /\ \A j \in 1..Len(s) : j < from => j <= Len(s) - Held
  BY <1>0 DEF MaxOf
<1> HIDE DEF from
<1>2. \A i \in from..Len(s) : s[i] \in AllLines
  BY <1>0, <1>1
<1>3. /\ held \in Seq(AllLines)
      /\ Len(held) = IF from <= Len(s) THEN Len(s) - from + 1 ELSE 0
      /\ \A i \in 1..(Len(s) - from + 1) : held[i] = s[from + i - 1]
  <2>1. held = SubSeq(s, from, Len(s))
    BY DEF LastHeld, from
  <2> HIDE DEF held
  <2>2. from \in Int /\ Len(s) \in Int
    BY <1>0, <1>1
  <2> QED BY <1>2, <2>1, <2>2, SubSeqProperties
<1> HIDE DEF held
<1>4. Len(held) = Len(s) - from + 1 /\ DOMAIN held = 1..(Len(s) - from + 1)
  BY <1>0, <1>1, <1>3
<1>5. \A i \in DOMAIN held : \E j \in DOMAIN s : held[i] = s[j]
  <2> SUFFICES ASSUME NEW i \in 1..(Len(s) - from + 1) PROVE \E j \in DOMAIN s : held[i] = s[j]
    BY <1>4
  <2>1. from + i - 1 \in 1..Len(s)
    BY <1>0, <1>1
  <2> QED BY <1>0, <1>1, <1>3, <2>1
<1>6. ASSUME NEW j \in DOMAIN s PROVE s[j].number \in NumbersOf(held) \union LetGo(s)
  <2>1. CASE j >= from
    <3>1. j - from + 1 \in 1..(Len(s) - from + 1) /\ from + (j - from + 1) - 1 = j
      BY <1>0, <1>1, <2>1
    <3>2. held[j - from + 1] = s[j]
      BY <1>3, <3>1
    <3> QED BY <1>4, <3>1, <3>2 DEF NumbersOf
  <2>2. CASE j < from
    <3>1. j \in 1..(Len(s) - Held)
      BY <1>0, <1>1, <2>2
    <3> QED BY <3>1 DEF LetGo
  <2> QED BY <1>0, <1>1, <2>1, <2>2
<1>7. LetGo(s) \subseteq NumbersOf(s)
  <2>1. \A i \in 1..(Len(s) - Held) : i \in DOMAIN s
    BY <1>0, <1>1
  <2> QED BY <2>1 DEF LetGo, NumbersOf
<1> QED BY <1>0, <1>1, <1>3, <1>4, <1>5, <1>6, <1>7 DEF held

\* What the page holds after it has taken a batch, and what it has let go of.
LEMMA TakenLines ==
  ASSUME LogTypeOK, NEW p \in polls, p.answer # Unanswered
  PROVE  LET lines == p.answer.lines
             now == LastHeld(shown \o lines)
         IN /\ p.answer \in Answers
            /\ now \in Seq(AllLines) /\ Len(now) <= Held
            /\ LetGo(shown \o lines) \subseteq 1..MaxLines
            /\ \A i \in DOMAIN now : (\E j \in DOMAIN shown : now[i] = shown[j]) \/ (\E j \in DOMAIN lines : now[i] = lines[j])
            /\ NumbersOf(shown) \union NumbersOf(lines) \subseteq NumbersOf(now) \union LetGo(shown \o lines)
<1> DEFINE lines == p.answer.lines
           both == shown \o lines
<1>1. p.answer \in Answers /\ lines \in Seq(AllLines) /\ shown \in Seq(AllLines)
  BY DEF LogTypeOK, Polls, Answers
<1>2. Len(shown) \in Nat /\ Len(lines) \in Nat /\ DOMAIN shown = 1..Len(shown) /\ DOMAIN lines = 1..Len(lines)
  BY <1>1
<1> HIDE DEF lines
<1>3. /\ both \in Seq(AllLines) /\ DOMAIN both = 1..(Len(shown) + Len(lines))
      /\ \A i \in 1..Len(shown) : both[i] = shown[i]
      /\ \A i \in 1..Len(lines) : both[Len(shown) + i] = lines[i]
      /\ \A i \in 1..(Len(shown) + Len(lines)) : i <= Len(shown) \/ i - Len(shown) \in 1..Len(lines)
  <2>1. /\ both \in Seq(AllLines) /\ Len(both) = Len(shown) + Len(lines)
        /\ \A i \in 1..(Len(shown) + Len(lines)) : both[i] = IF i <= Len(shown) THEN shown[i] ELSE lines[i - Len(shown)]
    BY <1>1, ConcatProperties
  <2> HIDE DEF both
  <2>2. DOMAIN both = 1..(Len(shown) + Len(lines))
    BY <2>1
  <2>3. \A i \in 1..Len(lines) : both[Len(shown) + i] = lines[i]
    <3> SUFFICES ASSUME NEW i \in 1..Len(lines) PROVE both[Len(shown) + i] = lines[i]
      OBVIOUS
    <3>1. Len(shown) + i \in 1..(Len(shown) + Len(lines)) /\ ~(Len(shown) + i <= Len(shown)) /\ (Len(shown) + i) - Len(shown) = i
      BY <1>2
    <3> QED BY <2>1, <3>1
  <2>4. \A i \in 1..Len(shown) : both[i] = shown[i]
    BY <1>2, <2>1
  <2>5. \A i \in 1..(Len(shown) + Len(lines)) : i <= Len(shown) \/ i - Len(shown) \in 1..Len(lines)
    BY <1>2
  <2> QED BY <2>1, <2>2, <2>3, <2>4, <2>5
<1> HIDE DEF both
<1>4. \A i \in DOMAIN both : (\E j \in DOMAIN shown : both[i] = shown[j]) \/ (\E j \in DOMAIN lines : both[i] = lines[j])
  <2> SUFFICES ASSUME NEW i \in 1..(Len(shown) + Len(lines))
               PROVE  (\E j \in 1..Len(shown) : both[i] = shown[j]) \/ (\E j \in 1..Len(lines) : both[i] = lines[j])
    BY <1>2, <1>3
  <2>1. CASE i <= Len(shown)
    BY <1>2, <1>3, <2>1
  <2>2. CASE ~(i <= Len(shown))
    <3>1. i - Len(shown) \in 1..Len(lines) /\ Len(shown) + (i - Len(shown)) = i
      BY <1>2, <1>3, <2>2
    <3> QED BY <1>3, <3>1
  <2> QED BY <2>1, <2>2
<1>5. NumbersOf(shown) \union NumbersOf(lines) \subseteq NumbersOf(LastHeld(both)) \union LetGo(both)
  <2>1. \A j \in DOMAIN both : both[j].number \in NumbersOf(LastHeld(both)) \union LetGo(both)
    BY <1>3, HeldLines
  <2>2. \A i \in 1..Len(shown) : i \in DOMAIN both
    BY <1>2, <1>3
  <2>3. \A i \in 1..Len(lines) : Len(shown) + i \in DOMAIN both
    BY <1>2, <1>3
  <2>4. \A i \in DOMAIN shown : shown[i].number \in NumbersOf(LastHeld(both)) \union LetGo(both)
    BY <1>2, <1>3, <2>1, <2>2
  <2>5. \A i \in DOMAIN lines : lines[i].number \in NumbersOf(LastHeld(both)) \union LetGo(both)
    BY <1>2, <1>3, <2>1, <2>3
  <2> QED BY <2>4, <2>5 DEF NumbersOf
<1>6. LetGo(both) \subseteq 1..MaxLines
  <2>1. \A i \in DOMAIN both : both[i] \in AllLines
    BY <1>3, ElementOfSeq
  <2>2. \A i \in DOMAIN both : both[i].number \in 1..MaxLines
    BY <2>1 DEF AllLines
  <2>3. LetGo(both) \subseteq NumbersOf(both)
    BY <1>3, HeldLines
  <2> QED BY <2>2, <2>3 DEF NumbersOf
<1>7. /\ LastHeld(both) \in Seq(AllLines) /\ Len(LastHeld(both)) <= Held
      /\ \A i \in DOMAIN LastHeld(both) : \E j \in DOMAIN both : LastHeld(both)[i] = both[j]
  BY <1>3, HeldLines
<1>8. \A i \in DOMAIN LastHeld(both) : (\E j \in DOMAIN shown : LastHeld(both)[i] = shown[j]) \/ (\E j \in DOMAIN lines : LastHeld(both)[i] = lines[j])
  BY <1>4, <1>7
<1> QED BY <1>1, <1>5, <1>6, <1>7, <1>8 DEF both, lines

-----------------------------------------------------------------------------
(***************************************************************************)
(* Types.                                                                  *)
(***************************************************************************)
\* A poll is one with an id nobody has (poll).
LEMMA AskingType ==
  ASSUME NEW q \in Questions, NEW since \in 0..MaxLines \union {NoCursor}, NEW under, FreeIds(under) # {}
  PROVE  LET p == Asking(q, since, under) IN
         /\ p \in Polls /\ p.question = q /\ p.answer = Unanswered
         /\ since = NoCursor => p.since = 0
         /\ since # NoCursor => p.since = since
<1>1. FreeIds(under) \in SUBSET (1..MaxPolls) /\ FreeIds(under) \in SUBSET Nat
  BY LogAssumption DEF FreeIds
<1>2. \E i \in FreeIds(under) : \A j \in FreeIds(under) : i <= j
  BY <1>1, HasLeast
<1>3. (CHOOSE i \in FreeIds(under) : \A j \in FreeIds(under) : i <= j) \in 1..MaxPolls
  BY <1>1, <1>2
<1>4. 0 \in 0..MaxLines
  BY LogAssumption
<1> QED BY <1>3, <1>4 DEF Asking, Polls

\* The page before its first answer.
LEMMA LogTypeStarts ==
  LogInit => LogTypeOK
<1> SUFFICES ASSUME LogInit PROVE LogTypeOK
  OBVIOUS
<1>1. FreeIds({}) # {}
  BY LogAssumption DEF FreeIds
<1>2. Asking(question, NoCursor, {}) \in Polls
  BY <1>1, AskingType DEF LogInit
<1>3. <<>> \in Seq(Kinds) /\ <<>> \in Seq(AllLines) /\ Len(<<>>) = 0
  OBVIOUS
<1>4. log = <<>> /\ shown = <<>> /\ 0 <= MaxLines /\ 0 <= Held /\ 1 \in 1..MaxRuns
  BY LogAssumption DEF LogInit
<1> QED BY <1>2, <1>3, <1>4 DEF LogInit, LogTypeOK

\* Every variable keeps its type.
LEMMA LogTypeStep ==
  ASSUME LogTypeOK, [LogNext]_logVars
  PROVE  LogTypeOK'
<1>1. CASE WriteLine
  <2>1. PICK kind \in Kinds : log' = Append(log, kind)
    BY <1>1 DEF WriteLine
  <2>2. log' \in Seq(Kinds) /\ Len(log') = Len(log) + 1
    BY <2>1, AppendProperties DEF LogTypeOK
  <2>3. Len(log) \in Nat /\ Len(log) < MaxLines
    BY <1>1, LogAssumption, OldestType DEF WriteLine
  <2>4. Len(log') <= MaxLines
    BY <2>2, <2>3, LogAssumption
  <2> QED BY <1>1, <2>2, <2>4 DEF WriteLine, LogTypeOK
<1>2. CASE ServerRestarts
  <2>1. run' \in 1..MaxRuns
    BY <1>2, LogAssumption DEF ServerRestarts, LogTypeOK
  <2> QED BY <1>2, <2>1, LogAssumption DEF ServerRestarts, LogTypeOK
<1>3. CASE ServerAnswers
  <2>1. PICK p \in polls : polls' = (polls \ {p}) \union {[p EXCEPT !.answer = Read(p.question, p.since, p.first)]}
    BY <1>3 DEF ServerAnswers
  <2>2. p \in Polls
    BY DEF LogTypeOK
  <2>3. Read(p.question, p.since, p.first) \in Answers
    BY <2>2, ReadTells, LogAssumption DEF Polls
  <2>4. [p EXCEPT !.answer = Read(p.question, p.since, p.first)] \in Polls
    BY <2>2, <2>3 DEF Polls
  <2> QED BY <1>3, <2>1, <2>4 DEF ServerAnswers, LogTypeOK
<1>4. CASE Timer
  BY <1>4, AskingType DEF Timer, Poll, LogTypeOK
<1>5. CASE TakeAnswer
  <2>1. PICK p \in polls : /\ p.answer # Unanswered /\ TakeLines(p) /\ polls' = polls \ {p}
                           /\ blind' = (blind \/ (p.since = 0 /\ cursor \notin {NoCursor, 0}))
    BY <1>5 DEF TakeAnswer
  <2>2. p.answer.cursor \in 0..MaxLines /\ p.answer.missed \in BOOLEAN
    BY <2>1, TakenLines DEF Answers
  <2>3. shown' \in Seq(AllLines) /\ Len(shown') <= Held /\ dropped' \subseteq 1..MaxLines
    BY <2>1, TakenLines DEF TakeLines, LogTypeOK
  <2> QED BY <1>5, <2>1, <2>2, <2>3 DEF TakeAnswer, TakeLines, LogTypeOK
<1>6. CASE PollFails
  BY <1>6 DEF PollFails, LogTypeOK
<1>7. CASE ChangeQuestion
  <2>1. PICK q \in Questions \ {question} :
          /\ question' = q
          /\ IF following \/ ~owner THEN Poll(q, NoCursor, StillHeard) ELSE polls' = StillHeard
    BY <1>7 DEF ChangeQuestion
  <2>2. polls' \subseteq Polls
    <3>1. StillHeard \subseteq Polls
      BY DEF StillHeard, LogTypeOK
    <3>2. ASSUME FreeIds(StillHeard) # {} PROVE Asking(q, NoCursor, StillHeard) \in Polls
      BY <3>2, AskingType
    <3> QED BY <2>1, <3>1, <3>2 DEF Poll
  <2>3. <<>> \in Seq(AllLines) /\ Len(<<>>) = 0 /\ 0 <= Held
    BY LogAssumption
  <2>4. cursor' = NoCursor /\ shown' = <<>> /\ missed' = FALSE /\ dropped' = {} /\ blind' = FALSE
        /\ UNCHANGED <<log, run, owner, following>>
    BY <1>7 DEF ChangeQuestion
  <2> QED BY <2>1, <2>2, <2>3, <2>4 DEF LogTypeOK
<1>8. CASE Pause
  <2>1. polls' \subseteq Polls
    BY <1>8, AskingType DEF Pause, Poll, StillHeard, LogTypeOK
  <2> QED BY <1>8, <2>1 DEF Pause, LogTypeOK
<1>9. CASE Resume
  <2>1. polls' \subseteq Polls
    BY <1>9, AskingType DEF Resume, Poll, StillHeard, LogTypeOK
  <2> QED BY <1>9, <2>1 DEF Resume, LogTypeOK
<1>10. CASE UNCHANGED logVars
  BY <1>10 DEF logVars, LogTypeOK, Polls, Answers, AllLines
<1> QED BY <1>1, <1>2, <1>3, <1>4, <1>5, <1>6, <1>7, <1>8, <1>9, <1>10 DEF LogNext

-----------------------------------------------------------------------------
(***************************************************************************)
(* The steps.                                                              *)
(***************************************************************************)
\* No answer to another question is heard by the section of the owner.
LEMMA QuestionIsKept ==
  ASSUME LogTypeOK, QuestionKept, [LogNext]_logVars
  PROVE  QuestionKept'
<1> SUFFICES ASSUME owner' PROVE QuestionKept'
  BY DEF QuestionKept
<1>0. owner
  BY DEF LogNext, logVars, WriteLine, ServerRestarts, ServerAnswers, Timer, TakeAnswer, PollFails, ChangeQuestion, Pause, Resume
<1>1. CASE WriteLine
  BY <1>0, <1>1 DEF WriteLine, QuestionKept, OneQuestion
<1>2. CASE ServerRestarts
  BY <1>0, <1>2 DEF ServerRestarts, QuestionKept, OneQuestion
<1>3. CASE ServerAnswers
  <2>1. PICK p \in polls : polls' = (polls \ {p}) \union {[p EXCEPT !.answer = Read(p.question, p.since, p.first)]}
    BY <1>3 DEF ServerAnswers
  <2>2. p \in Polls /\ p.question = question
    BY <1>0 DEF LogTypeOK, QuestionKept
  <2> DEFINE answer == Read(p.question, p.since, p.first)
             now == [p EXCEPT !.answer = answer]
  <2>3. \A i \in DOMAIN answer.lines : question \in answer.lines[i].answers
    BY <2>2, ReadTells, LogAssumption DEF Polls
  <2> HIDE DEF answer
  <2>4. now.question = question /\ now.answer = answer
    BY <2>2 DEF Polls
  <2> QED BY <1>0, <1>3, <2>1, <2>3, <2>4 DEF ServerAnswers, QuestionKept, OneQuestion, answer
<1>4. ASSUME NEW under \in SUBSET polls, Poll(question, cursor, under), UNCHANGED <<shown, question>> PROVE QuestionKept'
  <2>1. /\ polls' = under \union {Asking(question, cursor, under)}
        /\ Asking(question, cursor, under).question = question /\ Asking(question, cursor, under).answer = Unanswered
    BY <1>4, AskingType DEF Poll, LogTypeOK
  <2> QED BY <1>0, <1>4, <2>1 DEF QuestionKept, OneQuestion
<1>5. CASE TakeAnswer
  <2>1. PICK p \in polls : p.answer # Unanswered /\ TakeLines(p) /\ polls' = polls \ {p}
    BY <1>5 DEF TakeAnswer
  <2>2. \A i \in DOMAIN p.answer.lines : question \in p.answer.lines[i].answers
    BY <1>0, <2>1 DEF QuestionKept
  <2>3. \A i \in DOMAIN shown : question \in shown[i].answers
    BY <1>0 DEF QuestionKept, OneQuestion
  <2>4. \A i \in DOMAIN shown' : question \in shown'[i].answers
    BY <2>1, <2>2, <2>3, TakenLines DEF TakeLines
  <2> QED BY <1>0, <1>5, <2>1, <2>4 DEF TakeAnswer, QuestionKept, OneQuestion
<1>6. CASE PollFails
  BY <1>0, <1>6 DEF PollFails, QuestionKept, OneQuestion
<1>7. CASE ChangeQuestion
  <2>1. StillHeard = {}
    BY <1>0 DEF StillHeard
  <2>2. PICK q \in Questions : question' = q /\ (Poll(q, NoCursor, {}) \/ polls' = {})
    BY <1>7, <2>1 DEF ChangeQuestion
  <2>3. \A p \in polls' : p.question = q /\ p.answer = Unanswered
    <3>1. CASE polls' = {}
      BY <3>1
    <3>2. CASE Poll(q, NoCursor, {})
      <4>1. FreeIds({}) # {} /\ polls' = {Asking(q, NoCursor, {})}
        BY <3>2 DEF Poll
      <4>2. Asking(q, NoCursor, {}).question = q /\ Asking(q, NoCursor, {}).answer = Unanswered
        BY DEF Asking
      <4> QED BY <4>1, <4>2
    <3> QED BY <2>2, <3>1, <3>2
  <2> QED BY <1>7, <2>2, <2>3 DEF ChangeQuestion, QuestionKept, OneQuestion
<1>8. CASE Pause
  BY <1>0, <1>8 DEF Pause, StillHeard, QuestionKept, OneQuestion
<1>9. CASE Resume \/ Timer
  <2>1. \E under \in SUBSET polls : Poll(question, cursor, under)
    BY <1>9 DEF Resume, Timer, StillHeard
  <2> QED BY <1>4, <1>9, <2>1 DEF Resume, Timer
<1>10. CASE UNCHANGED logVars
  BY <1>0, <1>10 DEF logVars, QuestionKept, OneQuestion
<1> QED BY <1>1, <1>2, <1>3, <1>5, <1>6, <1>7, <1>8, <1>9, <1>10 DEF LogNext

(***************************************************************************)
(* Taking an answer: what came after the cursor it was asked with is known *)
(* up to its own, and nothing that was known is not any more.              *)
(***************************************************************************)
LEMMA TakingKeepsKnown ==
  ASSUME LogTypeOK, QuestionKept, LinesKnown, TakeAnswer, owner, run = 1
  PROVE  LinesKnown'
<1>0. PICK p \in polls : /\ p.answer # Unanswered /\ TakeLines(p) /\ polls' = polls \ {p}
                         /\ blind' = (blind \/ (p.since = 0 /\ cursor \notin {NoCursor, 0}))
  BY DEF TakeAnswer
<1> DEFINE lines == p.answer.lines
           upTo == p.answer.cursor
           numbers == NumbersOf(lines)
<1>1. /\ UNCHANGED <<log, run, owner, question, following>>
      /\ p.question = question /\ p.since \in Nat /\ Len(log) \in Nat
      /\ \A r \in polls : r.since \in Nat
  <2>1. UNCHANGED <<log, run, owner, question, following>>
    BY DEF TakeAnswer
  <2>2. \A r \in polls : r \in Polls /\ r.question = question
    BY DEF LogTypeOK, QuestionKept
  <2>3. \A r \in Polls : r.since \in Nat
    BY LogAssumption DEF Polls
  <2> QED BY <2>1, <2>2, <2>3, OldestType
<1>2. /\ upTo \in p.since..Len(log)
      /\ \A i \in DOMAIN lines : lines[i].run = 1 /\ lines[i].number \in (p.since + 1)..upTo
      /\ \A n \in (p.since + 1)..upTo :
           question \in log[n] /\ ((\E m \in numbers : m <= n) \/ (p.since > 0 /\ ~p.answer.missed)) => n \in numbers
  BY <1>0, <1>1 DEF LinesKnown, Tells
<1>3. \A m \in numbers : m \in (p.since + 1)..upTo
  BY <1>2 DEF NumbersOf
<1>4. \A i \in DOMAIN shown' : shown'[i].run = 1 /\ shown'[i].number \in NumbersOf(shown) \union numbers
  <2>1. \A i \in DOMAIN shown' : (\E j \in DOMAIN shown : shown'[i] = shown[j]) \/ (\E j \in DOMAIN lines : shown'[i] = lines[j])
    BY <1>0, TakenLines DEF TakeLines
  <2>2. \A j \in DOMAIN shown : shown[j].run = 1 /\ shown[j].number \in NumbersOf(shown)
    BY DEF LinesKnown, NumbersOf
  <2>3. \A j \in DOMAIN lines : lines[j].run = 1 /\ lines[j].number \in numbers
    BY <1>2 DEF NumbersOf
  <2> HIDE DEF lines, numbers
  <2> QED BY <2>1, <2>2, <2>3
<1>5. /\ ShownOf(run) = NumbersOf(shown)
      /\ ShownOf(run)' = NumbersOf(shown')
  BY <1>1, <1>4 DEF LinesKnown, ShownOf, NumbersOf
<1>6. ShownOf(run)' \subseteq ShownOf(run) \union numbers
  BY <1>4, <1>5 DEF NumbersOf
<1>7. ShownOf(run) \union numbers \union dropped \subseteq ShownOf(run)' \union dropped'
  <2>1. dropped' = dropped \union LetGo(shown \o lines) /\ shown' = LastHeld(shown \o lines)
    BY <1>0 DEF TakeLines
  <2>2. NumbersOf(shown) \union numbers \subseteq NumbersOf(shown') \union LetGo(shown \o lines)
    BY <1>0, <2>1, TakenLines
  <2> QED BY <1>5, <2>1, <2>2
<1>8. cursor' = upTo /\ missed' = (missed \/ p.answer.missed)
  BY <1>0 DEF TakeLines
<1> HIDE DEF lines, upTo, numbers
<1>9. ASSUME NEW first \in 1..Len(log), first <= p.since, NEW h \in Nat, h <= Len(log), KnownUpTo(h, first)
       PROVE  \A n \in 1..h : /\ question' \in log'[n]
                              /\ n > first \/ \E m \in ShownOf(run)' : m <= n
                              => n \in ShownOf(run)' \union dropped'
  <2> SUFFICES ASSUME NEW n \in 1..h, question \in log[n], n > first \/ \E m \in ShownOf(run)' : m <= n
               PROVE  n \in ShownOf(run) \union dropped
    BY <1>1, <1>7
  <2>1. CASE n > first
    BY <1>9, <2>1 DEF KnownUpTo
  <2>2. CASE \E m \in ShownOf(run)' : m <= n
    <3>1. PICK m \in ShownOf(run) \union numbers : m <= n
      BY <1>6, <2>2
    <3>2. CASE m \in ShownOf(run)
      BY <1>9, <3>1, <3>2 DEF KnownUpTo
    <3>3. CASE m \in numbers
      <4>1. n > first
        BY <1>1, <1>2, <1>3, <1>9, <3>1, <3>3
      <4> QED BY <2>1, <4>1
    <3> QED BY <3>2, <3>3
  <2> QED BY <2>1, <2>2
<1>10. ASSUME ~missed', ~blind' PROVE KnowsNothing' \/ \E first \in 1..Len(log') : KnowsFrom(first)'
  <2>0. ~missed /\ ~blind /\ ~p.answer.missed /\ (p.since = 0 => cursor \in {NoCursor, 0})
    BY <1>0, <1>8, <1>10
  <2>1. CASE KnowsNothing
    <3>1. p.since = 0 /\ ShownOf(run) = {} /\ \A r \in polls' : r.since = 0
      BY <1>0, <2>1, <1>5 DEF KnowsNothing, NumbersOf
    <3>2. CASE upTo = 0
      <4>1. numbers = {}
        BY <1>1, <1>3, <3>1, <3>2
      <4>2. NumbersOf(shown') = {}
        BY <1>5, <1>6, <3>1, <4>1
      <4>3. shown' \in Seq(AllLines) /\ DOMAIN shown' = {}
        BY <4>2, LogTypeStep DEF NumbersOf, LogNext, LogTypeOK
      <4>4. shown' = <<>>
        BY <4>3, EmptySeq
      <4> QED BY <1>8, <3>1, <3>2, <4>4 DEF KnowsNothing
    <3>3. CASE upTo # 0
      <4>1. upTo \in 1..Len(log') /\ upTo \in upTo..Len(log')
        BY <1>1, <1>2, <3>3
      <4>2. ASSUME NEW n \in 1..upTo, question' \in log'[n], n > upTo \/ \E m \in ShownOf(run)' : m <= n
            PROVE  n \in ShownOf(run)' \union dropped'
        <5>1. \E m \in numbers : m <= n
          BY <1>1, <1>2, <1>6, <3>1, <4>1, <4>2
        <5>2. n \in (p.since + 1)..upTo /\ question \in log[n]
          BY <1>1, <3>1, <4>2
        <5> QED BY <1>2, <1>7, <5>1, <5>2
      <4>3. KnowsFrom(upTo)'
        BY <1>8, <3>1, <4>1, <4>2 DEF KnowsFrom, KnownUpTo
      <4> QED BY <4>1, <4>3
    <3> QED BY <3>2, <3>3
  <2>2. ASSUME NEW first \in 1..Len(log), KnowsFrom(first) PROVE KnowsFrom(first)'
    <3>1. cursor \in first..Len(log) /\ cursor \notin {NoCursor, 0}
      BY <1>1, <2>2, LogAssumption DEF KnowsFrom
    <3>2. first <= p.since /\ KnownUpTo(p.since, first) /\ p.since <= Len(log)
      BY <1>1, <1>2, <2>0, <2>2, <3>1 DEF KnowsFrom
    <3>3. ASSUME NEW n \in 1..upTo, question' \in log'[n], n > first \/ \E m \in ShownOf(run)' : m <= n
          PROVE  n \in ShownOf(run)' \union dropped'
      <4>1. CASE n <= p.since
        <5>1. n \in 1..p.since
          BY <1>1, <4>1
        <5> QED BY <1>1, <1>9, <3>2, <3>3, <5>1
      <4>2. CASE n > p.since
        <5>1. n \in (p.since + 1)..upTo /\ p.since > 0 /\ question \in log[n]
          BY <1>1, <3>2, <3>3, <4>2
        <5> QED BY <1>2, <1>7, <2>0, <5>1
      <4> QED BY <1>1, <4>1, <4>2
    <3>4. ASSUME NEW r \in polls', r.since # 0
          PROVE  /\ first <= r.since
                 /\ \A n \in 1..r.since : question' \in log'[n] /\ (n > first \/ \E m \in ShownOf(run)' : m <= n)
                                          => n \in ShownOf(run)' \union dropped'
      <4>1. r \in polls /\ r.since \in Nat /\ r.since <= Len(log)
        BY <1>0, <1>1 DEF LinesKnown
      <4>2. first <= r.since /\ KnownUpTo(r.since, first)
        BY <2>2, <3>4, <4>1 DEF KnowsFrom
      <4> QED BY <1>9, <3>2, <4>1, <4>2
    <3>5. cursor' \in first..Len(log')
      BY <1>1, <1>2, <1>8, <3>2
    <3> QED BY <1>8, <3>3, <3>4, <3>5 DEF KnowsFrom, KnownUpTo
  <2>3. PICK first \in {0} \union (1..Len(log)) : KnowsNothing \/ (first # 0 /\ KnowsFrom(first))
    BY <1>1, <2>0 DEF LinesKnown
  <2> QED BY <1>1, <2>1, <2>2, <2>3
<1>11. cursor' \in 0..Len(log')
  BY <1>1, <1>2, <1>8
<1>12. \A r \in polls' : r.since <= Len(log') /\ (r.answer # Unanswered => Tells(r)')
  BY <1>0, <1>1 DEF LinesKnown, Tells
<1> QED BY <1>1, <1>4, <1>10, <1>11, <1>12 DEF LinesKnown

\* What is known up to a cursor stays so: a line of the log is never changed, a poll is asked
\* for what came after the cursor, and a change of question starts over.
LEMMA LinesStayKnown ==
  ASSUME LogTypeOK, QuestionKept, LinesKnown, [LogNext]_logVars
  PROVE  LinesKnown'
<1> SUFFICES ASSUME owner', run' = 1 PROVE LinesKnown'
  BY DEF LinesKnown
<1>0. /\ owner /\ run = 1 /\ Len(log) \in Nat /\ ~ServerRestarts
      /\ \A p \in polls : p.since \in Nat
  <2>1. owner
    BY DEF LogNext, logVars, WriteLine, ServerRestarts, ServerAnswers, Timer, TakeAnswer, PollFails, ChangeQuestion, Pause, Resume
  <2>2. ~ServerRestarts
    <3>1. run \in Nat /\ run # 0
      <4>1. MaxRuns \in Nat /\ run \in 1..MaxRuns
        BY LogAssumption DEF LogTypeOK
      <4> HIDE DEF LogTypeOK
      <4> QED BY <4>1
    <3>2. ServerRestarts => run' = run + 1
      BY DEF ServerRestarts
    <3>3. run + 1 # 1
      BY <3>1
    <3> QED BY <3>2, <3>3
  <2>3. run = 1
    BY <2>2 DEF LogNext, logVars, WriteLine, ServerAnswers, Timer, TakeAnswer, PollFails, ChangeQuestion, Pause, Resume
  <2>4. \A p \in polls : p.since \in Nat
    BY LogAssumption DEF LogTypeOK, Polls
  <2> QED BY <2>1, <2>2, <2>3, <2>4, OldestType
<1>1. CASE WriteLine
  <2>1. PICK kind \in Kinds : log' = Append(log, kind)
    BY <1>1 DEF WriteLine
  <2>2. Len(log') = Len(log) + 1 /\ \A n \in 1..Len(log) : log'[n] = log[n]
    BY <2>1, AppendProperties DEF LogTypeOK
  <2>3. UNCHANGED <<run, owner, question, following, cursor, shown, missed, dropped, blind, polls>>
    BY <1>1 DEF WriteLine
  <2>4. ASSUME NEW p \in polls, p.answer # Unanswered PROVE Tells(p)'
    <3>1. Tells(p) /\ p.since \in Nat
      BY <1>0, <2>4 DEF LinesKnown
    <3>2. \A n \in (p.since + 1)..p.answer.cursor : log'[n] = log[n]
      BY <1>0, <2>2, <3>1 DEF Tells
    <3> QED BY <1>0, <2>2, <2>3, <3>1, <3>2 DEF Tells
  <2>5. ASSUME NEW h \in 0..Len(log), NEW first \in 1..Len(log), KnownUpTo(h, first)
        PROVE  \A n \in 1..h : /\ question' \in log'[n]
                               /\ n > first \/ \E m \in ShownOf(run)' : m <= n
                               => n \in ShownOf(run)' \union dropped'
    <3>1. ShownOf(run)' = ShownOf(run) /\ \A n \in 1..h : log'[n] = log[n]
      BY <1>0, <2>2, <2>3 DEF ShownOf
    <3> QED BY <2>3, <2>5, <3>1 DEF KnownUpTo
  <2>6. ASSUME NEW first \in 1..Len(log), KnowsFrom(first) PROVE KnowsFrom(first)'
    <3>1. cursor \in 0..Len(log) /\ \A p \in polls : p.since \in 0..Len(log)
      BY <1>0, <2>6 DEF KnowsFrom, LinesKnown
    <3>2. KnownUpTo(cursor, first)'
      <4>1. KnownUpTo(cursor, first)
        BY <2>6 DEF KnowsFrom
      <4> QED BY <2>3, <2>5, <3>1, <4>1 DEF KnownUpTo
    <3>3. ASSUME NEW p \in polls PROVE p.since = 0 \/ (first <= p.since /\ KnownUpTo(p.since, first)')
      <4>1. p.since = 0 \/ (first <= p.since /\ KnownUpTo(p.since, first))
        BY <2>6 DEF KnowsFrom
      <4> QED BY <2>3, <2>5, <3>1, <4>1 DEF KnownUpTo
    <3>4. cursor' \in first..Len(log')
      BY <1>0, <2>2, <2>3, <2>6 DEF KnowsFrom
    <3> QED BY <2>3, <3>2, <3>3, <3>4 DEF KnowsFrom
  <2>7. KnowsNothing => KnowsNothing'
    BY <2>3 DEF KnowsNothing
  <2> QED BY <1>0, <2>2, <2>3, <2>4, <2>6, <2>7 DEF LinesKnown
<1>2. ASSUME UNCHANGED <<log, run, owner, question, cursor, shown, missed, dropped, blind>>,
             \A p \in polls' : \/ p \in polls
                               \/ \E o \in polls : p.since = o.since /\ p.answer # Unanswered /\ Tells(p)
                               \/ p.since = (IF cursor = NoCursor THEN 0 ELSE cursor) /\ p.answer = Unanswered
      PROVE  LinesKnown'
  <2>1. \A p \in polls' : \/ p.since = (IF cursor = NoCursor THEN 0 ELSE cursor)
                          \/ \E o \in polls : p.since = o.since
    BY <1>2
  <2>2. \A p \in polls' : p.since <= Len(log') /\ (p.answer # Unanswered => Tells(p)')
    BY <1>0, <1>2 DEF LinesKnown, Tells
  <2>3. KnowsNothing => KnowsNothing'
    BY <1>2, <2>1 DEF KnowsNothing
  <2>4. ASSUME NEW first \in 1..Len(log), KnowsFrom(first) PROVE KnowsFrom(first)'
    <3>1. cursor # NoCursor
      BY <1>0, <2>4, LogAssumption DEF KnowsFrom
    <3>2. ShownOf(run)' = ShownOf(run)
      BY <1>2 DEF ShownOf
    <3>3. \A h : KnownUpTo(h, first) => \A n \in 1..h : /\ question' \in log'[n]
                                                        /\ n > first \/ \E m \in ShownOf(run)' : m <= n
                                                        => n \in ShownOf(run)' \union dropped'
      BY <1>2, <3>2 DEF KnownUpTo
    <3>4. \A p \in polls' : p.since = 0 \/ (first <= p.since /\ KnownUpTo(p.since, first))
      BY <1>0, <2>1, <2>4, <3>1 DEF KnowsFrom
    <3>5. cursor' \in first..Len(log') /\ KnownUpTo(cursor, first)
      BY <1>2, <2>4 DEF KnowsFrom
    <3> QED BY <1>2, <3>3, <3>4, <3>5 DEF KnowsFrom, KnownUpTo
  <2> QED BY <1>0, <1>2, <2>2, <2>3, <2>4 DEF LinesKnown
<1>3. CASE ServerAnswers
  <2>1. PICK p \in polls : /\ p.answer = Unanswered
                           /\ polls' = (polls \ {p}) \union {[p EXCEPT !.answer = Read(p.question, p.since, p.first)]}
    BY <1>3 DEF ServerAnswers
  <2> DEFINE answer == Read(p.question, p.since, p.first)
             now == [p EXCEPT !.answer = answer]
  <2>2. p \in Polls /\ p.since \in Nat /\ p.since <= Len(log) /\ p.question \in Questions /\ p.since <= MaxLines /\ p.first \in BOOLEAN
    BY <1>0, LogAssumption DEF LogTypeOK, LinesKnown, Polls
  <2>3. /\ answer.cursor = Len(log)
        /\ \A i \in DOMAIN answer.lines : answer.lines[i].run = run /\ answer.lines[i].number \in (p.since + 1)..Len(log)
        /\ \A n \in (p.since + 1)..Len(log) :
             /\ p.question \in log[n]
             /\ (\E m \in NumbersOf(answer.lines) : m <= n) \/ (p.since > 0 /\ ~answer.missed)
             => n \in NumbersOf(answer.lines)
    BY <2>2, ReadTells
  <2> HIDE DEF answer
  <2>4. now.since = p.since /\ now.question = p.question /\ now.answer = answer
    BY <2>2 DEF Polls
  <2>5. Tells(now)
    BY <1>0, <2>2, <2>3, <2>4 DEF Tells
  <2>6. UNCHANGED <<log, run, owner, question, cursor, shown, missed, dropped, blind>>
    BY <1>3 DEF ServerAnswers
  <2>7. polls' = (polls \ {p}) \union {now}
    BY <2>1 DEF answer
  <2>8. CASE now.answer = Unanswered
    <3>1. now = p
      BY <2>1, <2>2, <2>4, <2>8 DEF Polls
    <3> QED BY <1>2, <2>6, <2>7, <3>1
  <2>9. CASE now.answer # Unanswered
    BY <1>2, <2>4, <2>5, <2>6, <2>7, <2>9
  <2> QED BY <2>8, <2>9
<1>4. ASSUME NEW under \in SUBSET polls, polls' = under \/ Poll(question, cursor, under),
             UNCHANGED <<log, run, owner, question, cursor, shown, missed, dropped, blind>>
      PROVE  LinesKnown'
  <2>1. CASE polls' = under
    BY <1>2, <1>4, <2>1
  <2>2. CASE Poll(question, cursor, under)
    <3> DEFINE new == Asking(question, cursor, under)
    <3>1. polls' = under \union {new} /\ FreeIds(under) # {}
      BY <2>2 DEF Poll
    <3>2. new.since = (IF cursor = NoCursor THEN 0 ELSE cursor) /\ new.answer = Unanswered
      BY DEF Asking
    <3> HIDE DEF new
    <3> QED BY <1>2, <1>4, <3>1, <3>2
  <2> QED BY <1>4, <2>1, <2>2
<1>5. CASE TakeAnswer
  BY <1>0, <1>5, TakingKeepsKnown
<1>6. CASE PollFails
  BY <1>4, <1>6 DEF PollFails
<1>7. CASE ChangeQuestion
  <2>1. StillHeard = {}
    BY <1>0 DEF StillHeard
  <2>2. PICK q \in Questions : Poll(q, NoCursor, {}) \/ polls' = {}
    BY <1>7, <2>1 DEF ChangeQuestion
  <2>3. cursor' = NoCursor /\ shown' = <<>> /\ UNCHANGED <<log, run, owner>>
    BY <1>7 DEF ChangeQuestion
  <2>4. \A p \in polls' : p.since = 0 /\ p.answer = Unanswered
    <3>1. CASE polls' = {}
      BY <3>1
    <3>2. CASE Poll(q, NoCursor, {})
      BY <3>2 DEF Poll, Asking
    <3> QED BY <2>2, <3>1, <3>2
  <2>5. KnowsNothing'
    BY <2>3, <2>4 DEF KnowsNothing
  <2> QED BY <1>0, <2>3, <2>4, <2>5 DEF LinesKnown
<1>8. CASE Pause
  <2>1. polls' = {}
    BY <1>0, <1>8 DEF Pause, StillHeard
  <2> QED BY <1>4, <1>8, <2>1 DEF Pause
<1>9. CASE Resume \/ Timer
  <2>1. \E under \in SUBSET polls : Poll(question, cursor, under)
    BY <1>9 DEF Resume, Timer, StillHeard
  <2> QED BY <1>4, <1>9, <2>1 DEF Resume, Timer
<1>10. CASE UNCHANGED logVars
  BY <1>4, <1>10 DEF logVars
<1> QED BY <1>0, <1>1, <1>3, <1>5, <1>6, <1>7, <1>8, <1>9, <1>10 DEF LogNext

\* The inductive invariant.
LEMMA LogInvariant ==
  LogSpec => []LogInv
<1>1. LogInit => LogInv
  <2> SUFFICES ASSUME LogInit PROVE LogInv
    OBVIOUS
  <2>1. LogTypeOK
    BY LogTypeStarts
  <2>2. \A p \in polls : p.question = question /\ p.since = 0 /\ p.answer = Unanswered
    BY DEF LogInit, Asking
  <2> QED BY <2>1, <2>2, OldestType DEF LogInv, LogInit, QuestionKept, OneQuestion, LinesKnown, KnowsNothing
<1>2. LogInv /\ [LogNext]_logVars => LogInv'
  BY LogTypeStep, QuestionIsKept, LinesStayKnown DEF LogInv
<1> QED BY <1>1, <1>2, PTL DEF LogSpec

\* The section of the owner never shows lines of one question under another (the alive flag
\* of the effect in LogsTab).
THEOREM OwnerKeepsToOneQuestion ==
  LogSpec => []OwnerOneQuestion
<1>1. LogInv => OwnerOneQuestion
  BY DEF LogInv, QuestionKept, OwnerOneQuestion
<1> QED BY <1>1, LogInvariant, PTL

\* What it shows has no holes, up to its cursor and from its oldest line on, but in the cases the
\* property names (LogBook.Read, poll in LogsTab).
THEOREM OwnerSeesEveryLine ==
  LogSpec => []OwnerSeesAll
<1>1. LogInv => OwnerSeesAll
  <2> SUFFICES ASSUME LogInv, owner, run = 1, ~blind, ~missed, cursor # NoCursor,
                      NEW m \in ShownOf(run), NEW n \in m..MinOf(cursor, Len(log)), question \in log[n]
               PROVE  n \in ShownOf(run) \union dropped
    BY DEF OwnerSeesAll
  <2>1. ~KnowsNothing
    BY DEF KnowsNothing, ShownOf
  <2>2. PICK first \in 1..Len(log) : KnowsFrom(first)
    BY <2>1 DEF LogInv, LinesKnown
  <2>3. cursor \in 1..Len(log) /\ Len(log) \in Nat
    BY <2>2, OldestType DEF LogInv, KnowsFrom
  <2>4. m \in Nat \ {0}
    <3>1. PICK i \in DOMAIN shown : m = shown[i].number
      BY DEF ShownOf
    <3>2. shown[i] \in AllLines
      BY <3>1, ElementOfSeq DEF LogInv, LogTypeOK
    <3> QED BY <3>1, <3>2 DEF AllLines
  <2>5. n \in 1..cursor /\ m <= n
    BY <2>3, <2>4 DEF MinOf
  <2> QED BY <2>2, <2>5 DEF KnowsFrom, KnownUpTo
<1> QED BY <1>1, LogInvariant, PTL

-----------------------------------------------------------------------------
(***************************************************************************)
(* What changed between two versions (LineDiff).                           *)
(***************************************************************************)
LEMMA DiffBounds == Longest \in Nat /\ Context \in Nat /\ Most \in Nat
BY LineDiffAssumption

(***************************************************************************)
(* Ways to lay lines i to p of one file beside equal lines j to q of the   *)
(* other, in order, and the most lines that can be laid.                   *)
(***************************************************************************)
Matchings(a, b, i, j, p, q) ==
  {M \in SUBSET ((i..p) \X (j..q)) :
     /\ \A m \in M : a[m[1]] = b[m[2]]
     /\ \A m, n \in M : m[1] < n[1] <=> m[2] < n[2]}

IsLargest(size, a, b, i, j, p, q) ==
  /\ \E M \in Matchings(a, b, i, j, p, q) : Cardinality(M) = size
  /\ \A M \in Matchings(a, b, i, j, p, q) : Cardinality(M) <= size

Largest(a, b, i, j, p, q) == CHOOSE size \in Nat : IsLargest(size, a, b, i, j, p, q)

\* There are no more pairs in a matching than places to pair.
LEMMA MatchingsAreFinite ==
  ASSUME NEW a, NEW b, NEW i \in Int, NEW j \in Int, NEW p \in Int, NEW q \in Int,
         NEW M \in Matchings(a, b, i, j, p, q)
  PROVE  /\ IsFiniteSet(M) /\ Cardinality(M) \in Nat
         /\ Cardinality(M) <= Cardinality((i..p) \X (j..q)) /\ Cardinality((i..p) \X (j..q)) \in Nat
         /\ M \in SUBSET ((i..p) \X (j..q))
<1>1. IsFiniteSet(i..p) /\ IsFiniteSet(j..q)
  BY FS_Interval
<1>2. IsFiniteSet((i..p) \X (j..q))
  BY <1>1, FS_Product
<1>3. M \in SUBSET ((i..p) \X (j..q))
  BY DEF Matchings
<1>4. IsFiniteSet(M) /\ Cardinality(M) \in Nat
      /\ Cardinality(M) <= Cardinality((i..p) \X (j..q)) /\ Cardinality((i..p) \X (j..q)) \in Nat
  BY <1>2, <1>3, FS_Subset, FS_CardinalityType
<1> QED BY <1>3, <1>4

\* Some matching is the largest.
LEMMA LargestExists ==
  ASSUME NEW a, NEW b, NEW i \in Int, NEW j \in Int, NEW p \in Int, NEW q \in Int
  PROVE  Largest(a, b, i, j, p, q) \in Nat /\ IsLargest(Largest(a, b, i, j, p, q), a, b, i, j, p, q)
<1> DEFINE sizes == {Cardinality(M) : M \in Matchings(a, b, i, j, p, q)}
           bound == Cardinality((i..p) \X (j..q))
<1>1. {} \in Matchings(a, b, i, j, p, q)
  BY DEF Matchings
<1>2. bound \in Nat /\ \A k \in sizes : k \in Nat /\ k <= bound
  <2>1. \A M \in Matchings(a, b, i, j, p, q) : Cardinality(M) \in Nat /\ Cardinality(M) <= bound /\ bound \in Nat
    BY MatchingsAreFinite
  <2> QED BY <1>1, <2>1
<1>3. sizes # {}
  BY <1>1
<1> HIDE DEF bound
<1>4. PICK k \in sizes : \A l \in sizes : l <= k
  <2> HIDE DEF sizes
  <2> QED BY <1>2, <1>3, HasGreatest
<1>5. k \in Nat /\ IsLargest(k, a, b, i, j, p, q)
  BY <1>2, <1>4 DEF IsLargest
<1> QED BY <1>5 DEF Largest

\* No two numbers are the size of the largest matching.
LEMMA LargestIs ==
  ASSUME NEW a, NEW b, NEW i \in Int, NEW j \in Int, NEW p \in Int, NEW q \in Int,
         NEW size \in Nat, IsLargest(size, a, b, i, j, p, q)
  PROVE  Largest(a, b, i, j, p, q) = size
<1>1. Largest(a, b, i, j, p, q) \in Nat /\ IsLargest(Largest(a, b, i, j, p, q), a, b, i, j, p, q)
  BY LargestExists
<1>2. Largest(a, b, i, j, p, q) <= size /\ size <= Largest(a, b, i, j, p, q)
  BY <1>1 DEF IsLargest
<1> QED BY <1>1, <1>2

\* Two stretches of which one is empty share nothing.
LEMMA LargestOfNone ==
  ASSUME NEW a, NEW b, NEW i \in Int, NEW j \in Int, NEW p \in Int, NEW q \in Int, i > p \/ j > q
  PROVE  Largest(a, b, i, j, p, q) = 0
<1>1. (i..p) \X (j..q) = {}
  OBVIOUS
<1>2. Matchings(a, b, i, j, p, q) = {{}}
  BY <1>1 DEF Matchings
<1>3. IsLargest(0, a, b, i, j, p, q)
  BY <1>2, FS_EmptySet DEF IsLargest
<1> QED BY <1>3, LargestIs

\* Matchings of a part are matchings of the whole.
LEMMA MatchingsGrow ==
  ASSUME NEW a, NEW b, NEW i \in Int, NEW j \in Int, NEW p \in Int, NEW q \in Int,
         NEW k \in Int, NEW l \in Int, NEW r \in Int, NEW s \in Int,
         i <= k, j <= l, r <= p, s <= q
  PROVE  /\ Matchings(a, b, k, l, r, s) \in SUBSET Matchings(a, b, i, j, p, q)
         /\ \A M \in Matchings(a, b, i, j, p, q) :
              (\A m \in M : m[1] \in k..r /\ m[2] \in l..s) => M \in Matchings(a, b, k, l, r, s)
         /\ \A M \in Matchings(a, b, i, j, p, q) : \A N \in SUBSET M : N \in Matchings(a, b, i, j, p, q)
<1>1. (k..r) \X (l..s) \in SUBSET ((i..p) \X (j..q))
  OBVIOUS
<1>2. Matchings(a, b, k, l, r, s) \in SUBSET Matchings(a, b, i, j, p, q)
  BY <1>1 DEF Matchings
<1>3. ASSUME NEW M \in Matchings(a, b, i, j, p, q), \A m \in M : m[1] \in k..r /\ m[2] \in l..s
      PROVE  M \in Matchings(a, b, k, l, r, s)
  <2>1. M \in SUBSET ((i..p) \X (j..q))
    BY DEF Matchings
  <2>2. M \in SUBSET ((k..r) \X (l..s))
    BY <1>3, <2>1
  <2> QED BY <2>2 DEF Matchings
<1>4. \A M \in Matchings(a, b, i, j, p, q) : \A N \in SUBSET M : N \in Matchings(a, b, i, j, p, q)
  BY DEF Matchings
<1> QED BY <1>2, <1>3, <1>4

\* The sizes that are no smaller, for the larger part.
LEMMA LargestGrows ==
  ASSUME NEW a, NEW b, NEW i \in Int, NEW j \in Int, NEW p \in Int, NEW q \in Int,
         NEW k \in Int, NEW l \in Int, NEW r \in Int, NEW s \in Int,
         i <= k, j <= l, r <= p, s <= q
  PROVE  Largest(a, b, k, l, r, s) <= Largest(a, b, i, j, p, q)
<1>1. PICK M \in Matchings(a, b, k, l, r, s) : Cardinality(M) = Largest(a, b, k, l, r, s)
  BY LargestExists DEF IsLargest
<1>2. M \in Matchings(a, b, i, j, p, q)
  BY MatchingsGrow
<1> QED BY <1>1, <1>2, LargestExists DEF IsLargest

\* With one pair of lines more.
LEMMA OneMore ==
  ASSUME NEW a, NEW b, NEW i \in Int, NEW j \in Int, NEW p \in Int, NEW q \in Int,
         NEW M \in Matchings(a, b, i, j, p, q),
         NEW k \in i..p, NEW l \in j..q, a[k] = b[l],
         (\A m \in M : m[1] > k /\ m[2] > l) \/ (\A m \in M : m[1] < k /\ m[2] < l)
  PROVE  /\ M \union {<<k, l>>} \in Matchings(a, b, i, j, p, q)
         /\ Cardinality(M \union {<<k, l>>}) = Cardinality(M) + 1
<1> DEFINE N == M \union {<<k, l>>}
<1>1. M \in SUBSET ((i..p) \X (j..q)) /\ IsFiniteSet(M)
  BY MatchingsAreFinite
<1>2. <<k, l>> \notin M
  BY <1>1
<1>3. Cardinality(N) = Cardinality(M) + 1
  BY <1>1, <1>2, FS_AddElement
<1>4. N \in SUBSET ((i..p) \X (j..q))
  BY <1>1
<1>5. \A m \in N : a[m[1]] = b[m[2]]
  BY DEF Matchings
<1>6. ASSUME NEW m \in N, NEW n \in N PROVE m[1] < n[1] <=> m[2] < n[2]
  <2>1. CASE m \in M /\ n \in M
    BY <2>1 DEF Matchings
  <2>2. CASE m = <<k, l>> /\ n = <<k, l>>
    BY <2>2
  <2>3. \A o \in M : o[1] \in Int /\ o[2] \in Int
    BY <1>1
  <2>4. CASE m \in M /\ n = <<k, l>>
    <3>1. n[1] = k /\ n[2] = l
      BY <2>4
    <3> QED BY <2>3, <2>4, <3>1
  <2>5. CASE m = <<k, l>> /\ n \in M
    <3>1. m[1] = k /\ m[2] = l
      BY <2>5
    <3> QED BY <2>3, <2>5, <3>1
  <2> QED BY <2>1, <2>2, <2>4, <2>5
<1>7. N \in Matchings(a, b, i, j, p, q)
  BY <1>4, <1>5, <1>6 DEF Matchings
<1> QED BY <1>3, <1>7

\* A pair of lines at the start of both, or at the end of both, can be laid beside each other.
LEMMA LargestWithPair ==
  ASSUME NEW a, NEW b, NEW i \in Int, NEW j \in Int, NEW p \in Int, NEW q \in Int, i <= p, j <= q,
         NEW k \in Int, NEW l \in Int, a[k] = b[l],
         NEW i2 \in Int, NEW j2 \in Int, NEW p2 \in Int, NEW q2 \in Int,
         \/ k = i /\ l = j /\ i2 = i + 1 /\ j2 = j + 1 /\ p2 = p /\ q2 = q
         \/ k = p /\ l = q /\ i2 = i /\ j2 = j /\ p2 = p - 1 /\ q2 = q - 1
  PROVE  Largest(a, b, i, j, p, q) = Largest(a, b, i2, j2, p2, q2) + 1
<1> DEFINE whole == Largest(a, b, i, j, p, q)
           part == Largest(a, b, i2, j2, p2, q2)
<1>1. whole \in Nat /\ part \in Nat /\ IsLargest(whole, a, b, i, j, p, q) /\ IsLargest(part, a, b, i2, j2, p2, q2)
  BY LargestExists
<1> HIDE DEF whole, part
<1>0. i <= i2 /\ j <= j2 /\ p2 <= p /\ q2 <= q /\ k \in i..p /\ l \in j..q
      /\ (\A x \in i..p : x # k => x \in i2..p2) /\ (\A x \in j..q : x # l => x \in j2..q2)
      /\ \/ (\A x \in i2..p2 : x > k) /\ (\A x \in j2..q2 : x > l)
         \/ (\A x \in i2..p2 : x < k) /\ (\A x \in j2..q2 : x < l)
  <2>1. CASE k = i /\ l = j /\ i2 = i + 1 /\ j2 = j + 1 /\ p2 = p /\ q2 = q
    <3>1. i <= i + 1 /\ j <= j + 1 /\ i \in i..p /\ j \in j..q
          /\ (\A x \in i..p : x # i => x \in (i + 1)..p) /\ (\A x \in j..q : x # j => x \in (j + 1)..q)
      OBVIOUS
    <3>2. (\A x \in (i + 1)..p : x > i) /\ (\A x \in (j + 1)..q : x > j)
      OBVIOUS
    <3>3. i <= i2 /\ j <= j2 /\ p2 <= p /\ q2 <= q /\ k \in i..p /\ l \in j..q
      BY <2>1
    <3>4. (\A x \in i..p : x # k => x \in i2..p2) /\ (\A x \in j..q : x # l => x \in j2..q2)
      BY <2>1, <3>1
    <3>5. (\A x \in i2..p2 : x > k) /\ (\A x \in j2..q2 : x > l)
      BY <2>1, <3>2
    <3> QED BY <3>3, <3>4, <3>5
  <2>2. CASE k = p /\ l = q /\ i2 = i /\ j2 = j /\ p2 = p - 1 /\ q2 = q - 1
    BY <2>2
  <2> QED BY <2>1, <2>2
<1>2. part + 1 <= whole
  <2>1. PICK M \in Matchings(a, b, i2, j2, p2, q2) : Cardinality(M) = part
    BY <1>1 DEF IsLargest
  <2>2. M \in Matchings(a, b, i, j, p, q)
    BY <1>0, MatchingsGrow
  <2>3. \A m \in M : m[1] \in i2..p2 /\ m[2] \in j2..q2
    <3>1. M \in SUBSET ((i2..p2) \X (j2..q2))
      BY DEF Matchings
    <3> QED BY <3>1
  <2>4. (\A m \in M : m[1] > k /\ m[2] > l) \/ (\A m \in M : m[1] < k /\ m[2] < l)
    BY <1>0, <2>3
  <2>5. M \union {<<k, l>>} \in Matchings(a, b, i, j, p, q) /\ Cardinality(M \union {<<k, l>>}) = part + 1
    BY <1>0, <2>1, <2>2, <2>4, OneMore
  <2> QED BY <1>1, <2>5 DEF IsLargest
<1>3. whole <= part + 1
  <2>1. PICK M \in Matchings(a, b, i, j, p, q) : Cardinality(M) = whole
    BY <1>1 DEF IsLargest
  <2>2. IsFiniteSet(M) /\ M \in SUBSET ((i..p) \X (j..q))
    <3>1. M \in SUBSET ((i..p) \X (j..q))
      BY DEF Matchings
    <3> QED BY <3>1, MatchingsAreFinite
  <2>3. \A m \in M : m[1] \in i..p /\ m[2] \in j..q /\ m = <<m[1], m[2]>>
    BY <2>2
  <2> DEFINE touching == {m \in M : m[1] = k \/ m[2] = l}
  <2>4. ASSUME NEW N \in SUBSET M, \A m \in N : m[1] # k /\ m[2] # l PROVE Cardinality(N) <= part
    <3>1. N \in Matchings(a, b, i, j, p, q)
      BY MatchingsGrow
    <3>2. \A m \in N : m[1] \in i2..p2 /\ m[2] \in j2..q2
      BY <1>0, <2>3, <2>4
    <3>3. N \in Matchings(a, b, i2, j2, p2, q2)
      BY <1>0, <3>1, <3>2, MatchingsGrow
    <3> QED BY <1>1, <3>3 DEF IsLargest
  <2>5. CASE touching = {}
    <3>1. Cardinality(M) <= part
      BY <2>4, <2>5
    <3> QED BY <1>1, <2>1, <3>1
  <2>6. CASE touching # {}
    <3>1. PICK t \in touching : TRUE
      BY <2>6
    <3>2. ASSUME NEW m \in touching PROVE m = t
      <4>1. m[1] \in i..p /\ m[2] \in j..q /\ t[1] \in i..p /\ t[2] \in j..q
        BY <2>3, <3>1
      <4>2. (m[1] < t[1] <=> m[2] < t[2]) /\ (t[1] < m[1] <=> t[2] < m[2])
        BY <3>1 DEF Matchings
      <4>3. m[1] = k \/ m[2] = l
        OBVIOUS
      <4>4. t[1] = k \/ t[2] = l
        BY <3>1
      <4> DEFINE m1 == m[1]
                 m2 == m[2]
                 t1 == t[1]
                 t2 == t[2]
      <4>5. m1 = t1 /\ m2 = t2
        <5>1. m1 \in i..p /\ m2 \in j..q /\ t1 \in i..p /\ t2 \in j..q
              /\ (m1 < t1 <=> m2 < t2) /\ (t1 < m1 <=> t2 < m2) /\ (m1 = k \/ m2 = l) /\ (t1 = k \/ t2 = l)
          BY <4>1, <4>2, <4>3, <4>4
        <5> HIDE DEF m1, m2, t1, t2
        <5> QED BY <5>1
      <4> QED BY <2>3, <3>1, <4>5
    <3>3. Cardinality(M \ {t}) = whole - 1
      BY <2>1, <2>2, <3>1, FS_RemoveElement
    <3>4. \A m \in M \ {t} : m[1] # k /\ m[2] # l
      BY <3>2
    <3>5. Cardinality(M \ {t}) <= part
      BY <2>4, <3>4
    <3> QED BY <1>1, <3>3, <3>5
  <2> QED BY <2>5, <2>6
<1> QED BY <1>1, <1>2, <1>3 DEF whole, part

\* Of two lines that differ, one can be left out.
LEMMA LargestWithoutOne ==
  ASSUME NEW a, NEW b, NEW i \in Int, NEW j \in Int, NEW p \in Int, NEW q \in Int, i <= p, j <= q, a[i] # b[j]
  PROVE  Largest(a, b, i, j, p, q) = Max({Largest(a, b, i + 1, j, p, q), Largest(a, b, i, j + 1, p, q)})
<1> DEFINE whole == Largest(a, b, i, j, p, q)
           down == Largest(a, b, i + 1, j, p, q)
           right == Largest(a, b, i, j + 1, p, q)
<1>1. whole \in Nat /\ down \in Nat /\ right \in Nat
  BY LargestExists
<1>2. down <= whole /\ right <= whole
  BY LargestGrows
<1>8. Max({down, right}) = IF down >= right THEN down ELSE right
  BY <1>1, GreatestOfTwo
<1> HIDE DEF whole, down, right
<1>3. PICK M \in Matchings(a, b, i, j, p, q) : Cardinality(M) = whole
  BY LargestExists DEF IsLargest, whole
<1>4. M \in SUBSET ((i..p) \X (j..q))
  BY MatchingsAreFinite
<1>5. \A m \in M : m[1] \in i..p /\ m[2] \in j..q /\ m = <<m[1], m[2]>>
  BY <1>4
<1> SUFFICES whole = Max({down, right})
  BY DEF whole, down, right
<1>6. CASE \A m \in M : m[1] # i
  <2>1. \A m \in M : m[1] \in (i + 1)..p /\ m[2] \in j..q
    BY <1>5, <1>6
  <2>2. M \in Matchings(a, b, i + 1, j, p, q)
    <3>1. i + 1 \in Int /\ i <= i + 1 /\ j <= j /\ p <= p /\ q <= q
      OBVIOUS
    <3> QED BY <2>1, <3>1, MatchingsGrow
  <2>3. Cardinality(M) <= down
    BY <2>2, LargestExists DEF IsLargest, down
  <2> QED BY <1>1, <1>2, <1>3, <1>8, <2>3
<1>7. CASE \E m \in M : m[1] = i
  <2>1. PICK m \in M : m[1] = i
    BY <1>7
  <2>2. m[2] # j
    BY <2>1 DEF Matchings
  <2>3. ASSUME NEW n \in M, n[2] = j PROVE FALSE
    <3>1. n[1] < m[1] <=> n[2] < m[2]
      BY <2>1 DEF Matchings
    <3>2. n[2] < m[2] /\ ~(n[1] < m[1])
      <4>1. m[2] \in j..q /\ n[1] \in i..p
        BY <1>5, <2>1
      <4>2. m[2] > j
        BY <2>2, <4>1
      <4> QED BY <2>1, <2>3, <4>1, <4>2
    <3> QED BY <3>1, <3>2
  <2>4. \A n \in M : n[1] \in i..p /\ n[2] \in (j + 1)..q
    <3>1. \A n \in M : n[1] \in i..p /\ n[2] \in j..q /\ n[2] # j
      BY <1>5, <2>3
    <3> QED BY <3>1
  <2>5. M \in Matchings(a, b, i, j + 1, p, q)
    BY <2>4, MatchingsGrow
  <2>6. Cardinality(M) <= right
    BY <2>5, LargestExists DEF IsLargest, right
  <2> QED BY <1>1, <1>2, <1>3, <1>8, <2>6
<1> QED BY <1>6, <1>7

(***************************************************************************)
(* What is set aside first (diffLines).                                    *)
(***************************************************************************)
LEMMA SharedStartTells ==
  ASSUME NEW a \in Seq(Lines), NEW b \in Seq(Lines)
  PROVE  LET start == SharedStart(a, b) IN
         /\ start \in Nat /\ start <= Len(a) /\ start <= Len(b)
         /\ \A k \in 1..start : a[k] = b[k]
         /\ a = b => start = Len(a)
<1> DEFINE least == IF Len(a) <= Len(b) THEN Len(a) ELSE Len(b)
           S == {n \in 0..least : SubSeq(a, 1, n) = SubSeq(b, 1, n)}
<1>1. Len(a) \in Nat /\ Len(b) \in Nat
  OBVIOUS
<1>2. least \in Nat /\ least <= Len(a) /\ least <= Len(b)
  BY <1>1
<1>3. SharedStart(a, b) = Max(S)
  <2>1. Min({Len(a), Len(b)}) = least
    BY <1>1, LeastOfTwo
  <2> QED BY <2>1 DEF SharedStart
<1>4. 0 \in S
  <2>1. SubSeq(a, 1, 0) = <<>> /\ SubSeq(b, 1, 0) = <<>>
    BY SubSeqEmpty
  <2> QED BY <1>2, <2>1
<1>5. PICK start \in S : start = Max(S) /\ \A l \in S : l <= start
  <2>1. S \in SUBSET Nat /\ \A k \in S : k <= least
    BY <1>2
  <2> HIDE DEF S, least
  <2> QED BY <1>2, <1>4, <2>1, HasGreatest
<1>6. start \in Nat /\ start <= least /\ SubSeq(a, 1, start) = SubSeq(b, 1, start)
  <2> HIDE DEF least
  <2>1. start \in 0..least /\ SubSeq(a, 1, start) = SubSeq(b, 1, start)
    OBVIOUS
  <2> QED BY <1>2, <2>1
<1>7. a = b => least \in S
  BY <1>2
<1> HIDE DEF S
<1>8. ASSUME a = b PROVE start = Len(a)
  <2>1. least <= start /\ least = Len(a)
    BY <1>5, <1>7, <1>8
  <2> QED BY <1>1, <1>6, <2>1
<1>9. ASSUME NEW k \in 1..start PROVE a[k] = b[k]
  <2>1. \A i \in 1..start : a[i] \in Lines /\ b[i] \in Lines
    BY <1>1, <1>2, <1>6
  <2>2. SubSeq(a, 1, start)[k] = a[1 + k - 1] /\ SubSeq(b, 1, start)[k] = b[1 + k - 1]
    BY <1>6, <2>1, SubSeqProperties
  <2>3. 1 + k - 1 = k
    BY <1>6
  <2> QED BY <1>6, <2>2, <2>3
<1> QED BY <1>1, <1>2, <1>3, <1>5, <1>6, <1>8, <1>9

\* What the shared end sets aside is the same in both, and no part of the shared start.
LEMMA SharedEndTells ==
  ASSUME NEW a \in Seq(Lines), NEW b \in Seq(Lines)
  PROVE  LET start == SharedStart(a, b)
             end == SharedEnd(a, b)
         IN /\ end \in Nat /\ start + end <= Len(a) /\ start + end <= Len(b)
            /\ \A k \in 1..end : a[Len(a) - end + k] = b[Len(b) - end + k]
<1> DEFINE least == IF Len(a) <= Len(b) THEN Len(a) ELSE Len(b)
           start == SharedStart(a, b)
           S == {n \in 0..(least - start) :
                   SubSeq(a, Len(a) - n + 1, Len(a)) = SubSeq(b, Len(b) - n + 1, Len(b))}
<1>1. Len(a) \in Nat /\ Len(b) \in Nat /\ start \in Nat /\ start <= Len(a) /\ start <= Len(b)
  BY SharedStartTells
<1> HIDE DEF start
<1>2. least - start \in Nat /\ start + (least - start) <= Len(a) /\ start + (least - start) <= Len(b)
  BY <1>1
<1>3. SharedEnd(a, b) = Max(S)
  <2>1. Min({Len(a), Len(b)}) = least
    BY <1>1, LeastOfTwo
  <2> QED BY <2>1 DEF SharedEnd, start
<1>4. 0 \in S
  <2>1. Len(a) - 0 + 1 \in Int /\ Len(b) - 0 + 1 \in Int /\ Len(a) < Len(a) - 0 + 1 /\ Len(b) < Len(b) - 0 + 1
    BY <1>1
  <2>2. SubSeq(a, Len(a) - 0 + 1, Len(a)) = <<>> /\ SubSeq(b, Len(b) - 0 + 1, Len(b)) = <<>>
    BY <1>1, <2>1, SubSeqEmpty
  <2> QED BY <1>2, <2>2
<1>5. PICK end \in S : end = Max(S)
  <2>1. S \in SUBSET Nat /\ \A k \in S : k <= least - start
    BY <1>2
  <2> HIDE DEF S, least
  <2> QED BY <1>2, <1>4, <2>1, HasGreatest
<1>6. /\ end \in Nat /\ end <= least - start
      /\ SubSeq(a, Len(a) - end + 1, Len(a)) = SubSeq(b, Len(b) - end + 1, Len(b))
  <2> HIDE DEF least
  <2>1. /\ end \in 0..(least - start)
        /\ SubSeq(a, Len(a) - end + 1, Len(a)) = SubSeq(b, Len(b) - end + 1, Len(b))
    OBVIOUS
  <2> QED BY <1>2, <2>1
<1> HIDE DEF S
<1>7. start + end <= Len(a) /\ start + end <= Len(b)
  BY <1>1, <1>2, <1>6
<1>8. ASSUME NEW k \in 1..end PROVE a[Len(a) - end + k] = b[Len(b) - end + k]
  <2> DEFINE m == Len(a) - end + 1
             n == Len(b) - end + 1
  <2>1. m \in Int /\ n \in Int /\ 1 <= m /\ 1 <= n
    BY <1>1, <1>6, <1>7
  <2>2. \A i \in m..Len(a) : a[i] \in Lines
    BY <1>1, <2>1
  <2>3. \A i \in n..Len(b) : b[i] \in Lines
    BY <1>1, <2>1
  <2>4. k \in 1..(Len(a) - m + 1) /\ k \in 1..(Len(b) - n + 1)
        /\ m + k - 1 = Len(a) - end + k /\ n + k - 1 = Len(b) - end + k
    BY <1>1, <1>6
  <2> HIDE DEF m, n
  <2>5. SubSeq(a, m, Len(a))[k] = a[m + k - 1]
    BY <1>1, <2>1, <2>2, <2>4, SubSeqProperties
  <2>6. SubSeq(b, n, Len(b))[k] = b[n + k - 1]
    BY <1>1, <2>1, <2>3, <2>4, SubSeqProperties
  <2>7. SubSeq(a, m, Len(a)) = SubSeq(b, n, Len(b))
    BY <1>6 DEF m, n
  <2> QED BY <2>4, <2>5, <2>6, <2>7
<1> QED BY <1>3, <1>5, <1>6, <1>7, <1>8 DEF start

\* What is left between them.
LEMMA MiddleTells ==
  ASSUME NEW s \in Seq(Lines), NEW start \in Nat, NEW end \in Nat, start + end <= Len(s)
  PROVE  /\ Middle(s, start, end) \in Seq(Lines)
         /\ Len(Middle(s, start, end)) = Len(s) - end - start
         /\ \A k \in 1..(Len(s) - end - start) : Middle(s, start, end)[k] = s[start + k]
<1>1. Len(s) \in Nat /\ start + 1 \in Int /\ Len(s) - end \in Int
  OBVIOUS
<1>2. \A i \in (start + 1)..(Len(s) - end) : s[i] \in Lines
  BY <1>1
<1>3. /\ SubSeq(s, start + 1, Len(s) - end) \in Seq(Lines)
      /\ Len(SubSeq(s, start + 1, Len(s) - end)) =
           IF start + 1 <= Len(s) - end THEN Len(s) - end - (start + 1) + 1 ELSE 0
      /\ \A i \in 1..(Len(s) - end - (start + 1) + 1) : SubSeq(s, start + 1, Len(s) - end)[i] = s[start + 1 + i - 1]
  BY <1>1, <1>2, SubSeqProperties
<1>4. Len(Middle(s, start, end)) = Len(s) - end - start
  <2>1. CASE start + 1 <= Len(s) - end
    BY <1>1, <1>3, <2>1 DEF Middle
  <2>2. CASE ~(start + 1 <= Len(s) - end)
    BY <1>1, <1>3, <2>2 DEF Middle
  <2> QED BY <2>1, <2>2
<1>5. ASSUME NEW k \in 1..(Len(s) - end - start) PROVE Middle(s, start, end)[k] = s[start + k]
  <2>1. k \in 1..(Len(s) - end - (start + 1) + 1) /\ start + 1 + k - 1 = start + k
    BY <1>1
  <2> QED BY <1>3, <2>1 DEF Middle
<1> QED BY <1>3, <1>4, <1>5 DEF Middle

(***************************************************************************)
(* The table (diffLines).                                                  *)
(***************************************************************************)
\* What the table makes of the places after one.
Filled(t, a, b, i, j) ==
  IF i > Len(a) \/ j > Len(b) THEN 0
  ELSE IF a[i] = b[j] THEN t[<<i + 1, j + 1>>] + 1
  ELSE Max({t[<<i + 1, j>>], t[<<i, j + 1>>]})

FillsTable(t, a, b) == t = [at \in Places(a, b) |-> Filled(t, a, b, at[1], at[2])]

\* What the table says at one place.
LEMMA FillsTableAt ==
  ASSUME NEW a \in Seq(Lines), NEW b \in Seq(Lines), NEW t, FillsTable(t, a, b),
         NEW i \in 1..(Len(a) + 1), NEW j \in 1..(Len(b) + 1)
  PROVE  t[<<i, j>>] = Filled(t, a, b, i, j)
<1>1. <<i, j>> \in Places(a, b)
  BY DEF Places
<1> QED BY <1>1 DEF FillsTable

\* Only one function does.
LEMMA TableIs ==
  ASSUME NEW a \in Seq(Lines), NEW b \in Seq(Lines), NEW L, FillsTable(L, a, b)
  PROVE  LengthTable(a, b) = L
<1>1. Len(a) \in Nat /\ Len(b) \in Nat
  OBVIOUS
<1>5. LengthTable(a, b) = CHOOSE t : FillsTable(t, a, b)
  BY DEF LengthTable, FillsTable, Filled
<1>6. PICK t : t = LengthTable(a, b) /\ FillsTable(t, a, b)
  BY <1>5
<1> DEFINE bad == {w \in Nat : \E i \in 1..(Len(a) + 1), j \in 1..(Len(b) + 1) :
                                 w = (Len(a) + 1 - i) + (Len(b) + 1 - j) /\ t[<<i, j>>] # L[<<i, j>>]}
<1>7. bad = {}
  <2>1. SUFFICES ASSUME bad # {} PROVE FALSE
    OBVIOUS
  <2>2. PICK w \in bad : \A v \in bad : w <= v
    <3>1. bad \in SUBSET Nat
      OBVIOUS
    <3> HIDE DEF bad
    <3> QED BY <2>1, <3>1, HasLeast
  <2>3. PICK i \in 1..(Len(a) + 1), j \in 1..(Len(b) + 1) :
          w = (Len(a) + 1 - i) + (Len(b) + 1 - j) /\ t[<<i, j>>] # L[<<i, j>>]
    OBVIOUS
  <2>4. ASSUME NEW k \in 1..(Len(a) + 1), NEW l \in 1..(Len(b) + 1), k >= i, l >= j, k > i \/ l > j
        PROVE  t[<<k, l>>] = L[<<k, l>>]
    <3> DEFINE v == (Len(a) + 1 - k) + (Len(b) + 1 - l)
    <3>1. v \in Nat /\ v < w
      BY <1>1, <2>3, <2>4
    <3>2. v \notin bad
      <4> HIDE DEF bad, v
      <4>1. w \in Nat
        BY DEF bad
      <4> QED BY <2>2, <3>1, <4>1
    <3> QED BY <3>1, <3>2
  <2> HIDE DEF bad
  <2>5. t[<<i, j>>] = Filled(t, a, b, i, j)
    BY <1>6, <2>3, FillsTableAt
  <2>6. L[<<i, j>>] = Filled(L, a, b, i, j)
    BY <2>3, FillsTableAt
  <2>7. CASE i > Len(a) \/ j > Len(b)
    BY <2>3, <2>5, <2>6, <2>7 DEF Filled
  <2>8. CASE i <= Len(a) /\ j <= Len(b)
    <3>1. i + 1 \in 1..(Len(a) + 1) /\ j + 1 \in 1..(Len(b) + 1) /\ i \in 1..Len(a) /\ j \in 1..Len(b)
          /\ i + 1 > i /\ j + 1 > j /\ i >= i /\ j >= j
      BY <1>1, <2>8
    <3>2. t[<<i + 1, j + 1>>] = L[<<i + 1, j + 1>>]
      BY <2>4, <3>1
    <3>3. t[<<i + 1, j>>] = L[<<i + 1, j>>]
      BY <2>4, <3>1
    <3>4. t[<<i, j + 1>>] = L[<<i, j + 1>>]
      BY <2>4, <3>1
    <3>5. t[<<i, j>>] = L[<<i, j>>]
      BY <2>5, <2>6, <3>2, <3>3, <3>4 DEF Filled
    <3> QED BY <2>3, <3>5
  <2> QED BY <1>1, <2>7, <2>8
<1>8. ASSUME NEW i \in 1..(Len(a) + 1), NEW j \in 1..(Len(b) + 1) PROVE t[<<i, j>>] = L[<<i, j>>]
  <2> DEFINE w == (Len(a) + 1 - i) + (Len(b) + 1 - j)
  <2>1. w \in Nat
    BY <1>1
  <2>2. w \notin bad
    BY <1>7
  <2> QED BY <2>1, <2>2
<1>9. t = [at \in Places(a, b) |-> t[at]] /\ L = [at \in Places(a, b) |-> L[at]]
  BY <1>6 DEF FillsTable
<1>10. \A at \in Places(a, b) : t[at] = L[at]
  <2>1. \A at \in Places(a, b) : /\ at[1] \in 1..(Len(a) + 1) /\ at[2] \in 1..(Len(b) + 1)
                                 /\ at = <<at[1], at[2]>>
    BY DEF Places
  <2> QED BY <1>8, <2>1
<1> QED BY <1>6, <1>9, <1>10

\* The table holds the most lines what is left of the two can share.
LEMMA TableIsLargest ==
  ASSUME NEW a \in Seq(Lines), NEW b \in Seq(Lines), NEW start \in Nat, NEW end \in Nat,
         start + end <= Len(a), start + end <= Len(b)
  PROVE  LET left == Middle(a, start, end)
             right == Middle(b, start, end)
         IN /\ FillsTable(LengthTable(left, right), left, right)
            /\ \A i \in 1..(Len(left) + 1), j \in 1..(Len(right) + 1) :
                 /\ LengthTable(left, right)[<<i, j>>] \in Nat
                 /\ LengthTable(left, right)[<<i, j>>] =
                      Largest(a, b, start + i, start + j, Len(a) - end, Len(b) - end)
<1> DEFINE left == Middle(a, start, end)
           right == Middle(b, start, end)
           p == Len(a) - end
           q == Len(b) - end
           L == [at \in Places(left, right) |-> Largest(a, b, start + at[1], start + at[2], p, q)]
<1>1. Len(a) \in Nat /\ Len(b) \in Nat /\ p \in Nat /\ q \in Nat
  OBVIOUS
<1>2. /\ left \in Seq(Lines) /\ Len(left) = p - start
      /\ \A k \in 1..(p - start) : left[k] = a[start + k]
  BY MiddleTells
<1>3. /\ right \in Seq(Lines) /\ Len(right) = q - start
      /\ \A k \in 1..(q - start) : right[k] = b[start + k]
  BY MiddleTells
<1>4. Len(left) \in Nat /\ Len(right) \in Nat
  BY <1>2, <1>3
<1> HIDE DEF left, right, p, q
<1>5. \A i \in 1..(Len(left) + 1), j \in 1..(Len(right) + 1) :
        L[<<i, j>>] = Largest(a, b, start + i, start + j, p, q)
  BY DEF Places
<1>6. ASSUME NEW i \in 1..(Len(left) + 1), NEW j \in 1..(Len(right) + 1) PROVE L[<<i, j>>] \in Nat
  <2>1. start + i \in Int /\ start + j \in Int
    BY <1>4
  <2> QED BY <1>1, <1>5, <2>1, LargestExists
<1> HIDE DEF L
<1>7. ASSUME NEW i \in 1..(Len(left) + 1), NEW j \in 1..(Len(right) + 1)
      PROVE  L[<<i, j>>] = Filled(L, left, right, i, j)
  <2> DEFINE k == start + i
             l == start + j
  <2>1. k \in Int /\ l \in Int /\ L[<<i, j>>] = Largest(a, b, k, l, p, q)
    BY <1>4, <1>5
  <2>2. CASE i > Len(left) \/ j > Len(right)
    <3>1. k > p \/ l > q
      <4>1. Len(left) = p - start /\ Len(right) = q - start
        BY <1>2, <1>3
      <4>2. CASE i > Len(left)
        BY <1>1, <4>1, <4>2
      <4>3. CASE j > Len(right)
        BY <1>1, <4>1, <4>3
      <4> QED BY <2>2, <4>2, <4>3
    <3> HIDE DEF k, l
    <3>2. L[<<i, j>>] = 0
      BY <1>1, <2>1, <3>1, LargestOfNone
    <3> QED BY <2>2, <3>2 DEF Filled
  <2>3. CASE i <= Len(left) /\ j <= Len(right)
    <3>1. /\ k <= p /\ l <= q /\ k + 1 = start + (i + 1) /\ l + 1 = start + (j + 1)
          /\ i + 1 \in 1..(Len(left) + 1) /\ j + 1 \in 1..(Len(right) + 1)
          /\ i \in 1..(p - start) /\ j \in 1..(q - start)
      BY <1>1, <1>2, <1>3, <1>4, <2>3
    <3>7. left[i] = a[k] /\ right[j] = b[l]
      BY <1>2, <1>3, <3>1
    <3> HIDE DEF k, l
    <3>2. L[<<i + 1, j + 1>>] = Largest(a, b, k + 1, l + 1, p, q)
      <4>1. L[<<i + 1, j + 1>>] = Largest(a, b, start + (i + 1), start + (j + 1), p, q)
        BY <1>5, <3>1
      <4> QED BY <3>1, <4>1
    <3>5. L[<<i + 1, j>>] = Largest(a, b, k + 1, l, p, q) /\ L[<<i + 1, j>>] \in Nat
      BY <1>5, <1>6, <3>1 DEF l
    <3>6. L[<<i, j + 1>>] = Largest(a, b, k, l + 1, p, q) /\ L[<<i, j + 1>>] \in Nat
      BY <1>5, <1>6, <3>1 DEF k
    <3>3. CASE left[i] = right[j]
      <4>1. a[k] = b[l] /\ k + 1 \in Int /\ l + 1 \in Int
        BY <2>1, <3>7, <3>3
      <4>2. Largest(a, b, k, l, p, q) = Largest(a, b, k + 1, l + 1, p, q) + 1
        BY <1>1, <2>1, <3>1, <4>1, LargestWithPair, SMTT(30)
      <4> QED BY <1>4, <2>1, <2>3, <3>2, <3>3, <4>2, SMTT(30) DEF Filled
    <3>4. CASE left[i] # right[j]
      <4>1. Largest(a, b, k, l, p, q) = Max({Largest(a, b, k + 1, l, p, q), Largest(a, b, k, l + 1, p, q)})
        <5>1. a[k] # b[l]
          BY <3>4, <3>7
        <5>2. k \in Int /\ l \in Int /\ p \in Int /\ q \in Int /\ k <= p /\ l <= q
          BY <1>1, <2>1, <3>1
        <5> QED BY <5>1, <5>2, LargestWithoutOne, SMTT(60)
      <4>3. ~(i > Len(left)) /\ ~(j > Len(right))
        BY <1>4, <2>3
      <4>4. Filled(L, left, right, i, j) = Max({L[<<i + 1, j>>], L[<<i, j + 1>>]})
        BY <3>4, <4>3 DEF Filled
      <4> QED BY <2>1, <3>5, <3>6, <4>1, <4>4
    <3> QED BY <3>3, <3>4
  <2> QED BY <1>4, <2>2, <2>3
<1>8. FillsTable(L, left, right)
  <2>1. \A at \in Places(left, right) : /\ at[1] \in 1..(Len(left) + 1) /\ at[2] \in 1..(Len(right) + 1)
                                        /\ at = <<at[1], at[2]>>
    BY DEF Places
  <2>2. L = [at \in Places(left, right) |-> L[at]]
    BY DEF L
  <2>3. \A at \in Places(left, right) : L[at] = Filled(L, left, right, at[1], at[2])
    BY <1>7, <2>1
  <2> QED BY <2>2, <2>3 DEF FillsTable
<1>9. LengthTable(left, right) = L
  BY <1>2, <1>3, <1>8, TableIs
<1> QED BY <1>5, <1>6, <1>8, <1>9 DEF left, right, p, q

(***************************************************************************)
(* Nothing is lost by setting the shared ends aside.                       *)
(***************************************************************************)
LEMMA EndsAreShared ==
  ASSUME NEW a \in Seq(Lines), NEW b \in Seq(Lines), NEW start \in Nat, NEW end \in Nat,
         start + end <= Len(a), start + end <= Len(b),
         \A k \in 1..start : a[k] = b[k],
         \A k \in 1..end : a[Len(a) - end + k] = b[Len(b) - end + k]
  PROVE  Largest(a, b, 1, 1, Len(a), Len(b)) =
           start + Largest(a, b, start + 1, start + 1, Len(a) - end, Len(b) - end) + end
<1> DEFINE la == Len(a)
           lb == Len(b)
           whole == Largest(a, b, 1, 1, la, lb)
           After(k) == Largest(a, b, k + 1, k + 1, la, lb)
           Between(k) == Largest(a, b, start + 1, start + 1, la - k, lb - k)
           early == {k \in Nat : k <= start /\ whole # k + After(k)}
           late == {k \in Nat : k <= end /\ After(start) # k + Between(k)}
<1>1. la \in Nat /\ lb \in Nat /\ start + end <= la /\ start + end <= lb
  OBVIOUS
<1> HIDE DEF la, lb
<1>2. \A k \in Nat : After(k) \in Nat /\ Between(k) \in Nat
  <2> TAKE k \in Nat
  <2>1. k + 1 \in Int /\ start + 1 \in Int /\ la - k \in Int /\ lb - k \in Int /\ la \in Int /\ lb \in Int
    BY <1>1
  <2> QED BY <2>1, LargestExists
<1>3. whole = After(0) /\ After(start) = Between(0)
  <2>1. 0 + 1 = 1 /\ la - 0 = la /\ lb - 0 = lb
    BY <1>1
  <2> QED BY <2>1
<1>4. ASSUME NEW k \in Nat, k < start PROVE After(k) = After(k + 1) + 1
  <2> DEFINE i == k + 1
  <2>1. i \in Int /\ i + 1 \in Int /\ i <= la /\ i <= lb /\ la \in Int /\ lb \in Int /\ i \in 1..start
    BY <1>1, <1>4
  <2>2. a[i] = b[i]
    BY <2>1
  <2> HIDE DEF i
  <2>3. Largest(a, b, i, i, la, lb) = Largest(a, b, i + 1, i + 1, la, lb) + 1
    BY <2>1, <2>2, LargestWithPair
  <2> QED BY <2>3 DEF i
<1>5. ASSUME NEW k \in Nat, k < end PROVE Between(k) = Between(k + 1) + 1
  <2> DEFINE i == start + 1
             p == la - k
             q == lb - k
  <2>1. /\ i \in Int /\ p \in Int /\ q \in Int /\ p - 1 \in Int /\ q - 1 \in Int /\ i <= p /\ i <= q
        /\ p - 1 = la - (k + 1) /\ q - 1 = lb - (k + 1)
        /\ end - k \in 1..end /\ la - end + (end - k) = p /\ lb - end + (end - k) = q
    BY <1>1, <1>5
  <2>2. a[la - end + (end - k)] = b[lb - end + (end - k)]
    BY <2>1 DEF la, lb
  <2>3. a[p] = b[q]
    BY <2>1, <2>2
  <2>4. Between(k) = Largest(a, b, i, i, p, q) /\ Between(k + 1) = Largest(a, b, i, i, p - 1, q - 1)
    BY <2>1
  <2> HIDE DEF i, p, q, Between
  <2>5. Largest(a, b, i, i, p, q) = Largest(a, b, i, i, p - 1, q - 1) + 1
    BY <2>1, <2>3, LargestWithPair
  <2> QED BY <2>4, <2>5
<1>6. whole \in Nat /\ After(start) \in Nat
  BY <1>2, <1>3
<1> HIDE DEF After, Between, whole
<1>7. early = {}
  <2>1. SUFFICES ASSUME early # {} PROVE FALSE
    OBVIOUS
  <2>2. PICK k \in early : \A l \in early : k <= l
    <3>1. early \in SUBSET Nat
      OBVIOUS
    <3> HIDE DEF early
    <3> QED BY <2>1, <3>1, HasLeast
  <2>3. k \in Nat /\ k <= start /\ whole # k + After(k)
    BY <2>2
  <2>4. k # 0
    BY <1>2, <1>3, <2>3
  <2>5. k - 1 \in Nat /\ k - 1 < start /\ (k - 1) + 1 = k /\ k - 1 < k /\ k - 1 <= start
    BY <2>3, <2>4
  <2>6. k - 1 \notin early
    <3> HIDE DEF early
    <3> QED BY <2>2, <2>3, <2>5
  <2>7. whole = (k - 1) + After(k - 1)
    BY <2>5, <2>6
  <2>8. After(k - 1) = After(k) + 1
    BY <1>4, <2>5
  <2>9. whole = k + After(k)
    <3>1. After(k) \in Nat /\ whole = (k - 1) + (After(k) + 1)
      BY <1>2, <2>3, <2>7, <2>8
    <3> QED BY <2>3, <3>1
  <2> QED BY <2>3, <2>9
<1>8. late = {}
  <2>1. SUFFICES ASSUME late # {} PROVE FALSE
    OBVIOUS
  <2>2. PICK k \in late : \A l \in late : k <= l
    <3>1. late \in SUBSET Nat
      OBVIOUS
    <3> HIDE DEF late
    <3> QED BY <2>1, <3>1, HasLeast
  <2>3. k \in Nat /\ k <= end /\ After(start) # k + Between(k)
    BY <2>2
  <2>4. k # 0
    BY <1>2, <1>3, <2>3
  <2>5. k - 1 \in Nat /\ k - 1 < end /\ (k - 1) + 1 = k /\ k - 1 < k /\ k - 1 <= end
    BY <2>3, <2>4
  <2>6. k - 1 \notin late
    <3> HIDE DEF late
    <3> QED BY <2>2, <2>3, <2>5
  <2>7. After(start) = (k - 1) + Between(k - 1)
    BY <2>5, <2>6
  <2>8. Between(k - 1) = Between(k) + 1
    BY <1>5, <2>5
  <2>9. After(start) = k + Between(k)
    <3>1. Between(k) \in Nat /\ After(start) = (k - 1) + (Between(k) + 1)
      BY <1>2, <2>3, <2>7, <2>8
    <3> QED BY <2>3, <3>1
  <2> QED BY <2>3, <2>9
<1>9. whole = start + After(start)
  BY <1>7
<1>10. After(start) = end + Between(end)
  BY <1>8
<1>11. whole = start + Between(end) + end
  BY <1>2, <1>9, <1>10
<1> QED BY <1>11 DEF whole, Between, la, lb

(***************************************************************************)
(* The longest subsequence two files share is as long as the most lines of *)
(* them that can be laid beside each other.                                *)
(***************************************************************************)
\* Places that pick the same text are laid beside each other, one by one.
LEMMA SharedIsMatching ==
  ASSUME NEW a \in Seq(Lines), NEW b \in Seq(Lines),
         NEW x \in SUBSET DOMAIN a, NEW y \in SUBSET DOMAIN b, At(a, x) = At(b, y)
  PROVE  \E M \in Matchings(a, b, 1, 1, Len(a), Len(b)) : Cardinality(M) = Cardinality(x)
<1> DEFINE c == Cardinality(x)
           F == InOrderOf(x)
           G == InOrderOf(y)
           M == {<<F[k], G[k]>> : k \in 1..c}
<1>1. DOMAIN a = 1..Len(a) /\ DOMAIN b = 1..Len(b) /\ Len(a) \in Nat /\ Len(b) \in Nat
  OBVIOUS
<1>2. x \in SUBSET Nat /\ y \in SUBSET Nat /\ IsFiniteSet(x) /\ IsFiniteSet(y)
  <2>1. IsFiniteSet(1..Len(a)) /\ IsFiniteSet(1..Len(b))
    BY <1>1, FS_Interval
  <2> QED BY <1>1, <2>1, FS_Subset
<1>3. /\ c \in Nat /\ F \in [1..c -> x]
      /\ \A k, l \in 1..c : k < l <=> F[k] < F[l]
  BY <1>2, InOrderOfAll
<1>4. /\ Cardinality(y) \in Nat /\ G \in [1..Cardinality(y) -> y]
      /\ \A k, l \in 1..Cardinality(y) : k < l <=> G[k] < G[l]
  BY <1>2, InOrderOfAll
<1> HIDE DEF c, F, G
<1>5. Cardinality(y) = c
  <2>1. DOMAIN At(a, x) = 1..c /\ DOMAIN At(b, y) = 1..Cardinality(y)
    BY DEF At, c
  <2>2. 1..c = 1..Cardinality(y)
    BY <2>1
  <2> QED BY <1>3, <1>4, <2>2
<1>6. ASSUME NEW k \in 1..c PROVE a[F[k]] = b[G[k]]
  <2>1. At(a, x)[k] = a[F[k]]
    BY DEF At, F, c
  <2>2. At(b, y)[k] = b[G[k]]
    BY <1>5 DEF At, G
  <2> QED BY <2>1, <2>2
<1>7. \A k \in 1..c : F[k] \in 1..Len(a) /\ G[k] \in 1..Len(b)
  BY <1>1, <1>3, <1>4, <1>5
<1>8. M \in SUBSET ((1..Len(a)) \X (1..Len(b)))
  BY <1>7
<1>9. \A m \in M : a[m[1]] = b[m[2]]
  BY <1>6
<1>10. ASSUME NEW m \in M, NEW n \in M PROVE m[1] < n[1] <=> m[2] < n[2]
  <2>1. PICK k \in 1..c : m = <<F[k], G[k]>>
    OBVIOUS
  <2>2. PICK l \in 1..c : n = <<F[l], G[l]>>
    OBVIOUS
  <2>3. k < l <=> F[k] < F[l]
    BY <1>3
  <2>4. k < l <=> G[k] < G[l]
    BY <1>4, <1>5
  <2>5. m[1] = F[k] /\ m[2] = G[k] /\ n[1] = F[l] /\ n[2] = G[l]
    BY <2>1, <2>2
  <2> QED BY <2>3, <2>4, <2>5
<1>11. M \in Matchings(a, b, 1, 1, Len(a), Len(b))
  BY <1>8, <1>9, <1>10 DEF Matchings
<1>12. Cardinality(M) = c
  <2> DEFINE h == [k \in 1..c |-> <<F[k], G[k]>>]
  <2>1. h \in [1..c -> M]
    OBVIOUS
  <2>2. ASSUME NEW k \in 1..c, NEW l \in 1..c, h[k] = h[l] PROVE k = l
    <3>1. F[k] = F[l]
      BY <2>2
    <3>2. (k < l <=> F[k] < F[l]) /\ (l < k <=> F[l] < F[k]) /\ F[k] \in Nat /\ F[l] \in Nat
      BY <1>2, <1>3
    <3>3. ~(k < l) /\ ~(l < k)
      BY <3>1, <3>2
    <3> QED BY <1>3, <3>3
  <2>3. h \in Injection(1..c, M)
    BY <2>1, <2>2 DEF Injection, IsInjective
  <2>4. h \in Surjection(1..c, M)
    <3>1. \A m \in M : \E k \in 1..c : h[k] = m
      OBVIOUS
    <3> QED BY <2>1, <3>1 DEF Surjection
  <2>5. ExistsBijection(1..c, M)
    BY <2>3, <2>4 DEF Bijection, ExistsBijection
  <2> HIDE DEF M
  <2> QED BY <1>3, <2>5, FS_CountingElements
<1> QED BY <1>11, <1>12 DEF c

\* And what is laid beside each other are places that pick the same text.
LEMMA MatchingIsShared ==
  ASSUME NEW a \in Seq(Lines), NEW b \in Seq(Lines), NEW M \in Matchings(a, b, 1, 1, Len(a), Len(b))
  PROVE  \E x \in SUBSET DOMAIN a : \E y \in SUBSET DOMAIN b : At(a, x) = At(b, y) /\ Cardinality(x) = Cardinality(M)
<1> DEFINE x == {m[1] : m \in M}
           y == {m[2] : m \in M}
           c == Cardinality(x)
           F == InOrderOf(x)
           Beside(k) == CHOOSE m \in M : m[1] = F[k]
           G == [k \in 1..c |-> Beside(k)[2]]
<1>1. DOMAIN a = 1..Len(a) /\ DOMAIN b = 1..Len(b) /\ Len(a) \in Nat /\ Len(b) \in Nat
  OBVIOUS
<1>2. M \in SUBSET ((1..Len(a)) \X (1..Len(b))) /\ IsFiniteSet(M)
  <2>1. 1 \in Int /\ Len(a) \in Int /\ Len(b) \in Int
    BY <1>1
  <2>2. IsFiniteSet(M)
    BY <2>1, MatchingsAreFinite
  <2> QED BY <2>2 DEF Matchings
<1>3. \A m \in M : m[1] \in 1..Len(a) /\ m[2] \in 1..Len(b) /\ m = <<m[1], m[2]>>
  BY <1>2
<1>4. x \in SUBSET DOMAIN a /\ y \in SUBSET DOMAIN b /\ x \in SUBSET Nat /\ y \in SUBSET Nat
  BY <1>1, <1>3
<1>5. \A m, n \in M : /\ m[1] \in Nat /\ m[2] \in Nat /\ n[1] \in Nat /\ n[2] \in Nat
                      /\ m[1] < n[1] <=> m[2] < n[2]
                      /\ a[m[1]] = b[m[2]]
  BY <1>3 DEF Matchings
<1>6. \A m, n \in M : m[1] = n[1] => m = n
  <2> TAKE m, n \in M
  <2>1. m[1] = n[1] => ~(m[2] < n[2]) /\ ~(n[2] < m[2])
    BY <1>5
  <2>2. m[1] = n[1] => m[2] = n[2]
    BY <1>5, <2>1
  <2> QED BY <1>3, <2>2
<1>7. Cardinality(M) = c /\ IsFiniteSet(x)
  <2> DEFINE h == [m \in M |-> m[1]]
  <2>1. h \in Injection(M, x)
    BY <1>6 DEF Injection, IsInjective
  <2>2. h \in Surjection(M, x)
    <3>1. \A n \in x : \E m \in M : h[m] = n
      OBVIOUS
    <3> QED BY <3>1 DEF Surjection
  <2>3. ExistsBijection(M, x)
    BY <2>1, <2>2 DEF Bijection, ExistsBijection
  <2> HIDE DEF x
  <2> QED BY <1>2, <2>3, FS_Bijection DEF c
<1>8. /\ c \in Nat /\ F \in [1..c -> x]
      /\ \A n \in x : \E k \in 1..c : F[k] = n
      /\ \A k, l \in 1..c : k < l <=> F[k] < F[l]
  <2> HIDE DEF x
  <2> QED BY <1>4, <1>7, InOrderOfAll
<1> HIDE DEF F, c
<1>9. ASSUME NEW k \in 1..c PROVE Beside(k) \in M /\ Beside(k)[1] = F[k]
  <2>1. \E m \in M : m[1] = F[k]
    <3>1. F[k] \in x
      <4> HIDE DEF x
      <4> QED BY <1>8
    <3> QED BY <3>1
  <2> QED BY <2>1
<1> HIDE DEF Beside
<1>10. G \in [1..c -> y]
  BY <1>9
<1>11. \A n \in y : \E k \in 1..c : G[k] = n
  <2> TAKE n \in y
  <2>1. PICK m \in M : n = m[2]
    OBVIOUS
  <2>2. PICK k \in 1..c : F[k] = m[1]
    BY <1>8
  <2>3. Beside(k) = m
    BY <1>6, <1>9, <2>2
  <2> QED BY <2>1, <2>3
<1>12. \A k, l \in 1..c : k < l => G[k] < G[l]
  <2> TAKE k, l \in 1..c
  <2>1. Beside(k)[1] < Beside(l)[1] <=> Beside(k)[2] < Beside(l)[2]
    BY <1>5, <1>9
  <2>2. k < l <=> F[k] < F[l]
    BY <1>8
  <2> QED BY <1>9, <2>1, <2>2
<1>13. \A k \in 1..c : a[F[k]] = b[G[k]]
  BY <1>5, <1>9
<1> HIDE DEF G
<1>14. Cardinality(y) = c /\ InOrderOf(y) = G
  <2> HIDE DEF y
  <2> QED BY <1>4, <1>8, <1>10, <1>11, <1>12, OrderIsUnique
<1>15. At(a, x) = At(b, y)
  <2>1. At(a, x) = [k \in 1..c |-> a[F[k]]]
    BY DEF At, F, c
  <2>2. At(b, y) = [k \in 1..c |-> b[G[k]]]
    BY <1>14 DEF At
  <2> QED BY <1>13, <2>1, <2>2
<1> QED BY <1>4, <1>7, <1>15 DEF c

\* The longest text both can be read to share is the largest matching of the two.
LEMMA LongestIsLargest ==
  ASSUME NEW a \in Seq(Lines), NEW b \in Seq(Lines)
  PROVE  LongestShared(a, b) = Largest(a, b, 1, 1, Len(a), Len(b))
<1> DEFINE places == {x \in SUBSET DOMAIN a : \E y \in SUBSET DOMAIN b : At(a, x) = At(b, y)}
           sizes == {Cardinality(x) : x \in places}
           largest == Largest(a, b, 1, 1, Len(a), Len(b))
<1>1. Len(a) \in Nat /\ Len(b) \in Nat
  OBVIOUS
<1>2. largest \in Nat /\ IsLargest(largest, a, b, 1, 1, Len(a), Len(b))
  BY <1>1, LargestExists
<1> HIDE DEF largest
<1>3. \A s \in sizes : s \in Nat /\ s <= largest
  <2> TAKE s \in sizes
  <2>1. PICK x \in SUBSET DOMAIN a : s = Cardinality(x) /\ \E y \in SUBSET DOMAIN b : At(a, x) = At(b, y)
    OBVIOUS
  <2>2. PICK M \in Matchings(a, b, 1, 1, Len(a), Len(b)) : Cardinality(M) = s
    BY <2>1, SharedIsMatching
  <2>3. Cardinality(M) \in Nat
    <3>1. 1 \in Int /\ Len(a) \in Int /\ Len(b) \in Int
      BY <1>1
    <3> QED BY <3>1, MatchingsAreFinite
  <2> QED BY <1>2, <2>2, <2>3 DEF IsLargest
<1>4. largest \in sizes
  <2>1. PICK M \in Matchings(a, b, 1, 1, Len(a), Len(b)) : Cardinality(M) = largest
    BY <1>2 DEF IsLargest
  <2>2. PICK x \in SUBSET DOMAIN a : \E y \in SUBSET DOMAIN b : At(a, x) = At(b, y) /\ Cardinality(x) = largest
    BY <2>1, MatchingIsShared
  <2> QED BY <2>2
<1>5. LongestShared(a, b) = Max(sizes)
  BY DEF LongestShared
<1> HIDE DEF sizes
<1>6. Max(sizes) \in sizes /\ \A s \in sizes : s <= Max(sizes)
  <2>1. sizes \in SUBSET Nat
    BY <1>3
  <2> QED BY <1>2, <1>3, <1>4, <2>1, HasGreatest
<1>7. Max(sizes) <= largest /\ largest <= Max(sizes) /\ Max(sizes) \in Nat
  BY <1>3, <1>4, <1>6
<1> QED BY <1>2, <1>5, <1>7 DEF largest

(***************************************************************************)
(* How the lines of a comparison are read as one of the versions: by a     *)
(* place for each of its lines, in order, leaving out what is of the kind  *)
(* "left" and nothing else.                                                *)
(***************************************************************************)
ReadsBy(f, lines, left, text) ==
  /\ f \in [1..Len(text) -> 1..Len(lines)]
  /\ \A k, l \in 1..Len(text) : k < l => f[k] < f[l]
  /\ \A k \in 1..Len(text) : lines[f[k]].kind # left /\ lines[f[k]].text = text[k]
  /\ \A i \in 1..Len(lines) : lines[i].kind # left => \E k \in 1..Len(text) : f[k] = i

Reads(lines, left, text) == \E f : ReadsBy(f, lines, left, text)

\* What the lines of one side are read as is the text of that side.
LEMMA ReadsIsTexts ==
  ASSUME NEW lines \in Seq(DiffedLines), NEW left, NEW text \in Seq(Lines), Reads(lines, left, text)
  PROVE  TextsOf(lines, left) = text
<1>1. PICK f : ReadsBy(f, lines, left, text)
  BY DEF Reads
<1> DEFINE kept == {i \in DOMAIN lines : lines[i].kind # left}
           c == Len(text)
           texts == [i \in DOMAIN lines |-> lines[i].text]
<1>2. c \in Nat /\ DOMAIN lines = 1..Len(lines) /\ Len(lines) \in Nat
  OBVIOUS
<1>3. f \in [1..c -> kept] /\ kept \in SUBSET Nat
  BY <1>1, <1>2 DEF ReadsBy
<1>4. \A n \in kept : \E k \in 1..c : f[k] = n
  BY <1>1, <1>2 DEF ReadsBy
<1>5. \A k, l \in 1..c : k < l => f[k] < f[l]
  BY <1>1 DEF ReadsBy
<1>6. \A k \in 1..c : texts[f[k]] = text[k]
  BY <1>1, <1>2 DEF ReadsBy
<1>7. text = [k \in 1..c |-> text[k]]
  BY LenProperties
<1> HIDE DEF kept, texts
<1>8. Cardinality(kept) = c /\ InOrderOf(kept) = f
  <2> HIDE DEF c
  <2> QED BY <1>2, <1>3, <1>4, <1>5, OrderIsUnique
<1>9. At(texts, kept) = [k \in 1..c |-> texts[f[k]]]
  BY <1>8 DEF At
<1>10. TextsOf(lines, left) = At(texts, kept)
  BY DEF TextsOf, texts, kept
<1> HIDE DEF c
<1> QED BY <1>6, <1>7, <1>9, <1>10

\* Lines of which none is left out.
LEMMA ReadsAll ==
  ASSUME NEW lines \in Seq(DiffedLines), NEW left, NEW text \in Seq(Lines), Len(lines) = Len(text),
         \A i \in 1..Len(lines) : lines[i].kind # left /\ lines[i].text = text[i]
  PROVE  Reads(lines, left, text)
<1> DEFINE f == [k \in 1..Len(text) |-> k]
<1>1. ReadsBy(f, lines, left, text)
  BY DEF ReadsBy
<1> QED BY <1>1 DEF Reads

\* And of which all are.
LEMMA ReadsNothing ==
  ASSUME NEW lines \in Seq(DiffedLines), NEW left, \A i \in 1..Len(lines) : lines[i].kind = left
  PROVE  Reads(lines, left, <<>>)
<1> DEFINE f == [k \in 1..0 |-> k]
<1>1. Len(<<>>) = 0 /\ 1..0 = {}
  OBVIOUS
<1>2. ReadsBy(f, lines, left, <<>>)
  BY <1>1 DEF ReadsBy
<1> QED BY <1>2 DEF Reads

\* One after the other.
LEMMA ReadsOneAfterOther ==
  ASSUME NEW left, NEW lines1 \in Seq(DiffedLines), NEW lines2 \in Seq(DiffedLines),
         NEW text1 \in Seq(Lines), NEW text2 \in Seq(Lines),
         Reads(lines1, left, text1), Reads(lines2, left, text2)
  PROVE  Reads(lines1 \o lines2, left, text1 \o text2)
<1>1. PICK f : ReadsBy(f, lines1, left, text1)
  BY DEF Reads
<1>2. PICK g : ReadsBy(g, lines2, left, text2)
  BY DEF Reads
<1> DEFINE n1 == Len(lines1)
           n2 == Len(lines2)
           c1 == Len(text1)
           c2 == Len(text2)
           lines == lines1 \o lines2
           text == text1 \o text2
           h == [k \in 1..(c1 + c2) |-> IF k <= c1 THEN f[k] ELSE n1 + g[k - c1]]
<1>3. n1 \in Nat /\ n2 \in Nat /\ c1 \in Nat /\ c2 \in Nat
  OBVIOUS
<1>4. Len(lines) = n1 + n2 /\ \A i \in 1..(n1 + n2) : lines[i] = IF i <= n1 THEN lines1[i] ELSE lines2[i - n1]
  BY ConcatProperties
<1>5. Len(text) = c1 + c2 /\ \A i \in 1..(c1 + c2) : text[i] = IF i <= c1 THEN text1[i] ELSE text2[i - c1]
  BY ConcatProperties
<1>6. /\ f \in [1..c1 -> 1..n1]
      /\ \A k, l \in 1..c1 : k < l => f[k] < f[l]
      /\ \A k \in 1..c1 : lines1[f[k]].kind # left /\ lines1[f[k]].text = text1[k]
      /\ \A i \in 1..n1 : lines1[i].kind # left => \E k \in 1..c1 : f[k] = i
  BY <1>1 DEF ReadsBy
<1>7. /\ g \in [1..c2 -> 1..n2]
      /\ \A k, l \in 1..c2 : k < l => g[k] < g[l]
      /\ \A k \in 1..c2 : lines2[g[k]].kind # left /\ lines2[g[k]].text = text2[k]
      /\ \A i \in 1..n2 : lines2[i].kind # left => \E k \in 1..c2 : g[k] = i
  BY <1>2 DEF ReadsBy
<1> HIDE DEF n1, n2, c1, c2, lines, text
<1>8. ASSUME NEW k \in 1..(c1 + c2)
      PROVE  /\ h[k] \in 1..(n1 + n2)
             /\ lines[h[k]].kind # left /\ lines[h[k]].text = text[k]
  <2>1. CASE k <= c1
    <3>1. k \in 1..c1 /\ h[k] = f[k] /\ f[k] \in 1..n1
      BY <1>3, <1>6, <2>1
    <3> HIDE DEF h
    <3>2. h[k] \in 1..(n1 + n2) /\ h[k] <= n1 /\ f[k] \in 1..(n1 + n2)
      BY <1>3, <3>1
    <3>3. lines[h[k]] = lines1[f[k]]
      BY <1>4, <3>1, <3>2
    <3>4. text[k] = text1[k]
      BY <1>5, <2>1
    <3> QED BY <1>6, <3>1, <3>2, <3>3, <3>4
  <2>2. CASE k > c1
    <3> DEFINE l == k - c1
    <3>1. l \in 1..c2 /\ h[k] = n1 + g[l] /\ ~(k <= c1)
      BY <1>3, <2>2
    <3> HIDE DEF h, l
    <3>2. g[l] \in 1..n2
      BY <1>7, <3>1
    <3>3. h[k] \in 1..(n1 + n2) /\ ~(h[k] <= n1) /\ h[k] - n1 = g[l]
      BY <1>3, <3>1, <3>2
    <3>4. lines[h[k]] = lines2[g[l]]
      BY <1>4, <3>3
    <3>5. text[k] = text2[l]
      BY <1>5, <3>1 DEF l
    <3> QED BY <1>7, <3>1, <3>3, <3>4, <3>5
  <2> QED BY <1>3, <2>1, <2>2
<1>9. ASSUME NEW k \in 1..(c1 + c2), NEW l \in 1..(c1 + c2), k < l PROVE h[k] < h[l]
  <2>1. CASE l <= c1
    <3>1. k \in 1..c1 /\ l \in 1..c1 /\ h[k] = f[k] /\ h[l] = f[l]
      BY <1>3, <1>9, <2>1
    <3> QED BY <1>6, <1>9, <3>1
  <2>2. CASE k <= c1 /\ l > c1
    <3>1. k \in 1..c1 /\ l - c1 \in 1..c2 /\ h[k] = f[k] /\ h[l] = n1 + g[l - c1]
      BY <1>3, <2>2
    <3>2. f[k] \in 1..n1 /\ g[l - c1] \in 1..n2
      BY <1>6, <1>7, <3>1
    <3> HIDE DEF h
    <3> QED BY <1>3, <3>1, <3>2
  <2>3. CASE k > c1
    <3> DEFINE p == k - c1
               q == l - c1
    <3>1. p \in 1..c2 /\ q \in 1..c2 /\ p < q /\ h[k] = n1 + g[p] /\ h[l] = n1 + g[q]
      BY <1>3, <1>9, <2>3
    <3> HIDE DEF h, p, q
    <3>2. g[p] \in 1..n2 /\ g[q] \in 1..n2 /\ g[p] < g[q]
      BY <1>7, <3>1
    <3> QED BY <1>3, <3>1, <3>2
  <2> QED BY <1>3, <2>1, <2>2, <2>3
<1>10. ASSUME NEW i \in 1..(n1 + n2), lines[i].kind # left PROVE \E k \in 1..(c1 + c2) : h[k] = i
  <2>1. CASE i <= n1
    <3>1. i \in 1..n1 /\ lines1[i].kind # left
      BY <1>3, <1>4, <1>10, <2>1
    <3>2. PICK k \in 1..c1 : f[k] = i
      BY <1>6, <3>1
    <3>3. k \in 1..(c1 + c2) /\ h[k] = f[k]
      BY <1>3
    <3> QED BY <3>2, <3>3
  <2>2. CASE i > n1
    <3>1. i - n1 \in 1..n2 /\ lines2[i - n1].kind # left
      BY <1>3, <1>4, <1>10, <2>2
    <3>2. PICK k \in 1..c2 : g[k] = i - n1
      BY <1>7, <3>1
    <3>3. k + c1 \in 1..(c1 + c2) /\ (k + c1) - c1 = k /\ ~(k + c1 <= c1)
      BY <1>3
    <3>4. h[k + c1] = n1 + g[k]
      BY <3>3
    <3>5. h[k + c1] = i
      BY <1>3, <3>2, <3>4
    <3> QED BY <3>3, <3>5
  <2> QED BY <1>3, <2>1, <2>2
<1>11. h \in [1..(c1 + c2) -> 1..(n1 + n2)]
  BY <1>8
<1> HIDE DEF h
<1>12. ReadsBy(h, lines, left, text)
  BY <1>4, <1>5, <1>8, <1>9, <1>10, <1>11 DEF ReadsBy
<1> QED BY <1>12 DEF Reads, lines, text

(***************************************************************************)
(* How many lines of a kind there are.                                     *)
(***************************************************************************)
LEMMA CountIsNumber ==
  ASSUME NEW lines \in Seq(DiffedLines), NEW kind
  PROVE  /\ IsFiniteSet({i \in 1..Len(lines) : lines[i].kind = kind})
         /\ CountKind(lines, kind) = Cardinality({i \in 1..Len(lines) : lines[i].kind = kind})
         /\ CountKind(lines, kind) \in Nat
<1>1. DOMAIN lines = 1..Len(lines) /\ Len(lines) \in Nat
  OBVIOUS
<1>2. IsFiniteSet({i \in 1..Len(lines) : lines[i].kind = kind})
  <2>1. {i \in 1..Len(lines) : lines[i].kind = kind} \in SUBSET (1..Len(lines))
    OBVIOUS
  <2>2. IsFiniteSet(1..Len(lines))
    BY <1>1, FS_Interval
  <2> QED BY <2>1, <2>2, FS_Subset
<1>3. CountKind(lines, kind) = Cardinality({i \in 1..Len(lines) : lines[i].kind = kind})
  BY <1>1 DEF CountKind
<1> QED BY <1>2, <1>3, FS_CardinalityType

\* All lines of one kind are counted.
LEMMA CountOfAll ==
  ASSUME NEW lines \in Seq(DiffedLines), NEW kind, \A i \in 1..Len(lines) : lines[i].kind = kind
  PROVE  CountKind(lines, kind) = Len(lines)
<1>1. {i \in 1..Len(lines) : lines[i].kind = kind} = 1..Len(lines) /\ Len(lines) \in Nat
  OBVIOUS
<1>2. Cardinality(1..Len(lines)) = Len(lines)
  <2> DEFINE n == Len(lines)
  <2>1. n \in Nat /\ 1 \in Int /\ n \in Int
    BY <1>1
  <2> HIDE DEF n
  <2>2. Cardinality(1..n) = IF 1 > n THEN 0 ELSE n - 1 + 1
    BY <2>1, FS_Interval
  <2>3. Cardinality(1..n) = n
    BY <2>1, <2>2
  <2> QED BY <2>3 DEF n
<1> QED BY <1>1, <1>2, CountIsNumber

\* None is counted when none has the kind.
LEMMA CountOfNone ==
  ASSUME NEW lines \in Seq(DiffedLines), NEW kind
  PROVE  CountKind(lines, kind) = 0 <=> \A i \in 1..Len(lines) : lines[i].kind # kind
<1>1. CountKind(lines, kind) = 0 <=> {i \in 1..Len(lines) : lines[i].kind = kind} = {}
  BY CountIsNumber, FS_EmptySet
<1> QED BY <1>1

\* Lines put one after another are counted together.
LEMMA CountOneAfterOther ==
  ASSUME NEW lines1 \in Seq(DiffedLines), NEW lines2 \in Seq(DiffedLines), NEW kind
  PROVE  CountKind(lines1 \o lines2, kind) = CountKind(lines1, kind) + CountKind(lines2, kind)
<1> DEFINE n1 == Len(lines1)
           n2 == Len(lines2)
           lines == lines1 \o lines2
           A == {i \in 1..n1 : lines1[i].kind = kind}
           B == {i \in 1..n2 : lines2[i].kind = kind}
           C == {i \in 1..(n1 + n2) : lines[i].kind = kind}
           B2 == C \ A
<1>1. n1 \in Nat /\ n2 \in Nat
  OBVIOUS
<1>2. /\ lines \in Seq(DiffedLines)
      /\ Len(lines) = n1 + n2 /\ \A i \in 1..(n1 + n2) : lines[i] = IF i <= n1 THEN lines1[i] ELSE lines2[i - n1]
  BY ConcatProperties
<1>3. IsFiniteSet(A) /\ CountKind(lines1, kind) = Cardinality(A) /\ Cardinality(A) \in Nat
  BY CountIsNumber
<1>4. IsFiniteSet(B) /\ CountKind(lines2, kind) = Cardinality(B) /\ Cardinality(B) \in Nat
  BY CountIsNumber
<1>5. IsFiniteSet(C) /\ CountKind(lines, kind) = Cardinality(C) /\ Cardinality(C) \in Nat
  <2>1. C = {i \in 1..Len(lines) : lines[i].kind = kind}
    BY <1>2
  <2> HIDE DEF C, lines
  <2>2. lines \in Seq(DiffedLines)
    BY <1>2
  <2>3. /\ IsFiniteSet({i \in 1..Len(lines) : lines[i].kind = kind})
        /\ CountKind(lines, kind) = Cardinality({i \in 1..Len(lines) : lines[i].kind = kind})
        /\ CountKind(lines, kind) \in Nat
    BY <2>2, CountIsNumber, Zenon
  <2> QED BY <2>1, <2>3
<1> HIDE DEF n1, n2, lines
<1>6. \A i \in 1..(n1 + n2) : i \in A <=> i <= n1 /\ i \in C
  <2> TAKE i \in 1..(n1 + n2)
  <2>1. i <= n1 => lines[i] = lines1[i] /\ i \in 1..n1
    BY <1>1, <1>2
  <2>2. i \in A => i <= n1
    BY <1>1
  <2> QED BY <2>1, <2>2
<1>7. A \in SUBSET C
  <2>1. \A i \in A : i \in 1..(n1 + n2)
    BY <1>1
  <2> HIDE DEF A, C
  <2> QED BY <1>6, <2>1
<1>8. \A i \in 1..(n1 + n2) : i \in B2 <=> i > n1 /\ lines2[i - n1].kind = kind
  <2> TAKE i \in 1..(n1 + n2)
  <2>1. i > n1 => lines[i] = lines2[i - n1]
    BY <1>1, <1>2
  <2>2. i \in C <=> lines[i].kind = kind
    OBVIOUS
  <2> HIDE DEF A, C
  <2>3. i \in B2 <=> i \in C /\ ~(i <= n1)
    BY <1>6
  <2> QED BY <1>1, <2>1, <2>2, <2>3
<1>9. ExistsBijection(B, B2)
  <2> DEFINE h == [i \in B |-> n1 + i]
  <2>1. h \in [B -> B2]
    <3>1. ASSUME NEW i \in B PROVE n1 + i \in B2
      <4>1. i \in 1..n2 /\ lines2[i].kind = kind
        OBVIOUS
      <4>2. n1 + i \in 1..(n1 + n2) /\ n1 + i > n1 /\ (n1 + i) - n1 = i
        BY <1>1, <4>1
      <4> HIDE DEF B2
      <4> QED BY <1>8, <4>1, <4>2
    <3> HIDE DEF B2
    <3> QED BY <3>1
  <2>2. h \in Injection(B, B2)
    <3>1. \A i, j \in B : h[i] = h[j] => i = j
      BY <1>1
    <3> HIDE DEF h, B, B2
    <3> QED BY <2>1, <3>1 DEF Injection, IsInjective
  <2>3. ASSUME NEW j \in B2 PROVE \E i \in B : h[i] = j
    <3>1. j \in 1..(n1 + n2)
      OBVIOUS
    <3>2. j > n1 /\ lines2[j - n1].kind = kind
      <4> HIDE DEF B2
      <4> QED BY <1>8, <2>3, <3>1
    <3>3. j - n1 \in 1..n2 /\ n1 + (j - n1) = j
      BY <1>1, <3>1, <3>2
    <3>4. j - n1 \in B
      BY <3>2, <3>3
    <3>5. h[j - n1] = j
      BY <3>3, <3>4
    <3> QED BY <3>4, <3>5
  <2>4. h \in Surjection(B, B2)
    <3> HIDE DEF h, B, B2
    <3> QED BY <2>1, <2>3 DEF Surjection
  <2> HIDE DEF h, B, B2
  <2> QED BY <2>2, <2>4 DEF Bijection, ExistsBijection
<1>10. Cardinality(B2) = Cardinality(B)
  <2> HIDE DEF B, B2
  <2> QED BY <1>4, <1>9, FS_Bijection
<1>11. Cardinality(B2) = Cardinality(C) - Cardinality(A)
  <2> HIDE DEF A, C
  <2>1. C \cap A = A
    BY <1>7
  <2>2. Cardinality(C \ A) = Cardinality(C) - Cardinality(C \cap A)
    BY <1>5, FS_Difference
  <2> QED BY <2>1, <2>2
<1>12. Cardinality(C) = Cardinality(A) + Cardinality(B)
  BY <1>3, <1>4, <1>5, <1>10, <1>11
<1> QED BY <1>3, <1>4, <1>5, <1>12 DEF lines

(***************************************************************************)
(* The walk through the table (diffLines).                                 *)
(***************************************************************************)
\* What the walk makes of the places after one.
Walked(w, a, b, start, i, j) ==
  IF i <= Len(a) /\ j <= Len(b) /\ a[i] = b[j]
    THEN <<DiffLine("same", b[j], start + j)>> \o w[<<i + 1, j + 1>>]
  ELSE IF i <= Len(a) /\ (j > Len(b) \/ LengthTable(a, b)[<<i + 1, j>>] >= LengthTable(a, b)[<<i, j + 1>>])
    THEN <<DiffLine("removed", a[i], start + i)>> \o w[<<i + 1, j>>]
  ELSE IF j <= Len(b)
    THEN <<DiffLine("added", b[j], start + j)>> \o w[<<i, j + 1>>]
  ELSE <<>>

IsWalk(w, a, b, start) == w = [at \in Places(a, b) |-> Walked(w, a, b, start, at[1], at[2])]

\* A step of the walk gives diffed lines if those further on do.
LEMMA WalkedType ==
  ASSUME NEW a \in Seq(Lines), NEW b \in Seq(Lines), NEW start \in Nat,
         NEW w \in [Places(a, b) -> Seq(DiffedLines)],
         NEW i \in 1..(Len(a) + 1), NEW j \in 1..(Len(b) + 1)
  PROVE  Walked(w, a, b, start, i, j) \in Seq(DiffedLines)
<1>1. Len(a) \in Nat /\ Len(b) \in Nat
  OBVIOUS
<1>2. ASSUME i <= Len(a)
      PROVE  /\ i + 1 \in 1..(Len(a) + 1) /\ <<DiffLine("removed", a[i], start + i)>> \in Seq(DiffedLines)
             /\ w[<<i + 1, j>>] \in Seq(DiffedLines)
  <2>1. i + 1 \in 1..(Len(a) + 1) /\ a[i] \in Lines /\ start + i \in Nat
    BY <1>1, <1>2
  <2>2. DiffLine("removed", a[i], start + i) \in DiffedLines
    BY <2>1 DEF DiffLine, DiffedLines
  <2>3. <<i + 1, j>> \in Places(a, b)
    BY <2>1 DEF Places
  <2> QED BY <2>1, <2>2, <2>3
<1>3. ASSUME j <= Len(b)
      PROVE  /\ j + 1 \in 1..(Len(b) + 1)
             /\ <<DiffLine("added", b[j], start + j)>> \in Seq(DiffedLines)
             /\ <<DiffLine("same", b[j], start + j)>> \in Seq(DiffedLines)
             /\ w[<<i, j + 1>>] \in Seq(DiffedLines)
  <2>1. j + 1 \in 1..(Len(b) + 1) /\ b[j] \in Lines /\ start + j \in Nat
    BY <1>1, <1>3
  <2>2. DiffLine("added", b[j], start + j) \in DiffedLines /\ DiffLine("same", b[j], start + j) \in DiffedLines
    BY <2>1 DEF DiffLine, DiffedLines
  <2>3. <<i, j + 1>> \in Places(a, b)
    BY <2>1 DEF Places
  <2> QED BY <2>1, <2>2, <2>3
<1>4. CASE i <= Len(a) /\ j <= Len(b) /\ a[i] = b[j]
  <2>1. <<i + 1, j + 1>> \in Places(a, b)
    BY <1>2, <1>3, <1>4 DEF Places
  <2>2. w[<<i + 1, j + 1>>] \in Seq(DiffedLines)
    BY <2>1
  <2>3. Walked(w, a, b, start, i, j) = <<DiffLine("same", b[j], start + j)>> \o w[<<i + 1, j + 1>>]
    BY <1>4 DEF Walked
  <2> QED BY <1>3, <1>4, <2>2, <2>3, ConcatProperties
<1>5. CASE /\ ~(i <= Len(a) /\ j <= Len(b) /\ a[i] = b[j])
           /\ i <= Len(a) /\ (j > Len(b) \/ LengthTable(a, b)[<<i + 1, j>>] >= LengthTable(a, b)[<<i, j + 1>>])
  <2>1. Walked(w, a, b, start, i, j) = <<DiffLine("removed", a[i], start + i)>> \o w[<<i + 1, j>>]
    BY <1>5 DEF Walked
  <2> QED BY <1>2, <1>5, <2>1, ConcatProperties
<1>6. CASE /\ ~(i <= Len(a) /\ j <= Len(b) /\ a[i] = b[j])
           /\ ~(i <= Len(a) /\ (j > Len(b) \/ LengthTable(a, b)[<<i + 1, j>>] >= LengthTable(a, b)[<<i, j + 1>>]))
           /\ j <= Len(b)
  <2>1. Walked(w, a, b, start, i, j) = <<DiffLine("added", b[j], start + j)>> \o w[<<i, j + 1>>]
    BY <1>6 DEF Walked
  <2> QED BY <1>3, <1>6, <2>1, ConcatProperties
<1>7. CASE /\ ~(i <= Len(a) /\ j <= Len(b) /\ a[i] = b[j])
           /\ ~(i <= Len(a) /\ (j > Len(b) \/ LengthTable(a, b)[<<i + 1, j>>] >= LengthTable(a, b)[<<i, j + 1>>]))
           /\ ~(j <= Len(b))
  <2>1. Walked(w, a, b, start, i, j) = <<>>
    BY <1>7 DEF Walked
  <2> QED BY <2>1
<1> QED BY <1>4, <1>5, <1>6, <1>7

\* The walk is what its equation says.
LEMMA WalksIsWalk ==
  ASSUME NEW a \in Seq(Lines), NEW b \in Seq(Lines), NEW start \in Nat
  PROVE  IsWalk(Walks(a, b, start), a, b, start)
<1> DEFINE D == Places(a, b)
           V == Seq(DiffedLines)
           rank == [at \in D |-> (Len(a) + 1 - at[1]) + (Len(b) + 1 - at[2])]
           G == [at \in D |-> [w \in [D -> V] |-> Walked(w, a, b, start, at[1], at[2])]]
           f0 == [at \in D |-> <<>>]
           top == Len(a) + Len(b) + 1
<1>1. Len(a) \in Nat /\ Len(b) \in Nat /\ top \in Nat
  OBVIOUS
<1>2. \A at \in D : at[1] \in 1..(Len(a) + 1) /\ at[2] \in 1..(Len(b) + 1) /\ at = <<at[1], at[2]>>
  BY DEF Places
<1>3. rank \in [D -> Nat] /\ \A at \in D : rank[at] < top
  BY <1>1, <1>2, SMTT(30)
<1>4. G \in [D -> [[D -> V] -> V]]
  <2>1. \A at \in D : \A w \in [D -> V] : Walked(w, a, b, start, at[1], at[2]) \in V
    BY <1>2, WalkedType
  <2> HIDE DEF D, V
  <2> QED BY <2>1
<1>5. f0 \in [D -> V]
  OBVIOUS
<1>6. ASSUME NEW at \in D, NEW f \in [D -> V], NEW g \in [D -> V],
             \A e \in D : rank[e] < rank[at] => f[e] = g[e]
      PROVE  G[at][f] = G[at][g]
  <2> DEFINE i == at[1]
             j == at[2]
  <2>1. i \in 1..(Len(a) + 1) /\ j \in 1..(Len(b) + 1)
    BY <1>2
  <2>2. ASSUME NEW k \in 1..(Len(a) + 1), NEW l \in 1..(Len(b) + 1), k >= i, l >= j, k > i \/ l > j
        PROVE  f[<<k, l>>] = g[<<k, l>>]
    <3>1. <<k, l>> \in D
      BY DEF Places
    <3>2. rank[<<k, l>>] = (Len(a) + 1 - k) + (Len(b) + 1 - l) /\ rank[at] = (Len(a) + 1 - i) + (Len(b) + 1 - j)
      BY <3>1
    <3>3. rank[<<k, l>>] < rank[at]
      <4> HIDE DEF rank, i, j
      <4> QED BY <1>1, <2>1, <2>2, <3>2
    <3> HIDE DEF rank, D
    <3> QED BY <1>6, <3>1, <3>3
  <2> HIDE DEF i, j
  <2>3. Walked(f, a, b, start, i, j) = Walked(g, a, b, start, i, j)
    <3>1. i <= Len(a) => i + 1 \in 1..(Len(a) + 1) /\ i + 1 > i /\ i + 1 >= i
      BY <1>1, <2>1
    <3>2. j <= Len(b) => j + 1 \in 1..(Len(b) + 1) /\ j + 1 > j /\ j + 1 >= j
      BY <1>1, <2>1
    <3>3. i >= i /\ j >= j
      BY <2>1
    <3>4. i <= Len(a) /\ j <= Len(b) => f[<<i + 1, j + 1>>] = g[<<i + 1, j + 1>>]
      BY <2>2, <3>1, <3>2
    <3>5. i <= Len(a) => f[<<i + 1, j>>] = g[<<i + 1, j>>]
      BY <2>1, <2>2, <3>1, <3>3
    <3>6. j <= Len(b) => f[<<i, j + 1>>] = g[<<i, j + 1>>]
      BY <2>1, <2>2, <3>2, <3>3
    <3> QED BY <3>4, <3>5, <3>6 DEF Walked
  <2>4. G[at][f] = Walked(f, a, b, start, i, j) /\ G[at][g] = Walked(g, a, b, start, i, j)
    BY DEF i, j
  <2> HIDE DEF G
  <2> QED BY <2>3, <2>4
<1>7. PICK f \in [D -> V] : \A at \in D : f[at] = G[at][f]
  <2> HIDE DEF D, V, rank, G, f0, top
  <2>1. \A at \in D : \A f, g \in [D -> V] :
          (\A e \in D : rank[e] < rank[at] => f[e] = g[e]) => G[at][f] = G[at][g]
    BY <1>6
  <2>2. rank \in [D -> Nat] /\ (\A at \in D : rank[at] < top) /\ top \in Nat
    BY <1>1, <1>3
  <2>3. IsRecursion(D, V, rank, G, f0, top)
    BY <1>4, <1>5, <2>1, <2>2 DEF IsRecursion
  <2> QED BY <2>3, RecursionIsSound
<1>8. \A at \in D : f[at] = Walked(f, a, b, start, at[1], at[2])
  BY <1>7
<1>9. IsWalk(f, a, b, start)
  <2>1. f = [at \in D |-> f[at]]
    OBVIOUS
  <2> QED BY <1>8, <2>1 DEF IsWalk
<1>10. Walks(a, b, start) = CHOOSE w : IsWalk(w, a, b, start)
  BY DEF Walks, IsWalk, Walked
<1> QED BY <1>9, <1>10

(***************************************************************************)
(* What lines of a comparison say of the two files they are of: how they   *)
(* are read, and that they are numbered as on the side they are on.        *)
(***************************************************************************)
Numbered(lines, a, b) ==
  \A i \in 1..Len(lines) :
    /\ lines[i].kind = "removed" => lines[i].number \in 1..Len(a) /\ a[lines[i].number] = lines[i].text
    /\ lines[i].kind # "removed" => lines[i].number \in 1..Len(b) /\ b[lines[i].number] = lines[i].text

SaysBoth(lines, left, right, a, b) ==
  /\ lines \in Seq(DiffedLines)
  /\ Reads(lines, "added", left) /\ Reads(lines, "removed", right)
  /\ Numbered(lines, a, b)

\* Lines that say how two stretches read, put one after another, say how the stretches read that are put one after another.
LEMMA TellsOneAfterOther ==
  ASSUME NEW a, NEW b, NEW lines1, NEW lines2,
         NEW left1 \in Seq(Lines), NEW left2 \in Seq(Lines),
         NEW right1 \in Seq(Lines), NEW right2 \in Seq(Lines),
         SaysBoth(lines1, left1, right1, a, b), SaysBoth(lines2, left2, right2, a, b)
  PROVE  SaysBoth(lines1 \o lines2, left1 \o left2, right1 \o right2, a, b)
<1>1. lines1 \in Seq(DiffedLines) /\ lines2 \in Seq(DiffedLines)
  BY DEF SaysBoth
<1>2. Reads(lines1 \o lines2, "added", left1 \o left2)
  BY <1>1, ReadsOneAfterOther DEF SaysBoth
<1>3. Reads(lines1 \o lines2, "removed", right1 \o right2)
  BY <1>1, ReadsOneAfterOther DEF SaysBoth
<1>4. Numbered(lines1 \o lines2, a, b)
  <2> DEFINE lines == lines1 \o lines2
  <2>1. Len(lines1) \in Nat /\ Len(lines2) \in Nat
    BY <1>1
  <2>2. Len(lines) = Len(lines1) + Len(lines2)
        /\ \A i \in 1..(Len(lines1) + Len(lines2)) :
             lines[i] = IF i <= Len(lines1) THEN lines1[i] ELSE lines2[i - Len(lines1)]
    BY <1>1, ConcatProperties
  <2> HIDE DEF lines
  <2>3. ASSUME NEW i \in 1..Len(lines)
        PROVE  \/ \E k \in 1..Len(lines1) : lines[i] = lines1[k]
               \/ \E k \in 1..Len(lines2) : lines[i] = lines2[k]
    <3>1. CASE i <= Len(lines1)
      BY <2>1, <2>2, <3>1
    <3>2. CASE i > Len(lines1)
      <4>1. i - Len(lines1) \in 1..Len(lines2) /\ lines[i] = lines2[i - Len(lines1)]
        BY <2>1, <2>2, <3>2
      <4> QED BY <4>1
    <3> QED BY <2>1, <3>1, <3>2
  <2>4. Numbered(lines1, a, b) /\ Numbered(lines2, a, b)
    BY DEF SaysBoth
  <2>5. Numbered(lines, a, b)
    <3> SUFFICES ASSUME NEW i \in 1..Len(lines)
                 PROVE  /\ lines[i].kind = "removed" => lines[i].number \in 1..Len(a) /\ a[lines[i].number] = lines[i].text
                        /\ lines[i].kind # "removed" => lines[i].number \in 1..Len(b) /\ b[lines[i].number] = lines[i].text
      BY DEF Numbered
    <3>1. CASE \E k \in 1..Len(lines1) : lines[i] = lines1[k]
      BY <2>4, <3>1 DEF Numbered
    <3>2. CASE \E k \in 1..Len(lines2) : lines[i] = lines2[k]
      BY <2>4, <3>2 DEF Numbered
    <3> QED BY <2>3, <3>1, <3>2
  <2> QED BY <2>5 DEF lines
<1>5. lines1 \o lines2 \in Seq(DiffedLines)
  BY <1>1, ConcatProperties
<1> QED BY <1>2, <1>3, <1>4, <1>5 DEF SaysBoth

\* One line of a kind.
LEMMA OneLine ==
  ASSUME NEW kind \in {"same", "added", "removed"}, NEW text \in Lines, NEW number \in Nat
  PROVE  LET line == <<DiffLine(kind, text, number)>>
         IN /\ line \in Seq(DiffedLines) /\ Len(line) = 1
            /\ \A i \in 1..Len(line) : line[i] = DiffLine(kind, text, number)
            /\ DiffLine(kind, text, number).kind = kind
            /\ DiffLine(kind, text, number).text = text
            /\ DiffLine(kind, text, number).number = number
<1>1. DiffLine(kind, text, number) \in DiffedLines
  BY DEF DiffLine, DiffedLines
<1>2. /\ DiffLine(kind, text, number).kind = kind
      /\ DiffLine(kind, text, number).text = text
      /\ DiffLine(kind, text, number).number = number
  BY DEF DiffLine
<1> QED BY <1>1, <1>2

\* What a single line says of both sides.
LEMMA OneLineTells ==
  ASSUME NEW kind \in {"same", "added", "removed"}, NEW text \in Lines, NEW number \in Nat,
         NEW a \in Seq(Lines), NEW b \in Seq(Lines),
         kind = "removed" => number \in 1..Len(a) /\ a[number] = text,
         kind # "removed" => number \in 1..Len(b) /\ b[number] = text
  PROVE  LET line == <<DiffLine(kind, text, number)>>
         IN /\ SaysBoth(line, IF kind = "added" THEN <<>> ELSE <<text>>, IF kind = "removed" THEN <<>> ELSE <<text>>, a, b)
            /\ CountKind(line, "same") = IF kind = "same" THEN 1 ELSE 0
<1> DEFINE line == <<DiffLine(kind, text, number)>>
           none == <<>>
           one == <<text>>
<1>1. /\ line \in Seq(DiffedLines) /\ Len(line) = 1
      /\ \A i \in 1..Len(line) : line[i].kind = kind /\ line[i].text = text /\ line[i].number = number
  <2>1. line \in Seq(DiffedLines) /\ Len(line) = 1 /\ \A i \in 1..Len(line) : line[i] = DiffLine(kind, text, number)
    BY OneLine
  <2>2. /\ DiffLine(kind, text, number).kind = kind
        /\ DiffLine(kind, text, number).text = text
        /\ DiffLine(kind, text, number).number = number
    BY DEF DiffLine
  <2> HIDE DEF line
  <2> QED BY <2>1, <2>2
<1>2. one \in Seq(Lines) /\ Len(one) = 1 /\ \A i \in 1..1 : one[i] = text
  OBVIOUS
<1> HIDE DEF line
<1>3. ASSUME NEW left, left # kind PROVE Reads(line, left, one)
  <2> HIDE DEF one
  <2> QED BY <1>1, <1>2, <1>3, ReadsAll
<1>4. Reads(line, kind, none)
  BY <1>1, ReadsNothing
<1>5. Numbered(line, a, b)
  BY <1>1 DEF Numbered
<1>6. CountKind(line, "same") = IF kind = "same" THEN 1 ELSE 0
  <2>1. CASE kind = "same"
    BY <1>1, <2>1, CountOfAll
  <2>2. CASE kind # "same"
    BY <1>1, <2>2, CountOfNone
  <2> QED BY <2>1, <2>2
<1>7. Reads(line, "added", IF kind = "added" THEN none ELSE one)
  BY <1>3, <1>4
<1>8. Reads(line, "removed", IF kind = "removed" THEN none ELSE one)
  BY <1>3, <1>4
<1>9. SaysBoth(line, IF kind = "added" THEN none ELSE one, IF kind = "removed" THEN none ELSE one, a, b)
  BY <1>1, <1>5, <1>7, <1>8 DEF SaysBoth
<1> QED BY <1>6, <1>9 DEF line

(***************************************************************************)
(* What the walk finds from a place on is what is left of the two.         *)
(***************************************************************************)
WalkSays(w, x, y, a, b, i, j) ==
  /\ SaysBoth(w[<<i, j>>], SubSeq(x, i, Len(x)), SubSeq(y, j, Len(y)), a, b)
  /\ CountKind(w[<<i, j>>], "same") = LengthTable(x, y)[<<i, j>>]

\* One line more.
LEMMA WalkSaysOneMore ==
  ASSUME NEW kind \in {"same", "added", "removed"}, NEW text \in Lines, NEW number \in Nat,
         NEW a \in Seq(Lines), NEW b \in Seq(Lines),
         kind = "removed" => number \in 1..Len(a) /\ a[number] = text,
         kind # "removed" => number \in 1..Len(b) /\ b[number] = text,
         NEW left \in Seq(Lines), NEW right \in Seq(Lines), NEW lines, SaysBoth(lines, left, right, a, b)
  PROVE  LET more == <<DiffLine(kind, text, number)>> \o lines
         IN /\ SaysBoth(more, IF kind = "added" THEN left ELSE <<text>> \o left,
                           IF kind = "removed" THEN right ELSE <<text>> \o right, a, b)
            /\ CountKind(more, "same") = CountKind(lines, "same") + IF kind = "same" THEN 1 ELSE 0
<1> DEFINE line == <<DiffLine(kind, text, number)>>
           none == <<>>
           one == <<text>>
           l == IF kind = "added" THEN none ELSE one
           r == IF kind = "removed" THEN none ELSE one
<1>1. SaysBoth(line, l, r, a, b) /\ CountKind(line, "same") = IF kind = "same" THEN 1 ELSE 0
  BY OneLineTells
<1>2. l \in Seq(Lines) /\ r \in Seq(Lines)
  OBVIOUS
<1>3. none \o left = left /\ none \o right = right
  BY ConcatEmptySeq
<1>6. line \in Seq(DiffedLines) /\ lines \in Seq(DiffedLines)
  BY <1>1 DEF SaysBoth
<1>5. CountKind(line \o lines, "same") = CountKind(line, "same") + CountKind(lines, "same")
  BY <1>6, CountOneAfterOther
<1>7. CountKind(line, "same") \in Nat /\ CountKind(lines, "same") \in Nat
  BY <1>6, CountIsNumber
<1> HIDE DEF line, none, one
<1>8. l \o left = (IF kind = "added" THEN left ELSE one \o left)
      /\ r \o right = (IF kind = "removed" THEN right ELSE one \o right)
  BY <1>3
<1> HIDE DEF l, r
<1>4. SaysBoth(line \o lines, l \o left, r \o right, a, b)
  BY <1>1, <1>2, TellsOneAfterOther
<1>9. CountKind(line \o lines, "same") = CountKind(lines, "same") + IF kind = "same" THEN 1 ELSE 0
  BY <1>1, <1>5, <1>7
<1>10. SaysBoth(line \o lines, IF kind = "added" THEN left ELSE one \o left,
                            IF kind = "removed" THEN right ELSE one \o right, a, b)
  BY <1>4, <1>8
<1> QED BY <1>9, <1>10 DEF line, one

\* A shared line put in front.
LEMMA OneMoreSame ==
  ASSUME NEW text \in Lines, NEW number \in Nat, NEW a \in Seq(Lines), NEW b \in Seq(Lines),
         number \in 1..Len(b), b[number] = text,
         NEW left \in Seq(Lines), NEW right \in Seq(Lines), NEW lines, SaysBoth(lines, left, right, a, b)
  PROVE  /\ SaysBoth(<<DiffLine("same", text, number)>> \o lines, <<text>> \o left, <<text>> \o right, a, b)
         /\ CountKind(<<DiffLine("same", text, number)>> \o lines, "same") = CountKind(lines, "same") + 1
<1> DEFINE kind == "same"
           more == <<DiffLine(kind, text, number)>> \o lines
<1>1. /\ kind \in {"same", "added", "removed"}
      /\ kind = "removed" => number \in 1..Len(a) /\ a[number] = text
      /\ kind # "removed" => number \in 1..Len(b) /\ b[number] = text
      /\ kind = "same" /\ kind # "added" /\ kind # "removed"
  OBVIOUS
<1>2. CountKind(lines, "same") \in Nat
  BY CountIsNumber DEF SaysBoth
<1> HIDE DEF kind
<1>3. /\ SaysBoth(more, IF kind = "added" THEN left ELSE <<text>> \o left,
                     IF kind = "removed" THEN right ELSE <<text>> \o right, a, b)
      /\ CountKind(more, "same") = CountKind(lines, "same") + IF kind = "same" THEN 1 ELSE 0
  BY <1>1, WalkSaysOneMore
<1> HIDE DEF more
<1>4. SaysBoth(more, <<text>> \o left, <<text>> \o right, a, b) /\ CountKind(more, "same") = CountKind(lines, "same") + 1
  BY <1>1, <1>2, <1>3
<1> QED BY <1>4 DEF more, kind

\* A removed line put in front.
LEMMA OneMoreRemoved ==
  ASSUME NEW text \in Lines, NEW number \in Nat, NEW a \in Seq(Lines), NEW b \in Seq(Lines),
         number \in 1..Len(a), a[number] = text,
         NEW left \in Seq(Lines), NEW right \in Seq(Lines), NEW lines, SaysBoth(lines, left, right, a, b)
  PROVE  /\ SaysBoth(<<DiffLine("removed", text, number)>> \o lines, <<text>> \o left, right, a, b)
         /\ CountKind(<<DiffLine("removed", text, number)>> \o lines, "same") = CountKind(lines, "same")
<1> DEFINE kind == "removed"
           more == <<DiffLine(kind, text, number)>> \o lines
<1>1. /\ kind \in {"same", "added", "removed"}
      /\ kind = "removed" => number \in 1..Len(a) /\ a[number] = text
      /\ kind # "removed" => number \in 1..Len(b) /\ b[number] = text
      /\ kind # "same" /\ kind # "added" /\ kind = "removed"
  OBVIOUS
<1>2. CountKind(lines, "same") \in Nat
  BY CountIsNumber DEF SaysBoth
<1> HIDE DEF kind
<1>3. /\ SaysBoth(more, IF kind = "added" THEN left ELSE <<text>> \o left,
                     IF kind = "removed" THEN right ELSE <<text>> \o right, a, b)
      /\ CountKind(more, "same") = CountKind(lines, "same") + IF kind = "same" THEN 1 ELSE 0
  BY <1>1, WalkSaysOneMore
<1> HIDE DEF more
<1>4. SaysBoth(more, <<text>> \o left, right, a, b) /\ CountKind(more, "same") = CountKind(lines, "same")
  BY <1>1, <1>2, <1>3
<1> QED BY <1>4 DEF more, kind

\* An added line put in front.
LEMMA OneMoreAdded ==
  ASSUME NEW text \in Lines, NEW number \in Nat, NEW a \in Seq(Lines), NEW b \in Seq(Lines),
         number \in 1..Len(b), b[number] = text,
         NEW left \in Seq(Lines), NEW right \in Seq(Lines), NEW lines, SaysBoth(lines, left, right, a, b)
  PROVE  /\ SaysBoth(<<DiffLine("added", text, number)>> \o lines, left, <<text>> \o right, a, b)
         /\ CountKind(<<DiffLine("added", text, number)>> \o lines, "same") = CountKind(lines, "same")
<1> DEFINE kind == "added"
           more == <<DiffLine(kind, text, number)>> \o lines
<1>1. /\ kind \in {"same", "added", "removed"}
      /\ kind = "removed" => number \in 1..Len(a) /\ a[number] = text
      /\ kind # "removed" => number \in 1..Len(b) /\ b[number] = text
      /\ kind # "same" /\ kind = "added" /\ kind # "removed"
  OBVIOUS
<1>2. CountKind(lines, "same") \in Nat
  BY CountIsNumber DEF SaysBoth
<1> HIDE DEF kind
<1>3. /\ SaysBoth(more, IF kind = "added" THEN left ELSE <<text>> \o left,
                     IF kind = "removed" THEN right ELSE <<text>> \o right, a, b)
      /\ CountKind(more, "same") = CountKind(lines, "same") + IF kind = "same" THEN 1 ELSE 0
  BY <1>1, WalkSaysOneMore
<1> HIDE DEF more
<1>4. SaysBoth(more, left, <<text>> \o right, a, b) /\ CountKind(more, "same") = CountKind(lines, "same")
  BY <1>1, <1>2, <1>3
<1> QED BY <1>4 DEF more, kind

\* What the walk says at one place.
LEMMA WalkIsOf ==
  ASSUME NEW x \in Seq(Lines), NEW y \in Seq(Lines), NEW start \in Nat, NEW w, IsWalk(w, x, y, start),
         NEW i \in 1..(Len(x) + 1), NEW j \in 1..(Len(y) + 1)
  PROVE  w[<<i, j>>] = Walked(w, x, y, start, i, j)
<1>1. <<i, j>> \in Places(x, y)
  BY DEF Places
<1> QED BY <1>1 DEF IsWalk

\* What is left of a file from a line on.
LEMMA RestOf ==
  ASSUME NEW x \in Seq(Lines), NEW i \in 1..(Len(x) + 1)
  PROVE  /\ SubSeq(x, i, Len(x)) \in Seq(Lines)
         /\ i <= Len(x) => /\ x[i] \in Lines /\ SubSeq(x, i + 1, Len(x)) \in Seq(Lines)
                           /\ SubSeq(x, i, Len(x)) = <<x[i]>> \o SubSeq(x, i + 1, Len(x))
         /\ i > Len(x) => SubSeq(x, i, Len(x)) = <<>>
<1>1. Len(x) \in Nat /\ Len(x) \in Int /\ i \in Int /\ i + 1 \in Int
  OBVIOUS
<1>2. \A k \in i..Len(x) : x[k] \in Lines
  BY <1>1
<1>3. \A k \in (i + 1)..Len(x) : x[k] \in Lines
  BY <1>1
<1>4. SubSeq(x, i, Len(x)) \in Seq(Lines)
  BY <1>1, <1>2, SubSeqProperties
<1>5. SubSeq(x, i + 1, Len(x)) \in Seq(Lines)
  BY <1>1, <1>3, SubSeqProperties
<1>6. ASSUME i <= Len(x) PROVE SubSeq(x, i, Len(x)) = <<x[i]>> \o SubSeq(x, i + 1, Len(x)) /\ x[i] \in Lines
  <2>1. i \in 1..Len(x) /\ Len(x) \in i..Len(x)
    BY <1>1, <1>6
  <2> QED BY <2>1, SubSeqRecursiveFirst
<1>7. ASSUME i > Len(x) PROVE SubSeq(x, i, Len(x)) = <<>>
  BY <1>1, <1>7, SubSeqEmpty
<1> QED BY <1>4, <1>5, <1>6, <1>7

\* If the walk is right at every place further on, it is right here: one case for each way it can go.
LEMMA WalkSaysAt ==
  ASSUME NEW a \in Seq(Lines), NEW b \in Seq(Lines), NEW start \in Nat,
         NEW x \in Seq(Lines), NEW y \in Seq(Lines), NEW w,
         IsWalk(w, x, y, start), FillsTable(LengthTable(x, y), x, y),
         start + Len(x) <= Len(a), \A k \in 1..Len(x) : x[k] = a[start + k],
         start + Len(y) <= Len(b), \A k \in 1..Len(y) : y[k] = b[start + k],
         \A k \in 1..(Len(x) + 1), l \in 1..(Len(y) + 1) : LengthTable(x, y)[<<k, l>>] \in Nat,
         NEW i \in 1..(Len(x) + 1), NEW j \in 1..(Len(y) + 1),
         i <= Len(x) /\ j <= Len(y) => WalkSays(w, x, y, a, b, i + 1, j + 1),
         i <= Len(x) => WalkSays(w, x, y, a, b, i + 1, j),
         j <= Len(y) => WalkSays(w, x, y, a, b, i, j + 1)
  PROVE  WalkSays(w, x, y, a, b, i, j)
<1> DEFINE T == LengthTable(x, y)
           xi == SubSeq(x, i, Len(x))
           xi1 == SubSeq(x, i + 1, Len(x))
           yj == SubSeq(y, j, Len(y))
           yj1 == SubSeq(y, j + 1, Len(y))
<1>1. Len(x) \in Nat /\ Len(y) \in Nat /\ Len(a) \in Nat /\ Len(b) \in Nat
  OBVIOUS
<1>2. /\ xi \in Seq(Lines)
      /\ i <= Len(x) => x[i] \in Lines /\ xi1 \in Seq(Lines) /\ xi = <<x[i]>> \o xi1
      /\ i > Len(x) => xi = <<>>
  BY RestOf
<1>3. /\ yj \in Seq(Lines)
      /\ j <= Len(y) => y[j] \in Lines /\ yj1 \in Seq(Lines) /\ yj = <<y[j]>> \o yj1
      /\ j > Len(y) => yj = <<>>
  BY RestOf
<1>4. w[<<i, j>>] = Walked(w, x, y, start, i, j)
  BY WalkIsOf
<1>5. T[<<i, j>>] = Filled(T, x, y, i, j)
  BY FillsTableAt
<1>6. ASSUME i <= Len(x)
      PROVE  start + i \in Nat /\ start + i \in 1..Len(a) /\ a[start + i] = x[i]
             /\ i + 1 \in 1..(Len(x) + 1) /\ T[<<i + 1, j>>] \in Nat
  <2>1. i \in 1..Len(x) /\ start + i \in Nat /\ start + i \in 1..Len(a) /\ i + 1 \in 1..(Len(x) + 1)
    BY <1>1, <1>6
  <2>2. a[start + i] = x[i]
    BY <2>1
  <2>3. T[<<i + 1, j>>] \in Nat
    BY <2>1
  <2> QED BY <2>1, <2>2, <2>3
<1>7. ASSUME j <= Len(y)
      PROVE  start + j \in Nat /\ start + j \in 1..Len(b) /\ b[start + j] = y[j]
             /\ j + 1 \in 1..(Len(y) + 1) /\ T[<<i, j + 1>>] \in Nat
  <2>1. j \in 1..Len(y) /\ start + j \in Nat /\ start + j \in 1..Len(b) /\ j + 1 \in 1..(Len(y) + 1)
    BY <1>1, <1>7
  <2>2. b[start + j] = y[j]
    BY <2>1
  <2>3. T[<<i, j + 1>>] \in Nat
    BY <2>1
  <2> QED BY <2>1, <2>2, <2>3
<1> HIDE DEF T, xi, xi1, yj, yj1
<1>8. CASE i <= Len(x) /\ j <= Len(y) /\ x[i] = y[j]
  <2> DEFINE lines == w[<<i + 1, j + 1>>]
  <2>1. SaysBoth(lines, xi1, yj1, a, b) /\ CountKind(lines, "same") = T[<<i + 1, j + 1>>]
    BY <1>8 DEF WalkSays, xi1, yj1, T
  <2>2. w[<<i, j>>] = <<DiffLine("same", y[j], start + j)>> \o lines
    BY <1>4, <1>8 DEF Walked
  <2>3. T[<<i, j>>] = T[<<i + 1, j + 1>>] + 1
    BY <1>1, <1>5, <1>8, SMTT(30) DEF Filled
  <2>4. xi = <<y[j]>> \o xi1 /\ yj = <<y[j]>> \o yj1 /\ y[j] \in Lines
        /\ xi1 \in Seq(Lines) /\ yj1 \in Seq(Lines)
    BY <1>2, <1>3, <1>8
  <2> HIDE DEF lines
  <2>5. SaysBoth(w[<<i, j>>], <<y[j]>> \o xi1, <<y[j]>> \o yj1, a, b) /\ CountKind(w[<<i, j>>], "same") = CountKind(lines, "same") + 1
    <3> DEFINE t == y[j]
               n == start + j
    <3>1. t \in Lines /\ n \in Nat /\ n \in 1..Len(b) /\ b[n] = t
      BY <1>7, <1>8, <2>4
    <3>2. w[<<i, j>>] = <<DiffLine("same", t, n)>> \o lines
      BY <2>2
    <3>3. xi1 \in Seq(Lines) /\ yj1 \in Seq(Lines)
      BY <1>8, <2>4
    <3> HIDE DEF t, n
    <3>4. SaysBoth(<<DiffLine("same", t, n)>> \o lines, <<t>> \o xi1, <<t>> \o yj1, a, b)
          /\ CountKind(<<DiffLine("same", t, n)>> \o lines, "same") = CountKind(lines, "same") + 1
      <4>1. SaysBoth(lines, xi1, yj1, a, b)
        BY <2>1
      <4> QED BY <3>1, <3>3, <4>1, OneMoreSame
    <3> QED BY <2>4, <3>2, <3>4 DEF t
  <2> QED BY <2>1, <2>2, <2>3, <2>4, <2>5 DEF WalkSays, xi, yj, T
<1>9. CASE /\ ~(i <= Len(x) /\ j <= Len(y) /\ x[i] = y[j])
           /\ i <= Len(x) /\ (j > Len(y) \/ T[<<i + 1, j>>] >= T[<<i, j + 1>>])
  <2> DEFINE lines == w[<<i + 1, j>>]
  <2>1. SaysBoth(lines, xi1, yj, a, b) /\ CountKind(lines, "same") = T[<<i + 1, j>>]
    BY <1>9 DEF WalkSays, xi1, yj, T
  <2>2. w[<<i, j>>] = <<DiffLine("removed", x[i], start + i)>> \o lines
    BY <1>4, <1>9 DEF Walked, T
  <2>3. T[<<i, j>>] = T[<<i + 1, j>>]
    <3>1. CASE j > Len(y)
      <4>1. T[<<i, j>>] = 0
        BY <1>5, <3>1 DEF Filled
      <4>2. T[<<i + 1, j>>] = Filled(T, x, y, i + 1, j)
        BY <1>6, <1>9, FillsTableAt, SMTT(30) DEF T
      <4> QED BY <3>1, <4>1, <4>2 DEF Filled
    <3>2. CASE j <= Len(y)
      <4>1. T[<<i, j>>] = Max({T[<<i + 1, j>>], T[<<i, j + 1>>]})
        BY <1>1, <1>5, <1>9, <3>2 DEF Filled
      <4>2. T[<<i + 1, j>>] \in Int /\ T[<<i, j + 1>>] \in Int
        BY <1>6, <1>7, <1>9, <3>2, SMTT(30)
      <4>3. T[<<i + 1, j>>] >= T[<<i, j + 1>>]
        BY <1>1, <1>9, <3>2
      <4> QED BY <4>1, <4>2, <4>3, GreatestOfTwo
    <3> QED BY <1>1, <3>1, <3>2
  <2>4. xi = <<x[i]>> \o xi1 /\ x[i] \in Lines /\ xi1 \in Seq(Lines)
    BY <1>2, <1>9
  <2> HIDE DEF lines
  <2>5. SaysBoth(w[<<i, j>>], <<x[i]>> \o xi1, yj, a, b) /\ CountKind(w[<<i, j>>], "same") = CountKind(lines, "same")
    <3> DEFINE t == x[i]
               n == start + i
    <3>1. t \in Lines /\ n \in Nat /\ n \in 1..Len(a) /\ a[n] = t
      BY <1>6, <1>9, <2>4
    <3>2. w[<<i, j>>] = <<DiffLine("removed", t, n)>> \o lines
      BY <2>2
    <3>3. xi1 \in Seq(Lines) /\ yj \in Seq(Lines)
      BY <1>3, <2>4
    <3> HIDE DEF t, n
    <3>4. SaysBoth(<<DiffLine("removed", t, n)>> \o lines, <<t>> \o xi1, yj, a, b)
          /\ CountKind(<<DiffLine("removed", t, n)>> \o lines, "same") = CountKind(lines, "same")
      BY <2>1, <2>4, <3>1, <3>3, OneMoreRemoved, SMTT(30)
    <3> QED BY <2>4, <3>2, <3>4 DEF t
  <2> QED BY <2>1, <2>2, <2>3, <2>4, <2>5 DEF WalkSays, xi, yj, T
<1>10. CASE /\ ~(i <= Len(x) /\ j <= Len(y) /\ x[i] = y[j])
            /\ ~(i <= Len(x) /\ (j > Len(y) \/ T[<<i + 1, j>>] >= T[<<i, j + 1>>]))
            /\ j <= Len(y)
  <2> DEFINE lines == w[<<i, j + 1>>]
  <2>1. SaysBoth(lines, xi, yj1, a, b) /\ CountKind(lines, "same") = T[<<i, j + 1>>]
    BY <1>10 DEF WalkSays, xi, yj1, T
  <2>2. w[<<i, j>>] = <<DiffLine("added", y[j], start + j)>> \o lines
    BY <1>4, <1>10 DEF Walked, T
  <2>3. T[<<i, j>>] = T[<<i, j + 1>>]
    <3>1. CASE i > Len(x)
      <4>1. T[<<i, j>>] = 0
        BY <1>5, <3>1 DEF Filled
      <4>2. T[<<i, j + 1>>] = Filled(T, x, y, i, j + 1)
        BY <1>7, <1>10, FillsTableAt, SMTT(30) DEF T
      <4> QED BY <3>1, <4>1, <4>2 DEF Filled
    <3>2. CASE i <= Len(x)
      <4>1. T[<<i, j>>] = Max({T[<<i + 1, j>>], T[<<i, j + 1>>]})
        BY <1>1, <1>5, <1>10, <3>2 DEF Filled
      <4>2. T[<<i + 1, j>>] \in Int /\ T[<<i, j + 1>>] \in Int
        <5>1. T[<<i + 1, j>>] \in Nat
          BY <1>6, <3>2
        <5>2. T[<<i, j + 1>>] \in Nat
          BY <1>7, <1>10, SMTT(30)
        <5> QED BY <5>1, <5>2
      <4>3. ~(T[<<i + 1, j>>] >= T[<<i, j + 1>>])
        BY <1>1, <1>10, <3>2
      <4> QED BY <4>1, <4>2, <4>3, GreatestOfTwo
    <3> QED BY <1>1, <3>1, <3>2
  <2>4. yj = <<y[j]>> \o yj1 /\ y[j] \in Lines /\ yj1 \in Seq(Lines)
    BY <1>3, <1>10
  <2> HIDE DEF lines
  <2>5. SaysBoth(w[<<i, j>>], xi, <<y[j]>> \o yj1, a, b) /\ CountKind(w[<<i, j>>], "same") = CountKind(lines, "same")
    <3> DEFINE t == y[j]
               n == start + j
    <3>1. t \in Lines /\ n \in Nat /\ n \in 1..Len(b) /\ b[n] = t
      BY <1>7, <1>10, <2>4
    <3>2. w[<<i, j>>] = <<DiffLine("added", t, n)>> \o lines
      BY <2>2
    <3>3. xi \in Seq(Lines) /\ yj1 \in Seq(Lines)
      BY <1>2, <2>4
    <3> HIDE DEF t, n
    <3>4. SaysBoth(<<DiffLine("added", t, n)>> \o lines, xi, <<t>> \o yj1, a, b)
          /\ CountKind(<<DiffLine("added", t, n)>> \o lines, "same") = CountKind(lines, "same")
      BY <2>1, <2>4, <3>1, <3>3, OneMoreAdded, SMTT(30)
    <3> QED BY <2>4, <3>2, <3>4 DEF t
  <2> QED BY <2>1, <2>2, <2>3, <2>4, <2>5 DEF WalkSays, xi, yj, T
<1>11. CASE i > Len(x) /\ j > Len(y)
  <2> DEFINE none == <<>>
  <2>1. w[<<i, j>>] = none
    BY <1>1, <1>4, <1>11 DEF Walked
  <2>2. xi = none /\ yj = none /\ T[<<i, j>>] = 0
    BY <1>2, <1>3, <1>5, <1>11 DEF Filled
  <2>3. none \in Seq(DiffedLines) /\ none \in Seq(Lines) /\ Len(none) = 0
    OBVIOUS
  <2>4. Reads(none, "added", none) /\ Reads(none, "removed", none)
    <3>1. \A i2 \in 1..Len(none) : none[i2].kind = "added" /\ none[i2].kind = "removed"
      BY <2>3
    <3> HIDE DEF none
    <3>2. Reads(none, "added", <<>>) /\ Reads(none, "removed", <<>>)
      BY <2>3, <3>1, ReadsNothing
    <3> QED BY <3>2 DEF none
  <2>5. Numbered(none, a, b)
    BY DEF Numbered
  <2>6. CountKind(none, "same") = 0
    <3> HIDE DEF none
    <3>1. \A k \in 1..Len(none) : none[k].kind # "same"
      BY <2>3
    <3> QED BY <2>3, <3>1, CountOfNone
  <2> HIDE DEF none
  <2>7. SaysBoth(none, none, none, a, b)
    BY <2>3, <2>4, <2>5 DEF SaysBoth
  <2> QED BY <2>1, <2>2, <2>6, <2>7 DEF WalkSays, xi, yj, T
<1>12. ~(i <= Len(x)) <=> i > Len(x)
  BY <1>1
<1>13. ~(j <= Len(y)) <=> j > Len(y)
  BY <1>1
<1> QED BY <1>8, <1>9, <1>10, <1>11, <1>12, <1>13

\* A place further on is closer to the end.
LEMMA LaterIsCloser ==
  ASSUME NEW m \in Nat, NEW n \in Nat, NEW i \in 1..m, NEW k \in 1..m, NEW j \in 1..n, NEW l \in 1..n,
         k >= i, l >= j, k > i \/ l > j
  PROVE  (m - k) + (n - l) \in Nat /\ (m - k) + (n - l) < (m - i) + (n - j)
OBVIOUS

\* The walk is right at every place: take the wrong one closest to the end.
LEMMA WalkTells ==
  ASSUME NEW a \in Seq(Lines), NEW b \in Seq(Lines), NEW start \in Nat,
         NEW x \in Seq(Lines), NEW y \in Seq(Lines), NEW w,
         IsWalk(w, x, y, start), FillsTable(LengthTable(x, y), x, y),
         start + Len(x) <= Len(a), \A k \in 1..Len(x) : x[k] = a[start + k],
         start + Len(y) <= Len(b), \A k \in 1..Len(y) : y[k] = b[start + k],
         \A k \in 1..(Len(x) + 1), l \in 1..(Len(y) + 1) : LengthTable(x, y)[<<k, l>>] \in Nat,
         NEW i0 \in 1..(Len(x) + 1), NEW j0 \in 1..(Len(y) + 1)
  PROVE  WalkSays(w, x, y, a, b, i0, j0)
<1> DEFINE bad == {v \in Nat : \E i \in 1..(Len(x) + 1), j \in 1..(Len(y) + 1) :
                                 v = (Len(x) + 1 - i) + (Len(y) + 1 - j) /\ ~WalkSays(w, x, y, a, b, i, j)}
<1>1. Len(x) \in Nat /\ Len(y) \in Nat
  OBVIOUS
<1>2. bad = {}
  <2>1. SUFFICES ASSUME bad # {} PROVE FALSE
    OBVIOUS
  <2>2. PICK v \in bad : \A u \in bad : v <= u
    <3>1. bad \in SUBSET Nat
      OBVIOUS
    <3> HIDE DEF bad
    <3> QED BY <2>1, <3>1, HasLeast
  <2>3. PICK i \in 1..(Len(x) + 1), j \in 1..(Len(y) + 1) :
          v = (Len(x) + 1 - i) + (Len(y) + 1 - j) /\ ~WalkSays(w, x, y, a, b, i, j)
    OBVIOUS
  <2>4. ASSUME NEW k \in 1..(Len(x) + 1), NEW l \in 1..(Len(y) + 1), k >= i, l >= j, k > i \/ l > j
        PROVE  WalkSays(w, x, y, a, b, k, l)
    <3> DEFINE u == (Len(x) + 1 - k) + (Len(y) + 1 - l)
    <3>1. u \in Nat /\ u < v
      <4>1. Len(x) + 1 \in Nat /\ Len(y) + 1 \in Nat
        BY <1>1, SMTT(30)
      <4> DEFINE m == Len(x) + 1
                 n == Len(y) + 1
      <4>2. i \in 1..m /\ k \in 1..m /\ j \in 1..n /\ l \in 1..n /\ k >= i /\ l >= j /\ (k > i \/ l > j)
        BY <2>4, <2>3
      <4> HIDE DEF m, n
      <4>3. (m - k) + (n - l) \in Nat /\ (m - k) + (n - l) < (m - i) + (n - j)
        <5>1. m \in Nat /\ n \in Nat
          BY <4>1 DEF m, n
        <5> QED BY <4>2, <5>1, LaterIsCloser
      <4>4. u = (m - k) + (n - l)
        BY DEF m, n
      <4> HIDE DEF u, bad
      <4>5. v = (m - i) + (n - j)
        BY <2>3 DEF m, n
      <4> QED BY <4>3, <4>4, <4>5
    <3>2. u \notin bad
      <4> HIDE DEF bad, u
      <4>1. v \in Nat
        BY DEF bad
      <4> QED BY <2>2, <3>1, <4>1
    <3> QED BY <3>1, <3>2
  <2> HIDE DEF bad
  <2>5. i <= Len(x) => i + 1 \in 1..(Len(x) + 1) /\ i + 1 > i /\ i + 1 >= i
    BY <1>1
  <2>6. j <= Len(y) => j + 1 \in 1..(Len(y) + 1) /\ j + 1 > j /\ j + 1 >= j
    BY <1>1
  <2>7. i >= i /\ j >= j
    BY <1>1
  <2>8. i <= Len(x) /\ j <= Len(y) => WalkSays(w, x, y, a, b, i + 1, j + 1)
    BY <2>4, <2>5, <2>6
  <2>9. i <= Len(x) => WalkSays(w, x, y, a, b, i + 1, j)
    BY <2>3, <2>4, <2>5, <2>7
  <2>10. j <= Len(y) => WalkSays(w, x, y, a, b, i, j + 1)
    BY <2>3, <2>4, <2>6, <2>7
  <2>11. WalkSays(w, x, y, a, b, i, j)
    BY <2>3, <2>8, <2>9, <2>10, WalkSaysAt
  <2> QED BY <2>3, <2>11
<1> DEFINE v == (Len(x) + 1 - i0) + (Len(y) + 1 - j0)
<1>3. v \in Nat
  BY <1>1
<1>4. v \notin bad
  BY <1>2
<1> QED BY <1>3, <1>4

\* Lines that are the same in both.
SameLines(t, o) == [k \in 1..Len(t) |-> DiffLine("same", t[k], o + k)]

\* The lines both sides share at an end say what both read there.
LEMMA SameTells ==
  ASSUME NEW a \in Seq(Lines), NEW b \in Seq(Lines), NEW o \in Nat, NEW t \in Seq(Lines), o + Len(t) <= Len(b),
         \A k \in 1..Len(t) : b[o + k] = t[k]
  PROVE  /\ SaysBoth(SameLines(t, o), t, t, a, b)
         /\ CountKind(SameLines(t, o), "same") = Len(t)
         /\ CountKind(SameLines(t, o), "added") = 0 /\ CountKind(SameLines(t, o), "removed") = 0
<1> DEFINE n == Len(t)
           lines == SameLines(t, o)
<1>1. n \in Nat /\ \A k \in 1..n : t[k] \in Lines /\ o + k \in Nat /\ o + k \in 1..Len(b)
  BY LenProperties
<1> HIDE DEF n
<1>2. \A k \in 1..n : DiffLine("same", t[k], o + k) \in DiffedLines
  BY <1>1 DEF DiffLine, DiffedLines
<1>3. lines \in [1..n -> DiffedLines]
  BY <1>2 DEF n, SameLines
<1>4. lines \in Seq(DiffedLines) /\ Len(lines) = n
  BY <1>1, <1>3
<1>5. \A k \in 1..n : lines[k].kind = "same" /\ lines[k].text = t[k] /\ lines[k].number = o + k
  BY DEF DiffLine, SameLines, n
<1> HIDE DEF lines
<1>6. ASSUME NEW left, left # "same" PROVE Reads(lines, left, t)
  <2>1. Len(lines) = Len(t)
    BY <1>4 DEF n
  <2>2. \A k \in 1..Len(lines) : lines[k].kind # left /\ lines[k].text = t[k]
    BY <1>4, <1>5, <1>6
  <2> QED BY <1>4, <2>1, <2>2, ReadsAll
<1>7. Reads(lines, "added", t) /\ Reads(lines, "removed", t)
  BY <1>6
<1>8. Numbered(lines, a, b)
  <2>1. \A k \in 1..n : b[o + k] = t[k]
    BY DEF n
  <2>2. \A k \in 1..Len(lines) : /\ lines[k].kind # "removed" /\ lines[k].number \in 1..Len(b)
                                 /\ b[lines[k].number] = lines[k].text
    <3> TAKE k \in 1..Len(lines)
    <3>1. k \in 1..n
      BY <1>4
    <3>2. lines[k].kind = "same" /\ lines[k].text = t[k] /\ lines[k].number = o + k
      BY <1>5, <3>1
    <3>3. o + k \in 1..Len(b) /\ b[o + k] = t[k]
      BY <1>1, <2>1, <3>1
    <3> QED BY <3>2, <3>3
  <2> QED BY <2>2 DEF Numbered
<1>9. CountKind(lines, "same") = n
  BY <1>4, <1>5, CountOfAll
<1>10. CountKind(lines, "added") = 0
  <2>1. \A k \in 1..Len(lines) : lines[k].kind # "added"
    BY <1>4, <1>5
  <2> QED BY <1>4, <2>1, CountOfNone
<1>11. CountKind(lines, "removed") = 0
  <2>1. \A k \in 1..Len(lines) : lines[k].kind # "removed"
    BY <1>4, <1>5
  <2> QED BY <1>4, <2>1, CountOfNone
<1> QED BY <1>4, <1>7, <1>8, <1>9, <1>10, <1>11 DEF SaysBoth, n, lines

\* A file is its start, its middle and its end.
LEMMA FileInThree ==
  ASSUME NEW s \in Seq(Lines), NEW start \in Nat, NEW end \in Nat, start + end <= Len(s)
  PROVE  LET first == SubSeq(s, 1, start)
             last == SubSeq(s, Len(s) - end + 1, Len(s))
         IN /\ first \in Seq(Lines) /\ Len(first) = start /\ \A k \in 1..start : first[k] = s[k]
            /\ last \in Seq(Lines) /\ Len(last) = end /\ \A k \in 1..end : last[k] = s[Len(s) - end + k]
            /\ (first \o Middle(s, start, end)) \o last = s
<1> DEFINE n == Len(s)
           m == n - end
           first == SubSeq(s, 1, start)
           last == SubSeq(s, m + 1, n)
<1>1. n \in Nat /\ m \in Nat /\ start <= m /\ m <= n /\ start <= n /\ \A k \in 1..n : s[k] \in Lines
  BY LenProperties
<1> HIDE DEF m
<1>2. first \in Seq(Lines) /\ Len(first) = start /\ \A k \in 1..start : first[k] = s[k]
  <2>1. \A k \in 1..start : s[k] \in Lines
    BY <1>1
  <2>2. 1 \in Int /\ start \in Int /\ start - 1 + 1 = start
    OBVIOUS
  <2>3. /\ first \in Seq(Lines) /\ Len(first) = IF 1 <= start THEN start - 1 + 1 ELSE 0
        /\ \A k \in 1..(start - 1 + 1) : first[k] = s[1 + k - 1]
    BY <2>1, <2>2, SubSeqProperties
  <2>4. \A k \in 1..start : 1 + k - 1 = k
    OBVIOUS
  <2> HIDE DEF first
  <2> QED BY <2>2, <2>3, <2>4
<1>3. last \in Seq(Lines) /\ Len(last) = end /\ \A k \in 1..end : last[k] = s[m + k]
  <2>1. \A k \in (m + 1)..n : s[k] \in Lines
    BY <1>1
  <2>2. m + 1 \in Int /\ n \in Int /\ n - (m + 1) + 1 = end
    BY <1>1 DEF m
  <2> HIDE DEF n
  <2>3. /\ last \in Seq(Lines) /\ Len(last) = IF m + 1 <= n THEN n - (m + 1) + 1 ELSE 0
        /\ \A k \in 1..(n - (m + 1) + 1) : last[k] = s[(m + 1) + k - 1]
    BY <2>1, <2>2, SubSeqProperties
  <2>4. \A k \in 1..end : (m + 1) + k - 1 = m + k
    BY <1>1
  <2>5. m + 1 <= n \/ end = 0
    BY <1>1, <2>2
  <2> HIDE DEF last
  <2> QED BY <2>2, <2>3, <2>4, <2>5
<1>4. first \o SubSeq(s, start + 1, m) = SubSeq(s, 1, m)
  <2>1. 1 \in 1..(Len(s) + 1) /\ start \in (1 - 1)..Len(s) /\ m \in start..Len(s)
    BY <1>1
  <2> QED BY <2>1, ConcatAdjacentSubSeq
<1>5. SubSeq(s, 1, m) \o last = SubSeq(s, 1, n)
  <2>1. 1 \in 1..(Len(s) + 1) /\ m \in (1 - 1)..Len(s) /\ n \in m..Len(s)
    BY <1>1
  <2> QED BY <2>1, ConcatAdjacentSubSeq
<1>6. SubSeq(s, 1, n) = s
  BY SubSeqFull
<1>7. Middle(s, start, end) = SubSeq(s, start + 1, m)
  BY DEF Middle, m
<1> QED BY <1>2, <1>3, <1>4, <1>5, <1>6, <1>7 DEF m

\* The lines said of two files.
DiffTells(a, b) ==
  \/ DiffLines(a, b) = NoLines /\ a # b
  \/ /\ SaysBoth(DiffLines(a, b), a, b, a, b)
     /\ CountKind(DiffLines(a, b), "same") = LongestShared(a, b)
     /\ a = b => CountKind(DiffLines(a, b), "added") = 0 /\ CountKind(DiffLines(a, b), "removed") = 0

\* Start, walk and end together say how both versions read, with as few changes as can be.
LEMMA DiffLinesTell ==
  ASSUME NEW a \in Seq(Lines), NEW b \in Seq(Lines)
  PROVE  DiffTells(a, b)
<1> DEFINE start == SharedStart(a, b)
           end == SharedEnd(a, b)
           x == Middle(a, start, end)
           y == Middle(b, start, end)
           firstA == SubSeq(a, 1, start)
           firstB == SubSeq(b, 1, start)
           lastA == SubSeq(a, Len(a) - end + 1, Len(a))
           lastB == SubSeq(b, Len(b) - end + 1, Len(b))
           w == Walks(x, y, start)
           P1 == [i \in 1..start |-> DiffLine("same", a[i], i)]
           P2 == w[<<1, 1>>]
           P3 == [k \in 1..end |-> DiffLine("same", b[Len(b) - end + k], Len(b) - end + k)]
<1>1. Len(a) \in Nat /\ Len(b) \in Nat
  OBVIOUS
<1>2. start \in Nat /\ (\A k \in 1..start : a[k] = b[k]) /\ (a = b => start = Len(a))
  BY SharedStartTells
<1>3. /\ end \in Nat /\ start + end <= Len(a) /\ start + end <= Len(b)
      /\ \A k \in 1..end : a[Len(a) - end + k] = b[Len(b) - end + k]
  BY SharedEndTells
<1> HIDE DEF start, end
<1>4. /\ firstA \in Seq(Lines) /\ Len(firstA) = start /\ \A k \in 1..start : firstA[k] = a[k]
      /\ lastA \in Seq(Lines) /\ Len(lastA) = end /\ \A k \in 1..end : lastA[k] = a[Len(a) - end + k]
      /\ (firstA \o x) \o lastA = a
  BY <1>2, <1>3, FileInThree
<1>5. /\ firstB \in Seq(Lines) /\ Len(firstB) = start /\ \A k \in 1..start : firstB[k] = b[k]
      /\ lastB \in Seq(Lines) /\ Len(lastB) = end /\ \A k \in 1..end : lastB[k] = b[Len(b) - end + k]
      /\ (firstB \o y) \o lastB = b
  BY <1>2, <1>3, FileInThree
<1>6. firstA = firstB
  <2> HIDE DEF firstA, firstB
  <2>1. \A k \in 1..Len(firstA) : firstA[k] = firstB[k]
    BY <1>2, <1>4, <1>5
  <2> QED BY <1>4, <1>5, <2>1, SeqEqual
<1>7. lastA = lastB
  <2> HIDE DEF lastA, lastB
  <2>1. \A k \in 1..Len(lastA) : lastA[k] = lastB[k]
    BY <1>3, <1>4, <1>5
  <2> QED BY <1>4, <1>5, <2>1, SeqEqual
<1>8. x \in Seq(Lines) /\ Len(x) = Len(a) - end - start /\ \A k \in 1..Len(x) : x[k] = a[start + k]
  BY <1>2, <1>3, MiddleTells
<1>9. y \in Seq(Lines) /\ Len(y) = Len(b) - end - start /\ \A k \in 1..Len(y) : y[k] = b[start + k]
  BY <1>2, <1>3, MiddleTells
<1>10. /\ FillsTable(LengthTable(x, y), x, y)
       /\ \A i \in 1..(Len(x) + 1), j \in 1..(Len(y) + 1) :
            /\ LengthTable(x, y)[<<i, j>>] \in Nat
            /\ LengthTable(x, y)[<<i, j>>] = Largest(a, b, start + i, start + j, Len(a) - end, Len(b) - end)
  BY <1>2, <1>3, TableIsLargest
<1>11. DiffLines(a, b) = IF Len(x) * Len(y) > Most THEN NoLines ELSE (P1 \o P2) \o P3
  BY DEF DiffLines, Walk, start, end
<1> HIDE DEF x, y
<1>12. IsWalk(w, x, y, start)
  BY <1>2, <1>8, <1>9, WalksIsWalk
<1> HIDE DEF w, firstA, firstB, lastA, lastB
<1>13. 1 \in 1..(Len(x) + 1) /\ 1 \in 1..(Len(y) + 1) /\ Len(x) \in Nat /\ Len(y) \in Nat
  BY <1>8, <1>9
<1>14. WalkSays(w, x, y, a, b, 1, 1)
  <2>1. start + Len(x) <= Len(a) /\ start + Len(y) <= Len(b)
    BY <1>1, <1>2, <1>3, <1>8, <1>9
  <2> QED BY <1>2, <1>8, <1>9, <1>10, <1>12, <1>13, <2>1, WalkTells
<1>15. SaysBoth(P2, x, y, a, b)
  <2>1. SubSeq(x, 1, Len(x)) = x /\ SubSeq(y, 1, Len(y)) = y
    BY <1>8, <1>9, SubSeqFull
  <2> QED BY <1>14, <2>1 DEF WalkSays
<1>16. CountKind(P2, "same") = Largest(a, b, start + 1, start + 1, Len(a) - end, Len(b) - end)
  BY <1>10, <1>13, <1>14 DEF WalkSays
<1>17. /\ SaysBoth(P1, firstA, firstB, a, b) /\ CountKind(P1, "same") = start
       /\ CountKind(P1, "added") = 0 /\ CountKind(P1, "removed") = 0
  <2> DEFINE o == 0
  <2>1. P1 = SameLines(firstA, o)
    <3>1. \A k \in 1..start : DiffLine("same", a[k], k) = DiffLine("same", firstA[k], o + k)
      BY <1>4
    <3> QED BY <1>4, <3>1 DEF SameLines
  <2>2. o \in Nat /\ o + Len(firstA) <= Len(b) /\ \A k \in 1..Len(firstA) : b[o + k] = firstA[k]
    BY <1>1, <1>2, <1>3, <1>4
  <2> HIDE DEF P1, o
  <2>3. SaysBoth(P1, firstA, firstA, a, b) /\ CountKind(P1, "same") = Len(firstA)
        /\ CountKind(P1, "added") = 0 /\ CountKind(P1, "removed") = 0
    <3>1. firstA \in Seq(Lines) /\ o \in Nat /\ o + Len(firstA) <= Len(b) /\ \A k \in 1..Len(firstA) : b[o + k] = firstA[k]
      BY <1>4, <2>2
    <3> HIDE DEF firstA
    <3>2. SaysBoth(SameLines(firstA, o), firstA, firstA, a, b)
      BY <3>1, SameTells
    <3>3. CountKind(SameLines(firstA, o), "same") = Len(firstA)
      BY <3>1, SameTells
    <3>4. CountKind(SameLines(firstA, o), "added") = 0 /\ CountKind(SameLines(firstA, o), "removed") = 0
      BY <3>1, SameTells
    <3> QED BY <2>1, <3>2, <3>3, <3>4
  <2> QED BY <1>4, <1>6, <2>3
<1>18. /\ SaysBoth(P3, lastA, lastB, a, b) /\ CountKind(P3, "same") = end
       /\ CountKind(P3, "added") = 0 /\ CountKind(P3, "removed") = 0
  <2> DEFINE o == Len(b) - end
  <2>1. o \in Nat /\ o + Len(lastB) <= Len(b)
    BY <1>1, <1>2, <1>3, <1>5
  <2>2. P3 = SameLines(lastB, o)
    BY <1>5 DEF SameLines
  <2>3. \A k \in 1..Len(lastB) : b[o + k] = lastB[k]
    BY <1>5
  <2> HIDE DEF P3, o
  <2>4. SaysBoth(P3, lastB, lastB, a, b) /\ CountKind(P3, "same") = Len(lastB)
        /\ CountKind(P3, "added") = 0 /\ CountKind(P3, "removed") = 0
    <3>1. lastB \in Seq(Lines) /\ o \in Nat /\ o + Len(lastB) <= Len(b) /\ \A k \in 1..Len(lastB) : b[o + k] = lastB[k]
      BY <1>5, <2>1, <2>3
    <3>2. SaysBoth(SameLines(lastB, o), lastB, lastB, a, b)
      BY <3>1, SameTells
    <3>3. CountKind(SameLines(lastB, o), "same") = Len(lastB)
      BY <3>1, SameTells
    <3>4. CountKind(SameLines(lastB, o), "added") = 0 /\ CountKind(SameLines(lastB, o), "removed") = 0
      BY <3>1, SameTells
    <3> QED BY <2>2, <3>2, <3>3, <3>4
  <2> QED BY <1>5, <1>7, <2>4
<1> HIDE DEF P1, P2, P3
<1>19. SaysBoth((P1 \o P2) \o P3, a, b, a, b)
  <2>1. SaysBoth(P1 \o P2, firstA \o x, firstB \o y, a, b)
    BY <1>4, <1>5, <1>8, <1>9, <1>15, <1>17, TellsOneAfterOther
  <2>2. firstA \o x \in Seq(Lines) /\ firstB \o y \in Seq(Lines)
    BY <1>4, <1>5, <1>8, <1>9, ConcatProperties
  <2>3. SaysBoth((P1 \o P2) \o P3, (firstA \o x) \o lastA, (firstB \o y) \o lastB, a, b)
    BY <1>4, <1>5, <1>18, <2>1, <2>2, TellsOneAfterOther
  <2> QED BY <1>4, <1>5, <2>3
<1>20. \A kind : /\ CountKind((P1 \o P2) \o P3, kind) = CountKind(P1, kind) + CountKind(P2, kind) + CountKind(P3, kind)
                 /\ CountKind(P1, kind) \in Nat /\ CountKind(P2, kind) \in Nat /\ CountKind(P3, kind) \in Nat
  <2> TAKE kind
  <2>1. P1 \in Seq(DiffedLines) /\ P2 \in Seq(DiffedLines) /\ P3 \in Seq(DiffedLines)
    BY <1>15, <1>17, <1>18 DEF SaysBoth
  <2>2. P1 \o P2 \in Seq(DiffedLines)
    BY <2>1, ConcatProperties
  <2>3. CountKind(P1 \o P2, kind) = CountKind(P1, kind) + CountKind(P2, kind)
    BY <2>1, CountOneAfterOther
  <2>4. CountKind((P1 \o P2) \o P3, kind) = CountKind(P1 \o P2, kind) + CountKind(P3, kind)
    BY <2>1, <2>2, CountOneAfterOther
  <2>5. CountKind(P1, kind) \in Nat /\ CountKind(P2, kind) \in Nat /\ CountKind(P3, kind) \in Nat
    BY <2>1, CountIsNumber
  <2> QED BY <2>3, <2>4, <2>5
<1>21. CountKind((P1 \o P2) \o P3, "same") = LongestShared(a, b)
  <2>1. LongestShared(a, b) = Largest(a, b, 1, 1, Len(a), Len(b))
    BY LongestIsLargest
  <2>2. Largest(a, b, 1, 1, Len(a), Len(b)) =
          start + Largest(a, b, start + 1, start + 1, Len(a) - end, Len(b) - end) + end
    BY <1>2, <1>3, EndsAreShared
  <2> QED BY <1>16, <1>17, <1>18, <1>20, <2>1, <2>2
<1>22. ASSUME a = b PROVE Len(x) = 0 /\ Len(y) = 0
  BY <1>1, <1>2, <1>3, <1>8, <1>9, <1>22
<1>23. ASSUME a = b PROVE /\ CountKind((P1 \o P2) \o P3, "added") = 0
                          /\ CountKind((P1 \o P2) \o P3, "removed") = 0
  <2>1. w[<<1, 1>>] = Walked(w, x, y, start, 1, 1)
    BY <1>2, <1>8, <1>9, <1>12, <1>13, WalkIsOf
  <2>2. P2 = <<>>
    BY <1>22, <1>23, <2>1 DEF Walked, P2
  <2>3. Len(P2) = 0 /\ P2 \in Seq(DiffedLines)
    BY <1>15, <2>2 DEF SaysBoth
  <2>4. \A kind : \A i \in 1..Len(P2) : P2[i].kind # kind
    BY <2>3
  <2>5. CountKind(P2, "added") = 0 /\ CountKind(P2, "removed") = 0
    BY <2>3, <2>4, CountOfNone
  <2> QED BY <1>17, <1>18, <1>20, <2>5
<1>24. CASE Len(x) * Len(y) > Most
  <2>1. a # b
    <3>1. SUFFICES ASSUME a = b PROVE FALSE
      OBVIOUS
    <3>2. Len(x) = 0 /\ Len(y) = 0
      BY <1>22, <3>1
    <3> QED BY <1>24, <3>2, DiffBounds
  <2> QED BY <1>11, <1>24, <2>1 DEF DiffTells
<1>25. CASE ~(Len(x) * Len(y) > Most)
  <2>1. DiffLines(a, b) = (P1 \o P2) \o P3
    BY <1>11, <1>25
  <2> QED BY <1>19, <1>21, <1>23, <2>1 DEF DiffTells
<1> QED BY <1>24, <1>25

\* The code of a file is a text of lines.
LEMMA CodeIsLines ==
  ASSUME NEW f \in Files
  PROVE  Split(f) \in Seq(Lines)
<1>1. \A n \in Nat : [1..n -> Lines] \in SUBSET Seq(Lines)
  OBVIOUS
<1>2. FileTexts \in SUBSET Seq(Lines)
  BY <1>1, DiffBounds DEF FileTexts
<1>3. CASE f = NoFile
  BY <1>3 DEF Split
<1>4. CASE f # NoFile
  <2>1. f.code \in FileTexts
    BY <1>4 DEF Files
  <2> QED BY <1>2, <1>4, <2>1 DEF Split
<1> QED BY <1>3, <1>4

\* A binary file has all of what another has exactly when it has its lines: neither
\* has a line that ends.
LEMMA BinaryIsItsLines ==
  ASSUME NEW f \in Files, NEW g \in Files, f # NoFile, g # NoFile, f.binary \/ g.binary
  PROVE  Text(f) = Text(g) <=> Split(f) = Split(g)
<1>1. \A h \in {f, g} : (h.binary => Len(h.code) < 2) /\ (Len(h.code) < 2 => h.endings = "LF")
  BY DEF Files
<1>2. ASSUME f.code = g.code PROVE f.endings = g.endings
  BY <1>1, <1>2
<1> QED BY <1>2 DEF Text, Split

\* Nothing added and nothing removed is no change at all, and the other way round.
LEMMA NothingChanged ==
  ASSUME NEW left \in Seq(Lines), NEW right \in Seq(Lines), DiffLines(left, right) # NoLines
  PROVE  /\ SaysBoth(DiffLines(left, right), left, right, left, right)
         /\ CountKind(DiffLines(left, right), "same") = LongestShared(left, right)
         /\ CountKind(DiffLines(left, right), "added") + CountKind(DiffLines(left, right), "removed") = 0 <=> left = right
<1> DEFINE lines == DiffLines(left, right)
<1>1. DiffTells(left, right)
  BY DiffLinesTell
<1>2. /\ SaysBoth(lines, left, right, left, right)
      /\ CountKind(lines, "same") = LongestShared(left, right)
      /\ left = right => CountKind(lines, "added") = 0 /\ CountKind(lines, "removed") = 0
  BY <1>1 DEF DiffTells
<1>3. lines \in Seq(DiffedLines)
  BY <1>2 DEF SaysBoth
<1> HIDE DEF lines
<1>4. CountKind(lines, "added") \in Nat /\ CountKind(lines, "removed") \in Nat
  BY <1>3, CountIsNumber
<1>5. ASSUME CountKind(lines, "added") = 0, CountKind(lines, "removed") = 0 PROVE left = right
  <2>1. (\A i \in 1..Len(lines) : lines[i].kind # "added") /\ (\A i \in 1..Len(lines) : lines[i].kind # "removed")
    BY <1>3, <1>5, CountOfNone
  <2>2. DOMAIN lines = 1..Len(lines)
    BY <1>3
  <2>3. TextsOf(lines, "added") = left /\ TextsOf(lines, "removed") = right
    BY <1>2, <1>3, ReadsIsTexts DEF SaysBoth
  <2>4. {i \in DOMAIN lines : lines[i].kind # "added"} = {i \in DOMAIN lines : lines[i].kind # "removed"}
    BY <2>1, <2>2
  <2>5. TextsOf(lines, "added") = TextsOf(lines, "removed")
    BY <2>4 DEF TextsOf
  <2> QED BY <2>3, <2>5
<1>6. CountKind(lines, "added") + CountKind(lines, "removed") = 0 <=> left = right
  BY <1>2, <1>4, <1>5
<1> QED BY <1>2, <1>6 DEF lines

\* The comparison of two files (compare).
LEMMA FileDiffTells ==
  ASSUME NEW f \in Files, NEW g \in Files
  PROVE  LET d == FileDiff(f, g)
         IN /\ f # NoFile /\ g # NoFile => (d.status = "same" <=> Split(f) = Split(g))
            /\ d.lines # NoLines => /\ d.lines = DiffLines(Split(f), Split(g))
                                    /\ d.hunks = Group(d.lines)
<1> DEFINE left == Split(f)
           right == Split(g)
           binary == \E h \in {f, g} : h # NoFile /\ h.binary
           lines == IF binary THEN NoLines ELSE DiffLines(left, right)
           added == IF binary THEN 0 ELSE IF lines = NoLines THEN Len(right) ELSE CountKind(lines, "added")
           removed == IF binary THEN 0 ELSE IF lines = NoLines THEN Len(left) ELSE CountKind(lines, "removed")
           unchanged == IF binary THEN Text(f) = Text(g) ELSE added + removed = 0
           d == FileDiff(f, g)
<1>1. left \in Seq(Lines) /\ right \in Seq(Lines)
  BY CodeIsLines
<1>2. d = [status |-> IF f = NoFile THEN "added" ELSE IF g = NoFile THEN "removed"
                      ELSE IF unchanged THEN "same" ELSE "changed",
           added |-> added, removed |-> removed, lines |-> lines,
           hunks |-> IF lines = NoLines THEN NoLines ELSE Group(lines)]
  BY DEF FileDiff, Split
<1> HIDE DEF left, right, binary, d
<1>3. f # NoFile /\ g # NoFile => (unchanged <=> left = right)
  <2> SUFFICES ASSUME f # NoFile, g # NoFile
               PROVE  unchanged <=> left = right
    OBVIOUS
  <2>1. CASE binary
    BY <2>1, BinaryIsItsLines DEF binary, left, right
  <2>2. CASE ~binary /\ lines = NoLines
    <3>1. DiffLines(left, right) = NoLines
      BY <2>2
    <3>2. left # right
      <4>1. DiffTells(left, right)
        BY <1>1, DiffLinesTell
      <4>2. ~SaysBoth(NoLines, left, right, left, right)
        BY LineDiffAssumption DEF SaysBoth
      <4> QED BY <3>1, <4>1, <4>2 DEF DiffTells
    <3>3. unchanged <=> Len(right) + Len(left) = 0
      BY <2>2
    <3>4. Len(right) + Len(left) # 0
      <4>1. Len(right) \in Nat /\ Len(left) \in Nat
        BY <1>1
      <4>2. SUFFICES ASSUME Len(right) = 0, Len(left) = 0 PROVE FALSE
        BY <4>1
      <4>3. left = right
        BY <1>1, <4>2, SeqEqual
      <4> QED BY <3>2, <4>3
    <3> QED BY <3>2, <3>3, <3>4
  <2>3. CASE ~binary /\ lines # NoLines
    <3>1. lines = DiffLines(left, right) /\ DiffLines(left, right) # NoLines
      BY <2>3
    <3>2. unchanged <=> CountKind(DiffLines(left, right), "added") + CountKind(DiffLines(left, right), "removed") = 0
      BY <2>3, <3>1
    <3> HIDE DEF unchanged
    <3> QED BY <1>1, <3>1, <3>2, NothingChanged
  <2> QED BY <2>1, <2>2, <2>3
<1>4. d.lines = lines /\ d.hunks = IF lines = NoLines THEN NoLines ELSE Group(lines)
  BY <1>2
<1>5. f # NoFile /\ g # NoFile => (d.status = "same" <=> unchanged)
  <2> HIDE DEF unchanged, lines, added, removed
  <2> QED BY <1>2
<1>6. lines # NoLines => lines = DiffLines(left, right)
  OBVIOUS
<1> HIDE DEF lines, unchanged
<1> QED BY <1>3, <1>4, <1>5, <1>6 DEF d, left, right

(***************************************************************************)
(* The comparison of the versions opened.                                  *)
(***************************************************************************)
DiffInv ==
  /\ before \in Files /\ after \in Files
  /\ compared # NoLines => compared = FileDiff(before, after)

\* What the page has compared is the comparison of the two versions opened.
THEOREM ComparedIsTheDiff == DiffSpec => []DiffInv
<1>1. DiffInit => DiffInv
  BY DEF DiffInit, DiffInv
<1>2. DiffInv /\ [DiffNext]_diffVars => DiffInv'
  BY DEF DiffInv, DiffNext, CompareFiles, diffVars
<1> QED BY <1>1, <1>2, PTL DEF DiffSpec

\* The invariant gives the property.
LEMMA LeastWhenCompared == DiffInv => LeastChanged
<1> SUFFICES ASSUME DiffInv, compared # NoLines
             PROVE  /\ before # NoFile /\ after # NoFile => ((compared.status = "same") <=> (Split(before) = Split(after)))
                    /\ compared.lines # NoLines =>
                         /\ ReadsAsBoth(compared.lines)
                         /\ CountKind(compared.lines, "same") = LongestShared(Split(before), Split(after))
  BY DEF LeastChanged
<1> DEFINE left == Split(before)
           right == Split(after)
<1>1. compared = FileDiff(before, after) /\ before \in Files /\ after \in Files
  BY DEF DiffInv
<1>2. left \in Seq(Lines) /\ right \in Seq(Lines)
  BY <1>1, CodeIsLines
<1>3. before # NoFile /\ after # NoFile => ((compared.status = "same") <=> (left = right))
  BY <1>1, FileDiffTells
<1>4. ASSUME compared.lines # NoLines
      PROVE  /\ ReadsAsBoth(compared.lines)
             /\ CountKind(compared.lines, "same") = LongestShared(left, right)
  <2> DEFINE lines == DiffLines(left, right)
  <2>1. compared.lines = lines /\ lines # NoLines
    BY <1>1, <1>4, FileDiffTells
  <2>2. /\ SaysBoth(lines, left, right, left, right)
        /\ CountKind(lines, "same") = LongestShared(left, right)
    BY <1>2, <2>1, NothingChanged
  <2> HIDE DEF lines, left, right
  <2>3. lines \in Seq(DiffedLines)
    BY <2>2 DEF SaysBoth
  <2>4. TextsOf(lines, "added") = left /\ TextsOf(lines, "removed") = right
    BY <1>2, <2>2, <2>3, ReadsIsTexts DEF SaysBoth
  <2>5. \A i \in DOMAIN lines :
          LET side == IF lines[i].kind = "removed" THEN left ELSE right
          IN lines[i].number \in DOMAIN side /\ side[lines[i].number] = lines[i].text
    <3>1. DOMAIN lines = 1..Len(lines) /\ DOMAIN left = 1..Len(left) /\ DOMAIN right = 1..Len(right)
      BY <1>2, <2>3
    <3> QED BY <2>2, <3>1 DEF SaysBoth, Numbered
  <2> QED BY <2>1, <2>2, <2>4, <2>5 DEF ReadsAsBoth, left, right
<1> QED BY <1>3, <1>4

\* The comparison is a shortest one that can be read as either version.
THEOREM DiffLeastChanged == DiffSpec => []LeastChanged
BY ComparedIsTheDiff, LeastWhenCompared, PTL

(***************************************************************************)
(* The hunks, one line after the other (group).                            *)
(***************************************************************************)
Grouping ==
  [hunks: Seq(Seq(DiffedLines)), open: BOOLEAN, current: Seq(DiffedLines), quiet: Nat]

GroupStep(acc, lines, index) ==
  IF lines[index].kind = "same" THEN SameLine(acc, lines, index) ELSE ChangedLine(acc, lines, index)

IsGrouped(u, lines) ==
  u = [index \in 0..Len(lines) |-> IF index = 0 THEN NoHunk ELSE GroupStep(u[index - 1], lines, index)]

\* A stretch of diffed lines is one of diffed lines.
LEMMA StretchOfLines ==
  ASSUME NEW lines \in Seq(DiffedLines), NEW k \in Int, NEW l \in Int, k >= 1, l <= Len(lines)
  PROVE  SubSeq(lines, k, l) \in Seq(DiffedLines)
<1>1. \A m \in k..l : lines[m] \in DiffedLines
  <2>1. Len(lines) \in Nat /\ \A m \in 1..Len(lines) : lines[m] \in DiffedLines
    OBVIOUS
  <2> QED BY <2>1
<1> QED BY <1>1, SubSeqProperties

\* A step of the grouping keeps to the type of its accumulator.
LEMMA GroupStepType ==
  ASSUME NEW lines \in Seq(DiffedLines), NEW index \in 1..Len(lines), NEW acc \in Grouping
  PROVE  GroupStep(acc, lines, index) \in Grouping
<1>1. /\ acc.hunks \in Seq(Seq(DiffedLines)) /\ acc.open \in BOOLEAN
      /\ acc.current \in Seq(DiffedLines) /\ acc.quiet \in Nat
  BY DEF Grouping
<1>2. Len(lines) \in Nat /\ lines[index] \in DiffedLines /\ Context \in Nat
  BY DiffBounds
<1>3. ChangedLine(acc, lines, index) \in Grouping
  <2> DEFINE context == SubSeq(lines, Max({1, index - Context}), index - 1)
             current == IF acc.open THEN acc.current ELSE context
  <2>1. context \in Seq(DiffedLines)
    <3> DEFINE k == index - Context
    <3>1. k \in Int /\ 1 \in Int /\ index - 1 \in Int /\ index - 1 <= Len(lines)
      BY <1>2
    <3> HIDE DEF k
    <3>2. Max({1, k}) \in Int /\ Max({1, k}) >= 1
      BY <3>1, GreatestOfTwo
    <3> QED BY <3>1, <3>2, StretchOfLines DEF k
  <2> HIDE DEF context
  <2>2. current \in Seq(DiffedLines)
    BY <1>1, <2>1
  <2>3. Append(current, lines[index]) \in Seq(DiffedLines)
    BY <1>2, <2>2, AppendProperties
  <2>4. ChangedLine(acc, lines, index) =
          [hunks |-> acc.hunks, open |-> TRUE, current |-> Append(current, lines[index]), quiet |-> 0]
    BY DEF ChangedLine, context
  <2> HIDE DEF current
  <2> QED BY <1>1, <2>3, <2>4 DEF Grouping
<1>4. SameLine(acc, lines, index) \in Grouping
  <2> DEFINE current == Append(acc.current, lines[index])
             quiet == acc.quiet + 1
             kept == DropLast(current, quiet - Context)
  <2>1. current \in Seq(DiffedLines) /\ quiet \in Nat
    BY <1>1, <1>2, AppendProperties
  <2>2. CASE ~acc.open
    BY <2>2 DEF SameLine
  <2>3. CASE acc.open /\ quiet > Context * 2
    <3>1. kept \in Seq(DiffedLines)
      <4>1. Len(current) - (quiet - Context) \in Int /\ Len(current) - (quiet - Context) <= Len(current) /\ 1 \in Int /\ 1 >= 1
        BY <1>2, <2>1, <2>3
      <4> HIDE DEF current, quiet
      <4> QED BY <2>1, <4>1, StretchOfLines DEF DropLast
    <3> HIDE DEF kept
    <3>2. Append(acc.hunks, kept) \in Seq(Seq(DiffedLines))
      BY <1>1, <3>1, AppendProperties
    <3>3. SameLine(acc, lines, index) = [hunks |-> Append(acc.hunks, kept), open |-> FALSE, current |-> <<>>, quiet |-> 0]
      BY <2>3 DEF SameLine, kept
    <3>4. <<>> \in Seq(DiffedLines)
      OBVIOUS
    <3> QED BY <3>2, <3>3, <3>4 DEF Grouping
  <2>4. CASE acc.open /\ ~(quiet > Context * 2)
    <3>1. SameLine(acc, lines, index) = [hunks |-> acc.hunks, open |-> TRUE, current |-> current, quiet |-> quiet]
      BY <2>4 DEF SameLine
    <3> HIDE DEF current, quiet
    <3> QED BY <1>1, <2>1, <3>1 DEF Grouping
  <2> QED BY <2>2, <2>3, <2>4
<1> QED BY <1>3, <1>4 DEF GroupStep

\* The grouping is what its equation says.
LEMMA GroupedIsGrouped ==
  ASSUME NEW lines \in Seq(DiffedLines)
  PROVE  IsGrouped(GroupedUpTo(lines), lines)
<1> DEFINE D == 0..Len(lines)
           V == Grouping
           rank == [index \in D |-> index]
           G == [index \in D |-> [u \in [D -> V] |-> IF index = 0 THEN NoHunk ELSE GroupStep(u[index - 1], lines, index)]]
           f0 == [index \in D |-> NoHunk]
           top == Len(lines) + 1
<1>1. Len(lines) \in Nat /\ top \in Nat
  OBVIOUS
<1>2. NoHunk \in V
  BY DEF NoHunk, Grouping
<1>3. rank \in [D -> Nat] /\ \A index \in D : rank[index] < top
  BY <1>1
<1>4. \A index \in D : index # 0 => index \in 1..Len(lines) /\ index - 1 \in D
  BY <1>1
<1>5. G \in [D -> [[D -> V] -> V]]
  <2>1. \A index \in D : \A u \in [D -> V] : (IF index = 0 THEN NoHunk ELSE GroupStep(u[index - 1], lines, index)) \in V
    BY <1>2, <1>4, GroupStepType
  <2> HIDE DEF D, V
  <2> QED BY <2>1
<1>6. f0 \in [D -> V]
  BY <1>2
<1>7. \A index \in D : \A f, g \in [D -> V] :
        (\A e \in D : rank[e] < rank[index] => f[e] = g[e]) => G[index][f] = G[index][g]
  <2> TAKE index \in D
  <2> TAKE f, g \in [D -> V]
  <2> HAVE \A e \in D : rank[e] < rank[index] => f[e] = g[e]
  <2>1. CASE index = 0
    BY <2>1
  <2>2. CASE index # 0
    <3>1. index - 1 \in D /\ rank[index - 1] < rank[index]
      BY <1>1, <1>4, <2>2
    <3>2. f[index - 1] = g[index - 1]
      <4> HIDE DEF D, V, rank
      <4> QED BY <3>1
    <3>3. G[index][f] = GroupStep(f[index - 1], lines, index) /\ G[index][g] = GroupStep(g[index - 1], lines, index)
      BY <2>2
    <3> HIDE DEF G
    <3> QED BY <3>2, <3>3
  <2> QED BY <2>1, <2>2
<1>8. PICK f \in [D -> V] : \A index \in D : f[index] = G[index][f]
  <2> HIDE DEF D, V, rank, G, f0, top
  <2>1. IsRecursion(D, V, rank, G, f0, top)
    BY <1>1, <1>3, <1>5, <1>6, <1>7 DEF IsRecursion
  <2> QED BY <2>1, RecursionIsSound
<1>9. \A index \in D : f[index] = IF index = 0 THEN NoHunk ELSE GroupStep(f[index - 1], lines, index)
  BY <1>8
<1>10. IsGrouped(f, lines)
  <2>1. f = [index \in D |-> f[index]]
    OBVIOUS
  <2> QED BY <1>9, <2>1 DEF IsGrouped
<1>11. GroupedUpTo(lines) = CHOOSE u : IsGrouped(u, lines)
  BY DEF GroupedUpTo, IsGrouped, GroupStep
<1> QED BY <1>10, <1>11

\* What the grouping has after one line more.
LEMMA GroupedAt ==
  ASSUME NEW lines \in Seq(DiffedLines), NEW index \in 0..Len(lines)
  PROVE  GroupedUpTo(lines)[index] =
           IF index = 0 THEN NoHunk ELSE GroupStep(GroupedUpTo(lines)[index - 1], lines, index)
<1>1. IsGrouped(GroupedUpTo(lines), lines)
  BY GroupedIsGrouped
<1> DEFINE u == GroupedUpTo(lines)
<1> HIDE DEF u
<1>2. IsGrouped(u, lines)
  BY <1>1 DEF u
<1>3. u[index] = IF index = 0 THEN NoHunk ELSE GroupStep(u[index - 1], lines, index)
  BY <1>2 DEF IsGrouped
<1> QED BY <1>3 DEF u

(***************************************************************************)
(* Hunks as the lines they are from and to, m of them and each apart from  *)
(* the ones before.                                                        *)
(***************************************************************************)
HunksAre(hunks, lines, F, T, m) ==
  /\ m \in Nat /\ F \in [1..m -> 1..Len(lines)] /\ T \in [1..m -> 1..Len(lines)]
  /\ \A h \in 1..m : F[h] <= T[h]
  /\ \A h, g \in 1..m : h < g => T[h] + 1 < F[g]
  /\ hunks = [h \in 1..m |-> SubSeq(lines, F[h], T[h])]

Stretch(lines, s, t) == {k \in 1..Len(lines) : s <= k /\ k <= t}

Within(lines, F, T, m) == {k \in 1..Len(lines) : \E h \in 1..m : F[h] <= k /\ k <= T[h]}

\* With one more, from line s to t, they hold these lines too.
HunksWith(hunks, lines, F, T, m, s, t, F2, T2) ==
  /\ HunksAre(Append(hunks, SubSeq(lines, s, t)), lines, F2, T2, m + 1)
  /\ Within(lines, F2, T2, m + 1) = Within(lines, F, T, m) \union Stretch(lines, s, t)
  /\ \A h \in 1..(m + 1) : T2[h] <= t

\* A hunk that ends beyond the others can be appended to them.
LEMMA OneMoreHunk ==
  ASSUME NEW lines \in Seq(DiffedLines), NEW hunks, NEW F, NEW T, NEW m, HunksAre(hunks, lines, F, T, m),
         NEW s \in 1..Len(lines), NEW t \in 1..Len(lines), s <= t, \A h \in 1..m : T[h] + 1 < s
  PROVE  \E F2, T2 : HunksWith(hunks, lines, F, T, m, s, t, F2, T2)
<1> DEFINE F2 == [h \in 1..(m + 1) |-> IF h <= m THEN F[h] ELSE s]
           T2 == [h \in 1..(m + 1) |-> IF h <= m THEN T[h] ELSE t]
           hunk == SubSeq(lines, s, t)
           n == Len(lines)
<1>1. /\ m \in Nat /\ F \in [1..m -> 1..n] /\ T \in [1..m -> 1..n]
      /\ \A h \in 1..m : F[h] <= T[h]
      /\ \A h, g \in 1..m : h < g => T[h] + 1 < F[g]
      /\ hunks = [h \in 1..m |-> SubSeq(lines, F[h], T[h])]
  BY DEF HunksAre
<1>2. n \in Nat
  OBVIOUS
<1> HIDE DEF n, hunk
<1>3. s \in 1..n /\ t \in 1..n
  BY DEF n
<1>4. F2 \in [1..(m + 1) -> 1..n] /\ T2 \in [1..(m + 1) -> 1..n]
  BY <1>1, <1>3
<1>5. \A h \in 1..m : h \in 1..(m + 1) /\ h <= m /\ F2[h] = F[h] /\ T2[h] = T[h]
  BY <1>1
<1>6. m + 1 \in 1..(m + 1) /\ F2[m + 1] = s /\ T2[m + 1] = t
  BY <1>1
<1>7. \A h \in 1..(m + 1) : h \in 1..m \/ h = m + 1
  BY <1>1
<1> HIDE DEF F2, T2
<1>8. \A h \in 1..(m + 1) : F2[h] <= T2[h]
  BY <1>1, <1>5, <1>6, <1>7
<1>9. \A h, g \in 1..(m + 1) : h < g => T2[h] + 1 < F2[g]
  <2> TAKE h, g \in 1..(m + 1)
  <2> HAVE h < g
  <2>1. h \in 1..m
    BY <1>1
  <2>2. CASE g \in 1..m
    BY <1>1, <1>5, <2>1, <2>2
  <2>3. CASE g = m + 1
    BY <1>5, <1>6, <2>1, <2>3
  <2> QED BY <1>7, <2>2, <2>3
<1>10. Append(hunks, hunk) = [h \in 1..(m + 1) |-> SubSeq(lines, F2[h], T2[h])]
  <2> DEFINE A == [h \in 1..(m + 1) |-> SubSeq(lines, F2[h], T2[h])]
             V == Seq(DiffedLines)
  <2>1. \A k \in 1..n, l \in 1..n : SubSeq(lines, k, l) \in V
    BY <1>2, StretchOfLines DEF n
  <2>2. hunk \in V
    BY <1>3, <2>1 DEF hunk
  <2>3. hunks \in [1..m -> V]
    BY <1>1, <2>1
  <2>4. A \in [1..(m + 1) -> V]
    BY <1>4, <2>1
  <2> HIDE DEF V
  <2>5. hunks \in Seq(V) /\ Len(hunks) = m
    BY <1>1, <2>3
  <2>6. A \in Seq(V) /\ Len(A) = m + 1
    BY <1>1, <2>4
  <2>7. /\ Append(hunks, hunk) \in Seq(V) /\ Len(Append(hunks, hunk)) = m + 1
        /\ \A h \in 1..m : Append(hunks, hunk)[h] = hunks[h]
        /\ Append(hunks, hunk)[m + 1] = hunk
    BY <2>2, <2>5, AppendProperties
  <2>8. \A h \in 1..m : A[h] = hunks[h]
    BY <1>1, <1>5
  <2>9. A[m + 1] = hunk
    BY <1>6 DEF hunk
  <2> HIDE DEF A
  <2>10. \A h \in 1..Len(A) : A[h] = Append(hunks, hunk)[h]
    BY <1>7, <2>6, <2>7, <2>8, <2>9
  <2>11. A = Append(hunks, hunk)
    BY <2>6, <2>7, <2>10, SeqEqual
  <2> QED BY <2>11 DEF A
<1>11. HunksAre(Append(hunks, hunk), lines, F2, T2, m + 1)
  <2>1. m + 1 \in Nat
    BY <1>1
  <2> QED BY <1>4, <1>8, <1>9, <1>10, <2>1 DEF HunksAre, n
<1>12. Within(lines, F2, T2, m + 1) = Within(lines, F, T, m) \union Stretch(lines, s, t)
  <2>1. ASSUME NEW k \in 1..n
        PROVE  (\E h \in 1..(m + 1) : F2[h] <= k /\ k <= T2[h])
                 <=> (\E h \in 1..m : F[h] <= k /\ k <= T[h]) \/ (s <= k /\ k <= t)
    BY <1>5, <1>6, <1>7
  <2> QED BY <2>1 DEF Within, Stretch, n
<1>13. \A h \in 1..(m + 1) : T2[h] <= t
  <2>1. \A h \in 1..m : T[h] + 1 < s /\ T[h] \in 1..n
    BY <1>1
  <2> QED BY <1>3, <1>5, <1>6, <1>7, <2>1
<1> QED BY <1>11, <1>12, <1>13 DEF HunksWith, hunk

(***************************************************************************)
(* The lines near a change, as far as has been read.                       *)
(***************************************************************************)
NearUpTo(lines, i) ==
  {k \in 1..Len(lines) : \E j \in 1..i : lines[j].kind # "same" /\ j - k \in (-Context)..Context}

\* What one line more brings near.
LEMMA NearOneMore ==
  ASSUME NEW lines \in Seq(DiffedLines), NEW i \in 1..Len(lines)
  PROVE  NearUpTo(lines, i) =
           NearUpTo(lines, i - 1) \union
             IF lines[i].kind = "same" THEN {} ELSE Stretch(lines, i - Context, i + Context)
<1>1. Context \in Nat /\ Len(lines) \in Nat
  BY DiffBounds
<1>2. \A j \in 1..i : j \in 1..(i - 1) \/ j = i
  BY <1>1
<1>3. \A j \in 1..(i - 1) : j \in 1..i
  BY <1>1
<1>4. i \in 1..i
  BY <1>1
<1>5. \A k \in 1..Len(lines) : i - k \in (-Context)..Context <=> i - Context <= k /\ k <= i + Context
  BY <1>1
<1> QED BY <1>2, <1>3, <1>4, <1>5 DEF NearUpTo, Stretch

\* A stretch with the line after it, and a stretch of a stretch.
LEMMA OneMoreLine ==
  ASSUME NEW lines \in Seq(DiffedLines), NEW i \in 1..Len(lines), NEW s \in 1..i
  PROVE  Append(SubSeq(lines, s, i - 1), lines[i]) = SubSeq(lines, s, i)
<1>1. Len(lines) \in Nat /\ s \in 1..Len(lines) /\ i \in s..Len(lines) /\ lines[i] \in DiffedLines
  OBVIOUS
<1>2. SubSeq(lines, s, i) = SubSeq(lines, s, i - 1) \o <<lines[i]>>
  BY <1>1, SubSeqRecursiveSecond
<1>3. SubSeq(lines, s, i - 1) \in Seq(DiffedLines)
  <2>1. s \in Int /\ i - 1 \in Int /\ s >= 1 /\ i - 1 <= Len(lines)
    BY <1>1
  <2> QED BY <2>1, StretchOfLines
<1> QED BY <1>1, <1>2, <1>3, AppendIsConcat

\* Cutting the end off a stretch leaves the stretch that ends earlier.
LEMMA StretchCut ==
  ASSUME NEW lines \in Seq(DiffedLines), NEW i \in 1..Len(lines), NEW s \in 1..i, NEW t \in s..i
  PROVE  DropLast(SubSeq(lines, s, i), i - t) = SubSeq(lines, s, t)
<1> DEFINE n == Len(lines)
           whole == SubSeq(lines, s, i)
           c == t - s + 1
           cut == SubSeq(whole, 1, c)
           part == SubSeq(lines, s, t)
<1>1. n \in Nat /\ s \in Int /\ i \in Int /\ t \in Int /\ s >= 1 /\ i <= n /\ t <= n /\ s <= t /\ t <= i
  OBVIOUS
<1>2. \A k \in 1..n : lines[k] \in DiffedLines
  OBVIOUS
<1>3. /\ whole \in Seq(DiffedLines) /\ Len(whole) = i - s + 1
      /\ \A k \in 1..(i - s + 1) : whole[k] = lines[s + k - 1]
  <2>1. \A k \in s..i : lines[k] \in DiffedLines
    BY <1>1, <1>2
  <2>2. s <= i
    BY <1>1
  <2> QED BY <1>1, <2>1, <2>2, SubSeqProperties
<1>4. /\ part \in Seq(DiffedLines) /\ Len(part) = c
      /\ \A k \in 1..c : part[k] = lines[s + k - 1]
  <2>1. \A k \in s..t : lines[k] \in DiffedLines
    BY <1>1, <1>2
  <2> QED BY <1>1, <2>1, SubSeqProperties
<1> HIDE DEF n, whole, part
<1>5. c \in Int /\ c >= 1 /\ c <= i - s + 1
  BY <1>1
<1> HIDE DEF c
<1>6. \A k \in 1..c : whole[k] \in DiffedLines
  BY <1>1, <1>3, <1>5
<1>7. /\ cut \in Seq(DiffedLines) /\ Len(cut) = c - 1 + 1
      /\ \A k \in 1..(c - 1 + 1) : cut[k] = whole[1 + k - 1]
  <2>1. 1 \in Int /\ 1 <= c
    BY <1>5
  <2> QED BY <1>5, <1>6, <2>1, SubSeqProperties
<1>8. cut = part
  <2>1. c - 1 + 1 = c /\ \A k \in 1..c : 1 + k - 1 = k /\ k \in 1..(i - s + 1)
    BY <1>1, <1>5
  <2>2. \A k \in 1..Len(cut) : cut[k] = part[k]
    <3> HIDE DEF cut
    <3>1. Len(cut) = c
      BY <1>7, <2>1
    <3> TAKE k \in 1..Len(cut)
    <3>2. k \in 1..c /\ k \in 1..(c - 1 + 1)
      BY <2>1, <3>1
    <3>3. cut[k] = whole[k]
      BY <1>7, <2>1, <3>2
    <3> QED BY <1>3, <1>4, <2>1, <3>2, <3>3
  <2>3. Len(cut) = Len(part)
    BY <1>4, <1>7, <2>1
  <2> HIDE DEF cut
  <2> QED BY <1>4, <1>7, <2>2, <2>3, SeqEqual
<1>9. Len(whole) - (i - t) = c
  BY <1>1, <1>3 DEF c
<1> QED BY <1>8, <1>9 DEF DropLast, whole, part

(***************************************************************************)
(* Between two lines: no hunk is under way, and those there are hold the   *)
(* lines near a change; or one is, from line s, with its last change in    *)
(* line l, and it may still become longer.                                 *)
(***************************************************************************)
ClosedBy(acc, lines, i, F, T, m) ==
  /\ ~acc.open
  /\ HunksAre(acc.hunks, lines, F, T, m)
  /\ \A h \in 1..m : T[h] < i - Context
  /\ NearUpTo(lines, i) = Within(lines, F, T, m)

OpenBy(acc, lines, i, F, T, m, s, l) ==
  /\ acc.open
  /\ HunksAre(acc.hunks, lines, F, T, m)
  /\ s \in 1..l /\ l \in 1..i
  /\ \A h \in 1..m : T[h] + 1 < s
  /\ s = 1 \/ s <= l - Context
  /\ acc.current = SubSeq(lines, s, i)
  /\ acc.quiet = i - l /\ i - l <= 2 * Context
  /\ NearUpTo(lines, i) = Within(lines, F, T, m) \union Stretch(lines, s, l + Context)

Follows(acc, lines, i) ==
  \/ \E F, T, m : ClosedBy(acc, lines, i, F, T, m)
  \/ \E F, T, m, s, l : OpenBy(acc, lines, i, F, T, m, s, l)

\* Before the first line there is no hunk.
LEMMA FollowsAtFirst ==
  ASSUME NEW lines \in Seq(DiffedLines)
  PROVE  Follows(NoHunk, lines, 0)
<1> DEFINE F == [h \in 1..0 |-> 1]
<1>1. 1..0 = {}
  OBVIOUS
<1>2. <<>> = [h \in 1..0 |-> SubSeq(lines, F[h], F[h])]
  BY <1>1
<1>3. HunksAre(<<>>, lines, F, F, 0)
  <2>1. F \in [1..0 -> 1..Len(lines)]
    BY <1>1
  <2> QED BY <1>1, <1>2, <2>1 DEF HunksAre
<1>4. NearUpTo(lines, 0) = {} /\ Within(lines, F, F, 0) = {}
  BY <1>1 DEF NearUpTo, Within
<1>5. ~NoHunk.open /\ NoHunk.hunks = <<>>
  BY DEF NoHunk
<1> HIDE DEF F
<1>6. ClosedBy(NoHunk, lines, 0, F, F, 0)
  BY <1>1, <1>3, <1>4, <1>5 DEF ClosedBy
<1> QED BY <1>6 DEF Follows

\* A line that changed opens a hunk, or makes the one under way longer.
LEMMA FollowsChanged ==
  ASSUME NEW lines \in Seq(DiffedLines), NEW i \in 1..Len(lines), lines[i].kind # "same",
         NEW acc, Follows(acc, lines, i - 1)
  PROVE  Follows(ChangedLine(acc, lines, i), lines, i)
<1> DEFINE n == Len(lines)
           now == ChangedLine(acc, lines, i)
<1>1. n \in Nat /\ Context \in Nat /\ i \in 1..n
  BY DiffBounds
<1>2. NearUpTo(lines, i) = NearUpTo(lines, i - 1) \union Stretch(lines, i - Context, i + Context)
  BY NearOneMore
<1>3. CASE \E F, T, m : ClosedBy(acc, lines, i - 1, F, T, m)
  <2>1. PICK F, T, m : ClosedBy(acc, lines, i - 1, F, T, m)
    BY <1>3
  <2>2. /\ ~acc.open /\ HunksAre(acc.hunks, lines, F, T, m)
        /\ \A h \in 1..m : T[h] < i - 1 - Context
        /\ NearUpTo(lines, i - 1) = Within(lines, F, T, m)
    BY <2>1 DEF ClosedBy
  <2>3. m \in Nat /\ T \in [1..m -> 1..n]
    BY <2>2 DEF HunksAre
  <2> DEFINE s == Max({1, i - Context})
  <2>4. s = IF 1 >= i - Context THEN 1 ELSE i - Context
    <3>1. 1 \in Int /\ i - Context \in Int
      BY <1>1
    <3> QED BY <3>1, GreatestOfTwo
  <2> HIDE DEF s
  <2>5. s \in 1..i /\ (s = 1 \/ s <= i - Context)
    BY <1>1, <2>4
  <2>6. now = [hunks |-> acc.hunks, open |-> TRUE, current |-> Append(SubSeq(lines, s, i - 1), lines[i]), quiet |-> 0]
    BY <2>2 DEF ChangedLine, s
  <2>7. Append(SubSeq(lines, s, i - 1), lines[i]) = SubSeq(lines, s, i)
    BY <2>5, OneMoreLine
  <2>8. now.open /\ now.hunks = acc.hunks /\ now.current = SubSeq(lines, s, i) /\ now.quiet = 0
    <3> HIDE DEF now
    <3> QED BY <2>6, <2>7
  <2>9. \A h \in 1..m : T[h] + 1 < s
    BY <1>1, <2>2, <2>3, <2>4
  <2>10. Stretch(lines, i - Context, i + Context) = Stretch(lines, s, i + Context)
    <3>1. \A k \in 1..n : i - Context <= k <=> s <= k
      BY <1>1, <2>4
    <3> QED BY <3>1 DEF Stretch
  <2>11. i \in 1..i /\ 0 = i - i /\ i - i <= 2 * Context
    BY <1>1
  <2> HIDE DEF now
  <2>12. OpenBy(now, lines, i, F, T, m, s, i)
    BY <1>2, <2>2, <2>5, <2>8, <2>9, <2>10, <2>11 DEF OpenBy
  <2> QED BY <2>12 DEF Follows, now
<1>4. CASE \E F, T, m, s, l : OpenBy(acc, lines, i - 1, F, T, m, s, l)
  <2>1. PICK F, T, m, s, l : OpenBy(acc, lines, i - 1, F, T, m, s, l)
    BY <1>4
  <2>2. /\ acc.open /\ HunksAre(acc.hunks, lines, F, T, m)
        /\ s \in 1..l /\ l \in 1..(i - 1)
        /\ \A h \in 1..m : T[h] + 1 < s
        /\ s = 1 \/ s <= l - Context
        /\ acc.current = SubSeq(lines, s, i - 1)
        /\ (i - 1) - l <= 2 * Context
        /\ NearUpTo(lines, i - 1) = Within(lines, F, T, m) \union Stretch(lines, s, l + Context)
    BY <2>1 DEF OpenBy
  <2>3. s \in 1..i /\ i \in 1..i /\ (s = 1 \/ s <= i - Context)
    BY <1>1, <2>2
  <2>4. now = [hunks |-> acc.hunks, open |-> TRUE, current |-> Append(SubSeq(lines, s, i - 1), lines[i]), quiet |-> 0]
    BY <2>2 DEF ChangedLine
  <2>5. Append(SubSeq(lines, s, i - 1), lines[i]) = SubSeq(lines, s, i)
    BY <2>3, OneMoreLine
  <2>6. now.open /\ now.hunks = acc.hunks /\ now.current = SubSeq(lines, s, i) /\ now.quiet = 0
    <3> HIDE DEF now
    <3> QED BY <2>4, <2>5
  <2>7. Stretch(lines, s, l + Context) \union Stretch(lines, i - Context, i + Context) = Stretch(lines, s, i + Context)
    <3>1. \A k \in 1..n : (s <= k /\ k <= l + Context) \/ (i - Context <= k /\ k <= i + Context)
                            <=> s <= k /\ k <= i + Context
      BY <1>1, <2>2, <2>3
    <3> QED BY <3>1 DEF Stretch
  <2>8. NearUpTo(lines, i) = Within(lines, F, T, m) \union Stretch(lines, s, i + Context)
    BY <1>2, <2>2, <2>7
  <2>9. 0 = i - i /\ i - i <= 2 * Context
    BY <1>1
  <2> HIDE DEF now
  <2>10. OpenBy(now, lines, i, F, T, m, s, i)
    BY <2>2, <2>3, <2>6, <2>8, <2>9 DEF OpenBy
  <2> QED BY <2>10 DEF Follows, now
<1> QED BY <1>3, <1>4 DEF Follows

\* A line that is the same is more context, or one too many.
LEMMA FollowsSame ==
  ASSUME NEW lines \in Seq(DiffedLines), NEW i \in 1..Len(lines), lines[i].kind = "same",
         NEW acc, Follows(acc, lines, i - 1)
  PROVE  Follows(SameLine(acc, lines, i), lines, i)
<1> DEFINE n == Len(lines)
           now == SameLine(acc, lines, i)
<1>1. n \in Nat /\ Context \in Nat /\ i \in 1..n
  BY DiffBounds
<1>2. NearUpTo(lines, i) = NearUpTo(lines, i - 1)
  <2>1. NearUpTo(lines, i) = NearUpTo(lines, i - 1) \union {}
    BY NearOneMore
  <2> QED BY <2>1
<1>3. CASE \E F, T, m : ClosedBy(acc, lines, i - 1, F, T, m)
  <2>1. PICK F, T, m : ClosedBy(acc, lines, i - 1, F, T, m)
    BY <1>3
  <2>2. /\ ~acc.open /\ HunksAre(acc.hunks, lines, F, T, m)
        /\ \A h \in 1..m : T[h] < i - 1 - Context
        /\ NearUpTo(lines, i - 1) = Within(lines, F, T, m)
    BY <2>1 DEF ClosedBy
  <2>3. m \in Nat /\ T \in [1..m -> 1..n]
    BY <2>2 DEF HunksAre
  <2>4. \A h \in 1..m : T[h] < i - Context
    BY <1>1, <2>2, <2>3
  <2>5. now = acc
    BY <2>2 DEF SameLine
  <2> HIDE DEF now
  <2>6. ClosedBy(now, lines, i, F, T, m)
    BY <1>2, <2>2, <2>4, <2>5 DEF ClosedBy
  <2> QED BY <2>6 DEF Follows, now
<1>4. CASE \E F, T, m, s, l : OpenBy(acc, lines, i - 1, F, T, m, s, l)
  <2>1. PICK F, T, m, s, l : OpenBy(acc, lines, i - 1, F, T, m, s, l)
    BY <1>4
  <2>2. /\ acc.open /\ HunksAre(acc.hunks, lines, F, T, m)
        /\ s \in 1..l /\ l \in 1..(i - 1)
        /\ \A h \in 1..m : T[h] + 1 < s
        /\ s = 1 \/ s <= l - Context
        /\ acc.current = SubSeq(lines, s, i - 1)
        /\ acc.quiet = (i - 1) - l /\ (i - 1) - l <= 2 * Context
        /\ NearUpTo(lines, i - 1) = Within(lines, F, T, m) \union Stretch(lines, s, l + Context)
    BY <2>1 DEF OpenBy
  <2> DEFINE current == Append(acc.current, lines[i])
             quiet == acc.quiet + 1
  <2>3. s \in 1..i /\ l \in 1..i /\ quiet = i - l
    BY <1>1, <2>2
  <2>4. current = SubSeq(lines, s, i)
    BY <2>2, <2>3, OneMoreLine
  <2> HIDE DEF current, quiet
  <2>5. CASE quiet > Context * 2
    <3> DEFINE t == l + Context
               hunk == DropLast(current, quiet - Context)
    <3>1. t \in s..i /\ t \in 1..n /\ s \in 1..n /\ s <= t /\ t < i - Context /\ quiet - Context = i - t
      BY <1>1, <2>2, <2>3, <2>5
    <3>2. now = [hunks |-> Append(acc.hunks, hunk), open |-> FALSE, current |-> <<>>, quiet |-> 0]
      BY <2>2, <2>5 DEF SameLine, current, quiet
    <3>3. ~now.open /\ now.hunks = Append(acc.hunks, hunk)
      BY <3>2
    <3> HIDE DEF t
    <3>4. hunk = SubSeq(lines, s, t)
      BY <1>1, <2>3, <2>4, <3>1, StretchCut
    <3> HIDE DEF now, hunk
    <3>5. PICK F2, T2 : HunksWith(acc.hunks, lines, F, T, m, s, t, F2, T2)
      <4>1. s \in 1..Len(lines) /\ t \in 1..Len(lines) /\ s <= t
        BY <3>1
      <4> QED BY <2>2, <4>1, OneMoreHunk
    <3>9. /\ HunksAre(now.hunks, lines, F2, T2, m + 1)
          /\ Within(lines, F2, T2, m + 1) = Within(lines, F, T, m) \union Stretch(lines, s, t)
          /\ \A h \in 1..(m + 1) : T2[h] <= t
      BY <3>3, <3>4, <3>5 DEF HunksWith
    <3>6. \A h \in 1..(m + 1) : T2[h] < i - Context
      <4>1. T2 \in [1..(m + 1) -> 1..n]
        BY <3>9 DEF HunksAre
      <4> QED BY <1>1, <3>1, <3>9, <4>1
    <3>7. NearUpTo(lines, i) = Within(lines, F2, T2, m + 1)
      BY <1>2, <2>2, <3>9 DEF t
    <3>8. ClosedBy(now, lines, i, F2, T2, m + 1)
      BY <3>3, <3>6, <3>7, <3>9 DEF ClosedBy
    <3> QED BY <3>8 DEF Follows, now
  <2>6. CASE ~(quiet > Context * 2)
    <3>1. now = [hunks |-> acc.hunks, open |-> TRUE, current |-> current, quiet |-> quiet]
      BY <2>2, <2>6 DEF SameLine, current, quiet
    <3>2. now.open /\ now.hunks = acc.hunks /\ now.current = current /\ now.quiet = quiet
      BY <3>1
    <3>3. i - l <= 2 * Context
      BY <1>1, <2>2, <2>3, <2>6
    <3> HIDE DEF now
    <3>4. OpenBy(now, lines, i, F, T, m, s, l)
      BY <1>2, <2>2, <2>3, <2>4, <3>2, <3>3 DEF OpenBy
    <3> QED BY <3>4 DEF Follows, now
  <2> QED BY <2>5, <2>6
<1> QED BY <1>3, <1>4 DEF Follows

\* The grouping follows the lines to the last one: take the first where it does not.
LEMMA FollowsAlong ==
  ASSUME NEW lines \in Seq(DiffedLines), NEW last \in 0..Len(lines)
  PROVE  Follows(GroupedUpTo(lines)[last], lines, last)
<1> DEFINE u == GroupedUpTo(lines)
           n == Len(lines)
           bad == {i \in 0..n : ~Follows(u[i], lines, i)}
<1>1. n \in Nat
  OBVIOUS
<1>2. \A i \in 0..n : u[i] = IF i = 0 THEN NoHunk ELSE GroupStep(u[i - 1], lines, i)
  BY GroupedAt
<1> HIDE DEF u
<1>3. bad = {}
  <2>1. SUFFICES ASSUME bad # {} PROVE FALSE
    OBVIOUS
  <2>2. PICK i \in bad : \A j \in bad : i <= j
    <3>1. bad \in SUBSET Nat
      OBVIOUS
    <3> HIDE DEF bad
    <3> QED BY <2>1, <3>1, HasLeast
  <2>3. i \in 0..n /\ ~Follows(u[i], lines, i)
    OBVIOUS
  <2>4. CASE i = 0
    BY <1>2, <2>3, <2>4, FollowsAtFirst
  <2>5. CASE i # 0
    <3>1. i \in 1..n /\ i - 1 \in 0..n /\ ~(i <= i - 1)
      BY <1>1, <2>3, <2>5
    <3>2. i - 1 \notin bad
      <4> HIDE DEF bad
      <4> QED BY <2>2, <3>1
    <3>3. Follows(u[i - 1], lines, i - 1)
      BY <3>1, <3>2
    <3>4. u[i] = GroupStep(u[i - 1], lines, i)
      BY <1>2, <2>3, <2>5
    <3> HIDE DEF bad
    <3>5. i \in 1..Len(lines)
      BY <3>1
    <3>6. CASE lines[i].kind = "same"
      BY <2>3, <3>3, <3>4, <3>5, <3>6, FollowsSame DEF GroupStep
    <3>7. CASE lines[i].kind # "same"
      BY <2>3, <3>3, <3>4, <3>5, <3>7, FollowsChanged DEF GroupStep
    <3> QED BY <3>6, <3>7
  <2> QED BY <2>4, <2>5
<1>4. last \in 0..n /\ last \notin bad
  BY <1>3
<1> QED BY <1>4 DEF u

\* All lines near a change, and their hunks.
LEMMA GroupTells ==
  ASSUME NEW lines \in Seq(DiffedLines)
  PROVE  \E F, T, m : /\ HunksAre(Group(lines), lines, F, T, m)
                      /\ NearUpTo(lines, Len(lines)) = Within(lines, F, T, m)
<1> DEFINE n == Len(lines)
           all == GroupedUpTo(lines)[n]
<1>1. n \in Nat /\ n \in 0..n /\ Context \in Nat
  BY DiffBounds
<1>2. Follows(all, lines, n)
  BY <1>1, FollowsAlong
<1>3. Group(lines) = IF ~all.open THEN all.hunks
                     ELSE Append(all.hunks, DropLast(all.current, Max({0, all.quiet - Context})))
  BY DEF Group
<1> HIDE DEF all
<1>4. CASE \E F, T, m : ClosedBy(all, lines, n, F, T, m)
  <2>1. PICK F, T, m : ClosedBy(all, lines, n, F, T, m)
    BY <1>4
  <2>2. ~all.open /\ HunksAre(all.hunks, lines, F, T, m) /\ NearUpTo(lines, n) = Within(lines, F, T, m)
    BY <2>1 DEF ClosedBy
  <2>3. HunksAre(Group(lines), lines, F, T, m)
    BY <1>3, <2>2
  <2> QED BY <2>2, <2>3
<1>5. CASE \E F, T, m, s, l : OpenBy(all, lines, n, F, T, m, s, l)
  <2>1. PICK F, T, m, s, l : OpenBy(all, lines, n, F, T, m, s, l)
    BY <1>5
  <2>2. /\ all.open /\ HunksAre(all.hunks, lines, F, T, m)
        /\ s \in 1..l /\ l \in 1..n
        /\ \A h \in 1..m : T[h] + 1 < s
        /\ all.current = SubSeq(lines, s, n)
        /\ all.quiet = n - l
        /\ NearUpTo(lines, n) = Within(lines, F, T, m) \union Stretch(lines, s, l + Context)
    BY <2>1 DEF OpenBy
  <2> DEFINE drop == Max({0, all.quiet - Context})
             t == n - drop
             hunk == DropLast(all.current, drop)
  <2>3. drop = IF 0 >= n - l - Context THEN 0 ELSE n - l - Context
    <3>1. 0 \in Int /\ all.quiet - Context \in Int /\ all.quiet - Context = n - l - Context
      BY <1>1, <2>2
    <3> QED BY <3>1, GreatestOfTwo
  <2> HIDE DEF drop
  <2>4. drop \in Nat /\ t \in Int /\ drop = n - t /\ (t = n \/ t = l + Context) /\ t <= n /\ t <= l + Context /\ l <= t
    <3>1. l \in Nat /\ l <= n
      BY <1>1, <2>2
    <3> HIDE DEF n
    <3>2. CASE 0 >= n - l - Context
      BY <1>1, <2>3, <3>1, <3>2
    <3>3. CASE ~(0 >= n - l - Context)
      BY <1>1, <2>3, <3>1, <3>3
    <3> QED BY <3>2, <3>3
  <2> HIDE DEF t
  <2>5. s \in 1..n /\ n \in 1..n /\ t \in s..n /\ t \in 1..n /\ s <= t
    BY <1>1, <2>2, <2>4
  <2>6. hunk = SubSeq(lines, s, t)
    <3>1. DropLast(SubSeq(lines, s, n), n - t) = SubSeq(lines, s, t)
      BY <2>5, StretchCut
    <3> QED BY <2>2, <2>4, <3>1
  <2>7. Group(lines) = Append(all.hunks, SubSeq(lines, s, t))
    BY <1>3, <2>2, <2>6 DEF drop
  <2>8. Stretch(lines, s, l + Context) = Stretch(lines, s, t)
    <3>1. \A k \in 1..n : k <= l + Context <=> k <= t
      BY <1>1, <2>2, <2>4
    <3> QED BY <3>1 DEF Stretch
  <2>9. PICK F2, T2 : HunksWith(all.hunks, lines, F, T, m, s, t, F2, T2)
    BY <2>2, <2>5, OneMoreHunk
  <2>10. HunksAre(Group(lines), lines, F2, T2, m + 1) /\ NearUpTo(lines, n) = Within(lines, F2, T2, m + 1)
    BY <2>2, <2>7, <2>8, <2>9 DEF HunksWith
  <2> QED BY <2>10
<1> QED BY <1>2, <1>4, <1>5 DEF Follows

\* The stretches of a set of lines, as far as each goes.
StretchesOf(lines, near) ==
  LET starts == {i \in near : i - 1 \notin near}
      ends == {i \in near : i + 1 \notin near}
  IN [h \in 1..Cardinality(starts) |-> SubSeq(lines, InOrderOf(starts)[h], InOrderOf(ends)[h])]

\* There is one way only to put the lines near a change into hunks.
LEMMA HunksAreOf ==
  ASSUME NEW lines \in Seq(DiffedLines), NEW hunks, NEW F, NEW T, NEW m, HunksAre(hunks, lines, F, T, m)
  PROVE  hunks = StretchesOf(lines, Within(lines, F, T, m))
<1> DEFINE near == Within(lines, F, T, m)
           starts == {i \in near : i - 1 \notin near}
           ends == {i \in near : i + 1 \notin near}
           n == Len(lines)
<1>1. /\ m \in Nat /\ F \in [1..m -> 1..n] /\ T \in [1..m -> 1..n]
      /\ \A h \in 1..m : F[h] <= T[h]
      /\ \A h, g \in 1..m : h < g => T[h] + 1 < F[g]
      /\ hunks = [h \in 1..m |-> SubSeq(lines, F[h], T[h])]
  BY DEF HunksAre
<1>2. n \in Nat
  OBVIOUS
<1>3. \A k : k \in near <=> k \in 1..n /\ \E h \in 1..m : F[h] <= k /\ k <= T[h]
  BY DEF Within
<1> HIDE DEF n, near
<1>4. ASSUME NEW h \in 1..m
      PROVE  /\ F[h] \in 1..n /\ T[h] \in 1..n /\ F[h] \in near /\ T[h] \in near
             /\ F[h] - 1 \notin near /\ T[h] + 1 \notin near
  <2>1. F[h] \in 1..n /\ T[h] \in 1..n /\ F[h] <= T[h]
    BY <1>1
  <2>2. F[h] \in near /\ T[h] \in near
    BY <1>3, <2>1
  <2>3. ASSUME NEW g \in 1..m
        PROVE  ~(F[g] <= F[h] - 1 /\ F[h] - 1 <= T[g]) /\ ~(F[g] <= T[h] + 1 /\ T[h] + 1 <= T[g])
    <3>1. F[g] \in 1..n /\ T[g] \in 1..n /\ F[g] <= T[g]
      BY <1>1
    <3>2. CASE g < h
      BY <1>1, <2>1, <3>1, <3>2
    <3>3. CASE h < g
      BY <1>1, <2>1, <3>1, <3>3
    <3>4. CASE g = h
      BY <2>1, <3>4
    <3> QED BY <1>1, <3>2, <3>3, <3>4
  <2> QED BY <1>3, <2>1, <2>2, <2>3
<1>5. ASSUME NEW k \in starts PROVE \E h \in 1..m : F[h] = k
  <2>1. k \in 1..n /\ k - 1 \notin near
    BY <1>3
  <2>2. PICK h \in 1..m : F[h] <= k /\ k <= T[h]
    BY <1>3
  <2>3. F[h] \in 1..n /\ T[h] \in 1..n
    BY <1>1
  <2>4. ~(F[h] < k)
    <3>1. SUFFICES ASSUME F[h] < k PROVE FALSE
      OBVIOUS
    <3>2. k - 1 \in 1..n /\ F[h] <= k - 1 /\ k - 1 <= T[h]
      BY <1>2, <2>1, <2>2, <2>3, <3>1
    <3> QED BY <1>3, <2>1, <3>2
  <2> QED BY <2>1, <2>2, <2>3, <2>4
<1>6. ASSUME NEW k \in ends PROVE \E h \in 1..m : T[h] = k
  <2>1. k \in 1..n /\ k + 1 \notin near
    BY <1>3
  <2>2. PICK h \in 1..m : F[h] <= k /\ k <= T[h]
    BY <1>3
  <2>3. F[h] \in 1..n /\ T[h] \in 1..n
    BY <1>1
  <2>4. ~(k < T[h])
    <3>1. SUFFICES ASSUME k < T[h] PROVE FALSE
      OBVIOUS
    <3>2. k + 1 \in 1..n /\ F[h] <= k + 1 /\ k + 1 <= T[h]
      BY <1>2, <2>1, <2>2, <2>3, <3>1
    <3> QED BY <1>3, <2>1, <3>2
  <2> QED BY <2>1, <2>2, <2>3, <2>4
<1>7. \A h, g \in 1..m : h < g => F[h] < F[g] /\ T[h] < T[g]
  <2> TAKE h, g \in 1..m
  <2> HAVE h < g
  <2>1. T[h] + 1 < F[g] /\ F[h] <= T[h] /\ F[g] <= T[g]
    BY <1>1
  <2> QED BY <1>4, <2>1
<1>8. starts \in SUBSET Nat /\ ends \in SUBSET Nat
  <2>1. \A k \in near : k \in Nat
    BY <1>2, <1>3
  <2> QED BY <2>1
<1>9. F \in [1..m -> starts] /\ T \in [1..m -> ends]
  BY <1>1, <1>4
<1> HIDE DEF starts, ends
<1>10. Cardinality(starts) = m /\ InOrderOf(starts) = F
  BY <1>1, <1>5, <1>7, <1>8, <1>9, OrderIsUnique
<1>11. InOrderOf(ends) = T
  BY <1>1, <1>6, <1>7, <1>8, <1>9, OrderIsUnique
<1>12. hunks = [h \in 1..Cardinality(starts) |-> SubSeq(lines, InOrderOf(starts)[h], InOrderOf(ends)[h])]
  BY <1>1, <1>10, <1>11
<1> QED BY <1>12 DEF StretchesOf, starts, ends, near

\* The invariant gives the property.
LEMMA HunksWhenCompared == DiffInv => HunksTell
<1> SUFFICES ASSUME DiffInv, compared # NoLines, compared.lines # NoLines
             PROVE  LET lines == compared.lines
                        near == {i \in DOMAIN lines : Near(lines, i)}
                        starts == {i \in near : i - 1 \notin near}
                        ends == {i \in near : i + 1 \notin near}
                    IN compared.hunks = [h \in 1..Cardinality(starts) |->
                                           SubSeq(lines, InOrderOf(starts)[h], InOrderOf(ends)[h])]
  BY DEF HunksTell
<1> DEFINE left == Split(before)
           right == Split(after)
           lines == compared.lines
           near == {i \in DOMAIN lines : Near(lines, i)}
<1>1. compared = FileDiff(before, after) /\ before \in Files /\ after \in Files
  BY DEF DiffInv
<1>2. left \in Seq(Lines) /\ right \in Seq(Lines)
  BY <1>1, CodeIsLines
<1>3. lines = DiffLines(left, right) /\ compared.hunks = Group(lines)
  BY <1>1, FileDiffTells
<1>4. lines \in Seq(DiffedLines)
  <2>1. SaysBoth(DiffLines(left, right), left, right, left, right)
    BY <1>2, <1>3, NothingChanged
  <2> QED BY <1>3, <2>1 DEF SaysBoth
<1> HIDE DEF lines
<1>5. DOMAIN lines = 1..Len(lines)
  BY <1>4
<1>6. near = NearUpTo(lines, Len(lines))
  BY <1>5 DEF Near, NearUpTo
<1>7. PICK F, T, m : HunksAre(Group(lines), lines, F, T, m) /\ NearUpTo(lines, Len(lines)) = Within(lines, F, T, m)
  BY <1>4, GroupTells
<1> HIDE DEF near
<1>8. Group(lines) = StretchesOf(lines, near)
  <2>1. Group(lines) = StretchesOf(lines, Within(lines, F, T, m))
    BY <1>4, <1>7, HunksAreOf
  <2> QED BY <1>6, <1>7, <2>1
<1> QED BY <1>3, <1>8 DEF StretchesOf, lines, near

\* The hunks are the lines near a change, and no other, each as long as can be.
THEOREM DiffHunksTell == DiffSpec => []HunksTell
BY ComparedIsTheDiff, HunksWhenCompared, PTL
==============================================================================
