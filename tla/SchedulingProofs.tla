-------------------------- MODULE SchedulingProofs --------------------------
(***************************************************************************)
(* What the schedulers promise of a call, and the harness of a trial, for  *)
(* all jobs, workers and traces.                                           *)
(***************************************************************************)
EXTENDS BenchmarkTrial, SetLemmas

-----------------------------------------------------------------------------
(* Least and greatest *)

LEMMA MinIsLeast ==
    ASSUME NEW S \in SUBSET Nat, S # {}
    PROVE  Min(S) \in S /\ \A n \in S : Min(S) <= n
<1>1. \E n \in S : \A m \in S : n <= m
  BY LeastNumber
<1> QED BY <1>1 DEF Min

LEMMA MaxIsGreatest ==
    ASSUME NEW S \in SUBSET Nat, IsFiniteSet(S), S # {}
    PROVE  Max(S) \in S /\ \A n \in S : Max(S) >= n
<1>1. \E n \in S : \A m \in S : n >= m
  BY GreatestNumber
<1> QED BY <1>1 DEF Max

LEMMA Image ==
    ASSUME NEW S, IsFiniteSet(S), NEW f, f = [x \in S |-> f[x]]
    PROVE  IsFiniteSet({f[x] : x \in S})
<1> DEFINE T == {f[x] : x \in S}
<1>1. f \in Surjection(S, T)
  BY DEF Surjection
<1> HIDE DEF T
<1>2. IsFiniteSet(T)
  BY <1>1, FS_Surjection
<1> QED BY <1>2 DEF T

\* Of finitely many scored things, some has the greatest score, some the least.
LEMMA GreatestScore ==
    ASSUME NEW S, IsFiniteSet(S), S # {}, NEW f \in [S -> Nat]
    PROVE  \E x \in S : \A y \in S : f[y] <= f[x]
<1> DEFINE T == {f[x] : x \in S}
<1>1. IsFiniteSet(T)
  BY Image
<1>2. T \in SUBSET Nat /\ T # {}
  OBVIOUS
<1>3. \E n \in T : \A m \in T : n >= m
  <2> HIDE DEF T
  <2> QED BY <1>1, <1>2, GreatestNumber
<1> QED BY <1>3

LEMMA LeastScore ==
    ASSUME NEW S, S # {}, NEW f \in [S -> Nat]
    PROVE  \E x \in S : \A y \in S : f[x] <= f[y]
<1> DEFINE T == {f[x] : x \in S}
<1>2. T \in SUBSET Nat /\ T # {}
  OBVIOUS
<1>3. \E n \in T : \A m \in T : n <= m
  <2> HIDE DEF T
  <2> QED BY <1>2, LeastNumber
<1> QED BY <1>3

-----------------------------------------------------------------------------
(* The orders of the policies *)

\* F[y] is what comes before y.
IsRanking(F, S) ==
    /\ F \in [S -> SUBSET S]
    /\ \A x \in S : x \notin F[x]
    /\ \A x, y \in S : x # y => x \in F[y] \/ y \in F[x]
    /\ \A x, y, z \in S : x \in F[y] /\ y \in F[z] => x \in F[z]

LEMMA RankingIsOrder ==
    ASSUME NEW S, NEW F, IsRanking(F, S)
    PROVE  \E R : /\ IsOrder(R, S)
                  /\ \A s \in S : Below(R, S, s) = F[s]
                  /\ \A x, y \in S : <<x, y>> \in R <=> x \in F[y]
<1> DEFINE R == {p \in S \X S : p[1] \in F[p[2]]}
<1>1. \A x, y \in S : <<x, y>> \in R <=> x \in F[y]
  OBVIOUS
<1> HIDE DEF R
<1>2. IsOrder(R, S)
  BY <1>1 DEF IsOrder, IsRanking
<1>3. \A s \in S : Below(R, S, s) = F[s]
  BY <1>1 DEF Below, IsRanking
<1> QED BY <1>1, <1>2, <1>3

\* A list of all members of S, each once.
Lists(q, S) ==
    /\ q \in Seq(S)
    /\ \A s \in S : \E n \in 1..Len(q) : q[n] = s
    /\ \A i, k \in 1..Len(q) : i # k => q[i] # q[k]

\* In each place of the list is a member that has as many before it.
Ranked(q, S, F) ==
    /\ q = [n \in 1..Cardinality(S) |-> q[n]]
    /\ \A n \in 1..Cardinality(S) :
          (\E s \in S : Cardinality(F[s]) = n - 1) => q[n] \in S /\ Cardinality(F[q[n]]) = n - 1

LEMMA RankedLists ==
    ASSUME NEW S, IsFiniteSet(S), NEW F, IsRanking(F, S), NEW q, Ranked(q, S, F)
    PROVE  Lists(q, S)
<1>1. PICK R : /\ IsOrder(R, S)
               /\ \A s \in S : Below(R, S, s) = F[s]
               /\ \A x, y \in S : <<x, y>> \in R <=> x \in F[y]
  BY RankingIsOrder
<1>2. \A n \in 1..Cardinality(S) :
         (\E s \in S : Cardinality(Below(R, S, s)) = n - 1)
            => q[n] \in S /\ Cardinality(Below(R, S, q[n])) = n - 1
  BY <1>1 DEF Ranked
<1>3. q = [n \in 1..Cardinality(S) |-> q[n]]
  BY DEF Ranked
<1>4. q \in Seq(S) /\ Len(q) = Cardinality(S)
  <2>1. q \in Seq(S)
    BY <1>1, <1>2, <1>3, SortedList
  <2>2. DOMAIN q = 1..Cardinality(S)
    BY <1>3
  <2>3. DOMAIN q = 1..Len(q) /\ Len(q) \in Nat /\ Cardinality(S) \in Nat
    BY <2>1, FS_CardinalityType
  <2> QED BY <2>1, <2>2, <2>3
<1>5. ASSUME NEW s \in S PROVE \E n \in 1..Len(q) : q[n] = s
  <2> DEFINE k == Cardinality(Below(R, S, s))
             n == k + 1
  <2>1. k \in 0..(Cardinality(S) - 1) /\ Cardinality(S) \in Nat
    BY <1>1, Ranking, FS_CardinalityType
  <2>2. n \in 1..Cardinality(S) /\ n - 1 = k /\ k \in Int
    BY <2>1
  <2> HIDE DEF n
  <2>3. Cardinality(Below(R, S, q[n])) = k /\ q[n] \in S
    BY <1>2, <2>2
  <2>4. <<q[n], s>> \notin R /\ <<s, q[n]>> \notin R
    <3>1. ~(k < k)
      BY <2>2
    <3> QED BY <1>1, <2>3, <3>1, Ranking
  <2>5. q[n] = s
    BY <1>1, <2>3, <2>4 DEF IsOrder
  <2> QED BY <1>4, <2>2, <2>5
<1>6. \A i, k \in 1..Len(q) : i < k => <<q[i], q[k]>> \in R
  BY <1>1, <1>2, <1>3, SortedList
<1>7. ASSUME NEW i \in 1..Len(q), NEW k \in 1..Len(q), i # k PROVE q[i] # q[k]
  <2>1. i < k \/ k < i
    BY <1>7
  <2>2. q[i] \in S /\ q[k] \in S
    BY <1>4
  <2> QED BY <1>1, <1>6, <2>1, <2>2 DEF IsOrder
<1> QED BY <1>4, <1>5, <1>7 DEF Lists

LEMMA RankedFirst ==
    ASSUME NEW S, IsFiniteSet(S), NEW F, IsRanking(F, S), NEW n \in 0..Cardinality(S),
           NEW U, U = {s \in S : Cardinality(F[s]) < n}
    PROVE  /\ U \in SUBSET S /\ IsFiniteSet(U) /\ Cardinality(U) = n
           /\ \A u \in U, s \in S \ U : u \in F[s]
<1>1. PICK R : /\ IsOrder(R, S)
               /\ \A s \in S : Below(R, S, s) = F[s]
               /\ \A x, y \in S : <<x, y>> \in R <=> x \in F[y]
  BY RankingIsOrder
<1> DEFINE V == {s \in S : Cardinality(Below(R, S, s)) < n}
<1>2. /\ V \in SUBSET S /\ IsFiniteSet(V) /\ Cardinality(V) = n
      /\ \A u \in V, s \in S \ V : <<u, s>> \in R
  BY <1>1, FirstOfList
<1>3. U = V
  BY <1>1
<1> HIDE DEF V
<1> QED BY <1>1, <1>2, <1>3

\* By two keys, the greatest first, then by number.
ByKeys(k, l, S) ==
    [y \in S |-> {x \in S : k[x] > k[y] \/ (k[x] = k[y] /\ (l[x] > l[y] \/ (l[x] = l[y] /\ x < y)))}]

LEMMA KeysRank ==
    ASSUME NEW S \in SUBSET Nat, NEW k \in [S -> Int], NEW l \in [S -> Int]
    PROVE  IsRanking(ByKeys(k, l, S), S)
<1> DEFINE F == ByKeys(k, l, S)
           Before(x, y) == k[x] > k[y] \/ (k[x] = k[y] /\ (l[x] > l[y] \/ (l[x] = l[y] /\ x < y)))
<1>1. F \in [S -> SUBSET S]
  BY DEF ByKeys
<1>2. \A x, y \in S : x \in F[y] <=> Before(x, y)
  BY DEF ByKeys
<1>3. \A x \in S : k[x] \in Int /\ l[x] \in Int /\ x \in Nat
  OBVIOUS
<1>4. ASSUME NEW x \in S PROVE ~Before(x, x)
  BY <1>3
<1>5. ASSUME NEW x \in S, NEW y \in S, x # y PROVE Before(x, y) \/ Before(y, x)
  BY <1>3, <1>5
<1>6. ASSUME NEW x \in S, NEW y \in S, NEW z \in S, Before(x, y), Before(y, z)
      PROVE  Before(x, z)
  BY <1>3, <1>6
<1> HIDE DEF F, Before
<1>7. IsRanking(F, S)
  BY <1>1, <1>2, <1>4, <1>5, <1>6 DEF IsRanking
<1> QED BY <1>7 DEF F

LEMMA ListedFIFO ==
    ASSUME NEW S \in SUBSET Nat, IsFiniteSet(S)
    PROVE  Lists(FIFOOrder(S), S)
<1> DEFINE k == [s \in S |-> 0]
           l == [s \in S |-> 0]
           F == ByKeys(k, l, S)
           q == FIFOOrder(S)
<1>1. IsRanking(F, S)
  <2>1. k \in [S -> Int] /\ l \in [S -> Int]
    OBVIOUS
  <2> HIDE DEF k, l
  <2> QED BY <2>1, KeysRank
<1>2. \A s \in S : F[s] = {r \in S : r < s}
  BY DEF ByKeys
<1>3. q = [n \in 1..Cardinality(S) |->
             CHOOSE s \in S : Cardinality({r \in S : r < s}) = n - 1]
  BY DEF FIFOOrder, InOrder
<1> HIDE DEF F, q
<1>4. Ranked(q, S, F)
  <2>1. q = [n \in 1..Cardinality(S) |-> q[n]]
    BY <1>3
  <2>2. ASSUME NEW n \in 1..Cardinality(S), NEW s \in S, Cardinality(F[s]) = n - 1
        PROVE  q[n] \in S /\ Cardinality(F[q[n]]) = n - 1
    <3>1. q[n] = CHOOSE t \in S : Cardinality({r \in S : r < t}) = n - 1
      BY <1>3
    <3>2. Cardinality({r \in S : r < s}) = n - 1
      BY <1>2, <2>2
    <3>3. q[n] \in S /\ Cardinality({r \in S : r < q[n]}) = n - 1
      BY <3>1, <3>2
    <3> QED BY <1>2, <3>3
  <2> QED BY <2>1, <2>2 DEF Ranked
<1>5. Lists(q, S)
  BY <1>1, <1>4, RankedLists
<1> QED BY <1>5 DEF q

\* The jobs that come before job y.
MorePriority(S, y) == {r \in S : Priority[r] > Priority[y] \/ (Priority[r] = Priority[y] /\ r < y)}

LEMMA ListedPriority ==
    ASSUME NEW S \in SUBSET Jobs, IsFiniteSet(S), S \subseteq Nat
    PROVE  Lists(PriorityOrder(S), S)
<1> DEFINE k == [s \in S |-> Priority[s]]
           l == [s \in S |-> 0]
           F == ByKeys(k, l, S)
           q == PriorityOrder(S)
<1>1. IsRanking(F, S)
  <2>1. k \in [S -> Int] /\ l \in [S -> Int]
    BY PoliciesAssumption DEF Jobs
  <2> HIDE DEF k, l
  <2> QED BY <2>1, KeysRank
<1>2. \A s \in S : F[s] = MorePriority(S, s)
  BY DEF ByKeys, MorePriority
<1>3. q = [n \in 1..Cardinality(S) |->
             CHOOSE s \in S : Cardinality(MorePriority(S, s)) = n - 1]
  BY DEF MorePriority, PriorityOrder, InOrder
<1> HIDE DEF F, q
<1>4. Ranked(q, S, F)
  <2>1. q = [n \in 1..Cardinality(S) |-> q[n]]
    BY <1>3
  <2>2. ASSUME NEW n \in 1..Cardinality(S), NEW s \in S, Cardinality(F[s]) = n - 1
        PROVE  q[n] \in S /\ Cardinality(F[q[n]]) = n - 1
    <3>1. q[n] = CHOOSE t \in S : Cardinality(MorePriority(S, t)) = n - 1
      BY <1>3
    <3>2. Cardinality(MorePriority(S, s)) = n - 1
      BY <1>2, <2>2
    <3>3. q[n] \in S /\ Cardinality(MorePriority(S, q[n])) = n - 1
      BY <3>1, <3>2
    <3> QED BY <1>2, <3>3
  <2> QED BY <2>1, <2>2 DEF Ranked
<1>5. Lists(q, S)
  BY <1>1, <1>4, RankedLists
<1> QED BY <1>5 DEF q

MoreAged(S, now, y) ==
    {r \in S : \/ EffectivePriority(r, now) > EffectivePriority(y, now)
               \/ EffectivePriority(r, now) = EffectivePriority(y, now) /\ r < y}

LEMMA ListedAged ==
    ASSUME NEW S \in SUBSET Jobs, IsFiniteSet(S), S \subseteq Nat, NEW now \in Nat
    PROVE  Lists(AgedOrder(S, now), S)
<1> DEFINE k == [s \in S |-> EffectivePriority(s, now)]
           l == [s \in S |-> 0]
           F == ByKeys(k, l, S)
           q == AgedOrder(S, now)
<1>1. IsRanking(F, S)
  <2>1. k \in [S -> Int] /\ l \in [S -> Int]
    BY PoliciesAssumption DEF Jobs, EffectivePriority, LessMonus
  <2> HIDE DEF k, l
  <2> QED BY <2>1, KeysRank
<1>2. \A s \in S : F[s] = MoreAged(S, now, s)
  BY DEF ByKeys, MoreAged
<1>3. q = [n \in 1..Cardinality(S) |->
             CHOOSE s \in S : Cardinality(MoreAged(S, now, s)) = n - 1]
  BY DEF MoreAged, AgedOrder, InOrder
<1> HIDE DEF F, q
<1>4. Ranked(q, S, F)
  <2>1. q = [n \in 1..Cardinality(S) |-> q[n]]
    BY <1>3
  <2>2. ASSUME NEW n \in 1..Cardinality(S), NEW s \in S, Cardinality(F[s]) = n - 1
        PROVE  q[n] \in S /\ Cardinality(F[q[n]]) = n - 1
    <3>1. q[n] = CHOOSE t \in S : Cardinality(MoreAged(S, now, t)) = n - 1
      BY <1>3
    <3>2. Cardinality(MoreAged(S, now, s)) = n - 1
      BY <1>2, <2>2
    <3>3. q[n] \in S /\ Cardinality(MoreAged(S, now, q[n])) = n - 1
      BY <3>1, <3>2
    <3> QED BY <1>2, <3>3
  <2> QED BY <2>1, <2>2 DEF Ranked
<1>5. Lists(q, S)
  BY <1>1, <1>4, RankedLists
<1> QED BY <1>5 DEF q

MoreMemory(S, y) ==
    {r \in S : \/ Req[r].vram > Req[y].vram
               \/ /\ Req[r].vram = Req[y].vram
                  /\ \/ Priority[r] > Priority[y]
                     \/ Priority[r] = Priority[y] /\ r < y}

LEMMA ListedMemory ==
    ASSUME NEW S \in SUBSET Jobs, IsFiniteSet(S), S \subseteq Nat
    PROVE  Lists(MemoryOrder(S), S)
<1> DEFINE k == [s \in S |-> Req[s].vram]
           l == [s \in S |-> Priority[s]]
           F == ByKeys(k, l, S)
           q == MemoryOrder(S)
<1>1. IsRanking(F, S)
  <2>1. k \in [S -> Int] /\ l \in [S -> Int]
    BY PoliciesAssumption, RequestsAssumption DEF Jobs
  <2> HIDE DEF k, l
  <2> QED BY <2>1, KeysRank
<1>2. \A s \in S : F[s] = MoreMemory(S, s)
  BY DEF ByKeys, MoreMemory
<1>3. q = [n \in 1..Cardinality(S) |->
             CHOOSE s \in S : Cardinality(MoreMemory(S, s)) = n - 1]
  BY DEF MoreMemory, MemoryOrder, InOrder
<1> HIDE DEF F, q
<1>4. Ranked(q, S, F)
  <2>1. q = [n \in 1..Cardinality(S) |-> q[n]]
    BY <1>3
  <2>2. ASSUME NEW n \in 1..Cardinality(S), NEW s \in S, Cardinality(F[s]) = n - 1
        PROVE  q[n] \in S /\ Cardinality(F[q[n]]) = n - 1
    <3>1. q[n] = CHOOSE t \in S : Cardinality(MoreMemory(S, t)) = n - 1
      BY <1>3
    <3>2. Cardinality(MoreMemory(S, s)) = n - 1
      BY <1>2, <2>2
    <3>3. q[n] \in S /\ Cardinality(MoreMemory(S, q[n])) = n - 1
      BY <3>1, <3>2
    <3> QED BY <1>2, <3>3
  <2> QED BY <2>1, <2>2 DEF Ranked
<1>5. Lists(q, S)
  BY <1>1, <1>4, RankedLists
<1> QED BY <1>5 DEF q

\* The loop of each policy gets to each of the jobs once.
LEMMA OrderLists ==
    ASSUME NEW S \in SUBSET Jobs, NEW p \in Policies, NEW now \in Nat
    PROVE  Lists(Order(p, S, now), S)
<1>1. IsFiniteSet(S) /\ S \subseteq Nat
  BY RequestsAssumption, FS_Subset DEF Jobs
<1>2. /\ Lists(FIFOOrder(S), S) /\ Lists(PriorityOrder(S), S)
      /\ Lists(AgedOrder(S, now), S) /\ Lists(MemoryOrder(S), S)
  BY <1>1, ListedFIFO, ListedPriority, ListedAged, ListedMemory
<1>3. \/ Order(p, S, now) = FIFOOrder(S) \/ Order(p, S, now) = PriorityOrder(S)
      \/ Order(p, S, now) = AgedOrder(S, now) \/ Order(p, S, now) = MemoryOrder(S)
  BY DEF Order, Policies
<1> QED BY <1>2, <1>3

-----------------------------------------------------------------------------
(* The devices a job is given *)

LEMMA LowestIs ==
    ASSUME NEW S \in SUBSET Nat, IsFiniteSet(S), NEW n \in 0..Cardinality(S)
    PROVE  Lowest(n, S) \in SUBSET S /\ Cardinality(Lowest(n, S)) = n
<1> DEFINE k == [s \in S |-> 0]
           F == ByKeys(k, k, S)
           U == Lowest(n, S)
<1>1. IsRanking(F, S)
  <2>1. k \in [S -> Int]
    OBVIOUS
  <2> HIDE DEF k
  <2> QED BY <2>1, KeysRank
<1>2. \A s \in S : F[s] = {r \in S : r < s}
  BY DEF ByKeys
<1>3. U = {s \in S : Cardinality({r \in S : r < s}) < n}
  BY DEF Lowest, Foremost
<1> HIDE DEF F, U
<1>4. U = {s \in S : Cardinality(F[s]) < n}
  BY <1>2, <1>3
<1>5. U \in SUBSET S /\ Cardinality(U) = n
  BY <1>1, <1>4, RankedFirst
<1> QED BY <1>5 DEF U

\* What candidates are, given the account.
LEMMA CandidatesAre ==
    ASSUME NEW c, IsSnapshot(c), NEW w \in DOMAIN c, NEW j \in Jobs, NEW t
    PROVE  LET C == Candidates(j, w, c, t)
           IN  /\ C \in SUBSET Nat /\ C \in SUBSET c[w].devices /\ IsFiniteSet(C)
               /\ Cardinality(C) \in Nat
               /\ \A d \in C : /\ <<w, d>> \notin t.busy
                               /\ Req[j].vram <= c[w].free[d] /\ c[w].free[d] \in Nat
<1> DEFINE C == Candidates(j, w, c, t)
<1>1. /\ c[w].devices \subseteq Nat /\ IsFiniteSet(c[w].devices)
      /\ c[w].free \in [c[w].devices -> Nat]
  BY DEF IsSnapshot
<1>2. Req[j].vram \in Nat
  BY RequestsAssumption DEF Jobs
<1>3. /\ C \in SUBSET Nat /\ C \in SUBSET c[w].devices
      /\ \A d \in C : /\ <<w, d>> \notin t.busy
                      /\ Req[j].vram <= c[w].free[d] /\ c[w].free[d] \in Nat
  BY <1>1, <1>2 DEF Candidates
<1> HIDE DEF C
<1>4. IsFiniteSet(C) /\ Cardinality(C) \in Nat
  BY <1>1, <1>3, FS_Subset, FS_CardinalityType
<1>5. /\ C \in SUBSET Nat /\ C \in SUBSET c[w].devices /\ IsFiniteSet(C) /\ Cardinality(C) \in Nat
      /\ \A d \in C : /\ <<w, d>> \notin t.busy
                      /\ Req[j].vram <= c[w].free[d] /\ c[w].free[d] \in Nat
  BY <1>3, <1>4
<1> QED BY <1>5 DEF C

\* Job j's turn gives it all it asks for, on one worker that has it.
OnOne(j, c, t, u) ==
    \E w \in Fitting(j, c, t) : \E E \in SUBSET Candidates(j, w, c, t) :
        /\ Cardinality(E) = Req[j].gpus
        /\ u = Take(j, w, E, Req[j].cpus, Req[j].ram, t)

\* So do all schedulers but the gang scheduler, if there is such a worker.
Turn(j, c, t, u) == IF Fitting(j, c, t) = {} THEN u = t ELSE OnOne(j, c, t, u)

LEMMA PlaceOnIsOnOne ==
    ASSUME NEW c, IsSnapshot(c), NEW j \in Jobs, NEW t, NEW w \in Fitting(j, c, t)
    PROVE  OnOne(j, c, t, PlaceOn(j, w, c, t))
<1> DEFINE C == Candidates(j, w, c, t)
           E == Lowest(Req[j].gpus, C)
<1>1. w \in DOMAIN c /\ Cardinality(C) >= Req[j].gpus
  BY DEF Fitting, FitsOn
<1>2. C \in SUBSET Nat /\ IsFiniteSet(C) /\ Cardinality(C) \in Nat
  BY <1>1, CandidatesAre
<1>3. Req[j].gpus \in 0..Cardinality(C)
  BY <1>1, <1>2, RequestsAssumption DEF Jobs
<1>4. E \in SUBSET C /\ Cardinality(E) = Req[j].gpus
  <2> HIDE DEF C
  <2> QED BY <1>2, <1>3, LowestIs
<1>5. PlaceOn(j, w, c, t) = Take(j, w, E, Req[j].cpus, Req[j].ram, t)
  BY DEF PlaceOn
<1> HIDE DEF E
<1> QED BY <1>4, <1>5 DEF OnOne

LEMMA FIFOTurn ==
    ASSUME NEW c, IsSnapshot(c), NEW j \in Jobs, NEW t
    PROVE  Turn(j, c, t, FIFOPlace(t, j, c))
<1>1. CASE Fitting(j, c, t) = {}
  BY <1>1 DEF Turn, FIFOPlace
<1>2. CASE Fitting(j, c, t) # {}
  <2> DEFINE w == Min(Fitting(j, c, t))
  <2>1. w \in Fitting(j, c, t)
    <3>1. Fitting(j, c, t) \in SUBSET Nat
      BY DEF Fitting, IsSnapshot
    <3> QED BY <1>2, <3>1, MinIsLeast
  <2>2. FIFOPlace(t, j, c) = PlaceOn(j, w, c, t)
    BY <1>2 DEF FIFOPlace, PlaceOnFirst
  <2> HIDE DEF w
  <2> QED BY <1>2, <2>1, <2>2, PlaceOnIsOnOne DEF Turn
<1> QED BY <1>1, <1>2
\* The memory of some devices of a worker.
LEMMA MemoryIsNat ==
    ASSUME NEW c, IsSnapshot(c), NEW w \in DOMAIN c, NEW E \in SUBSET c[w].devices
    PROVE  MemoryOf(w, E, c) \in Nat
<1> DEFINE f == [d \in E |-> c[w].free[d]]
<1>1. IsFiniteSet(E) /\ f \in [E -> Nat]
  BY FS_Subset DEF IsSnapshot
<1>2. MemoryOf(w, E, c) = SumFunction(f)
  BY DEF MemoryOf
<1> HIDE DEF f
<1> QED BY <1>1, <1>2, TotalIsNat

LEMMA FreeIsNat ==
    ASSUME NEW c, IsSnapshot(c), NEW w \in DOMAIN c, NEW t,
           t.cpus \in [DOMAIN c -> Nat], t.ram \in [DOMAIN c -> Nat]
    PROVE  FreeCpus(w, c, t) \in Nat /\ FreeRam(w, c, t) \in Nat
<1>1. c[w].cpus \in Nat /\ c[w].ram \in Nat /\ t.cpus[w] \in Nat /\ t.ram[w] \in Nat
  BY DEF IsSnapshot
<1> QED BY <1>1 DEF FreeCpus, FreeRam, LessMonus

LEMMA MemoryIsSum ==
    ASSUME NEW w, NEW c, NEW E, IsFiniteSet(E)
    PROVE  MemoryOf(w, E, c) = SumFunctionOnSet(c[w].free, E)
<1> DEFINE f == [d \in E |-> c[w].free[d]]
<1>1. MemoryOf(w, E, c) = SumFunctionOnSet(f, E)
  BY DEF MemoryOf, SumFunction
<1>2. \A d \in E : f[d] = c[w].free[d]
  OBVIOUS
<1> HIDE DEF f
<1> QED BY <1>1, <1>2, SumSame

\* The scores of BestFit and BinPack are numbers on the workers they compare.
LEMMA SurplusIsNat ==
    ASSUME NEW c, IsSnapshot(c), NEW j \in Jobs, NEW t,
           t.cpus \in [DOMAIN c -> Nat], t.ram \in [DOMAIN c -> Nat], NEW w \in Fitting(j, c, t)
    PROVE  BestFitScore(j, w, c, t) \in Nat /\ BinPackScore(j, w, c, t) \in Nat
<1> DEFINE a == FreeCpus(w, c, t) - Req[j].cpus
           b == FreeRam(w, c, t) - Req[j].ram
           m == CandidateMemory(j, w, c, t)
<1>1. Req[j].cpus \in Nat /\ Req[j].ram \in Nat /\ Req[j].vram \in Nat /\ Req[j].gpus \in Nat
  BY RequestsAssumption DEF Jobs
<1>2. w \in DOMAIN c /\ FreeCpus(w, c, t) >= Req[j].cpus /\ FreeRam(w, c, t) >= Req[j].ram
  BY DEF Fitting, FitsOn
<1>3. a \in Nat /\ b \in Nat
  BY <1>1, <1>2, FreeIsNat
<1>4. m \in Nat
  <2>1. MemoryOf(w, Candidates(j, w, c, t), c) \in Nat
    BY <1>2, CandidatesAre, MemoryIsNat
  <2> QED BY <2>1 DEF CandidateMemory
<1>5. CpuAndRamLeft(j, w, c, t) = a * CpuWeight + b
  BY DEF CpuAndRamLeft
<1>6. BestFitScore(j, w, c, t) = CpuAndRamLeft(j, w, c, t) + m
  BY DEF BestFitScore
<1>7. BinPackScore(j, w, c, t) = CpuAndRamLeft(j, w, c, t) + LessMonus(m, Req[j].vram * Req[j].gpus)
  BY DEF BinPackScore
<1> HIDE DEF a, b, m
<1>8. CpuAndRamLeft(j, w, c, t) \in Nat
  <2>1. a * CpuWeight \in Nat
    BY <1>3, PoliciesAssumption
  <2> QED BY <1>3, <1>5, <2>1
<1>9. LessMonus(m, Req[j].vram * Req[j].gpus) \in Nat
  <2>1. Req[j].vram * Req[j].gpus \in Nat
    BY <1>1
  <2> QED BY <1>4, <2>1 DEF LessMonus
<1> QED BY <1>4, <1>6, <1>7, <1>8, <1>9

LEMMA TightestIs ==
    ASSUME NEW S \in SUBSET Nat, S # {}, NEW score \in [S -> Nat]
    PROVE  Tightest(score) \in S
<1> DEFINE U == {w \in S : \A v \in S : score[w] <= score[v]}
<1>1. U \in SUBSET Nat /\ U # {}
  BY LeastScore
<1>2. Tightest(score) = Min(U)
  BY DEF Tightest
<1>3. Min(U) \in U
  <2> HIDE DEF U
  <2> QED BY <1>1, MinIsLeast
<1> QED BY <1>2, <1>3

LEMMA TightTurns ==
    ASSUME NEW c, IsSnapshot(c), NEW j \in Jobs, NEW t,
           t.cpus \in [DOMAIN c -> Nat], t.ram \in [DOMAIN c -> Nat]
    PROVE  Turn(j, c, t, BestFitPlace(t, j, c)) /\ Turn(j, c, t, BinPackPlace(t, j, c))
<1> DEFINE S == Fitting(j, c, t)
           best == [w \in S |-> BestFitScore(j, w, c, t)]
           pack == [w \in S |-> BinPackScore(j, w, c, t)]
<1>1. CASE S = {}
  BY <1>1 DEF Turn, BestFitPlace, BinPackPlace
<1>2. CASE S # {}
  <2>1. S \in SUBSET Nat
    BY DEF Fitting, IsSnapshot
  <2>2. best \in [S -> Nat] /\ pack \in [S -> Nat]
    BY SurplusIsNat
  <2>3. /\ BestFitPlace(t, j, c) = PlaceOn(j, Tightest(best), c, t)
        /\ BinPackPlace(t, j, c) = PlaceOn(j, Tightest(pack), c, t)
    BY <1>2 DEF BestFitPlace, BinPackPlace
  <2> HIDE DEF best, pack
  <2>4. Tightest(best) \in S /\ Tightest(pack) \in S
    <3> HIDE DEF S
    <3> QED BY <1>2, <2>1, <2>2, TightestIs
  <2>5. OnOne(j, c, t, BestFitPlace(t, j, c)) /\ OnOne(j, c, t, BinPackPlace(t, j, c))
    BY <2>3, <2>4, PlaceOnIsOnOne
  <2> QED BY <1>2, <2>5 DEF Turn
<1> QED BY <1>1, <1>2

-----------------------------------------------------------------------------
(* The devices with the most memory *)

\* They are as many as asked for, and no devices that will do have more memory
\* together.
LEMMA LargestIs ==
    ASSUME NEW c, IsSnapshot(c), NEW j \in Jobs, NEW t, NEW w \in Fitting(j, c, t)
    PROVE  LET C == Candidates(j, w, c, t)
               E == LargestDevices(j, w, c, t)
           IN  /\ E \in SUBSET C /\ Cardinality(E) = Req[j].gpus
               /\ \A T \in kSubset(Req[j].gpus, C) : MemoryOf(w, T, c) <= MemoryOf(w, E, c)
<1> DEFINE C == Candidates(j, w, c, t)
           n == Req[j].gpus
           E == LargestDevices(j, w, c, t)
           f == c[w].free
           k == [d \in C |-> f[d]]
           l == [d \in C |-> 0]
           F == ByKeys(k, l, C)
           More(d) == {b \in C : f[b] > f[d] \/ (f[b] = f[d] /\ b < d)}
<1>1. w \in DOMAIN c /\ Cardinality(C) >= n
  BY DEF Fitting, FitsOn
<1>2. /\ C \in SUBSET Nat /\ C \in SUBSET c[w].devices /\ IsFiniteSet(C)
      /\ Cardinality(C) \in Nat /\ \A d \in C : f[d] \in Nat
  BY <1>1, CandidatesAre
<1>3. n \in 0..Cardinality(C)
  BY <1>1, <1>2, RequestsAssumption DEF Jobs
<1>4. E = {d \in C : Cardinality(More(d)) < n}
  BY DEF LargestDevices, Foremost
<1> HIDE DEF C, E
<1>5. \A d \in C : F[d] = More(d)
  BY DEF ByKeys
<1>6. IsRanking(F, C)
  <2>1. k \in [C -> Int] /\ l \in [C -> Int]
    BY <1>2
  <2> HIDE DEF k, l
  <2> QED BY <1>2, <2>1, KeysRank
<1>7. /\ E \in SUBSET C /\ IsFiniteSet(E) /\ Cardinality(E) = n
      /\ \A u \in E, s \in C \ E : u \in F[s]
  <2>1. E = {d \in C : Cardinality(F[d]) < n}
    BY <1>4, <1>5
  <2> HIDE DEF F, n
  <2>2. E \in SUBSET C /\ IsFiniteSet(E)
    BY <1>2, <2>1, FS_Subset
  <2>3. Cardinality(E) = n
    BY <1>2, <1>3, <1>6, <2>1, RankedFirst
  <2>4. \A u \in E, s \in C \ E : u \in F[s]
    BY <1>2, <1>3, <1>6, <2>1, RankedFirst
  <2> QED BY <2>2, <2>3, <2>4
<1>8. ASSUME NEW u \in E, NEW s \in C \ E PROVE f[s] <= f[u]
  <2>1. u \in More(s)
    BY <1>5, <1>7
  <2> QED BY <1>2, <1>7, <2>1
<1>9. ASSUME NEW T \in kSubset(n, C) PROVE MemoryOf(w, T, c) <= MemoryOf(w, E, c)
  <2>1. T \in SUBSET C /\ Cardinality(T) = n /\ IsFiniteSet(T)
    BY <1>2, FS_Subset DEF kSubset
  <2> DEFINE A == E \ T
             B == T \ E
             X == E \cap T
  <2>2. /\ IsFiniteSet(A) /\ IsFiniteSet(B) /\ IsFiniteSet(X)
        /\ Cardinality(A) = Cardinality(B)
    <3>1. IsFiniteSet(A) /\ Cardinality(A) = Cardinality(E) - Cardinality(X)
      BY <1>7, FS_Difference
    <3>2. IsFiniteSet(B) /\ Cardinality(B) = Cardinality(T) - Cardinality(X)
      <4>1. Cardinality(B) = Cardinality(T) - Cardinality(T \cap E) /\ IsFiniteSet(B)
        BY <2>1, FS_Difference
      <4>2. X = T \cap E
        OBVIOUS
      <4> QED BY <4>1, <4>2
    <3>3. IsFiniteSet(X)
      BY <1>7, FS_Intersection
    <3> HIDE DEF A, B, X
    <3> QED BY <1>7, <2>1, <3>1, <3>2, <3>3
  <2>3. /\ \A x \in A \cup B : f[x] \in Nat
        /\ \A x \in X : f[x] \in Nat
        /\ \A x \in A, y \in B : f[y] <= f[x]
    BY <1>2, <1>7, <1>8, <2>1
  <2>4. E = X \cup A /\ T = X \cup B /\ X \cap A = {} /\ X \cap B = {}
    OBVIOUS
  <2> HIDE DEF A, B, X
  <2>5. /\ SumFunctionOnSet(f, E) = SumFunctionOnSet(f, X) + SumFunctionOnSet(f, A)
        /\ SumFunctionOnSet(f, T) = SumFunctionOnSet(f, X) + SumFunctionOnSet(f, B)
    <3>1. /\ \A x \in X \cup A : f[x] \in Nat
          /\ \A x \in X \cup B : f[x] \in Nat
      BY <2>3
    <3> QED BY <2>2, <2>4, <3>1, SumOfUnion
  <2>6. SumFunctionOnSet(f, B) <= SumFunctionOnSet(f, A)
    BY <2>2, <2>3, SumOfGreatest
  <2>7. /\ SumFunctionOnSet(f, X) \in Nat /\ SumFunctionOnSet(f, A) \in Nat
        /\ SumFunctionOnSet(f, B) \in Nat
    BY <2>2, <2>3, SumIsNat
  <2>8. /\ MemoryOf(w, E, c) = SumFunctionOnSet(f, E)
        /\ MemoryOf(w, T, c) = SumFunctionOnSet(f, T)
    BY <1>7, <2>1, MemoryIsSum
  <2> QED BY <2>5, <2>6, <2>7, <2>8
<1> QED BY <1>7, <1>9 DEF C, E
LEMMA MemoryTurn ==
    ASSUME NEW c, IsSnapshot(c), NEW j \in Jobs, NEW t, NEW w \in MostMemory(j, c, t)
    PROVE  OnOne(j, c, t, MemoryAwarePlace(t, j, w, c))
<1>1. w \in Fitting(j, c, t)
  BY DEF MostMemory
<1>2. /\ LargestDevices(j, w, c, t) \in SUBSET Candidates(j, w, c, t)
      /\ Cardinality(LargestDevices(j, w, c, t)) = Req[j].gpus
  BY <1>1, LargestIs
<1> QED BY <1>1, <1>2 DEF OnOne, MemoryAwarePlace

\* No other worker has devices with more memory.
LEMMA MemoryBest ==
    ASSUME NEW c, IsSnapshot(c), NEW j \in Jobs, NEW t, NEW w \in MostMemory(j, c, t),
           NEW v \in Fitting(j, c, t), NEW T \in kSubset(Req[j].gpus, Candidates(j, v, c, t))
    PROVE  MemoryOf(v, T, c) <= MemoryOf(w, LargestDevices(j, w, c, t), c)
<1> DEFINE E(x) == LargestDevices(j, x, c, t)
<1>1. w \in Fitting(j, c, t) /\ w \in DOMAIN c /\ v \in DOMAIN c
  BY DEF MostMemory, Fitting
<1>2. /\ E(w) \in SUBSET Candidates(j, w, c, t) /\ Cardinality(E(w)) = Req[j].gpus
      /\ MemoryOf(v, T, c) <= MemoryOf(v, E(v), c) /\ E(v) \in SUBSET Candidates(j, v, c, t)
  BY <1>1, LargestIs
<1>3. T \in SUBSET Candidates(j, v, c, t) /\ Cardinality(T) = Req[j].gpus
  BY DEF kSubset
<1>4. /\ Candidates(j, v, c, t) \in SUBSET c[v].devices
      /\ Candidates(j, w, c, t) \in SUBSET c[w].devices
      /\ IsFiniteSet(Candidates(j, v, c, t)) /\ IsFiniteSet(Candidates(j, w, c, t))
  BY <1>1, CandidatesAre
<1>5. CASE Req[j].gpus = 0
  <2>1. T = {} /\ E(w) = {}
    <3>1. IsFiniteSet(T) /\ IsFiniteSet(E(w))
      BY <1>2, <1>3, <1>4, FS_Subset
    <3> QED BY <1>2, <1>3, <1>5, <3>1, FS_EmptySet
  <2>2. MemoryOf(v, {}, c) = 0 /\ MemoryOf(w, {}, c) = 0
    BY FS_EmptySet, MemoryIsSum, SumOfNone
  <2> QED BY <2>1, <2>2
<1>6. CASE Req[j].gpus # 0
  <2>1. MemoryScore(j, v, c, t) <= MemoryScore(j, w, c, t)
    BY DEF MostMemory
  <2>2. MemoryOf(v, E(v), c) <= MemoryOf(w, E(w), c)
    BY <1>6, <2>1 DEF MemoryScore
  <2>3. /\ MemoryOf(v, T, c) \in Nat /\ MemoryOf(v, E(v), c) \in Nat
        /\ MemoryOf(w, E(w), c) \in Nat
    <3>1. T \in SUBSET c[v].devices /\ E(v) \in SUBSET c[v].devices /\ E(w) \in SUBSET c[w].devices
      BY <1>2, <1>3, <1>4
    <3> HIDE DEF E
    <3> QED BY <1>1, <3>1, MemoryIsNat
  <2> QED BY <1>2, <2>2, <2>3
<1> QED BY <1>5, <1>6

-----------------------------------------------------------------------------
(* The devices with the best links *)

LEMMA LinkScoreIsNat == ASSUME NEW a, NEW b PROVE LinkScore(a, b) \in Nat
<1> DEFINE applies == [NVLINK      |-> a.nvlink # 0 /\ a.nvlink = b.nvlink,
                       PCIE_SWITCH |-> a.bus # 0 /\ a.bus = b.bus,
                       PCIE        |-> a.numa # 0 /\ a.numa = b.numa,
                       NUMA        |-> a.numa # 0 /\ b.numa # 0,
                       UNKNOWN     |-> TRUE]
           L == {u \in DOMAIN LinkScores : applies[u]}
           U == {LinkScores[u] : u \in L}
<1>1. LinkScore(a, b) = Max(U)
  BY DEF LinkScore
<1>2. "UNKNOWN" \in L
  BY DEF LinkScores
<1> HIDE DEF applies
<1>3. \A u \in DOMAIN LinkScores : LinkScores[u] \in 0..90
  BY DEF LinkScores
<1>4. U \in SUBSET (0..90) /\ U # {}
  BY <1>2, <1>3
<1> HIDE DEF U
<1>5. IsFiniteSet(U) /\ U \in SUBSET Nat
  <2>1. \A u \in U : u \in Nat /\ u <= 90
    BY <1>4
  <2>2. U \in SUBSET Nat /\ 90 \in Nat
    BY <2>1
  <2> QED BY <2>1, <2>2, FS_BoundedSetOfNaturals
<1> QED BY <1>1, <1>4, <1>5, MaxIsGreatest

LEMMA GroupScoreIsNat ==
    ASSUME NEW w, NEW E, IsFiniteSet(E), NEW c
    PROVE  GroupScore(w, E, c) \in Nat
<1> DEFINE P == kSubset(2, E)
           f == [pair \in P |-> LinkScore(c[w].tags[Min(pair)], c[w].tags[Max(pair)])]
<1>1. IsFiniteSet(P)
  BY FS_SUBSET, FS_Subset DEF kSubset
<1>2. GroupScore(w, E, c) = SumFunction(f)
  BY DEF GroupScore
<1> HIDE DEF P
<1>3. f \in [P -> Nat]
  BY LinkScoreIsNat
<1> HIDE DEF f
<1> QED BY <1>1, <1>2, <1>3, TotalIsNat

\* The combination that has the least of what only one of two has comes first.
Earlier(all) == [T \in all |-> {S \in all : S # T /\ CombinationBefore(S, T)}]

\* What only one of two sets of one size has.
LEMMA Apart ==
    ASSUME NEW S \in SUBSET Nat, NEW T \in SUBSET Nat, IsFiniteSet(S), IsFiniteSet(T),
           Cardinality(S) = Cardinality(T), S # T
    PROVE  /\ Min(S \ T) \in S \ T /\ \A n \in S \ T : Min(S \ T) <= n
           /\ Min(S \ T) \in Nat
<1>1. S \ T # {}
  <2> SUFFICES ASSUME S \ T = {} PROVE FALSE
    OBVIOUS
  <2>1. S \in SUBSET T
    OBVIOUS
  <2> QED BY <2>1, FS_Subset
<1>2. S \ T \in SUBSET Nat
  OBVIOUS
<1> DEFINE U == S \ T
<1> HIDE DEF U
<1>3. U \in SUBSET Nat /\ U # {}
  BY <1>1, <1>2 DEF U
<1>4. Min(U) \in U /\ \A n \in U : Min(U) <= n
  BY <1>3, MinIsLeast
<1>5. Min(U) \in Nat
  BY <1>3, <1>4
<1> QED BY <1>4, <1>5 DEF U

LEMMA EarlierRanks ==
    ASSUME NEW all, NEW n,
           \A S \in all : S \in SUBSET Nat /\ IsFiniteSet(S) /\ Cardinality(S) = n
    PROVE  IsRanking(Earlier(all), all)
<1> DEFINE F == Earlier(all)
           m(S, T) == Min(S \ T)
<1>1. /\ F \in [all -> SUBSET all] /\ \A S \in all : S \notin F[S]
      /\ \A S, T \in all : S \in F[T] <=> S # T /\ m(S, T) < m(T, S)
  BY DEF Earlier, CombinationBefore
<1>2. ASSUME NEW S \in all, NEW T \in all, S # T
      PROVE  /\ m(S, T) \in S \ T /\ \A x \in S \ T : m(S, T) <= x
             /\ m(S, T) \in Nat
  <2>1. Cardinality(S) = Cardinality(T)
    OBVIOUS
  <2> HIDE DEF m
  <2> QED BY <1>2, <2>1, Apart DEF m
<1> HIDE DEF F, m
<1>3. ASSUME NEW S \in all, NEW T \in all, S # T PROVE S \in F[T] \/ T \in F[S]
  <2>1. m(S, T) # m(T, S) /\ m(S, T) \in Nat /\ m(T, S) \in Nat
    BY <1>2, <1>3
  <2> QED BY <1>1, <1>3, <2>1
<1>4. ASSUME NEW S \in all, NEW T \in all, NEW U \in all, S \in F[T], T \in F[U]
      PROVE  S \in F[U]
  <2> DEFINE a == m(S, T)
             b == m(T, U)
  <2>1. S # T /\ T # U /\ a < m(T, S) /\ b < m(U, T)
    BY <1>1, <1>4
  <2>2. /\ a \in S \ T /\ b \in T \ U /\ a \in Nat /\ b \in Nat
        /\ m(T, S) \in Nat /\ m(U, T) \in Nat
        /\ \A x \in S \ T : a <= x
        /\ \A x \in T \ S : m(T, S) <= x
        /\ \A x \in T \ U : b <= x
        /\ \A x \in U \ T : m(U, T) <= x
    BY <1>2, <2>1
  <2>3. \A x \in S \cup T \cup U : x \in Nat
    OBVIOUS
  <2> HIDE DEF a, b
  <2>4. a # b
    BY <2>2
  \* Below the lesser of the two the three sets agree, and there S has what U has not.
  <2>5. PICK x : x \in S \ U /\ \A y \in U \ S : y > x
    <3>1. CASE a < b
      <4>1. a \notin U
        BY <2>1, <2>2, <3>1
      <4>2. ASSUME NEW y \in U \ S, ~(y > a) PROVE FALSE
        <5>1. y \in Nat /\ y <= a
          BY <2>2, <2>3, <4>2
        <5>2. CASE y \in T
          BY <2>1, <2>2, <5>1, <5>2
        <5>3. CASE y \notin T
          BY <2>1, <2>2, <3>1, <5>1, <5>3
        <5> QED BY <5>2, <5>3
      <4> QED BY <2>2, <4>1, <4>2
    <3>2. CASE b < a
      <4>1. b \in S
        BY <2>1, <2>2, <3>2
      <4>2. ASSUME NEW y \in U \ S, ~(y > b) PROVE FALSE
        <5>1. y \in Nat /\ y <= b
          BY <2>2, <2>3, <4>2
        <5>2. CASE y \in T
          BY <2>1, <2>2, <3>2, <5>1, <5>2
        <5>3. CASE y \notin T
          BY <2>1, <2>2, <3>2, <5>1, <5>3
        <5> QED BY <5>2, <5>3
      <4> QED BY <2>2, <4>1, <4>2
    <3> QED BY <2>2, <2>4, <3>1, <3>2
  <2>6. S # U
    BY <2>5
  <2>7. /\ m(S, U) <= x /\ m(U, S) \in U \ S /\ m(S, U) \in Nat /\ m(U, S) \in Nat
    BY <1>2, <2>5, <2>6
  <2>8. x \in Nat
    BY <2>3, <2>5
  <2>9. m(S, U) < m(U, S)
    BY <2>5, <2>7, <2>8
  <2> QED BY <1>1, <2>6, <2>9
<1>5. IsRanking(F, all)
  BY <1>1, <1>3, <1>4 DEF IsRanking
<1> QED BY <1>5 DEF F
LEMMA BestCliqueIs ==
    ASSUME NEW c, IsSnapshot(c), NEW j \in Jobs, NEW t, NEW w \in Fitting(j, c, t)
    PROVE  LET all == kSubset(Req[j].gpus, Candidates(j, w, c, t))
               E   == BestClique(j, w, c, t)
           IN  E \in all /\ \A T \in all : GroupScore(w, T, c) <= GroupScore(w, E, c)
<1> DEFINE C == Candidates(j, w, c, t)
           n == Req[j].gpus
           all == kSubset(n, C)
           score == [S \in all |-> GroupScore(w, S, c)]
           best == {S \in all : \A T \in all : GroupScore(w, T, c) <= GroupScore(w, S, c)}
           E == BestClique(j, w, c, t)
<1>1. w \in DOMAIN c /\ Cardinality(C) >= n
  BY DEF Fitting, FitsOn
<1>2. C \in SUBSET Nat /\ IsFiniteSet(C) /\ Cardinality(C) \in Nat
  BY <1>1, CandidatesAre
<1>3. n \in 0..Cardinality(C)
  BY <1>1, <1>2, RequestsAssumption DEF Jobs
<1>4. E = CHOOSE S \in best : \A T \in best \ {S} : CombinationBefore(S, T)
  BY DEF BestClique
<1> HIDE DEF C, E, n
<1>5. \A S \in all : S \in SUBSET Nat /\ IsFiniteSet(S) /\ Cardinality(S) = n
  BY <1>2, FS_Subset DEF kSubset
<1>6. IsFiniteSet(all) /\ all # {}
  <2>1. Lowest(n, C) \in all
    BY <1>2, <1>3, LowestIs DEF kSubset
  <2>2. all \in SUBSET SUBSET C /\ IsFiniteSet(SUBSET C)
    BY <1>2, FS_SUBSET DEF kSubset
  <2> HIDE DEF all
  <2> QED BY <2>1, <2>2, FS_Subset
<1>7. best # {} /\ IsFiniteSet(best) /\ best \in SUBSET all
  <2>1. score \in [all -> Nat]
    BY <1>5, GroupScoreIsNat
  <2>2. \E S \in all : \A T \in all : score[T] <= score[S]
    <3> HIDE DEF all, score
    <3> QED BY <1>6, <2>1, GreatestScore
  <2>3. best \in SUBSET all /\ best # {}
    BY <2>2
  <2> HIDE DEF best, all
  <2> QED BY <1>6, <2>3, FS_Subset
<1>8. E \in best
  <2> DEFINE F == Earlier(best)
             U == {S \in best : Cardinality(F[S]) < 1}
  <2>1. \A S \in best : S \in SUBSET Nat /\ IsFiniteSet(S) /\ Cardinality(S) = n
    BY <1>5, <1>7
  <2>2. \A S, T \in best : S \in F[T] => CombinationBefore(S, T)
    BY DEF Earlier
  <2> HIDE DEF best
  <2>3. IsRanking(F, best)
    BY <2>1, EarlierRanks
  <2>4. Cardinality(best) \in Nat /\ Cardinality(best) # 0
    BY <1>7, FS_CardinalityType, FS_EmptySet
  <2>5. 1 \in 0..Cardinality(best)
    BY <2>4
  <2> HIDE DEF F
  <2>6. /\ U \in SUBSET best /\ IsFiniteSet(U) /\ Cardinality(U) = 1
        /\ \A u \in U, s \in best \ U : u \in F[s]
    BY <1>7, <2>3, <2>5, RankedFirst
  <2> HIDE DEF U
  <2>7. PICK S : U = {S}
    BY <2>6, FS_Singleton
  <2>8. S \in best /\ \A T \in best \ {S} : CombinationBefore(S, T)
    BY <2>2, <2>6, <2>7
  <2> QED BY <1>4, <2>8
<1> QED BY <1>7, <1>8 DEF C, E, n

LEMMA BestConnectedIs ==
    ASSUME NEW c, IsSnapshot(c), NEW j \in Jobs, NEW t, Fitting(j, c, t) # {}
    PROVE  LET w == BestConnected(j, c, t)
               Score(v) == GroupScore(v, BestClique(j, v, c, t), c)
           IN  w \in Fitting(j, c, t) /\ \A v \in Fitting(j, c, t) : Score(v) <= Score(w)
<1> DEFINE S == Fitting(j, c, t)
           score == [v \in S |-> GroupScore(v, BestClique(j, v, c, t), c)]
           U == {w \in S : \A v \in S : score[v] <= score[w]}
           w == BestConnected(j, c, t)
<1>1. S \in SUBSET Nat /\ IsFiniteSet(S) /\ S # {}
  <2>0. S # {}
    OBVIOUS
  <2>1. S \in SUBSET DOMAIN c /\ DOMAIN c \in SUBSET Nat /\ IsFiniteSet(DOMAIN c)
    BY DEF Fitting, IsSnapshot
  <2> HIDE DEF S
  <2> QED BY <2>0, <2>1, FS_Subset
<1>2. score \in [S -> Nat]
  <2> SUFFICES ASSUME NEW v \in S PROVE GroupScore(v, BestClique(j, v, c, t), c) \in Nat
    OBVIOUS
  <2>1. IsFiniteSet(Candidates(j, v, c, t))
    BY CandidatesAre DEF Fitting
  <2>2. BestClique(j, v, c, t) \in SUBSET Candidates(j, v, c, t)
    BY BestCliqueIs DEF kSubset
  <2> QED BY <2>1, <2>2, FS_Subset, GroupScoreIsNat
<1>3. w = Min(U)
  BY DEF BestConnected
<1>4. w \in U
  <2>1. \E x \in S : \A v \in S : score[v] <= score[x]
    <3> HIDE DEF S, score
    <3> QED BY <1>1, <1>2, GreatestScore
  <2>2. U \in SUBSET Nat /\ U # {}
    BY <1>1, <2>1
  <2> HIDE DEF U, w
  <2> QED BY <1>3, <2>2, MinIsLeast
<1> HIDE DEF w
<1>5. w \in S /\ \A v \in S : score[v] <= score[w]
  BY <1>4
<1> QED BY <1>5 DEF w

LEMMA TopologyTurn ==
    ASSUME NEW c, IsSnapshot(c), NEW j \in Jobs, NEW t
    PROVE  Turn(j, c, t, TopologyPlace(t, j, c))
<1>1. CASE Fitting(j, c, t) = {}
  BY <1>1 DEF Turn, TopologyPlace
<1>2. CASE Fitting(j, c, t) # {}
  <2> DEFINE w == BestConnected(j, c, t)
             E == BestClique(j, w, c, t)
  <2>1. w \in Fitting(j, c, t)
    BY <1>2, BestConnectedIs
  <2>2. E \in SUBSET Candidates(j, w, c, t) /\ Cardinality(E) = Req[j].gpus
    <3> HIDE DEF w
    <3> QED BY <2>1, BestCliqueIs DEF kSubset
  <2>3. TopologyPlace(t, j, c) = Take(j, w, E, Req[j].cpus, Req[j].ram, t)
    BY <1>2 DEF TopologyPlace
  <2> HIDE DEF w, E
  <2>4. OnOne(j, c, t, TopologyPlace(t, j, c))
    BY <2>1, <2>2, <2>3 DEF OnOne
  <2> QED BY <1>2, <2>4 DEF Turn
<1> QED BY <1>1, <1>2

\* No other worker has devices with better links.
LEMMA TopologyBest ==
    ASSUME NEW c, IsSnapshot(c), NEW j \in Jobs, NEW t, Fitting(j, c, t) # {},
           NEW v \in Fitting(j, c, t), NEW T \in kSubset(Req[j].gpus, Candidates(j, v, c, t))
    PROVE  LET w == BestConnected(j, c, t)
           IN  GroupScore(v, T, c) <= GroupScore(w, BestClique(j, w, c, t), c)
<1> DEFINE w == BestConnected(j, c, t)
           Score(x) == GroupScore(x, BestClique(j, x, c, t), c)
<1>1. w \in Fitting(j, c, t) /\ Score(v) <= Score(w)
  BY BestConnectedIs
<1>2. GroupScore(v, T, c) <= Score(v)
  BY BestCliqueIs
<1>3. /\ GroupScore(v, T, c) \in Nat
      /\ \A x \in Fitting(j, c, t) : Score(x) \in Nat
  <2>1. ASSUME NEW x \in Fitting(j, c, t), NEW E \in kSubset(Req[j].gpus, Candidates(j, x, c, t))
        PROVE  GroupScore(x, E, c) \in Nat
    <3>1. IsFiniteSet(Candidates(j, x, c, t))
      BY CandidatesAre DEF Fitting
    <3>2. E \in SUBSET Candidates(j, x, c, t)
      BY DEF kSubset
    <3> QED BY <3>1, <3>2, FS_Subset, GroupScoreIsNat
  <2> QED BY <2>1, BestCliqueIs
<1> HIDE DEF w, Score
<1>4. GroupScore(v, T, c) <= Score(w)
  BY <1>1, <1>2, <1>3
<1> QED BY <1>4 DEF w, Score
-----------------------------------------------------------------------------
(* The account of a call *)

Entries(c) == [job : Jobs, worker : DOMAIN c, devices : SUBSET Nat]

\* What holds of what has been handed out, whatever the policy.
Handed(t, c) ==
    /\ t.plan \in Seq(Entries(c))
    /\ \A b \in t.busy : \E w \in DOMAIN c : b \in {w} \X c[w].devices
    /\ t.cpus \in [DOMAIN c -> Nat] /\ t.ram \in [DOMAIN c -> Nat]
    /\ \A n \in DOMAIN t.plan :
          LET e == t.plan[n]
          IN  /\ c[e.worker].healthy
              /\ e.devices \subseteq c[e.worker].devices
              /\ \A d \in e.devices : /\ <<e.worker, d>> \in t.busy
                                      /\ Req[e.job].vram <= c[e.worker].free[d]
    /\ \A m, n \in DOMAIN t.plan :
          m # n /\ t.plan[m].worker = t.plan[n].worker
             => t.plan[m].devices \cap t.plan[n].devices = {} /\ t.plan[m].job # t.plan[n].job

EntryOf(j, w, E) == [job |-> j, worker |-> w, devices |-> E]

OfJob(t, j) == {n \in DOMAIN t.plan : t.plan[n].job = j}

OnWorker(t, w) == {n \in DOMAIN t.plan : t.plan[n].worker = w}

\* The devices that the plan gives to a job, and the CPUs and RAM asked for by
\* the jobs that it puts on a worker.
Given(t, j) == SumFunction([n \in OfJob(t, j) |-> Cardinality(t.plan[n].devices)])

CpusOn(t, w) == SumFunction([n \in OnWorker(t, w) |-> Req[t.plan[n].job].cpus])

RamOn(t, w) == SumFunction([n \in OnWorker(t, w) |-> Req[t.plan[n].job].ram])

\* The plan of u is that of t and an entry e.
Extends(t, u, e) ==
    /\ DOMAIN u.plan = DOMAIN t.plan \cup {Len(t.plan) + 1}
    /\ Len(t.plan) + 1 \notin DOMAIN t.plan
    /\ \A n \in DOMAIN t.plan : u.plan[n] = t.plan[n]
    /\ u.plan[Len(t.plan) + 1] = e

LEMMA TakeExtends ==
    ASSUME NEW S, NEW t, t.plan \in Seq(S), NEW j, NEW w, NEW E, NEW x, NEW y,
           EntryOf(j, w, E) \in S
    PROVE  /\ Extends(t, Take(j, w, E, x, y, t), EntryOf(j, w, E))
           /\ Take(j, w, E, x, y, t).plan \in Seq(S)
<1> DEFINE p == t.plan
           e == EntryOf(j, w, E)
           q == Append(p, e)
<1>1. Take(j, w, E, x, y, t).plan = q
  BY DEF Take, EntryOf
<1>2. p \in Seq(S) /\ e \in S
  OBVIOUS
<1> HIDE DEF p, e
<1>3. /\ q \in Seq(S) /\ Len(q) = Len(p) + 1 /\ Len(p) \in Nat
      /\ DOMAIN p = 1..Len(p) /\ DOMAIN q = 1..Len(q)
      /\ \A n \in 1..Len(p) : q[n] = p[n]
      /\ q[Len(p) + 1] = e
  BY <1>2
<1> HIDE DEF q
<1>4. /\ DOMAIN q = DOMAIN p \cup {Len(p) + 1} /\ Len(p) + 1 \notin DOMAIN p
      /\ \A n \in DOMAIN p : q[n] = p[n]
  BY <1>3
<1> QED BY <1>1, <1>3, <1>4 DEF Extends, p, e

\* The plan is a finite thing.
LEMMA PlanIsFinite ==
    ASSUME NEW t, NEW S, t.plan \in Seq(S)
    PROVE  /\ IsFiniteSet(DOMAIN t.plan)
           /\ \A j : IsFiniteSet(OfJob(t, j)) /\ IsFiniteSet(OnWorker(t, j))
<1>1. DOMAIN t.plan = 1..Len(t.plan) /\ Len(t.plan) \in Nat
  OBVIOUS
<1>2. IsFiniteSet(DOMAIN t.plan)
  BY <1>1, FS_Interval
<1>3. \A j : OfJob(t, j) \in SUBSET DOMAIN t.plan /\ OnWorker(t, j) \in SUBSET DOMAIN t.plan
  BY DEF OfJob, OnWorker
<1> QED BY <1>2, <1>3, FS_Subset

LEMMA HandedTypes ==
    ASSUME NEW c, IsSnapshot(c), NEW t, Handed(t, c), NEW n \in DOMAIN t.plan
    PROVE  LET e == t.plan[n]
           IN  /\ e \in Entries(c) /\ e.job \in Jobs /\ e.worker \in DOMAIN c
               /\ e.devices \in SUBSET Nat /\ IsFiniteSet(e.devices)
               /\ Cardinality(e.devices) \in Nat
               /\ Req[e.job].cpus \in Nat /\ Req[e.job].ram \in Nat
               /\ Req[e.job].vram \in Nat /\ Req[e.job].gpus \in Nat
<1> DEFINE e == t.plan[n]
<1>1. e \in Entries(c)
  BY DEF Handed
<1>2. e.devices \subseteq c[e.worker].devices
  BY DEF Handed
<1> HIDE DEF e
<1>3. e.job \in Jobs /\ e.worker \in DOMAIN c /\ e.devices \in SUBSET Nat
  BY <1>1 DEF Entries
<1>4. IsFiniteSet(e.devices) /\ Cardinality(e.devices) \in Nat
  BY <1>2, <1>3, FS_Subset, FS_CardinalityType DEF IsSnapshot
<1>5. /\ Req[e.job].cpus \in Nat /\ Req[e.job].ram \in Nat
      /\ Req[e.job].vram \in Nat /\ Req[e.job].gpus \in Nat
  BY <1>3, RequestsAssumption DEF Jobs
<1>6. /\ e \in Entries(c) /\ e.job \in Jobs /\ e.worker \in DOMAIN c
      /\ e.devices \in SUBSET Nat /\ IsFiniteSet(e.devices)
      /\ Cardinality(e.devices) \in Nat
      /\ Req[e.job].cpus \in Nat /\ Req[e.job].ram \in Nat
      /\ Req[e.job].vram \in Nat /\ Req[e.job].gpus \in Nat
  BY <1>1, <1>3, <1>4, <1>5
<1> QED BY <1>6 DEF e

\* The other jobs keep what they are given.
Spares(t, u, j) == \A k : k # j => OfJob(u, k) = OfJob(t, k) /\ Given(u, k) = Given(t, k)

\* The CPUs and the RAM of job j are charged to worker w.
Charges(t, u, j, w) ==
    /\ CpusOn(u, w) = CpusOn(t, w) + Req[j].cpus
    /\ RamOn(u, w) = RamOn(t, w) + Req[j].ram
    /\ \A v : v # w => CpusOn(u, v) = CpusOn(t, v) /\ RamOn(u, v) = RamOn(t, v)

\* An entry more adds to the sums of its job and its worker, and to no others.
LEMMA SumsOfMore ==
    ASSUME NEW c, IsSnapshot(c), NEW t, Handed(t, c), NEW u, NEW j \in Jobs, NEW w, NEW E,
           IsFiniteSet(E), Extends(t, u, EntryOf(j, w, E))
    PROVE  /\ \A k : OfJob(u, k) = IF k = j THEN OfJob(t, k) \cup {Len(t.plan) + 1} ELSE OfJob(t, k)
           /\ Given(u, j) = Given(t, j) + Cardinality(E)
           /\ Spares(t, u, j)
           /\ Charges(t, u, j, w)
<1> DEFINE p == t.plan
           q == u.plan
           x == Len(p) + 1
<1>1. /\ DOMAIN q = DOMAIN p \cup {x} /\ x \notin DOMAIN p
      /\ \A n \in DOMAIN p : q[n] = p[n]
      /\ q[x].job = j /\ q[x].worker = w /\ q[x].devices = E
  BY DEF Extends, EntryOf
<1>2. \A k : OfJob(u, k) = IF k = j THEN OfJob(t, k) \cup {x} ELSE OfJob(t, k)
  <2> HIDE DEF x
  <2> QED BY <1>1 DEF OfJob
<1>3. \A k : OnWorker(u, k) = IF k = w THEN OnWorker(t, k) \cup {x} ELSE OnWorker(t, k)
  <2> HIDE DEF x
  <2> QED BY <1>1 DEF OnWorker
<1>4. \A k : /\ IsFiniteSet(OfJob(t, k)) /\ IsFiniteSet(OnWorker(t, k))
             /\ x \notin OfJob(t, k) /\ x \notin OnWorker(t, k)
             /\ OfJob(t, k) \in SUBSET DOMAIN p /\ OnWorker(t, k) \in SUBSET DOMAIN p
  <2>1. \A k : /\ OfJob(t, k) \in SUBSET DOMAIN p /\ OnWorker(t, k) \in SUBSET DOMAIN p
    BY DEF OfJob, OnWorker
  <2>2. t.plan \in Seq(Entries(c))
    BY DEF Handed
  <2> HIDE DEF x
  <2> QED BY <1>1, <2>1, <2>2, PlanIsFinite
<1>5. \A n \in DOMAIN p : /\ Cardinality(p[n].devices) \in Nat
                          /\ Req[p[n].job].cpus \in Nat /\ Req[p[n].job].ram \in Nat
  BY HandedTypes
<1>6. Cardinality(E) \in Nat /\ Req[j].cpus \in Nat /\ Req[j].ram \in Nat
  BY FS_CardinalityType, RequestsAssumption DEF Jobs
<1> HIDE DEF p, q, x
<1>7. Given(u, j) = Given(t, j) + Cardinality(E)
  <2> DEFINE f == [n \in OfJob(t, j) |-> Cardinality(p[n].devices)]
             g == [n \in OfJob(u, j) |-> Cardinality(q[n].devices)]
  <2>1. Given(t, j) = SumFunction(f) /\ Given(u, j) = SumFunction(g)
    BY DEF Given, p, q
  <2>2. /\ f \in [OfJob(t, j) -> Nat] /\ g \in [OfJob(t, j) \cup {x} -> Nat]
        /\ \A n \in OfJob(t, j) : g[n] = f[n]
        /\ g[x] = Cardinality(E)
    BY <1>1, <1>2, <1>4, <1>5, <1>6
  <2> HIDE DEF f, g
  <2> QED BY <1>4, <2>1, <2>2, TotalAdds
<1>8. CpusOn(u, w) = CpusOn(t, w) + Req[j].cpus
  <2> DEFINE f == [n \in OnWorker(t, w) |-> Req[p[n].job].cpus]
             g == [n \in OnWorker(u, w) |-> Req[q[n].job].cpus]
  <2>1. CpusOn(t, w) = SumFunction(f) /\ CpusOn(u, w) = SumFunction(g)
    BY DEF CpusOn, p, q
  <2>2. /\ f \in [OnWorker(t, w) -> Nat] /\ g \in [OnWorker(t, w) \cup {x} -> Nat]
        /\ \A n \in OnWorker(t, w) : g[n] = f[n]
        /\ g[x] = Req[j].cpus
    BY <1>1, <1>3, <1>4, <1>5, <1>6
  <2> HIDE DEF f, g
  <2> QED BY <1>4, <2>1, <2>2, TotalAdds
<1>9. RamOn(u, w) = RamOn(t, w) + Req[j].ram
  <2> DEFINE f == [n \in OnWorker(t, w) |-> Req[p[n].job].ram]
             g == [n \in OnWorker(u, w) |-> Req[q[n].job].ram]
  <2>1. RamOn(t, w) = SumFunction(f) /\ RamOn(u, w) = SumFunction(g)
    BY DEF RamOn, p, q
  <2>2. /\ f \in [OnWorker(t, w) -> Nat] /\ g \in [OnWorker(t, w) \cup {x} -> Nat]
        /\ \A n \in OnWorker(t, w) : g[n] = f[n]
        /\ g[x] = Req[j].ram
    BY <1>1, <1>3, <1>4, <1>5, <1>6
  <2> HIDE DEF f, g
  <2> QED BY <1>4, <2>1, <2>2, TotalAdds
<1>10. ASSUME NEW k, k # j PROVE Given(u, k) = Given(t, k)
  <2>1. OfJob(u, k) = OfJob(t, k) /\ \A n \in OfJob(t, k) : q[n] = p[n]
    BY <1>1, <1>2, <1>4, <1>10
  <2>2. [n \in OfJob(u, k) |-> Cardinality(q[n].devices)]
        = [n \in OfJob(t, k) |-> Cardinality(p[n].devices)]
    BY <2>1
  <2> QED BY <2>2 DEF Given, p, q
<1>11. ASSUME NEW v, v # w PROVE CpusOn(u, v) = CpusOn(t, v) /\ RamOn(u, v) = RamOn(t, v)
  <2>1. OnWorker(u, v) = OnWorker(t, v) /\ \A n \in OnWorker(t, v) : q[n] = p[n]
    BY <1>1, <1>3, <1>4, <1>11
  <2>2. /\ [n \in OnWorker(u, v) |-> Req[q[n].job].cpus]
           = [n \in OnWorker(t, v) |-> Req[p[n].job].cpus]
        /\ [n \in OnWorker(u, v) |-> Req[q[n].job].ram]
           = [n \in OnWorker(t, v) |-> Req[p[n].job].ram]
    BY <2>1
  <2> QED BY <2>2 DEF CpusOn, RamOn, p, q
<1>12. Spares(t, u, j)
  <2> HIDE DEF x
  <2> QED BY <1>2, <1>10 DEF Spares
<1>13. Charges(t, u, j, w)
  BY <1>8, <1>9, <1>11 DEF Charges
<1> QED BY <1>2, <1>7, <1>12, <1>13 DEF x, p
\* What is given away stays within what the worker has left.
LEMMA TakeKeepsHanded ==
    ASSUME NEW c, IsSnapshot(c), NEW t, Handed(t, c), NEW j \in Jobs,
           NEW w \in DOMAIN c, c[w].healthy, NEW E \in SUBSET Candidates(j, w, c, t),
           NEW x \in Nat, NEW y \in Nat, OfJob(t, j) \cap OnWorker(t, w) = {}
    PROVE  Handed(Take(j, w, E, x, y, t), c)
<1> DEFINE u == Take(j, w, E, x, y, t)
           z == Len(t.plan) + 1
<1>1. /\ E \in SUBSET Nat /\ E \in SUBSET c[w].devices /\ IsFiniteSet(E)
      /\ \A d \in E : <<w, d>> \notin t.busy /\ Req[j].vram <= c[w].free[d]
  BY CandidatesAre, FS_Subset
<1>2. EntryOf(j, w, E) \in Entries(c)
  BY <1>1 DEF Entries, EntryOf
<1>3. Extends(t, u, EntryOf(j, w, E)) /\ u.plan \in Seq(Entries(c))
  BY <1>2, TakeExtends DEF Handed
<1>4. u.busy = t.busy \cup ({w} \X E)
  BY DEF Take
<1>5. u.cpus \in [DOMAIN c -> Nat] /\ u.ram \in [DOMAIN c -> Nat]
  <2>1. /\ u.cpus = [t.cpus EXCEPT ![w] = @ + x] /\ u.ram = [t.ram EXCEPT ![w] = @ + y]
    BY DEF Take
  <2>2. t.cpus \in [DOMAIN c -> Nat] /\ t.ram \in [DOMAIN c -> Nat]
    BY DEF Handed
  <2> HIDE DEF u
  <2> QED BY <2>1, <2>2
<1> HIDE DEF u
<1>6. /\ DOMAIN u.plan = DOMAIN t.plan \cup {z} /\ z \notin DOMAIN t.plan
      /\ \A n \in DOMAIN t.plan : u.plan[n] = t.plan[n]
      /\ u.plan[z].job = j /\ u.plan[z].worker = w /\ u.plan[z].devices = E
  BY <1>3 DEF Extends, EntryOf
<1> HIDE DEF z
<1>7. \A b \in u.busy : \E v \in DOMAIN c : b \in {v} \X c[v].devices
  <2>1. \A b \in t.busy : \E v \in DOMAIN c : b \in {v} \X c[v].devices
    BY DEF Handed
  <2>2. \A b \in {w} \X E : b \in {w} \X c[w].devices
    BY <1>1
  <2> QED BY <1>4, <2>1, <2>2
<1>8. ASSUME NEW n \in DOMAIN u.plan
      PROVE  LET e == u.plan[n]
             IN  /\ c[e.worker].healthy
                 /\ e.devices \subseteq c[e.worker].devices
                 /\ \A d \in e.devices : /\ <<e.worker, d>> \in u.busy
                                         /\ Req[e.job].vram <= c[e.worker].free[d]
  <2>1. CASE n = z
    BY <1>1, <1>4, <1>6, <2>1
  <2>2. CASE n \in DOMAIN t.plan
    BY <1>4, <1>6, <2>2 DEF Handed
  <2> QED BY <1>6, <2>1, <2>2
<1>9. ASSUME NEW m \in DOMAIN u.plan, NEW n \in DOMAIN u.plan, m # n,
             u.plan[m].worker = u.plan[n].worker
      PROVE  u.plan[m].devices \cap u.plan[n].devices = {} /\ u.plan[m].job # u.plan[n].job
  <2>1. ASSUME NEW k \in DOMAIN t.plan, u.plan[k].worker = w
        PROVE  u.plan[k].devices \cap E = {} /\ u.plan[k].job # j
    <3>1. u.plan[k] = t.plan[k] /\ k \in OnWorker(t, w)
      BY <1>6, <2>1 DEF OnWorker
    <3>2. t.plan[k].job # j
      BY <3>1 DEF OfJob
    <3>3. \A d \in t.plan[k].devices : <<w, d>> \in t.busy
      BY <2>1, <3>1 DEF Handed
    <3> QED BY <1>1, <3>1, <3>2, <3>3
  <2>2. CASE m = z
    BY <1>6, <1>9, <2>1, <2>2
  <2>3. CASE n = z
    BY <1>6, <1>9, <2>1, <2>3
  <2>4. CASE m \in DOMAIN t.plan /\ n \in DOMAIN t.plan
    BY <1>6, <1>9, <2>4 DEF Handed
  <2> QED BY <1>6, <2>2, <2>3, <2>4
<1>10. Handed(u, c)
  BY <1>3, <1>5, <1>7, <1>8, <1>9 DEF Handed
<1> QED BY <1>10 DEF u

\* More is handed out.
Grown(t, u, c) ==
    /\ t.busy \subseteq u.busy
    /\ \A w \in DOMAIN c : t.cpus[w] <= u.cpus[w] /\ t.ram[w] <= u.ram[w]

LEMMA TakeGrows ==
    ASSUME NEW c, NEW t, t.cpus \in [DOMAIN c -> Nat], t.ram \in [DOMAIN c -> Nat],
           NEW j, NEW w \in DOMAIN c, NEW E, NEW x \in Nat, NEW y \in Nat
    PROVE  Grown(t, Take(j, w, E, x, y, t), c)
<1> DEFINE u == Take(j, w, E, x, y, t)
<1>1. /\ u.busy = t.busy \cup ({w} \X E)
      /\ u.cpus = [t.cpus EXCEPT ![w] = @ + x] /\ u.ram = [t.ram EXCEPT ![w] = @ + y]
  BY DEF Take
<1> HIDE DEF u
<1>2. Grown(t, u, c)
  BY <1>1 DEF Grown
<1> QED BY <1>2 DEF u

\* What does not fit will not fit when more is handed out.
LEMMA GrownFits ==
    ASSUME NEW c, IsSnapshot(c), NEW t, NEW u, Grown(t, u, c), NEW j \in Jobs,
           t.cpus \in [DOMAIN c -> Nat], t.ram \in [DOMAIN c -> Nat],
           u.cpus \in [DOMAIN c -> Nat], u.ram \in [DOMAIN c -> Nat]
    PROVE  /\ \A w \in DOMAIN c : Candidates(j, w, c, u) \subseteq Candidates(j, w, c, t)
           /\ Fitting(j, c, u) \subseteq Fitting(j, c, t)
           /\ GangWorkers(j, c, u) \subseteq GangWorkers(j, c, t)
           /\ GangTotal(j, c, u) <= GangTotal(j, c, t)
           /\ GangTotal(j, c, u) \in Nat /\ GangTotal(j, c, t) \in Nat
<1> DEFINE C(w) == Candidates(j, w, c, t)
           B(w) == Candidates(j, w, c, u)
<1>1. ASSUME NEW w \in DOMAIN c
      PROVE  /\ B(w) \subseteq C(w) /\ Cardinality(B(w)) <= Cardinality(C(w))
             /\ Cardinality(B(w)) \in Nat /\ Cardinality(C(w)) \in Nat
             /\ FreeCpus(w, c, u) <= FreeCpus(w, c, t) /\ FreeRam(w, c, u) <= FreeRam(w, c, t)
             /\ FreeCpus(w, c, u) \in Nat /\ FreeCpus(w, c, t) \in Nat
             /\ FreeRam(w, c, u) \in Nat /\ FreeRam(w, c, t) \in Nat
  <2>1. B(w) \subseteq C(w)
    BY DEF Candidates, Grown
  <2>2. IsFiniteSet(C(w)) /\ Cardinality(B(w)) \in Nat /\ Cardinality(C(w)) \in Nat
    BY CandidatesAre
  <2>3. Cardinality(B(w)) <= Cardinality(C(w))
    <3> HIDE DEF B, C
    <3> QED BY <2>1, <2>2, FS_Subset
  <2>4. /\ FreeCpus(w, c, u) \in Nat /\ FreeCpus(w, c, t) \in Nat
        /\ FreeRam(w, c, u) \in Nat /\ FreeRam(w, c, t) \in Nat
    BY FreeIsNat
  <2>5. FreeCpus(w, c, u) <= FreeCpus(w, c, t) /\ FreeRam(w, c, u) <= FreeRam(w, c, t)
    <3>1. /\ c[w].cpus \in Nat /\ c[w].ram \in Nat /\ t.cpus[w] \in Nat /\ t.ram[w] \in Nat
          /\ u.cpus[w] \in Nat /\ u.ram[w] \in Nat
          /\ t.cpus[w] <= u.cpus[w] /\ t.ram[w] <= u.ram[w]
      BY DEF IsSnapshot, Grown
    <3> QED BY <3>1 DEF FreeCpus, FreeRam, LessMonus
  <2> QED BY <2>1, <2>2, <2>3, <2>4, <2>5
<1>2. Req[j].gpus \in Nat /\ Req[j].cpus \in Nat /\ Req[j].ram \in Nat
  BY RequestsAssumption DEF Jobs
<1>3. Fitting(j, c, u) \subseteq Fitting(j, c, t)
  <2> SUFFICES ASSUME NEW w \in DOMAIN c, FitsOn(j, w, c, u) PROVE FitsOn(j, w, c, t)
    BY DEF Fitting
  <2>1. /\ c[w].healthy /\ FreeCpus(w, c, u) >= Req[j].cpus /\ FreeRam(w, c, u) >= Req[j].ram
        /\ Cardinality(B(w)) >= Req[j].gpus
    BY DEF FitsOn
  <2>2. /\ FreeCpus(w, c, t) >= Req[j].cpus /\ FreeRam(w, c, t) >= Req[j].ram
        /\ Cardinality(C(w)) >= Req[j].gpus
    BY <1>1, <1>2, <2>1
  <2> QED BY <2>1, <2>2 DEF FitsOn
<1>4. GangWorkers(j, c, u) \subseteq GangWorkers(j, c, t)
  <2> SUFFICES ASSUME NEW w \in GangWorkers(j, c, u) PROVE w \in GangWorkers(j, c, t)
    OBVIOUS
  <2>1. /\ w \in DOMAIN c /\ c[w].healthy /\ FreeCpus(w, c, u) >= 1 /\ FreeRam(w, c, u) >= 1
        /\ B(w) # {}
    BY DEF GangWorkers
  <2>2. FreeCpus(w, c, t) >= 1 /\ FreeRam(w, c, t) >= 1 /\ C(w) # {}
    BY <1>1, <2>1
  <2> QED BY <2>1, <2>2 DEF GangWorkers
<1>5. /\ GangTotal(j, c, u) <= GangTotal(j, c, t)
      /\ GangTotal(j, c, u) \in Nat /\ GangTotal(j, c, t) \in Nat
  <2> DEFINE S == GangWorkers(j, c, u)
             T == GangWorkers(j, c, t)
             f == [w \in S |-> Cardinality(B(w))]
             g == [w \in T |-> Cardinality(C(w))]
  <2>1. T \in SUBSET DOMAIN c
    BY DEF GangWorkers
  <2>2. IsFiniteSet(T) /\ S \in SUBSET T /\ IsFiniteSet(S)
    <3>1. IsFiniteSet(DOMAIN c) /\ S \in SUBSET T
      BY <1>4 DEF IsSnapshot
    <3> HIDE DEF S, T
    <3> QED BY <2>1, <3>1, FS_Subset
  <2>3. GangTotal(j, c, u) = SumFunction(f) /\ GangTotal(j, c, t) = SumFunction(g)
    BY DEF GangTotal
  <2> HIDE DEF S, T
  <2>4. f \in [S -> Nat] /\ g \in [T -> Nat] /\ \A w \in S : f[w] <= g[w]
    BY <1>1, <2>1, <2>2
  <2> HIDE DEF f, g
  <2> QED BY <2>2, <2>3, <2>4, TotalIsNat, TotalOfSmaller
<1> QED BY <1>1, <1>3, <1>4, <1>5

LEMMA GrownTwice ==
    ASSUME NEW c, NEW t, NEW u, NEW v, Grown(t, u, c), Grown(u, v, c),
           t.cpus \in [DOMAIN c -> Nat], t.ram \in [DOMAIN c -> Nat],
           u.cpus \in [DOMAIN c -> Nat], u.ram \in [DOMAIN c -> Nat],
           v.cpus \in [DOMAIN c -> Nat], v.ram \in [DOMAIN c -> Nat]
    PROVE  Grown(t, v, c)
<1>1. t.busy \subseteq v.busy
  BY DEF Grown
<1>2. ASSUME NEW w \in DOMAIN c PROVE t.cpus[w] <= v.cpus[w] /\ t.ram[w] <= v.ram[w]
  <2>1. /\ t.cpus[w] <= u.cpus[w] /\ t.ram[w] <= u.ram[w]
        /\ u.cpus[w] <= v.cpus[w] /\ u.ram[w] <= v.ram[w]
    BY DEF Grown
  <2>2. /\ t.cpus[w] \in Nat /\ t.ram[w] \in Nat /\ u.cpus[w] \in Nat /\ u.ram[w] \in Nat
        /\ v.cpus[w] \in Nat /\ v.ram[w] \in Nat
    OBVIOUS
  <2> QED BY <2>1, <2>2
<1> QED BY <1>1, <1>2 DEF Grown
-----------------------------------------------------------------------------
(* A job is placed whole *)

Whole(j, c, t, u) ==
    /\ Handed(u, c) /\ Grown(t, u, c)
    /\ Spares(t, u, j)
    /\ Given(u, j) = Req[j].gpus
    /\ OfJob(u, j) # {}

LEMMA NoneGiven == ASSUME NEW t, NEW j, OfJob(t, j) = {} PROVE Given(t, j) = 0
<1> DEFINE f == [n \in OfJob(t, j) |-> Cardinality(t.plan[n].devices)]
<1>1. Given(t, j) = SumFunctionOnSet(f, {})
  BY DEF Given, SumFunction
<1> HIDE DEF f
<1> QED BY <1>1, SumOfNone

LEMMA OnOneIsWhole ==
    ASSUME NEW c, IsSnapshot(c), NEW t, Handed(t, c), NEW j \in Jobs, OfJob(t, j) = {},
           NEW u, OnOne(j, c, t, u)
    PROVE  Whole(j, c, t, u)
<1>0. PICK w \in Fitting(j, c, t) :
         \E E \in SUBSET Candidates(j, w, c, t) :
            /\ Cardinality(E) = Req[j].gpus
            /\ u = Take(j, w, E, Req[j].cpus, Req[j].ram, t)
  BY DEF OnOne
<1>1. PICK E \in SUBSET Candidates(j, w, c, t) :
         /\ Cardinality(E) = Req[j].gpus
         /\ u = Take(j, w, E, Req[j].cpus, Req[j].ram, t)
  BY <1>0
<1>2. w \in DOMAIN c /\ c[w].healthy
  BY DEF Fitting, FitsOn
<1>3. Req[j].cpus \in Nat /\ Req[j].ram \in Nat /\ Req[j].gpus \in Nat
  BY RequestsAssumption DEF Jobs
<1>4. E \in SUBSET Nat /\ IsFiniteSet(E)
  BY <1>2, CandidatesAre, FS_Subset
<1>5. Handed(u, c)
  BY <1>1, <1>2, <1>3, TakeKeepsHanded
<1>6. t.cpus \in [DOMAIN c -> Nat] /\ t.ram \in [DOMAIN c -> Nat] /\ t.plan \in Seq(Entries(c))
  BY DEF Handed
<1>7. Grown(t, u, c)
  BY <1>1, <1>2, <1>3, <1>6, TakeGrows
<1>8. EntryOf(j, w, E) \in Entries(c)
  BY <1>2, <1>4 DEF EntryOf, Entries
<1>9. Extends(t, u, EntryOf(j, w, E))
  BY <1>1, <1>6, <1>8, TakeExtends
<1>10. /\ Spares(t, u, j) /\ Given(u, j) = Given(t, j) + Cardinality(E)
       /\ OfJob(u, j) # {}
  <2> DEFINE x == Len(t.plan) + 1
  <2>1. \A k : OfJob(u, k) = IF k = j THEN OfJob(t, k) \cup {x} ELSE OfJob(t, k)
    BY <1>4, <1>9, SumsOfMore
  <2> HIDE DEF x
  <2>2. Given(u, j) = Given(t, j) + Cardinality(E)
    BY <1>4, <1>9, SumsOfMore
  <2>3. Spares(t, u, j)
    BY <1>4, <1>9, SumsOfMore
  <2> QED BY <2>1, <2>2, <2>3
<1>11. Given(t, j) = 0
  BY NoneGiven
<1> QED BY <1>1, <1>3, <1>5, <1>7, <1>10, <1>11 DEF Whole

\* The recursive function of GangShares.
ShareTurn(a, n, j, c, W) == IF n \in W THEN GangShare(a, j, n, W, c) ELSE a

IsShared(f, last, j, c, t, W) ==
    f = [n \in 0..last |-> IF n = 0 THEN [needed |-> Req[j].gpus, taken |-> t]
                           ELSE ShareTurn(f[n - 1], n, j, c, W)]

LEMMA SharedExists ==
    ASSUME NEW last \in Nat, NEW j, NEW c, NEW t, NEW W
    PROVE  \E f : IsShared(f, last, j, c, t, W)
<1> DEFINE first == [needed |-> Req[j].gpus, taken |-> t]
           G == {m \in 0..last : \E f : IsShared(f, m, j, c, t, W)}
<1>1. 0 \in G
  <2> DEFINE f == [n \in 0..0 |-> first]
  <2>1. IsShared(f, 0, j, c, t, W)
    BY DEF IsShared
  <2> QED BY <2>1
<1>2. IsFiniteSet(G) /\ G \in SUBSET Nat
  <2>1. IsFiniteSet(0..last) /\ 0..last \in SUBSET Nat /\ G \in SUBSET (0..last)
    BY FS_Interval
  <2> HIDE DEF G
  <2> QED BY <2>1, FS_Subset
<1>3. PICK m \in G : \A k \in G : m >= k
  <2> HIDE DEF G
  <2> QED BY <1>1, <1>2, GreatestNumber
<1>4. ASSUME m # last PROVE FALSE
  <2>1. PICK f : IsShared(f, m, j, c, t, W)
    BY <1>3
  <2> DEFINE g == [n \in 0..(m + 1) |-> IF n = m + 1 THEN ShareTurn(f[m], m + 1, j, c, W) ELSE f[n]]
  <2>2. m \in 0..last /\ m + 1 \in 0..last
    BY <1>3, <1>4
  <2>3. \A n \in 0..(m + 1) : g[n] = IF n = 0 THEN first ELSE ShareTurn(g[n - 1], n, j, c, W)
    <3> TAKE n \in 0..(m + 1)
    <3>1. CASE n = m + 1
      BY <2>2, <3>1
    <3>2. CASE n # m + 1
      <4>1. n \in 0..m /\ g[n] = f[n]
        BY <2>2, <3>2
      <4>2. f[n] = IF n = 0 THEN first ELSE ShareTurn(f[n - 1], n, j, c, W)
        BY <2>1, <4>1 DEF IsShared
      <4>3. n # 0 => g[n - 1] = f[n - 1]
        BY <2>2, <4>1
      <4> QED BY <4>1, <4>2, <4>3
    <3> QED BY <3>1, <3>2
  <2>4. IsShared(g, m + 1, j, c, t, W)
    <3>1. g = [n \in 0..(m + 1) |-> g[n]]
      OBVIOUS
    <3> HIDE DEF g
    <3> QED BY <2>3, <3>1 DEF IsShared
  <2>5. m + 1 \in G
    <3> HIDE DEF g
    <3> QED BY <2>2, <2>4
  <2> QED BY <1>3, <2>2, <2>5
<1> QED BY <1>3, <1>4

\* The GPUs of the gang workers up to number n.
TotalUpTo(n, j, c, t) ==
    SumFunctionOnSet([w \in GangWorkers(j, c, t) |-> Cardinality(Candidates(j, w, c, t))],
                     {w \in GangWorkers(j, c, t) : w <= n})

LEMMA TotalUpToIs ==
    ASSUME NEW c, IsSnapshot(c), NEW j \in Jobs, NEW t, NEW n \in Nat
    PROVE  LET W == GangWorkers(j, c, t)
           IN  /\ TotalUpTo(n, j, c, t) \in Nat
               /\ TotalUpTo(0, j, c, t) = 0
               /\ TotalUpTo(n + 1, j, c, t)
                  = TotalUpTo(n, j, c, t)
                    + (IF n + 1 \in W THEN Cardinality(Candidates(j, n + 1, c, t)) ELSE 0)
               /\ (\A w \in W : w <= n) => TotalUpTo(n, j, c, t) = GangTotal(j, c, t)
<1> DEFINE W == GangWorkers(j, c, t)
           f == [w \in W |-> Cardinality(Candidates(j, w, c, t))]
           U(m) == {w \in W : w <= m}
<1>1. W \in SUBSET DOMAIN c /\ W \in SUBSET (Nat \ {0}) /\ IsFiniteSet(DOMAIN c)
  BY DEF GangWorkers, IsSnapshot
<1>2. \A w \in W : f[w] \in Nat
  BY <1>1, CandidatesAre
<1>3. /\ \A m : TotalUpTo(m, j, c, t) = SumFunctionOnSet(f, U(m))
      /\ GangTotal(j, c, t) = SumFunctionOnSet(f, W)
      /\ n + 1 \in W => f[n + 1] = Cardinality(Candidates(j, n + 1, c, t))
  BY DEF TotalUpTo, GangTotal, SumFunction
<1> HIDE DEF W, f
<1>4. IsFiniteSet(W)
  BY <1>1, FS_Subset
<1>5. \A m : IsFiniteSet(U(m)) /\ U(m) \in SUBSET W
  BY <1>4, FS_Subset
<1>6. TotalUpTo(n, j, c, t) \in Nat
  <2>1. \A w \in U(n) : f[w] \in Nat
    BY <1>2
  <2> HIDE DEF U
  <2> QED BY <1>3, <1>5, <2>1, SumIsNat
<1>7. TotalUpTo(0, j, c, t) = 0
  <2>1. U(0) = {}
    BY <1>1
  <2> HIDE DEF U
  <2> QED BY <1>3, <2>1, SumOfNone
<1>8. ASSUME n + 1 \in W PROVE TotalUpTo(n + 1, j, c, t) = TotalUpTo(n, j, c, t) + f[n + 1]
  <2>1. U(n + 1) = U(n) \cup {n + 1} /\ n + 1 \notin U(n)
    BY <1>1, <1>8
  <2>2. \A w \in U(n) \cup {n + 1} : f[w] \in Nat
    BY <1>2, <1>8
  <2> HIDE DEF U
  <2>3. SumFunctionOnSet(f, U(n) \cup {n + 1}) = SumFunctionOnSet(f, U(n)) + f[n + 1]
    BY <1>5, <2>1, <2>2, SumAdds
  <2> QED BY <1>3, <2>1, <2>3
<1>9. ASSUME n + 1 \notin W PROVE TotalUpTo(n + 1, j, c, t) = TotalUpTo(n, j, c, t)
  <2>1. U(n + 1) = U(n)
    BY <1>1, <1>9
  <2> HIDE DEF U
  <2> QED BY <1>3, <2>1
<1>10. (\A w \in W : w <= n) => TotalUpTo(n, j, c, t) = GangTotal(j, c, t)
  <2>1. (\A w \in W : w <= n) => U(n) = W
    OBVIOUS
  <2> HIDE DEF U
  <2> QED BY <1>3, <2>1
<1>11. TotalUpTo(n + 1, j, c, t)
       = TotalUpTo(n, j, c, t)
         + (IF n + 1 \in W THEN Cardinality(Candidates(j, n + 1, c, t)) ELSE 0)
  BY <1>3, <1>6, <1>8, <1>9
<1> QED BY <1>6, <1>7, <1>10, <1>11 DEF W
\* When the workers up to number n have given.
Sharing(a, n, j, c, t) ==
    /\ Handed(a.taken, c) /\ Grown(t, a.taken, c) /\ Spares(t, a.taken, j)
    /\ Given(a.taken, j) = Req[j].gpus - a.needed
    /\ \A m \in OfJob(a.taken, j) : a.taken.plan[m].worker <= n
    /\ \A w \in DOMAIN c : w > n => Candidates(j, w, c, a.taken) = Candidates(j, w, c, t)
    /\ a.needed = LessMonus(Req[j].gpus, TotalUpTo(n, j, c, t))

LEMMA NothingShared ==
    ASSUME NEW c, IsSnapshot(c), NEW t, Handed(t, c), NEW j \in Jobs, OfJob(t, j) = {}
    PROVE  Sharing([needed |-> Req[j].gpus, taken |-> t], 0, j, c, t)
<1> DEFINE a == [needed |-> Req[j].gpus, taken |-> t]
<1>1. a.needed = Req[j].gpus /\ a.taken = t /\ Req[j].gpus \in Nat
  BY RequestsAssumption DEF Jobs
<1> HIDE DEF a
<1>2. t.cpus \in [DOMAIN c -> Nat] /\ t.ram \in [DOMAIN c -> Nat]
  BY DEF Handed
<1>3. Grown(t, t, c)
  BY <1>2 DEF Grown
<1>4. Spares(t, t, j)
  BY DEF Spares
<1>5. a.needed = LessMonus(Req[j].gpus, TotalUpTo(0, j, c, t))
  <2>1. TotalUpTo(0, j, c, t) = 0
    BY TotalUpToIs
  <2> QED BY <1>1, <2>1 DEF LessMonus
<1>6. Given(t, j) = 0
  BY NoneGiven
<1>7. Sharing(a, 0, j, c, t)
  BY <1>1, <1>3, <1>4, <1>5, <1>6 DEF Sharing
<1> QED BY <1>7 DEF a

LEMMA ShareKeeps ==
    ASSUME NEW c, IsSnapshot(c), NEW t, Handed(t, c), NEW j \in Jobs, NEW n \in Nat,
           NEW a, Sharing(a, n, j, c, t)
    PROVE  Sharing(ShareTurn(a, n + 1, j, c, GangWorkers(j, c, t)), n + 1, j, c, t)
<1> DEFINE W == GangWorkers(j, c, t)
           x == n + 1
           gpus == Req[j].gpus
           b == ShareTurn(a, x, j, c, W)
           C == Candidates(j, x, c, a.taken)
           U(m) == TotalUpTo(m, j, c, t)
<1>1. gpus \in Nat /\ Req[j].cpus \in Nat /\ Req[j].ram \in Nat
  BY RequestsAssumption DEF Jobs
<1>2. /\ U(n) \in Nat
      /\ U(x) = U(n) + (IF x \in W THEN Cardinality(Candidates(j, x, c, t)) ELSE 0)
  BY TotalUpToIs
<1>3. a.needed = LessMonus(gpus, U(n)) /\ a.needed \in Nat
  BY <1>1, <1>2 DEF Sharing, LessMonus
<1>4. x \in Nat /\ x > n
  OBVIOUS
<1>5. W \in SUBSET DOMAIN c /\ IsFiniteSet(W) /\ \A w \in DOMAIN c : w \in Nat
  <2>1. W \in SUBSET DOMAIN c /\ IsFiniteSet(DOMAIN c) /\ \A w \in DOMAIN c : w \in Nat
    BY DEF GangWorkers, IsSnapshot
  <2> HIDE DEF W
  <2> QED BY <2>1, FS_Subset
\* The worker is none of the gang, or nothing is needed any more.
<1>6. ASSUME b = a, x \notin W \/ a.needed = 0 PROVE Sharing(b, x, j, c, t)
  <2>1. a.needed = LessMonus(gpus, U(x))
    <3>1. CASE x \notin W
      BY <1>2, <1>3, <3>1
    <3>2. CASE x \in W
      <4>1. Cardinality(Candidates(j, x, c, t)) \in Nat
        BY <1>5, <3>2, CandidatesAre
      <4>2. ~(gpus > U(n))
        BY <1>1, <1>2, <1>3, <1>6, <3>2 DEF LessMonus
      <4> HIDE DEF U, gpus
      <4> QED BY <1>1, <1>2, <1>3, <1>6, <3>2, <4>1, <4>2 DEF LessMonus
    <3> QED BY <3>1, <3>2
  <2>2. \A m \in OfJob(a.taken, j) : a.taken.plan[m].worker <= x
    <3> TAKE m \in OfJob(a.taken, j)
    <3>1. m \in DOMAIN a.taken.plan /\ a.taken.plan[m].worker <= n
      BY DEF Sharing, OfJob
    <3>2. a.taken.plan[m].worker \in Nat
      BY <1>5, <3>1, HandedTypes DEF Sharing
    <3> QED BY <3>1, <3>2
  <2>3. \A w \in DOMAIN c : w > x => Candidates(j, w, c, a.taken) = Candidates(j, w, c, t)
    <3> TAKE w \in DOMAIN c
    <3>1. w \in Nat
      BY <1>5
    <3> QED BY <3>1 DEF Sharing
  <2> HIDE DEF b, x
  <2> QED BY <1>6, <2>1, <2>2, <2>3 DEF Sharing
<1>7. ASSUME x \in W, a.needed # 0 PROVE Sharing(b, x, j, c, t)
  <2> DEFINE count == Min({Cardinality(C), a.needed})
             E == Lowest(count, C)
             cpus == AtLeastOne(Req[j].cpus \div Cardinality(W))
             ram == AtLeastOne(Req[j].ram \div Cardinality(W))
             u == Take(j, x, E, cpus, ram, a.taken)
  <2>1. x \in DOMAIN c /\ c[x].healthy
    BY <1>7 DEF GangWorkers
  <2>2. C \in SUBSET Nat /\ IsFiniteSet(C) /\ Cardinality(C) \in Nat
    BY <2>1, CandidatesAre
  <2>3. C = Candidates(j, x, c, t)
    BY <1>4, <2>1 DEF Sharing
  <2>4. b.needed = a.needed - count /\ b.taken = u
    BY <1>7 DEF ShareTurn, GangShare
  <2>5. count \in 0..Cardinality(C) /\ count \in 0..a.needed
        /\ (count = Cardinality(C) \/ count = a.needed)
    <3> DEFINE S == {Cardinality(C), a.needed}
    <3>1. S \in SUBSET Nat /\ S # {}
      BY <1>3, <2>2
    <3>2. Min(S) \in S /\ \A k \in S : Min(S) <= k
      <4> HIDE DEF S
      <4> QED BY <3>1, MinIsLeast
    <3> QED BY <1>3, <2>2, <3>2
  <2>6. cpus \in Nat /\ ram \in Nat
    <3>1. Cardinality(W) \in Nat /\ Cardinality(W) # 0
      <4> HIDE DEF W
      <4> QED BY <1>5, <1>7, FS_CardinalityType, FS_EmptySet
    <3>2. ASSUME NEW k \in Nat, NEW l \in Nat, l # 0 PROVE AtLeastOne(k \div l) \in Nat
      BY <3>2 DEF AtLeastOne
    <3> QED BY <1>1, <3>1, <3>2
  <2> HIDE DEF W, C, b, x, count
  <2>7. E \in SUBSET C /\ Cardinality(E) = count /\ IsFiniteSet(E) /\ E \in SUBSET Nat
    BY <2>2, <2>5, LowestIs, FS_Subset
  <2> HIDE DEF E, cpus, ram
  <2>8. Handed(a.taken, c) /\ Grown(t, a.taken, c) /\ Spares(t, a.taken, j)
    BY DEF Sharing
  <2>9. OfJob(a.taken, j) \cap OnWorker(a.taken, x) = {}
    <3>1. \A m \in OfJob(a.taken, j) : a.taken.plan[m].worker <= n
      BY DEF Sharing
    <3> QED BY <1>4, <3>1 DEF OnWorker
  <2>10. Handed(u, c)
    <3>1. E \in SUBSET Candidates(j, x, c, a.taken)
      BY <2>7 DEF C
    <3> QED BY <2>1, <2>6, <2>8, <2>9, <3>1, TakeKeepsHanded
  <2>11. /\ a.taken.plan \in Seq(Entries(c))
         /\ a.taken.cpus \in [DOMAIN c -> Nat] /\ a.taken.ram \in [DOMAIN c -> Nat]
         /\ t.cpus \in [DOMAIN c -> Nat] /\ t.ram \in [DOMAIN c -> Nat]
         /\ u.cpus \in [DOMAIN c -> Nat] /\ u.ram \in [DOMAIN c -> Nat]
    BY <2>8, <2>10 DEF Handed
  <2>12. Grown(t, u, c)
    <3>1. Grown(a.taken, u, c)
      BY <2>1, <2>6, <2>11, TakeGrows
    <3> QED BY <2>8, <2>11, <3>1, GrownTwice
  <2>13. EntryOf(j, x, E) \in Entries(c)
    BY <2>1, <2>7 DEF EntryOf, Entries
  <2>14. Extends(a.taken, u, EntryOf(j, x, E))
    BY <2>11, <2>13, TakeExtends
  <2>15. Spares(t, u, j) /\ Given(u, j) = Given(a.taken, j) + count
    <3>1. Spares(a.taken, u, j)
      BY <2>7, <2>8, <2>14, SumsOfMore
    <3>2. Given(u, j) = Given(a.taken, j) + Cardinality(E)
      BY <2>7, <2>8, <2>14, SumsOfMore
    <3>3. Spares(t, u, j)
      BY <2>8, <3>1 DEF Spares
    <3> QED BY <2>7, <3>2, <3>3
  <2>16. Given(u, j) = gpus - b.needed
    <3>1. Given(a.taken, j) = gpus - a.needed
      BY DEF Sharing
    <3> HIDE DEF gpus
    <3> QED BY <1>1, <1>3, <2>4, <2>5, <2>15, <3>1
  <2>17. \A m \in OfJob(u, j) : u.plan[m].worker <= x
    <3> TAKE m \in OfJob(u, j)
    <3> DEFINE y == Len(a.taken.plan) + 1
    <3>1. /\ DOMAIN u.plan = DOMAIN a.taken.plan \cup {y}
          /\ \A k \in DOMAIN a.taken.plan : u.plan[k] = a.taken.plan[k]
          /\ u.plan[y].worker = x
      BY <2>14 DEF Extends, EntryOf
    <3> HIDE DEF y, u
    <3>2. CASE m = y
      BY <1>4, <3>1, <3>2
    <3>3. CASE m \in DOMAIN a.taken.plan
      <4>1. m \in OfJob(a.taken, j) /\ u.plan[m] = a.taken.plan[m]
        BY <3>1, <3>3 DEF OfJob
      <4>2. a.taken.plan[m].worker <= n /\ a.taken.plan[m].worker \in Nat
        BY <1>5, <2>8, <3>3, <4>1, HandedTypes DEF Sharing
      <4> QED BY <1>4, <4>1, <4>2
    <3> QED BY <3>1, <3>2, <3>3 DEF OfJob
  <2>18. \A w \in DOMAIN c : w > x => Candidates(j, w, c, u) = Candidates(j, w, c, t)
    <3> SUFFICES ASSUME NEW w \in DOMAIN c, w > x
                 PROVE  Candidates(j, w, c, u) = Candidates(j, w, c, t)
      OBVIOUS
    <3>1. w \in Nat /\ w > n /\ w # x
      BY <1>4, <1>5
    <3>2. Candidates(j, w, c, a.taken) = Candidates(j, w, c, t)
      BY <3>1 DEF Sharing
    <3>3. u.busy = a.taken.busy \cup ({x} \X E)
      BY DEF Take
    <3>4. \A d : <<w, d>> \in u.busy <=> <<w, d>> \in a.taken.busy
      BY <3>1, <3>3
    <3>5. Candidates(j, w, c, u) = Candidates(j, w, c, a.taken)
      BY <3>4 DEF Candidates
    <3> QED BY <3>2, <3>5
  <2>19. b.needed = LessMonus(gpus, U(x))
    <3>1. U(x) = U(n) + Cardinality(C)
      BY <1>2, <1>7, <2>3
    <3> HIDE DEF gpus, U
    <3> QED BY <1>1, <1>2, <1>3, <2>2, <2>4, <2>5, <3>1 DEF LessMonus
  <2> HIDE DEF u
  <2> QED BY <2>4, <2>10, <2>12, <2>15, <2>16, <2>17, <2>18, <2>19 DEF Sharing
<1>8. b = a \/ (x \in W /\ a.needed # 0)
  BY DEF ShareTurn, GangShare
<1>9. CASE b = a /\ (x \notin W \/ a.needed = 0)
  BY <1>6, <1>9
<1>10. CASE x \in W /\ a.needed # 0
  BY <1>7, <1>10
<1> QED BY <1>8, <1>9, <1>10

LEMMA SharesAreWhole ==
    ASSUME NEW c, IsSnapshot(c), NEW t, Handed(t, c), NEW j \in Jobs, OfJob(t, j) = {},
           Req[j].gpus # 0, GangTotal(j, c, t) >= Req[j].gpus
    PROVE  Whole(j, c, t, GangShares(j, c, t))
<1> DEFINE W == GangWorkers(j, c, t)
           last == Max(W)
           first == [needed |-> Req[j].gpus, taken |-> t]
           f == CHOOSE g : IsShared(g, last, j, c, t, W)
           u == GangShares(j, c, t)
<1>1. Req[j].gpus \in Nat
  BY RequestsAssumption DEF Jobs
<1>2. W \in SUBSET Nat /\ IsFiniteSet(W)
  <2>1. W \in SUBSET DOMAIN c /\ IsFiniteSet(DOMAIN c) /\ DOMAIN c \in SUBSET Nat
    BY DEF GangWorkers, IsSnapshot
  <2> HIDE DEF W
  <2> QED BY <2>1, FS_Subset
<1>3. W # {}
  <2> SUFFICES ASSUME W = {} PROVE FALSE
    OBVIOUS
  <2> DEFINE g == [w \in W |-> Cardinality(Candidates(j, w, c, t))]
  <2>1. GangTotal(j, c, t) = SumFunctionOnSet(g, {})
    BY DEF GangTotal, SumFunction
  <2> HIDE DEF g
  <2>2. GangTotal(j, c, t) = 0
    BY <2>1, SumOfNone
  <2> QED BY <1>1, <2>2
<1>4. last \in Nat /\ \A w \in W : w <= last
  <2>1. Max(W) \in W /\ \A w \in W : Max(W) >= w
    <3> HIDE DEF W
    <3> QED BY <1>2, <1>3, MaxIsGreatest
  <2> QED BY <1>2, <2>1
<1>5. IsShared(f, last, j, c, t, W)
  <2> HIDE DEF last, W
  <2> QED BY <1>4, SharedExists
<1>6. u = f[last].taken
  BY DEF GangShares, IsShared, ShareTurn
<1> HIDE DEF f, last
<1>7. Sharing(f[last], last, j, c, t)
  <2> DEFINE G == {m \in 0..last : Sharing(f[m], m, j, c, t)}
  <2>1. 0 \in G
    <3>1. f[0] = first
      BY <1>4, <1>5 DEF IsShared
    <3>2. Sharing(f[0], 0, j, c, t)
      BY <3>1, NothingShared
    <3> QED BY <1>4, <3>2
  <2>2. IsFiniteSet(G) /\ G \in SUBSET Nat
    <3>1. IsFiniteSet(0..last) /\ 0..last \in SUBSET Nat /\ G \in SUBSET (0..last)
      BY <1>4, FS_Interval
    <3> HIDE DEF G
    <3> QED BY <3>1, FS_Subset
  <2>3. PICK m \in G : \A k \in G : m >= k
    <3> HIDE DEF G
    <3> QED BY <2>1, <2>2, GreatestNumber
  <2>4. ASSUME m # last PROVE FALSE
    <3>1. m \in Nat /\ m \in 0..last /\ m + 1 \in 0..last /\ m + 1 # 0 /\ (m + 1) - 1 = m
      BY <1>4, <2>3, <2>4
    <3>2. f[m + 1] = ShareTurn(f[m], m + 1, j, c, W)
      BY <1>5, <3>1 DEF IsShared
    <3>3. Sharing(f[m], m, j, c, t)
      BY <2>3
    <3>4. Sharing(f[m + 1], m + 1, j, c, t)
      BY <3>1, <3>2, <3>3, ShareKeeps
    <3>5. m + 1 \in G
      BY <3>1, <3>4
    <3> QED BY <2>3, <3>1, <3>5
  <2> QED BY <2>3, <2>4
<1>8. f[last].needed = 0
  <2>1. TotalUpTo(last, j, c, t) = GangTotal(j, c, t) /\ TotalUpTo(last, j, c, t) \in Nat
    BY <1>4, TotalUpToIs
  <2>2. f[last].needed = LessMonus(Req[j].gpus, TotalUpTo(last, j, c, t))
    BY <1>7 DEF Sharing
  <2> QED BY <1>1, <2>1, <2>2 DEF LessMonus
<1> HIDE DEF u
<1>9. /\ Handed(u, c) /\ Grown(t, u, c) /\ Spares(t, u, j)
      /\ Given(u, j) = Req[j].gpus
  BY <1>1, <1>6, <1>7, <1>8 DEF Sharing
<1>10. OfJob(u, j) # {}
  <2> SUFFICES ASSUME OfJob(u, j) = {} PROVE FALSE
    OBVIOUS
  <2> QED BY <1>9, NoneGiven
<1>11. Whole(j, c, t, u)
  BY <1>9, <1>10 DEF Whole
<1> QED BY <1>11 DEF u
-----------------------------------------------------------------------------
(* The invariant of a call *)

Setting == policy \in Policies /\ IsSnapshot(cluster) /\ pending \in SUBSET Jobs

\* Each waiting job is pending and waits once.
InLine ==
    /\ waiting \in Seq(pending)
    /\ \A i, k \in 1..Len(waiting) : i # k => waiting[i] # waiting[k]

Waits(j) == \E i \in 1..Len(waiting) : waiting[i] = j

Planned ==
    /\ Handed(taken, cluster)
    /\ \A n \in DOMAIN taken.plan : taken.plan[n].job \in pending /\ ~Waits(taken.plan[n].job)

\* The account of CPUs and RAM that all schedulers but the GangScheduler keep is
\* that of the jobs in the plan, one entry each.
Counted(t, c) ==
    /\ \A m, n \in DOMAIN t.plan : m # n => t.plan[m].job # t.plan[n].job
    /\ \A n \in DOMAIN t.plan :
          /\ Cardinality(t.plan[n].devices) = Req[t.plan[n].job].gpus
          /\ Req[t.plan[n].job].cpus <= c[t.plan[n].worker].cpus
    /\ \A w \in DOMAIN c :
          /\ CpusOn(t, w) = t.cpus[w] /\ t.cpus[w] <= c[w].cpus
          /\ RamOn(t, w) = t.ram[w] /\ t.ram[w] <= c[w].ram

PlacedWhole == \A j \in pending : OfJob(taken, j) # {} => Given(taken, j) = Req[j].gpus

\* Job j is left out: there is no place for it.
LeftOut(p, j, c, t) ==
    /\ Fitting(j, c, t) = {}
    /\ p = "GANG" => Req[j].gpus = 0 \/ GangTotal(j, c, t) < Req[j].gpus

RestLeftOut ==
    \A j \in pending : OfJob(taken, j) = {} /\ ~Waits(j) => LeftOut(policy, j, cluster, taken)

CallInv ==
    /\ Setting /\ InLine /\ Planned
    /\ policy # "GANG" => Counted(taken, cluster)
    /\ PlacedWhole /\ RestLeftOut

\* A job's turn: it is left out, or it is placed whole.
Turned(p, j, c, t, u) ==
    \/ LeftOut(p, j, c, t) /\ u = t
    \/ Whole(j, c, t, u) /\ (p # "GANG" => OnOne(j, c, t, u))

LEMMA TurnTurns ==
    ASSUME NEW c, IsSnapshot(c), NEW t, Handed(t, c), NEW j \in Jobs, OfJob(t, j) = {},
           NEW p, p # "GANG", NEW u, Turn(j, c, t, u)
    PROVE  Turned(p, j, c, t, u)
<1>1. CASE Fitting(j, c, t) = {}
  BY <1>1 DEF Turn, Turned, LeftOut
<1>2. CASE Fitting(j, c, t) # {}
  BY <1>2, OnOneIsWhole DEF Turn, Turned
<1> QED BY <1>1, <1>2

LEMMA GangTurns ==
    ASSUME NEW c, IsSnapshot(c), NEW t, Handed(t, c), NEW j \in Jobs, OfJob(t, j) = {}
    PROVE  Turned("GANG", j, c, t, GangPlace(t, j, c))
<1> DEFINE u == GangPlace(t, j, c)
           w == Min(Fitting(j, c, t))
<1>1. CASE Fitting(j, c, t) # {}
  <2>1. w \in Fitting(j, c, t)
    <3>1. Fitting(j, c, t) \in SUBSET Nat
      BY DEF Fitting, IsSnapshot
    <3> QED BY <1>1, <3>1, MinIsLeast
  <2>2. u = PlaceOn(j, w, c, t)
    BY <1>1 DEF GangPlace, PlaceOnFirst
  <2> HIDE DEF w, u
  <2>3. Whole(j, c, t, u)
    BY <2>1, <2>2, PlaceOnIsOnOne, OnOneIsWhole
  <2>4. Turned("GANG", j, c, t, u)
    BY <2>3 DEF Turned
  <2> QED BY <2>4 DEF u
<1>2. CASE Fitting(j, c, t) = {}
  <2>1. GangTotal(j, c, t) \in Nat /\ Req[j].gpus \in Nat
    <3>1. t.cpus \in [DOMAIN c -> Nat] /\ t.ram \in [DOMAIN c -> Nat]
      BY DEF Handed
    <3>2. Grown(t, t, c)
      BY <3>1 DEF Grown
    <3>3. GangTotal(j, c, t) \in Nat
      BY <3>1, <3>2, GrownFits
    <3> QED BY <3>3, RequestsAssumption DEF Jobs
  <2>2. u = GangSpread(j, c, t)
    BY <1>2 DEF GangPlace
  <2>3. CASE Req[j].gpus = 0 \/ GangTotal(j, c, t) < Req[j].gpus
    <3>1. u = t
      BY <2>2, <2>3 DEF GangSpread
    <3> HIDE DEF u
    <3> QED BY <1>2, <2>3, <3>1 DEF Turned, LeftOut, u
  <2>4. CASE ~(Req[j].gpus = 0 \/ GangTotal(j, c, t) < Req[j].gpus)
    <3>1. u = GangShares(j, c, t)
      BY <2>2, <2>4 DEF GangSpread
    <3>2. Req[j].gpus # 0 /\ GangTotal(j, c, t) >= Req[j].gpus
      BY <2>1, <2>4
    <3>3. Whole(j, c, t, GangShares(j, c, t))
      BY <3>2, SharesAreWhole
    <3> QED BY <3>1, <3>3 DEF Turned
  <2> QED BY <2>3, <2>4
<1> QED BY <1>1, <1>2

\* The head of the line.
LEMMA HeadOfLine ==
    ASSUME InLine, waiting # <<>>, waiting' = Tail(waiting)
    PROVE  /\ Head(waiting) \in pending /\ Waits(Head(waiting))
           /\ waiting' \in Seq(pending)
           /\ \A i, k \in 1..Len(waiting') : i # k => waiting'[i] # waiting'[k]
           /\ \A j : (\E i \in 1..Len(waiting') : waiting'[i] = j)
                     <=> Waits(j) /\ j # Head(waiting)
<1> DEFINE q == waiting
           r == Tail(q)
<1>1. q \in Seq(pending) /\ q # <<>>
  BY DEF InLine
<1>2. /\ r \in Seq(pending) /\ Len(r) = Len(q) - 1 /\ Len(q) \in Nat \ {0}
      /\ \A i \in 1..Len(r) : i + 1 \in 2..Len(q) /\ r[i] = q[i + 1]
      /\ Head(q) = q[1] /\ q[1] \in pending
  BY <1>1
<1>3. \A i, k \in 1..Len(q) : i # k => q[i] # q[k]
  BY DEF InLine
<1>4. waiting' = r
  OBVIOUS
<1> HIDE DEF r
<1>5. \A i, k \in 1..Len(r) : i # k => r[i] # r[k]
  BY <1>2, <1>3
<1>6. ASSUME NEW i \in 1..Len(r) PROVE r[i] # q[1] /\ \E k \in 1..Len(q) : q[k] = r[i]
  <2>1. i + 1 \in 1..Len(q) /\ i + 1 # 1 /\ 1 \in 1..Len(q) /\ r[i] = q[i + 1]
    BY <1>2
  <2> QED BY <1>3, <2>1
<1>7. ASSUME NEW k \in 1..Len(q), q[k] # q[1] PROVE \E i \in 1..Len(r) : r[i] = q[k]
  <2>1. k # 1
    BY <1>7
  <2>2. k - 1 \in 1..Len(r) /\ (k - 1) + 1 = k
    BY <1>2, <2>1
  <2> QED BY <1>2, <2>2
<1>8. 1 \in 1..Len(q)
  BY <1>2
<1>9. ASSUME NEW j
      PROVE  (\E i \in 1..Len(r) : r[i] = j) <=> Waits(j) /\ j # q[1]
  <2>1. ASSUME NEW i \in 1..Len(r), r[i] = j PROVE Waits(j) /\ j # q[1]
    BY <1>6, <2>1 DEF Waits
  <2>2. ASSUME NEW k \in 1..Len(q), q[k] = j, j # q[1] PROVE \E i \in 1..Len(r) : r[i] = j
    BY <1>7, <2>2
  <2> QED BY <2>1, <2>2 DEF Waits
<1>10. Head(waiting) \in pending /\ Waits(Head(waiting))
  BY <1>2, <1>8 DEF Waits
<1> QED BY <1>2, <1>4, <1>5, <1>9, <1>10

LEMMA CountedKept ==
    ASSUME NEW c, IsSnapshot(c), NEW t, Handed(t, c), Counted(t, c), NEW j \in Jobs,
           OfJob(t, j) = {}, NEW u, OnOne(j, c, t, u)
    PROVE  Counted(u, c)
<1>0. PICK w \in Fitting(j, c, t) :
         \E E \in SUBSET Candidates(j, w, c, t) :
            /\ Cardinality(E) = Req[j].gpus
            /\ u = Take(j, w, E, Req[j].cpus, Req[j].ram, t)
  BY DEF OnOne
<1>1. PICK E \in SUBSET Candidates(j, w, c, t) :
         /\ Cardinality(E) = Req[j].gpus
         /\ u = Take(j, w, E, Req[j].cpus, Req[j].ram, t)
  BY <1>0
<1>2. /\ w \in DOMAIN c /\ FreeCpus(w, c, t) >= Req[j].cpus /\ FreeRam(w, c, t) >= Req[j].ram
  BY DEF Fitting, FitsOn
<1>3. Req[j].cpus \in Nat /\ Req[j].ram \in Nat /\ Req[j].gpus \in Nat
  BY RequestsAssumption DEF Jobs
<1>4. E \in SUBSET Nat /\ IsFiniteSet(E)
  BY <1>2, CandidatesAre, FS_Subset
<1>5. t.cpus \in [DOMAIN c -> Nat] /\ t.ram \in [DOMAIN c -> Nat] /\ t.plan \in Seq(Entries(c))
  BY DEF Handed
<1>6. EntryOf(j, w, E) \in Entries(c)
  BY <1>2, <1>4 DEF EntryOf, Entries
<1>7. Extends(t, u, EntryOf(j, w, E))
  BY <1>1, <1>5, <1>6, TakeExtends
<1> DEFINE x == Len(t.plan) + 1
<1>8. /\ DOMAIN u.plan = DOMAIN t.plan \cup {x} /\ x \notin DOMAIN t.plan
      /\ \A n \in DOMAIN t.plan : u.plan[n] = t.plan[n]
      /\ u.plan[x].job = j /\ u.plan[x].worker = w /\ u.plan[x].devices = E
  BY <1>7 DEF Extends, EntryOf
<1>9. /\ u.cpus = [t.cpus EXCEPT ![w] = @ + Req[j].cpus]
      /\ u.ram = [t.ram EXCEPT ![w] = @ + Req[j].ram]
  BY <1>1 DEF Take
<1> HIDE DEF x
<1>10. /\ c[w].cpus \in Nat /\ c[w].ram \in Nat /\ t.cpus[w] \in Nat /\ t.ram[w] \in Nat
  BY <1>2, <1>5 DEF IsSnapshot
<1>11. /\ t.cpus[w] + Req[j].cpus <= c[w].cpus /\ t.ram[w] + Req[j].ram <= c[w].ram
  <2>1. t.cpus[w] <= c[w].cpus /\ t.ram[w] <= c[w].ram
    BY <1>2 DEF Counted
  <2> QED BY <1>2, <1>3, <1>10, <2>1 DEF FreeCpus, FreeRam, LessMonus
<1>12. \A n \in DOMAIN t.plan : t.plan[n].job # j
  BY DEF OfJob
<1>13. \A m, n \in DOMAIN u.plan : m # n => u.plan[m].job # u.plan[n].job
  BY <1>8, <1>12 DEF Counted
<1>14. Req[j].cpus <= c[w].cpus
  BY <1>3, <1>10, <1>11
<1>15. \A n \in DOMAIN u.plan :
          /\ Cardinality(u.plan[n].devices) = Req[u.plan[n].job].gpus
          /\ Req[u.plan[n].job].cpus <= c[u.plan[n].worker].cpus
  BY <1>1, <1>8, <1>14 DEF Counted
<1>16. Charges(t, u, j, w)
  BY <1>4, <1>7, SumsOfMore
<1>17. /\ CpusOn(u, w) = u.cpus[w] /\ u.cpus[w] <= c[w].cpus
       /\ RamOn(u, w) = u.ram[w] /\ u.ram[w] <= c[w].ram
  <2>1. CpusOn(u, w) = CpusOn(t, w) + Req[j].cpus
    BY <1>16 DEF Charges
  <2>2. RamOn(u, w) = RamOn(t, w) + Req[j].ram
    BY <1>16 DEF Charges
  <2>3. CpusOn(t, w) = t.cpus[w] /\ RamOn(t, w) = t.ram[w]
    BY <1>2 DEF Counted
  <2> QED BY <1>2, <1>5, <1>9, <1>11, <2>1, <2>2, <2>3
<1>18. ASSUME NEW v \in DOMAIN c, v # w
       PROVE  /\ CpusOn(u, v) = u.cpus[v] /\ u.cpus[v] <= c[v].cpus
              /\ RamOn(u, v) = u.ram[v] /\ u.ram[v] <= c[v].ram
  <2>1. CpusOn(u, v) = CpusOn(t, v) /\ RamOn(u, v) = RamOn(t, v)
    BY <1>18, <1>16 DEF Charges
  <2>2. u.cpus[v] = t.cpus[v] /\ u.ram[v] = t.ram[v]
    BY <1>5, <1>9, <1>18
  <2> QED BY <2>1, <2>2 DEF Counted
<1> QED BY <1>13, <1>15, <1>17, <1>18 DEF Counted

LEMMA TurnedKeeps ==
    ASSUME CallInv, waiting # <<>>, waiting' = Tail(waiting), UNCHANGED <<policy, cluster, pending>>,
           Turned(policy, Head(waiting), cluster, taken, taken')
    PROVE  CallInv'
<1> DEFINE j == Head(waiting)
           t == taken
           u == taken'
           c == cluster
           Wait(k) == \E i \in 1..Len(waiting') : waiting'[i] = k
<1>1. /\ Setting /\ InLine /\ Planned /\ PlacedWhole /\ RestLeftOut
      /\ policy # "GANG" => Counted(t, c)
  BY DEF CallInv
<1>2. /\ j \in pending /\ Waits(j)
      /\ waiting' \in Seq(pending)
      /\ \A i, k \in 1..Len(waiting') : i # k => waiting'[i] # waiting'[k]
      /\ \A k : Wait(k) <=> Waits(k) /\ k # j
  BY <1>1, HeadOfLine
<1>3. j \in Jobs /\ IsSnapshot(c) /\ Handed(t, c) /\ policy \in Policies
  BY <1>1, <1>2 DEF Setting, Planned
<1>4. OfJob(t, j) = {}
  BY <1>1, <1>2 DEF Planned, OfJob
<1>5. Setting' /\ InLine'
  BY <1>1, <1>2 DEF Setting, InLine
<1>6. \A k : Waits(k)' <=> Wait(k)
  BY DEF Waits
<1>7. /\ policy' = policy /\ cluster' = c /\ pending' = pending
      /\ Turned(policy, j, c, t, u)
  OBVIOUS
<1> HIDE DEF j, Wait
<1>8. CASE LeftOut(policy, j, c, t) /\ u = t
  <2>1. Planned'
    BY <1>1, <1>2, <1>6, <1>7, <1>8 DEF Planned
  <2>2. PlacedWhole'
    BY <1>1, <1>7, <1>8 DEF PlacedWhole
  <2>3. RestLeftOut'
    <3> SUFFICES ASSUME NEW k \in pending, OfJob(t, k) = {}, ~Wait(k)
                 PROVE  LeftOut(policy, k, c, t)
      BY <1>6, <1>7, <1>8 DEF RestLeftOut
    <3>1. CASE k = j
      BY <1>8, <3>1
    <3>2. CASE k # j
      BY <1>1, <1>2, <3>2 DEF RestLeftOut
    <3> QED BY <3>1, <3>2
  <2> QED BY <1>1, <1>5, <1>7, <1>8, <2>1, <2>2, <2>3 DEF CallInv
<1>9. CASE Whole(j, c, t, u) /\ (policy # "GANG" => OnOne(j, c, t, u))
  <2>1. /\ Handed(u, c) /\ Grown(t, u, c) /\ Given(u, j) = Req[j].gpus /\ OfJob(u, j) # {}
        /\ \A k : k # j => OfJob(u, k) = OfJob(t, k) /\ Given(u, k) = Given(t, k)
    BY <1>9 DEF Whole, Spares
  <2>2. Planned'
    <3> SUFFICES ASSUME NEW n \in DOMAIN u.plan
                 PROVE  u.plan[n].job \in pending /\ ~Wait(u.plan[n].job)
      BY <1>6, <1>7, <2>1 DEF Planned
    <3> DEFINE k == u.plan[n].job
    <3>1. n \in OfJob(u, k)
      BY DEF OfJob
    <3>2. CASE k = j
      BY <1>2, <3>2
    <3>3. CASE k # j
      <4>1. n \in OfJob(t, k)
        BY <2>1, <3>1, <3>3
      <4>2. k \in pending /\ ~Waits(k)
        BY <1>1, <4>1 DEF OfJob, Planned
      <4> QED BY <1>2, <4>2
    <3> QED BY <3>2, <3>3
  <2>3. PlacedWhole'
    BY <1>1, <1>7, <2>1 DEF PlacedWhole
  <2>4. RestLeftOut'
    <3> SUFFICES ASSUME NEW k \in pending, OfJob(u, k) = {}, ~Wait(k)
                 PROVE  LeftOut(policy, k, c, u)
      BY <1>6, <1>7 DEF RestLeftOut
    <3>1. k # j /\ OfJob(t, k) = {} /\ k \in Jobs
      BY <1>1, <2>1 DEF Setting
    <3>2. LeftOut(policy, k, c, t)
      BY <1>1, <1>2, <3>1 DEF RestLeftOut
    <3>3. /\ t.cpus \in [DOMAIN c -> Nat] /\ t.ram \in [DOMAIN c -> Nat]
          /\ u.cpus \in [DOMAIN c -> Nat] /\ u.ram \in [DOMAIN c -> Nat]
      BY <1>3, <2>1 DEF Handed
    <3>4. Fitting(k, c, u) \subseteq Fitting(k, c, t)
      BY <1>3, <2>1, <3>1, <3>3, GrownFits
    <3>5. /\ GangTotal(k, c, u) <= GangTotal(k, c, t)
          /\ GangTotal(k, c, u) \in Nat /\ GangTotal(k, c, t) \in Nat
      BY <1>3, <2>1, <3>1, <3>3, GrownFits
    <3>6. Req[k].gpus \in Nat
      BY <3>1, RequestsAssumption DEF Jobs
    <3> QED BY <3>2, <3>4, <3>5, <3>6 DEF LeftOut
  <2>5. policy # "GANG" => Counted(u, c)
    BY <1>1, <1>3, <1>4, <1>9, CountedKept
  <2> QED BY <1>5, <1>7, <2>2, <2>3, <2>4, <2>5 DEF CallInv
<1> QED BY <1>7, <1>8, <1>9 DEF Turned

-----------------------------------------------------------------------------
(* The steps of a call *)

\* Nothing has been handed out.
LEMMA NothingHanded ==
    ASSUME NEW c, IsSnapshot(c)
    PROVE  LET t == NothingTaken(c)
           IN  Handed(t, c) /\ Counted(t, c) /\ \A j : OfJob(t, j) = {}
<1> DEFINE t == NothingTaken(c)
<1>1. /\ t.plan = <<>> /\ t.busy = {}
      /\ t.cpus = [w \in DOMAIN c |-> 0] /\ t.ram = [w \in DOMAIN c |-> 0]
  BY DEF NothingTaken
<1> HIDE DEF t
<1>2. t.plan \in Seq(Entries(c)) /\ DOMAIN t.plan = {}
  BY <1>1
<1>3. Handed(t, c)
  BY <1>1, <1>2 DEF Handed
<1>4. ASSUME NEW w \in DOMAIN c
      PROVE  CpusOn(t, w) = 0 /\ RamOn(t, w) = 0
  <2> DEFINE f == [n \in OnWorker(t, w) |-> Req[t.plan[n].job].cpus]
             g == [n \in OnWorker(t, w) |-> Req[t.plan[n].job].ram]
  <2>1. OnWorker(t, w) = {}
    BY <1>2 DEF OnWorker
  <2>2. DOMAIN f = {} /\ DOMAIN g = {}
    BY <2>1
  <2>3. CpusOn(t, w) = SumFunction(f) /\ RamOn(t, w) = SumFunction(g)
    BY DEF CpusOn, RamOn
  <2> HIDE DEF f, g
  <2>4. SumFunction(f) = SumFunctionOnSet(f, {}) /\ SumFunction(g) = SumFunctionOnSet(g, {})
    BY <2>2 DEF SumFunction
  <2> QED BY <2>3, <2>4, SumOfNone
<1>5. ASSUME NEW w \in DOMAIN c
      PROVE  /\ CpusOn(t, w) = t.cpus[w] /\ t.cpus[w] <= c[w].cpus
             /\ RamOn(t, w) = t.ram[w] /\ t.ram[w] <= c[w].ram
  <2>1. c[w].cpus \in Nat /\ c[w].ram \in Nat
    BY DEF IsSnapshot
  <2> QED BY <1>1, <1>4, <2>1
<1>6. Counted(t, c)
  BY <1>2, <1>5 DEF Counted
<1>7. \A j : OfJob(t, j) = {}
  BY <1>2 DEF OfJob
<1> QED BY <1>3, <1>6, <1>7 DEF t

\* A call begins.
LEMMA CallBegins ==
    ASSUME Setting, Lists(waiting, pending), taken = NothingTaken(cluster)
    PROVE  CallInv
<1>1. Handed(taken, cluster) /\ Counted(taken, cluster) /\ \A j : OfJob(taken, j) = {}
  BY NothingHanded DEF Setting
<1>2. DOMAIN taken.plan = {}
  BY DEF NothingTaken
<1>3. InLine /\ \A j \in pending : Waits(j)
  BY DEF Lists, InLine, Waits
<1>4. Planned /\ PlacedWhole /\ RestLeftOut
  BY <1>1, <1>2, <1>3 DEF Planned, PlacedWhole, RestLeftOut
<1> QED BY <1>1, <1>3, <1>4 DEF CallInv

LEMMA CallBeginsNext ==
    ASSUME Setting', Lists(waiting', pending'), taken' = NothingTaken(cluster')
    PROVE  CallInv'
<1>1. Handed(taken', cluster') /\ Counted(taken', cluster') /\ \A j : OfJob(taken', j) = {}
  BY NothingHanded DEF Setting
<1>2. DOMAIN taken'.plan = {}
  BY DEF NothingTaken
<1>3. InLine' /\ \A j \in pending' : Waits(j)'
  BY DEF Lists, InLine, Waits
<1>4. Planned' /\ PlacedWhole' /\ RestLeftOut'
  BY <1>1, <1>2, <1>3 DEF Planned, PlacedWhole, RestLeftOut
<1> QED BY <1>1, <1>3, <1>4 DEF CallInv

\* What each algorithm does with the job at the head of the line.
LEMMA PlaceTurns ==
    ASSUME CallInv, Place
    PROVE  /\ waiting # <<>> /\ waiting' = Tail(waiting) /\ UNCHANGED <<policy, cluster, pending>>
           /\ Turned(policy, Head(waiting), cluster, taken, taken')
<1> DEFINE j == Head(waiting)
           c == cluster
           t == taken
           Step == waiting # <<>> /\ waiting' = Tail(waiting) /\ UNCHANGED <<policy, cluster, pending>>
<1>1. Setting /\ InLine /\ Planned
  BY DEF CallInv
<1>2. Step
  BY DEF Place, FirstFitNext, BestFitNext, BinPackNext, MemoryAwareNext, TopologyNext,
         GangNext, RandomNext, Consider
<1>3. /\ j \in Jobs /\ IsSnapshot(c) /\ Handed(t, c) /\ OfJob(t, j) = {}
      /\ t.cpus \in [DOMAIN c -> Nat] /\ t.ram \in [DOMAIN c -> Nat]
  <2>1. j \in pending /\ Waits(j)
    BY <1>1, <1>2, HeadOfLine
  <2> HIDE DEF j
  <2> QED BY <1>1, <2>1 DEF Setting, Planned, Handed, OfJob
<1> HIDE DEF j
<1>4. ASSUME policy # "GANG", Turn(j, c, t, taken')
      PROVE  Turned(policy, j, c, t, taken')
  BY <1>3, <1>4, TurnTurns
<1>5. CASE FirstFitNext
  <2>1. policy # "GANG" /\ taken' = FIFOPlace(t, j, c)
    BY <1>5 DEF FirstFitNext, Consider, j
  <2> QED BY <1>2, <1>3, <1>4, <2>1, FIFOTurn DEF j
<1>6. CASE BestFitNext
  <2>1. policy # "GANG" /\ taken' = BestFitPlace(t, j, c)
    BY <1>6 DEF BestFitNext, Consider, j
  <2>2. Turn(j, c, t, BestFitPlace(t, j, c))
    BY <1>3, TightTurns
  <2> QED BY <1>2, <1>4, <2>1, <2>2 DEF j
<1>7. CASE BinPackNext
  <2>1. policy # "GANG" /\ taken' = BinPackPlace(t, j, c)
    BY <1>7 DEF BinPackNext, Consider, j
  <2>2. Turn(j, c, t, BinPackPlace(t, j, c))
    BY <1>3, TightTurns
  <2> QED BY <1>2, <1>4, <2>1, <2>2 DEF j
<1>8. CASE MemoryAwareNext
  <2>1. policy # "GANG"
    BY <1>8 DEF MemoryAwareNext, Consider
  <2>2. CASE Fitting(j, c, t) = {}
    <3>1. taken' = t
      BY <1>8, <2>2 DEF MemoryAwareNext, j
    <3>2. Turn(j, c, t, taken')
      BY <2>2, <3>1 DEF Turn
    <3> QED BY <1>2, <1>4, <2>1, <3>2 DEF j
  <2>3. CASE Fitting(j, c, t) # {}
    <3>1. PICK w \in MostMemory(j, c, t) : taken' = MemoryAwarePlace(t, j, w, c)
      BY <1>8, <2>3 DEF MemoryAwareNext, j
    <3>2. OnOne(j, c, t, taken')
      BY <1>3, <3>1, MemoryTurn
    <3>3. Turn(j, c, t, taken')
      BY <2>3, <3>2 DEF Turn
    <3> QED BY <1>2, <1>4, <2>1, <3>3 DEF j
  <2> QED BY <2>2, <2>3
<1>9. CASE TopologyNext
  <2>1. policy # "GANG" /\ taken' = TopologyPlace(t, j, c)
    BY <1>9 DEF TopologyNext, Consider, j
  <2> QED BY <1>2, <1>3, <1>4, <2>1, TopologyTurn DEF j
<1>10. CASE GangNext
  <2>1. policy = "GANG" /\ taken' = GangPlace(t, j, c)
    BY <1>10 DEF GangNext, Consider, j
  <2>2. Turned("GANG", j, c, t, GangPlace(t, j, c))
    BY <1>3, GangTurns
  <2> QED BY <1>2, <2>1, <2>2 DEF j
<1>11. CASE RandomNext
  <2>1. policy # "GANG"
    BY <1>11 DEF RandomNext, Consider
  <2>2. CASE Fitting(j, c, t) = {}
    <3>1. taken' = t
      BY <1>11, <2>2 DEF RandomNext, j
    <3>2. Turn(j, c, t, taken')
      BY <2>2, <3>1 DEF Turn
    <3> QED BY <1>2, <1>4, <2>1, <3>2 DEF j
  <2>3. CASE Fitting(j, c, t) # {}
    <3>1. PICK w \in Fitting(j, c, t) :
             \E E \in kSubset(Req[j].gpus, Candidates(j, w, c, t)) :
                taken' = Take(j, w, E, Req[j].cpus, Req[j].ram, t)
      BY <1>11, <2>3 DEF RandomNext, j
    <3>2. PICK E \in kSubset(Req[j].gpus, Candidates(j, w, c, t)) :
             taken' = Take(j, w, E, Req[j].cpus, Req[j].ram, t)
      BY <3>1
    <3>3. E \in SUBSET Candidates(j, w, c, t) /\ Cardinality(E) = Req[j].gpus
      BY <3>2 DEF kSubset
    <3>4. OnOne(j, c, t, taken')
      BY <3>2, <3>3 DEF OnOne
    <3>5. Turn(j, c, t, taken')
      BY <2>3, <3>4 DEF Turn
    <3> QED BY <1>2, <1>4, <2>1, <3>5 DEF j
  <2> QED BY <2>2, <2>3
<1> QED BY <1>5, <1>6, <1>7, <1>8, <1>9, <1>10, <1>11 DEF Place

LEMMA PlaceKeeps == ASSUME CallInv, Place PROVE CallInv'
  BY PlaceTurns, TurnedKeeps

\* Any call of a scheduler keeps it, too.
LEMMA NextKeeps == ASSUME CallInv, Next PROVE CallInv'
<1>1. CASE Schedule
  <2>1. PICK c \in Clusters :
           \E jobs \in SUBSET Jobs, now \in Times :
              /\ pending' = jobs /\ cluster' = c
              /\ waiting' = Order(policy, jobs, now)
              /\ taken' = NothingTaken(c)
    BY <1>1 DEF Schedule
  <2>2. PICK jobs \in SUBSET Jobs : \E now \in Times :
              /\ pending' = jobs /\ cluster' = c
              /\ waiting' = Order(policy, jobs, now)
              /\ taken' = NothingTaken(c)
    BY <2>1
  <2>3. PICK now \in Times :
              /\ pending' = jobs /\ cluster' = c
              /\ waiting' = Order(policy, jobs, now)
              /\ taken' = NothingTaken(c)
    BY <2>2
  <2>4. policy' = policy /\ policy \in Policies
    BY <1>1 DEF Schedule, CallInv, Setting
  <2>5. Lists(waiting', pending')
    BY <2>3, <2>4, TimesAssumption, OrderLists
  <2>6. Setting'
    BY <2>3, <2>4, SnapshotsAssumption DEF Setting
  <2> QED BY <2>3, <2>5, <2>6, CallBeginsNext
<1>2. CASE Place
  BY <1>2, PlaceKeeps
<1> QED BY <1>1, <1>2 DEF Next

-----------------------------------------------------------------------------
(* What follows from the invariant of a call *)

LEMMA PlanNames ==
    /\ \A j : EntriesOf(j) = OfJob(taken, j)
    /\ \A w : EntriesOn(w) = OnWorker(taken, w)
  BY DEF EntriesOf, EntriesOn, OfJob, OnWorker, Plan

LEMMA CallTyped == ASSUME CallInv PROVE TypeOK
<1>1. Setting /\ InLine /\ Planned /\ Handed(taken, cluster)
  BY DEF CallInv, Planned
<1>2. \A w \in DOMAIN cluster : cluster[w].free \in [cluster[w].devices -> Nat]
  BY <1>1 DEF Setting, IsSnapshot
<1>3. \A j : j \in ToSet(waiting) <=> Waits(j)
  BY <1>1 DEF ToSet, InLine, Waits
<1>4. ToSet(waiting) \subseteq pending
  BY <1>1 DEF ToSet, InLine
<1>5. taken.busy \subseteq UNION {{w} \X cluster[w].devices : w \in DOMAIN cluster}
  BY <1>1 DEF Handed
<1>6. taken.cpus \in [DOMAIN cluster -> Nat] /\ taken.ram \in [DOMAIN cluster -> Nat]
  BY <1>1 DEF Handed
<1>7. \A n \in DOMAIN Plan : Plan[n].job \in pending \ ToSet(waiting)
  BY <1>1, <1>3 DEF Planned, Plan
<1> QED BY <1>1, <1>2, <1>4, <1>5, <1>6, <1>7 DEF Setting, TypeOK

\* Nothing is given twice, and CPUs and RAM not more than there are.
LEMMA CallWithinCapacity == ASSUME CallInv PROVE WithinCapacity
<1>1. Handed(taken, cluster) /\ (policy # "GANG" => Counted(taken, cluster))
  BY DEF CallInv, Planned
<1> SUFFICES ASSUME NEW w \in DOMAIN cluster
             PROVE  /\ \A m, n \in OnWorker(taken, w) : m # n => Plan[m].devices \cap Plan[n].devices = {}
                    /\ \A n \in OnWorker(taken, w) :
                          /\ cluster[w].healthy
                          /\ Plan[n].devices \subseteq cluster[w].devices
                          /\ \A d \in Plan[n].devices : Req[Plan[n].job].vram <= cluster[w].free[d]
                    /\ policy # "GANG" =>
                          /\ CpusOn(taken, w) <= cluster[w].cpus
                          /\ RamOn(taken, w) <= cluster[w].ram
  BY PlanNames DEF WithinCapacity, CpusOn, RamOn, Plan
<1>2. \A n \in OnWorker(taken, w) : n \in DOMAIN taken.plan /\ taken.plan[n].worker = w
  BY DEF OnWorker
<1>3. \A m, n \in OnWorker(taken, w) : m # n => Plan[m].devices \cap Plan[n].devices = {}
  BY <1>1, <1>2 DEF Handed, Plan
<1>4. \A n \in OnWorker(taken, w) :
         /\ cluster[w].healthy
         /\ Plan[n].devices \subseteq cluster[w].devices
         /\ \A d \in Plan[n].devices : Req[Plan[n].job].vram <= cluster[w].free[d]
  BY <1>1, <1>2 DEF Handed, Plan
<1>5. policy # "GANG" => CpusOn(taken, w) <= cluster[w].cpus /\ RamOn(taken, w) <= cluster[w].ram
  BY <1>1 DEF Counted
<1> QED BY <1>3, <1>4, <1>5

\* A job in the plan has all that it asked for.
LEMMA CallWholeOrNothing == ASSUME CallInv PROVE WholeOrNothing
<1>1. /\ Planned /\ Handed(taken, cluster) /\ PlacedWhole
      /\ policy # "GANG" => Counted(taken, cluster)
  BY DEF CallInv, Planned
<1> SUFFICES ASSUME NEW j \in Jobs, OfJob(taken, j) # {}
             PROVE  /\ Given(taken, j) = Req[j].gpus
                    /\ \A m, n \in OfJob(taken, j) : m # n => Plan[m].worker # Plan[n].worker
                    /\ policy # "GANG" => Cardinality(OfJob(taken, j)) = 1
  BY PlanNames DEF WholeOrNothing, Placed, Given, Plan
<1>2. \A n \in OfJob(taken, j) : n \in DOMAIN taken.plan /\ taken.plan[n].job = j
  BY DEF OfJob
<1>3. j \in pending
  BY <1>1, <1>2 DEF Planned
<1>4. Given(taken, j) = Req[j].gpus
  BY <1>1, <1>3 DEF PlacedWhole
<1>5. \A m, n \in OfJob(taken, j) : m # n => Plan[m].worker # Plan[n].worker
  BY <1>1, <1>2 DEF Handed, Plan
<1>6. ASSUME policy # "GANG" PROVE Cardinality(OfJob(taken, j)) = 1
  <2>1. PICK n \in OfJob(taken, j) : TRUE
    OBVIOUS
  <2>2. \A m \in OfJob(taken, j) : m = n
    BY <1>1, <1>2, <1>6 DEF Counted
  <2>3. OfJob(taken, j) = {n}
    BY <2>2
  <2> QED BY <2>3, FS_Singleton
<1> QED BY <1>4, <1>5, <1>6

\* When the call returns, there is no place for the jobs that are not in the plan.
LEMMA CallNothingFittingLeft == ASSUME CallInv PROVE NothingFittingLeft
<1> SUFFICES ASSUME waiting = <<>>, NEW j \in pending, j \notin Placed
             PROVE  LeftOut(policy, j, cluster, taken)
  BY DEF NothingFittingLeft, LeftOut
<1>1. Setting /\ RestLeftOut
  BY DEF CallInv
<1>2. OfJob(taken, j) = {}
  BY <1>1, PlanNames DEF Placed, Setting
<1>3. ~Waits(j)
  BY DEF Waits
<1> QED BY <1>1, <1>2, <1>3 DEF RestLeftOut

\* The best placement: what is added to the plan is an entry of the policy's choice.
LEMMA PlaceBest == ASSUME CallInv, Place PROVE NewEntriesBest
<1> DEFINE j == Head(waiting)
           c == cluster
           t == taken
<1>1. Setting /\ InLine /\ Planned
  BY DEF CallInv
<1>2. waiting # <<>> /\ waiting' = Tail(waiting)
  BY PlaceTurns
<1>3. j \in Jobs /\ IsSnapshot(c) /\ Handed(t, c)
  <2>1. j \in pending
    BY <1>1, <1>2, HeadOfLine
  <2> HIDE DEF j
  <2> QED BY <1>1, <2>1 DEF Setting, Planned
<1> HIDE DEF j
<1>4. ASSUME NEW w \in DOMAIN c, NEW E \in SUBSET Candidates(j, w, c, t),
             taken' = Take(j, w, E, Req[j].cpus, Req[j].ram, t),
             NEW n \in DOMAIN taken'.plan \ DOMAIN Plan
      PROVE  taken'.plan[n] = EntryOf(j, w, E)
  <2>1. E \in SUBSET Nat
    BY <1>3, CandidatesAre
  <2>2. EntryOf(j, w, E) \in Entries(c) /\ t.plan \in Seq(Entries(c))
    BY <1>3, <2>1 DEF EntryOf, Entries, Handed
  <2>3. Extends(t, Take(j, w, E, Req[j].cpus, Req[j].ram, t), EntryOf(j, w, E))
    BY <2>2, TakeExtends
  <2>4. Extends(t, taken', EntryOf(j, w, E))
    BY <1>4, <2>3
  <2> QED BY <2>4 DEF Extends, Plan
<1>5. CASE MemoryAwareNext /\ Fitting(j, c, t) # {}
  <2>1. PICK w \in MostMemory(j, c, t) : taken' = MemoryAwarePlace(t, j, w, c)
    BY <1>5 DEF MemoryAwareNext, j
  <2>2. w \in DOMAIN c /\ w \in Fitting(j, c, t)
    BY DEF MostMemory, Fitting
  <2> DEFINE E == LargestDevices(j, w, c, t)
  <2>3. E \in SUBSET Candidates(j, w, c, t)
    BY DEF LargestDevices, Foremost
  <2>4. taken' = Take(j, w, E, Req[j].cpus, Req[j].ram, t)
    BY <2>1 DEF MemoryAwarePlace
  <2>5. policy = "MEMORY_AWARE"
    BY <1>5 DEF MemoryAwareNext, Consider
  <2>6. \A v \in Fitting(j, c, t) : \A T \in kSubset(Req[j].gpus, Candidates(j, v, c, t)) :
           MemoryOf(v, T, c) <= MemoryOf(w, E, c)
    BY <1>3, MemoryBest
  <2> HIDE DEF E
  <2> SUFFICES ASSUME NEW n \in DOMAIN taken'.plan \ DOMAIN Plan
               PROVE  LET e == taken'.plan[n]
                      IN  \A p \in Placements(e.job) :
                             MemoryOf(p[1], p[2], c) <= MemoryOf(e.worker, e.devices, c)
    BY <2>5 DEF NewEntriesBest
  <2>7. taken'.plan[n] = EntryOf(j, w, E)
    BY <1>4, <2>2, <2>3, <2>4
  <2> QED BY <2>6, <2>7 DEF EntryOf, Placements
<1>6. CASE TopologyNext /\ Fitting(j, c, t) # {}
  <2> DEFINE w == BestConnected(j, c, t)
             E == BestClique(j, w, c, t)
  <2>1. w \in Fitting(j, c, t)
    BY <1>3, <1>6, BestConnectedIs
  <2>2. w \in DOMAIN c
    BY <2>1 DEF Fitting
  <2>3. taken' = Take(j, w, E, Req[j].cpus, Req[j].ram, t)
    BY <1>6 DEF TopologyNext, TopologyPlace, j
  <2>4. policy = "TOPOLOGY_AWARE"
    BY <1>6 DEF TopologyNext, Consider
  <2>5. \A v \in Fitting(j, c, t) : \A T \in kSubset(Req[j].gpus, Candidates(j, v, c, t)) :
           GroupScore(v, T, c) <= GroupScore(w, E, c)
    BY <1>3, <1>6, TopologyBest
  <2>6. E \in SUBSET Candidates(j, w, c, t)
    <3>1. E \in kSubset(Req[j].gpus, Candidates(j, w, c, t))
      <4> HIDE DEF w
      <4> QED BY <1>3, <2>1, BestCliqueIs
    <3> HIDE DEF E, w
    <3> QED BY <3>1 DEF kSubset
  <2> HIDE DEF w, E
  <2> SUFFICES ASSUME NEW n \in DOMAIN taken'.plan \ DOMAIN Plan
               PROVE  LET e == taken'.plan[n]
                      IN  \A p \in Placements(e.job) :
                             GroupScore(p[1], p[2], c) <= GroupScore(e.worker, e.devices, c)
    BY <2>4 DEF NewEntriesBest
  <2>7. taken'.plan[n] = EntryOf(j, w, E)
    BY <1>4, <2>2, <2>3, <2>6
  <2> QED BY <2>5, <2>7 DEF EntryOf, Placements
<1>7. CASE (MemoryAwareNext \/ TopologyNext) /\ Fitting(j, c, t) = {}
  <2>1. taken' = t
    BY <1>7 DEF MemoryAwareNext, TopologyNext, TopologyPlace, j
  <2> QED BY <2>1 DEF NewEntriesBest, Plan
<1>8. CASE policy # "MEMORY_AWARE" /\ policy # "TOPOLOGY_AWARE"
  BY <1>8 DEF NewEntriesBest
<1>9. (MemoryAwareNext \/ TopologyNext) \/ (policy # "MEMORY_AWARE" /\ policy # "TOPOLOGY_AWARE")
  BY DEF Place, FirstFitNext, BestFitNext, BinPackNext, GangNext, RandomNext, Consider
<1> QED BY <1>5, <1>6, <1>7, <1>8, <1>9

LEMMA NextBest == ASSUME CallInv, Next PROVE NewEntriesBest
<1>1. CASE Schedule
  <2>1. DOMAIN taken'.plan = {}
    BY <1>1 DEF Schedule, NothingTaken
  <2> QED BY <2>1 DEF NewEntriesBest
<1> QED BY <1>1, PlaceBest DEF Next

-----------------------------------------------------------------------------
(* The memory that allocations hold *)

Holders(A, w, d) == {b \in A : b.worker = w /\ d \in b.devices}

LEMMA HeldIsSum ==
    ASSUME NEW S, IsFiniteSet(S), NEW A \in SUBSET S, NEW w, NEW d,
           NEW f, \A a \in S : f[a] = Req[a.job].vram
    PROVE  HeldOf(A, w, d) = SumFunctionOnSet(f, Holders(A, w, d))
<1> DEFINE H == Holders(A, w, d)
           g == [a \in H |-> Req[a.job].vram]
<1>1. HeldOf(A, w, d) = SumFunctionOnSet(g, H)
  BY DEF HeldOf, Holders, SumFunction
<1>2. H \in SUBSET S
  BY DEF Holders
<1>3. IsFiniteSet(H)
  <2> HIDE DEF H
  <2> QED BY <1>2, FS_Subset
<1>4. \A a \in H : g[a] = f[a]
  BY <1>2
<1> HIDE DEF g, H
<1>5. SumFunctionOnSet(g, H) = SumFunctionOnSet(f, H)
  BY <1>3, <1>4, SumSame
<1> QED BY <1>1, <1>5 DEF H

LEMMA HeldIsNat ==
    ASSUME NEW A, IsFiniteSet(A), \A a \in A : a.job \in Jobs, NEW w, NEW d
    PROVE  HeldOf(A, w, d) \in Nat
<1> DEFINE f == [a \in A |-> Req[a.job].vram]
           H == Holders(A, w, d)
<1>1. H \in SUBSET A
  BY DEF Holders
<1>2. \A a \in A : f[a] \in Nat /\ f[a] = Req[a.job].vram
  BY RequestsAssumption DEF Jobs
<1> HIDE DEF f
<1>3. HeldOf(A, w, d) = SumFunctionOnSet(f, H)
  BY <1>2, HeldIsSum
<1> HIDE DEF H
<1>4. SumFunctionOnSet(f, H) \in Nat
  BY <1>1, <1>2, FS_Subset, SumIsNat
<1> QED BY <1>3, <1>4

\* What two sets of allocations hold adds up.
LEMMA HeldSplits ==
    ASSUME NEW A, IsFiniteSet(A), NEW B, IsFiniteSet(B), A \cap B = {},
           \A a \in A \cup B : a.job \in Jobs, NEW w, NEW d
    PROVE  HeldOf(A \cup B, w, d) = HeldOf(A, w, d) + HeldOf(B, w, d)
<1> DEFINE f == [a \in A \cup B |-> Req[a.job].vram]
           G == Holders(A, w, d)
           H == Holders(B, w, d)
<1>1. G \in SUBSET A /\ H \in SUBSET B /\ Holders(A \cup B, w, d) = G \cup H
  BY DEF Holders
<1>2. \A a \in A \cup B : f[a] \in Nat /\ f[a] = Req[a.job].vram
  BY RequestsAssumption DEF Jobs
<1>3. IsFiniteSet(A \cup B)
  BY FS_Union
<1> HIDE DEF f
<1>4. /\ HeldOf(A, w, d) = SumFunctionOnSet(f, G)
      /\ HeldOf(B, w, d) = SumFunctionOnSet(f, H)
      /\ HeldOf(A \cup B, w, d) = SumFunctionOnSet(f, Holders(A \cup B, w, d))
  <2> DEFINE S == A \cup B
  <2>1. A \in SUBSET S /\ B \in SUBSET S /\ S \in SUBSET S
    OBVIOUS
  <2>2. IsFiniteSet(S) /\ \A a \in S : f[a] = Req[a.job].vram
    BY <1>2, <1>3
  <2> HIDE DEF S
  <2>3. HeldOf(A, w, d) = SumFunctionOnSet(f, G)
    BY <2>1, <2>2, HeldIsSum
  <2>4. HeldOf(B, w, d) = SumFunctionOnSet(f, H)
    BY <2>1, <2>2, HeldIsSum
  <2>5. HeldOf(S, w, d) = SumFunctionOnSet(f, Holders(S, w, d))
    BY <2>1, <2>2, HeldIsSum
  <2> QED BY <2>3, <2>4, <2>5 DEF S
<1> HIDE DEF G, H
<1>5. /\ IsFiniteSet(G) /\ IsFiniteSet(H) /\ G \cap H = {}
      /\ \A a \in G \cup H : f[a] \in Nat
  BY <1>1, <1>2, FS_Subset
<1>6. SumFunctionOnSet(f, G \cup H) = SumFunctionOnSet(f, G) + SumFunctionOnSet(f, H)
  BY <1>5, SumOfUnion
<1> QED BY <1>1, <1>4, <1>6

LEMMA HeldOfNone ==
    ASSUME NEW A, NEW w, NEW d, Holders(A, w, d) = {}
    PROVE  HeldOf(A, w, d) = 0
<1> DEFINE g == [a \in Holders(A, w, d) |-> Req[a.job].vram]
<1>1. HeldOf(A, w, d) = SumFunctionOnSet(g, {})
  BY DEF HeldOf, Holders, SumFunction
<1> HIDE DEF g
<1> QED BY <1>1, SumOfNone

LEMMA HeldOfOne ==
    ASSUME NEW A, NEW w, NEW d, NEW a, Holders(A, w, d) = {a}, a.job \in Jobs
    PROVE  HeldOf(A, w, d) = Req[a.job].vram
<1> DEFINE g == [b \in Holders(A, w, d) |-> Req[b.job].vram]
<1>1. HeldOf(A, w, d) = SumFunctionOnSet(g, {a})
  BY DEF HeldOf, Holders, SumFunction
<1>2. g[a] = Req[a.job].vram /\ g[a] \in Nat
  BY RequestsAssumption DEF Jobs
<1> HIDE DEF g
<1>3. IsFiniteSet({}) /\ a \notin {} /\ {a} = {} \cup {a} /\ \A y \in {} \cup {a} : g[y] \in Nat
  BY <1>2, FS_EmptySet
<1>4. SumFunctionOnSet(g, {} \cup {a}) = SumFunctionOnSet(g, {}) + g[a]
  BY <1>3, SumAdds
<1>5. SumFunctionOnSet(g, {}) = 0
  BY SumOfNone
<1> QED BY <1>1, <1>2, <1>3, <1>4, <1>5

\* The entries that are booked: one for each job, and no device twice.
LEMMA BookedAre ==
    ASSUME CallInv
    PROVE  /\ IsFiniteSet(Booked)
           /\ \A e \in Booked : \E n \in DOMAIN taken.plan : e = taken.plan[n]
           /\ \A e, f \in Booked : e.job = f.job => e = f
           /\ \A e, f \in Booked : e.worker = f.worker /\ e.devices \cap f.devices # {} => e = f
           /\ \A e \in Booked :
                 /\ e.job \in pending /\ e.job \in Jobs /\ e.worker \in DOMAIN cluster
                 /\ e.devices \in SUBSET cluster[e.worker].devices
                 /\ \A d \in e.devices : Req[e.job].vram <= cluster[e.worker].free[d]
<1> DEFINE p == taken.plan
           F == {m \in DOMAIN p : \A l \in 1..(m - 1) : p[l].job # p[m].job}
           f == [n \in F |-> p[n]]
<1>1. /\ Setting /\ Planned /\ Handed(taken, cluster)
      /\ p \in Seq(Entries(cluster)) /\ DOMAIN p = 1..Len(p) /\ Len(p) \in Nat
  BY DEF CallInv, Planned, Handed
<1>2. IsFiniteSet(Booked)
  <2>1. IsFiniteSet(DOMAIN p)
    BY <1>1, FS_Interval
  <2>2. F \in SUBSET DOMAIN p /\ Booked = {f[n] : n \in F}
    BY DEF Booked
  <2>3. IsFiniteSet(F) /\ f = [n \in F |-> f[n]]
    BY <2>1, <2>2, FS_Subset
  <2> HIDE DEF f, F
  <2> QED BY <2>2, <2>3, Image
<1>3. \A e \in Booked : \E n \in F : e = p[n]
  BY DEF Booked
<1>4. ASSUME NEW m \in F, NEW n \in F, p[m].job = p[n].job PROVE m = n
  <2>1. m \in Nat /\ n \in Nat /\ m \in 1..Len(p) /\ n \in 1..Len(p)
    BY <1>1
  <2>2. CASE m < n
    BY <1>4, <2>1, <2>2
  <2>3. CASE n < m
    BY <1>4, <2>1, <2>3
  <2> QED BY <2>1, <2>2, <2>3
<1>5. F \subseteq DOMAIN p
  OBVIOUS
<1> HIDE DEF p, F
<1>6. \A e, g \in Booked : e.job = g.job => e = g
  BY <1>3, <1>4
<1>7. \A e, g \in Booked : e.worker = g.worker /\ e.devices \cap g.devices # {} => e = g
  BY <1>1, <1>3, <1>5 DEF Handed, p
<1>8. ASSUME NEW e \in Booked
      PROVE  /\ e.job \in pending /\ e.job \in Jobs /\ e.worker \in DOMAIN cluster
             /\ e.devices \in SUBSET cluster[e.worker].devices
             /\ \A d \in e.devices : Req[e.job].vram <= cluster[e.worker].free[d]
  <2>1. PICK n \in DOMAIN p : e = p[n]
    BY <1>3, <1>5
  <2>2. e.job \in pending /\ e.job \in Jobs
    BY <1>1, <2>1 DEF Planned, Setting, p
  <2>3. e.worker \in DOMAIN cluster
    <3>1. e \in Entries(cluster)
      BY <1>1, <2>1
    <3> QED BY <3>1 DEF Entries
  <2> QED BY <1>1, <2>1, <2>2, <2>3 DEF Handed, p
<1>9. \A e \in Booked : \E n \in DOMAIN p : e = p[n]
  BY <1>3, <1>5
<1> QED BY <1>2, <1>6, <1>7, <1>8, <1>9 DEF p

-----------------------------------------------------------------------------
(* The invariant of a trial *)

Phases == {"IDLE", "ARRIVE", "RELEASE", "CALL", "PLACE", "ADVANCE", "DONE"}

\* The items of a trace arrive in their order.
IsTrace(t) ==
    /\ t \in Seq([arrival : Nat, duration : Durations])
    /\ \A i, k \in 1..Len(t) : i <= k => t[i].arrival <= t[k].arrival

Timed ==
    /\ phase \in Phases /\ fleet \in Fleets
    /\ IsTrace(trace) /\ 1..Len(trace) \subseteq Jobs
    /\ phase # "IDLE" => Len(trace) \in Counts
    /\ simTime \in 0..MaxSteps /\ (phase # "DONE" => simTime < MaxSteps)

RunningJobs == {r.job : r \in running}

\* An arrived job is in one of three places, once.
Accounted ==
    /\ arrived \in 0..Len(trace)
    /\ IsFiniteSet(running)
    /\ \A r, s \in running : r.job = s.job => r = s
    /\ queue \cap completed = {} /\ queue \cap RunningJobs = {} /\ completed \cap RunningJobs = {}
    /\ queue \cup completed \cup RunningJobs = 1..arrived

FreeTyped ==
    /\ DOMAIN free = DOMAIN fleet
    /\ \A w \in DOMAIN fleet : free[w] \in [fleet[w].devices -> Nat]

\* A worker of the fleet that could host job j if it did nothing else.
Host(j, w) ==
    /\ Req[j].cpus <= fleet[w].cpus
    /\ \E E \in SUBSET fleet[w].devices :
          /\ Cardinality(E) = Req[j].gpus
          /\ \A d \in E : Req[j].vram <= fleet[w].free[d]

Hosted ==
    policy # "GANG" => \A j \in completed \cup RunningJobs : \E w \in DOMAIN fleet : Host(j, w)

\* What the scheduler was shown.
Shown == phase = "PLACE" => pending = queue /\ cluster = ClusterView

TrialInv ==
    /\ CallInv /\ Timed /\ Accounted
    /\ FreeTyped /\ VramConserved
    /\ Hosted /\ Shown

LEMMA FleetIsSnapshot == ASSUME fleet \in Fleets PROVE IsSnapshot(fleet)
  BY FleetsAssumption

LEMMA AccountIsFinite ==
    ASSUME Timed, Accounted
    PROVE  /\ Len(trace) \in Nat /\ arrived \in Nat
           /\ IsFiniteSet(queue) /\ IsFiniteSet(completed) /\ IsFiniteSet(RunningJobs)
           /\ queue \in SUBSET Jobs /\ completed \in SUBSET Jobs /\ RunningJobs \in SUBSET Jobs
           /\ \A r \in running : r.job \in Jobs
<1>1. trace \in Seq([arrival : Nat, duration : Durations])
  BY DEF Timed, IsTrace
<1>2. Len(trace) \in Nat
  BY <1>1
<1>3. arrived \in Nat /\ 1..arrived \subseteq 1..Len(trace)
  BY <1>2 DEF Accounted
<1>4. IsFiniteSet(1..arrived)
  BY <1>3, FS_Interval
<1>5. /\ queue \in SUBSET (1..arrived) /\ completed \in SUBSET (1..arrived)
      /\ RunningJobs \in SUBSET (1..arrived)
  BY DEF Accounted
<1>6. IsFiniteSet(queue) /\ IsFiniteSet(completed) /\ IsFiniteSet(RunningJobs)
  BY <1>4, <1>5, FS_Subset
<1>7. 1..arrived \subseteq Jobs
  BY <1>3 DEF Timed
<1>8. \A r \in running : r.job \in RunningJobs
  BY DEF RunningJobs
<1> QED BY <1>2, <1>3, <1>5, <1>6, <1>7, <1>8

\* The jobs are counted.
LEMMA AllCounted ==
    ASSUME Timed, Accounted
    PROVE  Cardinality(queue) + Cardinality(completed) + Cardinality(running) = arrived
<1>1. /\ arrived \in Nat
      /\ IsFiniteSet(queue) /\ IsFiniteSet(completed) /\ IsFiniteSet(RunningJobs)
  BY AccountIsFinite
<1>2. Cardinality(RunningJobs) = Cardinality(running)
  <2> DEFINE f == [r \in running |-> r.job]
  <2>1. f \in Surjection(running, RunningJobs)
    BY DEF Surjection, RunningJobs
  <2>2. f \in Injection(running, RunningJobs)
    BY DEF Injection, IsInjective, RunningJobs, Accounted
  <2>3. IsFiniteSet(running)
    BY DEF Accounted
  <2> HIDE DEF f
  <2> QED BY <2>1, <2>2, <2>3, FS_Surjection
<1>3. queue \cap completed = {} /\ (queue \cup completed) \cap RunningJobs = {}
  BY DEF Accounted
<1>4. /\ IsFiniteSet(queue \cup completed)
      /\ Cardinality(queue \cup completed) = Cardinality(queue) + Cardinality(completed)
                                             - Cardinality(queue \cap completed)
  BY <1>1, FS_Union
<1>5. Cardinality((queue \cup completed) \cup RunningJobs)
      = Cardinality(queue \cup completed) + Cardinality(RunningJobs)
        - Cardinality((queue \cup completed) \cap RunningJobs)
  BY <1>1, <1>4, FS_Union
<1>6. Cardinality({}) = 0
  BY FS_EmptySet
<1>7. (queue \cup completed) \cup RunningJobs = 1..arrived
  BY DEF Accounted
<1>8. Cardinality(1..arrived) = arrived
  BY <1>1, FS_Interval
<1>9. /\ Cardinality(queue) \in Nat /\ Cardinality(completed) \in Nat
      /\ Cardinality(RunningJobs) \in Nat
  BY <1>1, FS_CardinalityType
<1>10. Cardinality(queue \cup completed) = Cardinality(queue) + Cardinality(completed)
  <2>1. Cardinality(queue \cap completed) = 0
    BY <1>3, <1>6, Zenon
  <2> QED BY <1>4, <1>9, <2>1
<1>11. Cardinality((queue \cup completed) \cup RunningJobs)
       = Cardinality(queue \cup completed) + Cardinality(RunningJobs)
  <2>1. Cardinality((queue \cup completed) \cap RunningJobs) = 0
    BY <1>3, <1>6, Zenon
  <2> QED BY <1>5, <1>9, <1>10, <2>1
<1> QED BY <1>2, <1>7, <1>8, <1>10, <1>11

\* What the generator makes is a trace.
LEMMA TracesAre ==
    ASSUME NEW n \in Counts, NEW t \in GenerateTrace(n)
    PROVE  IsTrace(t) /\ Len(t) = n /\ 1..Len(t) \subseteq Jobs
<1> DEFINE Top == Max(Intervals \cup {LongestGap})
<1>1. n \in Nat \ {0} /\ 1..n \subseteq Jobs
  BY TraceAssumption DEF Jobs
<1>2. Top \in Nat
  <2>1. Intervals \cup {LongestGap} \in SUBSET Nat /\ Intervals \cup {LongestGap} # {}
    BY TraceAssumption
  <2>2. IsFiniteSet(Intervals \cup {LongestGap})
    BY TraceAssumption, FS_AddElement
  <2>3. Top \in Intervals \cup {LongestGap}
    BY <2>1, <2>2, MaxIsGreatest
  <2> HIDE DEF Top
  <2> QED BY <2>1, <2>3
<1> HIDE DEF Top
<1>3. PICK g \in [1..n -> 0..Top] : \E d \in [1..n -> Durations] :
         t = [i \in 1..n |-> [arrival |-> SumFunction([k \in 1..i |-> g[k]]), duration |-> d[i]]]
  <2> DEFINE gaps == {g \in [1..n -> 0..Top] :
                         /\ g[1] = 0
                         /\ \E pattern \in ArrivalPatterns : \A i \in 2..n : g[i] \in GapsOf(pattern, i)}
             Item(g, d) ==
                [i \in 1..n |-> [arrival |-> SumFunction([k \in 1..i |-> g[k]]), duration |-> d[i]]]
  <2>1. GenerateTrace(n) = {Item(g, d) : g \in gaps, d \in [1..n -> Durations]}
    BY DEF GenerateTrace, Top
  <2>2. gaps \subseteq [1..n -> 0..Top]
    OBVIOUS
  <2> HIDE DEF gaps, Item
  <2>3. \E g \in gaps : \E d \in [1..n -> Durations] : t = Item(g, d)
    BY <2>1
  <2> QED BY <2>2, <2>3 DEF Item
<1>4. PICK d \in [1..n -> Durations] :
         t = [i \in 1..n |-> [arrival |-> SumFunction([k \in 1..i |-> g[k]]), duration |-> d[i]]]
  BY <1>3
<1>5. \A i \in 1..n : \A k \in 1..i : g[k] \in Nat
  BY <1>1, <1>2
<1> DEFINE f(i) == [k \in 1..i |-> g[k]]
<1>6. ASSUME NEW i \in 1..n
      PROVE  f(i) \in [1..i -> Nat] /\ IsFiniteSet(1..i) /\ SumFunction(f(i)) \in Nat
  <2>1. f(i) \in [1..i -> Nat]
    BY <1>5
  <2>2. IsFiniteSet(1..i)
    BY FS_Interval
  <2> HIDE DEF f
  <2> QED BY <2>1, <2>2, TotalIsNat
<1>7. ASSUME NEW i \in 1..n, NEW k \in 1..n, i <= k
      PROVE  SumFunction(f(i)) <= SumFunction(f(k))
  <2>1. 1..i \in SUBSET (1..k) /\ \A x \in 1..i : f(i)[x] <= f(k)[x]
    BY <1>5, <1>7
  <2>2. /\ f(i) \in [1..i -> Nat] /\ f(k) \in [1..k -> Nat] /\ IsFiniteSet(1..k)
    BY <1>6
  <2> DEFINE a == f(i)
             b == f(k)
             S == 1..i
             T == 1..k
  <2>3. /\ S \in SUBSET T /\ IsFiniteSet(T) /\ a \in [S -> Nat] /\ b \in [T -> Nat]
        /\ \A x \in S : a[x] <= b[x]
    BY <2>1, <2>2
  <2> HIDE DEF a, b, S, T
  <2>4. SumFunction(a) <= SumFunction(b)
    BY <2>3, TotalOfSmaller
  <2> QED BY <2>4 DEF a, b
<1>8. t = [i \in 1..n |-> [arrival |-> SumFunction(f(i)), duration |-> d[i]]]
  BY <1>4
<1> HIDE DEF f
<1>9. t \in [1..n -> [arrival : Nat, duration : Durations]]
  BY <1>6, <1>8
<1>10. t \in Seq([arrival : Nat, duration : Durations]) /\ Len(t) = n
  <2> DEFINE Items == [arrival : Nat, duration : Durations]
  <2>1. t \in [1..n -> Items] /\ n \in Nat
    BY <1>1, <1>9
  <2> HIDE DEF Items
  <2>2. t \in Seq(Items) /\ Len(t) = n
    BY <2>1
  <2> QED BY <2>2 DEF Items
<1>11. \A i, k \in 1..n : i <= k => t[i].arrival <= t[k].arrival
  BY <1>7, <1>8
<1> QED BY <1>1, <1>10, <1>11 DEF IsTrace

-----------------------------------------------------------------------------
(* The steps of a trial *)

LEMMA StillCall == ASSUME CallInv, UNCHANGED vars PROVE CallInv'
<1>1. /\ policy' = policy /\ cluster' = cluster /\ pending' = pending
      /\ waiting' = waiting /\ taken' = taken
  BY DEF vars
<1>2. Setting' /\ InLine'
  BY <1>1 DEF CallInv, Setting, InLine
<1>3. \A j : Waits(j)' <=> Waits(j)
  BY <1>1 DEF Waits
<1>4. Planned'
  BY <1>1, <1>3 DEF CallInv, Planned
<1>5. PlacedWhole' /\ RestLeftOut'
  BY <1>1, <1>3 DEF CallInv, PlacedWhole, RestLeftOut
<1> QED BY <1>1, <1>2, <1>4, <1>5 DEF CallInv

LEMMA StillHeld ==
    ASSUME FreeTyped, VramConserved, UNCHANGED <<fleet, running, free>>
    PROVE  FreeTyped' /\ VramConserved'
<1>1. fleet' = fleet /\ running' = running /\ free' = free
  OBVIOUS
<1> QED BY <1>1 DEF FreeTyped, VramConserved

LEMMA StillHosted ==
    ASSUME Hosted, UNCHANGED <<policy, fleet, completed, running>> PROVE Hosted'
<1>1. policy' = policy /\ fleet' = fleet /\ completed' = completed /\ running' = running
  OBVIOUS
<1>2. \A j, w : Host(j, w)' <=> Host(j, w)
  BY <1>1 DEF Host
<1>3. RunningJobs' = RunningJobs
  BY <1>1 DEF RunningJobs
<1> QED BY <1>1, <1>2, <1>3 DEF Hosted

\* A trial, or no trial, begins: no memory is held.
LEMMA NothingHeld ==
    ASSUME fleet \in Fleets, running = {}, free = FreeOf(fleet)
    PROVE  FreeTyped /\ VramConserved
<1>1. FreeTyped
  BY FleetIsSnapshot DEF FreeTyped, FreeOf, IsSnapshot
<1>2. ASSUME NEW w \in DOMAIN fleet, NEW d \in fleet[w].devices
      PROVE  free[w][d] + HeldOf(running, w, d) = fleet[w].free[d]
  <2>1. free[w][d] = fleet[w].free[d]
    BY DEF FreeOf
  <2>2. free[w][d] \in Nat
    BY <1>1 DEF FreeTyped
  <2>3. HeldOf(running, w, d) = 0
    BY HeldOfNone DEF Holders
  <2> QED BY <2>1, <2>2, <2>3
<1>3. VramConserved
  BY <1>2 DEF VramConserved
<1> QED BY <1>1, <1>3

LEMMA BenchStarts == BenchInit => TrialInv
<1> SUFFICES ASSUME BenchInit PROVE TrialInv
  OBVIOUS
<1>0. MaxSteps \in Nat \ {0}
  BY TraceAssumption
<1>1. CASE Init /\ NoTrial(CHOOSE f \in Fleets : TRUE)
  <2>1. /\ phase = "IDLE" /\ trace = <<>> /\ simTime = 0 /\ arrived = 0
        /\ queue = {} /\ running = {} /\ completed = {} /\ free = FreeOf(fleet)
        /\ fleet = CHOOSE f \in Fleets : TRUE
    BY <1>1 DEF NoTrial
  <2>2. fleet \in Fleets
    BY <2>1, FleetsAssumption
  <2>3. PICK p \in Policies : \E jobs \in SUBSET Jobs, c \in Clusters, now \in Times :
                                 Begun(p, jobs, c, now)
    BY <1>1 DEF Init
  <2>4. PICK jobs \in SUBSET Jobs : \E c \in Clusters, now \in Times : Begun(p, jobs, c, now)
    BY <2>3
  <2>5. PICK c \in Clusters : \E now \in Times : Begun(p, jobs, c, now)
    BY <2>4
  <2>6. PICK now \in Times : Begun(p, jobs, c, now)
    BY <2>5
  <2>7. Lists(Order(p, jobs, now), jobs)
    BY TimesAssumption, OrderLists
  <2>8. CallInv
    BY <2>6, <2>7, SnapshotsAssumption, CallBegins DEF Begun, Setting
  <2>9. Timed
    <3>1. trace \in Seq([arrival : Nat, duration : Durations]) /\ Len(trace) = 0
      BY <2>1
    <3>2. 1..Len(trace) = {}
      BY <3>1
    <3>3. IsTrace(trace)
      BY <3>1, <3>2 DEF IsTrace
    <3> QED BY <1>0, <2>1, <2>2, <3>2, <3>3 DEF Timed, Phases
  <2>10. Accounted
    <3>1. IsFiniteSet({}) /\ Len(<<>>) = 0
      BY FS_EmptySet
    <3> QED BY <2>1, <3>1 DEF Accounted, RunningJobs
  <2>11. Hosted /\ Shown
    BY <2>1 DEF Hosted, Shown, RunningJobs
  <2> QED BY <2>1, <2>2, <2>8, <2>9, <2>10, <2>11, NothingHeld DEF TrialInv
<1>2. CASE \E f \in Fleets, n \in Counts :
              /\ \E t \in GenerateTrace(n) : TrialStarts(f, t)
              /\ \E p \in Policies : Begun(p, {}, f, 0)
  <2>1. PICK f \in Fleets : \E n \in Counts :
              /\ \E t \in GenerateTrace(n) : TrialStarts(f, t)
              /\ \E p \in Policies : Begun(p, {}, f, 0)
    BY <1>2
  <2>2. PICK n \in Counts :
              /\ \E t \in GenerateTrace(n) : TrialStarts(f, t)
              /\ \E p \in Policies : Begun(p, {}, f, 0)
    BY <2>1
  <2>3. PICK p \in Policies : Begun(p, {}, f, 0)
    BY <2>2
  <2>4. PICK t \in GenerateTrace(n) : TrialStarts(f, t)
    BY <2>2
  <2>5. /\ phase = "ARRIVE" /\ trace = t /\ simTime = 0 /\ arrived = 0 /\ fleet = f
        /\ queue = {} /\ running = {} /\ completed = {} /\ free = FreeOf(fleet)
    BY <2>4 DEF TrialStarts
  <2>6. Lists(Order(p, {}, 0), {})
    BY OrderLists
  <2>7. CallInv
    BY <2>3, <2>6, FleetsAssumption, CallBegins DEF Begun, Setting
  <2>8. IsTrace(t) /\ Len(t) = n /\ 1..Len(t) \subseteq Jobs
    BY TracesAre
  <2>9. Timed
    BY <1>0, <2>5, <2>8 DEF Timed, Phases
  <2>10. Accounted
    <3>1. IsFiniteSet({}) /\ n \in Nat
      BY FS_EmptySet, TraceAssumption
    <3> QED BY <2>5, <2>8, <3>1 DEF Accounted, RunningJobs
  <2>11. Hosted /\ Shown
    BY <2>5 DEF Hosted, Shown, RunningJobs
  <2> QED BY <2>5, <2>7, <2>9, <2>10, <2>11, NothingHeld DEF TrialInv
<1> QED BY <1>1, <1>2 DEF BenchInit

\* The items that are due are the next ones of the trace.
LEMMA ArriveKeeps == ASSUME TrialInv, Arrive PROVE TrialInv'
<1> DEFINE n == Len(trace)
           due == {j \in DOMAIN trace : j > arrived /\ trace[j].arrival <= simTime}
           U == {k \in arrived..n : \A i \in (arrived + 1)..k : trace[i].arrival <= simTime}
<1>1. CallInv /\ Timed /\ Accounted /\ FreeTyped /\ VramConserved /\ Hosted /\ Shown
  BY DEF TrialInv
<1>2. /\ phase = "ARRIVE" /\ phase' = "RELEASE"
      /\ queue' = queue \cup due /\ arrived' = arrived + Cardinality(due)
      /\ UNCHANGED <<vars, fleet, trace, simTime, running, completed, free>>
  BY DEF Arrive
<1>3. /\ n \in Nat /\ arrived \in Nat /\ arrived \in 0..n /\ DOMAIN trace = 1..n
      /\ \A i \in 1..n : trace[i].arrival \in Nat
      /\ \A i, k \in 1..n : i <= k => trace[i].arrival <= trace[k].arrival
      /\ simTime \in Nat
  <2>1. trace \in Seq([arrival : Nat, duration : Durations])
    BY <1>1 DEF Timed, IsTrace
  <2>2. n \in Nat /\ DOMAIN trace = 1..n /\ \A i \in 1..n : trace[i].arrival \in Nat
    <3> DEFINE Items == [arrival : Nat, duration : Durations]
    <3>1. \A x \in Items : x.arrival \in Nat
      OBVIOUS
    <3>2. trace \in Seq(Items)
      BY <2>1
    <3> HIDE DEF Items
    <3> QED BY <3>1, <3>2
  <2>3. arrived \in Nat
    BY <1>1, AccountIsFinite
  <2>4. simTime \in Nat
    BY <1>1, TraceAssumption DEF Timed
  <2> QED BY <1>1, <2>2, <2>3, <2>4 DEF Timed, IsTrace, Accounted
<1> HIDE DEF n
<1>4. PICK k \in U : \A i \in U : k >= i
  <2>1. U \in SUBSET Nat /\ arrived \in U /\ \A i \in U : i <= n
    BY <1>3
  <2>2. IsFiniteSet(U)
    <3> HIDE DEF U
    <3> QED BY <1>3, <2>1, FS_BoundedSetOfNaturals
  <2> HIDE DEF U
  <2> QED BY <2>1, <2>2, GreatestNumber
<1>5. k \in Nat /\ arrived <= k /\ k <= n
  BY <1>3
<1>6. due = (arrived + 1)..k
  <2>1. ASSUME NEW j \in (arrived + 1)..k PROVE j \in due
    BY <1>3, <1>5
  <2>2. ASSUME NEW j \in due PROVE j \in (arrived + 1)..k
    <3>1. j \in 1..n /\ j > arrived /\ trace[j].arrival <= simTime
      BY <1>3
    <3>2. j \in U
      <4>1. \A i \in (arrived + 1)..j : i \in 1..n /\ trace[i].arrival <= trace[j].arrival
        BY <1>3, <3>1
      <4> QED BY <1>3, <3>1, <4>1
    <3>3. k >= j
      BY <1>4, <3>2
    <3> HIDE DEF due, U
    <3> QED BY <1>3, <1>5, <3>1, <3>3
  <2> HIDE DEF due
  <2> QED BY <2>1, <2>2
<1> HIDE DEF due, U
<1>7. Cardinality(due) = k - arrived
  <2>1. arrived + 1 \in Int /\ k \in Int
    BY <1>3, <1>5
  <2>2. Cardinality((arrived + 1)..k)
        = IF arrived + 1 > k THEN 0 ELSE k - (arrived + 1) + 1
    BY <2>1, FS_Interval
  <2> QED BY <1>3, <1>5, <1>6, <2>2
<1>8. arrived' = k
  BY <1>2, <1>3, <1>5, <1>7
<1>9. 1..k = (1..arrived) \cup due /\ (1..arrived) \cap due = {}
  BY <1>3, <1>5, <1>6
<1>10. RunningJobs' = RunningJobs
  BY <1>2 DEF RunningJobs
<1>11. Accounted'
  <2>1. k \in 0..Len(trace)
    BY <1>5 DEF n
  <2>2. /\ IsFiniteSet(running)
        /\ \A r, s \in running : r.job = s.job => r = s
        /\ queue \cap completed = {} /\ queue \cap RunningJobs = {}
        /\ completed \cap RunningJobs = {}
        /\ queue \cup completed \cup RunningJobs = 1..arrived
    BY <1>1 DEF Accounted
  <2>3. due \cap completed = {} /\ due \cap RunningJobs = {}
    BY <1>9, <2>2
  <2>4. (queue \cup due) \cup completed \cup RunningJobs = 1..k
    BY <1>9, <2>2
  <2> QED BY <1>2, <1>8, <1>10, <2>1, <2>2, <2>3, <2>4 DEF Accounted
<1>12. Timed'
  BY <1>1, <1>2 DEF Timed, Phases
<1>13. CallInv' /\ FreeTyped' /\ VramConserved' /\ Hosted'
  BY <1>1, <1>2, StillCall, StillHeld, StillHosted DEF vars
<1>14. Shown'
  BY <1>2 DEF Shown
<1> QED BY <1>11, <1>12, <1>13, <1>14 DEF TrialInv

\* What a finished job held is free again.
LEMMA ReleaseKeeps == ASSUME TrialInv, Release PROVE TrialInv'
<1> DEFINE F == Finished
           L == running \ Finished
           FJ == {r.job : r \in F}
<1>1. CallInv /\ Timed /\ Accounted /\ FreeTyped /\ VramConserved /\ Hosted /\ Shown
  BY DEF TrialInv
<1>2. /\ phase = "RELEASE" /\ phase' = "CALL"
      /\ running' = L /\ completed' = completed \cup FJ
      /\ free' = [w \in DOMAIN free |-> [d \in DOMAIN free[w] |-> free[w][d] + HeldOf(F, w, d)]]
      /\ UNCHANGED <<vars, fleet, trace, simTime, arrived, queue>>
  BY DEF Release
<1>3. F \subseteq running /\ running = L \cup F /\ L \cap F = {}
  BY DEF Finished
<1>4. IsFiniteSet(L) /\ IsFiniteSet(F) /\ \A r \in running : r.job \in Jobs
  <2>1. IsFiniteSet(running)
    BY <1>1 DEF Accounted
  <2>2. \A r \in running : r.job \in Jobs
    BY <1>1, AccountIsFinite
  <2> HIDE DEF F
  <2> QED BY <1>3, <2>1, <2>2, FS_Subset
<1> HIDE DEF F, L
<1>5. Accounted'
  <2>1. RunningJobs' = {r.job : r \in L} /\ RunningJobs = {r.job : r \in L} \cup FJ
    BY <1>2, <1>3 DEF RunningJobs
  <2>2. {r.job : r \in L} \cap FJ = {}
    BY <1>1, <1>3 DEF Accounted
  <2> HIDE DEF FJ
  <2>3. /\ arrived \in 0..Len(trace)
        /\ \A r, s \in running : r.job = s.job => r = s
        /\ queue \cap completed = {} /\ queue \cap RunningJobs = {}
        /\ completed \cap RunningJobs = {}
        /\ queue \cup completed \cup RunningJobs = 1..arrived
    BY <1>1 DEF Accounted
  <2>4. \A r, s \in L : r.job = s.job => r = s
    BY <1>3, <2>3
  <2> DEFINE LJ == {r.job : r \in L}
  <2> HIDE DEF LJ
  <2>5. RunningJobs' = LJ /\ RunningJobs = LJ \cup FJ /\ LJ \cap FJ = {}
    BY <2>1, <2>2 DEF LJ
  <2>6. /\ queue' = queue /\ completed' = completed \cup FJ /\ running' = L
        /\ arrived' = arrived /\ trace' = trace
    BY <1>2
  <2>7. /\ queue \cap (completed \cup FJ) = {} /\ queue \cap LJ = {}
        /\ (completed \cup FJ) \cap LJ = {}
        /\ queue \cup (completed \cup FJ) \cup LJ = 1..arrived
    BY <2>3, <2>5
  <2> QED BY <1>4, <2>3, <2>4, <2>5, <2>6, <2>7 DEF Accounted
<1>6. ASSUME NEW w \in DOMAIN fleet, NEW d \in fleet[w].devices
      PROVE  /\ free'[w][d] = free[w][d] + HeldOf(F, w, d) /\ free[w][d] \in Nat
             /\ HeldOf(F, w, d) \in Nat /\ HeldOf(L, w, d) \in Nat
             /\ HeldOf(running, w, d) = HeldOf(L, w, d) + HeldOf(F, w, d)
  <2>1. DOMAIN free = DOMAIN fleet /\ free[w] \in [fleet[w].devices -> Nat]
    BY <1>1 DEF FreeTyped
  <2>2. HeldOf(F, w, d) \in Nat /\ HeldOf(L, w, d) \in Nat
    BY <1>3, <1>4, HeldIsNat
  <2>3. HeldOf(L \cup F, w, d) = HeldOf(L, w, d) + HeldOf(F, w, d)
    BY <1>3, <1>4, HeldSplits
  <2>4. HeldOf(running, w, d) = HeldOf(L \cup F, w, d)
    BY <1>3
  <2> QED BY <1>2, <2>1, <2>2, <2>3, <2>4
<1>7. FreeTyped'
  <2>1. fleet' = fleet /\ DOMAIN free' = DOMAIN fleet
    BY <1>1, <1>2 DEF FreeTyped
  <2>2. ASSUME NEW w \in DOMAIN fleet PROVE free'[w] \in [fleet[w].devices -> Nat]
    <3>1. w \in DOMAIN free /\ DOMAIN free[w] = fleet[w].devices
      BY <1>1 DEF FreeTyped
    <3>2. free'[w] = [d \in fleet[w].devices |-> free[w][d] + HeldOf(F, w, d)]
      BY <1>2, <3>1
    <3>3. \A d \in fleet[w].devices : free[w][d] + HeldOf(F, w, d) \in Nat
      BY <1>6
    <3> QED BY <3>2, <3>3
  <2> QED BY <2>1, <2>2 DEF FreeTyped
<1>8. VramConserved'
  <2> SUFFICES ASSUME NEW w \in DOMAIN fleet, NEW d \in fleet[w].devices
               PROVE  free'[w][d] + HeldOf(L, w, d) = fleet[w].free[d]
    BY <1>2 DEF VramConserved
  <2>1. free[w][d] + HeldOf(running, w, d) = fleet[w].free[d]
    BY <1>1 DEF VramConserved
  <2> QED BY <1>6, <2>1
<1>9. Hosted'
  <2>1. completed' \cup RunningJobs' = completed \cup RunningJobs
    BY <1>2, <1>3 DEF RunningJobs
  <2>2. policy' = policy /\ fleet' = fleet
    BY <1>2 DEF vars
  <2>3. \A j, w : Host(j, w)' <=> Host(j, w)
    BY <2>2 DEF Host
  <2> QED BY <1>1, <2>1, <2>2, <2>3 DEF Hosted
<1>10. Timed'
  BY <1>1, <1>2 DEF Timed, Phases
<1>11. CallInv' /\ Shown'
  BY <1>1, <1>2, StillCall DEF Shown
<1> QED BY <1>5, <1>7, <1>8, <1>9, <1>10, <1>11 DEF TrialInv

\* The scheduler is shown the workers with the memory that is free on them.
LEMMA ViewIsSnapshot ==
    ASSUME fleet \in Fleets, FreeTyped
    PROVE  /\ IsSnapshot(ClusterView) /\ NothingTaken(fleet) = NothingTaken(ClusterView)
           /\ DOMAIN ClusterView = DOMAIN fleet
           /\ \A w \in DOMAIN fleet : /\ ClusterView[w].cpus = fleet[w].cpus
                                      /\ ClusterView[w].devices = fleet[w].devices
                                      /\ ClusterView[w].free = free[w]
<1> DEFINE c == ClusterView
<1>1. IsSnapshot(fleet)
  BY FleetIsSnapshot
<1>2. DOMAIN c = DOMAIN fleet
  BY DEF ClusterView
<1>3. ASSUME NEW w \in DOMAIN fleet
      PROVE  /\ DOMAIN c[w] = {"healthy", "devices", "free", "tags", "cpus", "ram"}
             /\ c[w].healthy = TRUE /\ c[w].free = free[w] /\ c[w].devices = fleet[w].devices
             /\ c[w].cpus = fleet[w].cpus /\ c[w].ram = fleet[w].ram
  <2>1. DOMAIN fleet[w] = {"healthy", "devices", "free", "tags", "cpus", "ram"}
    BY <1>1 DEF IsSnapshot
  <2>2. c[w] = [fleet[w] EXCEPT !.free = free[w], !.healthy = TRUE]
    BY DEF ClusterView
  <2> HIDE DEF c
  <2> QED BY <2>1, <2>2
<1> HIDE DEF c
<1>4. IsSnapshot(c)
  BY <1>1, <1>2, <1>3 DEF IsSnapshot, FreeTyped
<1>5. NothingTaken(fleet) = NothingTaken(c)
  BY <1>2 DEF NothingTaken
<1> QED BY <1>2, <1>3, <1>4, <1>5 DEF c

LEMMA CallKeeps == ASSUME TrialInv, Call PROVE TrialInv'
<1>1. CallInv /\ Timed /\ Accounted /\ FreeTyped /\ VramConserved /\ Hosted /\ Shown
  BY DEF TrialInv
<1>2. UNCHANGED <<fleet, trace, simTime, arrived, queue, running, completed, free>>
  BY DEF Call
<1>3. policy' = policy
  BY DEF Call, vars
<1>4. phase = "CALL" /\ phase' \in {"ADVANCE", "PLACE"}
  BY DEF Call
<1>5. Timed'
  BY <1>1, <1>2, <1>4 DEF Timed, Phases
<1>6. Accounted'
  BY <1>1, <1>2 DEF Accounted, RunningJobs
<1>7. FreeTyped' /\ VramConserved' /\ Hosted'
  BY <1>1, <1>2, <1>3, StillHeld, StillHosted
<1>8. CallInv' /\ Shown'
  <2>1. CASE queue = {}
    <3>1. UNCHANGED vars /\ phase' = "ADVANCE"
      BY <2>1 DEF Call
    <3> QED BY <1>1, <3>1, StillCall DEF Shown
  <2>2. CASE queue # {}
    <3>1. /\ pending' = queue /\ cluster' = ClusterView
          /\ waiting' = Order(policy, queue, 0) /\ taken' = NothingTaken(fleet)
      BY <2>2 DEF Call
    <3>2. queue \in SUBSET Jobs /\ policy \in Policies
      BY <1>1, AccountIsFinite DEF CallInv, Setting
    <3>3. Lists(waiting', pending')
      BY <3>1, <3>2, OrderLists
    <3>4. IsSnapshot(ClusterView) /\ NothingTaken(fleet) = NothingTaken(ClusterView)
      BY <1>1, ViewIsSnapshot DEF Timed
    <3>5. Setting'
      BY <1>3, <3>1, <3>2, <3>4 DEF Setting
    <3>6. CallInv'
      BY <3>1, <3>3, <3>4, <3>5, CallBeginsNext
    <3>7. ClusterView' = ClusterView
      BY <1>2 DEF ClusterView
    <3> QED BY <1>2, <3>1, <3>6, <3>7 DEF Shown
  <2> QED BY <2>1, <2>2
<1> QED BY <1>5, <1>6, <1>7, <1>8 DEF TrialInv

\* A step of the scheduler, in a trial or not.
LEMMA SchedulerKeeps ==
    ASSUME TrialInv, CallInv', UNCHANGED trialVars, policy' = policy,
           phase = "IDLE" \/ UNCHANGED <<cluster, pending>>
    PROVE  TrialInv'
<1>1. CallInv /\ Timed /\ Accounted /\ FreeTyped /\ VramConserved /\ Hosted /\ Shown
  BY DEF TrialInv
<1>2. UNCHANGED <<phase, fleet, trace, simTime, arrived, queue, running, completed, free>>
  BY DEF trialVars
<1>3. Timed' /\ Accounted'
  BY <1>1, <1>2 DEF Timed, Accounted, RunningJobs
<1>4. FreeTyped' /\ VramConserved' /\ Hosted'
  BY <1>1, <1>2, StillHeld, StillHosted
<1>5. Shown'
  BY <1>1, <1>2 DEF Shown, ClusterView
<1> QED BY <1>3, <1>4, <1>5 DEF TrialInv

LEMMA PlaceNextKeeps == ASSUME TrialInv, PlaceNext PROVE TrialInv'
<1>1. Place /\ UNCHANGED trialVars /\ CallInv
  BY DEF PlaceNext, TrialInv
<1> QED BY <1>1, PlaceKeeps, PlaceTurns, SchedulerKeeps

LEMMA AnyCallKeeps == ASSUME TrialInv, AnyCall PROVE TrialInv'
<1>1. Next /\ UNCHANGED trialVars /\ phase = "IDLE" /\ CallInv
  BY DEF AnyCall, TrialInv
<1>2. policy' = policy
  BY <1>1, PlaceTurns DEF Next, Schedule
<1> QED BY <1>1, <1>2, NextKeeps, SchedulerKeeps

LEMMA AdvanceKeeps == ASSUME TrialInv, Advance PROVE TrialInv'
<1>1. CallInv /\ Timed /\ Accounted /\ FreeTyped /\ VramConserved /\ Hosted /\ Shown
  BY DEF TrialInv
<1>2. /\ phase = "ADVANCE"
      /\ phase' = IF AllProcessed \/ simTime + 1 = MaxSteps THEN "DONE" ELSE "ARRIVE"
      /\ simTime' = IF AllProcessed THEN simTime ELSE simTime + 1
      /\ UNCHANGED <<vars, fleet, trace, arrived, queue, running, completed, free>>
  BY DEF Advance
<1>3. /\ simTime' \in 0..MaxSteps /\ phase' \in {"DONE", "ARRIVE"}
      /\ phase' # "DONE" => simTime' < MaxSteps
  <2>1. simTime \in 0..MaxSteps /\ simTime < MaxSteps /\ MaxSteps \in Nat
    BY <1>1, <1>2, TraceAssumption DEF Timed
  <2> QED BY <1>2, <2>1
<1>4. Timed'
  BY <1>1, <1>2, <1>3 DEF Timed, Phases
<1>5. Accounted'
  BY <1>1, <1>2 DEF Accounted, RunningJobs
<1>6. CallInv' /\ FreeTyped' /\ VramConserved' /\ Hosted'
  BY <1>1, <1>2, StillCall, StillHeld, StillHosted DEF vars
<1>7. Shown'
  BY <1>3 DEF Shown
<1> QED BY <1>4, <1>5, <1>6, <1>7 DEF TrialInv

LEMMA NextTrialKeeps == ASSUME TrialInv, NextTrial PROVE TrialInv'
<1>1. CallInv /\ Timed
  BY DEF TrialInv
<1>2. /\ phase = "DONE" /\ phase' = "ARRIVE" /\ simTime' = 0 /\ arrived' = 0
      /\ queue' = {} /\ running' = {} /\ completed' = {} /\ free' = FreeOf(fleet)
      /\ UNCHANGED <<vars, fleet>>
  BY DEF NextTrial
<1>3. PICK t \in GenerateTrace(Len(trace)) : trace' = t
  BY DEF NextTrial
<1>4. Len(trace) \in Counts
  BY <1>1, <1>2 DEF Timed
<1>5. IsTrace(t) /\ Len(t) = Len(trace) /\ 1..Len(t) \subseteq Jobs
  BY <1>4, TracesAre
<1>6. Timed'
  BY <1>1, <1>2, <1>3, <1>4, <1>5, TraceAssumption DEF Timed, Phases
<1>7. Accounted'
  <2>1. Len(trace) \in Nat /\ IsFiniteSet({})
    BY <1>4, TraceAssumption, FS_EmptySet
  <2> QED BY <1>2, <1>3, <1>5, <2>1 DEF Accounted, RunningJobs
<1>8. Hosted' /\ Shown'
  BY <1>2 DEF Hosted, Shown, RunningJobs
<1>9. FreeTyped'
  BY <1>1, <1>2, FleetIsSnapshot DEF Timed, FreeTyped, FreeOf, IsSnapshot
<1>10. VramConserved'
  <2> SUFFICES ASSUME NEW w \in DOMAIN fleet, NEW d \in fleet[w].devices
               PROVE  free'[w][d] + HeldOf(running', w, d) = fleet[w].free[d]
    BY <1>2 DEF VramConserved
  <2>1. free'[w][d] = fleet[w].free[d]
    BY <1>2 DEF FreeOf
  <2>2. fleet[w].free[d] \in Nat
    BY <1>1, FleetIsSnapshot DEF Timed, IsSnapshot
  <2>3. HeldOf(running', w, d) = 0
    BY <1>2, HeldOfNone DEF Holders
  <2> QED BY <2>1, <2>2, <2>3
<1> QED BY <1>1, <1>2, <1>6, <1>7, <1>8, <1>9, <1>10, StillCall DEF TrialInv

\* A booked entry takes memory that is free, of a device nobody else takes.
LEMMA BookedHeld ==
    ASSUME CallInv, NEW R, NEW run, run = [e \in Booked |-> run[e]],
           R = {run[e] : e \in Booked},
           \A e \in Booked : /\ run[e].job = e.job /\ run[e].worker = e.worker
                             /\ run[e].devices = e.devices,
           NEW w \in DOMAIN cluster, NEW d \in cluster[w].devices
    PROVE  /\ HeldOf(R, w, d) = HeldOf(Booked, w, d)
           /\ HeldOf(R, w, d) \in Nat /\ HeldOf(R, w, d) <= cluster[w].free[d]
<1> DEFINE H == Holders(Booked, w, d)
<1>1. cluster[w].free[d] \in Nat
  BY DEF CallInv, Setting, IsSnapshot
<1>2. Holders(R, w, d) = {run[e] : e \in H}
  BY DEF Holders
<1>3. CASE H = {}
  <2>1. Holders(R, w, d) = {}
    BY <1>2, <1>3
  <2> QED BY <1>1, <1>3, <2>1, HeldOfNone
<1>4. CASE H # {}
  <2>1. PICK e \in H : TRUE
    BY <1>4
  <2>2. e \in Booked /\ e.worker = w /\ d \in e.devices
    BY DEF Holders
  <2>3. \A f \in H : f \in Booked /\ f.worker = w /\ d \in f.devices
    BY DEF Holders
  <2> HIDE DEF H
  <2>4. H = {e}
    BY <2>1, <2>2, <2>3, BookedAre
  <2>5. Holders(R, w, d) = {run[e]}
    BY <1>2, <2>4
  <2>6. e.job \in Jobs /\ Req[e.job].vram <= cluster[w].free[d] /\ Req[e.job].vram \in Nat
    <3>1. e.job \in Jobs /\ Req[e.job].vram <= cluster[w].free[d]
      BY <2>2, BookedAre
    <3> QED BY <3>1, RequestsAssumption DEF Jobs
  <2>7. HeldOf(Booked, w, d) = Req[e.job].vram
    BY <2>4, <2>6, HeldOfOne DEF H
  <2>8. run[e].job = e.job
    BY <2>2
  <2>9. HeldOf(R, w, d) = Req[run[e].job].vram
    <3> DEFINE a == run[e]
    <3>1. a.job \in Jobs /\ Holders(R, w, d) = {a}
      BY <2>5, <2>6, <2>8
    <3> HIDE DEF a
    <3>2. HeldOf(R, w, d) = Req[a.job].vram
      BY <3>1, HeldOfOne
    <3> QED BY <3>2 DEF a
  <2> QED BY <2>6, <2>7, <2>8, <2>9
<1> QED BY <1>3, <1>4

\* A job in the plan has a host.
LEMMA BookedHosted ==
    ASSUME CallInv, policy # "GANG", fleet \in Fleets, FreeTyped, VramConserved, Accounted, Timed,
           cluster = ClusterView, NEW e \in Booked
    PROVE  Host(e.job, e.worker) /\ e.worker \in DOMAIN fleet
<1> DEFINE w == e.worker
<1>1. PICK n \in DOMAIN taken.plan : e = taken.plan[n]
  BY BookedAre
<1>2. Counted(taken, cluster)
  BY DEF CallInv
<1>3. /\ Cardinality(e.devices) = Req[e.job].gpus /\ Req[e.job].cpus <= cluster[w].cpus
  BY <1>1, <1>2 DEF Counted
<1>4. /\ w \in DOMAIN cluster /\ e.job \in Jobs /\ e.devices \in SUBSET cluster[w].devices
      /\ \A d \in e.devices : Req[e.job].vram <= cluster[w].free[d]
  BY BookedAre
<1>5. /\ w \in DOMAIN fleet /\ cluster[w].cpus = fleet[w].cpus
      /\ cluster[w].devices = fleet[w].devices /\ cluster[w].free = free[w]
  BY <1>4, ViewIsSnapshot
<1>6. ASSUME NEW d \in e.devices PROVE Req[e.job].vram <= fleet[w].free[d]
  <2>1. d \in fleet[w].devices /\ Req[e.job].vram <= free[w][d]
    BY <1>4, <1>5
  <2>2. free[w][d] + HeldOf(running, w, d) = fleet[w].free[d] /\ free[w][d] \in Nat
    BY <1>5, <2>1 DEF VramConserved, FreeTyped
  <2>3. HeldOf(running, w, d) \in Nat
    <3>1. \A r \in running : r.job \in Jobs
      BY AccountIsFinite
    <3>2. IsFiniteSet(running)
      BY DEF Accounted
    <3> QED BY <3>1, <3>2, HeldIsNat
  <2>4. Req[e.job].vram \in Nat
    BY <1>4, RequestsAssumption DEF Jobs
  <2> QED BY <2>1, <2>2, <2>3, <2>4
<1> QED BY <1>3, <1>4, <1>5, <1>6 DEF Host

\* A booked job leaves the queue and takes its memory.
LEMMA BookKeeps == ASSUME TrialInv, Book PROVE TrialInv'
<1> DEFINE B == Booked
           run == [e \in B |-> [job |-> e.job, worker |-> e.worker, devices |-> e.devices,
                                finish |-> simTime + trace[e.job].duration]]
           R == {run[e] : e \in B}
           BJ == {e.job : e \in B}
<1>1. CallInv /\ Timed /\ Accounted /\ FreeTyped /\ VramConserved /\ Hosted /\ Shown
  BY DEF TrialInv
<1>2. /\ phase = "PLACE" /\ waiting = <<>> /\ waiting' = <<>>
      /\ queue' = queue \ BJ /\ running' = running \cup R
      /\ free' = [w \in DOMAIN free |-> [d \in DOMAIN free[w] |->
                     LessMonus(free[w][d], HeldOf(B, w, d))]]
      /\ pending' = {} /\ taken' = NothingTaken(fleet) /\ phase' = "ADVANCE"
      /\ policy' = policy /\ cluster' = cluster
      /\ UNCHANGED <<fleet, trace, simTime, arrived, completed>>
  BY DEF Book
<1>3. pending = queue /\ cluster = ClusterView /\ fleet \in Fleets
  BY <1>1, <1>2 DEF Shown, Timed
<1>4. /\ IsFiniteSet(B)
      /\ \A e, f \in B : e.job = f.job => e = f
      /\ \A e \in B : e.job \in queue /\ e.job \in Jobs
  BY <1>1, <1>3, BookedAre
<1>5. \A e \in B : /\ run[e].job = e.job /\ run[e].worker = e.worker
                   /\ run[e].devices = e.devices
  OBVIOUS
<1>6. run = [e \in B |-> run[e]]
  OBVIOUS
<1> HIDE DEF run, B
<1>7. IsFiniteSet(R)
  BY <1>4, <1>6, Image
<1>8. /\ \A r \in R : r.job \in BJ /\ r.job \in Jobs
      /\ \A r, s \in R : r.job = s.job => r = s
      /\ {r.job : r \in R} = BJ /\ BJ \subseteq queue
  BY <1>4, <1>5
<1> HIDE DEF R, BJ
<1>9. running \cap R = {} /\ IsFiniteSet(running) /\ \A r \in running : r.job \in Jobs
  <2>1. \A r \in running : r.job \in RunningJobs
    BY DEF RunningJobs
  <2>2. queue \cap RunningJobs = {} /\ IsFiniteSet(running)
    BY <1>1 DEF Accounted
  <2>3. \A r \in running : r.job \in Jobs
    BY <1>1, AccountIsFinite
  <2> QED BY <1>8, <2>1, <2>2, <2>3
<1>10. RunningJobs' = RunningJobs \cup BJ
  BY <1>2, <1>8 DEF RunningJobs
<1>11. Accounted'
  <2>1. /\ arrived \in 0..Len(trace)
        /\ \A r, s \in running : r.job = s.job => r = s
        /\ queue \cap completed = {} /\ queue \cap RunningJobs = {}
        /\ completed \cap RunningJobs = {}
        /\ queue \cup completed \cup RunningJobs = 1..arrived
    BY <1>1 DEF Accounted
  <2>2. IsFiniteSet(running \cup R)
    BY <1>7, <1>9, FS_Union
  <2>3. \A r \in running, s \in R : r.job # s.job
    BY <1>8, <2>1 DEF RunningJobs
  <2>4. \A r, s \in running \cup R : r.job = s.job => r = s
    BY <1>8, <2>1, <2>3
  <2>5. /\ (queue \ BJ) \cap completed = {} /\ (queue \ BJ) \cap (RunningJobs \cup BJ) = {}
        /\ completed \cap (RunningJobs \cup BJ) = {}
        /\ (queue \ BJ) \cup completed \cup (RunningJobs \cup BJ) = 1..arrived
    BY <1>8, <2>1
  <2> QED BY <1>2, <1>10, <2>1, <2>2, <2>4, <2>5 DEF Accounted
<1>12. ASSUME NEW w \in DOMAIN fleet, NEW d \in fleet[w].devices
       PROVE  /\ free'[w][d] = free[w][d] - HeldOf(R, w, d) /\ free[w][d] \in Nat
              /\ HeldOf(R, w, d) \in Nat /\ HeldOf(R, w, d) <= free[w][d]
              /\ HeldOf(running, w, d) \in Nat
              /\ HeldOf(running \cup R, w, d) = HeldOf(running, w, d) + HeldOf(R, w, d)
  <2>1. /\ DOMAIN free = DOMAIN fleet /\ free[w] \in [fleet[w].devices -> Nat]
        /\ free[w][d] \in Nat
    BY <1>1 DEF FreeTyped
  <2>2. w \in DOMAIN cluster /\ d \in cluster[w].devices /\ cluster[w].free[d] = free[w][d]
    BY <1>1, <1>3, ViewIsSnapshot
  <2>3. /\ HeldOf(R, w, d) = HeldOf(B, w, d)
        /\ HeldOf(R, w, d) \in Nat /\ HeldOf(R, w, d) <= cluster[w].free[d]
    BY <1>1, <1>5, <1>6, <2>2, BookedHeld DEF R, B
  <2>4. HeldOf(running \cup R, w, d) = HeldOf(running, w, d) + HeldOf(R, w, d)
    BY <1>7, <1>8, <1>9, HeldSplits
  <2>5. HeldOf(running, w, d) \in Nat
    BY <1>9, HeldIsNat
  <2>6. free'[w][d] = LessMonus(free[w][d], HeldOf(B, w, d))
    BY <1>2, <2>1
  <2>7. LessMonus(free[w][d], HeldOf(R, w, d)) = free[w][d] - HeldOf(R, w, d)
    BY <2>1, <2>2, <2>3 DEF LessMonus
  <2> QED BY <2>1, <2>2, <2>3, <2>4, <2>5, <2>6, <2>7
<1>13. FreeTyped'
  <2>1. fleet' = fleet /\ DOMAIN free' = DOMAIN fleet
    BY <1>1, <1>2 DEF FreeTyped
  <2>2. ASSUME NEW w \in DOMAIN fleet PROVE free'[w] \in [fleet[w].devices -> Nat]
    <3>1. w \in DOMAIN free /\ DOMAIN free[w] = fleet[w].devices
      BY <1>1 DEF FreeTyped
    <3>2. free'[w] = [d \in fleet[w].devices |-> LessMonus(free[w][d], HeldOf(B, w, d))]
      BY <1>2, <3>1
    <3>3. \A d \in fleet[w].devices : free'[w][d] \in Nat
      BY <1>12
    <3> QED BY <3>2, <3>3
  <2> QED BY <2>1, <2>2 DEF FreeTyped
<1>14. VramConserved'
  <2> SUFFICES ASSUME NEW w \in DOMAIN fleet, NEW d \in fleet[w].devices
               PROVE  free'[w][d] + HeldOf(running \cup R, w, d) = fleet[w].free[d]
    BY <1>2 DEF VramConserved
  <2>1. free[w][d] + HeldOf(running, w, d) = fleet[w].free[d]
    BY <1>1 DEF VramConserved
  <2>2. /\ free'[w][d] = free[w][d] - HeldOf(R, w, d) /\ free[w][d] \in Nat
        /\ HeldOf(R, w, d) \in Nat /\ HeldOf(running, w, d) \in Nat
    BY <1>12
  <2>3. HeldOf(running \cup R, w, d) = HeldOf(running, w, d) + HeldOf(R, w, d)
    BY <1>12
  <2> QED BY <2>1, <2>2, <2>3
<1>15. Hosted'
  <2>1. policy' = policy /\ fleet' = fleet /\ completed' = completed
    BY <1>2
  <2>2. \A j, w : Host(j, w)' <=> Host(j, w)
    BY <2>1 DEF Host
  <2> SUFFICES ASSUME policy # "GANG", NEW j \in completed \cup (RunningJobs \cup BJ)
               PROVE  \E w \in DOMAIN fleet : Host(j, w)
    BY <1>10, <2>1, <2>2 DEF Hosted
  <2>3. CASE j \in BJ
    <3>1. PICK e \in Booked : j = e.job
      BY <2>3 DEF BJ, B
    <3>2. Host(e.job, e.worker) /\ e.worker \in DOMAIN fleet
      BY <1>1, <1>3, BookedHosted
    <3> QED BY <3>1, <3>2
  <2>4. CASE j \in completed \cup RunningJobs
    BY <1>1, <2>4 DEF Hosted
  <2> QED BY <2>3, <2>4
<1>16. CallInv'
  <2>1. IsSnapshot(cluster) /\ policy \in Policies
    BY <1>1 DEF CallInv, Setting
  <2>2. Setting'
    BY <1>2, <2>1 DEF Setting
  <2>3. Lists(waiting', pending')
    BY <1>2 DEF Lists
  <2>4. taken' = NothingTaken(cluster')
    BY <1>1, <1>2, <1>3, ViewIsSnapshot
  <2> QED BY <2>2, <2>3, <2>4, CallBeginsNext
<1>17. Timed' /\ Shown'
  BY <1>1, <1>2 DEF Timed, Phases, Shown
<1> QED BY <1>11, <1>13, <1>14, <1>15, <1>16, <1>17 DEF TrialInv

-----------------------------------------------------------------------------
(* The harness *)

LEMMA BenchKeeps == TrialInv /\ [BenchNext]_<<vars, trialVars>> => TrialInv'
<1> SUFFICES ASSUME TrialInv, [BenchNext]_<<vars, trialVars>> PROVE TrialInv'
  OBVIOUS
<1>1. CASE UNCHANGED <<vars, trialVars>>
  <2>1. CallInv' /\ policy' = policy /\ UNCHANGED <<cluster, pending>>
    BY <1>1, StillCall DEF TrialInv, vars
  <2> QED BY <1>1, <2>1, SchedulerKeeps
<1>2. CASE BenchNext
  BY <1>2, AnyCallKeeps, ArriveKeeps, ReleaseKeeps, CallKeeps, PlaceNextKeeps, BookKeeps,
     AdvanceKeeps, NextTrialKeeps DEF BenchNext
<1> QED BY <1>1, <1>2

\* The invariant of a trial, with that of the call that is under way: jobs are
\* counted, memory is, and no more is planned than there is.
THEOREM TrialInvariant == BenchSpec => []TrialInv
  BY BenchStarts, BenchKeeps, PTL DEF BenchSpec

LEMMA TrialTyped == TrialInv => BenchTypeOK
<1> SUFFICES ASSUME TrialInv PROVE BenchTypeOK
  OBVIOUS
<1>1. CallInv /\ Timed /\ Accounted /\ FreeTyped
  BY DEF TrialInv
<1>2. queue \cup completed \cup RunningJobs = 1..arrived /\ arrived \in 0..Len(trace)
  BY <1>1 DEF Accounted
<1> QED BY <1>1, <1>2, CallTyped, AllCounted DEF BenchTypeOK, Timed, Phases, FreeTyped, RunningJobs

\* A call and the steps of a trial keep the types, and a job that has arrived is
\* pending, running or completed, and only one of these.
THEOREM BenchTypeCorrect == BenchSpec => []BenchTypeOK
  BY TrialInvariant, TrialTyped, PTL

\* No call of any scheduler gives away more than the workers have.
THEOREM CapacityKept == BenchSpec => []WithinCapacity
<1>1. TrialInv => WithinCapacity
  BY CallWithinCapacity DEF TrialInv
<1> QED BY <1>1, TrialInvariant, PTL

\* No call of any scheduler plans a part of a job.
THEOREM PlannedWhole == BenchSpec => []WholeOrNothing
<1>1. TrialInv => WholeOrNothing
  BY CallWholeOrNothing DEF TrialInv
<1> QED BY <1>1, TrialInvariant, PTL

\* When a call returns, none of the jobs it left out has a place.
THEOREM NoPlaceLeft == BenchSpec => []NothingFittingLeft
<1>1. TrialInv => NothingFittingLeft
  BY CallNothingFittingLeft DEF TrialInv
<1> QED BY <1>1, TrialInvariant, PTL

\* The memory-aware and the topology-aware schedulers find the best placement.
THEOREM BestFound == BenchSpec => BestOfAll
<1>1. TrialInv /\ [BenchNext]_<<vars, trialVars>> => [NewEntriesBest]_vars
  <2> SUFFICES ASSUME TrialInv, [BenchNext]_<<vars, trialVars>>, ~UNCHANGED vars
               PROVE  NewEntriesBest
    OBVIOUS
  <2>1. CallInv
    BY DEF TrialInv
  <2>2. CASE AnyCall \/ PlaceNext
    BY <2>1, <2>2, NextBest DEF AnyCall, PlaceNext, Next
  <2>3. CASE Call \/ Book
    <3>1. taken' = NothingTaken(fleet)
      BY <2>3 DEF Call, Book
    <3>2. DOMAIN taken'.plan = {}
      BY <3>1 DEF NothingTaken
    <3> QED BY <3>2 DEF NewEntriesBest
  <2>4. AnyCall \/ PlaceNext \/ Call \/ Book
    BY DEF BenchNext, Arrive, Release, Advance, NextTrial
  <2> QED BY <2>2, <2>3, <2>4
<1> QED BY <1>1, TrialInvariant, PTL DEF BenchSpec, BestOfAll

\* Jobs that run at the same time on a GPU never share its memory.
THEOREM VramAccount == BenchSpec => []VramConserved
<1>1. TrialInv => VramConserved
  BY DEF TrialInv
<1> QED BY <1>1, TrialInvariant, PTL

-----------------------------------------------------------------------------
(* The diagnosis *)

LEMMA TotalsAreFinite ==
    ASSUME IsSnapshot(fleet)
    PROVE  LET T == {x.total : x \in D!Gpus(DevicesOf(fleet))}
           IN  /\ T \in SUBSET Nat /\ IsFiniteSet(T)
               /\ \A w \in DOMAIN fleet : \A d \in fleet[w].devices : fleet[w].free[d] \in T
<1> DEFINE T == {x.total : x \in D!Gpus(DevicesOf(fleet))}
           part == [w \in DOMAIN fleet |-> {fleet[w].free[d] : d \in fleet[w].devices}]
           parts == {part[w] : w \in DOMAIN fleet}
<1>1. ASSUME NEW w \in DOMAIN fleet PROVE IsFiniteSet(part[w]) /\ part[w] \in SUBSET Nat
  <2> DEFINE f == fleet[w].free
             S == fleet[w].devices
  <2>1. IsFiniteSet(S) /\ f \in [S -> Nat]
    BY DEF IsSnapshot
  <2>2. part[w] = {f[d] : d \in S}
    OBVIOUS
  <2> HIDE DEF f, S, part
  <2>3. f = [d \in S |-> f[d]]
    BY <2>1
  <2> QED BY <2>1, <2>2, <2>3, Image
<1>2. IsFiniteSet(parts)
  <2>1. IsFiniteSet(DOMAIN fleet) /\ part = [w \in DOMAIN fleet |-> part[w]]
    BY DEF IsSnapshot
  <2> HIDE DEF part
  <2> QED BY <2>1, Image
<1>3. T = UNION parts
  <2>1. \A x \in D!Gpus(DevicesOf(fleet)) :
           \E w \in DOMAIN fleet : \E d \in fleet[w].devices : x.total = fleet[w].free[d]
    BY DEF D!Gpus, DevicesOf
  <2>2. ASSUME NEW w \in DOMAIN fleet, NEW d \in fleet[w].devices PROVE fleet[w].free[d] \in T
    <3> DEFINE x == [gpu |-> TRUE, total |-> fleet[w].free[d]]
    <3>1. x \in DevicesOf(fleet) /\ x.gpu /\ x.total = fleet[w].free[d]
      <4> DEFINE On(v) == {[gpu |-> TRUE, total |-> fleet[v].free[e]] : e \in fleet[v].devices}
      <4>1. x \in On(w) /\ x.gpu /\ x.total = fleet[w].free[d]
        OBVIOUS
      <4>2. DevicesOf(fleet) = UNION {On(v) : v \in DOMAIN fleet}
        BY DEF DevicesOf
      <4> HIDE DEF On, x
      <4> QED BY <4>1, <4>2
    <3>2. x \in D!Gpus(DevicesOf(fleet))
      BY <3>1 DEF D!Gpus
    <3> QED BY <3>1, <3>2
  <2> QED BY <2>1, <2>2
<1>4. IsFiniteSet(UNION parts) /\ UNION parts \in SUBSET Nat
  <2>1. \A p \in parts : IsFiniteSet(p) /\ p \in SUBSET Nat
    BY <1>1
  <2> HIDE DEF parts
  <2> QED BY <1>2, <2>1, FS_UNION
<1>5. \A w \in DOMAIN fleet : \A d \in fleet[w].devices : fleet[w].free[d] \in UNION parts
  OBVIOUS
<1> HIDE DEF parts
<1>6. /\ T \in SUBSET Nat /\ IsFiniteSet(T)
      /\ \A w \in DOMAIN fleet : \A d \in fleet[w].devices : fleet[w].free[d] \in T
  BY <1>3, <1>4, <1>5
<1> QED BY <1>6

LEMMA AllCpusAreMore ==
    ASSUME IsSnapshot(fleet), NEW w \in DOMAIN fleet
    PROVE  LET all == SumFunction([v \in DOMAIN fleet |-> fleet[v].cpus])
           IN  all \in Nat /\ fleet[w].cpus <= all
<1> DEFINE S == DOMAIN fleet
           f == [v \in S |-> fleet[v].cpus]
           g == [v \in {w} |-> fleet[v].cpus]
<1>1. IsFiniteSet(S) /\ f \in [S -> Nat] /\ g \in [{w} -> Nat] /\ {w} \in SUBSET S
      /\ (\A x \in {w} : g[x] <= f[x]) /\ g[w] = fleet[w].cpus
  BY DEF IsSnapshot
<1> HIDE DEF f, g, S
<1>2. SumFunction(f) \in Nat /\ SumFunction(g) <= SumFunction(f)
  BY <1>1, TotalIsNat, TotalOfSmaller
<1>3. SumFunction(g) = g[w]
  <2> DEFINE e == [x \in {} |-> 0]
  <2>1. /\ IsFiniteSet({}) /\ w \notin {} /\ e \in [{} -> Nat] /\ g \in [{} \cup {w} -> Nat]
        /\ \A y \in {} : g[y] = e[y]
    BY <1>1, FS_EmptySet
  <2>2. SumFunction(e) = SumFunctionOnSet(e, {})
    BY DEF SumFunction
  <2> HIDE DEF e
  <2>3. SumFunction(g) = SumFunction(e) + g[w]
    BY <2>1, TotalAdds
  <2>4. SumFunction(e) = 0
    BY <2>2, SumOfNone
  <2>5. g[w] \in Nat
    BY <1>1
  <2> QED BY <2>3, <2>4, <2>5
<1> QED BY <1>1, <1>2, <1>3 DEF f, S

LEMMA SameOperators ==
    /\ \A S : D!Max(S) = Max(S)
    /\ \A f : D!SumFunction(f) = SumFunction(f)
<1>1. \A S : D!Max(S) = Max(S)
  BY DEF D!Max, Max
<1>2. \A f : D!SumFunction(f) = SumFunction(f)
  BY DEF D!SumFunction, D!SumFunctionOnSet, D!FoldFunctionOnSet, D!MapThenFoldSet,
         SumFunction, SumFunctionOnSet, FoldFunctionOnSet, MapThenFoldSet
<1> QED BY <1>1, <1>2

\* A job that a worker could host is not reported to ask for too much.
LEMMA HostedIsHealthy ==
    ASSUME IsSnapshot(fleet), NEW j \in Jobs, Req[j].gpus = 0 => Req[j].vram = 0,
           NEW w \in DOMAIN fleet, Host(j, w)
    PROVE  D!AnalyzeJob([known |-> TRUE, status |-> "QUEUED", worker |-> 0, req |-> Req[j]],
                        fleet, DevicesOf(fleet)).findings = {"Healthy"}
<1> DEFINE G == D!Gpus(DevicesOf(fleet))
           T == {x.total : x \in G}
           job == [known |-> TRUE, status |-> "QUEUED", worker |-> 0, req |-> Req[j]]
<1>1. /\ Req[j].gpus \in Nat /\ Req[j].vram \in Nat /\ Req[j].cpus \in Nat
  BY RequestsAssumption DEF Jobs
<1>2. PICK E \in SUBSET fleet[w].devices :
         /\ Cardinality(E) = Req[j].gpus
         /\ \A d \in E : Req[j].vram <= fleet[w].free[d]
  BY DEF Host
<1>3. Req[j].gpus > 0 => E # {}
  BY <1>1, <1>2, FS_EmptySet
<1>4. /\ T \in SUBSET Nat /\ IsFiniteSet(T)
      /\ \A d \in fleet[w].devices : fleet[w].free[d] \in T
  BY TotalsAreFinite
<1>5. Req[j].gpus > 0 => G # {} /\ Req[j].vram <= D!Max(T)
  <2> SUFFICES ASSUME Req[j].gpus > 0 PROVE G # {} /\ Req[j].vram <= D!Max(T)
    OBVIOUS
  <2>1. PICK d \in E : TRUE
    BY <1>3
  <2>2. fleet[w].free[d] \in T /\ Req[j].vram <= fleet[w].free[d]
    BY <1>2, <1>4
  <2>3. G # {}
    BY <2>2
  <2> HIDE DEF T
  <2>4. Max(T) \in T /\ \A n \in T : Max(T) >= n
    BY <1>4, <2>2, MaxIsGreatest
  <2>5. D!Max(T) = Max(T)
    BY SameOperators
  <2>6. Max(T) \in Nat /\ fleet[w].free[d] \in Nat /\ fleet[w].free[d] <= Max(T)
    BY <1>4, <2>2, <2>4
  <2>7. Req[j].vram <= Max(T)
    BY <1>1, <2>2, <2>6
  <2> QED BY <2>3, <2>5, <2>7
<1>6. D!Max(T) \in Nat \/ Req[j].gpus = 0
  <2> SUFFICES ASSUME Req[j].gpus > 0 PROVE D!Max(T) \in Nat
    BY <1>1
  <2>1. T # {}
    BY <1>2, <1>3, <1>4
  <2> HIDE DEF T
  <2>2. Max(T) \in T
    BY <1>4, <2>1, MaxIsGreatest
  <2>3. D!Max(T) = Max(T)
    BY SameOperators
  <2> QED BY <1>4, <2>2, <2>3
<1>7. ~D!VramPressure(Req[j], DevicesOf(fleet))
  BY <1>1, <1>5, <1>6 DEF D!VramPressure
<1>8. D!Bottlenecks(Req[j], fleet, DevicesOf(fleet)) = {}
  <2> DEFINE all == D!SumFunction([v \in DOMAIN fleet |-> fleet[v].cpus])
  <2>1. all \in Nat /\ fleet[w].cpus <= all
    BY AllCpusAreMore, SameOperators
  <2>2. Req[j].cpus <= fleet[w].cpus /\ fleet[w].cpus \in Nat
    BY DEF Host, IsSnapshot
  <2>3. D!Bottlenecks(Req[j], fleet, DevicesOf(fleet))
        = {f \in {"NoAvailableGPU", "VramExceeded", "CpuExceeded"} :
              CASE f = "NoAvailableGPU" -> Req[j].gpus > 0 /\ G = {}
                [] f = "VramExceeded"   -> D!VramPressure(Req[j], DevicesOf(fleet))
                [] f = "CpuExceeded"    -> all > 0 /\ Req[j].cpus > all}
    BY DEF D!Bottlenecks
  <2> HIDE DEF all, G
  <2>4. ~(Req[j].gpus > 0 /\ G = {}) /\ ~(all > 0 /\ Req[j].cpus > all)
    BY <1>1, <1>5, <2>1, <2>2
  <2> QED BY <1>7, <2>3, <2>4
<1>9. 0 \notin DOMAIN fleet
  BY DEF IsSnapshot
<1>10. D!Findings(job, fleet, DevicesOf(fleet)) = {"Healthy"}
  <2>1. /\ job.known = TRUE /\ job.status = "QUEUED" /\ job.worker = 0 /\ job.req = Req[j]
    OBVIOUS
  <2> HIDE DEF job
  <2> QED BY <1>8, <1>9, <2>1 DEF D!Findings
<1> QED BY <1>10 DEF D!AnalyzeJob

\* The diagnosis never says of a job that a scheduler has placed that the cluster
\* is too small for it, if jobs that ask for no GPU ask for no GPU memory.
THEOREM DiagnosisAgrees ==
    ASSUME \A j \in Jobs : Req[j].gpus = 0 => Req[j].vram = 0
    PROVE  BenchSpec => []DiagnosisIsRight
<1>1. TrialInv => DiagnosisIsRight
  <2> SUFFICES ASSUME TrialInv, policy # "GANG", NEW j \in completed \cup RunningJobs
               PROVE  D!AnalyzeJob([known |-> TRUE, status |-> "QUEUED", worker |-> 0,
                                    req |-> Req[j]], fleet, DevicesOf(fleet)).findings = {"Healthy"}
    BY DEF DiagnosisIsRight, RunningJobs
  <2>1. PICK w \in DOMAIN fleet : Host(j, w)
    BY DEF TrialInv, Hosted
  <2>2. IsSnapshot(fleet) /\ j \in Jobs
    BY FleetIsSnapshot, AccountIsFinite DEF TrialInv, Timed
  <2> QED BY <2>1, <2>2, HostedIsHealthy
<1> QED BY <1>1, TrialInvariant, PTL
=============================================================================
