------------------------------ MODULE SetLemmas ------------------------------
(***************************************************************************)
(* Facts about finite sets, numbers, sums and orders that several proofs    *)
(* rest on.                                                                *)
(***************************************************************************)
EXTENDS Orders, Sequences, FiniteSetTheorems, WellFoundedInduction, TLAPS

\* A finite set of numbers that is not empty has a greatest element.
LEMMA GreatestNumber ==
    ASSUME NEW S \in SUBSET Nat, IsFiniteSet(S), S # {}
    PROVE  \E n \in S : \A m \in S : n >= m
<1> DEFINE Bounded(U) == \E n \in U : \A m \in U : n >= m
           T == {U \in FiniteSubsetsOf(S) : U # {} /\ ~Bounded(U)}
<1> SUFFICES ASSUME S \in T PROVE FALSE
  BY DEF FiniteSubsetsOf
<1>1. PICK U \in T : \A V \in T : <<V, U>> \notin StrictSubsetOrdering(S)
  <2>1. T \subseteq FiniteSubsetsOf(S) /\ T # {}
    OBVIOUS
  <2> HIDE DEF T
  <2> QED BY <2>1, FS_StrictSubsetOrderingWellFounded, WFMin
<1>2. PICK u \in U : TRUE
  OBVIOUS
<1> DEFINE V == U \ {u}
<1>3. U \in SUBSET Nat /\ IsFiniteSet(V) /\ V \in SUBSET S /\ U \in SUBSET S
  BY FS_RemoveElement DEF FiniteSubsetsOf
<1>4. V # {}
  BY <1>2, <1>3
<1>5. <<V, U>> \in StrictSubsetOrdering(S)
  BY <1>2, <1>3 DEF StrictSubsetOrdering
<1>6. Bounded(V)
  BY <1>1, <1>3, <1>4, <1>5 DEF FiniteSubsetsOf
<1>7. Bounded(U)
  BY <1>2, <1>3, <1>6
<1> QED BY <1>7

\* A set of numbers that is not empty has a least element.
LEMMA LeastNumber ==
    ASSUME NEW S \in SUBSET Nat, S # {}
    PROVE  \E n \in S : \A m \in S : n <= m
<1>1. PICK s \in S : s \in Nat
  OBVIOUS
<1> DEFINE Below == {b \in 0..s : \A m \in S : b <= m}
<1>2. IsFiniteSet(Below) /\ Below \in SUBSET Nat /\ 0 \in Below
  <2>1. IsFiniteSet(0..s) /\ 0..s \in SUBSET Nat /\ Below \in SUBSET (0..s) /\ 0 \in Below
    BY <1>1, FS_Interval
  <2> HIDE DEF Below
  <2> QED BY <2>1, FS_Subset
<1>3. PICK n \in Below : \A b \in Below : n >= b
  <2> HIDE DEF Below
  <2> QED BY <1>2, GreatestNumber
<1>4. ASSUME n \notin S PROVE FALSE
  <2>1. \A m \in S : n + 1 <= m
    BY <1>3, <1>4
  <2>2. n + 1 \in Below
    BY <1>1, <1>3, <2>1
  <2> QED BY <1>3, <2>2
<1> QED BY <1>3, <1>4

\* A finite set with at most one element has no two.
LEMMA AtMostOne ==
    ASSUME NEW S, IsFiniteSet(S), Cardinality(S) <= 1, NEW p \in S, NEW q \in S
    PROVE  p = q
<1> SUFFICES ASSUME p # q PROVE FALSE
  OBVIOUS
<1>1. IsFiniteSet({p}) /\ Cardinality({p}) = 1
  BY FS_Singleton
<1>2. Cardinality({p} \cup {q}) = Cardinality({p}) + 1
  BY <1>1, FS_AddElement
<1>3. Cardinality({p} \cup {q}) <= Cardinality(S)
  <2>1. {p} \cup {q} \in SUBSET S
    OBVIOUS
  <2> QED BY <2>1, FS_Subset
<1>4. Cardinality(S) \in Nat
  BY FS_CardinalityType
<1> QED BY <1>1, <1>2, <1>3, <1>4

\* Of finite sets, some are the smallest.  This takes the place of induction: of
\* the sets for which a statement is false, take the smallest.
LEMMA SmallestSet ==
    ASSUME NEW F, F # {}, \A S \in F : IsFiniteSet(S)
    PROVE  \E S \in F : \A T \in F : Cardinality(S) <= Cardinality(T)
<1> DEFINE sizes == {Cardinality(S) : S \in F}
<1>1. \A S \in F : Cardinality(S) \in Nat
  BY FS_CardinalityType
<1>2. sizes \in SUBSET Nat /\ sizes # {}
  BY <1>1
<1>3. PICK n \in sizes : \A m \in sizes : n <= m
  <2> HIDE DEF sizes
  <2> QED BY <1>2, LeastNumber
<1> QED BY <1>3

-----------------------------------------------------------------------------
(* Sums *)

\* The recursion of SumFunctionOnSet, on the sets that D names.
Sums(it, f, D) ==
    it = [s \in D |-> IF s = {} THEN 0
                       ELSE f[CHOOSE x \in s : TRUE] + it[s \ {CHOOSE x \in s : TRUE}]]

SumsOf(it, f, S) == Sums(it, f, SUBSET S)

LEMMA Chosen ==
    ASSUME NEW s, s # {}, IsFiniteSet(s)
    PROVE  LET x == CHOOSE y \in s : TRUE
           IN  /\ x \in s /\ x \notin s \ {x} /\ IsFiniteSet(s \ {x})
               /\ Cardinality(s \ {x}) = Cardinality(s) - 1 /\ Cardinality(s) \in Nat \ {0}
               /\ Cardinality(s \ {x}) \in Nat
<1> DEFINE x == CHOOSE y \in s : TRUE
<1>1. x \in s
  OBVIOUS
<1> HIDE DEF x
<1>2. /\ IsFiniteSet(s \ {x}) /\ Cardinality(s \ {x}) = Cardinality(s) - 1
      /\ Cardinality(s) \in Nat /\ Cardinality(s \ {x}) \in Nat /\ Cardinality(s) # 0
  BY <1>1, FS_RemoveElement, FS_CardinalityType, FS_EmptySet
<1>3. /\ x \in s /\ x \notin s \ {x} /\ IsFiniteSet(s \ {x})
      /\ Cardinality(s \ {x}) = Cardinality(s) - 1 /\ Cardinality(s) \in Nat \ {0}
      /\ Cardinality(s \ {x}) \in Nat
  BY <1>1, <1>2
<1> QED BY <1>3 DEF x

\* The recursion has a solution.
LEMMA SumsExist ==
    ASSUME NEW S, IsFiniteSet(S), NEW f
    PROVE  \E it : SumsOf(it, f, S)
<1> DEFINE UpTo(m) == {s \in SUBSET S : Cardinality(s) <= m}
           last == Cardinality(S)
           G == {m \in 0..last : \E it : Sums(it, f, UpTo(m))}
<1>0. last \in Nat /\ \A s \in SUBSET S : IsFiniteSet(s) /\ Cardinality(s) \in Nat /\ Cardinality(s) <= last
  BY FS_CardinalityType, FS_Subset
<1>1. 0 \in G
  <2>1. \A s \in UpTo(0) : s = {}
    BY <1>0, FS_EmptySet
  <2> DEFINE it == [s \in UpTo(0) |-> 0]
  <2>2. Sums(it, f, UpTo(0))
    BY <2>1 DEF Sums
  <2> QED BY <1>0, <2>2
<1>2. IsFiniteSet(G) /\ G \in SUBSET Nat
  <2>1. IsFiniteSet(0..last) /\ 0..last \in SUBSET Nat /\ G \in SUBSET (0..last)
    BY <1>0, FS_Interval
  <2> HIDE DEF G
  <2> QED BY <2>1, FS_Subset
<1>3. PICK m \in G : \A k \in G : m >= k
  <2> HIDE DEF G
  <2> QED BY <1>1, <1>2, GreatestNumber
<1>4. PICK it : Sums(it, f, UpTo(m))
  BY <1>3
<1>5. ASSUME m # last PROVE FALSE
  <2> DEFINE x(s) == CHOOSE y \in s : TRUE
             more == [s \in UpTo(m + 1) |->
                         IF s \in UpTo(m) THEN it[s] ELSE f[x(s)] + it[s \ {x(s)}]]
  <2>1. m \in 0..last /\ m + 1 \in 0..last
    BY <1>0, <1>3, <1>5
  <2>2. ASSUME NEW s \in UpTo(m + 1), s # {}
        PROVE  s \ {x(s)} \in UpTo(m)
    BY <1>0, <2>1, <2>2, Chosen
  <2>3. ASSUME NEW s \in UpTo(m + 1)
        PROVE  more[s] = IF s = {} THEN 0 ELSE f[x(s)] + more[s \ {x(s)}]
    <3>1. UpTo(m) \subseteq UpTo(m + 1)
      BY <1>0, <2>1
    <3>2. s # {} => more[s \ {x(s)}] = it[s \ {x(s)}]
      <4> HIDE DEF UpTo, x
      <4> QED BY <2>2, <3>1
    <3>3. s \in UpTo(m) => it[s] = IF s = {} THEN 0 ELSE f[x(s)] + it[s \ {x(s)}]
      <4> HIDE DEF UpTo
      <4> QED BY <1>4 DEF Sums
    <3>4. {} \in UpTo(m)
      BY <2>1, FS_EmptySet
    <3> HIDE DEF UpTo, x
    <3> QED BY <2>3, <3>1, <3>2, <3>3, <3>4
  <2>4. Sums(more, f, UpTo(m + 1))
    <3>1. more = [s \in UpTo(m + 1) |-> more[s]]
      OBVIOUS
    <3> HIDE DEF more, UpTo
    <3> QED BY <2>3, <3>1 DEF Sums
  <2>5. m + 1 \in G
    <3> HIDE DEF more, UpTo
    <3> QED BY <2>1, <2>4
  <2> QED BY <1>3, <2>1, <2>5
<1>6. UpTo(last) = SUBSET S
  BY <1>0
<1> QED BY <1>4, <1>5, <1>6 DEF SumsOf

\* Two solutions tell the same of the sets they both name.
LEMMA SumsAgree ==
    ASSUME NEW S, IsFiniteSet(S), NEW T, NEW f,
           NEW it, SumsOf(it, f, S), NEW jt, SumsOf(jt, f, T)
    PROVE  \A s \in SUBSET (S \cap T) : it[s] = jt[s]
<1> DEFINE F == {s \in SUBSET (S \cap T) : it[s] # jt[s]}
<1> SUFFICES ASSUME F # {} PROVE FALSE
  OBVIOUS
<1>1. \A s \in F : IsFiniteSet(s)
  BY FS_Subset
<1>2. PICK s \in F : \A t \in F : Cardinality(s) <= Cardinality(t)
  <2> HIDE DEF F
  <2> QED BY <1>1, SmallestSet
<1> DEFINE x == CHOOSE y \in s : TRUE
<1>3. /\ it[s] = IF s = {} THEN 0 ELSE f[x] + it[s \ {x}]
      /\ jt[s] = IF s = {} THEN 0 ELSE f[x] + jt[s \ {x}]
  BY <1>2 DEF SumsOf, Sums
<1>4. s # {}
  BY <1>2, <1>3
<1>5. x \in s /\ Cardinality(s \ {x}) < Cardinality(s) /\ Cardinality(s \ {x}) \in Nat /\ Cardinality(s) \in Nat
  <2>1. IsFiniteSet(s)
    BY <1>1, <1>2
  <2>2. /\ x \in s /\ Cardinality(s \ {x}) = Cardinality(s) - 1
        /\ Cardinality(s) \in Nat \ {0} /\ Cardinality(s \ {x}) \in Nat
    BY <1>4, <2>1, Chosen, Zenon
  <2> HIDE DEF x
  <2> QED BY <2>2
<1> HIDE DEF x
<1>6. s \ {x} \notin F
  BY <1>2, <1>5
<1> QED BY <1>2, <1>3, <1>4, <1>5, <1>6

\* A sum, one step of the recursion at a time.
LEMMA SumUnfolds ==
    ASSUME NEW S, IsFiniteSet(S), NEW f
    PROVE  LET x == CHOOSE y \in S : TRUE
           IN  SumFunctionOnSet(f, S) = IF S = {} THEN 0 ELSE f[x] + SumFunctionOnSet(f, S \ {x})
<1> DEFINE x == CHOOSE y \in S : TRUE
           sums(s) == CHOOSE i : SumsOf(i, f, s)
<1>1. \A s : SumFunctionOnSet(f, s) = sums(s)[s]
  BY DEF SumFunctionOnSet, FoldFunctionOnSet, MapThenFoldSet, SumsOf, Sums
<1>2. SumsOf(sums(S), f, S)
  BY SumsExist
<1>3. sums(S)[S] = IF S = {} THEN 0 ELSE f[x] + sums(S)[S \ {x}]
  <2>1. S \in SUBSET S
    OBVIOUS
  <2> HIDE DEF sums
  <2> QED BY <1>2, <2>1 DEF SumsOf, Sums
<1>4. S # {} => sums(S)[S \ {x}] = sums(S \ {x})[S \ {x}]
  <2> SUFFICES ASSUME S # {} PROVE sums(S)[S \ {x}] = sums(S \ {x})[S \ {x}]
    OBVIOUS
  <2>1. IsFiniteSet(S \ {x})
    BY FS_RemoveElement
  <2>2. SumsOf(sums(S \ {x}), f, S \ {x})
    BY <2>1, SumsExist
  <2> DEFINE rest == S \ {x}
             whole == sums(S)
             part == sums(rest)
  <2>3. rest \in SUBSET (S \cap rest)
    OBVIOUS
  <2>4. SumsOf(whole, f, S) /\ SumsOf(part, f, rest)
    BY <1>2, <2>2
  <2> HIDE DEF whole, part, rest
  <2>5. \A s \in SUBSET (S \cap rest) : whole[s] = part[s]
    BY <2>4, SumsAgree
  <2> QED BY <2>3, <2>5 DEF whole, part, rest
<1> HIDE DEF sums
<1>5. SumFunctionOnSet(f, S) = IF S = {} THEN 0 ELSE f[x] + SumFunctionOnSet(f, S \ {x})
  BY <1>1, <1>3, <1>4
<1> QED BY <1>5

LEMMA SumOfNone == ASSUME NEW f PROVE SumFunctionOnSet(f, {}) = 0
  BY FS_EmptySet, SumUnfolds

LEMMA SumIsNat ==
    ASSUME NEW S, IsFiniteSet(S), NEW f, \A x \in S : f[x] \in Nat
    PROVE  SumFunctionOnSet(f, S) \in Nat
<1> DEFINE F == {s \in SUBSET S : SumFunctionOnSet(f, s) \notin Nat}
<1> SUFFICES ASSUME F # {} PROVE FALSE
  OBVIOUS
<1>1. \A s \in F : IsFiniteSet(s)
  BY FS_Subset
<1>2. PICK s \in F : \A t \in F : Cardinality(s) <= Cardinality(t)
  <2> HIDE DEF F
  <2> QED BY <1>1, SmallestSet
<1> DEFINE x == CHOOSE y \in s : TRUE
<1>3. IsFiniteSet(s)
  BY <1>1, <1>2
<1>4. SumFunctionOnSet(f, s) = IF s = {} THEN 0 ELSE f[x] + SumFunctionOnSet(f, s \ {x})
  BY <1>3, SumUnfolds
<1>5. s # {}
  BY <1>2, <1>4
<1>6. x \in s
  BY <1>5
<1> HIDE DEF x
<1>7. Cardinality(s \ {x}) = Cardinality(s) - 1 /\ Cardinality(s) \in Nat
  BY <1>3, <1>6, FS_RemoveElement, FS_CardinalityType
<1>8. s \ {x} \notin F
  BY <1>2, <1>7
<1> QED BY <1>2, <1>4, <1>5, <1>6, <1>8

\* A sum does not depend on the order: any member may be taken out first.
LEMMA SumRemoves ==
    ASSUME NEW S, IsFiniteSet(S), NEW f, \A x \in S : f[x] \in Nat, NEW x \in S
    PROVE  SumFunctionOnSet(f, S) = f[x] + SumFunctionOnSet(f, S \ {x})
<1> DEFINE Wrong(s) == \E y \in s : SumFunctionOnSet(f, s) # f[y] + SumFunctionOnSet(f, s \ {y})
           F == {s \in SUBSET S : Wrong(s)}
<1> SUFFICES ASSUME F # {} PROVE FALSE
  OBVIOUS
<1>1. \A s \in F : IsFiniteSet(s)
  BY FS_Subset
<1>2. PICK s \in F : \A t \in F : Cardinality(s) <= Cardinality(t)
  <2> HIDE DEF F
  <2> QED BY <1>1, SmallestSet
<1>3. PICK y \in s : SumFunctionOnSet(f, s) # f[y] + SumFunctionOnSet(f, s \ {y})
  BY <1>2
<1> DEFINE c == CHOOSE z \in s : TRUE
<1>4. /\ IsFiniteSet(s) /\ s \in SUBSET S /\ IsFiniteSet(s \ {y})
  BY <1>1, <1>2, FS_RemoveElement
<1>5. SumFunctionOnSet(f, s) = f[c] + SumFunctionOnSet(f, s \ {c})
  BY <1>3, <1>4, SumUnfolds
<1>6. c \in s
  BY <1>3
<1> HIDE DEF c
<1>7. /\ Cardinality(s \ {c}) = Cardinality(s) - 1 /\ Cardinality(s \ {y}) = Cardinality(s) - 1
      /\ Cardinality(s) \in Nat
  BY <1>3, <1>4, <1>6, FS_RemoveElement, FS_CardinalityType
<1>8. s \ {c} \notin F /\ s \ {y} \notin F
  BY <1>2, <1>7
<1>9. c # y
  BY <1>3, <1>5
<1>10. /\ SumFunctionOnSet(f, s \ {c}) = f[y] + SumFunctionOnSet(f, (s \ {c}) \ {y})
       /\ SumFunctionOnSet(f, s \ {y}) = f[c] + SumFunctionOnSet(f, (s \ {y}) \ {c})
  <2>1. y \in s \ {c} /\ c \in s \ {y} /\ s \ {c} \in SUBSET S /\ s \ {y} \in SUBSET S
    BY <1>3, <1>4, <1>6, <1>9
  <2> QED BY <1>8, <2>1
<1>11. (s \ {c}) \ {y} = (s \ {y}) \ {c}
  OBVIOUS
<1>12. SumFunctionOnSet(f, (s \ {y}) \ {c}) \in Nat /\ f[c] \in Nat /\ f[y] \in Nat
  <2>1. IsFiniteSet((s \ {y}) \ {c}) /\ \A z \in (s \ {y}) \ {c} : f[z] \in Nat
    BY <1>4, FS_RemoveElement
  <2> QED BY <1>3, <1>4, <1>6, <2>1, SumIsNat
<1> QED BY <1>3, <1>5, <1>10, <1>11, <1>12

LEMMA SumAdds ==
    ASSUME NEW S, IsFiniteSet(S), NEW f, NEW x, x \notin S, \A y \in S \cup {x} : f[y] \in Nat
    PROVE  SumFunctionOnSet(f, S \cup {x}) = SumFunctionOnSet(f, S) + f[x]
<1> DEFINE T == S \cup {x}
<1>1. IsFiniteSet(T) /\ x \in T /\ T \ {x} = S
  BY FS_AddElement
<1> HIDE DEF T
<1>2. SumFunctionOnSet(f, T) = f[x] + SumFunctionOnSet(f, S)
  <2>1. \A y \in T : f[y] \in Nat
    BY DEF T
  <2> QED BY <1>1, <2>1, SumRemoves
<1>3. SumFunctionOnSet(f, S) \in Nat /\ f[x] \in Nat
  BY SumIsNat
<1> QED BY <1>2, <1>3 DEF T

\* The values decide.
LEMMA SumSame ==
    ASSUME NEW S, IsFiniteSet(S), NEW f, NEW g, \A x \in S : f[x] = g[x]
    PROVE  SumFunctionOnSet(f, S) = SumFunctionOnSet(g, S)
<1> DEFINE F == {s \in SUBSET S : SumFunctionOnSet(f, s) # SumFunctionOnSet(g, s)}
<1> SUFFICES ASSUME F # {} PROVE FALSE
  OBVIOUS
<1>1. \A s \in F : IsFiniteSet(s)
  BY FS_Subset
<1>2. PICK s \in F : \A t \in F : Cardinality(s) <= Cardinality(t)
  <2> HIDE DEF F
  <2> QED BY <1>1, SmallestSet
<1> DEFINE x == CHOOSE y \in s : TRUE
<1>3. IsFiniteSet(s)
  BY <1>1, <1>2
<1>4. /\ SumFunctionOnSet(f, s) = IF s = {} THEN 0 ELSE f[x] + SumFunctionOnSet(f, s \ {x})
      /\ SumFunctionOnSet(g, s) = IF s = {} THEN 0 ELSE g[x] + SumFunctionOnSet(g, s \ {x})
  BY <1>3, SumUnfolds
<1>5. s # {}
  BY <1>2, <1>4
<1>6. x \in s
  BY <1>5
<1> HIDE DEF x
<1>7. Cardinality(s \ {x}) = Cardinality(s) - 1 /\ Cardinality(s) \in Nat
  BY <1>3, <1>6, FS_RemoveElement, FS_CardinalityType
<1>8. s \ {x} \notin F
  BY <1>2, <1>7
<1> QED BY <1>2, <1>4, <1>5, <1>6, <1>8

LEMMA SumOfUnion ==
    ASSUME NEW S, IsFiniteSet(S), NEW T, IsFiniteSet(T), S \cap T = {},
           NEW f, \A x \in S \cup T : f[x] \in Nat
    PROVE  SumFunctionOnSet(f, S \cup T) = SumFunctionOnSet(f, S) + SumFunctionOnSet(f, T)
<1> DEFINE F == {t \in SUBSET T : SumFunctionOnSet(f, S \cup t)
                                      # SumFunctionOnSet(f, S) + SumFunctionOnSet(f, t)}
<1> SUFFICES ASSUME F # {} PROVE FALSE
  OBVIOUS
<1>1. \A t \in F : IsFiniteSet(t)
  BY FS_Subset
<1>2. PICK t \in F : \A u \in F : Cardinality(t) <= Cardinality(u)
  <2> HIDE DEF F
  <2> QED BY <1>1, SmallestSet
<1>3. IsFiniteSet(t) /\ t \in SUBSET T
  BY <1>1, <1>2
<1>4. CASE t = {}
  <2>1. SumFunctionOnSet(f, S) \in Nat /\ SumFunctionOnSet(f, {}) = 0 /\ S \cup {} = S
    BY SumIsNat, SumOfNone
  <2> QED BY <1>2, <1>4, <2>1
<1>5. CASE t # {}
  <2>1. PICK x \in t : TRUE
    BY <1>5
  <2> DEFINE u == t \ {x}
             V == S \cup t
  <2>2. /\ IsFiniteSet(u) /\ IsFiniteSet(V) /\ IsFiniteSet(S \cup u)
        /\ Cardinality(u) = Cardinality(t) - 1 /\ Cardinality(t) \in Nat
    BY <1>3, <2>1, FS_RemoveElement, FS_CardinalityType, FS_Union
  <2>3. u \notin F
    BY <1>2, <2>2
  <2>4. x \in V /\ V \ {x} = S \cup u /\ \A y \in V : f[y] \in Nat
    BY <1>3, <2>1
  <2>5. SumFunctionOnSet(f, V) = f[x] + SumFunctionOnSet(f, S \cup u)
    <3> HIDE DEF u, V
    <3> QED BY <2>2, <2>4, SumRemoves
  <2>6. SumFunctionOnSet(f, t) = f[x] + SumFunctionOnSet(f, u)
    BY <1>3, <2>1, SumRemoves
  <2>7. SumFunctionOnSet(f, S \cup u) = SumFunctionOnSet(f, S) + SumFunctionOnSet(f, u)
    BY <1>3, <2>3
  <2>8. SumFunctionOnSet(f, S) \in Nat /\ SumFunctionOnSet(f, u) \in Nat /\ f[x] \in Nat
    BY <1>3, <2>1, <2>2, SumIsNat
  <2> HIDE DEF u
  <2> QED BY <1>2, <2>5, <2>6, <2>7, <2>8
<1> QED BY <1>4, <1>5

LEMMA SumOfSubset ==
    ASSUME NEW S, IsFiniteSet(S), NEW T \in SUBSET S, NEW f, \A x \in S : f[x] \in Nat
    PROVE  SumFunctionOnSet(f, T) <= SumFunctionOnSet(f, S)
<1>1. /\ IsFiniteSet(T) /\ IsFiniteSet(S \ T) /\ T \cap (S \ T) = {} /\ T \cup (S \ T) = S
  BY FS_Subset
<1>2. SumFunctionOnSet(f, S) = SumFunctionOnSet(f, T) + SumFunctionOnSet(f, S \ T)
  <2> DEFINE U == S \ T
  <2> HIDE DEF U
  <2>1. SumFunctionOnSet(f, T \cup U) = SumFunctionOnSet(f, T) + SumFunctionOnSet(f, U)
    BY <1>1, SumOfUnion DEF U
  <2> QED BY <1>1, <2>1 DEF U
<1>3. SumFunctionOnSet(f, T) \in Nat /\ SumFunctionOnSet(f, S \ T) \in Nat
  BY <1>1, SumIsNat
<1> QED BY <1>2, <1>3

LEMMA SumOfSmaller ==
    ASSUME NEW S, IsFiniteSet(S), NEW f, NEW g, \A x \in S : f[x] \in Nat /\ g[x] \in Nat /\ f[x] <= g[x]
    PROVE  SumFunctionOnSet(f, S) <= SumFunctionOnSet(g, S)
<1> DEFINE F == {s \in SUBSET S : ~(SumFunctionOnSet(f, s) <= SumFunctionOnSet(g, s))}
<1> SUFFICES ASSUME F # {} PROVE FALSE
  OBVIOUS
<1>1. \A s \in F : IsFiniteSet(s)
  BY FS_Subset
<1>2. PICK s \in F : \A t \in F : Cardinality(s) <= Cardinality(t)
  <2> HIDE DEF F
  <2> QED BY <1>1, SmallestSet
<1>3. IsFiniteSet(s) /\ s \in SUBSET S
  BY <1>1, <1>2
<1>4. s # {}
  BY <1>2, SumOfNone
<1>5. PICK x \in s : TRUE
  BY <1>4
<1> DEFINE t == s \ {x}
<1>6. /\ IsFiniteSet(t) /\ Cardinality(t) = Cardinality(s) - 1 /\ Cardinality(s) \in Nat
  BY <1>3, <1>5, FS_RemoveElement, FS_CardinalityType
<1>7. SumFunctionOnSet(f, t) <= SumFunctionOnSet(g, t)
  <2>1. t \notin F
    BY <1>2, <1>6
  <2> QED BY <1>3, <2>1
<1>8. /\ SumFunctionOnSet(f, s) = f[x] + SumFunctionOnSet(f, t)
      /\ SumFunctionOnSet(g, s) = g[x] + SumFunctionOnSet(g, t)
  BY <1>3, <1>5, SumRemoves
<1>9. SumFunctionOnSet(f, t) \in Nat /\ SumFunctionOnSet(g, t) \in Nat /\ f[x] \in Nat /\ g[x] \in Nat /\ f[x] <= g[x]
  BY <1>3, <1>5, <1>6, SumIsNat
<1> HIDE DEF t
<1> QED BY <1>2, <1>7, <1>8, <1>9

\* The same of SumFunction, which sums over the whole domain.
LEMMA TotalIsNat ==
    ASSUME NEW S, IsFiniteSet(S), NEW f \in [S -> Nat]
    PROVE  SumFunction(f) \in Nat
  BY SumIsNat DEF SumFunction

LEMMA TotalAdds ==
    ASSUME NEW S, IsFiniteSet(S), NEW x, x \notin S,
           NEW f \in [S -> Nat], NEW g \in [S \cup {x} -> Nat], \A y \in S : g[y] = f[y]
    PROVE  SumFunction(g) = SumFunction(f) + g[x]
<1>1. SumFunction(g) = SumFunctionOnSet(g, S \cup {x}) /\ SumFunction(f) = SumFunctionOnSet(f, S)
  BY DEF SumFunction
<1>2. SumFunctionOnSet(g, S \cup {x}) = SumFunctionOnSet(g, S) + g[x]
  BY SumAdds
<1>3. SumFunctionOnSet(g, S) = SumFunctionOnSet(f, S)
  BY SumSame
<1> QED BY <1>1, <1>2, <1>3

\* What is at least as large where both are defined, and defined on more, has the
\* greater total.
LEMMA TotalOfSmaller ==
    ASSUME NEW T, IsFiniteSet(T), NEW S \in SUBSET T, NEW f \in [S -> Nat], NEW g \in [T -> Nat],
           \A y \in S : f[y] <= g[y]
    PROVE  SumFunction(f) <= SumFunction(g)
<1>1. SumFunction(g) = SumFunctionOnSet(g, T) /\ SumFunction(f) = SumFunctionOnSet(f, S)
  BY DEF SumFunction
<1>2. IsFiniteSet(S)
  BY FS_Subset
<1>3. SumFunctionOnSet(f, S) <= SumFunctionOnSet(g, S)
  BY <1>2, SumOfSmaller
<1>4. SumFunctionOnSet(g, S) <= SumFunctionOnSet(g, T)
  BY SumOfSubset
<1>5. SumFunctionOnSet(f, S) \in Nat /\ SumFunctionOnSet(g, S) \in Nat /\ SumFunctionOnSet(g, T) \in Nat
  BY <1>2, SumIsNat
<1> QED BY <1>1, <1>3, <1>4, <1>5

\* If each value of f on A is at least each on B, and B is as large as A, so is the sum.
LEMMA SumOfGreatest ==
    ASSUME NEW A, IsFiniteSet(A), NEW B, IsFiniteSet(B), Cardinality(A) = Cardinality(B),
           NEW f, \A x \in A \cup B : f[x] \in Nat, \A x \in A, y \in B : f[y] <= f[x]
    PROVE  SumFunctionOnSet(f, B) <= SumFunctionOnSet(f, A)
<1> DEFINE Wrong(s) == \E t \in SUBSET B : /\ Cardinality(t) = Cardinality(s)
                                          /\ ~(SumFunctionOnSet(f, t) <= SumFunctionOnSet(f, s))
           F == {s \in SUBSET A : Wrong(s)}
<1> SUFFICES ASSUME F # {} PROVE FALSE
  OBVIOUS
<1>1. \A s \in F : IsFiniteSet(s)
  BY FS_Subset
<1>2. PICK s \in F : \A t \in F : Cardinality(s) <= Cardinality(t)
  <2> HIDE DEF F
  <2> QED BY <1>1, SmallestSet
<1>3. PICK t \in SUBSET B : /\ Cardinality(t) = Cardinality(s)
                            /\ ~(SumFunctionOnSet(f, t) <= SumFunctionOnSet(f, s))
  BY <1>2
<1>4. IsFiniteSet(s) /\ s \in SUBSET A /\ IsFiniteSet(t)
  BY <1>1, <1>2, FS_Subset
<1>5. s # {} /\ t # {}
  BY <1>3, <1>4, SumOfNone, FS_EmptySet
<1>6. PICK x \in s : TRUE
  BY <1>5
<1>7. PICK y \in t : TRUE
  BY <1>5
<1> DEFINE u == s \ {x}
           v == t \ {y}
<1>8. /\ IsFiniteSet(u) /\ Cardinality(u) = Cardinality(s) - 1 /\ Cardinality(s) \in Nat
      /\ IsFiniteSet(v) /\ Cardinality(v) = Cardinality(t) - 1
  BY <1>4, <1>6, <1>7, FS_RemoveElement, FS_CardinalityType
<1>9. SumFunctionOnSet(f, v) <= SumFunctionOnSet(f, u)
  <2>1. u \notin F
    BY <1>2, <1>8
  <2>2. u \in SUBSET A /\ v \in SUBSET B /\ Cardinality(v) = Cardinality(u)
    BY <1>3, <1>4, <1>8
  <2> QED BY <2>1, <2>2
<1>10. /\ SumFunctionOnSet(f, s) = f[x] + SumFunctionOnSet(f, u)
       /\ SumFunctionOnSet(f, t) = f[y] + SumFunctionOnSet(f, v)
  BY <1>4, <1>6, <1>7, SumRemoves
<1>11. SumFunctionOnSet(f, u) \in Nat /\ SumFunctionOnSet(f, v) \in Nat /\ f[x] \in Nat /\ f[y] \in Nat /\ f[y] <= f[x]
  BY <1>4, <1>6, <1>7, <1>8, SumIsNat
<1> HIDE DEF u, v
<1> QED BY <1>3, <1>9, <1>10, <1>11

-----------------------------------------------------------------------------
(* Sorted lists *)

\* R is a strict total order of S.
IsOrder(R, S) ==
    /\ \A x \in S : <<x, x>> \notin R
    /\ \A x, y \in S : x # y => <<x, y>> \in R \/ <<y, x>> \in R
    /\ \A x, y, z \in S : <<x, y>> \in R /\ <<y, z>> \in R => <<x, z>> \in R

Below(R, S, s) == {r \in S : <<r, s>> \in R}

\* Each place of the list is that of one member.
LEMMA Ranking ==
    ASSUME NEW S, IsFiniteSet(S), NEW R, IsOrder(R, S)
    PROVE  /\ \A s \in S : Cardinality(Below(R, S, s)) \in 0..(Cardinality(S) - 1)
           /\ \A x, y \in S : <<x, y>> \in R
                              <=> Cardinality(Below(R, S, x)) < Cardinality(Below(R, S, y))
           /\ \A n \in 0..(Cardinality(S) - 1) : \E s \in S : Cardinality(Below(R, S, s)) = n
<1> DEFINE last == Cardinality(S) - 1
           rank == [s \in S |-> Cardinality(Below(R, S, s))]
<1>1. Cardinality(S) \in Nat /\ last \in Int
  BY FS_CardinalityType
<1>2. ASSUME NEW s \in S PROVE IsFiniteSet(Below(R, S, s)) /\ rank[s] \in 0..last
  <2>1. Below(R, S, s) \in SUBSET S /\ Below(R, S, s) # S
    BY DEF Below, IsOrder
  <2>2. IsFiniteSet(Below(R, S, s)) /\ Cardinality(Below(R, S, s)) <= Cardinality(S)
        /\ Cardinality(Below(R, S, s)) # Cardinality(S)
    BY <2>1, FS_Subset
  <2>3. Cardinality(Below(R, S, s)) \in Nat
    BY <2>2, FS_CardinalityType
  <2> QED BY <1>1, <2>2, <2>3
<1>3. ASSUME NEW x \in S, NEW y \in S, <<x, y>> \in R PROVE rank[x] < rank[y]
  <2>1. Below(R, S, x) \in SUBSET Below(R, S, y) /\ x \in Below(R, S, y) /\ x \notin Below(R, S, x)
    BY <1>3 DEF Below, IsOrder
  <2>2. Cardinality(Below(R, S, x)) <= Cardinality(Below(R, S, y))
        /\ Cardinality(Below(R, S, x)) # Cardinality(Below(R, S, y))
    <3>1. IsFiniteSet(Below(R, S, y))
      BY <1>2
    <3> QED BY <2>1, <3>1, FS_Subset
  <2>3. rank[x] \in Nat /\ rank[y] \in Nat
    BY <1>1, <1>2
  <2> QED BY <2>2, <2>3
<1>4. \A x, y \in S : rank[x] < rank[y] => <<x, y>> \in R
  <2> SUFFICES ASSUME NEW x \in S, NEW y \in S, rank[x] < rank[y], <<x, y>> \notin R PROVE FALSE
    OBVIOUS
  <2>1. rank[x] \in Nat /\ rank[y] \in Nat
    BY <1>1, <1>2
  <2>2. x # y
    BY <2>1
  <2>3. rank[y] < rank[x]
    BY <1>3, <2>2 DEF IsOrder
  <2> QED BY <2>1, <2>3
<1>5. rank \in Injection(S, 0..last)
  <2>1. rank \in [S -> 0..last]
    <3>1. rank = [s \in S |-> rank[s]]
      OBVIOUS
    <3> HIDE DEF rank
    <3> QED BY <1>2, <3>1
  <2>2. ASSUME NEW x \in S, NEW y \in S, rank[x] = rank[y], x # y PROVE FALSE
    <3>1. rank[x] < rank[y] \/ rank[y] < rank[x]
      BY <1>3, <2>2 DEF IsOrder
    <3>2. rank[x] \in Nat /\ rank[y] \in Nat
      BY <1>1, <1>2
    <3> QED BY <2>2, <3>1, <3>2
  <2> HIDE DEF rank
  <2> QED BY <2>1, <2>2 DEF Injection, IsInjective
<1>6. rank \in Surjection(S, 0..last)
  <2>1. IsFiniteSet(0..last) /\ Cardinality(0..last) = Cardinality(S)
    BY <1>1, FS_Interval
  <2> HIDE DEF rank, last
  <2> QED BY <1>5, <2>1, FS_Injection
<1>7. \A n \in 0..last : \E s \in S : rank[s] = n
  <2> HIDE DEF rank, last
  <2> QED BY <1>6 DEF Surjection
<1> QED BY <1>2, <1>3, <1>4, <1>7

\* A list in which each member has as many before it as come before it in the order.
LEMMA SortedList ==
    ASSUME NEW S, IsFiniteSet(S), NEW R, IsOrder(R, S),
           NEW q, q = [n \in 1..Cardinality(S) |-> q[n]],
           \A n \in 1..Cardinality(S) :
              (\E s \in S : Cardinality(Below(R, S, s)) = n - 1)
                 => q[n] \in S /\ Cardinality(Below(R, S, q[n])) = n - 1
    PROVE  /\ q \in Seq(S) /\ Len(q) = Cardinality(S)
           /\ \A s \in S : \E n \in 1..Len(q) : q[n] = s
           /\ \A i, k \in 1..Len(q) : i < k => <<q[i], q[k]>> \in R
<1>1. Cardinality(S) \in Nat
  BY FS_CardinalityType
<1>2. \A n \in 1..Cardinality(S) : q[n] \in S /\ Cardinality(Below(R, S, q[n])) = n - 1
  <2> TAKE n \in 1..Cardinality(S)
  <2>1. n - 1 \in 0..(Cardinality(S) - 1)
    BY <1>1
  <2> QED BY <2>1, Ranking
<1>3. q \in [1..Cardinality(S) -> S]
  BY <1>2
<1>4. q \in Seq(S) /\ Len(q) = Cardinality(S)
  BY <1>1, <1>3
<1>5. ASSUME NEW s \in S PROVE \E n \in 1..Len(q) : q[n] = s
  <2> DEFINE k == Cardinality(Below(R, S, s))
             n == k + 1
  <2>1. k \in 0..(Cardinality(S) - 1)
    BY Ranking
  <2>2. n \in 1..Cardinality(S) /\ n - 1 = k
    BY <1>1, <2>1
  <2> HIDE DEF n
  <2>3. Cardinality(Below(R, S, q[n])) = k /\ q[n] \in S
    BY <1>2, <2>2
  <2>4. <<q[n], s>> \notin R /\ <<s, q[n]>> \notin R
    <3>1. k \in Int /\ ~(k < k)
      BY <1>1, <2>1
    <3> QED BY <2>3, <3>1, Ranking
  <2>5. q[n] = s
    BY <2>3, <2>4 DEF IsOrder
  <2> QED BY <1>4, <2>2, <2>5
<1>6. ASSUME NEW i \in 1..Len(q), NEW k \in 1..Len(q), i < k PROVE <<q[i], q[k]>> \in R
  <2>1. i - 1 < k - 1 /\ i \in 1..Cardinality(S) /\ k \in 1..Cardinality(S)
    BY <1>1, <1>4, <1>6
  <2> QED BY <1>2, <2>1, Ranking
<1> QED BY <1>4, <1>5, <1>6

\* The first n of the list.
LEMMA FirstOfList ==
    ASSUME NEW S, IsFiniteSet(S), NEW R, IsOrder(R, S), NEW n \in 0..Cardinality(S)
    PROVE  LET U == {s \in S : Cardinality(Below(R, S, s)) < n}
           IN  /\ U \in SUBSET S /\ IsFiniteSet(U) /\ Cardinality(U) = n
               /\ \A u \in U, s \in S \ U : <<u, s>> \in R
<1> DEFINE rank == [s \in S |-> Cardinality(Below(R, S, s))]
           U == {s \in S : rank[s] < n}
           f == [u \in U |-> rank[u]]
<1>1. Cardinality(S) \in Nat /\ n \in Nat /\ n <= Cardinality(S)
  BY FS_CardinalityType
<1>2. \A s \in S : rank[s] \in Nat /\ rank[s] <= Cardinality(S) - 1
  BY <1>1, Ranking
<1>3. \A x, y \in S : <<x, y>> \in R <=> rank[x] < rank[y]
  BY Ranking
<1>4. \A k \in 0..(n - 1) : \E s \in S : rank[s] = k
  <2>1. \A k \in 0..(n - 1) : k \in 0..(Cardinality(S) - 1)
    BY <1>1
  <2> QED BY <2>1, Ranking
<1>5. IsFiniteSet(U)
  BY FS_Subset
<1> HIDE DEF rank
<1>6. f \in Injection(U, 0..(n - 1)) /\ f \in Surjection(U, 0..(n - 1))
  <2>1. f \in [U -> 0..(n - 1)]
    BY <1>1, <1>2
  <2>2. \A x, y \in U : f[x] = f[y] => x = y
    <3> SUFFICES ASSUME NEW x \in U, NEW y \in U, f[x] = f[y], x # y PROVE FALSE
      OBVIOUS
    <3>1. rank[x] < rank[y] \/ rank[y] < rank[x]
      BY <1>3 DEF IsOrder
    <3> QED BY <1>2, <3>1
  <2>3. \A k \in 0..(n - 1) : \E u \in U : f[u] = k
    BY <1>1, <1>4
  <2> HIDE DEF f, U
  <2> QED BY <2>1, <2>2, <2>3 DEF Injection, Surjection, IsInjective
<1>7. Cardinality(U) = n
  <2>1. IsFiniteSet(0..(n - 1)) /\ Cardinality(0..(n - 1)) = n
    <3> DEFINE last == n - 1
    <3>1. last \in Int /\ (0 > last => n = 0) /\ last - 0 + 1 = n
      BY <1>1
    <3>2. 0 \in Int
      OBVIOUS
    <3> HIDE DEF last, rank, f, U
    <3>3. IsFiniteSet(0..last) /\ Cardinality(0..last) = IF 0 > last THEN 0 ELSE last - 0 + 1
      BY ONLY <3>1, <3>2, FS_Interval
    <3>4. IsFiniteSet(0..last) /\ Cardinality(0..last) = n
      BY <3>1, <3>3
    <3> QED BY <3>4 DEF last
  <2> HIDE DEF f, U
  <2> QED BY <1>6, <2>1, FS_Injection
<1>8. ASSUME NEW u \in U, NEW s \in S \ U PROVE <<u, s>> \in R
  <2>1. u \in S /\ s \in S /\ rank[u] < n /\ ~(rank[s] < n)
    OBVIOUS
  <2>2. rank[u] < rank[s]
    BY <1>1, <1>2, <2>1
  <2> QED BY <1>3, <2>1, <2>2
<1> QED BY <1>5, <1>7, <1>8 DEF rank
=============================================================================
