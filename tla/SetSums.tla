------------------------------ MODULE SetSums ------------------------------
(***************************************************************************)
(* Sums over finite sets, as the fold of the community modules defines     *)
(* them: a recursive function on the subsets of the set, which removes one *)
(* chosen element at a time.  That the function exists and that the order  *)
(* of the choices does not matter is proved by taking a least              *)
(* counterexample among the finite subsets.                                *)
(***************************************************************************)
EXTENDS FiniteSetsExt, FiniteSetTheorems, TLAPS

Pick(s) == CHOOSE x \in s : TRUE

\* g is the fold's function for summing f over subsets of S.
Sums(g, f, S) ==
    g = [s \in SUBSET S |-> IF s = {} THEN 0 ELSE f[Pick(s)] + g[s \ {Pick(s)}]]

LEMMA PickIn == ASSUME NEW s, s # {} PROVE Pick(s) \in s
  BY DEF Pick

LEMMA LeastSubset ==
    ASSUME NEW S, IsFiniteSet(S), NEW B, B \subseteq SUBSET S, B # {}
    PROVE  \E T \in B : \A U \in B : U \subseteq T => U = T
<1>1. IsWellFoundedOn(StrictSubsetOrdering(S), FiniteSubsetsOf(S))
  BY FS_StrictSubsetOrderingWellFounded
<1>2. FiniteSubsetsOf(S) = SUBSET S
  BY FS_FiniteSubsetsOfFinite
<1>3. \E T \in B : \A U \in B : ~ (<<U, T>> \in StrictSubsetOrdering(S))
  BY <1>1, <1>2, WFMin
<1>4. QED
  BY <1>3 DEF StrictSubsetOrdering

\* Two such functions agree where both are defined.
LEMMA SumsAgree ==
    ASSUME NEW S, IsFiniteSet(S), NEW T \in SUBSET S, NEW f, NEW g, NEW h,
           Sums(g, f, S), Sums(h, f, T)
    PROVE  \A s \in SUBSET T : g[s] = h[s]
<1> DEFINE B == { s \in SUBSET T : g[s] # h[s] }
<1>1. SUFFICES ASSUME B # {} PROVE FALSE
  OBVIOUS
<1>2. IsFiniteSet(T)
  BY FS_Subset
<1>3. PICK s \in B : \A u \in B : u \subseteq s => u = s
  <2>1. B \subseteq SUBSET T
    OBVIOUS
  <2> HIDE DEF B
  <2>2. QED
    BY <1>1, <1>2, <2>1, LeastSubset
<1>4. s \subseteq T /\ g[s] # h[s] /\ s \in SUBSET S
  OBVIOUS
<1>5. g[s] = IF s = {} THEN 0 ELSE f[Pick(s)] + g[s \ {Pick(s)}]
  BY <1>4 DEF Sums
<1>6. h[s] = IF s = {} THEN 0 ELSE f[Pick(s)] + h[s \ {Pick(s)}]
  BY <1>4 DEF Sums
<1>7. CASE s = {}
  BY <1>4, <1>5, <1>6, <1>7
<1>8. CASE s # {}
  <2>1. Pick(s) \in s
    BY <1>8, PickIn
  <2>2. s \ {Pick(s)} \notin B
    BY <1>3, <2>1
  <2>3. g[s \ {Pick(s)}] = h[s \ {Pick(s)}]
    BY <1>4, <2>2
  <2>4. QED
    BY <1>4, <1>5, <1>6, <1>8, <2>3
<1>9. QED
  BY <1>7, <1>8

LEMMA SumsExist ==
    ASSUME NEW S, IsFiniteSet(S), NEW f
    PROVE  \E g : Sums(g, f, S)
<1> DEFINE B == { T \in SUBSET S : ~ \E g : Sums(g, f, T) }
<1>1. SUFFICES ASSUME B # {} PROVE FALSE
  <2>1. S \in SUBSET S
    OBVIOUS
  <2>2. QED
    BY <2>1
<1>3. PICK T \in B : \A u \in B : u \subseteq T => u = T
  <2>1. B \subseteq SUBSET S
    OBVIOUS
  <2> HIDE DEF B
  <2>2. QED
    BY <1>1, <2>1, LeastSubset
<1>4. T \in SUBSET S /\ ~ \E g : Sums(g, f, T)
  OBVIOUS
<1>5. \A u \in (SUBSET T) \ {T} : \E g : Sums(g, f, u)
  BY <1>3, <1>4
<1> DEFINE G(u) == CHOOSE g : Sums(g, f, u)
<1>6. \A u \in (SUBSET T) \ {T} : Sums(G(u), f, u)
  BY <1>5
<1> HIDE DEF B, G
<1> DEFINE below(s) == IF s = {} THEN 0
                       ELSE f[Pick(s)] + G(s \ {Pick(s)})[s \ {Pick(s)}]
           h == [s \in SUBSET T |-> below(s)]
<1>7. \A s \in (SUBSET T) \ {T} : h[s] = G(s)[s]
  <2> SUFFICES ASSUME NEW s \in (SUBSET T) \ {T} PROVE h[s] = G(s)[s]
    OBVIOUS
  <2>1. Sums(G(s), f, s)
    BY <1>6
  <2>2. h[s] = below(s)
    OBVIOUS
  <2>3. s \in SUBSET s
    OBVIOUS
  <2>4. G(s)[s] = IF s = {} THEN 0 ELSE f[Pick(s)] + G(s)[s \ {Pick(s)}]
    BY <2>1, <2>3 DEF Sums
  <2>5. CASE s # {}
    <3> DEFINE r == s \ {Pick(s)}
    <3>1. Pick(s) \in s
      BY <2>5, PickIn
    <3>2. r \in (SUBSET T) \ {T} /\ r \in SUBSET s
      BY <3>1
    <3>3. Sums(G(r), f, r)
      BY <1>6, <3>2
    <3>4. IsFiniteSet(s)
      BY <1>4, FS_Subset
    <3>5. r \in SUBSET r
      OBVIOUS
    <3> HIDE DEF r
    <3>6. G(s)[r] = G(r)[r]
      BY <2>1, <3>2, <3>3, <3>4, <3>5, SumsAgree
    <3>7. QED
      BY <2>2, <2>4, <2>5, <3>6 DEF r
  <2>6. QED
    BY <2>2, <2>4, <2>5
<1>8. Sums(h, f, T)
  <2>1. ASSUME NEW s \in SUBSET T, s # {}
        PROVE  h[s] = f[Pick(s)] + h[s \ {Pick(s)}]
    <3>1. Pick(s) \in s
      BY <2>1, PickIn
    <3>2. s \ {Pick(s)} \in (SUBSET T) \ {T}
      BY <3>1
    <3>3. h[s \ {Pick(s)}] = G(s \ {Pick(s)})[s \ {Pick(s)}]
      BY <1>7, <3>2
    <3>4. QED
      BY <2>1, <3>3
  <2>2. \A s \in SUBSET T :
           below(s) = IF s = {} THEN 0 ELSE f[Pick(s)] + h[s \ {Pick(s)}]
    BY <2>1
  <2> HIDE DEF below
  <2>3. QED
    BY <2>2 DEF Sums
<1>9. QED
  BY <1>4, <1>8

-----------------------------------------------------------------------------
Sum(f, S) == MapThenSumSet(LAMBDA x : f[x], S)

LEMMA SumIsSums ==
    ASSUME NEW f, NEW S, IsFiniteSet(S)
    PROVE  \E g : Sums(g, f, S) /\ Sum(f, S) = g[S]
<1> DEFINE g == CHOOSE g : g = [s \in SUBSET S |->
               IF s = {} THEN 0
               ELSE f[CHOOSE x \in s : TRUE] + g[s \ {CHOOSE x \in s : TRUE}]]
<1>1. Sum(f, S) = g[S]
  BY DEF Sum, MapThenSumSet, MapThenFoldSet
<1>2. g = CHOOSE h : Sums(h, f, S)
  BY DEF Sums, Pick
<1>3. Sums(CHOOSE h : Sums(h, f, S), f, S)
  <2> HIDE DEF g
  <2>1. \E h : Sums(h, f, S)
    BY SumsExist
  <2>2. QED
    BY <2>1, Zenon
<1>4. QED
  BY <1>1, <1>2, <1>3

LEMMA SumEmpty == ASSUME NEW f PROVE Sum(f, {}) = 0
<1>1. IsFiniteSet({})
  BY FS_EmptySet
<1>2. PICK g : Sums(g, f, {}) /\ Sum(f, {}) = g[{}]
  BY <1>1, SumIsSums
<1>3. {} \in SUBSET {}
  OBVIOUS
<1>4. QED
  BY <1>2, <1>3 DEF Sums

\* The element the fold takes first.
LEMMA SumPick ==
    ASSUME NEW f, NEW S, IsFiniteSet(S), S # {}
    PROVE  Sum(f, S) = f[Pick(S)] + Sum(f, S \ {Pick(S)})
<1> DEFINE R == S \ {Pick(S)}
<1>1. PICK g : Sums(g, f, S) /\ Sum(f, S) = g[S]
  BY SumIsSums
<1>2. IsFiniteSet(R)
  BY FS_RemoveElement
<1> HIDE DEF R
<1>3. PICK h : Sums(h, f, R) /\ Sum(f, R) = h[R]
  BY <1>2, SumIsSums
<1>4. R \in SUBSET S /\ R \in SUBSET R /\ S \in SUBSET S
  BY DEF R
<1>5. g[R] = h[R]
  BY <1>1, <1>3, <1>4, SumsAgree
<1>6. g[S] = f[Pick(S)] + g[R]
  BY <1>1, <1>4 DEF Sums, R
<1>7. QED
  BY <1>1, <1>3, <1>5, <1>6 DEF R

LEMMA SumInNat ==
    ASSUME NEW f, NEW S, IsFiniteSet(S), \A x \in S : f[x] \in Nat
    PROVE  Sum(f, S) \in Nat
<1> DEFINE B == { T \in SUBSET S : Sum(f, T) \notin Nat }
<1>1. SUFFICES ASSUME B # {} PROVE FALSE
  <2>1. S \in SUBSET S
    OBVIOUS
  <2>2. QED
    BY <2>1
<1>2. PICK T \in B : \A u \in B : u \subseteq T => u = T
  <2>1. B \subseteq SUBSET S
    OBVIOUS
  <2> HIDE DEF B
  <2>2. QED
    BY <1>1, <2>1, LeastSubset
<1>3. T \in SUBSET S /\ Sum(f, T) \notin Nat
  OBVIOUS
<1>4. IsFiniteSet(T)
  BY <1>3, FS_Subset
<1>5. T # {}
  BY <1>3, SumEmpty
<1>6. Pick(T) \in T
  BY <1>5, PickIn
<1>7. T \ {Pick(T)} \notin B
  BY <1>2, <1>6
<1>8. Sum(f, T \ {Pick(T)}) \in Nat
  BY <1>3, <1>7
<1>9. Sum(f, T) = f[Pick(T)] + Sum(f, T \ {Pick(T)})
  BY <1>4, <1>5, SumPick
<1>10. f[Pick(T)] \in Nat
  BY <1>3, <1>6
<1>11. QED
  BY <1>3, <1>8, <1>9, <1>10

\* Whichever element is taken first, the sum is the same.
LEMMA SumRemove ==
    ASSUME NEW f, NEW S, IsFiniteSet(S), \A y \in S : f[y] \in Nat, NEW x \in S
    PROVE  Sum(f, S) = f[x] + Sum(f, S \ {x})
<1> DEFINE Splits(T) == \A y \in T : Sum(f, T) = f[y] + Sum(f, T \ {y})
           B == { T \in SUBSET S : ~Splits(T) }
<1>1. SUFFICES ASSUME B # {} PROVE FALSE
  <2>1. S \in SUBSET S
    OBVIOUS
  <2>2. QED
    BY <2>1
<1>2. PICK T \in B : \A u \in B : u \subseteq T => u = T
  <2>1. B \subseteq SUBSET S
    OBVIOUS
  <2> HIDE DEF B
  <2>2. QED
    BY <1>1, <2>1, LeastSubset
<1>3. T \in SUBSET S /\ ~Splits(T)
  OBVIOUS
<1>4. PICK y \in T : Sum(f, T) # f[y] + Sum(f, T \ {y})
  BY <1>3
<1> DEFINE c == Pick(T)
<1>5. c \in T
  BY PickIn
<1>6. \A u \in SUBSET S : u \subseteq T /\ u # T => Splits(u)
  BY <1>2
<1>7. \A u \in SUBSET S : Sum(f, u) \in Nat
  BY FS_Subset, SumInNat
<1>8. IsFiniteSet(T)
  BY <1>3, FS_Subset
<1>9. Sum(f, T) = f[c] + Sum(f, T \ {c})
  BY <1>5, <1>8, SumPick
<1> HIDE DEF B, c
<1>10. c # y
  BY <1>4, <1>9
<1>11. Splits(T \ {c}) /\ Splits(T \ {y})
  BY <1>3, <1>5, <1>6
<1>12. Sum(f, T \ {c}) = f[y] + Sum(f, (T \ {c}) \ {y})
  BY <1>10, <1>11
<1>13. Sum(f, T \ {y}) = f[c] + Sum(f, (T \ {y}) \ {c})
  BY <1>5, <1>10, <1>11
<1>14. (T \ {c}) \ {y} = (T \ {y}) \ {c}
  OBVIOUS
<1> DEFINE s == Sum(f, (T \ {y}) \ {c})
<1>15. s \in Nat /\ f[c] \in Nat /\ f[y] \in Nat
  BY <1>3, <1>5, <1>7
<1> HIDE DEF s
<1>16. Sum(f, T) = f[c] + (f[y] + s)
  BY <1>9, <1>12, <1>14 DEF s
<1>17. f[y] + Sum(f, T \ {y}) = f[y] + (f[c] + s)
  BY <1>13 DEF s
<1>18. QED
  BY <1>4, <1>15, <1>16, <1>17

LEMMA SumInsert ==
    ASSUME NEW f, NEW S, IsFiniteSet(S), NEW x, x \notin S,
           \A y \in S \union {x} : f[y] \in Nat
    PROVE  /\ Sum(f, S \union {x}) = Sum(f, S) + f[x]
           /\ Sum(f, S) \in Nat
<1> DEFINE T == S \union {x}
<1>1. IsFiniteSet(T)
  BY FS_AddElement
<1>2. T \ {x} = S
  OBVIOUS
<1>3. Sum(f, T) = f[x] + Sum(f, T \ {x})
  <2>1. x \in T
    OBVIOUS
  <2> HIDE DEF T
  <2>2. QED
    BY <1>1, <2>1, SumRemove DEF T
<1>4. Sum(f, S) \in Nat
  BY SumInNat
<1>5. f[x] \in Nat
  OBVIOUS
<1>6. Sum(f, T) = f[x] + Sum(f, S)
  BY <1>2, <1>3
<1> HIDE DEF T
<1>7. Sum(f, T) = Sum(f, S) + f[x]
  BY <1>4, <1>5, <1>6
<1>8. QED
  BY <1>4, <1>7 DEF T

\* Equal values make equal sums.
LEMMA SumOfEqual ==
    ASSUME NEW f, NEW g, NEW S, IsFiniteSet(S),
           \A x \in S : f[x] = g[x]
    PROVE  Sum(f, S) = Sum(g, S)
<1>1. PICK h : Sums(h, f, S) /\ Sum(f, S) = h[S]
  BY SumIsSums
<1>2. \A s \in SUBSET S :
        (IF s = {} THEN 0 ELSE f[Pick(s)] + h[s \ {Pick(s)}])
          = IF s = {} THEN 0 ELSE g[Pick(s)] + h[s \ {Pick(s)}]
  BY PickIn
<1>3. Sums(h, g, S)
  BY <1>1, <1>2 DEF Sums
<1>4. PICK k : Sums(k, g, S) /\ Sum(g, S) = k[S]
  BY SumIsSums
<1>5. h[S] = k[S]
  BY <1>3, <1>4, SumsAgree
<1>6. QED
  BY <1>1, <1>4, <1>5

\* A part and the rest.
LEMMA SumSplit ==
    ASSUME NEW f, NEW S, IsFiniteSet(S), \A y \in S : f[y] \in Nat, NEW M \in SUBSET S
    PROVE  /\ Sum(f, S) = Sum(f, M) + Sum(f, S \ M)
           /\ Sum(f, M) \in Nat /\ Sum(f, S \ M) \in Nat
<1> DEFINE B == { T \in SUBSET (S \ M) : Sum(f, M \union T) # Sum(f, M) + Sum(f, T) }
<1>1. ASSUME NEW T \in SUBSET S PROVE IsFiniteSet(T) /\ Sum(f, T) \in Nat
  BY FS_Subset, SumInNat
<1>2. B = {}
  <2>1. SUFFICES ASSUME B # {} PROVE FALSE
    OBVIOUS
  <2>2. IsFiniteSet(S \ M) /\ B \subseteq SUBSET (S \ M)
    BY FS_Subset
  <2>3. PICK T \in B : \A u \in B : u \subseteq T => u = T
    <3> HIDE DEF B
    <3>1. QED
      BY <2>1, <2>2, LeastSubset
  <2>4. T \in SUBSET (S \ M) /\ Sum(f, M \union T) # Sum(f, M) + Sum(f, T)
    OBVIOUS
  <2>5. T # {}
    <3>1. Sum(f, M) \in Nat
      BY <1>1
    <3>2. Sum(f, M \union {}) = Sum(f, M)
      <4>1. M \union {} = M
        OBVIOUS
      <4>2. QED
        BY <4>1
    <3>3. Sum(f, M) = Sum(f, M) + Sum(f, {})
      BY <3>1, SumEmpty
    <3>4. QED
      BY <2>4, <3>2, <3>3
  <2>6. PICK x : x \in T
    BY <2>5
  <2> DEFINE R == T \ {x}
  <2>7. R \in SUBSET (S \ M) /\ R \notin B
    BY <2>3, <2>4, <2>6
  <2>8. Sum(f, M \union R) = Sum(f, M) + Sum(f, R)
    BY <2>7
  <2>9. /\ T = R \union {x} /\ x \notin R
        /\ M \union T = (M \union R) \union {x} /\ x \notin M \union R
        /\ M \union R \in SUBSET S /\ R \in SUBSET S /\ x \in S
    BY <2>4, <2>6
  <2> HIDE DEF R, B
  <2>10. /\ Sum(f, T) = Sum(f, R) + f[x]
         /\ Sum(f, M \union T) = Sum(f, M \union R) + f[x]
    <3>1. /\ IsFiniteSet(R) /\ \A y \in R \union {x} : f[y] \in Nat
          /\ IsFiniteSet(M \union R) /\ \A y \in (M \union R) \union {x} : f[y] \in Nat
      BY <1>1, <2>9
    <3>2. Sum(f, R \union {x}) = Sum(f, R) + f[x]
      BY <2>9, <3>1, SumInsert
    <3>3. Sum(f, (M \union R) \union {x}) = Sum(f, M \union R) + f[x]
      BY <2>9, <3>1, SumInsert
    <3>4. QED
      BY <2>9, <3>2, <3>3
  <2>11. f[x] \in Nat /\ Sum(f, M) \in Nat /\ Sum(f, R) \in Nat
    BY <1>1, <2>9
  <2>12. QED
    BY <2>4, <2>8, <2>10, <2>11
<1>3. S \ M \in SUBSET (S \ M) /\ M \union (S \ M) = S
  OBVIOUS
<1>4. Sum(f, M \union (S \ M)) = Sum(f, M) + Sum(f, S \ M)
  BY <1>2, <1>3
<1>5. QED
  BY <1>1, <1>3, <1>4

\* One value changes.
LEMMA SumUpdate ==
    ASSUME NEW S, IsFiniteSet(S), NEW f \in [S -> Nat], NEW x \in S, NEW v \in Nat
    PROVE  Sum([f EXCEPT ![x] = v], S) = Sum(f, S) - f[x] + v
<1> DEFINE g == [f EXCEPT ![x] = v]
           R == S \ {x}
<1>1. g \in [S -> Nat] /\ g[x] = v /\ \A y \in R : g[y] = f[y]
  OBVIOUS
<1>2. IsFiniteSet(R) /\ R \subseteq S
  BY FS_RemoveElement
<1> HIDE DEF g
<1>3. Sum(g, S) = g[x] + Sum(g, R)
  BY <1>1, SumRemove
<1>4. Sum(f, S) = f[x] + Sum(f, R)
  BY SumRemove
<1>5. Sum(g, R) = Sum(f, R) /\ Sum(f, R) \in Nat
  <2>1. \A y \in R : f[y] \in Nat
    BY <1>2
  <2> HIDE DEF R
  <2>2. QED
    BY <1>1, <1>2, <2>1, SumOfEqual, SumInNat
<1>6. f[x] \in Nat
  OBVIOUS
<1>7. QED
  BY <1>1, <1>3, <1>4, <1>5, <1>6 DEF g

LEMMA SumOfZeros ==
    ASSUME NEW f, NEW S, IsFiniteSet(S), \A x \in S : f[x] = 0
    PROVE  Sum(f, S) = 0
<1> DEFINE B == { T \in SUBSET S : Sum(f, T) # 0 }
<1>1. SUFFICES ASSUME B # {} PROVE FALSE
  <2>1. S \in SUBSET S
    OBVIOUS
  <2>2. QED
    BY <2>1
<1>2. PICK T \in B : \A u \in B : u \subseteq T => u = T
  <2>1. B \subseteq SUBSET S
    OBVIOUS
  <2> HIDE DEF B
  <2>2. QED
    BY <1>1, <2>1, LeastSubset
<1>3. T \in SUBSET S /\ Sum(f, T) # 0
  OBVIOUS
<1>4. T # {}
  BY <1>3, SumEmpty
<1>5. Pick(T) \in T
  BY <1>4, PickIn
<1>6. Sum(f, T \ {Pick(T)}) = 0 /\ f[Pick(T)] = 0
  BY <1>2, <1>3, <1>5
<1>7. Sum(f, T) = f[Pick(T)] + Sum(f, T \ {Pick(T)})
  BY <1>3, <1>4, FS_Subset, SumPick
<1>8. QED
  BY <1>3, <1>6, <1>7
=============================================================================
