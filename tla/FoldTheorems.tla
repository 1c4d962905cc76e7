---------------------------- MODULE FoldTheorems ----------------------------
(***************************************************************************)
(* What the proofs need to know of the folds of the community modules: a   *)
(* fold over a finite set exists, and sums of integers over finite sets    *)
(* behave like sums.  What would be an induction is an argument about a    *)
(* least counterexample: of the numbers, or of the subsets, for which a    *)
(* claim fails.                                                            *)
(***************************************************************************)
EXTENDS Integers, FiniteSets, FiniteSetsExt, FiniteSetTheorems, WellFoundedInduction, TLAPS

-----------------------------------------------------------------------------
(* Least counterexamples.                                                  *)

LEMMA Least ==
  ASSUME NEW T \in SUBSET Nat, T # {}
  PROVE  \E n \in T : \A m \in T : n <= m
<1>1. PICK n \in T : \A m \in T : ~(<<m, n>> \in OpToRel(<, Nat))
  BY NatLessThanWellFounded, WFMin
<1>2. \A m \in T : n <= m
  <2>1. SUFFICES ASSUME NEW m \in T PROVE ~(m < n)
    OBVIOUS
  <2>2. QED
    BY <1>1 DEF OpToRel
<1>3. QED
  BY <1>2

LEMMA Greatest ==
  ASSUME NEW n \in Nat, NEW T \in SUBSET (1 .. n), T # {}
  PROVE  \E m \in T : \A k \in T : k <= m
<1> DEFINE U == {n - m : m \in T}
<1>1. U \in SUBSET Nat /\ U # {}
  <2>1. \A m \in T : n - m \in Nat
    OBVIOUS
  <2>2. QED
    BY <2>1
<1>2. PICK u \in U : \A v \in U : u <= v
  BY <1>1, Least
<1>3. PICK m \in T : u = n - m
  OBVIOUS
<1>4. \A k \in T : n - m <= n - k
  BY <1>2, <1>3
<1>5. \A k \in T : k <= m
  BY <1>4
<1>6. QED
  BY <1>5

LEMMA MaxOfInterval ==
  ASSUME NEW k \in Nat \ {0}
  PROVE  Max(1 .. k) = k /\ (1 .. k) \ {Max(1 .. k)} = 1 .. (k - 1)
<1>1. k \in 1 .. k /\ \A y \in 1 .. k : k >= y
  OBVIOUS
<1>2. \A x \in 1 .. k : (\A y \in 1 .. k : x >= y) => x = k
  OBVIOUS
<1>3. Max(1 .. k) = k
  BY <1>1, <1>2 DEF Max
<1>4. QED
  BY <1>3

LEMMA MaxIsMember ==
  ASSUME NEW n \in Nat, NEW T \in SUBSET (1 .. n), T # {}
  PROVE  Max(T) \in T
<1>1. PICK m \in T : \A k \in T : k <= m
  BY Greatest
<1>2. \A k \in T : m >= k
  BY <1>1
<1>3. QED
  BY <1>2 DEF Max

LEMMA PartsOfFinite ==
  ASSUME NEW T, IsFiniteSet(T), NEW s \in SUBSET T
  PROVE  /\ IsFiniteSet(s)
         /\ Cardinality(s) \in Nat /\ Cardinality(s) <= Cardinality(T)
         /\ Cardinality(s) = 0 => s = {}
         /\ \A x \in s : Cardinality(s \ {x}) = Cardinality(s) - 1
<1>1. IsFiniteSet(s) /\ Cardinality(s) \in Nat /\ Cardinality(s) <= Cardinality(T)
  BY FS_Subset, FS_CardinalityType
<1>2. QED
  BY <1>1, FS_EmptySet, FS_RemoveElement

\* Of the subsets for which a claim fails, one has no smaller one.
LEMMA Minimal ==
  ASSUME NEW T, IsFiniteSet(T), NEW B \in SUBSET SUBSET T, B # {}
  PROVE  \E s \in B : \A t \in SUBSET s : t # s => t \notin B
<1> DEFINE C == {Cardinality(s) : s \in B}
<1>1. C \in SUBSET Nat /\ C # {}
  BY PartsOfFinite
<1>2. PICK n \in C : \A m \in C : n <= m
  BY <1>1, Least
<1>3. PICK s \in B : n = Cardinality(s)
  OBVIOUS
<1>4. ASSUME NEW t \in SUBSET s, t # s, t \in B
      PROVE  FALSE
  <2>1. Cardinality(t) \in C
    BY <1>4
  <2>2. n <= Cardinality(t)
    BY <1>2, <2>1
  <2>3. IsFiniteSet(s) /\ Cardinality(s) \in Nat /\ Cardinality(t) \in Nat
    BY <1>4, PartsOfFinite
  <2>4. Cardinality(t) <= Cardinality(s) /\ Cardinality(t) # Cardinality(s)
    BY <1>4, <2>3, FS_Subset
  <2>5. QED
    BY <1>3, <2>2, <2>3, <2>4
<1>5. QED
  BY <1>4

LEMMA Smallest ==
  ASSUME NEW T, IsFiniteSet(T), NEW B \in SUBSET SUBSET T, B # {}
  PROVE  \E s \in B : \A x \in s : s \ {x} \notin B
<1>1. PICK s \in B : \A t \in SUBSET s : t # s => t \notin B
  BY Minimal
<1>2. \A x \in s : s \ {x} \in SUBSET s /\ s \ {x} # s
  OBVIOUS
<1>3. QED
  BY <1>1, <1>2

MapsInto(h, S) == \A x \in S : h[x] \in S
MapsOnto(h, S) == \A y \in S : \E x \in S : h[x] = y

\* Wherever a finite set is mapped into itself, some of it is mapped in cycles.
LEMMA CycleWithin ==
  ASSUME NEW S, IsFiniteSet(S), S # {}, NEW h, MapsInto(h, S)
  PROVE  \E C \in SUBSET S : C # {} /\ MapsInto(h, C) /\ MapsOnto(h, C)
<1> DEFINE B == {T \in SUBSET S : T # {} /\ MapsInto(h, T)}
<1>1. B \in SUBSET (SUBSET S) /\ B # {}
  <2>1. S \in B
    OBVIOUS
  <2>2. QED
    BY <2>1
<1> HIDE DEF B
<1>2. PICK C \in B : \A T \in SUBSET C : T # C => T \notin B
  BY <1>1, Minimal
<1>3. C \in SUBSET S /\ C # {} /\ MapsInto(h, C)
  BY <1>2 DEF B
<1> DEFINE F == {h[x] : x \in C}
<1>4. F \in SUBSET C /\ F # {} /\ MapsInto(h, F)
  BY <1>3 DEF MapsInto
<1>5. F \in B
  BY <1>3, <1>4 DEF B
<1>6. F = C
  BY <1>2, <1>4, <1>5
<1>7. MapsOnto(h, C)
  BY <1>6 DEF MapsOnto
<1>8. QED
  BY <1>3, <1>7

-----------------------------------------------------------------------------
(* What MapThenFoldSet iterates: from the subsets of T to values of A, one *)
(* element that c chooses after the other.                                 *)

Iterates(g, T, base, F, c) ==
  \A s \in SUBSET T : g[s] = IF s = {} THEN base ELSE F[c[s], g[s \ {c[s]}]]

LEMMA IterationExists ==
  ASSUME NEW T, IsFiniteSet(T), NEW A, NEW base \in A, NEW F \in [T \X A -> A], NEW c,
         \A s \in SUBSET T : s # {} => c[s] \in s
  PROVE  \E g \in [SUBSET T -> A] : Iterates(g, T, base, F, c)
<1> DEFINE Next1(g, s) == IF s = {} THEN base ELSE F[c[s], g[s \ {c[s]}]]
           Upto(g, k) == /\ g \in [SUBSET T -> A]
                         /\ \A s \in SUBSET T : Cardinality(s) <= k => g[s] = Next1(g, s)
           Bad == {k \in Nat : ~ \E g : Upto(g, k)}
<1>1. Bad = {}
  <2>1. SUFFICES ASSUME Bad # {} PROVE FALSE
    OBVIOUS
  <2>2. PICK k \in Nat : k \in Bad /\ \A m \in Bad : k <= m
    BY <2>1, Least
  <2>3. CASE k = 0
    <3> DEFINE g == [s \in SUBSET T |-> base]
    <3>1. ASSUME NEW s \in SUBSET T, Cardinality(s) <= 0
          PROVE  s = {}
      <4>1. Cardinality(s) \in Nat /\ (Cardinality(s) = 0 => s = {})
        BY PartsOfFinite
      <4>2. QED
        BY <3>1, <4>1
    <3>2. Upto(g, 0)
      BY <3>1
    <3> HIDE DEF Upto
    <3>3. QED
      BY <2>2, <2>3, <3>2
  <2>4. CASE k # 0
    <3>1. k - 1 \in Nat /\ k - 1 \notin Bad
      <4> HIDE DEF Bad
      <4>1. QED
        BY <2>2, <2>4
    <3>2. PICK g : Upto(g, k - 1)
      BY <3>1
    <3> DEFINE h == [s \in SUBSET T |-> Next1(g, s)]
    <3>3. \A s \in SUBSET T : Next1(g, s) \in A
      BY <3>2
    <3>4. h \in [SUBSET T -> A]
      BY <3>3
    <3>5. ASSUME NEW s \in SUBSET T, Cardinality(s) <= k
          PROVE  h[s] = Next1(h, s)
      <4>1. CASE s = {}
        BY <4>1
      <4>2. CASE s # {}
        <5> DEFINE t == s \ {c[s]}
        <5>1. t \in SUBSET T
          OBVIOUS
        <5>2. Cardinality(t) <= k - 1
          <6>1. Cardinality(s) \in Nat /\ Cardinality(t) = Cardinality(s) - 1
            BY <4>2, PartsOfFinite
          <6>2. QED
            BY <3>5, <6>1
        <5>3. h[t] = g[t]
          BY <3>2, <5>1, <5>2
        <5>4. QED
          BY <4>2, <5>3
      <4>3. QED
        BY <4>1, <4>2
    <3> HIDE DEF h
    <3>6. Upto(h, k)
      BY <3>4, <3>5
    <3> HIDE DEF Upto
    <3>7. QED
      BY <2>2, <3>6
  <2>5. QED
    BY <2>3, <2>4
<1>2. Cardinality(T) \in Nat /\ \A s \in SUBSET T : Cardinality(s) <= Cardinality(T)
  BY PartsOfFinite
<1>3. PICK g : Upto(g, Cardinality(T))
  BY <1>1, <1>2
<1>4. QED
  BY <1>2, <1>3 DEF Iterates

\* What FoldLeft iterates over a sequence of length n.
FoldsLeft(g, n, base, F) ==
  \A s \in SUBSET (1 .. n) : g[s] = IF s = {} THEN base ELSE F[Max(s), g[s \ {Max(s)}]]

LEMMA FoldExists ==
  ASSUME NEW n \in Nat, NEW A, NEW base \in A, NEW F \in [(1 .. n) \X A -> A]
  PROVE  \E g \in [SUBSET (1 .. n) -> A] : FoldsLeft(g, n, base, F)
<1> DEFINE c == [s \in SUBSET (1 .. n) |-> Max(s)]
<1>1. \A s \in SUBSET (1 .. n) : s # {} => c[s] \in s
  BY MaxIsMember
<1>2. IsFiniteSet(1 .. n)
  BY FS_Interval
<1>3. PICK g \in [SUBSET (1 .. n) -> A] : Iterates(g, 1 .. n, base, F, c)
  <2> HIDE DEF c
  <2>1. QED
    BY <1>1, <1>2, IterationExists
<1>4. QED
  BY <1>3 DEF Iterates, FoldsLeft

-----------------------------------------------------------------------------
(* Sums: w[x] is what x weighs.                                            *)

Total(w, S) == MapThenSumSet(LAMBDA x : w[x], S)

\* The function over the subsets of S whose value at S is the total.
Adds(g, w, S) ==
  g = [s \in SUBSET S |-> IF s = {} THEN 0
                         ELSE LET x == CHOOSE x \in s : TRUE IN w[x] + g[s \ {x}]]

LEMMA AddsExists ==
  ASSUME NEW S, IsFiniteSet(S), NEW w, \A x \in S : w[x] \in Int
  PROVE  \E g : Adds(g, w, S)
<1> DEFINE c == [s \in SUBSET S |-> CHOOSE x \in s : TRUE]
           F == [p \in S \X Int |-> w[p[1]] + p[2]]
<1>1. \A s \in SUBSET S : s # {} => c[s] \in s
  OBVIOUS
<1>2. F \in [S \X Int -> Int] /\ 0 \in Int
  OBVIOUS
<1> HIDE DEF c, F
<1>3. PICK g \in [SUBSET S -> Int] : Iterates(g, S, 0, F, c)
  BY <1>1, <1>2, IterationExists
<1>4. ASSUME NEW s \in SUBSET S
      PROVE  g[s] = IF s = {} THEN 0
                    ELSE LET x == CHOOSE x \in s : TRUE IN w[x] + g[s \ {x}]
  <2>1. CASE s = {}
    BY <1>3, <2>1 DEF Iterates
  <2>2. CASE s # {}
    <3>1. c[s] = CHOOSE x \in s : TRUE
      BY DEF c
    <3>2. c[s] \in S /\ g[s \ {c[s]}] \in Int
      BY <1>1, <1>3, <2>2
    <3>3. F[c[s], g[s \ {c[s]}]] = w[c[s]] + g[s \ {c[s]}]
      BY <3>2 DEF F
    <3>4. g[s] = F[c[s], g[s \ {c[s]}]]
      BY <1>3, <2>2 DEF Iterates
    <3>5. QED
      BY <2>2, <3>1, <3>3, <3>4
  <2>3. QED
    BY <2>1, <2>2
<1>5. Adds(g, w, S)
  BY <1>3, <1>4 DEF Adds
<1>6. QED
  BY <1>5

LEMMA AddsUp ==
  ASSUME NEW S, NEW w, NEW g, Adds(g, w, S)
  PROVE  /\ g[{}] = 0
         /\ \A s \in SUBSET S : s # {} => \E x \in s : /\ x = CHOOSE y \in s : TRUE
                                                     /\ g[s] = w[x] + g[s \ {x}]
<1>1. {} \in SUBSET S
  OBVIOUS
<1>2. g[{}] = 0
  BY <1>1 DEF Adds
<1>3. ASSUME NEW s \in SUBSET S, s # {}
      PROVE  \E x \in s : x = (CHOOSE y \in s : TRUE) /\ g[s] = w[x] + g[s \ {x}]
  <2> DEFINE x == CHOOSE y \in s : TRUE
  <2>1. x \in s
    BY <1>3
  <2>2. g[s] = w[x] + g[s \ {x}]
    BY <1>3 DEF Adds
  <2>3. QED
    BY <2>1, <2>2
<1>4. QED
  BY <1>2, <1>3

LEMMA AddsType ==
  ASSUME NEW S, IsFiniteSet(S), NEW w, \A x \in S : w[x] \in Int, NEW g, Adds(g, w, S)
  PROVE  \A s \in SUBSET S : g[s] \in Int
<1> DEFINE B == {s \in SUBSET S : g[s] \notin Int}
<1>1. SUFFICES ASSUME B # {} PROVE FALSE
  OBVIOUS
<1>2. PICK s \in SUBSET S : s \in B /\ \A x \in s : s \ {x} \notin B
  BY <1>1, Smallest
<1>3. s # {}
  <2>1. g[{}] = 0
    BY AddsUp
  <2>2. QED
    BY <1>2, <2>1
<1>4. PICK x \in s : g[s] = w[x] + g[s \ {x}]
  BY <1>3, AddsUp
<1>5. g[s \ {x}] \in Int /\ w[x] \in Int
  BY <1>2
<1>6. QED
  BY <1>2, <1>4, <1>5

LEMMA AddsAgree ==
  ASSUME NEW S, IsFiniteSet(S), NEW w, NEW g, Adds(g, w, S),
         NEW R, NEW v, NEW h, Adds(h, v, R),
         NEW s \in SUBSET S, s \in SUBSET R, \A x \in s : w[x] = v[x]
  PROVE  g[s] = h[s]
<1> DEFINE B == {t \in SUBSET s : g[t] # h[t]}
<1>1. SUFFICES ASSUME B # {} PROVE FALSE
  OBVIOUS
<1>2. IsFiniteSet(s)
  BY PartsOfFinite
<1>3. PICK t \in SUBSET s : t \in B /\ \A x \in t : t \ {x} \notin B
  BY <1>1, <1>2, Smallest
<1>4. t \in SUBSET S /\ t \in SUBSET R
  OBVIOUS
<1>5. t # {}
  BY <1>3, AddsUp
<1>6. PICK x \in t : x = (CHOOSE y \in t : TRUE) /\ g[t] = w[x] + g[t \ {x}]
  BY <1>4, <1>5, AddsUp
<1>7. PICK y \in t : y = (CHOOSE z \in t : TRUE) /\ h[t] = v[y] + h[t \ {y}]
  BY <1>4, <1>5, AddsUp
<1>8. x = y /\ w[x] = v[x]
  BY <1>6, <1>7
<1>9. g[t \ {x}] = h[t \ {x}]
  BY <1>3
<1>10. QED
  BY <1>3, <1>6, <1>7, <1>8, <1>9

\* The order in which the elements are chosen does not matter.
LEMMA AddsOne ==
  ASSUME NEW S, IsFiniteSet(S), NEW w, \A x \in S : w[x] \in Int, NEW g, Adds(g, w, S),
         NEW s \in SUBSET S, NEW x \in S \ s
  PROVE  g[s \cup {x}] = g[s] + w[x]
<1> DEFINE B == {t \in SUBSET S : \E y \in S \ t : g[t \cup {y}] # g[t] + w[y]}
<1>1. SUFFICES ASSUME B # {} PROVE FALSE
  OBVIOUS
<1>2. PICK t \in SUBSET S : t \in B /\ \A y \in t : t \ {y} \notin B
  BY <1>1, Smallest
<1>3. PICK y \in S \ t : g[t \cup {y}] # g[t] + w[y]
  BY <1>2
<1>4. t \cup {y} \in SUBSET S /\ t \cup {y} # {}
  OBVIOUS
<1>5. PICK z \in t \cup {y} : g[t \cup {y}] = w[z] + g[(t \cup {y}) \ {z}]
  BY <1>4, AddsUp
<1>6. \A u \in SUBSET S : g[u] \in Int
  BY AddsType
<1>7. CASE z = y
  <2>1. (t \cup {y}) \ {z} = t
    BY <1>7
  <2>2. g[t \cup {y}] = w[y] + g[t]
    BY <1>5, <1>7, <2>1
  <2>3. w[y] \in Int /\ g[t] \in Int
    BY <1>6
  <2>4. w[y] + g[t] = g[t] + w[y]
    BY <2>3
  <2>5. QED
    BY <1>3, <2>2, <2>4
<1>8. CASE z # y
  <2> DEFINE u == t \ {z}
  <2>1. z \in t /\ u \in SUBSET S /\ u \notin B /\ y \in S \ u /\ z \in S \ u
    BY <1>2, <1>8
  <2>2. g[u \cup {y}] = g[u] + w[y] /\ g[u \cup {z}] = g[u] + w[z]
    BY <2>1
  <2>3. u \cup {z} = t /\ (t \cup {y}) \ {z} = u \cup {y}
    BY <1>8, <2>1
  <2>4. g[t] = g[u] + w[z] /\ g[t \cup {y}] = w[z] + (g[u] + w[y])
    BY <1>5, <2>2, <2>3
  <2>5. g[u] \in Int /\ w[y] \in Int /\ w[z] \in Int
    BY <1>6, <2>1
  <2> HIDE DEF u
  <2>6. QED
    BY <1>3, <2>4, <2>5
<1>9. QED
  BY <1>7, <1>8

LEMMA TotalIs ==
  ASSUME NEW S, IsFiniteSet(S), NEW w, \A x \in S : w[x] \in Int
  PROVE  \E g : Adds(g, w, S) /\ Total(w, S) = g[S]
<1> DEFINE g == CHOOSE g : Adds(g, w, S)
<1>1. Adds(g, w, S)
  BY AddsExists
<1>2. Total(w, S) = g[S]
  BY DEF Total, MapThenSumSet, MapThenFoldSet, Adds
<1>3. QED
  BY <1>1, <1>2

LEMMA TotalType ==
  ASSUME NEW S, IsFiniteSet(S), NEW w, \A x \in S : w[x] \in Int
  PROVE  Total(w, S) \in Int
<1>1. PICK g : Adds(g, w, S) /\ Total(w, S) = g[S]
  BY TotalIs
<1>2. QED
  BY <1>1, AddsType

LEMMA TotalEmpty ==
  ASSUME NEW w
  PROVE  Total(w, {}) = 0
<1>1. IsFiniteSet({}) /\ \A x \in {} : w[x] \in Int
  BY FS_EmptySet
<1>2. PICK g : Adds(g, w, {}) /\ Total(w, {}) = g[{}]
  BY <1>1, TotalIs
<1>3. QED
  BY <1>2, AddsUp

LEMMA TotalAdd ==
  ASSUME NEW S, IsFiniteSet(S), NEW w, \A x \in S : w[x] \in Int,
         NEW y, y \notin S, w[y] \in Int
  PROVE  Total(w, S \cup {y}) = Total(w, S) + w[y]
<1> DEFINE R == S \cup {y}
<1>1. IsFiniteSet(R) /\ \A x \in R : w[x] \in Int
  BY FS_AddElement
<1>2. PICK g : Adds(g, w, R) /\ Total(w, R) = g[R]
  BY <1>1, TotalIs
<1>3. PICK h : Adds(h, w, S) /\ Total(w, S) = h[S]
  BY TotalIs
<1>4. S \in SUBSET R /\ S \in SUBSET S /\ y \in R \ S
  OBVIOUS
<1>5. h[S] = g[S]
  BY <1>2, <1>3, <1>4, AddsAgree
<1>6. g[S \cup {y}] = g[S] + w[y]
  <2> HIDE DEF R
  <2>1. QED
    BY <1>1, <1>2, <1>4, AddsOne
<1>7. QED
  BY <1>2, <1>3, <1>5, <1>6

LEMMA TotalRemove ==
  ASSUME NEW S, IsFiniteSet(S), NEW w, \A x \in S : w[x] \in Int, NEW y \in S
  PROVE  Total(w, S) = Total(w, S \ {y}) + w[y]
<1> DEFINE R == S \ {y}
<1>1. IsFiniteSet(R) /\ (\A x \in R : w[x] \in Int) /\ y \notin R /\ w[y] \in Int
  BY FS_RemoveElement
<1>2. S = R \cup {y}
  OBVIOUS
<1> HIDE DEF R
<1>3. Total(w, R \cup {y}) = Total(w, R) + w[y]
  BY <1>1, TotalAdd
<1>4. QED
  BY <1>2, <1>3 DEF R

\* Only what the members weigh matters.
LEMMA TotalSame ==
  ASSUME NEW S, IsFiniteSet(S), NEW w, \A x \in S : w[x] \in Int,
         NEW v, \A x \in S : v[x] = w[x]
  PROVE  Total(v, S) = Total(w, S)
<1>1. PICK g : Adds(g, w, S) /\ Total(w, S) = g[S]
  BY TotalIs
<1>2. \A x \in S : v[x] \in Int
  OBVIOUS
<1>3. PICK h : Adds(h, v, S) /\ Total(v, S) = h[S]
  BY <1>2, TotalIs
<1>4. h[S] = g[S]
  <2>1. S \in SUBSET S
    OBVIOUS
  <2>2. QED
    BY <1>1, <1>2, <1>3, <2>1, AddsAgree
<1>5. QED
  BY <1>1, <1>3, <1>4

LEMMA TotalZero ==
  ASSUME NEW S, IsFiniteSet(S), NEW w, \A x \in S : w[x] = 0
  PROVE  Total(w, S) = 0
<1> DEFINE B == {t \in SUBSET S : Total(w, t) # 0}
<1>1. SUFFICES ASSUME B # {} PROVE FALSE
  OBVIOUS
<1>2. PICK t \in SUBSET S : t \in B /\ \A x \in t : t \ {x} \notin B
  BY <1>1, Smallest
<1>3. t # {}
  BY <1>2, TotalEmpty
<1>4. PICK x \in t : TRUE
  BY <1>3
<1>5. IsFiniteSet(t) /\ \A y \in t : w[y] \in Int
  BY PartsOfFinite
<1>6. Total(w, t) = Total(w, t \ {x}) + w[x]
  BY <1>5, TotalRemove
<1>7. Total(w, t \ {x}) = 0 /\ w[x] = 0
  BY <1>2
<1>8. QED
  BY <1>2, <1>6, <1>7

LEMMA TotalNatural ==
  ASSUME NEW S, IsFiniteSet(S), NEW w, \A x \in S : w[x] \in Nat
  PROVE  Total(w, S) \in Nat
<1> DEFINE B == {t \in SUBSET S : ~(Total(w, t) \in Nat)}
<1>1. SUFFICES ASSUME B # {} PROVE FALSE
  OBVIOUS
<1>2. PICK t \in SUBSET S : t \in B /\ \A x \in t : t \ {x} \notin B
  BY <1>1, Smallest
<1>3. t # {}
  BY <1>2, TotalEmpty
<1>4. PICK x \in t : TRUE
  BY <1>3
<1>5. IsFiniteSet(t) /\ (\A y \in t : w[y] \in Int) /\ w[x] \in Nat
  BY PartsOfFinite
<1>6. Total(w, t) = Total(w, t \ {x}) + w[x]
  BY <1>5, TotalRemove
<1>7. Total(w, t \ {x}) \in Nat
  BY <1>2
<1>8. QED
  BY <1>2, <1>5, <1>6, <1>7

LEMMA TotalJoin ==
  ASSUME NEW S, IsFiniteSet(S), NEW R, IsFiniteSet(R), S \cap R = {}, NEW w,
         \A x \in S \cup R : w[x] \in Int
  PROVE  Total(w, S \cup R) = Total(w, S) + Total(w, R)
<1> DEFINE B == {t \in SUBSET R : Total(w, S \cup t) # Total(w, S) + Total(w, t)}
<1>1. SUFFICES ASSUME B # {} PROVE FALSE
  OBVIOUS
<1>2. PICK t \in SUBSET R : t \in B /\ \A x \in t : t \ {x} \notin B
  BY <1>1, Smallest
<1>3. Total(w, S) \in Int
  BY TotalType
<1>4. t # {}
  <2>1. S \cup {} = S /\ Total(w, {}) = 0
    BY TotalEmpty
  <2>2. Total(w, S \cup {}) = Total(w, S) + Total(w, {})
    BY <1>3, <2>1
  <2>3. QED
    BY <1>2, <2>2
<1>5. PICK x \in t : TRUE
  BY <1>4
<1> DEFINE u == t \ {x}
<1>6. IsFiniteSet(t) /\ IsFiniteSet(u)
  BY PartsOfFinite
<1>7. Total(w, t) = Total(w, u) + w[x]
  BY <1>6, TotalRemove
<1>8. Total(w, S \cup t) = Total(w, S \cup u) + w[x]
  <2>1. IsFiniteSet(S \cup u) /\ (\A y \in S \cup u : w[y] \in Int) /\ w[x] \in Int
    BY <1>6, FS_Union
  <2>2. x \notin S \cup u /\ (S \cup u) \cup {x} = S \cup t
    OBVIOUS
  <2> HIDE DEF u
  <2>3. Total(w, (S \cup u) \cup {x}) = Total(w, S \cup u) + w[x]
    BY <2>1, <2>2, TotalAdd
  <2>4. QED
    BY <2>2, <2>3
<1>9. Total(w, S \cup u) = Total(w, S) + Total(w, u)
  BY <1>2
<1>10. Total(w, u) \in Int /\ w[x] \in Int
  BY <1>6, TotalType
<1>11. Total(w, S \cup t) # Total(w, S) + Total(w, t)
  BY <1>2
<1> HIDE DEF u
<1>12. QED
  BY <1>3, <1>7, <1>8, <1>9, <1>10, <1>11

LEMMA TotalOfSums ==
  ASSUME NEW S, IsFiniteSet(S), NEW u, NEW v, NEW w,
         \A x \in S : u[x] \in Int /\ v[x] \in Int /\ w[x] = u[x] + v[x]
  PROVE  Total(w, S) = Total(u, S) + Total(v, S)
<1> DEFINE B == {t \in SUBSET S : Total(w, t) # Total(u, t) + Total(v, t)}
<1>1. SUFFICES ASSUME B # {} PROVE FALSE
  OBVIOUS
<1>2. PICK t \in SUBSET S : t \in B /\ \A x \in t : t \ {x} \notin B
  BY <1>1, Smallest
<1>3. t # {}
  <2>1. Total(w, {}) = 0 /\ Total(u, {}) = 0 /\ Total(v, {}) = 0
    BY TotalEmpty
  <2>2. QED
    BY <1>2, <2>1
<1>4. PICK x \in t : TRUE
  BY <1>3
<1>5. /\ IsFiniteSet(t) /\ IsFiniteSet(t \ {x})
      /\ \A y \in t : u[y] \in Int /\ v[y] \in Int /\ w[y] \in Int
  BY PartsOfFinite
<1>6. /\ Total(w, t) = Total(w, t \ {x}) + w[x]
      /\ Total(u, t) = Total(u, t \ {x}) + u[x]
      /\ Total(v, t) = Total(v, t \ {x}) + v[x]
  BY <1>5, TotalRemove
<1>7. Total(w, t \ {x}) = Total(u, t \ {x}) + Total(v, t \ {x})
  BY <1>2
<1>8. Total(u, t \ {x}) \in Int /\ Total(v, t \ {x}) \in Int
  BY <1>5, TotalType
<1>9. u[x] \in Int /\ v[x] \in Int /\ w[x] = u[x] + v[x]
  OBVIOUS
<1>10. Total(w, t) # Total(u, t) + Total(v, t)
  BY <1>2
<1>11. QED
  BY <1>6, <1>7, <1>8, <1>9, <1>10

\* Summing by keys: k[x] is the key of x, and K has the keys.
LEMMA TotalByKey ==
  ASSUME NEW S, IsFiniteSet(S), NEW w, \A x \in S : w[x] \in Int,
         NEW K, IsFiniteSet(K), NEW k, \A x \in S : k[x] \in K
  PROVE  Total([a \in K |-> Total(w, {x \in S : k[x] = a})], K) = Total(w, S)
<1> DEFINE Of(a) == {x \in S : k[x] = a}
           In(L) == {x \in S : k[x] \in L}
           t == [a \in K |-> Total(w, Of(a))]
           B == {L \in SUBSET K : Total(t, L) # Total(w, In(L))}
<1>1. \A a \in K : t[a] \in Int
  <2>1. SUFFICES ASSUME NEW a \in K PROVE Total(w, Of(a)) \in Int
    OBVIOUS
  <2>2. IsFiniteSet(Of(a)) /\ \A x \in Of(a) : w[x] \in Int
    BY PartsOfFinite
  <2>3. QED
    BY <2>2, TotalType
<1>2. B = {}
  <2>1. SUFFICES ASSUME B # {} PROVE FALSE
    OBVIOUS
  <2>2. PICK L \in SUBSET K : L \in B /\ \A a \in L : L \ {a} \notin B
    BY <2>1, Smallest
  <2>3. L # {}
    <3>1. In({}) = {} /\ Total(t, {}) = 0 /\ Total(w, {}) = 0
      BY TotalEmpty
    <3>2. Total(t, {}) = Total(w, In({}))
      BY <3>1
    <3> HIDE DEF t, In
    <3>3. QED
      BY <2>2, <3>2
  <2>4. PICK a \in L : TRUE
    BY <2>3
  <2>5. Total(t, L) = Total(t, L \ {a}) + t[a]
    <3>1. IsFiniteSet(L) /\ \A b \in L : t[b] \in Int
      BY <1>1, PartsOfFinite
    <3> HIDE DEF t
    <3>2. QED
      BY <3>1, TotalRemove
  <2>6. Total(w, In(L)) = Total(w, In(L \ {a})) + Total(w, Of(a))
    <3>1. In(L) = In(L \ {a}) \cup Of(a) /\ In(L \ {a}) \cap Of(a) = {}
      OBVIOUS
    <3>2. /\ IsFiniteSet(In(L \ {a})) /\ IsFiniteSet(Of(a))
          /\ \A x \in In(L \ {a}) \cup Of(a) : w[x] \in Int
      BY PartsOfFinite
    <3> HIDE DEF In, Of
    <3>3. QED
      BY <3>1, <3>2, TotalJoin
  <2>7. L \ {a} \in SUBSET K /\ L \ {a} \notin B
    BY <2>2
  <2>8. Total(t, L \ {a}) = Total(w, In(L \ {a})) /\ t[a] = Total(w, Of(a))
    BY <2>7
  <2>9. Total(t, L) # Total(w, In(L))
    BY <2>2
  <2> HIDE DEF t, In, Of
  <2>10. QED
    BY <2>5, <2>6, <2>8, <2>9
<1>3. K \in SUBSET K /\ K \notin B
  BY <1>2
<1>4. Total(t, K) = Total(w, In(K))
  BY <1>3
<1>5. In(K) = S
  OBVIOUS
<1>6. QED
  BY <1>4, <1>5
=============================================================================
