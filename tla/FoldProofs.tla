------------------------------- MODULE FoldProofs -------------------------------
(***************************************************************************)
(* Lemmas that the proofs about what is counted, summed and told share:    *)
(* induction over numbers and finite sets, what a fold makes of a sequence *)
(* or of a set, and sums.  Steps and terms are functions, so that a lemma  *)
(* can be cited for any of them.                                           *)
(***************************************************************************)
EXTENDS Integers, FiniteSets, SequencesExt, FiniteSetTheorems, TLAPS

-----------------------------------------------------------------------------
(* Least elements and induction. *)

LEMMA SmallestSet ==
  ASSUME NEW S, IsFiniteSet(S), NEW C \in SUBSET SUBSET S, C # {}
  PROVE  \E x \in C : \A y \in C : y \subseteq x => y = x
  <1> DEFINE R == StrictSubsetOrdering(S)
  <1>1. IsWellFoundedOn(R, FiniteSubsetsOf(S))
    BY FS_StrictSubsetOrderingWellFounded
  <1>2. C \subseteq FiniteSubsetsOf(S)
    BY FS_FiniteSubsetsOfFinite
  <1> HIDE DEF R
  <1>3. PICK x \in C : \A y \in C : ~ (<<y, x>> \in R)
    BY <1>1, <1>2, WFMin
  <1> QED
    BY <1>3 DEF R, StrictSubsetOrdering

LEMMA Least ==
  ASSUME NEW T \in SUBSET Nat, T # {}
  PROVE  \E x \in T : \A y \in T : x <= y
  <1>1. PICK n \in T : TRUE
    OBVIOUS
  <1> DEFINE C == {0..k : k \in {j \in T : j <= n}}
             S == 0..n
  <1>2. C \in SUBSET SUBSET S /\ C # {}
    BY <1>1
  <1>3. IsFiniteSet(S)
    BY FS_Interval
  <1> HIDE DEF C, S
  <1>4. PICK x \in C : \A y \in C : y \subseteq x => y = x
    BY <1>2, <1>3, SmallestSet
  <1>5. PICK k \in T : k <= n /\ x = 0..k
    BY <1>4 DEF C
  <1>6. ASSUME NEW j \in T PROVE k <= j
    <2> SUFFICES ASSUME j < k PROVE FALSE
      OBVIOUS
    <2>1. 0..j \in C
      BY <1>5 DEF C
    <2>2. 0..j \subseteq 0..k /\ k \in 0..k /\ k \notin 0..j
      OBVIOUS
    <2> QED
      BY <2>1, <2>2, <1>4, <1>5
  <1> QED
    BY <1>6

\* Induction: a set of numbers with 0 and every next one up to n has them all.
LEMMA UpTo ==
  ASSUME NEW n \in Nat, NEW T, 0 \in T, \A k \in 0..(n - 1) : k \in T => k + 1 \in T
  PROVE  0..n \subseteq T
  <1> SUFFICES ASSUME NEW j \in 0..n, j \notin T PROVE FALSE
    OBVIOUS
  <1> DEFINE Bad == {k \in 0..n : k \notin T}
  <1>1. Bad \in SUBSET Nat /\ Bad # {}
    OBVIOUS
  <1> HIDE DEF Bad
  <1>2. PICK k \in Bad : \A i \in Bad : k <= i
    BY <1>1, Least
  <1>3. k \in 0..n /\ k # 0 /\ k \notin T
    BY <1>2 DEF Bad
  <1>4. k - 1 \in 0..(n - 1) /\ (k - 1) + 1 = k /\ k - 1 \in 0..n
    BY <1>3
  <1>5. k - 1 \notin Bad
    BY <1>2, <1>3, <1>4
  <1>6. k - 1 \in T
    BY <1>4, <1>5 DEF Bad
  <1> QED
    BY <1>3, <1>4, <1>6

LEMMA IsSeq ==
  ASSUME NEW S, NEW n \in Nat, NEW f \in [1..n -> S]
  PROVE  f \in Seq(S) /\ Len(f) = n
  OBVIOUS

LEMMA ImageFinite ==
  ASSUME NEW S, IsFiniteSet(S), NEW f
  PROVE  IsFiniteSet({f[x] : x \in S})
  <1> DEFINE T == {f[x] : x \in S}  g == [x \in S |-> f[x]]
  <1>1. g \in Surjection(S, T)
    BY DEF Surjection
  <1> HIDE DEF g, T
  <1>2. IsFiniteSet(T)
    BY <1>1, FS_Surjection
  <1> QED
    BY <1>2 DEF T

-----------------------------------------------------------------------------
(* Folds.  What FoldLeft makes of a sequence is the end of the chain that  *)
(* its operator makes of one element after the other.                      *)

LEMMA MaxIs ==
  ASSUME NEW k \in Nat, NEW T \in SUBSET (1..(k + 1))
  PROVE  /\ k + 1 \in T => Max(T) = k + 1
         /\ k + 1 \notin T => T \in SUBSET (1..k)
  <1>1. ASSUME k + 1 \in T PROVE Max(T) = k + 1
    <2>1. \A y \in T : k + 1 >= y /\ y \in Nat
      OBVIOUS
    <2>2. \A x \in T : (\A y \in T : x >= y) => x = k + 1
      BY <1>1, <2>1
    <2>3. \E x \in T : \A y \in T : x >= y
      BY <1>1, <2>1
    <2> QED
      BY <2>2, <2>3 DEF Max
  <1>2. \A i \in 1..(k + 1) : i # k + 1 => i \in 1..k
    OBVIOUS
  <1> QED
    BY <1>1, <1>2

LEMMA MaxIn ==
  ASSUME NEW n \in Nat, NEW T \in SUBSET (1..n), T # {}
  PROVE  Max(T) \in 1..n /\ Max(T) \in T /\ T \ {Max(T)} \in SUBSET (1..n)
  <1> DEFINE D == {n - x : x \in T}
  <1>1. D \in SUBSET Nat /\ D # {}
    <2>1. \A x \in T : x \in Nat /\ n - x \in Nat
      OBVIOUS
    <2>2. PICK x \in T : TRUE
      OBVIOUS
    <2>3. n - x \in D
      OBVIOUS
    <2> QED
      BY <2>1, <2>3
  <1> HIDE DEF D
  <1>2. PICK d \in D : \A y \in D : d <= y
    BY <1>1, Least
  <1>3. PICK x \in T : d = n - x
    BY DEF D
  <1>4. ASSUME NEW y \in T PROVE x >= y
    <2>1. n - y \in D
      BY DEF D
    <2> QED
      BY <2>1, <1>2, <1>3
  <1>5. Max(T) \in T
    BY <1>4 DEF Max
  <1> QED
    BY <1>5

\* What the recursion of a fold makes of each set of places up to k, o being its
\* step.
Folded(it, b, k, o) ==
    /\ it[{}] = b
    /\ \A T \in SUBSET (1..k) : T # {} => it[T] = o[<<it[T \ {Max(T)}], Max(T)>>]

LEMMA FoldExists ==
  ASSUME NEW V, NEW b \in V, NEW n \in Nat, NEW o \in [V \X (1..n) -> V]
  PROVE  \E it \in [SUBSET (1..n) -> V] : Folded(it, b, n, o)
  <1> DEFINE T == {k \in 0..n : \E it \in [SUBSET (1..k) -> V] : Folded(it, b, k, o)}
  <1>1. 0 \in T
    <2> DEFINE it == [S \in SUBSET (1..0) |-> b]
    <2>1. it \in [SUBSET (1..0) -> V]
      OBVIOUS
    <2>2. \A S \in SUBSET (1..0) : S = {}
      OBVIOUS
    <2>3. Folded(it, b, 0, o)
      BY <2>2 DEF Folded
    <2> QED
      BY <2>1, <2>3
  <1>2. ASSUME NEW k \in 0..(n - 1), k \in T PROVE k + 1 \in T
    <2>1. PICK it \in [SUBSET (1..k) -> V] : Folded(it, b, k, o)
      BY <1>2
    <2> DEFINE l == k + 1
               new == [S \in SUBSET (1..l) |-> IF l \in S THEN o[<<it[S \ {l}], l>>] ELSE it[S]]
    <2>2. k \in Nat /\ l \in 1..n /\ l \in 0..n
      OBVIOUS
    <2>3. \A S \in SUBSET (1..l) : /\ S \ {l} \in SUBSET (1..k)
                                   /\ l \notin S => S \in SUBSET (1..k) /\ S \ {l} = S
                                   /\ l \in S => Max(S) = l
      <3>1. \A i \in 1..l : i # l => i \in 1..k
        OBVIOUS
      <3> QED
        BY <3>1, <2>2, MaxIs
    <2>4. \A S \in SUBSET (1..k) : S \in SUBSET (1..l) /\ l \notin S
      BY <2>2
    <2> HIDE DEF l
    <2>5. new \in [SUBSET (1..l) -> V]
      BY <2>2, <2>3
    <2>6. \A S \in SUBSET (1..k) : new[S] = it[S]
      BY <2>4
    <2>7. ASSUME NEW S \in SUBSET (1..l), S # {} PROVE new[S] = o[<<new[S \ {Max(S)}], Max(S)>>]
      <3>1. CASE l \in S
        BY <3>1, <2>3, <2>6, <2>7
      <3>2. CASE l \notin S
        <4>1. S \in SUBSET (1..k) /\ it[S] = o[<<it[S \ {Max(S)}], Max(S)>>] /\ S \ {Max(S)} \in SUBSET (1..k)
          BY <3>2, <2>1, <2>3, <2>7 DEF Folded
        <4> QED
          BY <4>1, <2>6
      <3> QED
        BY <3>1, <3>2
    <2>8. new[{}] = b
      <3>1. {} \in SUBSET (1..k) /\ it[{}] = b
        BY <2>1 DEF Folded
      <3> QED
        BY <3>1, <2>6
    <2>9. Folded(new, b, l, o)
      BY <2>7, <2>8 DEF Folded
    <2> HIDE DEF new
    <2> QED
      BY <2>2, <2>5, <2>9 DEF l
  <1> HIDE DEF T
  <1>3. 0..n \subseteq T
    BY <1>1, <1>2, UpTo
  <1>4. n \in T
    BY <1>3
  <1> QED
    BY <1>4 DEF T

\* The sets of the first places give the chain; of another recursion only that it
\* takes the same steps where it has stayed in V is asked.
StepsBy(it, V, b, n, o) ==
    /\ it[{}] = b
    /\ \A T \in SUBSET (1..n) : T # {} /\ it[T \ {Max(T)}] \in V => it[T] = o[<<it[T \ {Max(T)}], Max(T)>>]

ChainTo(V, b, n, o, v) ==
    \E c \in [0..n -> V] : c[0] = b /\ (\A i \in 1..n : c[i] = o[<<c[i - 1], i>>]) /\ v = c[n]

LEMMA FoldChain ==
  ASSUME NEW V, NEW b \in V, NEW n \in Nat, NEW o \in [V \X (1..n) -> V], NEW it, StepsBy(it, V, b, n, o)
  PROVE  ChainTo(V, b, n, o, it[1..n])
  <1> DEFINE T == {k \in 0..n : it[1..k] \in V}
             c == [k \in 0..n |-> it[1..k]]
  <1> USE DEF StepsBy
  <1>1. 1..0 = {}
    OBVIOUS
  <1>2. 0 \in T
    BY <1>1
  <1>3. ASSUME NEW k \in 0..(n - 1) PROVE /\ k + 1 \in 1..n /\ 1..(k + 1) \in SUBSET (1..n) /\ 1..(k + 1) # {}
                                          /\ Max(1..(k + 1)) = k + 1 /\ (1..(k + 1)) \ {k + 1} = 1..k
    <2>1. k \in Nat /\ k + 1 \in 1..(k + 1)
      OBVIOUS
    <2>2. Max(1..(k + 1)) = k + 1
      BY <2>1, MaxIs
    <2> QED
      BY <2>1, <2>2
  <1>4. ASSUME NEW k \in 0..(n - 1), it[1..k] \in V PROVE it[1..(k + 1)] = o[<<it[1..k], k + 1>>] /\ it[1..(k + 1)] \in V
    <2>1. it[1..(k + 1)] = o[<<it[1..k], k + 1>>]
      BY <1>3, <1>4
    <2>2. <<it[1..k], k + 1>> \in V \X (1..n)
      BY <1>3, <1>4
    <2> QED
      BY <2>1, <2>2
  <1>5. ASSUME NEW k \in 0..(n - 1), k \in T PROVE k + 1 \in T
    <2>1. k + 1 \in 0..n /\ it[1..k] \in V
      BY <1>5
    <2>2. it[1..(k + 1)] \in V
      BY <1>4, <2>1
    <2> QED
      BY <2>1, <2>2
  <1> HIDE DEF T
  <1>6. 0..n \subseteq T
    BY <1>2, <1>5, UpTo
  <1>7. \A k \in 0..n : it[1..k] \in V
    BY <1>6 DEF T
  <1>8. c \in [0..n -> V] /\ c[0] = b /\ it[1..n] = c[n]
    BY <1>1, <1>7
  <1>9. ASSUME NEW i \in 1..n PROVE c[i] = o[<<c[i - 1], i>>]
    <2>1. i - 1 \in 0..(n - 1) /\ i - 1 \in 0..n /\ i \in 0..n /\ (i - 1) + 1 = i
      OBVIOUS
    <2>2. it[1..i] = o[<<it[1..(i - 1)], i>>]
      BY <1>4, <1>7, <2>1
    <2> QED
      BY <2>1, <2>2
  <1> HIDE DEF c
  <1> QED
    BY <1>8, <1>9 DEF ChainTo

\* v is where the steps of o lead from b along s.
Leads(V, o, b, s, v) ==
    \E c \in [0..Len(s) -> V] : c[0] = b /\ (\A i \in 1..Len(s) : c[i] = o[<<c[i - 1], s[i]>>]) /\ v = c[Len(s)]

LEMMA LeadsNowhere ==
  ASSUME NEW V, NEW o, NEW b, NEW v, Leads(V, o, b, << >>, v)
  PROVE  v = b
  BY DEF Leads

\* The chain along a longer sequence goes through the end of the shorter one.
LEMMA LeadsOn ==
  ASSUME NEW V, NEW E, NEW o, NEW b, NEW s \in Seq(E), NEW x \in E, NEW v, NEW w,
         Leads(V, o, b, s, v), Leads(V, o, b, Append(s, x), w)
  PROVE  w = o[<<v, x>>] /\ v \in V
  <1> DEFINE n == Len(s)  t == Append(s, x)
  <1>1. n \in Nat /\ Len(t) = n + 1 /\ t[n + 1] = x /\ \A i \in 1..n : t[i] = s[i]
    OBVIOUS
  <1>2. PICK c \in [0..n -> V] : c[0] = b /\ (\A i \in 1..n : c[i] = o[<<c[i - 1], s[i]>>]) /\ v = c[n]
    BY DEF Leads
  <1>3. PICK d \in [0..(n + 1) -> V] : /\ d[0] = b /\ w = d[n + 1]
                                       /\ \A i \in 1..(n + 1) : d[i] = o[<<d[i - 1], t[i]>>]
    BY <1>1 DEF Leads
  <1> HIDE DEF n, t
  <1> DEFINE T == {i \in 0..n : c[i] = d[i]}
  <1>4. 0 \in T
    BY <1>1, <1>2, <1>3
  <1>5. ASSUME NEW k \in 0..(n - 1), k \in T PROVE k + 1 \in T
    <2>1. k + 1 \in 1..n /\ k + 1 \in 1..(n + 1) /\ k + 1 \in 0..n /\ (k + 1) - 1 = k
      BY <1>1
    <2>2. c[k + 1] = o[<<c[k], s[k + 1]>>] /\ d[k + 1] = o[<<d[k], t[k + 1]>>] /\ t[k + 1] = s[k + 1] /\ c[k] = d[k]
      BY <2>1, <1>1, <1>2, <1>3, <1>5
    <2> QED
      BY <2>1, <2>2
  <1> HIDE DEF T
  <1>6. 0..n \subseteq T
    BY <1>1, <1>4, <1>5, UpTo
  <1>7. n \in 0..n /\ n + 1 \in 1..(n + 1) /\ (n + 1) - 1 = n
    BY <1>1
  <1>8. c[n] = d[n]
    BY <1>6, <1>7 DEF T
  <1> QED
    BY <1>1, <1>2, <1>3, <1>7, <1>8

-----------------------------------------------------------------------------
(* Sums.  A sum over a finite set is a measure of its subsets: it grows by *)
(* the term of an element, whichever it is.                                *)

Measures(g, f, S) ==
    /\ g \in [SUBSET S -> Int] /\ g[{}] = 0
    /\ \A T \in SUBSET S : \A x \in T : g[T] = f[x] + g[T \ {x}]

LEMMA MeasureExists ==
  ASSUME NEW S, IsFiniteSet(S), NEW f, \A x \in S : f[x] \in Int
  PROVE  \E g : Measures(g, f, S)
  <1> DEFINE Has(T) == \E g : Measures(g, f, T)
             C == {T \in SUBSET S : ~Has(T)}
  <1> SUFFICES ASSUME ~Has(S) PROVE FALSE
    OBVIOUS
  <1>1. C \in SUBSET SUBSET S /\ C # {}
    OBVIOUS
  <1> HIDE DEF C
  <1>2. PICK T \in C : \A y \in C : y \subseteq T => y = T
    BY <1>1, SmallestSet
  <1>3. T \in SUBSET S /\ ~Has(T)
    BY <1>2 DEF C
  <1>4. T # {}
    <2> SUFFICES ASSUME T = {} PROVE FALSE
      OBVIOUS
    <2> DEFINE g == [U \in SUBSET {} |-> 0]
    <2>1. Measures(g, f, {})
      BY DEF Measures
    <2> QED
      BY <2>1, <1>3
  <1>5. PICK x \in T : TRUE
    BY <1>4
  <1> DEFINE R == T \ {x}
  <1>6. R \in SUBSET S /\ R \subseteq T /\ R # T
    BY <1>3, <1>5
  <1>7. Has(R)
    BY <1>2, <1>6 DEF C
  <1>8. PICK g : Measures(g, f, R)
    BY <1>7
  <1> DEFINE h == [U \in SUBSET T |-> IF x \in U THEN f[x] + g[U \ {x}] ELSE g[U]]
  <1>9. \A U \in SUBSET T : /\ U \ {x} \in SUBSET R /\ g[U \ {x}] \in Int
                            /\ x \notin U => U \in SUBSET R /\ g[U] \in Int
    BY <1>8 DEF Measures
  <1>10. f[x] \in Int
    BY <1>3, <1>5
  <1>11. h \in [SUBSET T -> Int]
    BY <1>9, <1>10
  <1>12. h[{}] = 0
    BY <1>8 DEF Measures
  <1>13. ASSUME NEW U \in SUBSET T, NEW y \in U PROVE h[U] = f[y] + h[U \ {y}]
    <2>1. U \ {y} \in SUBSET T
      OBVIOUS
    <2>2. CASE x \notin U
      <3>1. g[U] = f[y] + g[U \ {y}]
        BY <1>8, <1>9, <2>2 DEF Measures
      <3> QED
        BY <2>1, <2>2, <3>1
    <2>3. CASE x = y
      <3>1. h[U] = f[x] + g[U \ {x}] /\ h[U \ {y}] = g[U \ {x}]
        BY <2>1, <2>3
      <3> QED
        BY <2>3, <3>1
    <2>4. CASE x \in U /\ x # y
      <3>1. h[U] = f[x] + g[U \ {x}] /\ h[U \ {y}] = f[x] + g[(U \ {y}) \ {x}]
        BY <2>1, <2>4
      <3>2. y \in U \ {x} /\ (U \ {x}) \ {y} = (U \ {y}) \ {x}
        BY <2>4
      <3>3. g[U \ {x}] = f[y] + g[(U \ {y}) \ {x}]
        BY <3>2, <1>8, <1>9 DEF Measures
      <3>4. f[y] \in Int /\ g[(U \ {y}) \ {x}] \in Int
        BY <1>3, <1>9, <2>1
      <3> HIDE DEF h
      <3> QED
        BY <3>1, <3>3, <3>4, <1>10
    <2> QED
      BY <2>2, <2>3, <2>4
  <1> HIDE DEF h
  <1>14. Measures(h, f, T)
    BY <1>11, <1>12, <1>13 DEF Measures
  <1> QED
    BY <1>14, <1>3

LEMMA SumIsMeasure ==
  ASSUME NEW S, IsFiniteSet(S), NEW f, NEW g, Measures(g, f, S)
  PROVE  SumFunctionOnSet(f, S) = g[S]
  <1> DEFINE Pick(T) == CHOOSE x \in T : TRUE
             Is(it) == it = [T \in SUBSET S |-> IF T = {} THEN 0 ELSE f[Pick(T)] + it[T \ {Pick(T)}]]
             iter == CHOOSE it : Is(it)
  <1>1. SumFunctionOnSet(f, S) = iter[S]
    BY DEF SumFunctionOnSet, FoldFunctionOnSet, MapThenFoldSet
  <1>2. \A T \in SUBSET S : T # {} => Pick(T) \in T
    OBVIOUS
  <1> HIDE DEF Pick
  <1>3. Is(g)
    BY <1>2 DEF Measures
  <1>4. Is(iter)
    BY <1>3
  <1> HIDE DEF iter
  <1> DEFINE C == {T \in SUBSET S : iter[T] # g[T]}
  <1>5. C = {}
    <2> SUFFICES ASSUME C # {} PROVE FALSE
      OBVIOUS
    <2>1. C \in SUBSET SUBSET S
      OBVIOUS
    <2> HIDE DEF C
    <2>2. PICK T \in C : \A y \in C : y \subseteq T => y = T
      BY <2>1, SmallestSet
    <2>3. T \in SUBSET S /\ iter[T] # g[T]
      BY <2>2 DEF C
    <2>4. T # {}
      BY <2>3, <1>4 DEF Measures
    <2>5. T \ {Pick(T)} \in SUBSET S /\ T \ {Pick(T)} # T
      BY <2>3, <2>4, <1>2
    <2>6. iter[T \ {Pick(T)}] = g[T \ {Pick(T)}]
      BY <2>2, <2>5 DEF C
    <2>7. iter[T] = f[Pick(T)] + iter[T \ {Pick(T)}] /\ g[T] = f[Pick(T)] + g[T \ {Pick(T)}]
      BY <1>3, <1>4, <2>3, <2>4
    <2> QED
      BY <2>3, <2>6, <2>7
  <1> QED
    BY <1>1, <1>5

\* A measure of a set is one of its subsets.
LEMMA MeasureWithin ==
  ASSUME NEW S, NEW f, NEW g, Measures(g, f, S), NEW T \in SUBSET S
  PROVE  Measures([U \in SUBSET T |-> g[U]], f, T)
  BY DEF Measures

\* The sum is a measure of the subsets.
LEMMA SumMeasures ==
  ASSUME NEW S, IsFiniteSet(S), NEW f, \A x \in S : f[x] \in Int
  PROVE  Measures([T \in SUBSET S |-> SumFunctionOnSet(f, T)], f, S)
  <1>1. PICK g : Measures(g, f, S)
    BY MeasureExists
  <1>2. ASSUME NEW T \in SUBSET S PROVE SumFunctionOnSet(f, T) = g[T]
    <2> DEFINE h == [U \in SUBSET T |-> g[U]]
    <2>1. Measures(h, f, T)
      BY <1>1, MeasureWithin
    <2>2. h[T] = g[T]
      OBVIOUS
    <2> HIDE DEF h
    <2>3. IsFiniteSet(T)
      BY FS_Subset
    <2> QED
      BY <2>1, <2>2, <2>3, SumIsMeasure
  <1>3. [T \in SUBSET S |-> SumFunctionOnSet(f, T)] = g
    BY <1>1, <1>2 DEF Measures
  <1> QED
    BY <1>1, <1>3

LEMMA CardMeasures ==
  ASSUME NEW S, IsFiniteSet(S)
  PROVE  Measures([T \in SUBSET S |-> Cardinality(T)], [x \in S |-> 1], S)
  <1>1. ASSUME NEW T \in SUBSET S
        PROVE  /\ IsFiniteSet(T) /\ Cardinality(T) \in Nat
               /\ \A x \in T : Cardinality(T \ {x}) = Cardinality(T) - 1
    BY FS_Subset, FS_CardinalityType, FS_RemoveElement
  <1>2. Cardinality({}) = 0
    BY FS_EmptySet
  <1>3. ASSUME NEW T \in SUBSET S, NEW x \in T
        PROVE  /\ T \ {x} \in SUBSET S
               /\ Cardinality(T) = 1 + Cardinality(T \ {x})
    BY <1>1
  <1> QED
    BY <1>1, <1>2, <1>3 DEF Measures

LEMMA MeasureOfUnion ==
  ASSUME NEW S, IsFiniteSet(S), NEW f, NEW g, Measures(g, f, S), \A x \in S : f[x] \in Int,
         NEW A \in SUBSET S, NEW B \in SUBSET S, A \cap B = {}
  PROVE  g[A \cup B] = g[A] + g[B]
  <1> DEFINE C == {T \in SUBSET B : g[A \cup T] # g[A] + g[T]}
  <1>1. \A T \in SUBSET S : g[T] \in Int
    BY DEF Measures
  <1>2. C = {}
    <2> SUFFICES ASSUME C # {} PROVE FALSE
      OBVIOUS
    <2>1. C \in SUBSET SUBSET B /\ IsFiniteSet(B)
      BY FS_Subset
    <2> HIDE DEF C
    <2>2. PICK T \in C : \A y \in C : y \subseteq T => y = T
      BY <2>1, SmallestSet
    <2>3. T \in SUBSET B /\ g[A \cup T] # g[A] + g[T]
      BY <2>2 DEF C
    <2>4. T # {}
      <3> SUFFICES ASSUME T = {} PROVE FALSE
        OBVIOUS
      <3>1. A \cup T = A /\ g[T] = 0 /\ g[A] \in Int
        BY <1>1 DEF Measures
      <3> QED
        BY <2>3, <3>1
    <2>5. PICK x \in T : TRUE
      BY <2>4
    <2>6. /\ T \ {x} \in SUBSET B /\ T \ {x} \in SUBSET S /\ T \ {x} # T /\ x \in A \cup T /\ x \in S
          /\ (A \cup T) \ {x} = A \cup (T \ {x}) /\ A \cup T \in SUBSET S /\ T \in SUBSET S
          /\ A \cup (T \ {x}) \in SUBSET S
      BY <2>3, <2>5
    <2>7. g[A \cup (T \ {x})] = g[A] + g[T \ {x}]
      BY <2>2, <2>6 DEF C
    <2>8. g[A \cup T] = f[x] + g[A \cup (T \ {x})] /\ g[T] = f[x] + g[T \ {x}]
      BY <2>5, <2>6 DEF Measures
    <2>9. g[A] \in Int /\ g[T \ {x}] \in Int /\ f[x] \in Int
      BY <1>1, <2>6
    <2> QED
      BY <2>3, <2>7, <2>8, <2>9
  <1> QED
    BY <1>2

\* The parts of a set add up to it.
Apart(P, C, S) == P \in [C -> SUBSET S] /\ \A c, d \in C : c # d => P[c] \cap P[d] = {}
Whole(P, C) == UNION {P[c] : c \in C}
Totals(h, g, P, C) == \A c \in C : h[c] = g[P[c]]

LEMMA PartsAddUp ==
  ASSUME NEW S, IsFiniteSet(S), NEW f, NEW g, Measures(g, f, S), \A x \in S : f[x] \in Int,
         NEW C, IsFiniteSet(C), NEW P, Apart(P, C, S), NEW h, Totals(h, g, P, C)
  PROVE  SumFunctionOnSet(h, C) = g[Whole(P, C)]
  <1> DEFINE G == [D \in SUBSET C |-> g[UNION {P[c] : c \in D}]]
  <1>1. \A D \in SUBSET C : UNION {P[c] : c \in D} \in SUBSET S
    BY DEF Apart
  <1>2. G \in [SUBSET C -> Int]
    BY <1>1 DEF Measures
  <1>3. G[{}] = 0
    <2>1. UNION {P[c] : c \in {}} = {}
      OBVIOUS
    <2> QED
      BY <2>1 DEF Measures
  <1>4. ASSUME NEW D \in SUBSET C, NEW c \in D PROVE G[D] = h[c] + G[D \ {c}]
    <2> DEFINE A == P[c]
               B == UNION {P[d] : d \in D \ {c}}
    <2>1. A \in SUBSET S /\ B \in SUBSET S /\ A \cap B = {}
      BY DEF Apart
    <2>2. UNION {P[d] : d \in D} = A \cup B
      OBVIOUS
    <2>3. G[D] = g[A \cup B] /\ G[D \ {c}] = g[B] /\ h[c] = g[A]
      BY <2>2 DEF Totals
    <2> HIDE DEF A, B, G
    <2>4. g[A \cup B] = g[A] + g[B]
      BY <2>1, MeasureOfUnion
    <2> QED
      BY <2>3, <2>4
  <1> HIDE DEF G
  <1>5. Measures(G, h, C)
    BY <1>2, <1>3, <1>4 DEF Measures
  <1>6. SumFunctionOnSet(h, C) = G[C]
    BY <1>5, SumIsMeasure
  <1> QED
    BY <1>6 DEF G, Whole

LEMMA SumTyped ==
  ASSUME NEW S, IsFiniteSet(S), NEW f, \A x \in S : f[x] \in Int
  PROVE  SumFunctionOnSet(f, S) \in Int
  <1>1. PICK g : Measures(g, f, S)
    BY MeasureExists
  <1>2. SumFunctionOnSet(f, S) = g[S]
    BY <1>1, SumIsMeasure
  <1> QED
    BY <1>1, <1>2 DEF Measures

LEMMA SumNothing ==
  ASSUME NEW f
  PROVE  SumFunctionOnSet(f, {}) = 0
  <1> DEFINE g == [T \in SUBSET {} |-> 0]
  <1>1. Measures(g, f, {})
    BY DEF Measures
  <1>2. SumFunctionOnSet(f, {}) = g[{}]
    BY <1>1, FS_EmptySet, SumIsMeasure
  <1> QED
    BY <1>2

LEMMA SumStep ==
  ASSUME NEW S, IsFiniteSet(S), NEW f, \A x \in S : f[x] \in Int, NEW x \in S
  PROVE  SumFunctionOnSet(f, S) = f[x] + SumFunctionOnSet(f, S \ {x})
  <1> DEFINE g == [T \in SUBSET S |-> SumFunctionOnSet(f, T)]
  <1>1. Measures(g, f, S)
    BY SumMeasures
  <1>2. g[S] = SumFunctionOnSet(f, S) /\ g[S \ {x}] = SumFunctionOnSet(f, S \ {x})
    OBVIOUS
  <1> HIDE DEF g
  <1> QED
    BY <1>1, <1>2 DEF Measures

LEMMA SumEqual ==
  ASSUME NEW S, IsFiniteSet(S), NEW f, \A x \in S : f[x] \in Int, NEW h, \A x \in S : h[x] = f[x]
  PROVE  SumFunctionOnSet(h, S) = SumFunctionOnSet(f, S)
  <1>1. PICK g : Measures(g, f, S)
    BY MeasureExists
  <1>2. Measures(g, h, S)
    BY <1>1 DEF Measures
  <1> QED
    BY <1>1, <1>2, SumIsMeasure

LEMMA SumPlus ==
  ASSUME NEW S, IsFiniteSet(S), NEW f, \A x \in S : f[x] \in Int, NEW e, \A x \in S : e[x] \in Int,
         NEW h, \A x \in S : h[x] = f[x] + e[x]
  PROVE  SumFunctionOnSet(h, S) = SumFunctionOnSet(f, S) + SumFunctionOnSet(e, S)
  <1>1. PICK g : Measures(g, f, S)
    BY MeasureExists
  <1>2. PICK k : Measures(k, e, S)
    BY MeasureExists
  <1> DEFINE m == [T \in SUBSET S |-> g[T] + k[T]]
  <1>3. \A T \in SUBSET S : g[T] \in Int /\ k[T] \in Int
    BY <1>1, <1>2 DEF Measures
  <1>4. m[{}] = 0 /\ m \in [SUBSET S -> Int]
    BY <1>1, <1>2, <1>3 DEF Measures
  <1>5. ASSUME NEW T \in SUBSET S, NEW x \in T PROVE m[T] = h[x] + m[T \ {x}]
    <2>1. T \ {x} \in SUBSET S /\ x \in S
      OBVIOUS
    <2>2. g[T] = f[x] + g[T \ {x}] /\ k[T] = e[x] + k[T \ {x}]
      BY <1>1, <1>2 DEF Measures
    <2>3. m[T] = g[T] + k[T] /\ m[T \ {x}] = g[T \ {x}] + k[T \ {x}]
      BY <2>1
    <2>4. f[x] \in Int /\ e[x] \in Int /\ h[x] = f[x] + e[x] /\ g[T \ {x}] \in Int /\ k[T \ {x}] \in Int
      BY <2>1, <1>3
    <2> HIDE DEF m
    <2> QED
      BY <2>2, <2>3, <2>4
  <1>6. m[S] = g[S] + k[S]
    OBVIOUS
  <1> HIDE DEF m
  <1>7. Measures(m, h, S)
    BY <1>4, <1>5 DEF Measures
  <1> QED
    BY <1>1, <1>2, <1>6, <1>7, SumIsMeasure

LEMMA SumNat ==
  ASSUME NEW S, IsFiniteSet(S), NEW f, \A x \in S : f[x] \in Nat
  PROVE  SumFunctionOnSet(f, S) \in Nat
  <1>1. \A x \in S : f[x] \in Int
    OBVIOUS
  <1>2. PICK g : Measures(g, f, S)
    BY <1>1, MeasureExists
  <1> DEFINE C == {T \in SUBSET S : g[T] \notin Nat}
  <1>3. C = {}
    <2> SUFFICES ASSUME C # {} PROVE FALSE
      OBVIOUS
    <2>1. C \in SUBSET SUBSET S
      OBVIOUS
    <2> HIDE DEF C
    <2>2. PICK T \in C : \A y \in C : y \subseteq T => y = T
      BY <2>1, SmallestSet
    <2>3. T \in SUBSET S /\ g[T] \notin Nat
      BY <2>2 DEF C
    <2>4. PICK x \in T : TRUE
      <3>1. g[{}] = 0
        BY <1>2 DEF Measures
      <3> QED
        BY <2>3, <3>1
    <2>5. T \ {x} \in SUBSET S /\ T \ {x} # T /\ x \in S
      BY <2>3, <2>4
    <2>6. g[T \ {x}] \in Nat
      BY <2>2, <2>5 DEF C
    <2>7. g[T] = f[x] + g[T \ {x}]
      BY <1>2, <2>3, <2>4 DEF Measures
    <2> QED
      BY <2>3, <2>5, <2>6, <2>7
  <1>4. g[S] \in Nat
    BY <1>3
  <1> QED
    BY <1>2, <1>4, SumIsMeasure

LEMMA SumAtMost ==
  ASSUME NEW S, IsFiniteSet(S), NEW f, \A x \in S : f[x] \in Int, NEW h, \A x \in S : h[x] \in Int,
         \A x \in S : f[x] <= h[x]
  PROVE  SumFunctionOnSet(f, S) <= SumFunctionOnSet(h, S)
  <1> DEFINE d == [x \in S |-> h[x] - f[x]]
  <1>1. \A x \in S : d[x] \in Nat /\ d[x] \in Int /\ h[x] = f[x] + d[x]
    OBVIOUS
  <1> HIDE DEF d
  <1>2. SumFunctionOnSet(h, S) = SumFunctionOnSet(f, S) + SumFunctionOnSet(d, S)
    BY <1>1, SumPlus
  <1>3. SumFunctionOnSet(d, S) \in Nat
    BY <1>1, SumNat
  <1>4. SumFunctionOnSet(f, S) \in Int
    BY SumTyped
  <1> QED
    BY <1>2, <1>3, <1>4

\* The parts of a set, in numbers and in sums.
LEMMA CardParts ==
  ASSUME NEW S, IsFiniteSet(S), NEW C, IsFiniteSet(C), NEW P, Apart(P, C, S),
         NEW h, \A c \in C : h[c] = Cardinality(P[c])
  PROVE  SumFunctionOnSet(h, C) = Cardinality(Whole(P, C))
  <1> DEFINE g == [T \in SUBSET S |-> Cardinality(T)]
             f == [x \in S |-> 1]
  <1>1. Measures(g, f, S)
    BY CardMeasures
  <1>2. \A x \in S : f[x] \in Int
    OBVIOUS
  <1>3. Totals(h, g, P, C)
    BY DEF Totals, Apart
  <1>4. Whole(P, C) \in SUBSET S
    BY DEF Whole, Apart
  <1>5. g[Whole(P, C)] = Cardinality(Whole(P, C))
    BY <1>4
  <1> HIDE DEF g, f
  <1>6. SumFunctionOnSet(h, C) = g[Whole(P, C)]
    BY <1>1, <1>2, <1>3, PartsAddUp
  <1> QED
    BY <1>5, <1>6

LEMMA SumParts ==
  ASSUME NEW S, IsFiniteSet(S), NEW f, \A x \in S : f[x] \in Int,
         NEW C, IsFiniteSet(C), NEW P, Apart(P, C, S),
         NEW h, \A c \in C : h[c] = SumFunctionOnSet(f, P[c])
  PROVE  SumFunctionOnSet(h, C) = SumFunctionOnSet(f, Whole(P, C))
  <1> DEFINE g == [T \in SUBSET S |-> SumFunctionOnSet(f, T)]
  <1>1. Measures(g, f, S)
    BY SumMeasures
  <1>2. Totals(h, g, P, C)
    BY DEF Totals, Apart
  <1>3. Whole(P, C) \in SUBSET S
    BY DEF Whole, Apart
  <1>4. g[Whole(P, C)] = SumFunctionOnSet(f, Whole(P, C))
    BY <1>3
  <1> HIDE DEF g
  <1>5. SumFunctionOnSet(h, C) = g[Whole(P, C)]
    BY <1>1, <1>2, PartsAddUp
  <1> QED
    BY <1>4, <1>5

-----------------------------------------------------------------------------
(* Folds over a set, in the order in which ch takes its elements.          *)

SetFold(it, S, ch, b, o) ==
    /\ it[{}] = b
    /\ \A T \in S : T # {} => it[T] = o[<<ch[T], it[T \ {ch[T]}]>>]

LEMMA SetFoldExists ==
  ASSUME NEW S, IsFiniteSet(S), NEW V, NEW b \in V, NEW ch, \A T \in SUBSET S : T # {} => ch[T] \in T,
         NEW o \in [S \X V -> V]
  PROVE  \E it \in [SUBSET S -> V] : SetFold(it, SUBSET S, ch, b, o)
  <1> DEFINE n == Cardinality(S)
             Upto(k) == {T \in SUBSET S : Cardinality(T) <= k}
             K == {k \in 0..n : \E it \in [Upto(k) -> V] : SetFold(it, Upto(k), ch, b, o)}
  <1>1. n \in Nat
    BY FS_CardinalityType
  <1>2. \A T \in SUBSET S : IsFiniteSet(T) /\ Cardinality(T) \in 0..n /\ (Cardinality(T) = 0 <=> T = {})
    BY FS_Subset, FS_CardinalityType, FS_EmptySet
  <1>3. \A T \in SUBSET S : T # {} => T \ {ch[T]} \in SUBSET S /\ Cardinality(T \ {ch[T]}) = Cardinality(T) - 1
    BY <1>2, FS_RemoveElement
  <1> HIDE DEF n
  <1> HIDE DEF K
  <1>4. 0 \in K
    <2> DEFINE it == [T \in Upto(0) |-> b]
    <2>1. Upto(0) = {{}}
      BY <1>2
    <2>2. it \in [Upto(0) -> V] /\ SetFold(it, Upto(0), ch, b, o)
      BY <2>1 DEF SetFold
    <2>3. \E f \in [Upto(0) -> V] : SetFold(f, Upto(0), ch, b, o)
      BY <2>2
    <2> HIDE DEF Upto
    <2> QED
      BY <1>1, <2>3 DEF K
  <1>5. ASSUME NEW k \in 0..(n - 1), k \in K PROVE k + 1 \in K
    <2>1. PICK it \in [Upto(k) -> V] : SetFold(it, Upto(k), ch, b, o)
      BY <1>5 DEF K
    <2> DEFINE new == [T \in Upto(k + 1) |-> IF T \in Upto(k) THEN it[T] ELSE o[<<ch[T], it[T \ {ch[T]}]>>]]
    <2>2. k \in Nat /\ k + 1 \in 0..n
      BY <1>1
    <2>3. ASSUME NEW T \in Upto(k + 1), T # {} PROVE T \ {ch[T]} \in Upto(k) /\ ch[T] \in S
      BY <2>2, <2>3, <1>2, <1>3
    <2>4. {} \in Upto(k) /\ \A T \in Upto(k) : T \in Upto(k + 1)
      BY <2>2, <1>2
    <2> HIDE DEF Upto
    <2>5. new \in [Upto(k + 1) -> V]
      <3>1. ASSUME NEW T \in Upto(k + 1), T \notin Upto(k) PROVE o[<<ch[T], it[T \ {ch[T]}]>>] \in V
        <4>1. ch[T] \in S /\ it[T \ {ch[T]}] \in V
          BY <2>3, <2>4, <3>1
        <4> QED
          BY <4>1
      <3> QED
        BY <3>1
    <2>6. new[{}] = b
      BY <2>1, <2>4 DEF SetFold
    <2>7. ASSUME NEW T \in Upto(k + 1), T # {} PROVE new[T] = o[<<ch[T], new[T \ {ch[T]}]>>]
      <3>1. new[T \ {ch[T]}] = it[T \ {ch[T]}]
        BY <2>3, <2>4, <2>7
      <3>2. T \in Upto(k) => it[T] = o[<<ch[T], it[T \ {ch[T]}]>>]
        BY <2>1, <2>7 DEF SetFold
      <3> QED
        BY <3>1, <3>2
    <2> HIDE DEF new
    <2>8. SetFold(new, Upto(k + 1), ch, b, o)
      BY <2>6, <2>7 DEF SetFold
    <2> QED
      BY <2>2, <2>5, <2>8 DEF K
  <1>6. 0..n \subseteq K
    BY <1>1, <1>4, <1>5, UpTo
  <1>7. Upto(n) = SUBSET S /\ n \in K
    BY <1>1, <1>2, <1>6
  <1> HIDE DEF Upto
  <1>8. \E it \in [Upto(n) -> V] : SetFold(it, Upto(n), ch, b, o)
    BY <1>7 DEF K
  <1> QED
    BY <1>7, <1>8


\* A recursion over the subsets of S that takes the same steps, where it stays in V.
SetSteps(it, V, S, ch, b, o) ==
    /\ it[{}] = b
    /\ \A T \in SUBSET S : T # {} /\ it[T \ {ch[T]}] \in V => it[T] = o[<<ch[T], it[T \ {ch[T]}]>>]

SameAsFold(it, V, S, ch, b, o) ==
    \E f \in [SUBSET S -> V] : SetFold(f, SUBSET S, ch, b, o) /\ \A T \in SUBSET S : it[T] = f[T]

LEMMA SetStepsFold ==
  ASSUME NEW S, IsFiniteSet(S), NEW V, NEW b \in V, NEW ch, \A T \in SUBSET S : T # {} => ch[T] \in T,
         NEW o \in [S \X V -> V], NEW it, SetSteps(it, V, S, ch, b, o)
  PROVE  SameAsFold(it, V, S, ch, b, o)
  <1>1. PICK f \in [SUBSET S -> V] : SetFold(f, SUBSET S, ch, b, o)
    BY SetFoldExists
  <1> DEFINE C == {T \in SUBSET S : it[T] # f[T]}
  <1>2. C = {}
    <2> SUFFICES ASSUME C # {} PROVE FALSE
      OBVIOUS
    <2>1. C \in SUBSET SUBSET S
      OBVIOUS
    <2> HIDE DEF C
    <2>2. PICK T \in C : \A y \in C : y \subseteq T => y = T
      BY <2>1, SmallestSet
    <2>3. T \in SUBSET S /\ it[T] # f[T]
      BY <2>2 DEF C
    <2>4. T # {}
      BY <2>3, <1>1 DEF SetSteps, SetFold
    <2>5. ch[T] \in T /\ T \ {ch[T]} \in SUBSET S /\ T \ {ch[T]} # T
      BY <2>3, <2>4
    <2>6. it[T \ {ch[T]}] = f[T \ {ch[T]}]
      BY <2>2, <2>5 DEF C
    <2>7. it[T] = o[<<ch[T], it[T \ {ch[T]}]>>] /\ f[T] = o[<<ch[T], f[T \ {ch[T]}]>>]
      BY <2>3, <2>4, <2>5, <2>6, <1>1 DEF SetSteps, SetFold
    <2> QED
      BY <2>3, <2>6, <2>7
  <1> QED
    BY <1>1, <1>2 DEF SameAsFold

LEMMA LargestOf ==
  ASSUME NEW S, IsFiniteSet(S), S \subseteq Nat, S # {}
  PROVE  Max(S) \in S /\ \A y \in S : y <= Max(S)
  <1> DEFINE C == {T \in SUBSET S : T # {} /\ ~\E x \in T : \A y \in T : y <= x}
  <1>1. C = {}
    <2> SUFFICES ASSUME C # {} PROVE FALSE
      OBVIOUS
    <2>0. IsFiniteSet(S) /\ C # {}
      OBVIOUS
    <2>1. C \in SUBSET SUBSET S
      OBVIOUS
    <2> HIDE DEF C
    <2>2. PICK T \in C : \A U \in C : U \subseteq T => U = T
      BY ONLY <2>0, <2>1, SmallestSet
    <2>3. T \in SUBSET S /\ T # {} /\ ~\E x \in T : \A y \in T : y <= x
      BY <2>2 DEF C
    <2>4. PICK x \in T : x \in Nat
      BY <2>3
    <2>5. \/ T \ {x} = {}
          \/ \E z \in T \ {x} : \A y \in T \ {x} : y <= z
      <3>1. T \ {x} \notin C
        BY <2>2, <2>4
      <3> QED
        BY <2>3, <3>1 DEF C
    <2>6. CASE T \ {x} = {}
      BY <2>3, <2>4, <2>6
    <2>7. CASE \E z \in T \ {x} : \A y \in T \ {x} : y <= z
      <3>1. PICK m \in T \ {x} : \A y \in T \ {x} : y <= m
        BY <2>7
      <3>2. m \in Nat /\ m \in T /\ \A y \in T : y \in Nat
        BY <2>3, <3>1
      <3>3. m <= x \/ x <= m
        BY <2>4, <3>2
      <3> QED
        BY <2>3, <2>4, <3>1, <3>2, <3>3
    <2> QED
      BY <2>5, <2>6, <2>7
  <1>2. \E x \in S : \A y \in S : y <= x
    BY <1>1
  <1> QED
    BY <1>2 DEF Max

LEMMA SmallestOf ==
  ASSUME NEW S \in SUBSET Nat, S # {}
  PROVE  Min(S) \in S /\ \A y \in S : Min(S) <= y
  <1>1. PICK x \in S : \A y \in S : x <= y
    BY Least
  <1> QED
    BY <1>1 DEF Min

\* A fold whose steps each add a weight makes their sum.
Weighs(W, w, S, V, o) ==
    /\ \A v \in V : W[v] \in Nat
    /\ \A x \in S : w[x] \in Nat /\ \A v \in V : W[o[<<x, v>>]] = W[v] + w[x]

LEMMA FoldWeighs ==
  ASSUME NEW S, IsFiniteSet(S), NEW V, NEW b \in V, NEW ch, \A T \in SUBSET S : T # {} => ch[T] \in T,
         NEW o, NEW f \in [SUBSET S -> V], SetFold(f, SUBSET S, ch, b, o),
         NEW W, NEW w, Weighs(W, w, S, V, o)
  PROVE  W[f[S]] = W[b] + SumFunctionOnSet(w, S)
  <1> DEFINE Sums(T) == W[f[T]] = W[b] + SumFunctionOnSet(w, T)
             C == {T \in SUBSET S : ~Sums(T)}
  <1>1. C = {}
    <2> SUFFICES ASSUME C # {} PROVE FALSE
      OBVIOUS
    <2>1. C \in SUBSET SUBSET S
      OBVIOUS
    <2> HIDE DEF C
    <2>2. PICK T \in C : \A U \in C : U \subseteq T => U = T
      BY <2>1, SmallestSet
    <2>3. T \in SUBSET S /\ ~Sums(T)
      BY <2>2 DEF C
    <2>4. T # {}
      <3>1. f[{}] = b /\ SumFunctionOnSet(w, {}) = 0 /\ W[b] \in Nat
        BY SumNothing DEF SetFold, Weighs
      <3>2. Sums({})
        BY <3>1
      <3> HIDE DEF Sums
      <3> QED
        BY <2>3, <3>2
    <2>5. PICK x \in T : x = ch[T]
      BY <2>3, <2>4
    <2>6. T \ {x} \in SUBSET S /\ T \ {x} # T /\ T \ {x} \subseteq T
      BY <2>3
    <2>7. Sums(T \ {x})
      <3>1. T \ {x} \notin C
        BY <2>2, <2>6
      <3> QED
        BY <2>6, <3>1 DEF C
    <2>8. f[T] = o[<<x, f[T \ {x}]>>] /\ f[T \ {x}] \in V
      BY <2>3, <2>4, <2>5, <2>6 DEF SetFold
    <2>9. W[f[T]] = W[f[T \ {x}]] + w[x] /\ w[x] \in Nat
      BY <2>3, <2>5, <2>8 DEF Weighs
    <2>10. IsFiniteSet(T) /\ IsFiniteSet(T \ {x})
      BY <2>3, <2>6, FS_Subset
    <2>11. \A y \in T : w[y] \in Int /\ w[y] \in Nat
      BY <2>3 DEF Weighs
    <2>12. SumFunctionOnSet(w, T) = w[x] + SumFunctionOnSet(w, T \ {x})
      BY <2>10, <2>11, SumStep
    <2>13. \A y \in T \ {x} : w[y] \in Nat
      BY <2>11
    <2>14. SumFunctionOnSet(w, T \ {x}) \in Nat
      BY <2>10, <2>13, SumNat
    <2>15. W[b] \in Nat
      BY DEF Weighs
    <2> QED
      BY <2>3, <2>7, <2>9, <2>12, <2>14, <2>15
  <1> QED
    BY <1>1

\* Terms under other names.
Renames(e, S, f, g) ==
    /\ \A x \in S : f[e[x]] = g[x] /\ g[x] \in Int
    /\ \A x, y \in S : e[x] = e[y] => x = y

LEMMA SumRenamed ==
  ASSUME NEW S, IsFiniteSet(S), NEW e, NEW f, NEW g, Renames(e, S, f, g)
  PROVE  SumFunctionOnSet(f, {e[x] : x \in S}) = SumFunctionOnSet(g, S)
  <1> DEFINE Of(T) == {e[x] : x \in T}
             I == Of(S)
  <1>1. IsFiniteSet(I)
    BY ImageFinite
  <1>2. \A y \in I : f[y] \in Int
    BY DEF Renames
  <1> HIDE DEF I
  <1>3. PICK h : Measures(h, f, I)
    BY <1>1, <1>2, MeasureExists
  <1> DEFINE k == [T \in SUBSET S |-> h[Of(T)]]
  <1>4. Measures(k, g, S)
    <2>1. \A T \in SUBSET S : Of(T) \in SUBSET I
      BY DEF I
    <2>2. k \in [SUBSET S -> Int] /\ k[{}] = 0
      BY <1>3, <2>1 DEF Measures
    <2>3. ASSUME NEW T \in SUBSET S, NEW x \in T PROVE k[T] = g[x] + k[T \ {x}]
      <3>1. Of(T) \ {e[x]} = Of(T \ {x}) /\ e[x] \in Of(T)
        BY <2>3 DEF Renames
      <3>2. T \ {x} \in SUBSET S /\ f[e[x]] = g[x]
        BY <2>3 DEF Renames
      <3> HIDE DEF Of
      <3>3. h[Of(T)] = f[e[x]] + h[Of(T) \ {e[x]}]
        BY <1>3, <2>1, <3>1 DEF Measures
      <3> QED
        BY <3>1, <3>2, <3>3
    <2> HIDE DEF k
    <2> QED
      BY <2>2, <2>3 DEF Measures
  <1>5. k[S] = h[I]
    BY DEF I
  <1> HIDE DEF k
  <1>6. SumFunctionOnSet(f, I) = h[I] /\ SumFunctionOnSet(g, S) = k[S]
    BY <1>1, <1>3, <1>4, SumIsMeasure
  <1> QED
    BY <1>5, <1>6 DEF I
=============================================================================
