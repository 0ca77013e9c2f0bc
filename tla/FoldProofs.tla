----------------------------- MODULE FoldProofs -----------------------------
(***************************************************************************)
(* What a fold over a list comes to, for any operator Op: the last of the  *)
(* values it goes through, one for each element. A module instantiates it  *)
(* once for every operator it folds.                                       *)
(***************************************************************************)
EXTENDS SequencesExt, Integers, WellFoundedInduction, TLAPS

CONSTANT Op(_, _)

Run(base, s) == FoldLeft(Op, base, s)
RunDomain(base, s) == FoldLeftDomain(Op, base, s)

-----------------------------------------------------------------------------
(* Numbers and sets of numbers *)

\* Every set of naturals that is not empty has a least one: what an induction
\* over the length of a list comes down to.
LEMMA LeastNumber ==
    ASSUME NEW T, T \subseteq Nat, T # {}
    PROVE  \E n \in T : \A m \in T : n <= m
<1>. DEFINE R == {ss \in Nat \X Nat : ss[1] < ss[2]}
<1>1. OpToRel(<, Nat) = R
  BY Zenon DEF OpToRel
<1>2. \E n \in T : \A m \in T : <<m, n>> \notin OpToRel(<, Nat)
  BY WFMin, NatLessThanWellFounded
<1>3. PICK n \in T : \A m \in T : <<m, n>> \notin R
  BY <1>1, <1>2, Zenon
<1>4. \A m \in Nat : m < n => <<m, n>> \in R
  BY n \in Nat
<1>. HIDE DEF R
<1>5. \A m \in T : ~(m < n)
  BY <1>3, <1>4
<1>. QED  BY <1>5

\* What holds of 0, and of every number after one it holds of, holds up to n.
LEMMA Upwards ==
    ASSUME NEW n \in Nat, NEW T, 0 \in T, \A i \in 1..n : i - 1 \in T => i \in T
    PROVE  \A i \in 0..n : i \in T
<1>. DEFINE Bad == {i \in 0..n : i \notin T}
<1>. SUFFICES ASSUME Bad # {} PROVE FALSE
  OBVIOUS
<1>0. Bad \subseteq Nat
  OBVIOUS
<1>1. PICK m \in Bad : \A k \in Bad : m <= k
  BY <1>0, LeastNumber
<1>2. m # 0 /\ m \in 1..n /\ m - 1 \in 0..n /\ ~(m <= m - 1)
  OBVIOUS
<1>3. m - 1 \in T
  BY <1>1, <1>2
<1>. QED  BY <1>2, <1>3

LEMMA MaxIs ==
    ASSUME NEW S, NEW m \in S, S \subseteq Nat, \A k \in S : k <= m
    PROVE  Max(S) = m
<1>1. \A x \in S : (\A y \in S : x >= y) => x = m
  OBVIOUS
<1>2. \E x \in S : \A y \in S : x >= y
  OBVIOUS
<1>. QED  BY <1>1, <1>2 DEF Max

LEMMA MaxIn ==
    ASSUME NEW n \in Nat, NEW S, S \subseteq 1..n, S # {}
    PROVE  Max(S) \in S /\ \A k \in S : k <= Max(S)
<1>. DEFINE T == {m \in Nat : \A k \in S : k <= m}
<1>1. n \in T
  OBVIOUS
<1>2. PICK m \in T : \A k \in T : m <= k
  BY <1>1, LeastNumber
<1>3. m \in S
  <2>. SUFFICES ASSUME m \notin S PROVE FALSE
    OBVIOUS
  <2>1. \A k \in S : k \in Nat /\ k >= 1 /\ k <= m /\ k # m
    OBVIOUS
  <2>2. PICK k \in S : TRUE
    OBVIOUS
  <2>3. m \in Nat /\ m >= 1
    BY <2>1, <2>2
  <2>4. m - 1 \in Nat /\ ~(m <= m - 1)
    BY <2>3
  <2>5. \A j \in S : j <= m - 1
    BY <2>1, <2>3
  <2>. QED  BY <1>2, <2>4, <2>5
<1>4. S \subseteq Nat /\ \A k \in S : k <= m
  OBVIOUS
<1>5. Max(S) = m
  BY <1>3, <1>4, MaxIs
<1>. QED  BY <1>3, <1>4, <1>5

-----------------------------------------------------------------------------
(* The fold *)

\* iter is the function by which the fold goes through the first n elements of s.
Iterates(iter, base, s, n) ==
    iter = [S \in SUBSET (1..n) |->
                IF S = {} THEN base ELSE Op(iter[S \ {Max(S)}], s[Max(S)])]

LEMMA IteratesStep ==
    ASSUME NEW base, NEW s, NEW n \in Nat, NEW g, Iterates(g, base, s, n)
    PROVE  \E f : Iterates(f, base, s, n + 1)
<1>. DEFINE f == [S \in SUBSET (1..(n + 1)) |->
                    IF n + 1 \in S THEN Op(g[S \ {n + 1}], s[n + 1]) ELSE g[S]]
            h == [S \in SUBSET (1..(n + 1)) |->
                    IF S = {} THEN base ELSE Op(f[S \ {Max(S)}], s[Max(S)])]
<1>1. \A S \in SUBSET (1..n) : g[S] = IF S = {} THEN base ELSE Op(g[S \ {Max(S)}], s[Max(S)])
  BY Zenon DEF Iterates
<1>2. \A S \in SUBSET (1..(n + 1)) : n + 1 \notin S => S \in SUBSET (1..n)
  OBVIOUS
<1>3. ASSUME NEW S \in SUBSET (1..(n + 1)), n + 1 \in S
      PROVE  /\ Max(S) = n + 1 /\ S # {} /\ S \ {n + 1} \in SUBSET (1..n)
             /\ S \ {n + 1} \in SUBSET (1..(n + 1)) /\ n + 1 \notin S \ {n + 1}
  <2>1. S \subseteq Nat /\ \A k \in S : k <= n + 1
    OBVIOUS
  <2>2. Max(S) = n + 1
    BY <1>3, <2>1, MaxIs
  <2>. QED  BY <1>3, <2>2
<1>4. ASSUME NEW S \in SUBSET (1..(n + 1)), n + 1 \notin S, S # {}
      PROVE  /\ S \ {Max(S)} \in SUBSET (1..(n + 1)) /\ n + 1 \notin S \ {Max(S)}
             /\ S \in SUBSET (1..n)
  BY <1>2, <1>4
<1>5. ASSUME NEW S \in SUBSET (1..(n + 1))
      PROVE  f[S] = h[S]
  <2>1. f[S] = IF n + 1 \in S THEN Op(g[S \ {n + 1}], s[n + 1]) ELSE g[S]
    BY Zenon
  <2>2. h[S] = IF S = {} THEN base ELSE Op(f[S \ {Max(S)}], s[Max(S)])
    BY Zenon
  <2>3. \A U \in SUBSET (1..(n + 1)) : n + 1 \notin U => f[U] = g[U]
    BY Zenon
  <2>. HIDE DEF f, h
  <2>4. CASE n + 1 \in S
    <3>1. f[S \ {n + 1}] = g[S \ {n + 1}]
      BY <1>3, <2>3, <2>4, Zenon
    <3>. QED  BY <1>3, <2>1, <2>2, <2>4, <3>1, Zenon
  <2>5. CASE n + 1 \notin S /\ S = {}
    BY <1>1, <1>2, <2>1, <2>2, <2>5, Zenon
  <2>6. CASE n + 1 \notin S /\ S # {}
    <3>1. f[S \ {Max(S)}] = g[S \ {Max(S)}]
      BY <1>4, <2>3, <2>6, Zenon
    <3>. QED  BY <1>1, <1>4, <2>1, <2>2, <2>6, <3>1, Zenon
  <2>. QED  BY <2>4, <2>5, <2>6
<1>6. f = h
  BY <1>5, Zenon
<1>7. Iterates(f, base, s, n + 1)
  BY <1>6, Zenon DEF Iterates
<1>. QED  BY <1>7, Zenon

LEMMA IteratesExists ==
    ASSUME NEW base, NEW s, NEW n \in Nat
    PROVE  \E f : Iterates(f, base, s, n)
<1>. DEFINE T == {i \in Nat : \E f : Iterates(f, base, s, i)}
<1>1. 0 \in T
  <2>. DEFINE f == [S \in SUBSET (1..0) |-> base]
              h == [S \in SUBSET (1..0) |-> IF S = {} THEN base ELSE Op(f[S \ {Max(S)}], s[Max(S)])]
  <2>1. \A S \in SUBSET (1..0) : S = {}
    OBVIOUS
  <2>2. f = h
    BY <2>1, Zenon
  <2>3. Iterates(f, base, s, 0)
    BY <2>2, Zenon DEF Iterates
  <2>. QED  BY <2>3
<1>2. ASSUME NEW i \in 1..n, i - 1 \in T
      PROVE  i \in T
  <2>1. i - 1 \in Nat /\ (i - 1) + 1 = i
    OBVIOUS
  <2>2. \E f : Iterates(f, base, s, (i - 1) + 1)
    BY <1>2, <2>1, IteratesStep
  <2>. QED  BY <2>1, <2>2
<1>. HIDE DEF T
<1>3. \A i \in 0..n : i \in T
  BY <1>1, <1>2, Upwards
<1>. QED  BY <1>3 DEF T

\* The values that a fold goes through.
Goes(f, base, s, n) == f[0] = base /\ \A i \in 1..n : f[i] = Op(f[i - 1], s[i])

\* A fold goes through one value for each element and returns the last: so the
\* loops over a chunk's tool calls, a reply's parts, choices and items, and the
\* frames an emitter hands on (openai_stream.go, gemini_stream.go,
\* buffered_stream.go, responses_stream.go) may be followed step by step.
THEOREM RunIs ==
    ASSUME NEW base, NEW s, NEW n \in Nat, DOMAIN s = 1..n
    PROVE  \E f : Goes(f, base, s, n) /\ Run(base, s) = f[n]
<1>. DEFINE it == CHOOSE iter : Iterates(iter, base, s, n)
            f  == [i \in 0..n |-> it[1..i]]
<1>1. Iterates(it, base, s, n)
  BY IteratesExists, Zenon
<1>. HIDE DEF it
<1>2. \A S \in SUBSET (1..n) : it[S] = IF S = {} THEN base ELSE Op(it[S \ {Max(S)}], s[Max(S)])
  BY <1>1, Zenon DEF Iterates
<1>3. f[0] = base
  <2>1. 1..0 = {} /\ 0 \in 0..n /\ 1..0 \in SUBSET (1..n)
    OBVIOUS
  <2>. QED  BY <1>2, <2>1, Zenon
<1>4. ASSUME NEW i \in 1..n
      PROVE  f[i] = Op(f[i - 1], s[i])
  <2>1. i \in 1..i /\ 1..i \subseteq Nat /\ \A k \in 1..i : k <= i
    OBVIOUS
  <2>2. Max(1..i) = i
    BY <2>1, MaxIs
  <2>3. 1..i \in SUBSET (1..n) /\ 1..i # {} /\ i \in 0..n /\ i - 1 \in 0..n
    <3>1. \A k \in 1..i : k \in 1..n
      OBVIOUS
    <3>2. i \in 0..n /\ i - 1 \in 0..n
      OBVIOUS
    <3>. QED  BY <2>1, <3>1, <3>2
  <2>4. (1..i) \ {i} = 1..(i - 1)
    <3>1. \A k \in Int : k \in (1..i) \ {i} <=> k \in 1..(i - 1)
      OBVIOUS
    <3>2. (1..i) \ {i} \subseteq Int /\ 1..(i - 1) \subseteq Int
      OBVIOUS
    <3>. QED  BY <3>1, <3>2
  <2>. QED  BY <1>2, <2>2, <2>3, <2>4, Zenon
<1>5. f[n] = it[1..n]
  BY n \in 0..n, Zenon
<1>6. Run(base, s) = it[1..n]
  BY Zenon DEF Run, FoldLeft, MapThenFoldSet, it, Iterates
<1>. HIDE DEF f
<1>. QED  BY <1>3, <1>4, <1>5, <1>6, Zenon DEF Goes
=============================================================================
