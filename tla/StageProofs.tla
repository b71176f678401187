---------------------------- MODULE StageProofs ----------------------------
(***************************************************************************)
(* Proofs about the stages of a request that run alone, for any values of  *)
(* their constants: the assembly of the prompt and its replay (modules     *)
(* Assembly and Replay), the compressor (Compression), retrieval           *)
(* (Retrieval) and the policy's verdict (Policy).                          *)
(*                                                                         *)
(* The lemmas on orders and sums come first; they are about the operators  *)
(* Ordered and FoldSet, which the modules use for sorted() and sum().      *)
(***************************************************************************)
EXTENDS Replay, Compression, Retrieval, Policy, FiniteSetTheorems, SequenceTheorems, WellFoundedInduction, TLAPS

-----------------------------------------------------------------------------
(* Orders and sums.                                                        *)

(* A set of numbers has a least one.                                       *)
LEMMA Least ==
    ASSUME NEW N \in SUBSET Nat, N # {}
    PROVE  \E m \in N : \A n \in N : m <= n
  <1>1. PICK m \in N : \A n \in N : ~ (<<n, m>> \in OpToRel(<, Nat))
    BY NatLessThanWellFounded, WFMin
  <1>2. \A n \in N : ~ (n < m)
    BY <1>1 DEF OpToRel
  <1> QED
    BY <1>2

(* R puts the members of S in a row.                                       *)
Lines(R, S) ==
    /\ \A x \in S : <<x, x>> \notin R
    /\ \A x, y \in S : x = y \/ <<x, y>> \in R \/ <<y, x>> \in R
    /\ \A x, y, z \in S : <<x, y>> \in R /\ <<y, z>> \in R => <<x, z>> \in R

(* What is ordered is a listing of the set, in that order.                 *)
LEMMA OrderedLists ==
    ASSUME NEW S, IsFiniteSet(S), NEW R, Lines(R, S)
    PROVE  /\ Ordered(S, R) \in Seq(S)
           /\ Len(Ordered(S, R)) = Cardinality(S)
           /\ ToSet(Ordered(S, R)) = S
           /\ \A i, j \in 1 .. Cardinality(S) :
                i < j => <<Ordered(S, R)[i], Ordered(S, R)[j]>> \in R
  <1> DEFINE before(x) == {y \in S : <<y, x>> \in R}
             n == Cardinality(S)
             at == [x \in S |-> Cardinality(before(x)) + 1]
             o == Ordered(S, R)
  <1>1. n \in Nat /\ IsFiniteSet(1 .. n) /\ Cardinality(1 .. n) = n
    BY FS_CardinalityType, FS_Interval
  <1>2. ASSUME NEW x \in S
        PROVE  /\ IsFiniteSet(before(x)) /\ Cardinality(before(x)) \in Nat
               /\ Cardinality(before(x)) < n
    <2>1. IsFiniteSet(S \ {x}) /\ Cardinality(S \ {x}) = n - 1
      BY FS_RemoveElement
    <2>2. before(x) \in SUBSET (S \ {x})
      BY DEF Lines
    <2> HIDE DEF before
    <2>3. IsFiniteSet(before(x)) /\ Cardinality(before(x)) <= Cardinality(S \ {x})
      BY <2>1, <2>2, FS_Subset
    <2>4. Cardinality(before(x)) \in Nat
      BY <2>3, FS_CardinalityType
    <2> QED
      BY <1>1, <2>1, <2>3, <2>4
  <1>3. ASSUME NEW x \in S, NEW y \in S, <<x, y>> \in R
        PROVE  at[x] < at[y]
    <2>1. IsFiniteSet(before(x) \cup {x}) /\ Cardinality(before(x) \cup {x}) = Cardinality(before(x)) + 1
      <3>1. x \notin before(x)
        BY DEF Lines
      <3> QED
        BY <1>2, <3>1, FS_AddElement
    <2>2. before(x) \cup {x} \in SUBSET before(y)
      BY <1>3 DEF Lines
    <2>3. Cardinality(before(x) \cup {x}) <= Cardinality(before(y))
      BY <1>2, <2>2, FS_Subset
    <2> HIDE DEF before
    <2> QED
      BY <1>2, <2>1, <2>3
  <1>4. at \in [S -> 1 .. n]
    <2>1. \A x \in S : Cardinality(before(x)) + 1 \in 1 .. n
      <3> HIDE DEF before, n
      <3> QED
        BY <1>1, <1>2
    <2> QED
      BY <2>1
  <1>5. at \in Injection(S, 1 .. n)
    <2>1. ASSUME NEW x \in S, NEW y \in S, x # y PROVE at[x] # at[y]
      <3>1. at[x] < at[y] \/ at[y] < at[x]
        BY <1>3, <2>1 DEF Lines
      <3> QED
        BY <3>1, <1>4
    <2> QED
      BY <1>4, <2>1 DEF Injection, IsInjective
  <1>6. at \in Surjection(S, 1 .. n)
    BY <1>1, <1>5, FS_Injection
  <1>7. ASSUME NEW i \in 1 .. n PROVE o[i] \in S /\ at[o[i]] = i
    <2>1. PICK x \in S : at[x] = i
      BY <1>6 DEF Surjection
    <2>2. Cardinality(before(x)) = i - 1
      <3>1. at[x] = Cardinality(before(x)) + 1
        OBVIOUS
      <3> HIDE DEF before, at, n
      <3> QED
        BY <1>1, <1>2, <2>1, <3>1
    <2>3. o[i] = CHOOSE y \in S : Cardinality(before(y)) = i - 1
      BY DEF Ordered
    <2>4. o[i] \in S /\ Cardinality(before(o[i])) = i - 1
      <3> HIDE DEF before, o
      <3> QED
        BY <2>2, <2>3
    <2>5. at[o[i]] = Cardinality(before(o[i])) + 1
      BY <2>4
    <2> HIDE DEF before, at, n, o
    <2> QED
      BY <1>1, <2>4, <2>5
  <1>8. o \in Seq(S) /\ Len(o) = n /\ DOMAIN o = 1 .. n
    <2> DEFINE c(i) == CHOOSE x \in S : Cardinality(before(x)) = i - 1
    <2>1. o = [i \in 1 .. n |-> c(i)]
      BY DEF Ordered
    <2> HIDE DEF c, o, n, at
    <2>2. o \in [1 .. n -> S]
      BY <1>7, <2>1
    <2> QED
      BY <1>1, <2>2
  <1>9. ASSUME NEW x \in S PROVE \E i \in 1 .. n : o[i] = x
    <2>1. at[x] \in 1 .. n
      BY <1>4
    <2>2. o[at[x]] \in S /\ at[o[at[x]]] = at[x]
      BY <1>7, <2>1
    <2>3. \A a, b \in S : at[a] = at[b] => a = b
      BY <1>5 DEF Injection, IsInjective
    <2> QED
      BY <2>1, <2>2, <2>3
  <1>10. ToSet(o) = S
    BY <1>7, <1>8, <1>9 DEF ToSet
  <1>11. ASSUME NEW i \in 1 .. n, NEW j \in 1 .. n, i < j
         PROVE  <<o[i], o[j]>> \in R
    <2>1. o[i] \in S /\ o[j] \in S /\ at[o[i]] = i /\ at[o[j]] = j
      BY <1>7
    <2> HIDE DEF o, at, n
    <2>2. i \in Nat /\ j \in Nat /\ ~ (j < i) /\ i # j
      BY <1>1, <1>11
    <2>3. ~ (<<o[j], o[i]>> \in R) /\ o[i] # o[j]
      BY <1>3, <2>1, <2>2
    <2> QED
      BY <2>1, <2>3 DEF Lines
  <1> QED
    BY <1>8, <1>10, <1>11

(* Of some finite sets, one has no smaller one among them.                 *)
LEMMA Smallest ==
    ASSUME NEW F, F # {}, \A s \in F : IsFiniteSet(s)
    PROVE  \E s \in F : \A t \in F : Cardinality(s) <= Cardinality(t)
  <1> DEFINE N == {Cardinality(s) : s \in F}
  <1>1. N \in SUBSET Nat /\ N # {}
    BY FS_CardinalityType
  <1>2. PICK m \in N : \A n \in N : m <= n
    <2> HIDE DEF N
    <2> QED
      BY <1>1, Least
  <1> QED
    BY <1>2

(* A fold that adds w over the subsets of S, as FoldSet computes it.       *)
IsTotal(g, w, S) ==
    g = [s \in SUBSET S |-> IF s = {} THEN 0
                            ELSE g[s \ {CHOOSE x \in s : TRUE}] + w[CHOOSE x \in s : TRUE]]

LEMMA TotalUnfolds ==
    ASSUME NEW S, NEW w, NEW g, IsTotal(g, w, S), NEW s \in SUBSET S
    PROVE  /\ s = {} => g[s] = 0
           /\ s # {} => \E x \in s : /\ x = CHOOSE y \in s : TRUE
                                     /\ g[s] = g[s \ {x}] + w[x]
  <1>1. g[s] = IF s = {} THEN 0
               ELSE g[s \ {CHOOSE x \in s : TRUE}] + w[CHOOSE x \in s : TRUE]
    BY Zenon DEF IsTotal
  <1>2. s # {} => (CHOOSE x \in s : TRUE) \in s
    OBVIOUS
  <1> QED
    BY <1>1, <1>2

LEMMA TotalExists ==
    ASSUME NEW S, IsFiniteSet(S), NEW w
    PROVE  \E g : IsTotal(g, w, S)
  <1> DEFINE pick(s) == CHOOSE x \in s : TRUE
             lev(k) == {s \in SUBSET S : Cardinality(s) <= k}
             grow(g, s) == IF s = {} THEN 0 ELSE g[s \ {pick(s)}] + w[pick(s)]
             up(g, k) == g = [s \in lev(k) |-> grow(g, s)]
             Bad == {k \in Nat : ~ \E g : up(g, k)}
  <1>1. ASSUME NEW s \in SUBSET S
        PROVE  /\ IsFiniteSet(s) /\ Cardinality(s) \in Nat
               /\ Cardinality(s) = 0 <=> s = {}
               /\ s # {} => /\ s \ {pick(s)} \in SUBSET S
                            /\ Cardinality(s \ {pick(s)}) = Cardinality(s) - 1
    <2>1. IsFiniteSet(s)
      BY FS_Subset
    <2>2. s # {} => pick(s) \in s
      OBVIOUS
    <2> HIDE DEF pick
    <2> QED
      BY <2>1, <2>2, FS_CardinalityType, FS_EmptySet, FS_RemoveElement
  <1> HIDE DEF pick
  <1>2. Bad = {}
    <2> SUFFICES ASSUME Bad # {} PROVE FALSE
      OBVIOUS
    <2>1. PICK m \in Bad : \A n \in Bad : m <= n
      <3> Bad \in SUBSET Nat
        OBVIOUS
      <3> HIDE DEF Bad
      <3> QED
        BY Least
    <2>2. m \in Nat /\ ~ \E g : up(g, m)
      OBVIOUS
    <2>3. CASE m = 0
      <3> DEFINE g == [s \in lev(m) |-> 0]
      <3>1. ASSUME NEW s \in lev(m) PROVE s = {}
        <4>1. s \in SUBSET S /\ Cardinality(s) <= 0
          BY <2>3
        <4>2. Cardinality(s) \in Nat /\ (Cardinality(s) = 0 <=> s = {})
          BY <1>1, <4>1
        <4> HIDE DEF lev
        <4> QED
          BY <4>1, <4>2
      <3>2. up(g, m)
        BY <3>1
      <3> QED
        BY <2>2, <3>2
    <2>4. CASE m # 0
      <3>1. m - 1 \in Nat /\ m - 1 \notin Bad
        <4> HIDE DEF Bad, up
        <4> QED
          BY <2>1, <2>2, <2>4
      <3>2. PICK g : up(g, m - 1)
        BY <3>1
      <3> DEFINE h == [s \in lev(m) |-> grow(g, s)]
      <3>3. ASSUME NEW s \in lev(m), s # {}
            PROVE  s \ {pick(s)} \in lev(m - 1) /\ s \ {pick(s)} \in lev(m)
        <4> s \in SUBSET S /\ Cardinality(s) <= m
          OBVIOUS
        <4>1. s \ {pick(s)} \in SUBSET S /\ Cardinality(s \ {pick(s)}) = Cardinality(s) - 1
              /\ Cardinality(s) \in Nat
          BY <1>1, <3>3
        <4> QED
          BY <2>2, <4>1
      <3>4. \A t \in lev(m - 1) : g[t] = grow(g, t)
        BY <3>2, Zenon
      <3>5. \A t \in lev(m) : h[t] = grow(g, t)
        BY Zenon
      <3>6. ASSUME NEW s \in lev(m) PROVE grow(h, s) = grow(g, s)
        <4>1. CASE s = {}
          BY <4>1
        <4>2. CASE s # {}
          <5>1. h[s \ {pick(s)}] = g[s \ {pick(s)}]
            <6> HIDE DEF grow, h, lev
            <6> QED
              BY <3>3, <3>4, <3>5, <4>2
          <5> HIDE DEF h
          <5> QED
            BY <4>2, <5>1
        <4> QED
          BY <4>1, <4>2
      <3>7. h = [s \in lev(m) |-> grow(h, s)]
        <4>1. h = [s \in lev(m) |-> grow(g, s)]
          OBVIOUS
        <4> HIDE DEF h, grow, lev
        <4> QED
          BY <3>6, <4>1
      <3> QED
        <4> HIDE DEF h
        <4> QED
          BY <2>2, <3>7
    <2> QED
      BY <2>3, <2>4
  <1>3. Cardinality(S) \in Nat
    BY FS_CardinalityType
  <1>4. PICK g : up(g, Cardinality(S))
    BY <1>2, <1>3
  <1>5. lev(Cardinality(S)) = SUBSET S
    BY FS_Subset
  <1>6. g = [s \in SUBSET S |-> grow(g, s)]
    <2> HIDE DEF lev, grow
    <2> QED
      BY <1>4, <1>5
  <1> QED
    BY <1>6 DEF IsTotal, pick

(* Such a fold does not depend on which members it picks first: whatever   *)
(* member of a set is taken away, its weight goes with it.                 *)
LEMMA TotalRemoves ==
    ASSUME NEW S, IsFiniteSet(S), NEW w, \A x \in S : w[x] \in Nat,
           NEW g, IsTotal(g, w, S)
    PROVE  \A s \in SUBSET S : g[s] \in Nat /\ \A b \in s : g[s] = g[s \ {b}] + w[b]
  <1> DEFINE Good(s) == g[s] \in Nat /\ \A b \in s : g[s] = g[s \ {b}] + w[b]
             Bad == {s \in SUBSET S : ~Good(s)}
  <1>1. \A s \in SUBSET S : IsFiniteSet(s) /\ Cardinality(s) \in Nat
    BY FS_Subset, FS_CardinalityType
  <1>2. Bad = {}
    <2> SUFFICES ASSUME Bad # {} PROVE FALSE
      OBVIOUS
    <2>1. PICK s \in Bad : \A t \in Bad : Cardinality(s) <= Cardinality(t)
      <3>1. \A t \in Bad : IsFiniteSet(t)
        BY <1>1
      <3> HIDE DEF Bad
      <3> QED
        BY <3>1, Smallest
    <2>2. s \in SUBSET S /\ ~Good(s)
      OBVIOUS
    <2>3. ASSUME NEW t \in SUBSET S, Cardinality(t) < Cardinality(s) PROVE Good(t)
      <3>1. t \notin Bad
        <4> HIDE DEF Bad
        <4> QED
          BY <1>1, <2>1, <2>2, <2>3
      <3> QED
        BY <3>1
    <2>4. ASSUME NEW x \in s
          PROVE  /\ s \ {x} \in SUBSET S /\ Cardinality(s \ {x}) < Cardinality(s)
                 /\ w[x] \in Nat
      <3>1. Cardinality(s \ {x}) = Cardinality(s) - 1
        BY <1>1, <2>2, FS_RemoveElement
      <3> QED
        BY <1>1, <2>2, <3>1
    <2>5. s # {}
      BY <2>2, TotalUnfolds
    <2>6. PICK x \in s : g[s] = g[s \ {x}] + w[x]
      BY <2>2, <2>5, TotalUnfolds
    <2>7. Good(s \ {x}) /\ g[s] \in Nat
      BY <2>3, <2>4, <2>6
    <2>8. ASSUME NEW b \in s PROVE g[s] = g[s \ {b}] + w[b]
      <3>1. CASE b = x
        BY <2>6, <3>1
      <3>2. CASE b # x
        <4>1. Good(s \ {b})
          BY <2>3, <2>4
        <4>2. g[s \ {x}] = g[(s \ {x}) \ {b}] + w[b]
          BY <2>7, <3>2
        <4>3. g[s \ {b}] = g[(s \ {b}) \ {x}] + w[x]
          BY <4>1, <3>2
        <4>4. (s \ {x}) \ {b} = (s \ {b}) \ {x} /\ (s \ {x}) \ {b} \in SUBSET S
          BY <2>2
        <4>5. g[(s \ {x}) \ {b}] \in Nat
          <5>1. Cardinality((s \ {x}) \ {b}) < Cardinality(s)
            <6>1. IsFiniteSet(s \ {x}) /\ b \in s \ {x}
              BY <1>1, <2>4, <3>2
            <6>2. Cardinality((s \ {x}) \ {b}) = Cardinality(s \ {x}) - 1
              BY <6>1, FS_RemoveElement
            <6> QED
              BY <1>1, <2>2, <2>4, <6>2
          <5> QED
            BY <2>3, <4>4, <5>1
        <4>6. w[x] \in Nat /\ w[b] \in Nat
          BY <2>4
        <4> QED
          BY <2>6, <4>2, <4>3, <4>4, <4>5, <4>6
      <3> QED
        BY <3>1, <3>2
    <2> QED
      BY <2>2, <2>7, <2>8
  <1> QED
    BY <1>2

(* Nor on the larger set it is a fold over.                                *)
LEMMA TotalAgrees ==
    ASSUME NEW S, IsFiniteSet(S), NEW T, IsFiniteSet(T), NEW w,
           NEW g, IsTotal(g, w, S), NEW h, IsTotal(h, w, T)
    PROVE  \A s \in SUBSET (S \cap T) : g[s] = h[s]
  <1> DEFINE Bad == {s \in SUBSET (S \cap T) : g[s] # h[s]}
  <1>1. \A s \in SUBSET (S \cap T) : IsFiniteSet(s) /\ Cardinality(s) \in Nat
    BY FS_Subset, FS_CardinalityType
  <1>2. Bad = {}
    <2> SUFFICES ASSUME Bad # {} PROVE FALSE
      OBVIOUS
    <2>1. PICK s \in Bad : \A t \in Bad : Cardinality(s) <= Cardinality(t)
      <3>1. \A t \in Bad : IsFiniteSet(t)
        BY <1>1
      <3> HIDE DEF Bad
      <3> QED
        BY <3>1, Smallest
    <2>2. s \in SUBSET S /\ s \in SUBSET T /\ s \in SUBSET (S \cap T) /\ g[s] # h[s]
      OBVIOUS
    <2>3. s # {}
      BY <2>2, TotalUnfolds
    <2>4. PICK x \in s : x = (CHOOSE y \in s : TRUE) /\ g[s] = g[s \ {x}] + w[x]
      BY <2>2, <2>3, TotalUnfolds
    <2>5. h[s] = h[s \ {x}] + w[x]
      <3>1. \E z \in s : z = (CHOOSE y \in s : TRUE) /\ h[s] = h[s \ {z}] + w[z]
        BY <2>2, <2>3, TotalUnfolds
      <3> QED
        BY <2>4, <3>1
    <2>6. Cardinality(s \ {x}) = Cardinality(s) - 1
      BY <1>1, <2>2, FS_RemoveElement
    <2>7. g[s \ {x}] = h[s \ {x}]
      <3>1. s \ {x} \notin Bad
        <4> HIDE DEF Bad
        <4> QED
          BY <1>1, <2>1, <2>2, <2>6
      <3> QED
        BY <2>2, <3>1
    <2> QED
      BY <2>2, <2>4, <2>5, <2>7
  <1> QED
    BY <1>2

(* n is the total weight of S.                                             *)
Totals(n, w, S) == \E g : IsTotal(g, w, S) /\ n = g[S]

LEMMA TotalsAdd ==
    ASSUME NEW S, IsFiniteSet(S), NEW w, \A x \in S : w[x] \in Nat,
           NEW n, Totals(n, w, S)
    PROVE  /\ n \in Nat
           /\ S = {} => n = 0
           /\ \A b \in S : \A m : Totals(m, w, S \ {b}) => n = m + w[b]
  <1>1. PICK g : IsTotal(g, w, S) /\ n = g[S]
    BY DEF Totals
  <1>2. n \in Nat /\ \A b \in S : n = g[S \ {b}] + w[b]
    <2>1. S \in SUBSET S
      OBVIOUS
    <2>2. \A s \in SUBSET S : g[s] \in Nat /\ \A b \in s : g[s] = g[s \ {b}] + w[b]
      BY <1>1, TotalRemoves
    <2> QED
      BY <1>1, <2>1, <2>2
  <1>3. S = {} => n = 0
    BY <1>1, TotalUnfolds
  <1>4. ASSUME NEW b \in S, NEW m, Totals(m, w, S \ {b}) PROVE n = m + w[b]
    <2>1. PICK h : IsTotal(h, w, S \ {b}) /\ m = h[S \ {b}]
      BY <1>4 DEF Totals
    <2>2. IsFiniteSet(S \ {b})
      BY FS_RemoveElement
    <2>3. S \ {b} \in SUBSET (S \cap (S \ {b}))
      OBVIOUS
    <2>4. g[S \ {b}] = h[S \ {b}]
      BY <1>1, <2>1, <2>2, <2>3, TotalAgrees
    <2> QED
      BY <1>2, <2>1, <2>4
  <1> QED
    BY <1>2, <1>3, <1>4

(* The tokens of S by w, which TokensOf counts by the candidates' sizes.   *)
Tokens(w, S) == FoldSet(LAMBDA b, n : n + w[b], 0, S)

LEMMA TokensAreTotal ==
    ASSUME NEW S, IsFiniteSet(S), NEW w
    PROVE  Totals(Tokens(w, S), w, S)
  <1> DEFINE g == CHOOSE g : IsTotal(g, w, S)
  <1>1. IsTotal(g, w, S)
    BY TotalExists
  <1>2. Tokens(w, S) = g[S]
    BY Zenon DEF Tokens, FoldSet, MapThenFoldSet, IsTotal
  <1> HIDE DEF g
  <1> QED
    BY <1>1, <1>2 DEF Totals

LEMMA TokensAdd ==
    ASSUME NEW S, IsFiniteSet(S), NEW w, NEW b, b \notin S,
           \A x \in S \cup {b} : w[x] \in Nat
    PROVE  /\ Tokens(w, S) \in Nat
           /\ Tokens(w, S \cup {b}) = Tokens(w, S) + w[b]
  <1> DEFINE U == S \cup {b}
  <1>1. IsFiniteSet(U) /\ U \ {b} = S /\ b \in U /\ \A x \in U : w[x] \in Nat
    BY FS_AddElement
  <1> HIDE DEF U
  <1>2. Totals(Tokens(w, U), w, U) /\ Totals(Tokens(w, S), w, S)
    BY <1>1, TokensAreTotal
  <1>3. \A c \in U : \A m : Totals(m, w, U \ {c}) => Tokens(w, U) = m + w[c]
    BY <1>1, <1>2, TotalsAdd
  <1>4. Tokens(w, U) = Tokens(w, S) + w[b]
    BY <1>1, <1>2, <1>3
  <1>5. Tokens(w, S) \in Nat
    BY <1>2, TotalsAdd
  <1> QED
    BY <1>4, <1>5 DEF U

LEMMA NoTokens == ASSUME NEW w PROVE Tokens(w, {}) = 0
  <1>1. IsFiniteSet({}) /\ Totals(Tokens(w, {}), w, {})
    BY FS_EmptySet, TokensAreTotal
  <1> QED
    BY <1>1, TotalsAdd

-----------------------------------------------------------------------------
(* The candidates and their orders.                                        *)

Distinct(s) == \A i, j \in 1 .. Len(s) : s[i] = s[j] => i = j

(* What assemble is given.                                                 *)
Given ==
    /\ cands \in Seq(Blocks) /\ Distinct(cands)
    /\ score \in [ToSet(cands) -> Scores] /\ size \in [ToSet(cands) -> Sizes]
    /\ budget \in Budgets

LEMMA GivenTypes ==
    ASSUME Given
    PROVE  /\ Len(cands) \in Nat /\ DOMAIN cands = 1 .. Len(cands)
           /\ \A b \in ToSet(cands) : b \in Blocks /\ score[b] \in 0 .. 100 /\ size[b] \in Nat
           /\ {budget.window, budget.output, budget.system, budget.user} \subseteq Nat
           /\ HardFloor \in Nat /\ SoftBudget \in Nat
           /\ HardFloor <= budget.window => SoftBudget = budget.window - HardFloor
  <1>1. Len(cands) \in Nat /\ DOMAIN cands = 1 .. Len(cands)
    BY DEF Given
  <1>2. \A b \in ToSet(cands) : b \in Blocks
    BY <1>1 DEF Given, ToSet
  <1>3. \A b \in ToSet(cands) : score[b] \in Scores /\ size[b] \in Sizes
    BY DEF Given
  <1>4. {budget.window, budget.output, budget.system, budget.user} \subseteq Nat
    BY LimitsAssumption DEF Given
  <1>5. \A b \in ToSet(cands) : score[b] \in 0 .. 100 /\ size[b] \in Nat
    BY <1>3, BlocksAssumption
  <1>6. HardFloor \in Nat /\ SoftBudget \in Nat
        /\ (HardFloor <= budget.window => SoftBudget = budget.window - HardFloor)
    BY <1>4 DEF HardFloor, SoftBudget
  <1> QED
    BY <1>1, <1>2, <1>4, <1>5, <1>6

(* A listing without repetitions has as many places as members.            *)
LEMMA ListSize ==
    ASSUME NEW T, NEW s \in Seq(T), Distinct(s)
    PROVE  IsFiniteSet(ToSet(s)) /\ Cardinality(ToSet(s)) = Len(s)
  <1>1. Len(s) \in Nat /\ DOMAIN s = 1 .. Len(s)
    OBVIOUS
  <1>2. s \in [1 .. Len(s) -> ToSet(s)]
    BY <1>1 DEF ToSet
  <1>3. s \in Bijection(1 .. Len(s), ToSet(s))
    BY <1>1, <1>2 DEF Bijection, Injection, Surjection, IsInjective, Distinct, ToSet
  <1>4. ExistsBijection(1 .. Len(s), ToSet(s))
    BY <1>3 DEF ExistsBijection
  <1>5. IsFiniteSet(1 .. Len(s)) /\ Cardinality(1 .. Len(s)) = Len(s)
    BY <1>1, FS_Interval
  <1> QED
    BY <1>4, <1>5, FS_Bijection

LEMMA AtFacts ==
    ASSUME Given
    PROVE  \A b \in ToSet(cands) : At(b) \in 1 .. Len(cands) /\ cands[At(b)] = b
  <1>1. \A b \in ToSet(cands) : \E i \in 1 .. Len(cands) : cands[i] = b
    BY GivenTypes DEF ToSet
  <1> QED
    BY <1>1 DEF At

LEMMA CandidatesLineUp ==
    ASSUME Given
    PROVE  /\ IsFiniteSet(ToSet(cands)) /\ Cardinality(ToSet(cands)) = Len(cands)
           /\ \A S \in SUBSET ToSet(cands) :
                Lines(Earlier, S) /\ Lines(Better, S) /\ Lines(Weaker, S)
  <1>1. IsFiniteSet(ToSet(cands)) /\ Cardinality(ToSet(cands)) = Len(cands)
    BY ListSize DEF Given
  <1>2. ASSUME NEW S \in SUBSET ToSet(cands) PROVE Lines(Earlier, S)
    <2> DEFINE n(b) == At(b)
    <2>1. \A b \in ToSet(cands) : n(b) \in Nat
      BY AtFacts, GivenTypes
    <2>2. \A a, b \in ToSet(cands) : n(a) = n(b) => a = b
      BY AtFacts
    <2>3. \A a, b \in ToSet(cands) : <<a, b>> \in Earlier <=> n(a) < n(b)
      BY DEF Earlier, Pairs
    <2> HIDE DEF n
    <2> QED
      BY <2>1, <2>2, <2>3 DEF Lines
  <1>3. ASSUME NEW S \in SUBSET ToSet(cands) PROVE Lines(Better, S)
    <2> DEFINE n(b) == At(b)
               v(b) == score[b]
    <2>1. \A b \in ToSet(cands) : n(b) \in Nat /\ v(b) \in Nat
      <3>1. \A b \in ToSet(cands) : n(b) \in Nat
        BY AtFacts, GivenTypes
      <3>2. \A b \in ToSet(cands) : score[b] \in 0 .. 100
        BY GivenTypes
      <3> HIDE DEF n
      <3> QED
        BY <3>1, <3>2
    <2>2. \A a, b \in ToSet(cands) : n(a) = n(b) => a = b
      BY AtFacts
    <2>3. \A a, b \in ToSet(cands) :
            <<a, b>> \in Better <=> v(a) > v(b) \/ (v(a) = v(b) /\ n(a) < n(b))
      BY DEF Better, Pairs
    <2> HIDE DEF n, v
    <2> QED
      BY <2>1, <2>2, <2>3 DEF Lines
  <1>4. ASSUME NEW S \in SUBSET ToSet(cands) PROVE Lines(Weaker, S)
    <2> DEFINE n(b) == IdOrder[b]
               v(b) == score[b]
    <2>1. \A b \in ToSet(cands) : n(b) \in Nat /\ v(b) \in Nat
      <3>1. \A b \in ToSet(cands) : score[b] \in 0 .. 100 /\ IdOrder[b] \in Nat
        BY GivenTypes, BlocksAssumption
      <3> QED
        BY <3>1
    <2>2. \A a, b \in ToSet(cands) : n(a) = n(b) => a = b
      BY GivenTypes, BlocksAssumption
    <2>3. \A a, b \in ToSet(cands) :
            <<a, b>> \in Weaker <=> v(a) < v(b) \/ (v(a) = v(b) /\ n(a) < n(b))
      BY DEF Weaker, Pairs
    <2> HIDE DEF n, v
    <2> QED
      BY <2>1, <2>2, <2>3 DEF Lines
  <1> QED
    BY <1>1, <1>2, <1>3, <1>4

(* The candidates that MMR starts with.                                    *)
Top == SubSeq(Ranked, 1, IF Len(cands) < TopK THEN Len(cands) ELSE TopK)

(* s is in the order in which candidates are ranked.                       *)
InRank(s) == \A i, j \in 1 .. Len(s) : i < j => <<s[i], s[j]>> \in Better

LEMMA TopFacts ==
    ASSUME Given
    PROVE  /\ Top \in Seq(ToSet(cands)) /\ InRank(Top)
           /\ Len(Top) = 0 <=> cands = <<>>
           /\ Len(Top) > 0 => \A b \in ToSet(cands) : b = Top[1] \/ <<Top[1], b>> \in Better
  <1> DEFINE n == IF Len(cands) < TopK THEN Len(cands) ELSE TopK
  <1>1. /\ Ranked \in Seq(ToSet(cands)) /\ Len(Ranked) = Len(cands) /\ ToSet(Ranked) = ToSet(cands)
        /\ \A i, j \in 1 .. Len(cands) : i < j => <<Ranked[i], Ranked[j]>> \in Better
    BY CandidatesLineUp, OrderedLists DEF Ranked
  <1>2. Len(cands) \in Nat /\ TopK \in Nat \ {0} /\ n \in 0 .. Len(cands)
    BY GivenTypes, LimitsAssumption
  <1>3. /\ Top \in Seq(ToSet(cands)) /\ Len(Top) = n
        /\ \A i \in 1 .. n : Top[i] = Ranked[i]
    BY <1>1, <1>2 DEF Top
  <1>4. InRank(Top)
    BY <1>1, <1>2, <1>3 DEF InRank
  <1>5. Len(Top) = 0 <=> cands = <<>>
    BY <1>2, <1>3 DEF Given
  <1>6. ASSUME Len(Top) > 0, NEW b \in ToSet(cands)
        PROVE  b = Top[1] \/ <<Top[1], b>> \in Better
    <2>1. Top[1] = Ranked[1]
      BY <1>2, <1>3, <1>6
    <2>2. PICK i \in 1 .. Len(cands) : Ranked[i] = b
      <3>1. b \in ToSet(Ranked) /\ DOMAIN Ranked = 1 .. Len(cands)
        BY <1>1
      <3> QED
        BY <3>1, Zenon DEF ToSet
    <2>3. i = 1 \/ 1 < i
      OBVIOUS
    <2>4. 1 \in 1 .. Len(cands)
      BY <1>2, <2>2
    <2> QED
      BY <1>1, <2>1, <2>2, <2>3, <2>4
  <1> QED
    BY <1>3, <1>4, <1>5, <1>6

-----------------------------------------------------------------------------
(* The invariant of the assembly.                                          *)

(* The blocks kept by the first n verdicts of d.                           *)
KeptOf(d, n) == {d[i].block : i \in {j \in 1 .. n : d[j].kept}}

(* x is the largest similarity of b to the first n of s, and at least 0.   *)
Nearness(b, s, n) == {0} \cup {Similarity[b, s[i]] : i \in 1 .. n}
Nearest(x, b, s, n) == x \in Nearness(b, s, n) /\ \A y \in Nearness(b, s, n) : y <= x

Worth(b, x) == Lambda * score[b] - (100 - Lambda) * x

(* The nth of s is what a round of MMR chooses after those before it.      *)
Picks(s, n) ==
    \A b \in ToSet(Top), x, y \in 0 .. 100 :
        /\ \A m \in 1 .. n : s[m] # b
        /\ Nearest(x, s[n], s, n - 1) /\ Nearest(y, b, s, n - 1)
        => \/ Worth(s[n], x) > Worth(b, y)
           \/ Worth(s[n], x) = Worth(b, y) /\ <<s[n], b>> \in Better

(* d are the verdicts on the blocks of s, and then on others.              *)
Judged(s, d) ==
    \A i \in 1 .. Len(d) :
        IF i <= Len(s)
          THEN /\ d[i].block = s[i]
               /\ d[i].kept <=> Tokens(size, KeptOf(d, i - 1)) + size[s[i]] <= SoftBudget
          ELSE ~ d[i].kept

Edges(up) ==
    [i \in 1 .. Len(up) |->
        IF i <= Len(up) \div 2 THEN up[2 * (Len(up) \div 2 + 1 - i)]
        ELSE up[2 * (i - Len(up) \div 2) - 1]]

Stages ==
    /\ pc \in {"check", "overflow"} => pool = <<>> /\ selected = <<>>
    /\ pc \in {"check", "overflow", "mmr", "failed"} => decisions = <<>> /\ used = 0
    /\ pc # "done" => placed = <<>>
    /\ pc \in {"pack", "done"} => pool = <<>>
    /\ pc = "check" => maxSim = [b \in Blocks |-> 0]
    /\ pc \notin {"check", "overflow"} => HardFloor <= budget.window

Selection ==
    /\ InRank(pool) /\ Distinct(selected)
    /\ pc \notin {"check", "overflow"} => ToSet(pool) \cup ToSet(selected) = ToSet(Top)
    /\ ToSet(pool) \cap ToSet(selected) = {}
    /\ \A b \in ToSet(pool) : Nearest(maxSim[b], b, selected, Len(selected))
    /\ \A n \in 1 .. Len(selected) : Picks(selected, n)

Packing ==
    /\ Judged(selected, decisions)
    /\ pc = "pack" => Len(decisions) <= Len(selected)
    /\ used = Tokens(size, KeptOf(decisions, Len(decisions))) /\ used <= SoftBudget
    /\ \A i \in 1 .. Len(decisions) :
         i <= Len(selected) /\ ~ decisions[i].kept => used + size[selected[i]] > SoftBudget

Below == Ordered(ToSet(cands) \ ToSet(selected), Earlier)

Ending ==
    pc = "done" =>
        /\ placed = Edges(Ordered(KeptOf(decisions, Len(decisions)), Weaker))
        /\ Len(decisions) = Len(selected) + Len(Below)
        /\ \A i \in 1 .. Len(Below) : decisions[Len(selected) + i].block = Below[i]

AssemblyInv == TypeOK /\ Given /\ Stages /\ Selection /\ Packing /\ Ending

(* What depends on the inputs only stays while they do.                    *)
LEMMA SameInputs ==
    ASSUME UNCHANGED inputs
    PROVE  /\ cands' = cands /\ score' = score /\ size' = size /\ budget' = budget
           /\ Earlier' = Earlier /\ Better' = Better /\ Weaker' = Weaker
           /\ Top' = Top /\ HardFloor' = HardFloor /\ SoftBudget' = SoftBudget
           /\ Given' <=> Given
  <1>1. cands' = cands /\ score' = score /\ size' = size /\ budget' = budget
    BY DEF inputs
  <1>2. Earlier' = Earlier /\ Better' = Better /\ Weaker' = Weaker
    BY <1>1 DEF Earlier, Better, Weaker, Pairs, At
  <1>3. Top' = Top
    BY <1>1, <1>2 DEF Top, Ranked
  <1>4. HardFloor' = HardFloor /\ SoftBudget' = SoftBudget
    BY <1>1 DEF HardFloor, SoftBudget
  <1>5. Given' <=> Given
    BY <1>1 DEF Given
  <1> QED
    BY <1>1, <1>2, <1>3, <1>4, <1>5

LEMMA RemoveAtFacts ==
    ASSUME NEW T, NEW s \in Seq(T), NEW i \in 1 .. Len(s)
    PROVE  /\ RemoveAt(s, i) \in Seq(T) /\ Len(RemoveAt(s, i)) = Len(s) - 1
           /\ \A j \in 1 .. Len(s) - 1 : RemoveAt(s, i)[j] = IF j < i THEN s[j] ELSE s[j + 1]
           /\ Distinct(s) => ToSet(RemoveAt(s, i)) = ToSet(s) \ {s[i]}
  <1> DEFINE r == RemoveAt(s, i)
             p == SubSeq(s, 1, i - 1)
             q == SubSeq(s, i + 1, Len(s))
  <1>1. Len(s) \in Nat /\ DOMAIN s = 1 .. Len(s) /\ i \in Int /\ 1 <= i /\ i <= Len(s)
    OBVIOUS
  <1>2. p \in Seq(T) /\ Len(p) = i - 1 /\ \A j \in 1 .. i - 1 : p[j] = s[j]
    <2>1. \A j \in 1 .. i - 1 : s[j] \in T
      BY <1>1
    <2>2. /\ p \in Seq(T) /\ Len(p) = IF 1 <= i - 1 THEN (i - 1) - 1 + 1 ELSE 0
          /\ \A j \in 1 .. (i - 1) - 1 + 1 : p[j] = s[1 + j - 1]
      <3> HIDE DEF p
      <3> QED
        BY <1>1, <2>1, SubSeqProperties DEF p
    <2> HIDE DEF p
    <2> QED
      BY <1>1, <2>2
  <1>3. q \in Seq(T) /\ Len(q) = Len(s) - i /\ \A j \in 1 .. Len(s) - i : q[j] = s[i + j]
    <2>1. \A j \in i + 1 .. Len(s) : s[j] \in T
      BY <1>1
    <2>2. /\ q \in Seq(T) /\ Len(q) = IF i + 1 <= Len(s) THEN Len(s) - (i + 1) + 1 ELSE 0
          /\ \A j \in 1 .. Len(s) - (i + 1) + 1 : q[j] = s[(i + 1) + j - 1]
      <3> HIDE DEF q
      <3> QED
        BY <1>1, <2>1, SubSeqProperties DEF q
    <2>3. \A j \in Int : (i + 1) + j - 1 = i + j
      BY <1>1
    <2> HIDE DEF q
    <2> DEFINE l == Len(s)
    <2>0. l \in Int /\ i \in Int /\ i <= l
      BY <1>1
    <2> HIDE DEF l
    <2>4. (IF i + 1 <= l THEN l - (i + 1) + 1 ELSE 0) = l - i /\ l - (i + 1) + 1 = l - i
      BY <2>0
    <2>5. Len(q) = l - i
      BY <2>2, <2>4 DEF l
    <2>6. \A j \in 1 .. l - i : q[j] = s[(i + 1) + j - 1] /\ j \in Int
      <3>1. 1 .. l - (i + 1) + 1 = 1 .. l - i
        BY <2>4
      <3>2. \A j \in 1 .. l - (i + 1) + 1 : q[j] = s[(i + 1) + j - 1]
        BY <2>2, Zenon DEF l
      <3>3. \A j \in 1 .. l - i : j \in Int
        BY <2>0
      <3> QED
        BY <3>1, <3>2, <3>3, Zenon
    <2>7. \A j \in 1 .. l - i : q[j] = s[i + j]
      BY <2>3, <2>6
    <2> QED
      BY <2>2, <2>5, <2>7 DEF l
  <1>4. r = p \o q
    BY DEF RemoveAt
  <1> HIDE DEF p, q, r
  <1>5. r \in Seq(T) /\ Len(r) = Len(s) - 1
    <2>1. p \o q \in Seq(T) /\ Len(p \o q) = Len(p) + Len(q)
      <3>1. p \in Seq(T) /\ q \in Seq(T)
        BY <1>2, <1>3
      <3> QED
        BY <3>1, ConcatProperties
    <2> QED
      BY <1>1, <1>2, <1>3, <1>4, <2>1
  <1>6. ASSUME NEW j \in 1 .. Len(s) - 1 PROVE r[j] = IF j < i THEN s[j] ELSE s[j + 1]
    <2>1. CASE j < i
      BY <1>1, <1>2, <1>3, <1>4, <2>1
    <2>2. CASE ~ (j < i)
      <3>1. r[j] = q[j - (i - 1)]
        BY <1>1, <1>2, <1>3, <1>4, <2>2
      <3>2. j - (i - 1) \in 1 .. Len(s) - i /\ i + (j - (i - 1)) = j + 1
        BY <1>1, <2>2
      <3> QED
        BY <1>3, <2>2, <3>1, <3>2
    <2> QED
      BY <2>1, <2>2
  <1>7. ASSUME Distinct(s) PROVE ToSet(r) = ToSet(s) \ {s[i]}
    <2>1. DOMAIN r = 1 .. Len(s) - 1
      BY <1>5
    <2>2. \A j \in 1 .. Len(s) - 1 : \E k \in 1 .. Len(s) : k # i /\ r[j] = s[k]
      BY <1>1, <1>6
    <2>3. ASSUME NEW k \in 1 .. Len(s), k # i PROVE \E j \in 1 .. Len(s) - 1 : r[j] = s[k]
      <3>1. CASE k < i
        BY <1>1, <1>6, <3>1
      <3>2. CASE k > i
        <4>1. k - 1 \in 1 .. Len(s) - 1 /\ ~ (k - 1 < i) /\ (k - 1) + 1 = k
          BY <1>1, <3>2
        <4> QED
          BY <1>6, <4>1
      <3> QED
        BY <1>1, <2>3, <3>1, <3>2
    <2>4. \A k \in 1 .. Len(s) : s[k] = s[i] => k = i
      BY <1>7 DEF Distinct
    <2>5. \A x : x \in ToSet(r) <=> \E j \in 1 .. Len(s) - 1 : r[j] = x
      BY <2>1 DEF ToSet
    <2>6. \A x : x \in ToSet(s) <=> \E k \in 1 .. Len(s) : s[k] = x
      BY <1>1 DEF ToSet
    <2>7. ToSet(r) \subseteq ToSet(s) \ {s[i]}
      BY <2>2, <2>4, <2>5, <2>6
    <2>8. ToSet(s) \ {s[i]} \subseteq ToSet(r)
      BY <2>3, <2>5, <2>6
    <2> QED
      BY <2>7, <2>8
  <1> QED
    BY <1>5, <1>6, <1>7 DEF r

(* One more at the end of a listing.                                       *)
LEMMA AppendFacts ==
    ASSUME NEW T, NEW s \in Seq(T), NEW x \in T
    PROVE  /\ Append(s, x) \in Seq(T) /\ Len(Append(s, x)) = Len(s) + 1
           /\ Append(s, x)[Len(s) + 1] = x
           /\ \A i \in 1 .. Len(s) : Append(s, x)[i] = s[i]
           /\ ToSet(Append(s, x)) = ToSet(s) \cup {x}
  <1> DEFINE a == Append(s, x)
  <1>1. Len(s) \in Nat /\ DOMAIN s = 1 .. Len(s)
    OBVIOUS
  <1>2. /\ a \in Seq(T) /\ Len(a) = Len(s) + 1 /\ a[Len(s) + 1] = x
        /\ \A i \in 1 .. Len(s) : a[i] = s[i]
    OBVIOUS
  <1>3. DOMAIN a = 1 .. Len(s) + 1
    BY <1>2
  <1> HIDE DEF a
  <1>4. ToSet(a) = ToSet(s) \cup {x}
    <2>1. \A i \in 1 .. Len(s) + 1 : i \in 1 .. Len(s) \/ i = Len(s) + 1
      BY <1>1
    <2>2. Len(s) + 1 \in 1 .. Len(s) + 1 /\ 1 .. Len(s) \subseteq 1 .. Len(s) + 1
      BY <1>1
    <2> QED
      BY <1>1, <1>2, <1>3, <2>1, <2>2 DEF ToSet
  <1> QED
    BY <1>2, <1>4 DEF a

(* Similarities are within a range, and the largest is one only.           *)
LEMMA NearestFacts ==
    ASSUME NEW b \in Blocks, NEW s \in Seq(Blocks), NEW n \in 0 .. Len(s)
    PROVE  /\ Nearness(b, s, n) \subseteq -100 .. 100
           /\ \A x : Nearest(x, b, s, n) => x \in 0 .. 100
           /\ \A x, y : Nearest(x, b, s, n) /\ Nearest(y, b, s, n) => x = y
  <1>1. \A i \in 1 .. n : Similarity[b, s[i]] \in -100 .. 100
    <2>1. \A i \in 1 .. n : s[i] \in Blocks
      OBVIOUS
    <2> QED
      BY <2>1, BlocksAssumption
  <1>2. Nearness(b, s, n) \subseteq -100 .. 100 /\ 0 \in Nearness(b, s, n)
    <2>1. 0 \in -100 .. 100
      OBVIOUS
    <2> DEFINE R == -100 .. 100
    <2>2. 0 \in R /\ \A i \in 1 .. n : Similarity[b, s[i]] \in R
      BY <1>1, <2>1
    <2> HIDE DEF R
    <2>3. Nearness(b, s, n) \subseteq R /\ 0 \in Nearness(b, s, n)
      BY <2>2, Zenon DEF Nearness
    <2> QED
      BY <2>3 DEF R
  <1>3. ASSUME NEW x, Nearest(x, b, s, n) PROVE x \in 0 .. 100 /\ x \in Int
    <2>1. x \in -100 .. 100 /\ 0 <= x
      BY <1>2, <1>3 DEF Nearest
    <2> QED
      BY <2>1
  <1>4. ASSUME NEW x, Nearest(x, b, s, n), NEW y, Nearest(y, b, s, n) PROVE x = y
    <2>1. x <= y /\ y <= x
      BY <1>4 DEF Nearest
    <2> QED
      BY <1>3, <1>4, <2>1
  <1> QED
    BY <1>2, <1>3, <1>4

(* One more chosen: what the earlier rounds compared stays, and each one's *)
(* largest similarity is brought up to date.                               *)
LEMMA NearestGrows ==
    ASSUME NEW b \in Blocks, NEW s \in Seq(Blocks), NEW c \in Blocks
    PROVE  /\ \A n \in 0 .. Len(s) : Nearness(b, Append(s, c), n) = Nearness(b, s, n)
           /\ \A x : Nearest(x, b, s, Len(s)) =>
                Nearest(IF Similarity[b, c] > x THEN Similarity[b, c] ELSE x,
                        b, Append(s, c), Len(s) + 1)
  <1> DEFINE a == Append(s, c)
             l == Len(s)
             v == Similarity[b, c]
  <1>1. /\ l \in Nat /\ a[l + 1] = c /\ \A i \in 1 .. l : a[i] = s[i]
    BY AppendFacts
  <1>2. v \in -100 .. 100
    BY BlocksAssumption
  <1> HIDE DEF a, l
  <1>3. ASSUME NEW n \in 0 .. l PROVE Nearness(b, a, n) = Nearness(b, s, n)
    <2>1. \A i \in 1 .. n : i \in 1 .. l
      BY <1>1
    <2> QED
      BY <1>1, <2>1 DEF Nearness
  <1>4. Nearness(b, a, l + 1) = Nearness(b, s, l) \cup {v}
    <2>1. 1 .. l + 1 = (1 .. l) \cup {l + 1}
      BY <1>1
    <2> QED
      BY <1>1, <2>1 DEF Nearness
  <1>5. \A y \in Nearness(b, s, l) : y \in Int
    <2>1. Len(s) \in 0 .. Len(s)
      BY <1>1 DEF l
    <2>2. Nearness(b, s, l) \subseteq -100 .. 100
      BY <2>1, NearestFacts DEF l
    <2>3. \A y \in -100 .. 100 : y \in Int
      OBVIOUS
    <2> QED
      BY <2>2, <2>3, Zenon
  <1>6. ASSUME NEW x, Nearest(x, b, s, l)
        PROVE  Nearest(IF v > x THEN v ELSE x, b, a, l + 1)
    <2> HIDE DEF v
    <2>1. x \in Nearness(b, s, l) /\ \A y \in Nearness(b, s, l) : y <= x
      BY <1>6 DEF Nearest
    <2>2. x \in Int /\ v \in Int
      BY <1>2, <1>5, <2>1
    <2>3. CASE v > x
      <3>1. \A y \in Nearness(b, s, l) : y <= v
        BY <1>5, <2>1, <2>2, <2>3
      <3> QED
        BY <1>4, <2>2, <2>3, <3>1 DEF Nearest
    <2>4. CASE ~ (v > x)
      BY <1>4, <2>1, <2>2, <2>4 DEF Nearest
    <2> QED
      BY <2>3, <2>4
  <1> QED
    BY <1>3, <1>6 DEF a, l

(* The order of the ranking has no ties, so nothing is in it twice.        *)
LEMMA InRankIsDistinct ==
    ASSUME Given, NEW s \in Seq(ToSet(cands)), InRank(s)
    PROVE  Distinct(s)
  <1>1. Lines(Better, ToSet(cands))
    BY CandidatesLineUp
  <1>2. \A i \in 1 .. Len(s) : s[i] \in ToSet(cands)
    OBVIOUS
  <1>3. \A i \in 1 .. Len(s) : i \in Int
    OBVIOUS
  <1>4. ASSUME NEW i \in 1 .. Len(s), NEW j \in 1 .. Len(s), i < j PROVE s[i] # s[j]
    BY <1>1, <1>2, <1>4 DEF InRank, Lines
  <1> QED
    BY <1>3, <1>4 DEF Distinct

-----------------------------------------------------------------------------
(* The assembly begins.                                                    *)

Begun ==
    /\ Given /\ pc = "check"
    /\ pool = <<>> /\ selected = <<>> /\ placed = <<>> /\ decisions = <<>>
    /\ maxSim = [b \in Blocks |-> 0] /\ used = 0

LEMMA KeptOfNothing == ASSUME NEW d PROVE KeptOf(d, 0) = {}
  BY DEF KeptOf

LEMMA BegunHolds == Begun => AssemblyInv
  <1> SUFFICES ASSUME Begun PROVE AssemblyInv
    OBVIOUS
  <1> USE DEF Begun
  <1>1. TypeOK
    <2>1. maxSim \in [Blocks -> 0 .. 100]
      OBVIOUS
    <2> QED
      BY <2>1 DEF TypeOK, Given
  <1>2. Stages
    BY DEF Stages
  <1>3. Selection
    BY DEF Selection, InRank, Distinct, ToSet
  <1>4. Packing
    <2>1. used = Tokens(size, KeptOf(decisions, Len(decisions)))
      BY KeptOfNothing, NoTokens
    <2>2. used <= SoftBudget
      BY GivenTypes
    <2> QED
      BY <2>1, <2>2 DEF Packing, Judged
  <1> QED
    BY <1>1, <1>2, <1>3, <1>4 DEF AssemblyInv, Ending

LEMMA BegunHoldsNext == Begun' => AssemblyInv'
  BY BegunHolds, PTL

LEMMA InitHolds == Init => Begun
  <1> SUFFICES ASSUME Init PROVE Begun
    OBVIOUS
  <1>1. cands \in Seq(Blocks) /\ Distinct(cands)
    <2>1. PICK S \in SUBSET Blocks : cands \in SetToAllKPermutations(S)
      BY DEF Init
    <2>2. PICK t \in SUBSET S : cands \in SetToSeqs(t)
      BY <2>1 DEF SetToAllKPermutations
    <2>3. IsFiniteSet(t) /\ Cardinality(t) \in Nat
      BY BlocksAssumption, FS_Subset, FS_CardinalityType
    <2>4. /\ cands \in [1 .. Cardinality(t) -> t]
          /\ \A i, j \in 1 .. Cardinality(t) : i # j => cands[i] # cands[j]
      BY <2>2 DEF SetToSeqs
    <2>5. cands \in Seq(Blocks) /\ Len(cands) = Cardinality(t)
      BY <2>3, <2>4
    <2> QED
      BY <2>4, <2>5 DEF Distinct
  <1> QED
    BY <1>1 DEF Init, Begun, Given

-----------------------------------------------------------------------------
(* Each step of the assembly.                                              *)

(* What has been chosen stands while nothing is.                           *)
LEMMA SelectionStays ==
    ASSUME Given, Selection, UNCHANGED <<inputs, pool, maxSim, selected>>,
           pc \notin {"check", "overflow"}
    PROVE  Selection'
  <1>1. UNCHANGED inputs /\ pool' = pool /\ maxSim' = maxSim /\ selected' = selected
    OBVIOUS
  <1>2. /\ score' = score /\ Better' = Better /\ Top' = Top
    BY <1>1, SameInputs
  <1>3. InRank(pool)' /\ Distinct(selected)'
    BY <1>1, <1>2 DEF Selection, InRank, Distinct
  <1>4. ToSet(pool)' = ToSet(pool) /\ ToSet(selected)' = ToSet(selected) /\ ToSet(Top)' = ToSet(Top)
    BY <1>1, <1>2
  <1>5. \A b \in ToSet(pool)' : Nearest(maxSim[b], b, selected, Len(selected))'
    BY <1>1, <1>4 DEF Selection, Nearest, Nearness
  <1>6. ASSUME NEW n PROVE Picks(selected, n)' <=> Picks(selected, n)
    BY <1>1, <1>2, <1>4 DEF Picks, Worth, Nearest, Nearness
  <1>7. \A n \in (1 .. Len(selected))' : Picks(selected, n)'
    BY <1>1, <1>6 DEF Selection
  <1> QED
    BY <1>3, <1>4, <1>5, <1>7 DEF Selection

LEMMA CheckStep == AssemblyInv /\ Check => AssemblyInv'
  <1> SUFFICES ASSUME AssemblyInv, Check PROVE AssemblyInv'
    OBVIOUS
  <1>1. /\ pc = "check" /\ UNCHANGED <<inputs, maxSim, selected, used, decisions, placed>>
        /\ \/ HardFloor > budget.window /\ pc' = "overflow" /\ pool' = pool
           \/ ~ (HardFloor > budget.window) /\ pc' = "mmr" /\ pool' = Top
    BY DEF Check, Top
  <1>2. UNCHANGED inputs
    BY <1>1
  <1>3. Given /\ TypeOK /\ Stages /\ Selection /\ Packing
    BY DEF AssemblyInv
  <1>4. /\ pool = <<>> /\ selected = <<>> /\ placed = <<>> /\ decisions = <<>> /\ used = 0
        /\ maxSim = [b \in Blocks |-> 0]
    BY <1>1, <1>3 DEF Stages
  <1>5. Given' /\ Packing' /\ Ending'
    <2>1. Packing'
      BY <1>1, <1>2, <1>3, <1>4, SameInputs DEF Packing, Judged
    <2> QED
      BY <1>1, <1>2, <1>3, <2>1, SameInputs DEF Ending
  <1>6. CASE pc' = "overflow"
    <2>1. TypeOK'
      BY <1>1, <1>3, <1>6 DEF TypeOK, inputs
    <2>2. Stages'
      BY <1>1, <1>4, <1>6 DEF Stages
    <2>3. Selection'
      BY <1>1, <1>4, <1>6 DEF Selection, InRank, Distinct, ToSet
    <2> QED
      BY <1>5, <2>1, <2>2, <2>3 DEF AssemblyInv
  <1>7. CASE pc' = "mmr"
    <2>1. pool' = Top /\ HardFloor <= budget.window
      BY <1>1, <1>3, <1>7, GivenTypes
    <2>2. Top \in Seq(ToSet(cands)) /\ InRank(Top)
      BY <1>3, TopFacts
    <2>3. Top \in Seq(Blocks)
      <3>1. ToSet(cands) \subseteq Blocks
        BY <1>3, GivenTypes
      <3> QED
        BY <2>2, <3>1
    <2>4. TypeOK'
      BY <1>1, <1>3, <1>7, <2>1, <2>3 DEF TypeOK, inputs
    <2>5. Stages'
      BY <1>1, <1>2, <1>4, <1>7, <2>1, SameInputs DEF Stages
    <2>6. Selection'
      <3>1. \A b \in Blocks : Nearest(maxSim[b], b, <<>>, 0)
        BY <1>4 DEF Nearest, Nearness
      <3>2. ToSet(Top) \subseteq Blocks
        BY <2>3 DEF ToSet
      <3>3. InRank(pool)'
        BY <1>2, <2>1, <2>2, SameInputs DEF InRank
      <3>4. \A b \in ToSet(pool') : Nearest(maxSim'[b], b, selected', Len(selected'))
        BY <1>1, <1>4, <2>1, <3>1, <3>2
      <3>5. ToSet(<<>>) = {} /\ selected' = <<>>
        BY <1>1, <1>4 DEF ToSet
      <3>6. ToSet(pool)' = ToSet(Top)' /\ ToSet(selected)' = {}
        BY <1>2, <2>1, <3>5, SameInputs
      <3> QED
        BY <3>3, <3>4, <3>5, <3>6 DEF Selection, Distinct
    <2> QED
      BY <1>5, <2>4, <2>5, <2>6 DEF AssemblyInv
  <1> QED
    BY <1>1, <1>6, <1>7

LEMMA EmbedFailsStep == AssemblyInv /\ EmbedFails => AssemblyInv'
  <1> SUFFICES ASSUME AssemblyInv, EmbedFails PROVE AssemblyInv'
    OBVIOUS
  <1>1. /\ pc = "mmr" /\ pc' = "failed"
        /\ UNCHANGED <<inputs, pool, maxSim, selected, used, decisions, placed>>
    BY DEF EmbedFails
  <1>2. UNCHANGED inputs /\ Given /\ TypeOK /\ Stages /\ Selection /\ Packing
    BY <1>1 DEF AssemblyInv
  <1>3. Given' /\ TypeOK'
    BY <1>1, <1>2, SameInputs DEF TypeOK, inputs
  <1>4. Stages'
    BY <1>1, <1>2, SameInputs DEF Stages
  <1>5. Selection'
    BY <1>1, <1>2, SelectionStays
  <1>6. Packing'
    BY <1>1, <1>2, SameInputs DEF Packing, Judged
  <1> QED
    BY <1>1, <1>3, <1>4, <1>5, <1>6 DEF AssemblyInv, Ending

LEMMA SelectEndsStep == AssemblyInv /\ SelectEnds => AssemblyInv'
  <1> SUFFICES ASSUME AssemblyInv, SelectEnds PROVE AssemblyInv'
    OBVIOUS
  <1>1. /\ pc = "mmr" /\ pc' = "pack" /\ pool = <<>>
        /\ UNCHANGED <<inputs, pool, maxSim, selected, used, decisions, placed>>
    BY DEF SelectEnds
  <1>2. UNCHANGED inputs /\ Given /\ TypeOK /\ Stages /\ Selection /\ Packing
    BY <1>1 DEF AssemblyInv
  <1>3. Given' /\ TypeOK'
    BY <1>1, <1>2, SameInputs DEF TypeOK, inputs
  <1>4. Stages'
    BY <1>1, <1>2, SameInputs DEF Stages
  <1>5. Selection'
    BY <1>1, <1>2, SelectionStays
  <1>6. Packing'
    <2>1. decisions = <<>> /\ Len(selected) \in Nat
      BY <1>1, <1>2 DEF Stages, TypeOK
    <2> QED
      BY <1>1, <1>2, <2>1, SameInputs DEF Packing, Judged
  <1> QED
    BY <1>1, <1>3, <1>4, <1>5, <1>6 DEF AssemblyInv, Ending

LEMMA SelectStep == AssemblyInv /\ Select => AssemblyInv'
  <1> SUFFICES ASSUME AssemblyInv, Select PROVE AssemblyInv'
    OBVIOUS
  <1>1. Given /\ TypeOK /\ Stages /\ Selection /\ Packing
    BY DEF AssemblyInv
  <1>2. /\ pc = "mmr" /\ pc' = pc
        /\ UNCHANGED <<inputs, used, decisions, placed>> /\ UNCHANGED inputs
    BY DEF Select
  <1>3. PICK i \in 1 .. Len(pool) :
          /\ \A j \in 1 .. Len(pool) :
               \/ Marginal(pool[i]) > Marginal(pool[j])
               \/ Marginal(pool[i]) = Marginal(pool[j]) /\ i <= j
          /\ selected' = Append(selected, pool[i])
          /\ pool' = RemoveAt(pool, i)
          /\ maxSim' = [b \in Blocks |->
               IF b \in ToSet(pool) \ {pool[i]} /\ Similarity[b, pool[i]] > maxSim[b]
                 THEN Similarity[b, pool[i]] ELSE maxSim[b]]
    BY DEF Select
  <1> DEFINE c == pool[i]
             l == Len(selected)
  <1>4. /\ pool \in Seq(Blocks) /\ selected \in Seq(Blocks) /\ maxSim \in [Blocks -> 0 .. 100]
        /\ l \in Nat /\ Len(pool) \in Nat /\ DOMAIN pool = 1 .. Len(pool)
        /\ DOMAIN selected = 1 .. l
    BY <1>1 DEF TypeOK
  <1>5. /\ ToSet(pool) \cup ToSet(selected) = ToSet(Top)
        /\ ToSet(Top) \subseteq ToSet(cands) /\ ToSet(cands) \subseteq Blocks
    <2>1. Top \in Seq(ToSet(cands))
      BY <1>1, TopFacts
    <2>2. ToSet(Top) \subseteq ToSet(cands)
      BY <2>1 DEF ToSet
    <2> QED
      BY <1>1, <1>2, <2>2, GivenTypes DEF Selection
  <1>6. /\ c \in Blocks /\ c \in ToSet(pool) /\ c \notin ToSet(selected)
        /\ selected' = Append(selected, c)
        /\ maxSim' = [b \in Blocks |->
             IF b \in ToSet(pool) \ {c} /\ Similarity[b, c] > maxSim[b]
               THEN Similarity[b, c] ELSE maxSim[b]]
        /\ \A j \in 1 .. Len(pool) :
             \/ Marginal(c) > Marginal(pool[j])
             \/ Marginal(c) = Marginal(pool[j]) /\ i <= j
        /\ c = pool[i] /\ l = Len(selected)
    <2>1. c \in Blocks /\ c \in ToSet(pool)
      BY <1>4 DEF ToSet
    <2>2. ToSet(pool) \cap ToSet(selected) = {}
      BY <1>1 DEF Selection
    <2> QED
      BY <1>3, <2>1, <2>2
  <1>7. Distinct(pool) /\ InRank(pool) /\ pool \in Seq(ToSet(cands))
    <2>1. pool \in Seq(ToSet(pool))
      BY <1>4 DEF ToSet
    <2>2. pool \in Seq(ToSet(cands))
      BY <1>5, <2>1
    <2> QED
      BY <1>1, <2>2, InRankIsDistinct DEF Selection
  <1>8. /\ pool' \in Seq(Blocks) /\ Len(pool') = Len(pool) - 1
        /\ \A j \in 1 .. Len(pool) - 1 : pool'[j] = IF j < i THEN pool[j] ELSE pool[j + 1]
        /\ ToSet(pool') = ToSet(pool) \ {c}
    <2>1. /\ RemoveAt(pool, i) \in Seq(Blocks) /\ Len(RemoveAt(pool, i)) = Len(pool) - 1
          /\ \A j \in 1 .. Len(pool) - 1 : RemoveAt(pool, i)[j] = IF j < i THEN pool[j] ELSE pool[j + 1]
          /\ ToSet(RemoveAt(pool, i)) = ToSet(pool) \ {pool[i]}
      <3>1. pool \in Seq(Blocks) /\ i \in 1 .. Len(pool) /\ Distinct(pool)
        BY <1>4, <1>7
      <3> QED
        BY <3>1, RemoveAtFacts, Zenon
    <2> QED
      BY <1>3, <2>1, Zenon
  <1> HIDE DEF c, l
  <1>9. /\ selected' \in Seq(Blocks) /\ Len(selected') = l + 1 /\ selected'[l + 1] = c
        /\ \A n \in 1 .. l : selected'[n] = selected[n]
        /\ ToSet(selected') = ToSet(selected) \cup {c}
    <2>1. /\ Append(selected, c) \in Seq(Blocks) /\ Len(Append(selected, c)) = Len(selected) + 1
          /\ Append(selected, c)[Len(selected) + 1] = c
          /\ \A n \in 1 .. Len(selected) : Append(selected, c)[n] = selected[n]
          /\ ToSet(Append(selected, c)) = ToSet(selected) \cup {c}
      <3>1. selected \in Seq(Blocks) /\ c \in Blocks
        BY <1>4, <1>6
      <3> QED
        BY <3>1, AppendFacts, SMT
    <2> QED
      BY <1>6, <2>1, Zenon
  <1>10. Given' /\ TypeOK'
    <2>1. maxSim' \in [Blocks -> 0 .. 100]
      <3>1. \A b \in Blocks : maxSim[b] \in 0 .. 100 /\ Similarity[b, c] \in -100 .. 100
        BY <1>4, <1>6, BlocksAssumption
      <3>2. ASSUME NEW b \in Blocks, Similarity[b, c] > maxSim[b] PROVE Similarity[b, c] \in 0 .. 100
        <4> DEFINE v == Similarity[b, c]
                   m == maxSim[b]
        <4>1. v \in -100 .. 100 /\ m \in 0 .. 100 /\ v > m
          BY <3>1, <3>2
        <4> HIDE DEF v, m
        <4>2. v \in 0 .. 100
          BY <4>1
        <4> QED
          BY <4>2 DEF v
      <3> QED
        BY <1>6, <3>1, <3>2
    <2> QED
      BY <1>1, <1>2, <1>8, <1>9, <2>1, SameInputs DEF TypeOK, inputs
  <1>11. Stages' /\ Ending'
    BY <1>1, <1>2, SameInputs DEF Stages, Ending
  <1>12. Packing'
    <2>1. decisions' = <<>> /\ decisions = <<>> /\ used' = used /\ size' = size /\ SoftBudget' = SoftBudget
      BY <1>1, <1>2, SameInputs DEF Stages
    <2> QED
      BY <1>1, <1>2, <2>1 DEF Packing, Judged, KeptOf
  <1>13. Selection'
    <2>1. InRank(pool)'
      <3>1. \A j, k \in 1 .. Len(pool) - 1 : j < k => <<pool'[j], pool'[k]>> \in Better
        <4> SUFFICES ASSUME NEW j \in 1 .. Len(pool) - 1, NEW k \in 1 .. Len(pool) - 1, j < k
                     PROVE  <<pool'[j], pool'[k]>> \in Better
          OBVIOUS
        <4>1. PICK p \in 1 .. Len(pool), q \in 1 .. Len(pool) :
                p < q /\ pool'[j] = pool[p] /\ pool'[k] = pool[q]
          <5> DEFINE at(n) == IF n < i THEN n ELSE n + 1
          <5>1. at(j) \in 1 .. Len(pool) /\ at(k) \in 1 .. Len(pool) /\ at(j) < at(k)
            BY <1>4
          <5>2. pool'[j] = pool[at(j)] /\ pool'[k] = pool[at(k)]
            BY <1>8
          <5> QED
            BY <5>1, <5>2
        <4> QED
          BY <1>7, <4>1 DEF InRank
      <3>2. Better' = Better
        BY <1>2, SameInputs
      <3> QED
        BY <1>8, <3>1, <3>2 DEF InRank
    <2>2. Distinct(selected)'
      <3>1. \A n \in 1 .. l : selected[n] # c
        BY <1>4, <1>6 DEF ToSet
      <3>2. \A n \in 1 .. l + 1 : n \in 1 .. l \/ n = l + 1
        BY <1>4
      <3>3. \A m, n \in 1 .. l : selected[m] = selected[n] => m = n
        BY <1>1, <1>6 DEF Selection, Distinct
      <3> QED
        BY <1>9, <3>1, <3>2, <3>3 DEF Distinct
    <2>3. /\ ToSet(pool)' \cup ToSet(selected)' = ToSet(Top)'
          /\ ToSet(pool)' \cap ToSet(selected)' = {}
      <3>1. ToSet(Top)' = ToSet(Top)
        BY <1>2, SameInputs
      <3>2. ToSet(pool) \cap ToSet(selected) = {}
        BY <1>1 DEF Selection
      <3> QED
        BY <1>5, <1>6, <1>8, <1>9, <3>1, <3>2
    <2>4. ASSUME NEW b \in ToSet(pool')
          PROVE  Nearest(maxSim'[b], b, selected', Len(selected'))
      <3>1. b \in ToSet(pool) /\ b # c /\ b \in Blocks
        BY <1>5, <1>8
      <3>2. maxSim'[b] = IF Similarity[b, c] > maxSim[b] THEN Similarity[b, c] ELSE maxSim[b]
        BY <1>6, <3>1
      <3>3. Nearest(maxSim[b], b, selected, l)
        BY <1>1, <1>6, <3>1 DEF Selection
      <3> QED
        <4>1. Nearest(IF Similarity[b, c] > maxSim[b] THEN Similarity[b, c] ELSE maxSim[b],
                      b, Append(selected, c), Len(selected) + 1)
          BY <1>4, <1>6, <3>1, <3>3, NearestGrows
        <4> QED
          BY <1>6, <1>9, <3>2, <4>1
    <2>5. \A b \in Blocks, n \in 0 .. l : \A x : Nearest(x, b, selected', n) <=> Nearest(x, b, selected, n)
      <3>1. \A b \in Blocks, n \in 0 .. Len(selected) : Nearness(b, Append(selected, c), n) = Nearness(b, selected, n)
        BY <1>4, <1>6, NearestGrows
      <3> QED
        BY <1>6, <3>1 DEF Nearest
    <2>6. score' = score /\ Better' = Better /\ Top' = Top /\ \A b, x : Worth(b, x)' = Worth(b, x)
      BY <1>2, SameInputs DEF Worth
    <2>7. ASSUME NEW n \in 1 .. l + 1 PROVE Picks(selected, n)'
      <3> SUFFICES ASSUME NEW b \in ToSet(Top), NEW x \in 0 .. 100, NEW y \in 0 .. 100,
                          \A m \in 1 .. n : selected'[m] # b,
                          Nearest(x, selected'[n], selected', n - 1), Nearest(y, b, selected', n - 1)
                   PROVE  \/ Worth(selected'[n], x) > Worth(b, y)
                          \/ Worth(selected'[n], x) = Worth(b, y) /\ <<selected'[n], b>> \in Better
        <4>1. \A b, s, m, x : Nearest(x, b, s, m)' <=> Nearest(x, b, s, m)
          BY DEF Nearest, Nearness
        <4> QED
          BY <2>6, <4>1 DEF Picks, Nearest, Nearness
      <3>1. b \in Blocks /\ n \in Nat /\ n - 1 \in 0 .. l
        BY <1>4, <1>5
      <3>2. CASE n \in 1 .. l
        <4>1. selected'[n] = selected[n] /\ \A m \in 1 .. n : selected[m] # b
          BY <1>4, <1>9, <3>2
        <4>2. selected[n] \in Blocks
          BY <1>4, <3>2
        <4>3. Nearest(x, selected[n], selected, n - 1) /\ Nearest(y, b, selected, n - 1)
          BY <2>5, <3>1, <4>1, <4>2
        <4>4. Picks(selected, n)
          BY <1>1, <1>6, <3>2 DEF Selection
        <4> QED
          BY <4>1, <4>3, <4>4 DEF Picks
      <3>3. CASE n = l + 1
        <4>1. selected'[n] = c /\ n - 1 = l /\ b # c /\ \A m \in 1 .. l : selected[m] # b
          BY <1>4, <1>9, <3>3
        <4>2. Nearest(x, c, selected, l) /\ Nearest(y, b, selected, l)
          BY <1>4, <1>6, <2>5, <3>1, <4>1
        <4>3. b \in ToSet(pool)
          BY <1>4, <1>5, <4>1 DEF ToSet
        <4>4. x = maxSim[c] /\ y = maxSim[b]
          <5>1. Nearest(maxSim[c], c, selected, l) /\ Nearest(maxSim[b], b, selected, l)
            BY <1>1, <1>6, <4>3 DEF Selection
          <5> QED
            <6>1. Len(selected) \in 0 .. Len(selected)
              BY <1>1 DEF TypeOK
            <6> QED
              BY <1>4, <1>6, <3>1, <4>2, <5>1, <6>1, NearestFacts
        <4>5. PICK j \in 1 .. Len(pool) : pool[j] = b
          BY <1>4, <4>3 DEF ToSet
        <4>6. Worth(c, x) = Marginal(c) /\ Worth(b, y) = Marginal(b)
          BY <4>4 DEF Worth, Marginal
        <4>7. i # j /\ (i <= j => <<c, b>> \in Better)
          <5>1. i # j
            BY <1>6, <4>1, <4>5
          <5>2. i <= j => i < j
            BY <1>4, <5>1
          <5> QED
            BY <1>6, <1>7, <4>5, <5>1, <5>2 DEF InRank
        <4> QED
          BY <1>6, <4>1, <4>5, <4>6, <4>7
      <3> QED
        BY <1>4, <3>2, <3>3
    <2>8. \A b \in ToSet(pool)' : Nearest(maxSim[b], b, selected, Len(selected))'
      BY <2>4 DEF Nearest, Nearness
    <2>9. \A n \in (1 .. Len(selected))' : Picks(selected, n)'
      BY <1>9, <2>7
    <2> QED
      BY <2>1, <2>2, <2>3, <2>8, <2>9 DEF Selection
  <1> QED
    BY <1>10, <1>11, <1>12, <1>13 DEF AssemblyInv

(* The tokens of what d keeps of s, counted verdict by verdict.            *)
LEMMA KeptGrows ==
    ASSUME Given, NEW s \in Seq(ToSet(cands)), Distinct(s),
           NEW d, NEW n \in 0 .. Len(s) - 1,
           \A i \in 1 .. n + 1 : d[i].block = s[i]
    PROVE  /\ KeptOf(d, n) \subseteq ToSet(s) /\ s[n + 1] \in ToSet(cands)
           /\ s[n + 1] \notin KeptOf(d, n)
           /\ KeptOf(d, n + 1) = KeptOf(d, n) \cup (IF d[n + 1].kept THEN {s[n + 1]} ELSE {})
           /\ Tokens(size, KeptOf(d, n)) \in Nat
           /\ Tokens(size, KeptOf(d, n + 1)) =
                Tokens(size, KeptOf(d, n)) + (IF d[n + 1].kept THEN size[s[n + 1]] ELSE 0)
  <1>1. /\ Len(s) \in Nat /\ DOMAIN s = 1 .. Len(s) /\ n \in Nat /\ n + 1 \in 1 .. Len(s)
        /\ 1 .. n + 1 = (1 .. n) \cup {n + 1} /\ 1 .. n \subseteq 1 .. Len(s)
        /\ n + 1 \notin 1 .. n
    OBVIOUS
  <1>2. KeptOf(d, n) = {s[i] : i \in {j \in 1 .. n : d[j].kept}}
    BY <1>1 DEF KeptOf
  <1>3. KeptOf(d, n + 1) = KeptOf(d, n) \cup (IF d[n + 1].kept THEN {s[n + 1]} ELSE {})
    BY <1>1 DEF KeptOf
  <1>4. KeptOf(d, n) \subseteq ToSet(s) /\ ToSet(s) \subseteq ToSet(cands)
    BY <1>1, <1>2 DEF ToSet
  <1>5. s[n + 1] \in ToSet(cands) /\ s[n + 1] \notin KeptOf(d, n)
    <2>1. s[n + 1] \in ToSet(s)
      BY <1>1 DEF ToSet
    <2>2. \A i \in 1 .. n : s[i] # s[n + 1]
      BY <1>1 DEF Distinct
    <2> QED
      BY <1>2, <1>4, <2>1, <2>2
  <1>6. IsFiniteSet(KeptOf(d, n)) /\ \A b \in ToSet(cands) : size[b] \in Nat
    <2>1. IsFiniteSet(ToSet(cands))
      BY CandidatesLineUp
    <2> QED
      BY <1>4, <2>1, FS_Subset, GivenTypes
  <1>7. /\ Tokens(size, KeptOf(d, n)) \in Nat
        /\ Tokens(size, KeptOf(d, n) \cup {s[n + 1]}) = Tokens(size, KeptOf(d, n)) + size[s[n + 1]]
    <2> DEFINE S == KeptOf(d, n)
               x == s[n + 1]
    <2>1. IsFiniteSet(S) /\ x \notin S /\ \A y \in S \cup {x} : size[y] \in Nat
      BY <1>4, <1>5, <1>6
    <2> HIDE DEF S, x
    <2>2. Tokens(size, S) \in Nat /\ Tokens(size, S \cup {x}) = Tokens(size, S) + size[x]
      BY <2>1, TokensAdd
    <2> QED
      BY <2>2 DEF S, x
  <1>8. Tokens(size, KeptOf(d, n + 1)) =
          Tokens(size, KeptOf(d, n)) + (IF d[n + 1].kept THEN size[s[n + 1]] ELSE 0)
    <2>1. CASE d[n + 1].kept
      BY <1>3, <1>7, <2>1
    <2>2. CASE ~ d[n + 1].kept
      <3>1. KeptOf(d, n + 1) = KeptOf(d, n)
        BY <1>3, <2>2
      <3> QED
        BY <1>7, <2>2, <3>1
    <2> QED
      BY <2>1, <2>2
  <1> QED
    BY <1>3, <1>4, <1>5, <1>7, <1>8

(* Verdicts added behind do not change what was kept before.               *)
LEMMA KeptStays ==
    ASSUME NEW d, NEW e, NEW n \in Nat, \A i \in 1 .. n : d[i] = e[i]
    PROVE  \A m \in 0 .. n : KeptOf(d, m) = KeptOf(e, m)
  <1> SUFFICES ASSUME NEW m \in 0 .. n PROVE KeptOf(d, m) = KeptOf(e, m)
    OBVIOUS
  <1>1. \A i \in 1 .. m : d[i] = e[i]
    OBVIOUS
  <1> QED
    BY <1>1 DEF KeptOf

(* What the packing is about: the chosen are candidates, each of them once.*)
LEMMA ChosenTypes ==
    ASSUME TypeOK, Given, Selection, pc \notin {"check", "overflow"}
    PROVE  /\ selected \in Seq(ToSet(cands)) /\ Distinct(selected)
           /\ ToSet(selected) \subseteq ToSet(Top) /\ ToSet(Top) \subseteq ToSet(cands)
  <1>1. ToSet(Top) \subseteq ToSet(cands)
    BY TopFacts DEF ToSet
  <1>2. ToSet(selected) \subseteq ToSet(Top) /\ Distinct(selected)
    BY DEF Selection
  <1>3. selected \in Seq(ToSet(selected))
    BY DEF TypeOK, ToSet
  <1>4. selected \in Seq(ToSet(cands))
    BY <1>1, <1>2, <1>3
  <1> QED
    BY <1>1, <1>2, <1>4

LEMMA PackStep == AssemblyInv /\ Pack => AssemblyInv'
  <1> SUFFICES ASSUME AssemblyInv, Pack PROVE AssemblyInv'
    OBVIOUS
  <1> DEFINE n == Len(decisions)
             b == selected[n + 1]
             fits == used + size[b] <= SoftBudget
             d == Append(decisions, [block |-> b, kept |-> fits])
  <1>1. Given /\ TypeOK /\ Stages /\ Selection /\ Packing
    BY DEF AssemblyInv
  <1>2. /\ pc = "pack" /\ pc' = "pack" /\ n < Len(selected)
        /\ UNCHANGED <<inputs, pool, maxSim, selected, placed>> /\ UNCHANGED inputs
        /\ decisions' = d /\ used' = used + (IF fits THEN size[b] ELSE 0)
    <2>1. used + 0 = used
      BY <1>1 DEF TypeOK
    <2>2. /\ pc = "pack" /\ n < Len(selected)
          /\ IF fits THEN Decide(b, TRUE) /\ used' = used + size[b]
                     ELSE Decide(b, FALSE) /\ UNCHANGED used
          /\ UNCHANGED <<pc, inputs, pool, maxSim, selected, placed>>
      BY DEF Pack
    <2>3. CASE fits
      <3>1. decisions' = Append(decisions, [block |-> b, kept |-> TRUE])
        BY <2>2, <2>3 DEF Decide
      <3> HIDE DEF b
      <3> QED
        BY <2>2, <2>3, <3>1
    <2>4. CASE ~fits
      <3>1. decisions' = Append(decisions, [block |-> b, kept |-> FALSE])
        BY <2>2, <2>4 DEF Decide
      <3> HIDE DEF b
      <3> QED
        <4>1. [block |-> b, kept |-> FALSE] = [block |-> b, kept |-> fits]
          <5>1. fits = FALSE
            BY <2>4
          <5> HIDE DEF fits
          <5> QED
            BY <5>1
        <4> HIDE DEF fits
        <4> QED
          BY <2>1, <2>2, <2>4, <3>1, <4>1
    <2> QED
      BY <2>3, <2>4
  <1>3. /\ selected \in Seq(ToSet(cands)) /\ Distinct(selected) /\ Len(selected) \in Nat
        /\ n \in Nat /\ n \in 0 .. Len(selected) - 1 /\ n + 1 \in 1 .. Len(selected)
        /\ 1 .. n + 1 = (1 .. n) \cup {n + 1}
    <2>1. n \in Nat /\ Len(selected) \in Nat
      BY <1>1 DEF TypeOK
    <2> QED
      BY <1>1, <1>2, <2>1, ChosenTypes
  <1>4. b \in ToSet(cands) /\ b \in Blocks /\ size[b] \in Nat /\ used \in Nat /\ SoftBudget \in Nat
    <2>1. b \in ToSet(cands)
      BY <1>3
    <2> QED
      BY <1>1, <2>1, GivenTypes DEF TypeOK
  <1>5. /\ d \in Seq(Decision) /\ Len(d) = n + 1
        /\ d[n + 1] = [block |-> b, kept |-> fits] /\ \A i \in 1 .. n : d[i] = decisions[i]
    <2>1. [block |-> b, kept |-> fits] \in Decision
      BY <1>4 DEF Decision
    <2>2. decisions \in Seq(Decision)
      BY <1>1 DEF TypeOK
    <2> HIDE DEF b, fits
    <2> QED
      BY <2>1, <2>2
  <1> HIDE DEF d
  <1>6. /\ d[n + 1].block = b /\ d[n + 1].kept = fits
        /\ \A i \in 1 .. n + 1 : d[i].block = selected[i]
    <2>1. \A i \in 1 .. n : decisions[i].block = selected[i]
      <3>1. \A i \in 1 .. n : i <= Len(selected)
        BY <1>3
      <3> QED
        BY <1>1, <3>1 DEF Packing, Judged
    <2> QED
      BY <1>3, <1>5, <2>1
  <1>7. /\ \A m \in 0 .. n : KeptOf(d, m) = KeptOf(decisions, m)
        /\ used = Tokens(size, KeptOf(d, n)) /\ used <= SoftBudget
    <2>1. \A m \in 0 .. n : KeptOf(d, m) = KeptOf(decisions, m)
      BY <1>3, <1>5, KeptStays
    <2>2. n \in 0 .. n
      BY <1>3
    <2> QED
      BY <1>1, <2>1, <2>2 DEF Packing
  <1>8. used' = Tokens(size, KeptOf(d, n + 1))
    <2>1. Tokens(size, KeptOf(d, n + 1)) =
            Tokens(size, KeptOf(d, n)) + (IF d[n + 1].kept THEN size[selected[n + 1]] ELSE 0)
      BY <1>1, <1>3, <1>6, KeptGrows
    <2> QED
      BY <1>2, <1>6, <1>7, <2>1
  <1>9. Given' /\ TypeOK'
    <2>1. used' \in Nat
      BY <1>2, <1>4
    <2> QED
      BY <1>1, <1>2, <1>5, <2>1, SameInputs DEF TypeOK, inputs
  <1>10. Stages' /\ Ending'
    BY <1>1, <1>2, SameInputs DEF Stages, Ending
  <1>11. Selection'
    BY <1>1, <1>2, SelectionStays
  <1>12. Packing'
    <2>1. size' = size /\ SoftBudget' = SoftBudget /\ selected' = selected /\ decisions' = d
      BY <1>1, <1>2, SameInputs
    <2>2. used' = Tokens(size', KeptOf(decisions', Len(decisions')))
      BY <1>5, <1>8, <2>1
    <2>3. used' <= SoftBudget /\ used' \in Nat /\ used <= used'
      BY <1>2, <1>4, <1>7
    <2>4. ASSUME NEW i \in 1 .. n + 1
          PROVE  /\ i <= Len(selected) /\ d[i].block = selected[i]
                 /\ d[i].kept <=> Tokens(size, KeptOf(d, i - 1)) + size[selected[i]] <= SoftBudget
                 /\ ~ d[i].kept => used' + size[selected[i]] > SoftBudget
      <3>1. CASE i = n + 1
        <4>1. Tokens(size, KeptOf(d, i - 1)) = used
          BY <1>3, <1>7, <3>1
        <4>2. d[i].kept = fits /\ selected[i] = b /\ i <= Len(selected)
          BY <1>3, <1>6, <3>1
        <4>3. ~fits => used' + size[b] > SoftBudget
          <5>1. ~fits => used' = used
            BY <1>2, <1>4
          <5> DEFINE w == size[b]
          <5>2. w \in Nat /\ (fits <=> used + w <= SoftBudget)
            BY <1>4
          <5> HIDE DEF w, fits
          <5>3. ~fits => used' + w > SoftBudget
            BY <1>4, <5>1, <5>2
          <5> QED
            BY <5>3 DEF w
        <4> QED
          BY <1>3, <1>6, <3>1, <4>1, <4>2, <4>3
      <3>2. CASE i \in 1 .. n
        <4>1. i <= Len(selected) /\ i - 1 \in 0 .. n /\ d[i] = decisions[i]
          BY <1>3, <1>5, <3>2
        <4>2. /\ decisions[i].kept <=> Tokens(size, KeptOf(decisions, i - 1)) + size[selected[i]] <= SoftBudget
              /\ ~ decisions[i].kept => used + size[selected[i]] > SoftBudget
          BY <1>1, <3>2, <4>1 DEF Packing, Judged
        <4>3. size[selected[i]] \in Nat
          <5>1. selected[i] \in ToSet(cands)
            BY <1>3, <3>2
          <5> QED
            BY <1>1, <5>1, GivenTypes
        <4>4. \A u, v, w, m \in Nat : u <= v /\ u + w > m => v + w > m
          OBVIOUS
        <4> QED
          BY <1>4, <1>6, <1>7, <2>3, <3>2, <4>1, <4>2, <4>3, <4>4
      <3> QED
        BY <1>3, <3>1, <3>2
    <2> QED
      BY <1>2, <1>3, <1>5, <2>1, <2>2, <2>3, <2>4 DEF Packing, Judged
  <1> QED
    BY <1>9, <1>10, <1>11, <1>12 DEF AssemblyInv

(* From where in the ascending order the ith of l places is taken: from the*)
(* even ones downward, then from the odd ones upward, each exactly once.   *)
From(l, i) == IF i <= l \div 2 THEN 2 * (l \div 2 + 1 - i) ELSE 2 * (i - l \div 2) - 1

LEMMA FromFacts ==
    ASSUME NEW l \in Nat
    PROVE  /\ \A i \in 1 .. l : From(l, i) \in 1 .. l
           /\ \A i, j \in 1 .. l : From(l, i) = From(l, j) => i = j
           /\ \A m \in 1 .. l : \E i \in 1 .. l : From(l, i) = m
           /\ \A i, j, k \in 1 .. l : i < j /\ j < k =>
                From(l, j) < From(l, i) \/ From(l, j) < From(l, k)
  <1> DEFINE h == l \div 2
  <1>1. h \in Nat /\ (l = 2 * h \/ l = 2 * h + 1)
    OBVIOUS
  <1>2. \A i : From(l, i) = IF i <= h THEN 2 * (h + 1 - i) ELSE 2 * (i - h) - 1
    BY DEF From
  <1> HIDE DEF h
  <1>3. ASSUME NEW i \in 1 .. l PROVE From(l, i) \in 1 .. l
    BY <1>1, <1>2
  <1>4. ASSUME NEW i \in 1 .. l, NEW j \in 1 .. l, From(l, i) = From(l, j) PROVE i = j
    BY <1>1, <1>2, <1>4
  <1>5. ASSUME NEW m \in 1 .. l PROVE \E i \in 1 .. l : From(l, i) = m
    <2>1. PICK q \in Nat : m = 2 * q \/ m = 2 * q + 1
      <3> DEFINE q == m \div 2
      <3>1. q \in Nat /\ (m = 2 * q \/ m = 2 * q + 1)
        OBVIOUS
      <3> HIDE DEF q
      <3> QED
        BY <3>1
    <2>2. CASE m = 2 * q
      <3> DEFINE i == h + 1 - q
      <3>1. i \in 1 .. l /\ i <= h /\ 2 * (h + 1 - i) = m
        BY <1>1, <2>2
      <3> HIDE DEF i
      <3>2. From(l, i) = m
        BY <1>2, <3>1
      <3> QED
        BY <3>1, <3>2
    <2>3. CASE m = 2 * q + 1
      <3> DEFINE i == h + q + 1
      <3>1. i \in 1 .. l /\ ~ (i <= h) /\ 2 * (i - h) - 1 = m
        BY <1>1, <2>3
      <3> HIDE DEF i
      <3>2. From(l, i) = m
        BY <1>2, <3>1
      <3> QED
        BY <3>1, <3>2
    <2> QED
      BY <2>1, <2>2, <2>3
  <1>6. ASSUME NEW i \in 1 .. l, NEW j \in 1 .. l, NEW k \in 1 .. l, i < j, j < k
        PROVE  From(l, j) < From(l, i) \/ From(l, j) < From(l, k)
    BY <1>1, <1>2, <1>6
  <1> QED
    BY <1>3, <1>4, <1>5, <1>6

LEMMA EdgesFacts ==
    ASSUME NEW T, NEW up \in Seq(T)
    PROVE  /\ Edges(up) \in Seq(T) /\ Len(Edges(up)) = Len(up)
           /\ \A i \in 1 .. Len(up) : Edges(up)[i] = up[From(Len(up), i)]
           /\ ToSet(Edges(up)) = ToSet(up)
  <1> DEFINE l == Len(up)
             e == Edges(up)
  <1>1. l \in Nat /\ DOMAIN up = 1 .. l /\ \A i \in 1 .. l : up[i] \in T
    OBVIOUS
  <1>2. e = [i \in 1 .. l |-> up[From(l, i)]]
    BY DEF Edges, From
  <1> HIDE DEF l, e
  <1>3. \A i \in 1 .. l : From(l, i) \in 1 .. l
    BY <1>1, FromFacts
  <1>4. e \in [1 .. l -> T]
    BY <1>1, <1>2, <1>3
  <1>5. e \in Seq(T) /\ Len(e) = l
    BY <1>1, <1>4
  <1>6. \A i \in 1 .. l : e[i] = up[From(l, i)]
    BY <1>2
  <1>7. \A m \in 1 .. l : \E i \in 1 .. l : From(l, i) = m
    BY <1>1, FromFacts
  <1>8. ToSet(e) = ToSet(up)
    <2>1. DOMAIN e = 1 .. l
      BY <1>4
    <2> QED
      BY <1>1, <1>3, <1>6, <1>7, <2>1 DEF ToSet
  <1> QED
    BY <1>5, <1>6, <1>8 DEF e, l

LEMMA FinishStep == AssemblyInv /\ Finish => AssemblyInv'
  <1> SUFFICES ASSUME AssemblyInv, Finish PROVE AssemblyInv'
    OBVIOUS
  <1> DEFINE n == Len(decisions)
             r == Below
             t == [i \in 1 .. Len(r) |-> [block |-> r[i], kept |-> FALSE]]
             d == decisions \o t
             K == KeptOf(decisions, n)
  <1>1. Given /\ TypeOK /\ Stages /\ Selection /\ Packing
    BY DEF AssemblyInv
  <1>2. /\ pc = "pack" /\ pc' = "done" /\ n = Len(selected)
        /\ UNCHANGED <<inputs, pool, maxSim, selected, used>> /\ UNCHANGED inputs
        /\ decisions' = d /\ placed' = Edges(Ordered(K, Weaker))
    BY DEF Finish, EdgeLoad, Edges, Kept, KeptOf, Below
  <1>3. /\ selected \in Seq(ToSet(cands)) /\ ToSet(selected) \subseteq ToSet(cands)
        /\ n \in Nat /\ decisions \in Seq(Decision)
        /\ ToSet(cands) \subseteq Blocks /\ IsFiniteSet(ToSet(cands))
    <2>1. ToSet(cands) \subseteq Blocks /\ IsFiniteSet(ToSet(cands))
      BY <1>1, CandidatesLineUp, GivenTypes
    <2>2. selected \in Seq(ToSet(cands)) /\ ToSet(selected) \subseteq ToSet(cands)
      BY <1>1, <1>2, ChosenTypes
    <2>3. decisions \in Seq(Decision)
      BY <1>1 DEF TypeOK
    <2>4. n \in Nat
      BY <2>3
    <2> QED
      BY <2>1, <2>2, <2>3, <2>4
  <1>4. r \in Seq(ToSet(cands)) /\ Len(r) \in Nat
    <2> DEFINE S == ToSet(cands) \ ToSet(selected)
    <2>1. S \in SUBSET ToSet(cands) /\ IsFiniteSet(S)
      BY <1>3, FS_Subset
    <2>2. Lines(Earlier, S)
      BY <1>1, <2>1, CandidatesLineUp
    <2>3. Ordered(S, Earlier) \in Seq(S)
      <3> HIDE DEF S
      <3> QED
        BY <2>1, <2>2, OrderedLists
    <2>4. r \in Seq(S)
      BY <2>3 DEF Below
    <2> QED
      BY <2>4
  <1> HIDE DEF r
  <1>5. t \in Seq(Decision) /\ Len(t) = Len(r) /\ \A i \in 1 .. Len(r) : t[i] = [block |-> r[i], kept |-> FALSE]
    <2>1. \A i \in 1 .. Len(r) : [block |-> r[i], kept |-> FALSE] \in Decision
      BY <1>3, <1>4 DEF Decision
    <2>2. t \in [1 .. Len(r) -> Decision]
      BY <2>1
    <2> QED
      BY <1>4, <2>2
  <1> HIDE DEF t
  <1>6. /\ d \in Seq(Decision) /\ Len(d) = n + Len(r)
        /\ \A i \in 1 .. n : d[i] = decisions[i]
        /\ \A i \in 1 .. Len(r) : d[n + i] = t[i]
    <2>1. /\ d \in Seq(Decision) /\ Len(d) = n + Len(t)
          /\ \A i \in 1 .. n + Len(t) : d[i] = IF i <= n THEN decisions[i] ELSE t[i - n]
      <3>1. decisions \in Seq(Decision) /\ t \in Seq(Decision)
        BY <1>3, <1>5
      <3> HIDE DEF n
      <3> QED
        BY <3>1, ConcatProperties DEF n
    <2> HIDE DEF d
    <2> DEFINE m == n
               l == Len(r)
    <2>2. m \in Nat /\ l \in Nat
      BY <1>3, <1>4
    <2>3. \A i \in 1 .. m + l : d[i] = IF i <= m THEN decisions[i] ELSE t[i - m]
      BY <1>5, <2>1
    <2> HIDE DEF m, l
    <2>4. ASSUME NEW i \in 1 .. m PROVE d[i] = decisions[i]
      BY <2>2, <2>3
    <2>5. ASSUME NEW i \in 1 .. l PROVE d[m + i] = t[i]
      <3> DEFINE j == m + i
      <3>1. j \in 1 .. m + l /\ ~ (j <= m) /\ j - m = i
        BY <2>2
      <3> HIDE DEF j
      <3>2. d[j] = t[i]
        BY <2>3, <3>1
      <3> QED
        BY <3>2 DEF j
    <2> QED
      BY <1>5, <2>1, <2>4, <2>5 DEF m, l
  <1> HIDE DEF d
  <1>7. \A i \in 1 .. Len(r) : d[n + i].block = r[i] /\ ~ d[n + i].kept
    <2> SUFFICES ASSUME NEW i \in 1 .. Len(r) PROVE d[n + i].block = r[i] /\ ~ d[n + i].kept
      OBVIOUS
    <2>1. d[n + i] = [block |-> r[i], kept |-> FALSE]
      BY <1>5, <1>6, Zenon
    <2> QED
      BY <2>1
  <1>8. \A i \in 1 .. Len(d) : i \in 1 .. n \/ \E j \in 1 .. Len(r) : i = n + j
    <2> SUFFICES ASSUME NEW i \in 1 .. Len(d), i \notin 1 .. n PROVE \E j \in 1 .. Len(r) : i = n + j
      OBVIOUS
    <2>1. i - n \in 1 .. Len(r) /\ i = n + (i - n)
      BY <1>3, <1>4, <1>6
    <2> QED
      BY <2>1
  <1>9. /\ \A m \in 0 .. n : KeptOf(d, m) = KeptOf(decisions, m)
        /\ KeptOf(d, Len(d)) = K
    <2>1. \A m \in 0 .. n : KeptOf(d, m) = KeptOf(decisions, m)
      BY <1>3, <1>6, KeptStays
    <2>2. \A i \in 1 .. Len(d) : d[i].kept => i \in 1 .. n
      BY <1>7, <1>8
    <2>3. 1 .. n \subseteq 1 .. Len(d)
      BY <1>3, <1>4, <1>6
    <2>4. KeptOf(d, Len(d)) = KeptOf(decisions, n)
      BY <1>6, <2>2, <2>3 DEF KeptOf
    <2> QED
      BY <2>1, <2>4
  <1>10. \A i \in 1 .. n : decisions[i].block = selected[i]
    BY <1>1, <1>2 DEF Packing, Judged
  <1>11. placed' \in Seq(Blocks)
    <2>1. K \subseteq ToSet(cands)
      <3>1. \A i \in 1 .. n : selected[i] \in ToSet(cands)
        BY <1>2, <1>3
      <3> QED
        BY <1>10, <3>1 DEF KeptOf
    <2> HIDE DEF K
    <2>2. IsFiniteSet(K) /\ Lines(Weaker, K)
      BY <1>1, <1>3, <2>1, FS_Subset, CandidatesLineUp
    <2>3. Ordered(K, Weaker) \in Seq(K)
      BY <2>2, OrderedLists
    <2>4. Edges(Ordered(K, Weaker)) \in Seq(K)
      BY <2>3, EdgesFacts
    <2> QED
      BY <1>2, <1>3, <2>1, <2>4
  <1>12. Given' /\ TypeOK'
    BY <1>1, <1>2, <1>6, <1>11, SameInputs DEF TypeOK, inputs
  <1>13. Stages'
    BY <1>1, <1>2, SameInputs DEF Stages
  <1>14. Selection'
    BY <1>1, <1>2, SelectionStays
  <1>15. Packing'
    <2>1. /\ size' = size /\ SoftBudget' = SoftBudget /\ selected' = selected
          /\ decisions' = d /\ used' = used
      BY <1>1, <1>2, SameInputs
    <2>2. used = Tokens(size, KeptOf(d, Len(d))) /\ used <= SoftBudget
      BY <1>1, <1>9 DEF Packing
    <2>3. ASSUME NEW i \in 1 .. n
          PROVE  /\ i <= Len(selected) /\ d[i].block = selected[i]
                 /\ d[i].kept <=> Tokens(size, KeptOf(d, i - 1)) + size[selected[i]] <= SoftBudget
                 /\ ~ d[i].kept => used + size[selected[i]] > SoftBudget
      <3>1. i <= Len(selected) /\ d[i] = decisions[i] /\ i - 1 \in 0 .. n
        BY <1>2, <1>3, <1>6
      <3> QED
        BY <1>1, <1>9, <1>10, <3>1 DEF Packing, Judged
    <2>4. \A i \in 1 .. Len(d) : i \in 1 .. n \/ (~ (i <= Len(selected)) /\ ~ d[i].kept)
      <3>1. \A j \in 1 .. Len(r) : ~ (n + j <= n)
        BY <1>3, <1>4
      <3> QED
        BY <1>2, <1>7, <1>8, <3>1
    <2>5. \A i \in 1 .. Len(d) : i <= Len(selected) => i \in 1 .. n
      BY <1>2, <1>3, <1>4, <1>6
    <2>6. ~ (pc' = "pack")
      BY <1>2
    <2> QED
      BY <2>1, <2>2, <2>3, <2>4, <2>5, <2>6 DEF Packing, Judged
  <1>16. Ending'
    <2>1. Below' = Below /\ Weaker' = Weaker
      BY <1>1, <1>2, SameInputs DEF Below
    <2> QED
      BY <1>2, <1>6, <1>7, <1>9, <2>1 DEF Ending, r
  <1> QED
    BY <1>12, <1>13, <1>14, <1>15, <1>16 DEF AssemblyInv

LEMMA AssemblyStep == AssemblyInv /\ [Next]_vars => AssemblyInv'
  <1> SUFFICES ASSUME AssemblyInv, [Next]_vars PROVE AssemblyInv'
    OBVIOUS
  <1>1. CASE Next
    BY <1>1, CheckStep, EmbedFailsStep, SelectStep, SelectEndsStep, PackStep, FinishStep DEF Next
  <1>2. CASE UNCHANGED vars
    <2>1. /\ pc' = pc /\ UNCHANGED inputs /\ pool' = pool /\ maxSim' = maxSim /\ selected' = selected
          /\ used' = used /\ decisions' = decisions /\ placed' = placed
      BY <1>2 DEF vars
    <2>2. Given /\ TypeOK /\ Stages /\ Selection /\ Packing /\ Ending
      BY DEF AssemblyInv
    <2>3. CASE pc = "check"
      <3>1. Begun
        BY <2>2, <2>3 DEF Begun, Stages
      <3>2. Begun'
        BY <2>1, <2>2, <3>1, SameInputs DEF Begun
      <3> QED
        BY <3>2, BegunHoldsNext
    <2>4. Given' /\ TypeOK' /\ Stages' /\ Packing' /\ Ending'
      <3>1. Given' /\ TypeOK'
        BY <2>1, <2>2, SameInputs DEF TypeOK
      <3>2. Stages'
        BY <2>1, <2>2, SameInputs DEF Stages
      <3>3. Packing'
        BY <2>1, <2>2, SameInputs DEF Packing, Judged
      <3>4. Below' = Below
        BY <2>1, <2>2, SameInputs DEF Below
      <3>5. Ending'
        BY <2>1, <2>2, <3>4, SameInputs DEF Ending
      <3> QED
        BY <3>1, <3>2, <3>3, <3>5
    <2>5. CASE pc = "overflow"
      <3>1. pool' = <<>> /\ selected' = <<>> /\ pc' = "overflow"
        BY <2>1, <2>2, <2>5 DEF Stages
      <3>2. Selection'
        BY <3>1 DEF Selection, InRank, Distinct, ToSet
      <3> QED
        BY <2>4, <3>2 DEF AssemblyInv
    <2>6. CASE pc \notin {"check", "overflow"}
      <3>1. Selection'
        BY <2>1, <2>2, <2>6, SelectionStays
      <3> QED
        BY <2>4, <3>1 DEF AssemblyInv
    <2> QED
      BY <2>3, <2>5, <2>6
  <1> QED
    BY <1>1, <1>2

-----------------------------------------------------------------------------
(* What the invariant says of an assembly.                                 *)

(* The kept are among the chosen, and at the end they are what is placed.  *)
LEMMA KeptFacts ==
    ASSUME AssemblyInv, pc \notin {"check", "overflow"}
    PROVE  /\ Kept \subseteq ToSet(selected) /\ ToSet(selected) \subseteq ToSet(cands)
           /\ IsFiniteSet(Kept) /\ Cardinality(Kept) \in Nat /\ TokensOf(Kept) = used
           /\ Lines(Weaker, Kept)
  <1>1. Given /\ TypeOK /\ Stages /\ Selection /\ Packing
    BY DEF AssemblyInv
  <1>2. ToSet(selected) \subseteq ToSet(cands)
    BY <1>1, ChosenTypes
  <1>3. Kept = KeptOf(decisions, Len(decisions))
    BY DEF Kept, KeptOf
  <1>4. Kept \subseteq ToSet(selected)
    <2>1. \A i \in 1 .. Len(decisions) : decisions[i].kept =>
            i \in 1 .. Len(selected) /\ decisions[i].block = selected[i]
      <3>1. Len(selected) \in Nat /\ Len(decisions) \in Nat
        BY <1>1 DEF TypeOK
      <3> QED
        BY <1>1, <3>1 DEF Packing, Judged
    <2>2. DOMAIN selected = 1 .. Len(selected)
      BY <1>1 DEF TypeOK
    <2> QED
      BY <1>3, <2>1, <2>2 DEF KeptOf, ToSet
  <1>5. IsFiniteSet(Kept) /\ Lines(Weaker, Kept)
    BY <1>1, <1>2, <1>4, CandidatesLineUp, FS_Subset
  <1>6. TokensOf(Kept) = used
    BY <1>1, <1>3 DEF Packing, TokensOf, Tokens
  <1> QED
    BY <1>2, <1>4, <1>5, <1>6, FS_CardinalityType

LEMMA PlacedFacts ==
    ASSUME AssemblyInv, pc = "done"
    PROVE  /\ ToSet(placed) = Kept /\ Len(placed) = Cardinality(Kept) /\ placed \in Seq(Kept)
           /\ \A i, j \in 1 .. Len(placed) :
                From(Len(placed), i) < From(Len(placed), j) => <<placed[i], placed[j]>> \in Weaker
           /\ Len(selected) \in Nat /\ Len(decisions) >= Len(selected)
           /\ HardFloor <= budget.window
  <1>1. Given /\ TypeOK /\ Stages /\ Ending
    BY DEF AssemblyInv
  <1>2. IsFiniteSet(Kept) /\ Lines(Weaker, Kept) /\ Cardinality(Kept) \in Nat
    BY KeptFacts
  <1> DEFINE up == Ordered(Kept, Weaker)
  <1>3. placed = Edges(up) /\ Len(decisions) = Len(selected) + Len(Below)
    BY <1>1 DEF Ending, Kept, KeptOf
  <1>4. /\ up \in Seq(Kept) /\ Len(up) = Cardinality(Kept) /\ ToSet(up) = Kept
        /\ \A i, j \in 1 .. Cardinality(Kept) : i < j => <<up[i], up[j]>> \in Weaker
    BY <1>2, OrderedLists
  <1> HIDE DEF up
  <1>5. /\ placed \in Seq(Kept) /\ Len(placed) = Len(up) /\ ToSet(placed) = ToSet(up)
        /\ \A i \in 1 .. Len(up) : placed[i] = up[From(Len(up), i)]
    BY <1>3, <1>4, EdgesFacts
  <1>6. \A i \in 1 .. Len(placed) : From(Len(placed), i) \in 1 .. Len(placed)
    BY <1>2, <1>4, <1>5, FromFacts
  <1>7. Len(selected) \in Nat /\ Len(decisions) >= Len(selected)
    <2>1. Len(selected) \in Nat
      BY <1>1 DEF TypeOK
    <2>2. Len(Below) \in Nat
      <3> DEFINE S == ToSet(cands) \ ToSet(selected)
      <3>1. S \in SUBSET ToSet(cands) /\ IsFiniteSet(S)
        BY <1>1, CandidatesLineUp, FS_Subset
      <3> HIDE DEF S
      <3>2. Len(Ordered(S, Earlier)) = Cardinality(S) /\ Cardinality(S) \in Nat
        BY <1>1, <3>1, CandidatesLineUp, OrderedLists, FS_CardinalityType
      <3> QED
        BY <3>2 DEF Below, S
    <2> QED
      BY <1>3, <2>1, <2>2
  <1> QED
    BY <1>1, <1>4, <1>5, <1>6, <1>7 DEF Stages

LEMMA BlocksFit == AssemblyInv => PackedBlocksFit
  <1> SUFFICES ASSUME AssemblyInv, pc = "done"
               PROVE  HardFloor + TokensOf(ToSet(placed)) <= budget.window
    BY DEF PackedBlocksFit
  <1>1. ToSet(placed) = Kept /\ TokensOf(Kept) = used /\ HardFloor <= budget.window
    BY KeptFacts, PlacedFacts
  <1>2. used \in Nat /\ used <= SoftBudget
    BY DEF AssemblyInv, TypeOK, Packing
  <1>3. HardFloor \in Nat /\ budget.window \in Nat /\ SoftBudget = budget.window - HardFloor
    BY <1>1, GivenTypes DEF AssemblyInv
  <1> QED
    BY <1>1, <1>2, <1>3

LEMMA LeftOutDoesNotFit == AssemblyInv => NoRoomForEvicted
  <1> SUFFICES ASSUME AssemblyInv, pc = "done", NEW b \in ToSet(selected) \ ToSet(placed)
               PROVE  used + size[b] > SoftBudget
    BY DEF NoRoomForEvicted
  <1>1. Len(selected) \in Nat /\ Len(decisions) \in Nat /\ DOMAIN selected = 1 .. Len(selected)
    BY DEF AssemblyInv, TypeOK
  <1>2. PICK i \in 1 .. Len(selected) : selected[i] = b
    BY <1>1 DEF ToSet
  <1>3. i \in 1 .. Len(decisions) /\ i <= Len(selected)
    BY <1>1, PlacedFacts
  <1>4. decisions[i].block = b
    BY <1>2, <1>3 DEF AssemblyInv, Packing, Judged
  <1>5. ~ decisions[i].kept
    <2>1. b \notin Kept
      BY PlacedFacts
    <2> QED
      BY <1>3, <1>4, <2>1 DEF Kept
  <1> QED
    BY <1>2, <1>3, <1>5 DEF AssemblyInv, Packing

(* The first round compares scores only.                                   *)
LEMMA BestComesFirst ==
    ASSUME AssemblyInv, pc = "done", cands # <<>>
    PROVE  /\ 1 \in 1 .. Len(selected) /\ selected[1] \in ToSet(cands)
           /\ \A c \in ToSet(cands) : score[selected[1]] >= score[c]
  <1>1. Given /\ TypeOK /\ Selection
    BY DEF AssemblyInv
  <1>2. /\ Len(Top) \in Nat /\ Len(Top) # 0 /\ Top \in Seq(ToSet(cands))
        /\ \A b \in ToSet(cands) : b = Top[1] \/ <<Top[1], b>> \in Better
    <2>1. Len(Top) \in Nat /\ Len(Top) # 0
      BY <1>1, TopFacts
    <2> QED
      BY <1>1, <2>1, TopFacts
  <1>3. Top[1] \in ToSet(Top) /\ ToSet(Top) \subseteq ToSet(cands)
    BY <1>2 DEF ToSet
  <1>4. ToSet(selected) = ToSet(Top)
    <2>1. pool = <<>>
      BY DEF AssemblyInv, Stages
    <2>2. ToSet(pool) = {}
      BY <2>1 DEF ToSet
    <2> QED
      BY <1>1, <2>2 DEF Selection
  <1>5. Len(selected) \in Nat /\ DOMAIN selected = 1 .. Len(selected) /\ 1 \in 1 .. Len(selected)
    <2>1. Len(selected) \in Nat /\ DOMAIN selected = 1 .. Len(selected)
      BY <1>1 DEF TypeOK
    <2>2. 1 .. Len(selected) # {}
      BY <1>3, <1>4, <2>1 DEF ToSet
    <2> QED
      BY <2>1, <2>2
  <1> DEFINE a == selected[1]
             t == Top[1]
  <1>6. a \in ToSet(cands) /\ a \in ToSet(Top) /\ t \in ToSet(cands)
    BY <1>3, <1>4, <1>5 DEF ToSet
  <1>61. score[a] \in Nat /\ score[t] \in Nat /\ Lambda \in Nat /\ \A b \in ToSet(cands) : score[b] \in Nat
    <2>1. \A b \in ToSet(cands) : score[b] \in 0 .. 100
      BY <1>1, GivenTypes
    <2>2. \A b \in ToSet(cands) : score[b] \in Nat
      <3>1. \A x \in 0 .. 100 : x \in Nat
        OBVIOUS
      <3> QED
        BY <2>1, <3>1, Zenon
    <2> HIDE DEF a, t
    <2> QED
      BY <1>6, <2>2, LimitsAssumption
  <1>62. \A x, y : <<x, y>> \in Better => x \in ToSet(cands) /\ y \in ToSet(cands) /\ score[x] >= score[y]
    BY <1>61 DEF Better, Pairs
  <1>7. score[a] >= score[t]
    <2>1. CASE a = t
      <3> HIDE DEF a, t
      <3> QED
        BY <1>61, <2>1
    <2>2. CASE a # t
      <3>1. Nearest(0, a, selected, 1 - 1) /\ Nearest(0, t, selected, 1 - 1)
        BY DEF Nearest, Nearness
      <3>2. Picks(selected, 1)
        BY <1>1, <1>5 DEF Selection
      <3>3. Worth(a, 0) > Worth(t, 0) \/ (Worth(a, 0) = Worth(t, 0) /\ <<a, t>> \in Better)
        <4>1. t \in ToSet(Top) /\ \A m \in 1 .. 1 : selected[m] # t
          BY <1>3, <2>2
        <4>2. 0 \in 0 .. 100
          OBVIOUS
        <4> HIDE DEF t
        <4> QED
          BY <3>1, <3>2, <4>1, <4>2 DEF Picks
      <3>4. <<a, t>> \in Better => score[a] >= score[t]
        BY <1>62
      <3>5. Lambda * score[a] > Lambda * score[t] => score[a] > score[t]
        <4>1. \A l, x, y \in Nat : x <= y => l * x <= l * y
          OBVIOUS
        <4>2. \A l, x, y \in Nat : l * x > l * y => x > y
          <5>1. \A l, x, y \in Nat : l * x \in Nat /\ l * y \in Nat
            OBVIOUS
          <5> QED
            BY <4>1, <5>1
        <4> HIDE DEF a, t
        <4> QED
          BY <1>61, <4>2
      <3>6. Worth(a, 0) = Lambda * score[a] /\ Worth(t, 0) = Lambda * score[t]
        <4> HIDE DEF a, t
        <4>1. \A l, x \in Nat : l * x - (100 - l) * 0 = l * x
          OBVIOUS
        <4> QED
          BY <1>61, <4>1 DEF Worth
      <3> HIDE DEF a, t
      <3> QED
        BY <1>61, <3>3, <3>4, <3>5, <3>6
    <2> QED
      BY <2>1, <2>2
  <1>8. ASSUME NEW c \in ToSet(cands) PROVE score[a] >= score[c]
    <2>0. c = t \/ <<t, c>> \in Better
      BY <1>2
    <2> HIDE DEF a, t
    <2>1. score[t] >= score[c]
      BY <1>62, <1>61, <2>0
    <2> QED
      BY <1>7, <1>61, <2>1
  <1> QED
    BY <1>5, <1>6, <1>8

LEMMA BestIsKept == AssemblyInv => BestIsPlaced
  <1> DEFINE best == {b \in ToSet(cands) : \A c \in ToSet(cands) : score[b] >= score[c]}
  <1> SUFFICES ASSUME AssemblyInv, pc = "done", best # {}, \A b \in best : size[b] <= SoftBudget
               PROVE  best \cap ToSet(placed) # {}
    BY DEF BestIsPlaced
  <1>1. cands # <<>>
    BY DEF ToSet
  <1> DEFINE a == selected[1]
  <1>2. a \in best /\ 1 \in 1 .. Len(selected) /\ a \in ToSet(cands)
    BY <1>1, BestComesFirst
  <1>3. 1 \in 1 .. Len(decisions) /\ 1 <= Len(selected)
    BY <1>2, PlacedFacts DEF AssemblyInv, TypeOK
  <1>4. /\ decisions[1].block = a
        /\ decisions[1].kept <=> Tokens(size, KeptOf(decisions, 1 - 1)) + size[a] <= SoftBudget
    BY <1>3 DEF AssemblyInv, Packing, Judged
  <1>5. Tokens(size, KeptOf(decisions, 1 - 1)) = 0 /\ size[a] \in Nat
    <2>1. KeptOf(decisions, 1 - 1) = {}
      BY KeptOfNothing
    <2>2. size[a] \in Nat
      BY <1>2, GivenTypes DEF AssemblyInv
    <2> QED
      BY <2>1, <2>2, NoTokens
  <1>6. decisions[1].kept
    <2> DEFINE w == size[a]
               u == Tokens(size, KeptOf(decisions, 1 - 1))
    <2>1. w \in Nat /\ u = 0 /\ w <= SoftBudget
      BY <1>2, <1>5
    <2>2. decisions[1].kept <=> u + w <= SoftBudget
      BY <1>4
    <2> HIDE DEF w, u
    <2> QED
      BY <2>1, <2>2
  <1>7. a \in Kept
    BY <1>3, <1>4, <1>6 DEF Kept
  <1> QED
    BY <1>2, <1>7, PlacedFacts

(* Those that took no part come after the others, each of them once.       *)
LEMMA BelowFacts ==
    ASSUME AssemblyInv
    PROVE  /\ Below \in Seq(ToSet(cands) \ ToSet(selected)) /\ Distinct(Below)
           /\ ToSet(Below) = ToSet(cands) \ ToSet(selected)
           /\ Len(Below) = Cardinality(ToSet(cands) \ ToSet(selected))
  <1> DEFINE S == ToSet(cands) \ ToSet(selected)
  <1>1. S \in SUBSET ToSet(cands) /\ IsFiniteSet(S) /\ Lines(Earlier, S)
    BY CandidatesLineUp, FS_Subset DEF AssemblyInv
  <1> HIDE DEF S
  <1> DEFINE o == Ordered(S, Earlier)
  <1>2. /\ o \in Seq(S) /\ Len(o) = Cardinality(S) /\ ToSet(o) = S
        /\ \A i, j \in 1 .. Cardinality(S) : i < j => <<o[i], o[j]>> \in Earlier
    BY <1>1, OrderedLists
  <1> HIDE DEF o
  <1>3. Distinct(o)
    <2>1. \A i \in 1 .. Len(o) : o[i] \in S /\ i \in Int
      BY <1>2
    <2>2. \A i, j \in 1 .. Len(o) : i < j => o[i] # o[j]
      BY <1>1, <1>2, <2>1 DEF Lines
    <2> QED
      BY <2>1, <2>2 DEF Distinct
  <1>4. Below = o
    BY DEF Below, o, S
  <1> QED
    BY <1>2, <1>3, <1>4 DEF S

LEMMA EachHasItsVerdict == AssemblyInv => VerdictsMatchPrompt
  <1> SUFFICES ASSUME AssemblyInv, pc = "done"
               PROVE  /\ \A b \in ToSet(cands) :
                           Cardinality({i \in 1 .. Len(decisions) : decisions[i].block = b}) = 1
                      /\ Len(decisions) = Len(cands)
                      /\ Kept = ToSet(placed) /\ Len(placed) = Cardinality(Kept)
    BY DEF VerdictsMatchPrompt
  <1> DEFINE n == Len(selected)
             l == Len(Below)
             d == decisions
             S == ToSet(selected)
             C == ToSet(cands)
  <1>1. Given /\ TypeOK /\ Selection /\ Packing /\ Ending
    BY DEF AssemblyInv
  <1>2. /\ Below \in Seq(C \ S) /\ Distinct(Below) /\ ToSet(Below) = C \ S
        /\ l = Cardinality(C \ S)
    BY BelowFacts
  <1>3. /\ selected \in Seq(C) /\ Distinct(selected) /\ S \subseteq C
        /\ IsFiniteSet(C) /\ Cardinality(C) = Len(cands)
    BY <1>1, ChosenTypes, CandidatesLineUp
  <1>4. /\ n \in Nat /\ l \in Nat /\ DOMAIN selected = 1 .. n /\ DOMAIN Below = 1 .. l
    BY <1>2, <1>3
  <1>5. Len(d) = n + l /\ Len(d) = Len(cands)
    <2>1. Len(d) = n + l
      BY <1>1 DEF Ending
    <2>2. Cardinality(S) = n /\ IsFiniteSet(S)
      BY <1>3, ListSize
    <2>3. Cardinality(C \ S) = Cardinality(C) - Cardinality(C \cap S)
      BY <1>3, FS_Difference
    <2>4. C \cap S = S
      BY <1>3
    <2>5. Cardinality(C) \in Nat
      BY <1>3, FS_CardinalityType
    <2>6. l = Cardinality(C) - n
      BY <1>2, <2>2, <2>3, <2>4, Zenon
    <2>7. n + l = Cardinality(C)
      <3> DEFINE k == Cardinality(C)
      <3>1. k \in Nat /\ l = k - n
        BY <2>5, <2>6
      <3> HIDE DEF n, l, k
      <3>2. n + l = k
        BY <1>4, <3>1
      <3> QED
        BY <3>2 DEF k
    <2> QED
      BY <1>3, <2>1, <2>7, Zenon
  <1>6. /\ \A i \in 1 .. n : d[i].block = selected[i]
        /\ \A i \in 1 .. l : d[n + i].block = Below[i]
    <2>1. \A i \in 1 .. n : i \in 1 .. Len(d) /\ i <= n
      <3> HIDE DEF n, l, d
      <3> QED
        BY <1>4, <1>5
    <2> QED
      BY <1>1, <2>1 DEF Packing, Judged, Ending
  <1>7. \A i \in 1 .. n + l : i \in 1 .. n \/ \E j \in 1 .. l : i = n + j
    <2> HIDE DEF n, l, d
    <2> SUFFICES ASSUME NEW i \in 1 .. n + l, i \notin 1 .. n PROVE \E j \in 1 .. l : i = n + j
      OBVIOUS
    <2>1. i - n \in 1 .. l /\ i = n + (i - n)
      BY <1>4
    <2> QED
      BY <2>1
  <1>8. ASSUME NEW b \in C
        PROVE  Cardinality({i \in 1 .. Len(d) : d[i].block = b}) = 1
    <2>1. CASE b \in S
      <3>1. PICK k \in 1 .. n : selected[k] = b
        BY <1>4, <2>1 DEF ToSet
      <3>2. \A i \in 1 .. n : selected[i] = b => i = k
        BY <1>3, <3>1 DEF Distinct
      <3>3. \A i \in 1 .. l : Below[i] # b
        BY <1>2, <1>4, <2>1 DEF ToSet
      <3>4. k \in 1 .. Len(d)
        <4> HIDE DEF n, l, d
        <4> QED
          BY <1>4, <1>5
      <3>5. {i \in 1 .. Len(d) : d[i].block = b} = {k}
        <4> HIDE DEF n, l, d
        <4> QED
          BY <1>5, <1>6, <1>7, <3>1, <3>2, <3>3, <3>4
      <3> QED
        BY <3>5, FS_Singleton
    <2>2. CASE b \notin S
      <3>1. PICK k \in 1 .. l : Below[k] = b
        BY <1>2, <1>4, <2>2 DEF ToSet
      <3>2. \A i \in 1 .. l : Below[i] = b => i = k
        BY <1>2, <3>1 DEF Distinct
      <3>3. \A i \in 1 .. n : selected[i] # b
        BY <1>4, <2>2 DEF ToSet
      <3>4. n + k \in 1 .. Len(d)
        <4> HIDE DEF n, l, d
        <4> QED
          BY <1>4, <1>5
      <3>5. {i \in 1 .. Len(d) : d[i].block = b} = {n + k}
        <4> HIDE DEF n, l, d
        <4> QED
          BY <1>5, <1>6, <1>7, <3>1, <3>2, <3>3, <3>4
      <3> QED
        BY <3>5, FS_Singleton
    <2> QED
      BY <2>1, <2>2
  <1> QED
    BY <1>5, <1>8, PlacedFacts

LEMMA WeakestInside == AssemblyInv => ValleyShaped
  <1> SUFFICES ASSUME AssemblyInv, pc = "done",
                      NEW i \in 1 .. Len(placed), NEW j \in 1 .. Len(placed), NEW k \in 1 .. Len(placed),
                      i < j, j < k
               PROVE  score[placed[j]] <= score[placed[i]] \/ score[placed[j]] <= score[placed[k]]
    BY DEF ValleyShaped
  <1> DEFINE l == Len(placed)
  <1>1. l \in Nat
    BY KeptFacts, PlacedFacts
  <1>2. From(l, j) < From(l, i) \/ From(l, j) < From(l, k)
    BY <1>1, FromFacts
  <1>3. <<placed[j], placed[i]>> \in Weaker \/ <<placed[j], placed[k]>> \in Weaker
    BY <1>2, PlacedFacts
  <1>4. \A x, y : <<x, y>> \in Weaker => score[x] <= score[y]
    <2> SUFFICES ASSUME NEW x, NEW y, <<x, y>> \in Weaker PROVE score[x] <= score[y]
      OBVIOUS
    <2>1. x \in ToSet(cands) /\ y \in ToSet(cands) /\ (score[x] < score[y] \/ score[x] = score[y])
      BY DEF Weaker, Pairs
    <2> DEFINE v == score[x]
               w == score[y]
    <2>2. v \in 0 .. 100 /\ w \in 0 .. 100 /\ (v < w \/ v = w)
      BY <2>1, GivenTypes DEF AssemblyInv
    <2> HIDE DEF v, w
    <2>3. v <= w
      BY <2>2
    <2> QED
      BY <2>3 DEF v, w
  <1> QED
    BY <1>3, <1>4

LEMMA AccountsHold == AssemblyInv => IInv
  <1> SUFFICES ASSUME AssemblyInv PROVE IInv
    OBVIOUS
  <1>1. Given /\ TypeOK /\ Stages /\ Selection /\ Packing
    BY DEF AssemblyInv
  <1>2. used = TokensOf(Kept) /\ used <= SoftBudget
    BY <1>1 DEF Packing, Kept, KeptOf, TokensOf, Tokens
  <1> DEFINE P == ToSet(pool)
             S == ToSet(selected)
  <1>3. P \cup S \subseteq ToSet(cands)
    <2>1. CASE pc \in {"check", "overflow"}
      BY <1>1, <2>1 DEF Stages, ToSet
    <2>2. CASE pc \notin {"check", "overflow"}
      BY <1>1, <2>2, ChosenTypes DEF Selection
    <2> QED
      BY <2>1, <2>2
  <1>4. Len(pool) + Len(selected) = Cardinality(P \cup S)
    <2>1. Distinct(pool) /\ pool \in Seq(Blocks)
      <3>1. pool \in Seq(P)
        BY <1>1 DEF TypeOK, ToSet
      <3>2. pool \in Seq(ToSet(cands))
        BY <1>3, <3>1
      <3> QED
        BY <1>1, <3>2, InRankIsDistinct DEF Selection, TypeOK
    <2>2. Distinct(selected) /\ selected \in Seq(Blocks) /\ P \cap S = {}
      BY <1>1 DEF Selection, TypeOK
    <2>3. IsFiniteSet(P) /\ Cardinality(P) = Len(pool) /\ Len(pool) \in Nat
      BY <2>1, ListSize
    <2>4. IsFiniteSet(S) /\ Cardinality(S) = Len(selected) /\ Len(selected) \in Nat
      BY <2>2, ListSize
    <2>5. Cardinality(P \cup S) = Cardinality(P) + Cardinality(S) - Cardinality(P \cap S)
      BY <2>3, <2>4, FS_Union
    <2>6. Cardinality(P \cap S) = 0
      BY <2>2, FS_EmptySet
    <2> HIDE DEF P, S
    <2> QED
      BY <2>3, <2>4, <2>5, <2>6
  <1>5. pc = "pack" => \A i \in 1 .. Len(decisions) : decisions[i].block = selected[i]
    <2>1. Len(selected) \in Nat /\ Len(decisions) \in Nat
      BY <1>1 DEF TypeOK
    <2> QED
      BY <1>1, <2>1 DEF Packing, Judged
  <1> QED
    BY <1>1, <1>2, <1>3, <1>4, <1>5, EachHasItsVerdict, WeakestInside DEF IInv

-----------------------------------------------------------------------------
(* The assembly has one outcome.                                           *)

LEMMA NearestExists ==
    ASSUME NEW b \in Blocks, NEW s \in Seq(Blocks), NEW n \in 0 .. Len(s)
    PROVE  \E x \in 0 .. 100 : Nearest(x, b, s, n)
  <1> DEFINE V == Nearness(b, s, n)
             N == {u \in Nat : \A y \in V : y <= u}
  <1>1. V \subseteq -100 .. 100 /\ 0 \in V
    BY NearestFacts DEF Nearness
  <1>2. \A y \in V : y \in Int /\ y <= 100
    <2>1. \A y \in -100 .. 100 : y \in Int /\ y <= 100
      OBVIOUS
    <2> HIDE DEF V
    <2> QED
      BY <1>1, <2>1, Zenon
  <1> HIDE DEF V
  <1>3. 100 \in N
    BY <1>2
  <1>4. PICK m \in N : \A u \in N : m <= u
    <2>1. N \in SUBSET Nat /\ N # {}
      BY <1>3
    <2> HIDE DEF N
    <2> QED
      BY <2>1, Least
  <1>5. m \in V
    <2> SUFFICES ASSUME m \notin V PROVE FALSE
      OBVIOUS
    <2>1. m \in Nat /\ m # 0 /\ \A y \in V : y <= m /\ y # m
      BY <1>1, <1>4
    <2>2. m - 1 \in Nat /\ \A y \in V : y <= m - 1
      BY <1>2, <2>1
    <2>3. m - 1 \in N
      BY <2>2
    <2> QED
      BY <1>4, <2>1, <2>3
  <1>6. Nearest(m, b, s, n)
    BY <1>4, <1>5 DEF Nearest, V
  <1> QED
    BY <1>6, NearestFacts

(* s is a complete selection, and d complete verdicts on it.               *)
Outcome(s, d) ==
    /\ s \in Seq(Blocks) /\ Distinct(s) /\ ToSet(s) = ToSet(Top)
    /\ \A n \in 1 .. Len(s) : Picks(s, n)
    /\ Len(d) \in Nat /\ Len(d) >= Len(s) /\ Judged(s, d)

PromptOf(d) == Edges(Ordered(KeptOf(d, Len(d)), Weaker))

(* Each round has one choice, for the order of the ranking breaks its ties.*)
LEMMA SelectionIsUnique ==
    ASSUME Given, NEW s, NEW d, Outcome(s, d), NEW t, NEW e, Outcome(t, e)
    PROVE  s = t
  <1>1. /\ s \in Seq(Blocks) /\ Distinct(s) /\ ToSet(s) = ToSet(Top)
        /\ t \in Seq(Blocks) /\ Distinct(t) /\ ToSet(t) = ToSet(Top)
    BY DEF Outcome
  <1> DEFINE l == Len(s)
  <1>2. l \in Nat /\ Len(t) = l /\ DOMAIN s = 1 .. l /\ DOMAIN t = 1 .. l
    <2>1. Len(s) = Cardinality(ToSet(Top)) /\ Len(t) = Cardinality(ToSet(Top))
      BY <1>1, ListSize
    <2> QED
      BY <1>1, <2>1
  <1> HIDE DEF l
  <1> DEFINE Bad == {n \in 1 .. l : s[n] # t[n]}
  <1>3. Bad = {}
    <2> SUFFICES ASSUME Bad # {} PROVE FALSE
      OBVIOUS
    <2>1. PICK n \in Bad : \A m \in Bad : n <= m
      <3>1. Bad \in SUBSET Nat
        BY <1>2
      <3> HIDE DEF Bad
      <3> QED
        BY <3>1, Least
    <2>2. n \in 1 .. l /\ s[n] # t[n]
      OBVIOUS
    <2>3. \A m \in 1 .. n - 1 : s[m] = t[m]
      <3> SUFFICES ASSUME NEW m \in 1 .. n - 1, s[m] # t[m] PROVE FALSE
        OBVIOUS
      <3>1. m \in 1 .. l /\ m < n
        BY <1>2, <2>2
      <3>2. m \in Bad
        BY <3>1
      <3> QED
        BY <1>2, <2>1, <2>2, <3>1, <3>2
    <2> DEFINE a == s[n]
               b == t[n]
    <2>4. /\ a \in ToSet(Top) /\ b \in ToSet(Top) /\ a \in Blocks /\ b \in Blocks
          /\ a \in ToSet(cands) /\ b \in ToSet(cands)
      <3>1. a \in ToSet(s) /\ b \in ToSet(t)
        BY <1>2, <2>2 DEF ToSet
      <3>2. ToSet(Top) \subseteq ToSet(cands) /\ ToSet(cands) \subseteq Blocks
        BY TopFacts, GivenTypes DEF ToSet
      <3> QED
        BY <1>1, <3>1, <3>2
    <2>5. (\A m \in 1 .. n : s[m] # b) /\ (\A m \in 1 .. n : t[m] # a)
      <3>1. \A m \in 1 .. n : m \in 1 .. l /\ (m = n \/ (m # n /\ m \in 1 .. n - 1))
        BY <1>2, <2>2
      <3>2. \A i, j \in 1 .. l : (s[i] = s[j] => i = j) /\ (t[i] = t[j] => i = j)
        BY <1>1, <1>2 DEF Distinct, l
      <3> QED
        BY <2>2, <2>3, <3>1, <3>2
    <2>6. n - 1 \in 0 .. Len(s) /\ n - 1 \in 0 .. Len(t)
      BY <1>2, <2>2 DEF l
    <2>7. PICK x \in 0 .. 100, y \in 0 .. 100 :
            Nearest(x, a, s, n - 1) /\ Nearest(y, b, s, n - 1)
      BY <1>1, <2>4, <2>6, NearestExists
    <2>8. Nearest(x, a, t, n - 1) /\ Nearest(y, b, t, n - 1)
      BY <2>3, <2>7 DEF Nearest, Nearness
    <2>9. Picks(s, n) /\ Picks(t, n)
      BY <1>2, <2>2 DEF Outcome, l
    <2> HIDE DEF Bad
    <2>10. Worth(a, x) > Worth(b, y) \/ (Worth(a, x) = Worth(b, y) /\ <<a, b>> \in Better)
      BY <2>4, <2>5, <2>7, <2>9 DEF Picks
    <2>11. Worth(b, y) > Worth(a, x) \/ (Worth(b, y) = Worth(a, x) /\ <<b, a>> \in Better)
      BY <2>4, <2>5, <2>8, <2>9 DEF Picks
    <2>12. Worth(a, x) \in Int /\ Worth(b, y) \in Int
      <3>1. score[a] \in Int /\ score[b] \in Int /\ Lambda \in Int
        <4>1. score[a] \in 0 .. 100 /\ score[b] \in 0 .. 100
          BY <2>4, GivenTypes
        <4> HIDE DEF a, b
        <4> QED
          BY <4>1, LimitsAssumption
      <3>2. \A u, v, w \in Int : u * v - (100 - u) * w \in Int
        OBVIOUS
      <3> HIDE DEF a, b
      <3> QED
        BY <3>1, <3>2 DEF Worth
    <2>13. ~ (<<a, b>> \in Better /\ <<b, a>> \in Better)
      <3>1. Lines(Better, ToSet(cands))
        BY CandidatesLineUp
      <3> QED
        BY <2>4, <3>1 DEF Lines
    <2> HIDE DEF a, b
    <2> QED
      BY <2>10, <2>11, <2>12, <2>13
  <1>4. \A n \in 1 .. l : s[n] = t[n]
    BY <1>3
  <1> QED
    BY <1>1, <1>2, <1>4

(* And each verdict depends on those before it alone.                      *)
LEMMA VerdictsAreUnique ==
    ASSUME NEW s, NEW d, Outcome(s, d), NEW e, Outcome(s, e)
    PROVE  KeptOf(d, Len(d)) = KeptOf(e, Len(e))
  <1> DEFINE l == Len(s)
  <1>1. /\ l \in Nat /\ Len(d) \in Nat /\ Len(e) \in Nat /\ Len(d) >= l /\ Len(e) >= l
    BY DEF Outcome
  <1>2. /\ \A i \in 1 .. l : /\ d[i].block = s[i]
                             /\ d[i].kept <=> Tokens(size, KeptOf(d, i - 1)) + size[s[i]] <= SoftBudget
                             /\ e[i].block = s[i]
                             /\ e[i].kept <=> Tokens(size, KeptOf(e, i - 1)) + size[s[i]] <= SoftBudget
        /\ \A i \in 1 .. Len(d) : d[i].kept => i \in 1 .. l
        /\ \A i \in 1 .. Len(e) : e[i].kept => i \in 1 .. l
    <2>1. \A i \in 1 .. l : i \in 1 .. Len(d) /\ i \in 1 .. Len(e) /\ i <= Len(s)
      BY <1>1
    <2>2. \A i : (i \in 1 .. Len(d) \/ i \in 1 .. Len(e)) /\ i <= Len(s) => i \in 1 .. l
      BY <1>1
    <2> QED
      BY <2>1, <2>2 DEF Outcome, Judged
  <1> DEFINE Bad == {n \in 1 .. l : ~ (d[n].kept <=> e[n].kept)}
  <1>3. Bad = {}
    <2> SUFFICES ASSUME Bad # {} PROVE FALSE
      OBVIOUS
    <2>1. PICK n \in Bad : \A m \in Bad : n <= m
      <3>1. Bad \in SUBSET Nat
        BY <1>1
      <3> HIDE DEF Bad
      <3> QED
        BY <3>1, Least
    <2>2. n \in 1 .. l /\ ~ (d[n].kept <=> e[n].kept)
      OBVIOUS
    <2>3. \A m \in 1 .. n - 1 : m \in 1 .. l /\ (d[m].kept <=> e[m].kept)
      <3> SUFFICES ASSUME NEW m \in 1 .. n - 1 PROVE m \in 1 .. l /\ (d[m].kept <=> e[m].kept)
        OBVIOUS
      <3>1. m \in 1 .. l /\ m < n
        BY <1>1, <2>2
      <3>2. m \notin Bad
        <4> HIDE DEF Bad
        <4> QED
          BY <1>1, <2>1, <2>2, <3>1
      <3> QED
        BY <3>1, <3>2
    <2>4. KeptOf(d, n - 1) = KeptOf(e, n - 1)
      <3> HIDE DEF l, Bad
      <3>1. KeptOf(d, n - 1) = {s[i] : i \in {j \in 1 .. n - 1 : d[j].kept}}
        BY <1>2, <2>3 DEF KeptOf
      <3>2. KeptOf(e, n - 1) = {s[i] : i \in {j \in 1 .. n - 1 : e[j].kept}}
        BY <1>2, <2>3 DEF KeptOf
      <3> QED
        BY <2>3, <3>1, <3>2
    <2> HIDE DEF Bad, l
    <2> QED
      BY <1>2, <2>2, <2>4
  <1>4. \A n \in 1 .. l : d[n].kept <=> e[n].kept
    BY <1>3
  <1>5. KeptOf(d, Len(d)) = {s[i] : i \in {j \in 1 .. l : d[j].kept}}
    <2>1. {j \in 1 .. Len(d) : d[j].kept} = {j \in 1 .. l : d[j].kept}
      BY <1>1, <1>2
    <2> QED
      BY <1>2, <2>1 DEF KeptOf
  <1>6. KeptOf(e, Len(e)) = {s[i] : i \in {j \in 1 .. l : e[j].kept}}
    <2>1. {j \in 1 .. Len(e) : e[j].kept} = {j \in 1 .. l : e[j].kept}
      BY <1>1, <1>2
    <2> QED
      BY <1>2, <2>1 DEF KeptOf
  <1> HIDE DEF l
  <1> QED
    BY <1>4, <1>5, <1>6

(* So the same candidates, scores, sizes and budget give the same prompt.  *)
LEMMA OutcomeIsUnique ==
    ASSUME Given, NEW s, NEW d, Outcome(s, d), NEW t, NEW e, Outcome(t, e)
    PROVE  PromptOf(d) = PromptOf(e)
  <1>1. s = t
    BY SelectionIsUnique
  <1>2. KeptOf(d, Len(d)) = KeptOf(e, Len(e))
    BY <1>1, VerdictsAreUnique
  <1> QED
    BY <1>2 DEF PromptOf

-----------------------------------------------------------------------------
(* Replay.                                                                 *)

(* What a bundle holds: the inputs of the assembly under way, which cannot *)
(* overflow, and the prompt of a complete outcome of theirs.               *)
Captured ==
    stage \notin {"chat", "broken"} =>
        /\ pc # "overflow" /\ HardFloor <= budget.window
        /\ \E s, d :
             /\ Outcome(s, d)
             /\ bundle = [cands |-> cands, score |-> score, size |-> size, budget |-> budget,
                          prompt |-> Render(PromptOf(d))]

ReplayInv ==
    /\ AssemblyInv /\ ReplayTypeOK /\ Captured
    /\ report # NoReport => report.prompt_equal

LEMMA OutcomeStays ==
    ASSUME UNCHANGED inputs, NEW s, NEW d
    PROVE  /\ Outcome(s, d)' <=> Outcome(s, d)
           /\ PromptOf(d)' = PromptOf(d)
           /\ \A blocks : Render(blocks)' = Render(blocks)
  <1>1. /\ cands' = cands /\ score' = score /\ size' = size /\ budget' = budget
        /\ Better' = Better /\ Weaker' = Weaker /\ Top' = Top /\ SoftBudget' = SoftBudget
    BY SameInputs
  <1>2. \A n : Picks(s, n)' <=> Picks(s, n)
    BY <1>1 DEF Picks, Worth, Nearest, Nearness
  <1>3. Judged(s, d)' <=> Judged(s, d)
    BY <1>1 DEF Judged
  <1>4. Outcome(s, d)' <=> Outcome(s, d)
    BY <1>1, <1>2, <1>3 DEF Outcome, Distinct
  <1>5. PromptOf(d)' = PromptOf(d)
    BY <1>1 DEF PromptOf, KeptOf, Edges
  <1>6. \A blocks : Render(blocks)' = Render(blocks)
    BY <1>1 DEF Render, Message
  <1> QED
    BY <1>4, <1>5, <1>6

LEMMA CapturedStays ==
    ASSUME Captured, UNCHANGED inputs, UNCHANGED bundle,
           stage \notin {"chat", "broken"}, pc' # "overflow"
    PROVE  Captured'
  <1>1. /\ cands' = cands /\ score' = score /\ size' = size /\ budget' = budget
        /\ HardFloor' = HardFloor
    BY SameInputs
  <1>2. /\ HardFloor <= budget.window
        /\ \E s, d :
             /\ Outcome(s, d)
             /\ bundle = [cands |-> cands, score |-> score, size |-> size, budget |-> budget,
                          prompt |-> Render(PromptOf(d))]
    BY DEF Captured
  <1>3. PICK s, d :
             /\ Outcome(s, d)
             /\ bundle = [cands |-> cands, score |-> score, size |-> size, budget |-> budget,
                          prompt |-> Render(PromptOf(d))]
    BY <1>2
  <1>4. Outcome(s, d)' /\ Render(PromptOf(d))' = Render(PromptOf(d))
    <2>1. Outcome(s, d)' /\ PromptOf(d)' = PromptOf(d) /\ \A blocks : Render(blocks)' = Render(blocks)
      BY <1>3, OutcomeStays
    <2> QED
      BY <1>1, <2>1 DEF Render, Message
  <1>5. bundle' = [cands |-> cands, score |-> score, size |-> size, budget |-> budget,
                   prompt |-> Render(PromptOf(d))]'
    BY <1>1, <1>3, <1>4
  <1> QED
    BY <1>1, <1>2, <1>4, <1>5 DEF Captured

(* A finished assembly has an outcome, and places it.                      *)
LEMMA DoneIsOutcome ==
    ASSUME AssemblyInv, pc = "done"
    PROVE  Outcome(selected, decisions) /\ placed = PromptOf(decisions)
  <1>1. TypeOK /\ Selection /\ Packing /\ Ending /\ Stages
    BY DEF AssemblyInv
  <1>2. ToSet(selected) = ToSet(Top)
    <2>1. ToSet(pool) = {}
      BY <1>1 DEF Stages, ToSet
    <2> QED
      BY <1>1, <2>1 DEF Selection
  <1>3. Len(decisions) \in Nat /\ Len(decisions) >= Len(selected)
    BY <1>1, PlacedFacts DEF TypeOK
  <1> QED
    BY <1>1, <1>2, <1>3 DEF Outcome, PromptOf, Selection, Packing, Ending, TypeOK

(* The assembler leaves its inputs alone, and refuses at the start only.   *)
LEMMA NextFacts ==
    ASSUME Next
    PROVE  /\ UNCHANGED inputs
           /\ pc' = "overflow" => HardFloor > budget.window
  BY DEF Next, Check, EmbedFails, Select, SelectEnds, Pack, Finish

LEMMA AssembleStep == ReplayInv /\ Assemble => ReplayInv'
  <1> SUFFICES ASSUME ReplayInv, Assemble PROVE ReplayInv'
    OBVIOUS
  <1>1. Next /\ UNCHANGED <<stage, bundle, recorded, report>> /\ stage \in {"chat", "replay"}
    BY DEF Assemble
  <1>2. AssemblyInv'
    BY <1>1, AssemblyStep DEF ReplayInv
  <1>3. Captured'
    <2>1. CASE stage = "chat"
      BY <1>1, <2>1 DEF Captured
    <2>2. CASE stage = "replay"
      <3>1. HardFloor <= budget.window /\ HardFloor \in Nat /\ budget.window \in Nat
        BY <2>2, GivenTypes DEF ReplayInv, Captured, AssemblyInv
      <3>2. UNCHANGED inputs /\ pc' # "overflow"
        BY <1>1, <3>1, NextFacts
      <3> QED
        BY <1>1, <2>2, <3>2, CapturedStays DEF ReplayInv
    <2> QED
      BY <1>1, <2>1, <2>2
  <1> QED
    BY <1>1, <1>2, <1>3 DEF ReplayInv, ReplayTypeOK

(* Steps of the replay that leave the assembly as it is.                   *)
LEMMA AssemblyStands ==
    ASSUME ReplayInv, UNCHANGED vars
    PROVE  AssemblyInv' /\ UNCHANGED inputs /\ pc' = pc
  BY AssemblyStep DEF ReplayInv, vars

LEMMA BreakStep == ReplayInv /\ Break => ReplayInv'
  <1> SUFFICES ASSUME ReplayInv, Break PROVE ReplayInv'
    OBVIOUS
  <1>1. /\ UNCHANGED <<vars, bundle, recorded, report>> /\ UNCHANGED vars
        /\ stage \in {"chat", "replay"} /\ stage' = IF stage = "chat" THEN "broken" ELSE "ended"
    BY DEF Break
  <1>2. AssemblyInv' /\ UNCHANGED inputs /\ pc' = pc
    BY <1>1, AssemblyStands
  <1>3. Captured'
    <2>1. CASE stage = "chat"
      BY <1>1, <2>1 DEF Captured
    <2>2. CASE stage = "replay"
      <3>1. Captured /\ pc' # "overflow"
        BY <1>2, <2>2 DEF ReplayInv, Captured
      <3> QED
        BY <1>1, <1>2, <2>2, <3>1, CapturedStays
    <2> QED
      BY <1>1, <2>1, <2>2
  <1>4. ReplayTypeOK'
    BY <1>1 DEF ReplayInv, ReplayTypeOK, NoBundle
  <1> QED
    BY <1>1, <1>2, <1>3, <1>4 DEF ReplayInv

LEMMA CaptureStep == ReplayInv /\ Capture => ReplayInv'
  <1> SUFFICES ASSUME ReplayInv, Capture PROVE ReplayInv'
    OBVIOUS
  <1>1. /\ stage = "chat" /\ pc = "done" /\ stage' = "invoke"
        /\ UNCHANGED <<vars, recorded, report>> /\ UNCHANGED vars
        /\ bundle' = [cands |-> cands, score |-> score, size |-> size, budget |-> budget,
                      prompt |-> Render(placed)]
    BY DEF Capture
  <1>2. AssemblyInv' /\ UNCHANGED inputs /\ pc' = pc
    BY <1>1, AssemblyStands
  <1>3. Captured'
    <2>1. Outcome(selected, decisions) /\ placed = PromptOf(decisions) /\ HardFloor <= budget.window
      BY <1>1, DoneIsOutcome, PlacedFacts DEF ReplayInv
    <2> DEFINE b == [cands |-> cands, score |-> score, size |-> size, budget |-> budget,
                     prompt |-> Render(PromptOf(decisions))]
    <2>2. bundle' = b
      BY <1>1, <2>1
    <2>3. PICK s, d : s = selected /\ d = decisions
      OBVIOUS
    <2>4. Outcome(s, d)' /\ PromptOf(d)' = PromptOf(d) /\ \A blocks : Render(blocks)' = Render(blocks)
      BY <1>2, <2>1, <2>3, OutcomeStays
    <2>5. /\ cands' = cands /\ score' = score /\ size' = size /\ budget' = budget
          /\ HardFloor' = HardFloor
      BY <1>2, SameInputs
    <2>6. Render(PromptOf(d))' = Render(PromptOf(d))
      BY <2>4, <2>5 DEF Render, Message
    <2>7. bundle' = [cands |-> cands, score |-> score, size |-> size, budget |-> budget,
                     prompt |-> Render(PromptOf(d))]'
      BY <2>2, <2>3, <2>5, <2>6
    <2> QED
      BY <1>1, <1>2, <2>1, <2>4, <2>5, <2>7 DEF Captured
  <1>4. ReplayTypeOK'
    <2>1. DOMAIN bundle' # DOMAIN NoBundle
      BY <1>1 DEF NoBundle
    <2>2. bundle' # NoBundle
      BY <2>1
    <2> QED
      BY <1>1, <2>2 DEF ReplayInv, ReplayTypeOK, NoBundle
  <1> QED
    BY <1>1, <1>2, <1>3, <1>4 DEF ReplayInv

LEMMA EndChatStep == ReplayInv /\ EndChat => ReplayInv'
  <1> SUFFICES ASSUME ReplayInv, EndChat PROVE ReplayInv'
    OBVIOUS
  <1>1. /\ stage = "invoke" /\ stage' = "ended" /\ recorded' \in BOOLEAN
        /\ UNCHANGED <<vars, bundle, report>> /\ UNCHANGED vars
    BY DEF EndChat
  <1>2. AssemblyInv' /\ UNCHANGED inputs /\ pc' = pc
    BY <1>1, AssemblyStands
  <1>3. Captured'
    <2>1. Captured /\ pc' # "overflow"
      BY <1>1, <1>2 DEF ReplayInv, Captured
    <2> QED
      BY <1>1, <1>2, <2>1, CapturedStays
  <1>4. ReplayTypeOK'
    BY <1>1 DEF ReplayInv, ReplayTypeOK, NoBundle
  <1> QED
    BY <1>1, <1>2, <1>3, <1>4 DEF ReplayInv

LEMMA ReplayTraceStep == ReplayInv /\ ReplayTrace => ReplayInv'
  <1> SUFFICES ASSUME ReplayInv, ReplayTrace PROVE ReplayInv'
    OBVIOUS
  <1>1. /\ stage = "ended" /\ stage' = "replay" /\ report' = NoReport /\ pc' = "check"
        /\ cands' = bundle.cands /\ score' = bundle.score
        /\ size' = bundle.size /\ budget' = bundle.budget
        /\ pool' = <<>> /\ selected' = <<>> /\ placed' = <<>> /\ decisions' = <<>>
        /\ maxSim' = [b \in Blocks |-> 0] /\ used' = 0
        /\ bundle' = bundle /\ recorded' = recorded
    BY DEF ReplayTrace
  <1>2. UNCHANGED inputs
    <2>1. \E s, d :
             bundle = [cands |-> cands, score |-> score, size |-> size, budget |-> budget,
                       prompt |-> Render(PromptOf(d))]
      BY <1>1 DEF ReplayInv, Captured
    <2>2. /\ bundle.cands = cands /\ bundle.score = score
          /\ bundle.size = size /\ bundle.budget = budget
      BY <2>1
    <2> QED
      BY <1>1, <2>2 DEF inputs
  <1>3. AssemblyInv'
    <2>1. Begun'
      BY <1>1, <1>2, SameInputs DEF Begun, ReplayInv, AssemblyInv
    <2> QED
      BY <2>1, BegunHoldsNext
  <1>4. Captured'
    <2>1. Captured /\ pc' # "overflow"
      BY <1>1 DEF ReplayInv
    <2> QED
      BY <1>1, <1>2, <2>1, CapturedStays
  <1>5. ReplayTypeOK'
    BY <1>1 DEF ReplayInv, ReplayTypeOK, NoBundle
  <1> QED
    BY <1>1, <1>3, <1>4, <1>5 DEF ReplayInv

(* The two prompts are the prompt of the one outcome.                      *)
LEMMA ReportStep == ASSUME NEW m \in Modes PROVE ReplayInv /\ Report(m) => ReplayInv'
  <1> SUFFICES ASSUME ReplayInv, Report(m) PROVE ReplayInv'
    OBVIOUS
  <1> DEFINE equal == Render(placed) = bundle.prompt
  <1>1. /\ stage = "replay" /\ pc = "done" /\ stage' = "ended"
        /\ report' = [mode |-> m, prompt_equal |-> equal,
                      output_equal |-> IF m = "recorded_output" THEN {equal} ELSE {}]
        /\ UNCHANGED <<vars, bundle, recorded>> /\ UNCHANGED vars
    BY DEF Report
  <1>2. AssemblyInv' /\ UNCHANGED inputs /\ pc' = pc
    BY <1>1, AssemblyStands
  <1>3. Captured'
    BY <1>1, <1>2, CapturedStays DEF ReplayInv
  <1>4. equal
    <2>1. PICK s, d :
             /\ Outcome(s, d)
             /\ bundle = [cands |-> cands, score |-> score, size |-> size, budget |-> budget,
                          prompt |-> Render(PromptOf(d))]
      BY <1>1 DEF ReplayInv, Captured
    <2>2. Outcome(selected, decisions) /\ placed = PromptOf(decisions)
      BY <1>1, DoneIsOutcome DEF ReplayInv
    <2>3. PromptOf(decisions) = PromptOf(d)
      BY <2>1, <2>2, OutcomeIsUnique DEF ReplayInv, AssemblyInv
    <2>4. bundle.prompt = Render(PromptOf(d))
      BY <2>1
    <2> QED
      BY <2>2, <2>3, <2>4
  <1>5. report'.prompt_equal
    <2>1. report'.prompt_equal = equal
      BY <1>1
    <2> QED
      BY <1>4, <2>1
  <1>6. ReplayTypeOK'
    BY <1>1 DEF ReplayInv, ReplayTypeOK, NoBundle
  <1> QED
    BY <1>2, <1>3, <1>5, <1>6 DEF ReplayInv

LEMMA ReplayStep == ReplayInv /\ [ReplayNext]_replayVars => ReplayInv'
  <1> SUFFICES ASSUME ReplayInv, [ReplayNext]_replayVars PROVE ReplayInv'
    OBVIOUS
  <1>1. CASE ReplayNext
    BY <1>1, AssembleStep, BreakStep, CaptureStep, EndChatStep, ReplayTraceStep, ReportStep
    DEF ReplayNext
  <1>2. CASE UNCHANGED replayVars
    <2>1. UNCHANGED vars /\ stage' = stage /\ bundle' = bundle /\ recorded' = recorded /\ report' = report
      BY <1>2 DEF replayVars
    <2>2. AssemblyInv' /\ UNCHANGED inputs /\ pc' = pc
      BY <2>1, AssemblyStands
    <2>3. Captured'
      <3>1. CASE stage \in {"chat", "broken"}
        BY <2>1, <3>1 DEF Captured
      <3>2. CASE stage \notin {"chat", "broken"}
        <4>1. Captured /\ pc' # "overflow"
          BY <2>2, <3>2 DEF ReplayInv, Captured
        <4> QED
          BY <2>1, <2>2, <3>2, <4>1, CapturedStays
      <3> QED
        BY <3>1, <3>2
    <2> QED
      BY <2>1, <2>2, <2>3 DEF ReplayInv, ReplayTypeOK
  <1> QED
    BY <1>1, <1>2

LEMMA ReplayInvHolds == ReplaySpec => []ReplayInv
  <1>1. ReplayInit => ReplayInv
    <2> SUFFICES ASSUME ReplayInit PROVE ReplayInv
      OBVIOUS
    <2>1. AssemblyInv
      BY InitHolds, BegunHolds DEF ReplayInit
    <2>2. stage = "chat" /\ bundle = NoBundle /\ recorded = FALSE /\ report = NoReport
      BY DEF ReplayInit
    <2> QED
      BY <2>1, <2>2 DEF ReplayInv, ReplayTypeOK, Captured
  <1> QED
    BY <1>1, ReplayStep, PTL DEF ReplaySpec

(* Whatever the candidates, scores, sizes, similarities and budgets, what is *)
(* packed is counted, each candidate has one verdict that tells whether it is*)
(* in the prompt, and the strong are at the edges (assembler/engine.py).     *)
THEOREM AccountsOfAssembly == ReplaySpec => []IInv
  <1>1. ReplayInv => IInv
    BY AccountsHold DEF ReplayInv
  <1> QED
    BY <1>1, ReplayInvHolds, PTL

(* The texts of the memories in a prompt fit what the reserves leave of the     *)
(* window, as the knapsack counts them (assembler/engine.py:157-166); what the  *)
(* prompt adds around them it does not count.                                   *)
THEOREM BlocksFitTheWindow == ReplaySpec => []PackedBlocksFit
  <1>1. ReplayInv => PackedBlocksFit
    BY BlocksFit DEF ReplayInv
  <1> QED
    BY <1>1, ReplayInvHolds, PTL

(* No memory that was left out would still fit (assembler/engine.py:157-166).*)
THEOREM PacksMaximally == ReplaySpec => []NoRoomForEvicted
  <1>1. ReplayInv => NoRoomForEvicted
    BY LeftOutDoesNotFit DEF ReplayInv
  <1> QED
    BY <1>1, ReplayInvHolds, PTL

(* A candidate of the best score is in the prompt, if those of that score    *)
(* fit at all (assembler/engine.py:123-166).                                 *)
THEOREM PlacesTheBest == ReplaySpec => []BestIsPlaced
  <1>1. ReplayInv => BestIsPlaced
    BY BestIsKept DEF ReplayInv
  <1> QED
    BY <1>1, ReplayInvHolds, PTL

(* A replay that ends has made the prompt of the chat, since the assembler   *)
(* has one outcome, and the bundle holds all of it that it depends on        *)
(* (replay/engine.py:116-141).                                               *)
THEOREM Reproduces == ReplaySpec => []ReplayReproduces
  <1>1. ReplayInv => ReplayReproduces
    BY DEF ReplayInv, ReplayReproduces, Captured
  <1> QED
    BY <1>1, ReplayInvHolds, PTL

-----------------------------------------------------------------------------
(* The compressor.                                                         *)

LEMMA TextTypes ==
    ASSUME CompressTypeOK
    PROVE  /\ text.sents \in Seq(Sentence) /\ text.junk \in Nat /\ text.slack \in Nat
           /\ Len(text.sents) \in Nat /\ IsFiniteSet(All) /\ Cardinality(All) = Len(text.sents)
           /\ target \in Nat
           /\ \A i \in All : /\ text.sents[i].len \in Nat /\ text.sents[i].overlap \in Nat
                             /\ text.sents[i].facts \subseteq Facts
                             /\ Lengths[i] \in Nat /\ Costs[i] \in Nat
  <1>1. text.sents \in Seq(Sentence) /\ text.junk \in Nat /\ text.slack \in Nat /\ target \in Nat
    BY TextsAssumption DEF CompressTypeOK
  <1>2. Len(text.sents) \in Nat /\ \A i \in All : text.sents[i] \in Sentence
    BY <1>1 DEF All
  <1>3. IsFiniteSet(All) /\ Cardinality(All) = Len(text.sents)
    <2>1. All = 1 .. Len(text.sents)
      BY DEF All
    <2>2. IsFiniteSet(1 .. Len(text.sents)) /\ Cardinality(1 .. Len(text.sents)) = Len(text.sents)
      BY <1>2, FS_Interval
    <2> QED
      BY <2>1, <2>2
  <1>4. ASSUME NEW i \in All
        PROVE  /\ text.sents[i].len \in Nat /\ text.sents[i].overlap \in Nat
               /\ text.sents[i].facts \subseteq Facts
               /\ Lengths[i] \in Nat /\ Costs[i] \in Nat
    <2>1. text.sents[i].len \in Nat /\ text.sents[i].overlap \in Nat
          /\ text.sents[i].facts \subseteq Facts
      BY <1>2 DEF Sentence
    <2>2. Lengths[i] = text.sents[i].len /\ Costs[i] = (text.sents[i].len + 3) \div 4
      BY DEF Lengths, Costs, Count
    <2> QED
      BY <2>1, <2>2
  <1> QED
    BY <1>1, <1>2, <1>3, <1>4

(* The sum of some sentences' weights is a number, and one more adds its own.*)
LEMMA SumAdds ==
    ASSUME NEW S, IsFiniteSet(S), NEW w, NEW i, i \notin S, \A j \in S \cup {i} : w[j] \in Nat
    PROVE  SumOf(w, S) \in Nat /\ SumOf(w, S \cup {i}) = SumOf(w, S) + w[i]
  BY TokensAdd DEF Tokens, SumOf

LEMMA SumIsNat ==
    ASSUME NEW S, IsFiniteSet(S), NEW w, \A j \in S : w[j] \in Nat
    PROVE  SumOf(w, S) \in Nat
  <1>1. Totals(Tokens(w, S), w, S)
    BY TokensAreTotal
  <1>2. Tokens(w, S) \in Nat
    BY <1>1, TotalsAdd
  <1> QED
    BY <1>2 DEF Tokens, SumOf

LEMMA NothingSums == ASSUME NEW w PROVE SumOf(w, {}) = 0
  <1>1. SumOf(w, {}) = Tokens(w, {})
    BY Zenon DEF Tokens, SumOf
  <1> QED
    BY <1>1, NoTokens

LEMMA SentencesLineUp ==
    ASSUME CompressTypeOK
    PROVE  Lines(Closer, All)
  <1> DEFINE v == [i \in All |-> text.sents[i].overlap]
  <1>1. \A i \in All : v[i] \in Nat /\ i \in Nat
    BY TextTypes DEF All
  <1>2. \A x, y \in All : <<x, y>> \in Closer <=> v[x] > v[y] \/ (v[x] = v[y] /\ x < y)
    BY DEF Closer
  <1> HIDE DEF v
  <1> QED
    BY <1>1, <1>2 DEF Lines

(* All sentences are considered, each once, the closest to the query first. *)
LEMMA RankingFacts ==
    ASSUME CompressTypeOK
    PROVE  /\ MostRelevantFirst \in Seq(All) /\ ToSet(MostRelevantFirst) = All
           /\ Distinct(MostRelevantFirst)
           /\ MostRelevantFirst # <<>> =>
                \A j \in All : text.sents[MostRelevantFirst[1]].overlap >= text.sents[j].overlap
  <1> DEFINE o == MostRelevantFirst
             n == Cardinality(All)
  <1>1. /\ o \in Seq(All) /\ Len(o) = n /\ ToSet(o) = All
        /\ \A i, j \in 1 .. n : i < j => <<o[i], o[j]>> \in Closer
    BY TextTypes, SentencesLineUp, OrderedLists DEF MostRelevantFirst
  <1>2. \A i \in All : text.sents[i].overlap \in Nat
    BY TextTypes
  <1>3. \A x \in All : <<x, x>> \notin Closer
    BY SentencesLineUp DEF Lines
  <1>4. Len(o) \in Nat /\ \A i \in 1 .. Len(o) : o[i] \in All
    BY <1>1
  <1>5. Distinct(o)
    <2> SUFFICES ASSUME NEW i \in 1 .. Len(o), NEW j \in 1 .. Len(o), o[i] = o[j], i # j
                 PROVE  FALSE
      BY DEF Distinct
    <2>1. i < j \/ j < i
      BY <1>4
    <2> HIDE DEF o, n
    <2> QED
      BY <1>1, <1>3, <1>4, <2>1
  <1>6. ASSUME o # <<>>, NEW j \in All
        PROVE  text.sents[o[1]].overlap >= text.sents[j].overlap
    <2>1. PICK k \in 1 .. Len(o) : o[k] = j
      BY <1>1 DEF ToSet
    <2>2. 1 \in 1 .. Len(o) /\ o[1] \in All
      BY <1>4, <2>1
    <2>3. CASE k = 1
      BY <1>2, <2>1, <2>2, <2>3
    <2>4. CASE k # 1
      <3>1. 1 < k
        BY <1>4, <2>1, <2>4
      <3>2. <<o[1], j>> \in Closer
        <4> HIDE DEF o, n
        <4> QED
          BY <1>1, <2>1, <2>2, <3>1
      <3> QED
        BY <1>2, <2>2, <3>2 DEF Closer
    <2> QED
      BY <2>3, <2>4
  <1> QED
    BY <1>1, <1>5, <1>6

(* Some kept sentence is as close to the query as any.                     *)
ClosestIsKept == \E i \in kept : \A j \in All : text.sents[i].overlap >= text.sents[j].overlap

(* What is kept costs what was spent; only a single sentence, which then is *)
(* the last, may cost more than the target; and while the target is not     *)
(* reached, a sentence is kept, or to be considered, or too long to be added*)
CompressInv ==
    /\ CompressTypeOK
    /\ spent = SumOf(Costs, kept)
    /\ Distinct(todo) /\ ToSet(todo) \cap kept = {}
    /\ spent > target => Cardinality(kept) = 1 /\ todo = <<>>
    /\ kept # {} => ClosestIsKept
    /\ step = "structural" => kept = {} /\ todo = <<>> /\ tier = "none"
    /\ step \in {"select", "summarize"} \/ tier \in {"extractive", "abstractive"} =>
         /\ kept = {} => todo = MostRelevantFirst
         /\ spent < target =>
              \A i \in All \ kept : i \in ToSet(todo) \/ spent + Costs[i] > target
    /\ step \in {"summarize", "done"} => todo = <<>>
    /\ step = "summarize" => Count(Extract.len) > target
    /\ step \in {"structural", "select", "summarize"} => tier = "none"
    /\ NothingFabricated /\ SummaryPaysOff

LEMMA CompressInitHolds == CompressInit => CompressInv
  <1> SUFFICES ASSUME CompressInit PROVE CompressInv
    OBVIOUS
  <1>1. CompressTypeOK
    BY DEF CompressInit, CompressTypeOK, Unfinished
  <1>2. SumOf(Costs, {}) = 0
    BY NothingSums
  <1>3. target \in Nat /\ todo = <<>> /\ ToSet(<<>>) = {} /\ Len(<<>>) = 0
    BY <1>1, TextTypes DEF CompressInit, ToSet
  <1> QED
    BY <1>1, <1>2, <1>3 DEF CompressInit, CompressInv, Distinct, NothingFabricated, SummaryPaysOff

(* The lengths and facts of what may be returned.                          *)
LEMMA ResultTypes ==
    ASSUME CompressTypeOK
    PROVE  /\ Tidied.len \in Nat /\ Tidied.facts \subseteq Facts /\ Tidied.facts = Original.facts
           /\ Original.facts \subseteq Facts
           /\ Extract.facts \subseteq Original.facts
           /\ (All = {} \/ kept # {}) => Extract.len \in Nat
  <1>1. SumOf(Lengths, All) \in Nat
    BY TextTypes, SumIsNat
  <1>2. FactsOf(All) \subseteq Facts /\ FactsOf(kept) \subseteq FactsOf(All)
    BY TextTypes DEF FactsOf, CompressTypeOK
  <1>3. Tidied.len \in Nat /\ Tidied.facts = FactsOf(All) /\ Original.facts = FactsOf(All)
    BY <1>1, TextTypes DEF Tidied, Original
  <1>4. IsFiniteSet(kept) /\ SumOf(Lengths, kept) \in Nat
    <2>1. IsFiniteSet(kept) /\ \A j \in kept : Lengths[j] \in Nat
      BY TextTypes, FS_Subset DEF CompressTypeOK
    <2> QED
      BY <2>1, SumIsNat
  <1>5. Cardinality(kept) \in Nat /\ (kept # {} => Cardinality(kept) # 0)
    BY <1>4, FS_CardinalityType, FS_EmptySet
  <1>6. All # {} => /\ Extract.len = SumOf(Lengths, kept) + Cardinality(kept) - 1
                    /\ Extract.facts = FactsOf(kept)
    BY DEF Extract
  <1>7. All = {} => Extract = Tidied
    BY DEF Extract
  <1> QED
    BY <1>2, <1>3, <1>4, <1>5, <1>6, <1>7

(* Text and selection stay, so what they give does.                        *)
LEMMA SelectionGives ==
    ASSUME UNCHANGED <<text, target, todo, kept, spent>>
    PROVE  /\ All' = All /\ Costs' = Costs /\ Lengths' = Lengths
           /\ SumOf(Costs, kept)' = SumOf(Costs, kept)
           /\ Tidied' = Tidied /\ Original' = Original /\ Extract' = Extract
           /\ MostRelevantFirst' = MostRelevantFirst
           /\ ClosestIsKept' <=> ClosestIsKept
  <1>1. All' = All /\ Costs' = Costs /\ Lengths' = Lengths
    BY DEF All, Costs, Lengths
  <1>3. SumOf(Costs, kept)' = SumOf(Costs, kept) /\ SumOf(Lengths, kept)' = SumOf(Lengths, kept)
        /\ SumOf(Lengths, All)' = SumOf(Lengths, All)
    BY <1>1
  <1>4. FactsOf(All)' = FactsOf(All) /\ FactsOf(kept)' = FactsOf(kept)
    BY <1>1 DEF FactsOf
  <1>5. Tidied' = Tidied /\ Original' = Original
    BY <1>3, <1>4 DEF Tidied, Original
  <1>6. Extract' = Extract
    BY <1>1, <1>3, <1>4, <1>5 DEF Extract
  <1>7. Closer' = Closer
    BY <1>1 DEF Closer
  <1>8. MostRelevantFirst' = MostRelevantFirst
    BY <1>1, <1>7 DEF MostRelevantFirst
  <1> QED
    BY <1>1, <1>3, <1>5, <1>6, <1>8 DEF ClosestIsKept

(* The end: whatever is returned is of the right type and made up nowhere. *)
LEMMA Ends ==
    ASSUME CompressInv, UNCHANGED <<text, target, kept, spent, todo>>, todo = <<>>, step' = "done",
           out'.len \in Nat, out'.facts \subseteq Original.facts,
           \/ tier' = "structural"
           \/ /\ tier' \in {"extractive", "abstractive"} /\ step \in {"select", "summarize"}
              /\ tier' = "abstractive" =>
                   Count(Extract.len) > target /\ Count(out'.len) <= Count(Extract.len)
    PROVE  CompressInv'
  <1>1. CompressTypeOK'
    <2>1. Original.facts \subseteq Facts
      BY ResultTypes DEF CompressInv
    <2>2. All' = All
      BY SelectionGives
    <2> QED
      BY <2>1, <2>2 DEF CompressInv, CompressTypeOK
  <1>2. NothingFabricated'
    BY <1>1, SelectionGives DEF NothingFabricated
  <1>3. SummaryPaysOff'
    BY SelectionGives DEF SummaryPaysOff, Count
  <1> QED
    BY <1>1, <1>2, <1>3, SelectionGives DEF CompressInv, Distinct, ToSet

LEMMA StructuralStep == CompressInv /\ Structural => CompressInv'
  <1> SUFFICES ASSUME CompressInv, Structural PROVE CompressInv'
    OBVIOUS
  <1>0. CompressTypeOK /\ kept = {} /\ todo = <<>> /\ step = "structural" /\ tier = "none"
        /\ UNCHANGED <<text, target, kept, spent>>
    BY DEF CompressInv, Structural
  <1>1. CASE Count(Tidied.len) <= target
    <2>1. out' = Tidied /\ tier' = "structural" /\ step' = "done" /\ todo' = todo
      BY <1>1 DEF Structural, Return
    <2> QED
      BY <1>0, <2>1, Ends, ResultTypes
  <1>2. CASE ~(Count(Tidied.len) <= target)
    <2>1. step' = "select" /\ todo' = MostRelevantFirst /\ tier' = tier /\ out' = out
      BY <1>2 DEF Structural
    <2>2. All' = All /\ Costs' = Costs /\ MostRelevantFirst' = MostRelevantFirst
          /\ SumOf(Costs, kept)' = SumOf(Costs, kept)
      <3>1. All' = All /\ Costs' = Costs
        BY <1>0 DEF All, Costs
      <3>2. Closer' = Closer
        BY <1>0, <3>1 DEF Closer
      <3> QED
        BY <1>0, <3>1, <3>2 DEF MostRelevantFirst
    <2>3. CompressTypeOK'
      BY <1>0, <2>1, <2>2, RankingFacts DEF CompressTypeOK
    <2>4. ToSet(todo') = All /\ Distinct(todo')
      BY <1>0, <2>1, RankingFacts
    <2>5. spent = 0 /\ target \in Nat
      <3>1. SumOf(Costs, {}) = 0
        BY NothingSums
      <3> QED
        BY <1>0, <3>1, TextTypes DEF CompressInv
    <2> QED
      BY <1>0, <2>1, <2>2, <2>3, <2>4, <2>5
      DEF CompressInv, NothingFabricated, SummaryPaysOff, Distinct
  <1> QED
    BY <1>1, <1>2

(* The first of what is to be considered, and the rest.                    *)
LEMMA HeadAndTail ==
    ASSUME NEW S, NEW s \in Seq(S), s # <<>>, Distinct(s)
    PROVE  /\ Head(s) \in S /\ Head(s) = s[1] /\ Tail(s) \in Seq(S)
           /\ Distinct(Tail(s)) /\ Head(s) \notin ToSet(Tail(s))
           /\ ToSet(s) = {Head(s)} \cup ToSet(Tail(s))
  <1>1. /\ Len(s) \in Nat /\ Len(s) >= 1 /\ Head(s) = s[1] /\ s[1] \in S
        /\ Tail(s) \in Seq(S) /\ Len(Tail(s)) = Len(s) - 1
        /\ \A i \in 1 .. Len(s) - 1 : Tail(s)[i] = s[i + 1]
    OBVIOUS
  <1>2. Distinct(Tail(s))
    BY <1>1 DEF Distinct
  <1>3. Head(s) \notin ToSet(Tail(s))
    BY <1>1 DEF Distinct, ToSet
  <1>4. ASSUME NEW x \in ToSet(s) PROVE x \in {Head(s)} \cup ToSet(Tail(s))
    <2>1. PICK i \in 1 .. Len(s) : s[i] = x
      BY DEF ToSet
    <2>2. CASE i = 1
      BY <1>1, <2>1, <2>2
    <2>3. CASE i # 1
      <3>1. i - 1 \in 1 .. Len(Tail(s)) /\ Tail(s)[i - 1] = x
        BY <1>1, <2>1, <2>3
      <3>2. DOMAIN Tail(s) = 1 .. Len(Tail(s))
        BY <1>1
      <3>3. \A k \in DOMAIN Tail(s) : Tail(s)[k] \in ToSet(Tail(s))
        BY Zenon DEF ToSet
      <3> QED
        BY <3>1, <3>2, <3>3
    <2> QED
      BY <2>2, <2>3
  <1>5. ASSUME NEW x \in {Head(s)} \cup ToSet(Tail(s)) PROVE x \in ToSet(s)
    <2>1. CASE x = Head(s)
      BY <1>1, <2>1 DEF ToSet
    <2>2. CASE x \in ToSet(Tail(s))
      <3>1. PICK i \in 1 .. Len(Tail(s)) : Tail(s)[i] = x
        BY <1>1, <2>2 DEF ToSet
      <3>2. i + 1 \in 1 .. Len(s) /\ s[i + 1] = x
        BY <1>1, <3>1
      <3> QED
        BY <1>1, <3>2 DEF ToSet
    <2> QED
      BY <2>1, <2>2
  <1> QED
    BY <1>1, <1>2, <1>3, <1>4, <1>5

(* A turn of the loop leaves text, ranking and what was returned alone.    *)
LEMMA ConsiderLeaves ==
    ASSUME Consider
    PROVE  /\ step = "select" /\ todo # <<>> /\ UNCHANGED <<text, target, step, tier, out>>
           /\ All' = All /\ Costs' = Costs /\ MostRelevantFirst' = MostRelevantFirst
  <1>1. step = "select" /\ todo # <<>> /\ UNCHANGED <<text, target, step, tier, out>>
    BY DEF Consider
  <1>2. All' = All /\ Costs' = Costs
    BY <1>1 DEF All, Costs
  <1>3. Closer' = Closer
    BY <1>1, <1>2 DEF Closer
  <1> QED
    BY <1>1, <1>2, <1>3 DEF MostRelevantFirst

(* A sentence that does not fit is passed over, once there is another.     *)
LEMMA SkipStep ==
    ASSUME CompressInv, Consider, Skip(Head(todo))
    PROVE  CompressInv'
  <1> DEFINE i == Head(todo)
  <1>1. spent + Costs[i] > target /\ kept # {} /\ todo' = Tail(todo) /\ UNCHANGED <<kept, spent>>
    BY DEF Skip
  <1>2. /\ Tail(todo) \in Seq(All) /\ Distinct(Tail(todo))
        /\ ToSet(todo) = {i} \cup ToSet(Tail(todo))
    BY ConsiderLeaves, HeadAndTail DEF CompressInv, CompressTypeOK
  <1>3. CompressTypeOK'
    BY <1>1, <1>2, ConsiderLeaves DEF CompressInv, CompressTypeOK
  <1>4. SumOf(Costs, kept)' = SumOf(Costs, kept)
    BY <1>1, ConsiderLeaves
  <1>5. ClosestIsKept'
    BY <1>1, ConsiderLeaves DEF ClosestIsKept, CompressInv
  <1>6. spent <= target
    <2>1. ~(spent > target)
      BY ConsiderLeaves DEF CompressInv
    <2> QED
      BY <2>1, TextTypes DEF CompressInv, CompressTypeOK
  <1>7. ~(spent' > target')
    BY <1>1, <1>6, ConsiderLeaves, TextTypes DEF CompressInv, CompressTypeOK
  <1>8. spent' < target' => \A j \in All' \ kept' : j \in ToSet(todo') \/ spent' + Costs'[j] > target'
    <2> SUFFICES ASSUME spent < target, NEW j \in All \ kept
                 PROVE  j \in ToSet(Tail(todo)) \/ spent + Costs[j] > target
      BY <1>1, ConsiderLeaves
    <2>1. j \in ToSet(todo) \/ spent + Costs[j] > target
      BY ConsiderLeaves DEF CompressInv
    <2> QED
      BY <1>1, <1>2, <2>1
  <1>9. ToSet(todo') \cap kept' = {} /\ Distinct(todo')
    BY <1>1, <1>2 DEF CompressInv, Distinct
  <1>10. step' = "select" /\ tier' = "none"
    BY ConsiderLeaves DEF CompressInv
  <1>11. spent' = SumOf(Costs, kept)'
    BY <1>1, <1>4 DEF CompressInv
  <1>12. kept' # {} /\ NothingFabricated' /\ SummaryPaysOff'
    BY <1>1, <1>3, <1>10 DEF NothingFabricated, SummaryPaysOff
  <1> HIDE DEF i
  <1> QED
    BY <1>3, <1>5, <1>7, <1>8, <1>9, <1>10, <1>11, <1>12 DEF CompressInv

(* A sentence is kept: it fits, or is the first.                           *)
LEMMA TakeStep ==
    ASSUME CompressInv, Consider, Take(Head(todo))
    PROVE  CompressInv'
  <1> DEFINE i == Head(todo)
             n == spent + Costs[i]
  <1>1. /\ n <= target \/ kept = {}
        /\ kept' = kept \cup {i} /\ spent' = n
        /\ todo' = IF n >= target THEN <<>> ELSE Tail(todo)
    BY DEF Take
  <1>2. /\ i \in All /\ i = todo[1] /\ Tail(todo) \in Seq(All) /\ Distinct(Tail(todo))
        /\ i \notin ToSet(Tail(todo)) /\ ToSet(todo) = {i} \cup ToSet(Tail(todo))
    BY ConsiderLeaves, HeadAndTail DEF CompressInv, CompressTypeOK
  <1>3. i \notin kept /\ IsFiniteSet(kept) /\ kept \subseteq All /\ spent \in Nat
    BY <1>2, TextTypes, FS_Subset DEF CompressInv, CompressTypeOK
  <1>4. target \in Nat /\ \A j \in All : Costs[j] \in Nat /\ text.sents[j].overlap \in Nat
    BY TextTypes DEF CompressInv
  <1>5. n \in Nat /\ n = SumOf(Costs, kept')
    <2>1. SumOf(Costs, kept \cup {i}) = SumOf(Costs, kept) + Costs[i]
      BY <1>2, <1>3, <1>4, SumAdds
    <2> QED
      BY <1>1, <1>2, <1>3, <1>4, <2>1 DEF CompressInv
  <1>6. /\ todo' \in Seq(All) /\ Distinct(todo') /\ ToSet(todo') \cap kept' = {}
        /\ todo' = <<>> \/ todo' = Tail(todo)
    <2>1. CASE n >= target
      <3>1. todo' = <<>>
        BY <1>1, <2>1
      <3>2. <<>> \in Seq(All) /\ Len(<<>>) = 0 /\ ToSet(<<>>) = {}
        BY DEF ToSet
      <3> HIDE DEF i, n
      <3> QED
        BY <3>1, <3>2 DEF Distinct
    <2>2. CASE ~(n >= target)
      <3>1. todo' = Tail(todo)
        BY <1>1, <2>2
      <3>2. ToSet(Tail(todo)) \cap kept = {}
        BY <1>2 DEF CompressInv
      <3> HIDE DEF i, n
      <3> QED
        BY <1>1, <1>2, <3>1, <3>2 DEF Distinct
    <2> QED
      BY <2>1, <2>2
  <1>7. CompressTypeOK'
    <2>1. kept' \subseteq All /\ spent' \in Nat
      BY <1>1, <1>2, <1>3, <1>5
    <2> HIDE DEF i, n
    <2> QED
      BY <1>6, <2>1, ConsiderLeaves DEF CompressInv, CompressTypeOK
  <1>8. spent' > target' => Cardinality(kept') = 1 /\ todo' = <<>>
    <2> SUFFICES ASSUME n > target PROVE Cardinality(kept') = 1 /\ todo' = <<>>
      BY <1>1, ConsiderLeaves
    <2>1. kept = {} /\ todo' = <<>>
      BY <1>1, <1>4, <1>5
    <2>2. kept' = {i}
      BY <1>1, <2>1
    <2> QED
      BY <2>1, <2>2, FS_Singleton
  <1>9. ClosestIsKept'
    <2>1. CASE kept = {}
      <3>1. todo = MostRelevantFirst
        BY <2>1, ConsiderLeaves DEF CompressInv
      <3>2. \A j \in All : text.sents[i].overlap >= text.sents[j].overlap
        BY <1>2, <3>1, ConsiderLeaves, RankingFacts DEF CompressInv
      <3> QED
        BY <1>1, <3>2, ConsiderLeaves DEF ClosestIsKept
    <2>2. CASE kept # {}
      BY <1>1, <2>2, ConsiderLeaves DEF ClosestIsKept, CompressInv
    <2> QED
      BY <2>1, <2>2
  <1>10. spent' < target' => \A j \in All' \ kept' : j \in ToSet(todo') \/ spent' + Costs'[j] > target'
    <2> SUFFICES ASSUME n < target, NEW j \in All \ kept'
                 PROVE  j \in ToSet(todo') \/ n + Costs[j] > target
      BY <1>1, ConsiderLeaves
    <2>1. todo' = Tail(todo) /\ j \in All \ kept /\ j # i
      BY <1>1, <1>4, <1>5
    <2>2. spent < target
      BY <1>2, <1>3, <1>4
    <2>3. j \in ToSet(todo) \/ spent + Costs[j] > target
      BY <2>1, <2>2, ConsiderLeaves DEF CompressInv
    <2>4. spent + Costs[j] > target => n + Costs[j] > target
      BY <1>2, <1>3, <1>4
    <2> HIDE DEF i, n
    <2> QED
      BY <1>2, <2>1, <2>3, <2>4
  <1>11. step' = "select" /\ tier' = "none"
    BY ConsiderLeaves DEF CompressInv
  <1>12. spent' = SumOf(Costs, kept)'
    BY <1>1, <1>5, ConsiderLeaves
  <1>13. kept' # {} /\ NothingFabricated' /\ SummaryPaysOff'
    BY <1>1, <1>7, <1>11 DEF NothingFabricated, SummaryPaysOff
  <1> HIDE DEF i, n
  <1> QED
    BY <1>6, <1>7, <1>8, <1>9, <1>10, <1>11, <1>12, <1>13 DEF CompressInv

(* When nothing is left to consider, a sentence is kept if there is any.   *)
LEMMA SomethingIsKept ==
    ASSUME CompressInv, todo = <<>>,
           step \in {"select", "summarize"} \/ tier \in {"extractive", "abstractive"}
    PROVE  All = {} \/ kept # {}
  <1> SUFFICES ASSUME kept = {} PROVE All = {}
    OBVIOUS
  <1>1. MostRelevantFirst = <<>>
    BY DEF CompressInv
  <1>2. ToSet(<<>>) = {}
    BY DEF ToSet
  <1> QED
    BY <1>1, <1>2, RankingFacts DEF CompressInv

LEMMA ExtractiveStep == CompressInv /\ Extractive => CompressInv'
  <1> SUFFICES ASSUME CompressInv, Extractive PROVE CompressInv'
    OBVIOUS
  <1>1. /\ step = "select" /\ todo = <<>> /\ UNCHANGED <<text, target, todo, kept, spent>>
        /\ Extract.len \in Nat /\ Extract.facts \subseteq Original.facts
        /\ Tidied.len \in Nat /\ Tidied.facts = Original.facts
    BY SomethingIsKept, ResultTypes DEF Extractive, CompressInv
  <1>2. Guard(Original, Extract)
    BY <1>1 DEF Guard
  <1>3. CASE WithLlm /\ Count(Extract.len) > target
    <2>1. step' = "summarize" /\ tier' = tier /\ out' = out
      BY <1>2, <1>3 DEF Extractive
    <2>2. CompressTypeOK'
      BY <1>1, <2>1, SelectionGives DEF CompressInv, CompressTypeOK
    <2>3. tier = "none"
      BY <1>1 DEF CompressInv
    <2>4. NothingFabricated' /\ SummaryPaysOff'
      BY <2>1, <2>2, <2>3 DEF NothingFabricated, SummaryPaysOff
    <2>5. Count(Extract.len)' > target'
      BY <1>1, <1>3, SelectionGives DEF Count
    <2> QED
      BY <1>1, <2>1, <2>2, <2>3, <2>4, <2>5, SelectionGives DEF CompressInv, Distinct, ToSet
  <1>4. CASE ~(WithLlm /\ Count(Extract.len) > target)
    <2>1. out' = Extract /\ tier' = "extractive" /\ step' = "done"
      BY <1>2, <1>4 DEF Extractive, Return
    <2> QED
      BY <1>1, <2>1, Ends
  <1> QED
    BY <1>3, <1>4

LEMMA SummarizeStep == CompressInv /\ (Summarize \/ SummarizeFails) => CompressInv'
  <1> SUFFICES ASSUME CompressInv, Summarize \/ SummarizeFails PROVE CompressInv'
    OBVIOUS
  <1>1. step = "summarize" /\ UNCHANGED <<text, target, todo, kept, spent>>
    BY DEF Summarize, SummarizeFails
  <1>2. /\ todo = <<>> /\ Count(Extract.len) > target
        /\ Extract.len \in Nat /\ Extract.facts \subseteq Original.facts
    BY <1>1, SomethingIsKept, ResultTypes DEF CompressInv
  <1>3. \/ out' = Extract /\ tier' = "extractive" /\ step' = "done"
        \/ \E s \in Summaries : /\ Guard(Original, s) /\ Count(s.len) <= Count(Extract.len)
                                /\ out' = s /\ tier' = "abstractive" /\ step' = "done"
    BY DEF Summarize, SummarizeFails, Return
  <1>4. CASE out' = Extract /\ tier' = "extractive" /\ step' = "done"
    BY <1>1, <1>2, <1>4, Ends
  <1>5. CASE \E s \in Summaries : /\ Guard(Original, s) /\ Count(s.len) <= Count(Extract.len)
                                  /\ out' = s /\ tier' = "abstractive" /\ step' = "done"
    <2>1. PICK s \in Summaries : /\ Guard(Original, s) /\ Count(s.len) <= Count(Extract.len)
                                 /\ out' = s /\ tier' = "abstractive" /\ step' = "done"
      BY <1>5
    <2>2. out'.len \in Nat /\ out'.facts \subseteq Original.facts
          /\ Count(out'.len) <= Count(Extract.len)
      BY <2>1, TextsAssumption DEF Guard
    <2> QED
      BY <1>1, <1>2, <2>1, <2>2, Ends
  <1> QED
    BY <1>3, <1>4, <1>5

LEMMA CompressStutter == CompressInv /\ UNCHANGED compressVars => CompressInv'
  <1> SUFFICES ASSUME CompressInv, UNCHANGED compressVars PROVE CompressInv'
    OBVIOUS
  <1>1. UNCHANGED <<text, target, todo, kept, spent>> /\ UNCHANGED <<step, tier, out>>
    BY DEF compressVars
  <1>2. CompressTypeOK'
    BY <1>1, SelectionGives DEF CompressInv, CompressTypeOK
  <1>3. NothingFabricated' /\ SummaryPaysOff'
    BY <1>1, <1>2, SelectionGives DEF CompressInv, NothingFabricated, SummaryPaysOff, Count
  <1>4. Count(Extract.len)' = Count(Extract.len)
    BY <1>1, SelectionGives DEF Count
  <1> QED
    BY <1>1, <1>2, <1>3, <1>4, SelectionGives DEF CompressInv, Distinct, ToSet

LEMMA CompressHolds == CompressSpec => []CompressInv
  <1>1. CompressInv /\ [CompressNext]_compressVars => CompressInv'
    <2>1. CompressInv /\ Consider => CompressInv'
      BY SkipStep, TakeStep DEF Consider
    <2> QED
      BY <2>1, StructuralStep, ExtractiveStep, SummarizeStep, CompressStutter DEF CompressNext
  <1> QED
    BY <1>1, CompressInitHolds, PTL DEF CompressSpec

(* Whatever the model answers, the block that comes out states nothing that *)
(* the one that went in did not (compressor/guard.py:17-27).                *)
THEOREM Retains == CompressSpec => []NothingFabricated
  BY CompressHolds, PTL DEF CompressInv

(* The extract meets its target unless it is one sentence, leaves out       *)
(* nothing that would have fit, and holds the sentence closest to the query *)
(* (compressor/engine.py:93-103).                                           *)
THEOREM Extracts == CompressSpec => []ExtractMeetsTarget
  <1>1. CompressInv => ExtractMeetsTarget
    <2> SUFFICES ASSUME CompressInv, step = "done", tier = "extractive", All # {}
                 PROVE  /\ spent = SumOf(Costs, kept)
                        /\ spent > target => Cardinality(kept) = 1
                        /\ spent < target => \A i \in All \ kept : spent + Costs[i] > target
                        /\ ClosestIsKept
      BY DEF ExtractMeetsTarget, ClosestIsKept
    <2>1. todo = <<>> /\ ToSet(<<>>) = {}
      BY DEF CompressInv, ToSet
    <2>2. kept # {}
      BY <2>1, SomethingIsKept
    <2> QED
      BY <2>1, <2>2 DEF CompressInv
  <1> QED
    BY <1>1, CompressHolds, PTL

(* A summary is used only where the extract is over target, and is no longer*)
(* than that (compressor/engine.py:72-77).                                  *)
THEOREM SummaryPays == CompressSpec => []SummaryPaysOff
  BY CompressHolds, PTL DEF CompressInv

-----------------------------------------------------------------------------
(* What retrieval returns.                                                 *)

(* Of finitely many things that are put in an order, one has none before it. *)
LEMMA Foremost ==
    ASSUME NEW S, IsFiniteSet(S), S # {}, NEW R,
           \A x \in S : <<x, x>> \notin R,
           \A x, y, z \in S : <<x, y>> \in R /\ <<y, z>> \in R => <<x, z>> \in R
    PROVE  \E x \in S : \A y \in S : <<y, x>> \notin R
  <1> DEFINE before(x) == {y \in S : <<y, x>> \in R}
             F == {before(x) : x \in S}
  <1>1. \A x \in S : before(x) \in SUBSET S /\ IsFiniteSet(before(x))
    BY FS_Subset
  <1>2. PICK s \in F : \A t \in F : Cardinality(s) <= Cardinality(t)
    <2>1. F # {} /\ \A t \in F : IsFiniteSet(t)
      <3> HIDE DEF before
      <3> QED
        BY <1>1
    <2> HIDE DEF F
    <2> QED
      BY <2>1, Smallest
  <1>3. PICK x \in S : s = before(x)
    OBVIOUS
  <1>4. ASSUME NEW y \in S, <<y, x>> \in R PROVE FALSE
    <2>1. before(y) \in SUBSET (before(x) \ {y})
      BY <1>4
    <2>2. y \in before(x)
      BY <1>4
    <2>3. before(y) \in F
      OBVIOUS
    <2> HIDE DEF before, F
    <2>4. /\ IsFiniteSet(before(x) \ {y})
          /\ Cardinality(before(x) \ {y}) = Cardinality(before(x)) - 1
      BY <1>1, <2>2, FS_RemoveElement
    <2>5. Cardinality(before(y)) <= Cardinality(before(x) \ {y})
      BY <2>1, <2>4, FS_Subset
    <2>6. Cardinality(before(x)) \in Nat /\ Cardinality(before(y)) \in Nat
      BY <1>1, FS_CardinalityType
    <2> QED
      BY <1>2, <1>3, <2>3, <2>4, <2>5, <2>6
  <1> QED
    BY <1>4

(* Finitely many numbers have a greatest.                                  *)
LEMMA Greatest ==
    ASSUME NEW S \in SUBSET Int, IsFiniteSet(S), S # {}
    PROVE  \E m \in S : \A n \in S : m >= n
  <1> DEFINE R == {p \in S \X S : p[1] > p[2]}
  <1>1. \A x, y \in S : <<x, y>> \in R <=> x > y
    OBVIOUS
  <1> HIDE DEF R
  <1>2. \A x \in S : <<x, x>> \notin R
    BY <1>1
  <1>3. \A x, y, z \in S : <<x, y>> \in R /\ <<y, z>> \in R => <<x, z>> \in R
    BY <1>1
  <1>4. PICK m \in S : \A n \in S : <<n, m>> \notin R
    BY <1>2, <1>3, Foremost
  <1>5. ASSUME NEW n \in S PROVE m >= n
    <2>1. m \in Int /\ n \in Int /\ ~ (n > m)
      BY <1>1, <1>4
    <2> QED
      BY <2>1
  <1> QED
    BY <1>5

LEMMA PlaceFacts ==
    ASSUME RetrieveTypeOK
    PROVE  /\ IsFiniteSet(ToSet(rows)) /\ ToSet(rows) \in SUBSET Memories
           /\ \A m \in ToSet(rows) : Place(m) \in Nat /\ rows[Place(m)] = m
           /\ rows = <<>> <=> ToSet(rows) = {}
  <1>1. rows \in Seq(Memories)
    BY DEF RetrieveTypeOK
  <1>2. ToSet(rows) \in SUBSET Memories /\ (rows = <<>> <=> ToSet(rows) = {})
    BY <1>1 DEF ToSet
  <1>3. \A m \in ToSet(rows) : \E i \in 1 .. Len(rows) : rows[i] = m
    BY <1>1 DEF ToSet
  <1>4. \A m \in ToSet(rows) : Place(m) \in 1 .. Len(rows) /\ rows[Place(m)] = m
    BY <1>3 DEF Place
  <1>5. \A m \in ToSet(rows) : Place(m) \in Nat
    BY <1>1, <1>4
  <1>6. IsFiniteSet(ToSet(rows))
    BY <1>2, FS_Subset, ScoresAssumption
  <1> QED
    BY <1>2, <1>4, <1>5, <1>6

(* The score's place in a list is a number from 1, and some row has the first. *)
LEMMA RankFacts ==
    ASSUME RetrieveTypeOK, NEW w, \A m \in ToSet(rows) : w[m] \in Int
    PROVE  /\ \A m \in ToSet(rows) : Rank(w, m) \in Nat \ {0}
           /\ rows # <<>> => \E m \in ToSet(rows) : Rank(w, m) = 1
  <1> DEFINE S == ToSet(rows)
             ahead(n, m) == w[n] > w[m] \/ (w[n] = w[m] /\ Place(n) < Place(m))
             R == {p \in S \X S : ahead(p[1], p[2])}
  <1>1. /\ IsFiniteSet(S) /\ (rows # <<>> => S # {})
        /\ \A m \in S : Place(m) \in Nat
    BY PlaceFacts
  <1>2. \A m \in S : Rank(w, m) = 1 + Cardinality({n \in S : ahead(n, m)})
    BY DEF Rank
  <1>3. \A n, m \in S : <<n, m>> \in R <=> ahead(n, m)
    OBVIOUS
  <1>4. \A m \in S : Cardinality({n \in S : ahead(n, m)}) \in Nat
    <2> HIDE DEF S, ahead
    <2> QED
      BY <1>1, FS_Subset, FS_CardinalityType
  <1>5. ASSUME S # {} PROVE \E m \in S : {n \in S : ahead(n, m)} = {}
    <2>1. \A x \in S : <<x, x>> \notin R
      BY <1>1, <1>3
    <2>2. \A x, y, z \in S : <<x, y>> \in R /\ <<y, z>> \in R => <<x, z>> \in R
      <3>1. \A x, y, z \in S : ahead(x, y) /\ ahead(y, z) => ahead(x, z)
        BY <1>1
      <3> HIDE DEF S, ahead, R
      <3> QED
        BY <1>3, <3>1
    <2> HIDE DEF S, ahead, R
    <2>3. \E x \in S : \A y \in S : <<y, x>> \notin R
      BY <1>1, <1>5, <2>1, <2>2, Foremost
    <2> QED
      BY <1>3, <2>3
  <1>6. Cardinality({}) = 0
    BY FS_EmptySet
  <1>7. \A m \in S : Rank(w, m) \in Nat \ {0}
    <2> DEFINE count(m) == Cardinality({n \in S : ahead(n, m)})
    <2>1. \A m \in S : count(m) \in Nat /\ Rank(w, m) = 1 + count(m)
      BY <1>2, <1>4
    <2> HIDE DEF count, S
    <2> QED
      BY <2>1
  <1>8. rows # <<>> => \E m \in S : Rank(w, m) = 1
    <2> HIDE DEF ahead, S
    <2> QED
      BY <1>1, <1>2, <1>5, <1>6
  <1> QED
    BY <1>7, <1>8

LEMMA ScoreTypes ==
    ASSUME RetrieveTypeOK
    PROVE  /\ \A m \in ToSet(rows) : cosine[m] \in Int /\ bm25[m] \in Nat
           /\ \A m \in ToSet(rows) : signal[m].recency \in 0 .. 100 /\ signal[m].importance \in 0 .. 100
  <1>1. \A m \in ToSet(rows) : cosine[m] \in Cosines /\ bm25[m] \in Bm25s /\ signal[m] \in Signals
    BY DEF RetrieveTypeOK
  <1>2. Cosines \subseteq Int /\ Bm25s \subseteq Nat
    <2>1. -100 .. 100 \subseteq Int
      BY SMT
    <2> QED
      BY <2>1, ScoresAssumption
  <1>3. \A s \in Signals : s.recency \in 0 .. 100 /\ s.importance \in 0 .. 100
    BY ScoresAssumption
  <1> QED
    BY <1>1, <1>2, <1>3

(* With a row there is a candidate: the nearest by meaning.                *)
LEMMA SomeCandidate ==
    ASSUME RetrieveTypeOK, rows # <<>>
    PROVE  Candidates # {}
  <1>1. PICK m \in ToSet(rows) : Rank(cosine, m) = 1
    BY ScoreTypes, RankFacts
  <1> QED
    BY <1>1, CutsAssumption DEF Candidates, InDense

LEMMA Division ==
    ASSUME NEW u \in Nat \ {0}, NEW d \in Nat \ {0}, u % d = 0
    PROVE  u \div d \in Nat \ {0}
  OBVIOUS

(* A candidate's fused score is a number from 1.                           *)
LEMMA FusedFacts ==
    ASSUME RetrieveTypeOK, NEW m \in Candidates
    PROVE  Fused(m) \in Nat \ {0}
  <1>1. m \in ToSet(rows) /\ (InDense(m) \/ InSparse(m))
    BY DEF Candidates
  <1>2. Rank(cosine, m) \in Nat \ {0} /\ Rank(bm25, m) \in Nat \ {0}
    BY <1>1, ScoreTypes, RankFacts
  <1>3. ASSUME NEW r \in Nat \ {0}, r <= NDense \/ r <= NSparse
        PROVE  Reciprocal(r) \in Nat \ {0}
    <2>1. r \in 1 .. NDense + NSparse /\ RrfK + r \in Nat \ {0} /\ Unit \in Nat \ {0}
      BY <1>3, CutsAssumption
    <2>2. Unit % (RrfK + r) = 0
      BY <1>3, <2>1, CutsAssumption
    <2> QED
      BY <2>1, <2>2, Division DEF Reciprocal
  <1>4. InDense(m) => Reciprocal(Rank(cosine, m)) \in Nat \ {0}
    BY <1>2, <1>3 DEF InDense
  <1>5. InSparse(m) => Reciprocal(Rank(bm25, m)) \in Nat \ {0}
    BY <1>2, <1>3 DEF InSparse
  <1> QED
    BY <1>1, <1>4, <1>5 DEF Fused

-----------------------------------------------------------------------------
(* The score, and what follows from it.                                    *)

(* Scores are numbers, whatever the range of the fused ones.               *)
LEMMA ScoreFacts ==
    ASSUME RetrieveTypeOK, DOMAIN rrf # {}
    PROVE  Scale \in Int /\ \A m \in DOMAIN rrf : Score(m) \in Int
  <1> DEFINE F == {rrf[m] : m \in DOMAIN rrf}
             D == DOMAIN rrf
  <1>1. /\ DOMAIN rrf \in SUBSET ToSet(rows)
        /\ \A m \in DOMAIN rrf : rrf[m] \in Nat
    BY DEF RetrieveTypeOK
  <1>2. IsFiniteSet(D)
    BY <1>1, PlaceFacts, FS_Subset
  <1>3. IsFiniteSet(F)
    <2> DEFINE f == [m \in D |-> rrf[m]]
    <2>1. f \in Surjection(D, F)
      BY DEF Surjection
    <2> HIDE DEF D, F
    <2> QED
      BY <1>2, <2>1, FS_Surjection
  <1>4. F \in SUBSET Nat /\ F \in SUBSET Int /\ F # {}
    BY <1>1
  <1>5. \E f \in F : \A g \in F : f <= g
    <2> HIDE DEF F
    <2> QED
      BY <1>4, Least
  <1>6. \E f \in F : \A g \in F : f >= g
    <2> HIDE DEF F
    <2> QED
      BY <1>3, <1>4, Greatest
  <1>7. Lowest \in Int
    <2>1. \E f \in F : \A m \in DOMAIN rrf : f <= rrf[m]
      BY <1>5
    <2>2. Lowest \in F
      BY <2>1 DEF Lowest
    <2> QED
      BY <1>4, <2>2
  <1>8. Span \in Int
    <2> DEFINE top == CHOOSE f \in F : \A m \in DOMAIN rrf : f >= rrf[m]
    <2>1. \E f \in F : \A m \in DOMAIN rrf : f >= rrf[m]
      BY <1>6
    <2>2. top \in F
      BY <2>1
    <2>3. Span = top - Lowest
      BY DEF Span
    <2>4. top \in Int
      BY <1>4, <2>2
    <2> HIDE DEF top
    <2> QED
      BY <1>7, <2>3, <2>4
  <1>9. Scale \in Int
    BY <1>8 DEF Scale
  <1>10. ASSUME NEW m \in DOMAIN rrf PROVE Score(m) \in Int
    <2>1. Norm(m) \in Int
      BY <1>1, <1>7, <1>8 DEF Norm
    <2>2. 25 * signal[m].recency + 15 * signal[m].importance \in Int
      <3>1. signal[m].recency \in 0 .. 100 /\ signal[m].importance \in 0 .. 100
        BY <1>1, ScoreTypes
      <3>2. \A x, y \in 0 .. 100 : 25 * x + 15 * y \in Int
        OBVIOUS
      <3> QED
        BY <3>1, <3>2
    <2>3. \A x, y, z \in Int : 60 * x + y * z \in Int
      OBVIOUS
    <2> QED
      BY <1>9, <2>1, <2>2, <2>3 DEF Score
  <1> QED
    BY <1>9, <1>10

LEMMA Percents == \A y \in -100 .. 100 : y \in Int /\ 100 - y \in Nat
  OBVIOUS

(* How near what is not picked is to what is: as near as to the nearest.   *)
LEMMA MaxSimFacts ==
    ASSUME RetrieveTypeOK, picked # <<>>, NEW m \in DOMAIN rrf
    PROVE  /\ MaxSim(m) \in Int
           /\ \E n \in ToSet(picked) : MaxSim(m) = Likeness[m, n]
           /\ \A n \in ToSet(picked) : MaxSim(m) >= Likeness[m, n]
  <1> DEFINE P == ToSet(picked)
             L == {Likeness[m, n] : n \in P}
             N == {100 - s : s \in L}
  <1>1. P \in SUBSET DOMAIN rrf /\ P # {} /\ DOMAIN rrf \in SUBSET Memories
    <2>1. /\ picked \in Seq(DOMAIN rrf) /\ ToSet(rows) \in SUBSET Memories
          /\ DOMAIN rrf \subseteq ToSet(rows)
      BY PlaceFacts DEF RetrieveTypeOK
    <2>2. DOMAIN picked = 1 .. Len(picked) /\ Len(picked) > 0
      BY <2>1
    <2>3. P \in SUBSET DOMAIN rrf /\ P # {}
      BY <2>1, <2>2 DEF ToSet
    <2> QED
      BY <2>1, <2>3
  <1>2. L \in SUBSET (-100 .. 100) /\ L # {}
    BY <1>1, ScoresAssumption
  <1>3. N \in SUBSET Nat /\ N # {}
    <2>1. \A s \in L : s \in -100 .. 100 /\ 100 - s \in Nat
      <3> HIDE DEF L
      <3> QED
        BY <1>2, Percents, Zenon
    <2> HIDE DEF L
    <2> QED
      BY <1>2, <2>1
  <1>4. PICK k \in N : \A j \in N : k <= j
    <2> HIDE DEF N
    <2> QED
      BY <1>3, Least
  <1>5. \E s \in L : \A t \in L : s >= t
    <2> HIDE DEF L
    <2>1. PICK s \in L : k = 100 - s
      OBVIOUS
    <2>2. \A t \in L : 100 - s <= 100 - t
      BY <1>4, <2>1
    <2> QED
      BY <1>2, <2>2
  <1>6. \E s \in L : \A n \in P : s >= Likeness[m, n]
    BY <1>5
  <1>7. MaxSim(m) = CHOOSE s \in L : \A n \in P : s >= Likeness[m, n]
    BY DEF MaxSim
  <1>8. MaxSim(m) \in L /\ \A n \in P : MaxSim(m) >= Likeness[m, n]
    BY <1>6, <1>7
  <1>9. MaxSim(m) \in Int
    <2> HIDE DEF L
    <2>1. MaxSim(m) \in -100 .. 100
      BY <1>2, <1>8
    <2> QED
      BY <2>1, Percents, Zenon
  <1> QED
    BY <1>8, <1>9

(* At first nothing is a duplicate.                                        *)
LEMMA AllEligibleAtFirst == picked = <<>> => Eligible = DOMAIN rrf
  <1> SUFFICES ASSUME picked = <<>> PROVE Eligible = DOMAIN rrf
    OBVIOUS
  <1>1. ToSet(picked) = {} /\ \A m : MaxSim(m) < CosDup
    BY CutsAssumption DEF ToSet, MaxSim
  <1> QED
    BY <1>1 DEF Eligible

(* a comes before b in the pool: the score is higher, or the row is first.   *)
Ahead(a, b) ==
    \/ Score(a) > Score(b)
    \/ Score(a) = Score(b) /\ Place(a) < Place(b)

LEMMA Monotone ==
    ASSUME NEW l \in Nat, NEW x \in Int, NEW y \in Int
    PROVE  /\ l * x \in Int /\ l * y \in Int
           /\ l * x > l * y => x > y
           /\ l # 0 /\ l * x = l * y => x = y
  OBVIOUS

(* What is first picked is ahead of all.                                   *)
LEMMA FirstPick ==
    ASSUME RetrieveTypeOK, picked = <<>>, NEW m \in DOMAIN rrf, NEW n \in DOMAIN rrf,
           Preferred(m, n)
    PROVE  Ahead(m, n)
  <1>1. Scale \in Int /\ Score(m) \in Int /\ Score(n) \in Int
    BY ScoreFacts
  <1>2. MmrLambda \in 0 .. 100
    BY CutsAssumption
  <1>3. (100 - MmrLambda) * 100 * Scale * 0 = 0
    <2>1. \A x \in Int : x * 0 = 0
      OBVIOUS
    <2>2. \A x, y \in Int : (x * 100) * y \in Int
      OBVIOUS
    <2> QED
      BY <1>1, <1>2, <2>1, <2>2
  <1>4. MaxSim(m) = 0 /\ MaxSim(n) = 0
    BY DEF MaxSim
  <1>5. Gain(m) = MmrLambda * Score(m) - 0 /\ Gain(n) = MmrLambda * Score(n) - 0
    BY <1>3, <1>4 DEF Gain
  <1>6. /\ MmrLambda * Score(m) \in Int /\ MmrLambda * Score(n) \in Int
        /\ MmrLambda * Score(m) > MmrLambda * Score(n) => Score(m) > Score(n)
    BY <1>1, <1>2, Monotone
  <1>7. Gain(m) = MmrLambda * Score(m) /\ Gain(n) = MmrLambda * Score(n)
    BY <1>5, <1>6
  <1> QED
    BY <1>6, <1>7 DEF Preferred, Ahead

-----------------------------------------------------------------------------
(* The invariant of retrieval.                                             *)

(* Picking is over, and the first k of what was picked are returned.       *)
Returned ==
    /\ rows # <<>> /\ picked # <<>>
    /\ Len(picked) = MaxCandidates \/ Eligible = {}
    /\ result = SubSeq(picked, 1, IF limit < Len(picked) THEN limit ELSE Len(picked))

(* From the fusion on, the candidates are what the lists say, and some; what *)
(* is picked begins with the best of them and repeats nothing.             *)
RankedInv ==
    /\ RetrieveTypeOK
    /\ phase \in {"mmr", "done"} /\ rows # <<>> => DOMAIN rrf = Candidates
    /\ phase \in {"list", "embed", "failed"} => picked = <<>>
    /\ phase \in {"embed", "mmr"} => rows # <<>>
    /\ phase # "done" => result = <<>>
    /\ \A i, j \in 1 .. Len(picked) : i # j => ~Alike(picked[i], picked[j])
    /\ \A b : picked # <<>> /\ picked[1] = b => \A m \in DOMAIN rrf \ {b} : Ahead(b, m)
    /\ phase = "done" => Returned \/ (rows = <<>> /\ picked = <<>> /\ result = <<>>)

(* What depends on rows, scores and signals only stays while they do.      *)
LEMMA RanksStay ==
    ASSUME given' = given
    PROVE  /\ \A m : Place(m)' = Place(m)
           /\ Candidates' = Candidates
  <1>1. rows' = rows /\ cosine' = cosine /\ bm25' = bm25
    BY DEF given
  <1>2. \A m : Place(m)' = Place(m)
    BY <1>1 DEF Place
  <1>3. \A m : Rank(cosine, m)' = Rank(cosine, m) /\ Rank(bm25, m)' = Rank(bm25, m)
    BY <1>1, <1>2 DEF Rank
  <1>4. \A m : (InDense(m)' <=> InDense(m)) /\ (InSparse(m)' <=> InSparse(m))
    BY <1>1, <1>3 DEF InDense, InSparse
  <1> QED
    BY <1>1, <1>2, <1>4 DEF Candidates

LEMMA ScoresStay ==
    ASSUME given' = given, rrf' = rrf
    PROVE  \A a, b : Ahead(a, b)' <=> Ahead(a, b)
  <1>1. signal' = signal
    BY DEF given
  <1>2. Lowest' = Lowest /\ Span' = Span
    BY DEF Lowest, Span
  <1>3. Scale' = Scale /\ \A m : Norm(m)' = Norm(m)
    BY <1>2 DEF Scale, Norm
  <1>4. \A m : Score(m)' = Score(m)
    BY <1>1, <1>3 DEF Score
  <1> QED
    BY <1>4, RanksStay DEF Ahead

LEMMA EligibleStays ==
    ASSUME rrf' = rrf, picked' = picked
    PROVE  Eligible' = Eligible
  BY DEF Eligible, MaxSim

LEMMA RetrieveInitHolds == RetrieveInit => RankedInv
  <1> SUFFICES ASSUME RetrieveInit PROVE RankedInv
    OBVIOUS
  <1>1. PICK S \in SUBSET Memories : rows \in SetToAllKPermutations(S)
    BY DEF RetrieveInit
  <1>2. rows \in Seq(Memories)
    <2>1. PICK t \in SUBSET S : rows \in SetToSeqs(t)
      BY <1>1 DEF SetToAllKPermutations
    <2>2. Cardinality(t) \in Nat
      BY ScoresAssumption, FS_Subset, FS_CardinalityType
    <2>3. rows \in [1 .. Cardinality(t) -> t]
      BY <2>1 DEF SetToSeqs
    <2> QED
      BY <2>2, <2>3
  <1>3. DOMAIN rrf = {} /\ picked = <<>> /\ result = <<>> /\ phase = "list"
    BY DEF RetrieveInit
  <1>4. RetrieveTypeOK
    BY <1>2, <1>3 DEF RetrieveInit, RetrieveTypeOK
  <1> QED
    BY <1>3, <1>4 DEF RankedInv

(* Before the fusion nothing is computed.                                  *)
LEMMA BeforeFusion == RankedInv /\ (ListRows \/ Fails) => RankedInv'
  <1> SUFFICES ASSUME RankedInv, ListRows \/ Fails PROVE RankedInv'
    OBVIOUS
  <1>1. /\ given' = given /\ rrf' = rrf /\ picked' = picked /\ result' = result
        /\ \/ phase' = "embed" /\ rows # <<>>
           \/ phase' = "done" /\ rows = <<>>
           \/ phase' = "failed"
        /\ phase \in {"list", "embed"}
    BY DEF ListRows, Fails
  <1>2. UNCHANGED <<rows, cosine, bm25, signal, limit>> /\ picked = <<>> /\ result = <<>>
    BY <1>1 DEF given, RankedInv
  <1>3. RetrieveTypeOK'
    BY <1>1, <1>2 DEF RankedInv, RetrieveTypeOK
  <1> QED
    BY <1>1, <1>2, <1>3 DEF RankedInv

(* The candidates are scored: there is one, as there is a row.             *)
LEMMA FuseStep == RankedInv /\ Fuse => RankedInv'
  <1> SUFFICES ASSUME RankedInv, Fuse PROVE RankedInv'
    OBVIOUS
  <1>1. /\ given' = given /\ picked' = picked /\ result' = result
        /\ phase = "embed" /\ phase' = "mmr" /\ rrf' = [m \in Candidates |-> Fused(m)]
    BY DEF Fuse
  <1>2. /\ UNCHANGED <<rows, cosine, bm25, signal, limit>>
        /\ picked = <<>> /\ result = <<>> /\ rows # <<>> /\ RetrieveTypeOK
    BY <1>1 DEF given, RankedInv
  <1>3. DOMAIN rrf' = Candidates /\ \A m \in Candidates : rrf'[m] = Fused(m)
    BY <1>1
  <1>4. Candidates' = Candidates
    BY <1>1, RanksStay
  <1>5. RetrieveTypeOK'
    <2>1. Candidates \in SUBSET ToSet(rows) /\ \A m \in Candidates : rrf'[m] \in Nat \ {0}
      BY <1>2, <1>3, FusedFacts DEF Candidates
    <2> QED
      BY <1>1, <1>2, <1>3, <2>1 DEF RetrieveTypeOK
  <1> QED
    BY <1>1, <1>2, <1>3, <1>4, <1>5 DEF RankedInv

(* What is picked repeats nothing that was: it is unlike the nearest of it. *)
LEMMA PickStep == RankedInv /\ Pick => RankedInv'
  <1> SUFFICES ASSUME RankedInv, Pick PROVE RankedInv'
    OBVIOUS
  <1>1. /\ given' = given /\ rrf' = rrf /\ result' = result
        /\ phase = "mmr" /\ phase' = "mmr" /\ RetrieveTypeOK
        /\ UNCHANGED <<rows, cosine, bm25, signal, limit>>
    BY DEF Pick, given, RankedInv
  <1>2. PICK m \in Eligible : /\ \A n \in Eligible \ {m} : Preferred(m, n)
                              /\ picked' = Append(picked, m)
    BY DEF Pick
  <1>3. /\ picked \in Seq(DOMAIN rrf) /\ m \in DOMAIN rrf /\ m \notin ToSet(picked)
        /\ MaxSim(m) < CosDup
    BY <1>1, <1>2 DEF RetrieveTypeOK, Eligible
  <1> DEFINE l == Len(picked)
  <1>4. /\ picked' \in Seq(DOMAIN rrf) /\ Len(picked') = l + 1
        /\ picked'[l + 1] = m /\ l \in Nat
        /\ \A i \in 1 .. l : picked'[i] = picked[i]
    BY <1>2, <1>3, AppendFacts
  <1>5. RetrieveTypeOK'
    BY <1>1, <1>4 DEF RetrieveTypeOK
  <1>6. DOMAIN rrf \in SUBSET Memories
    BY <1>1, PlaceFacts DEF RetrieveTypeOK
  <1>7. ASSUME NEW i \in 1 .. l PROVE ~Alike(picked[i], m) /\ ~Alike(m, picked[i])
    <2>1. picked # <<>> /\ picked[i] \in ToSet(picked) /\ picked[i] \in DOMAIN rrf
      BY <1>3 DEF ToSet
    <2>2. MaxSim(m) \in Int /\ MaxSim(m) >= Likeness[m, picked[i]]
      BY <1>1, <1>3, <2>1, MaxSimFacts
    <2>3. /\ Likeness[m, picked[i]] \in Int
          /\ Likeness[picked[i], m] = Likeness[m, picked[i]]
      <3> QED
        BY <1>3, <1>6, <2>1, Percents, ScoresAssumption
    <2>4. CosDup \in Int
      BY CutsAssumption
    <2>5. \A s, x \in Int : s < CosDup /\ s >= x => ~ (x >= CosDup)
      BY <2>4
    <2>6. ~ (Likeness[m, picked[i]] >= CosDup)
      BY <1>3, <2>2, <2>3, <2>5, Zenon
    <2> QED
      BY <2>3, <2>6, Zenon DEF Alike
  <1>8. ASSUME NEW i \in 1 .. l + 1, NEW j \in 1 .. l + 1, i # j
        PROVE  ~Alike(picked'[i], picked'[j])
    <2>1. CASE i \in 1 .. l /\ j \in 1 .. l
      BY <1>4, <1>8, <2>1 DEF RankedInv
    <2>2. CASE i \in 1 .. l /\ j = l + 1
      BY <1>4, <1>7, <2>2
    <2>3. CASE i = l + 1 /\ j \in 1 .. l
      BY <1>4, <1>7, <2>3
    <2> QED
      BY <1>4, <1>8, <2>1, <2>2, <2>3
  <1>9. \A n \in DOMAIN rrf \ {picked'[1]} : Ahead(picked'[1], n)
    <2>1. CASE picked = <<>>
      <3>1. Eligible = DOMAIN rrf /\ l = 0
        BY <2>1, AllEligibleAtFirst
      <3>2. \A n \in DOMAIN rrf \ {m} : Ahead(m, n)
        BY <1>1, <1>2, <2>1, <3>1, FirstPick
      <3> QED
        BY <1>4, <3>1, <3>2
    <2>2. CASE picked # <<>>
      <3>1. 1 \in 1 .. l
        BY <1>3, <2>2
      <3> QED
        BY <1>4, <2>2, <3>1 DEF RankedInv
    <2> QED
      BY <2>1, <2>2
  <1>10. \A b : picked'[1] = b => \A n \in DOMAIN rrf \ {b} : Ahead(b, n)'
    BY <1>1, <1>9, ScoresStay
  <1>11. \A i, j \in 1 .. Len(picked') : i # j => ~Alike(picked'[i], picked'[j])
    BY <1>4, <1>8
  <1>12. DOMAIN rrf' = Candidates' /\ rows' # <<>> /\ result' = <<>>
    BY <1>1, RanksStay DEF RankedInv
  <1>13. (\A i, j \in 1 .. Len(picked) : i # j => ~Alike(picked[i], picked[j]))'
    BY <1>11, Zenon DEF Alike
  <1> QED
    BY <1>1, <1>5, <1>10, <1>12, <1>13 DEF RankedInv

LEMMA PicksEndStep == RankedInv /\ PicksEnd => RankedInv'
  <1> SUFFICES ASSUME RankedInv, PicksEnd PROVE RankedInv'
    OBVIOUS
  <1> DEFINE k == IF limit < Len(picked) THEN limit ELSE Len(picked)
  <1>1. /\ given' = given /\ rrf' = rrf /\ picked' = picked
        /\ phase = "mmr" /\ phase' = "done" /\ RetrieveTypeOK /\ rows # <<>>
        /\ UNCHANGED <<rows, cosine, bm25, signal, limit>>
        /\ Len(picked) = MaxCandidates \/ Eligible = {}
        /\ result' = SubSeq(picked, 1, k)
        /\ DOMAIN rrf = Candidates
    BY DEF PicksEnd, given, RankedInv
  <1>2. picked # <<>>
    <2>1. MaxCandidates # 0 /\ Len(<<>>) = 0
      BY CutsAssumption
    <2> QED
      BY <1>1, <2>1, SomeCandidate, AllEligibleAtFirst
  <1>3. picked \in Seq(DOMAIN rrf) /\ limit \in Nat \ {0}
    BY <1>1, CutsAssumption DEF RetrieveTypeOK
  <1>4. result' \in Seq(DOMAIN rrf)
    <2>1. k \in 0 .. Len(picked)
      BY <1>3
    <2> HIDE DEF k
    <2>2. SubSeq(picked, 1, k) \in Seq(DOMAIN rrf)
      BY <1>3, <2>1
    <2> QED
      BY <1>1, <2>2
  <1>5. RetrieveTypeOK'
    BY <1>1, <1>4 DEF RetrieveTypeOK
  <1>6. Returned'
    BY <1>1, <1>2, EligibleStays DEF Returned
  <1>7. \A b : picked[1] = b => \A m \in DOMAIN rrf \ {b} : Ahead(b, m)'
    BY <1>1, <1>2, ScoresStay DEF RankedInv
  <1> QED
    BY <1>1, <1>5, <1>6, <1>7, RanksStay DEF RankedInv, Alike

LEMMA RetrieveStutter == RankedInv /\ UNCHANGED retrieveVars => RankedInv'
  <1> SUFFICES ASSUME RankedInv, UNCHANGED retrieveVars PROVE RankedInv'
    OBVIOUS
  <1>1. /\ given' = given /\ rrf' = rrf /\ picked' = picked /\ result' = result /\ phase' = phase
        /\ UNCHANGED <<rows, cosine, bm25, signal, limit>>
    BY DEF retrieveVars, given
  <1>2. RetrieveTypeOK'
    BY <1>1 DEF RankedInv, RetrieveTypeOK
  <1>3. Returned' <=> Returned
    BY <1>1, EligibleStays DEF Returned
  <1>4. \A a, b : Ahead(a, b)' <=> Ahead(a, b)
    BY <1>1, ScoresStay
  <1> QED
    BY <1>1, <1>2, <1>3, <1>4, RanksStay DEF RankedInv, Alike

LEMMA RankedHolds == RetrieveSpec => []RankedInv
  <1>1. RankedInv /\ [RetrieveNext]_retrieveVars => RankedInv'
    BY BeforeFusion, FuseStep, PickStep, PicksEndStep, RetrieveStutter DEF RetrieveNext
  <1> QED
    BY <1>1, RetrieveInitHolds, PTL DEF RetrieveSpec

LEMMA ReturnedFacts ==
    ASSUME RankedInv, phase = "done", rows # <<>>
    PROVE  /\ IsPrefix(result, picked) /\ Len(result) <= limit
           /\ result # <<>> /\ result[1] = picked[1] /\ picked # <<>>
           /\ Len(result) < limit => result = picked
  <1> DEFINE k == IF limit < Len(picked) THEN limit ELSE Len(picked)
  <1>1. /\ picked # <<>> /\ result = SubSeq(picked, 1, k)
        /\ picked \in Seq(DOMAIN rrf) /\ limit \in Nat \ {0}
    BY CutsAssumption DEF RankedInv, Returned, RetrieveTypeOK
  <1>2. Len(picked) \in Nat \ {0}
    BY <1>1
  <1>3. k \in 1 .. Len(picked) /\ k <= limit /\ (k < limit => k = Len(picked))
    BY <1>1, <1>2
  <1> HIDE DEF k
  <1>4. Len(result) = k /\ \A i \in 1 .. k : result[i] = picked[i]
    BY <1>1, <1>3
  <1>5. SubSeq(result, 1, k) = result
    <2>1. result \in Seq(DOMAIN rrf)
      BY DEF RankedInv, RetrieveTypeOK
    <2> QED
      BY <1>4, <2>1
  <1>6. k = Len(picked) => result = picked
    BY <1>1, <1>3
  <1> QED
    BY <1>1, <1>2, <1>3, <1>4, <1>5, <1>6 DEF IsPrefix

LEMMA RankedIsSound == RankedInv => RetrieveInv
  <1> SUFFICES ASSUME RankedInv PROVE RetrieveInv
    OBVIOUS
  <1>1. limit \in Nat \ {0} /\ picked \in Seq(DOMAIN rrf)
    BY CutsAssumption DEF RankedInv, RetrieveTypeOK
  <1>2. CASE phase = "done" /\ rows # <<>>
    <2>1. BestIsFirst
      BY <1>2, ReturnedFacts DEF RankedInv, BestIsFirst, Ahead
    <2> QED
      BY <1>2, <2>1, ReturnedFacts DEF RankedInv, RetrieveInv
  <1>3. CASE ~ (phase = "done" /\ rows # <<>>)
    <2>1. result = <<>>
      BY <1>3 DEF RankedInv, Returned
    <2>2. IsPrefix(result, picked) /\ Len(result) = 0
      BY <1>1, <2>1 DEF IsPrefix
    <2> QED
      BY <1>1, <1>3, <2>1, <2>2 DEF RankedInv, RetrieveInv, BestIsFirst
  <1> QED
    BY <1>2, <1>3

(* What is picked is unlike all of it, the best first, and a result begins it: *)
(* whatever the scores, signals, cutoffs and weights (memory/engine.py:132-182).*)
THEOREM Ranks == RetrieveSpec => []RetrieveInv
  BY RankedHolds, RankedIsSound, PTL

LEMMA LeftOut == RankedInv => LeftOutIsAlike
  <1> SUFFICES ASSUME RankedInv, phase = "done", Len(result) < limit, Len(picked) < MaxCandidates,
                      NEW m \in ToSet(rows) \ ToSet(result)
               PROVE  \/ \E n \in ToSet(result) : Alike(m, n)
                      \/ Rank(cosine, m) > NDense /\ (bm25[m] = 0 \/ Rank(bm25, m) > NSparse)
    BY Zenon DEF LeftOutIsAlike
  <1>1. RetrieveTypeOK /\ rows # <<>>
    <2>1. rows = <<>> => ToSet(rows) = {}
      BY DEF ToSet
    <2> QED
      BY <2>1 DEF RankedInv
  <1>2. result = picked /\ picked # <<>> /\ DOMAIN rrf = Candidates
    BY <1>1, ReturnedFacts DEF RankedInv
  <1>3. Eligible = {}
    <2>1. Len(picked) \in Nat /\ MaxCandidates \in Nat
      BY <1>1, CutsAssumption DEF RetrieveTypeOK
    <2> QED
      BY <1>1, <2>1 DEF RankedInv, Returned
  <1>4. CASE m \in Candidates
    <2>1. m \in DOMAIN rrf \ ToSet(picked) /\ ~ (MaxSim(m) < CosDup)
      BY <1>2, <1>3, <1>4 DEF Eligible
    <2>2. MaxSim(m) \in Int /\ \E n \in ToSet(picked) : MaxSim(m) = Likeness[m, n]
      BY <1>1, <1>2, <2>1, MaxSimFacts
    <2>3. PICK n \in ToSet(picked) : MaxSim(m) = Likeness[m, n]
      BY <2>2
    <2>4. MaxSim(m) >= CosDup
      <3>1. CosDup \in Int
        BY CutsAssumption
      <3>2. \A x \in Int : ~ (x < CosDup) => x >= CosDup
        BY <3>1
      <3> QED
        BY <2>1, <2>2, <3>2, Zenon
    <2>5. Alike(m, n)
      BY <2>3, <2>4, Zenon DEF Alike
    <2> QED
      BY <1>2, <2>5
  <1>5. CASE m \notin Candidates
    <2>1. ~InDense(m) /\ ~InSparse(m)
      BY <1>5 DEF Candidates
    <2>2. /\ Rank(cosine, m) \in Int /\ Rank(bm25, m) \in Int /\ bm25[m] \in Nat
          /\ NDense \in Int /\ NSparse \in Int
      BY <1>1, ScoreTypes, RankFacts, CutsAssumption
    <2> QED
      BY <2>1, <2>2 DEF InDense, InSparse
  <1> QED
    BY <1>4, <1>5

(* No row near the query is lost but to a full result or to one like it that *)
(* is returned (memory/engine.py:105-107, 167-182).                        *)
THEOREM LosesOnlyTheAlike == RetrieveSpec => []LeftOutIsAlike
  BY RankedHolds, LeftOut, PTL

-----------------------------------------------------------------------------
(* The policy's verdict.                                                   *)

(* The rules of a policy are a sequence, and each has an effect.            *)
LEMMA RulesType ==
    ASSUME NEW p \in Policies
    PROVE  /\ Len(p.rules) \in Nat
           /\ DOMAIN p.rules = 1 .. Len(p.rules)
           /\ p.rules # <<>> => Len(p.rules) > 0
           /\ \A i \in 1 .. Len(p.rules) : p.rules[i].effect \in Effects
           /\ p.default \in Effects
  <1> DEFINE S == {p.rules[i] : i \in DOMAIN p.rules}
  <1>1. p.rules \in Seq(S) /\ p.default \in Effects
    BY PoliciesAssumption
  <1>2. \A i \in DOMAIN p.rules : p.rules[i].effect \in Effects
    BY PoliciesAssumption
  <1> HIDE DEF S
  <1> QED
    BY <1>1, <1>2

-----------------------------------------------------------------------------
(* The loop.                                                               *)

LEMMA InitEstablishes == PolicyInit => PolicyInv
  <1> SUFFICES ASSUME PolicyInit PROVE PolicyInv
    OBVIOUS
  <1>1. Len(policy.rules) \in Nat
    BY RulesType DEF PolicyInit
  <1>2. allowHit \in BOOLEAN /\ ~allowHit
    BY Zenon DEF PolicyInit
  <1>3. verdict = "pending" /\ verdict \notin Effects
    BY DEF PolicyInit, Effects
  <1>4. PolicyTypeOK
    BY <1>1, <1>2, <1>3 DEF PolicyInit, PolicyTypeOK
  <1> QED
    BY <1>2, <1>3, <1>4 DEF PolicyInit, PolicyInv

(* What does not depend on the loop: a step that keeps request, policy and  *)
(* context keeps what applies.                                              *)
LEMMA Unchanging ==
    ASSUME UNCHANGED <<request, ctx>>
    PROVE  /\ \A r : Applies(r)' <=> Applies(r)
           /\ OtherTenant' <=> OtherTenant
           /\ OtherNamespace' <=> OtherNamespace
  BY DEF request, Applies, OtherTenant, OtherNamespace, PrincipalAttrs, ResourceAttrs, Matches, Get

(* A request is resolved to its own tenant, before any rule is looked at.   *)
LEMMA ResolveKeeps == PolicyInv /\ Resolve => PolicyInv'
  <1> SUFFICES ASSUME PolicyInv, Resolve PROVE PolicyInv'
    OBVIOUS
  <1> USE DEF PolicyInv, Resolve, request
  <1>0. allowHit' = allowHit /\ allowHit' \in BOOLEAN
    BY Zenon DEF PolicyTypeOK
  <1>1. PolicyTypeOK'
    <2>1. ctx' \in {Missing} \cup [tenant : Tenants, namespace : Namespaces \cup {UserNamespace(u) : u \in Users}]
      BY DEF PolicyTypeOK, Named
    <2> QED
      BY <1>0, <2>1 DEF PolicyTypeOK
  <1>2. CASE ctx' = Missing
    BY <1>1, <1>2 DEF Effects
  <1>3. CASE ctx' # Missing
    <2>1. ctx'.tenant = caller'.tenant
      BY <1>3
    <2>2. Seen' = {} /\ ~(next' > 1) /\ ~allowHit'
      BY DEF Seen
    <2> QED
      BY <1>1, <1>3, <2>1, <2>2
  <1> QED
    BY <1>2, <1>3

(* The decision before the loop.                                            *)
LEMMA FloorKeeps == PolicyInv /\ Floor => PolicyInv'
  <1> SUFFICES ASSUME PolicyInv, Floor PROVE PolicyInv'
    OBVIOUS
  <1>1. UNCHANGED <<request, ctx, next, allowHit>> /\ verdict' \in Effects /\ ctx # Missing
    BY DEF Floor, AtRule, Effects
  <1>2. Seen' = Seen
    BY <1>1 DEF Seen, request
  <1>3. PolicyTypeOK'
    BY <1>1 DEF PolicyInv, PolicyTypeOK, request
  <1> QED
    BY <1>1, <1>2, <1>3, Unchanging DEF PolicyInv, request

(* One turn of the loop: the rule it passes is no deny that applies.         *)
LEMMA ConsultKeeps == PolicyInv /\ Consult => PolicyInv'
  <1> SUFFICES ASSUME PolicyInv, Consult PROVE PolicyInv'
    OBVIOUS
  <1> DEFINE rule == policy.rules[next]
  <1>1. /\ UNCHANGED <<request, ctx>> /\ ctx # Missing /\ ~OtherTenant
        /\ next \in 1 .. Len(policy.rules) /\ Len(policy.rules) \in Nat
        /\ rule.effect \in Effects /\ policy' = policy
    BY RulesType DEF Consult, AtRule, PolicyInv, PolicyTypeOK, request
  <1>2. CASE Applies(rule) /\ rule.effect = "deny"
    <2>1. verdict' = "deny" /\ UNCHANGED <<next, allowHit>>
      BY <1>2 DEF Consult
    <2>2. Seen' = Seen
      BY <1>1, <2>1 DEF Seen
    <2>3. PolicyTypeOK'
      BY <1>1, <2>1 DEF PolicyInv, PolicyTypeOK, Effects, request
    <2> QED
      BY <1>1, <2>1, <2>2, <2>3, Unchanging DEF PolicyInv, request
  <1>3. CASE ~(Applies(rule) /\ rule.effect = "deny")
    <2>1. allowHit' = (allowHit \/ Applies(rule)) /\ next' = next + 1 /\ verdict' = verdict
      BY <1>3 DEF Consult
    <2>2. Seen' = Seen \cup {rule}
      BY <1>1, <2>1 DEF Seen
    <2>3. Applies(rule) => rule.effect = "allow"
      BY <1>1, <1>3 DEF Effects
    <2>4. allowHit' \in BOOLEAN
      BY <2>1, Zenon DEF PolicyInv, PolicyTypeOK
    <2>5. PolicyTypeOK'
      BY <1>1, <2>1, <2>4 DEF PolicyInv, PolicyTypeOK, request
    <2>6. \A r \in Seen' : Applies(r)' => r.effect = "allow"
      BY <1>1, <2>2, <2>3, Unchanging DEF PolicyInv
    <2>7. allowHit' <=> \E r \in Seen' : Applies(r)'
      BY <1>1, <2>1, <2>2, Unchanging, Zenon DEF PolicyInv
    <2> QED
      BY <1>1, <2>5, <2>6, <2>7, Unchanging DEF PolicyInv, request
  <1> QED
    BY <1>2, <1>3

(* The decision after the loop.                                             *)
LEMMA ConcludeKeeps == PolicyInv /\ Conclude => PolicyInv'
  <1> SUFFICES ASSUME PolicyInv, Conclude PROVE PolicyInv'
    OBVIOUS
  <1>1. UNCHANGED <<request, ctx, next, allowHit>> /\ verdict' \in Effects /\ ctx # Missing
    BY RulesType DEF Conclude, AtRule, Effects, PolicyInv, PolicyTypeOK
  <1>2. Seen' = Seen
    BY <1>1 DEF Seen, request
  <1>3. PolicyTypeOK'
    BY <1>1 DEF PolicyInv, PolicyTypeOK, request
  <1> QED
    BY <1>1, <1>2, <1>3, Unchanging DEF PolicyInv, request

(* Nothing changes.                                                         *)
LEMMA StutterKeeps == PolicyInv /\ UNCHANGED policyVars => PolicyInv'
  <1> SUFFICES ASSUME PolicyInv, UNCHANGED policyVars PROVE PolicyInv'
    OBVIOUS
  <1>1. UNCHANGED <<request, ctx, next, allowHit, verdict>>
    BY DEF policyVars, request
  <1>2. Seen' = Seen /\ PolicyTypeOK'
    BY <1>1 DEF Seen, PolicyInv, PolicyTypeOK, request
  <1> QED
    BY <1>1, <1>2, Unchanging DEF PolicyInv, request

LEMMA StepKeeps == PolicyInv /\ [PolicyNext]_policyVars => PolicyInv'
  BY ResolveKeeps, FloorKeeps, ConsultKeeps, ConcludeKeeps, StutterKeeps DEF PolicyNext

(* The loop's invariant holds for every policy and request: what has been    *)
(* passed over does not deny, and allowHit is exact (security/rbac.py:73-84).*)
THEOREM LoopInvariant == PolicySpec => []PolicyInv
  BY InitEstablishes, StepKeeps, PTL DEF PolicySpec

-----------------------------------------------------------------------------
(* The verdicts.                                                           *)

Verdicts == VerdictIsOrderFree /\ TenantBoundary

(* A verdict stands: only one that is pending is ever replaced.              *)
LEMMA VerdictStands ==
    ASSUME Verdicts, UNCHANGED <<request, ctx>>, verdict' = verdict \/ verdict' = "refused"
    PROVE  Verdicts'
  <1>1. policy' = policy /\ resource' = resource /\ caller' = caller
    BY DEF request
  <1>2. TenantBoundary'
    BY <1>1 DEF Verdicts, TenantBoundary, Get
  <1>3. CASE verdict' = "refused"
    BY <1>2, <1>3 DEF Verdicts, VerdictIsOrderFree, Effects
  <1>4. CASE verdict' = verdict
    <2>1. VerdictIsOrderFree'
      BY <1>1, <1>4, Unchanging DEF Verdicts, VerdictIsOrderFree
    <2> QED
      BY <1>2, <2>1 DEF Verdicts
  <1> QED
    BY <1>3, <1>4

(* Each decision is that of the set of the rules, and within the tenant.     *)
LEMMA DecisionIsRight == PolicyInv /\ Verdicts /\ [PolicyNext]_policyVars => Verdicts'
  <1> SUFFICES ASSUME PolicyInv, Verdicts, [PolicyNext]_policyVars PROVE Verdicts'
    OBVIOUS
  <1> DEFINE Rules == {policy.rules[i] : i \in DOMAIN policy.rules}
  <1>0. /\ Len(policy.rules) \in Nat /\ DOMAIN policy.rules = 1 .. Len(policy.rules)
        /\ policy.default \in Effects
    BY RulesType DEF PolicyInv, PolicyTypeOK
  <1>1. CASE Resolve
    <2>1. verdict' \notin Effects
      BY <1>1 DEF Resolve, Effects
    <2> QED
      BY <2>1 DEF Verdicts, VerdictIsOrderFree, TenantBoundary, Effects
  <1>2. CASE Floor
    <2>1. UNCHANGED <<request, ctx>> /\ policy' = policy /\ ctx # Missing
      BY <1>2 DEF Floor, request, AtRule
    <2>2. OtherTenant' \/ policy'.rules = <<>>
      BY <1>2, <2>1, Unchanging DEF Floor
    <2>3. verdict' = "allow" => ~OtherTenant
      BY <1>2 DEF Floor
    <2> QED
      BY <2>1, <2>2, <2>3
      DEF Verdicts, VerdictIsOrderFree, TenantBoundary, PolicyInv, OtherTenant, request, Get
  <1>3. CASE Consult
    <2> DEFINE rule == policy.rules[next]
    <2>1. UNCHANGED <<request, ctx>> /\ policy' = policy /\ next \in DOMAIN policy.rules
      BY <1>0, <1>3 DEF Consult, request
    <2>2. CASE Applies(rule) /\ rule.effect = "deny"
      <3>1. verdict' = "deny"
        BY <1>3, <2>2 DEF Consult
      <3>2. \E r \in Rules : Applies(r)' /\ r.effect = "deny"
        BY <2>1, <2>2, Unchanging
      <3> QED
        BY <2>1, <2>2, <3>1, <3>2 DEF Verdicts, VerdictIsOrderFree, TenantBoundary
    <2>3. CASE ~(Applies(rule) /\ rule.effect = "deny")
      BY <1>3, <2>1, <2>3, VerdictStands DEF Consult
    <2> QED
      BY <2>2, <2>3
  <1>4. CASE Conclude
    <2>1. UNCHANGED <<request, ctx>> /\ policy' = policy /\ ctx # Missing
      BY <1>4 DEF Conclude, request, AtRule
    <2>2. Seen = Rules
      BY <1>0, <1>4 DEF Conclude, AtRule, Seen
    <2>3. \A r \in Rules : Applies(r) => r.effect = "allow"
      BY <2>1, <2>2 DEF PolicyInv
    <2>4. allowHit <=> \E r \in Rules : Applies(r)
      BY <2>1, <2>2 DEF PolicyInv
    <2>5. verdict' = IF allowHit THEN "allow" ELSE policy.default
      BY <1>4 DEF Conclude
    <2>6. VerdictIsOrderFree'
      <3> DEFINE applying == {r \in Rules : Applies(r)}
      <3>1. {r \in {policy'.rules[i] : i \in DOMAIN policy'.rules} : Applies(r)'} = applying
        BY <2>1, Unchanging
      <3>2. ~ \E r \in applying : r.effect = "deny"
        BY <2>3
      <3>3. allowHit <=> applying # {}
        BY <2>4
      <3> QED
        BY <2>1, <2>5, <3>1, <3>2, <3>3 DEF VerdictIsOrderFree
    <2>7. ~OtherTenant
      BY <1>0, <1>4, <2>1 DEF Conclude, PolicyInv
    <2>8. TenantBoundary'
      BY <2>1, <2>7 DEF TenantBoundary, OtherTenant, PolicyInv, request, Get
    <2> QED
      BY <2>6, <2>8 DEF Verdicts
  <1>5. CASE UNCHANGED policyVars
    BY <1>5, VerdictStands DEF policyVars, request
  <1> QED
    BY <1>1, <1>2, <1>3, <1>4, <1>5 DEF PolicyNext

LEMMA VerdictsHold == PolicySpec => []Verdicts
  <1>1. PolicyInit => Verdicts
    BY DEF PolicyInit, Verdicts, VerdictIsOrderFree, TenantBoundary, Effects
  <1> QED
    BY <1>1, DecisionIsRight, LoopInvariant, PTL DEF PolicySpec

(* The verdict of a loop with an early return is deny-overrides over the set *)
(* of the rules, in whatever order they come (security/rbac.py:73-99).       *)
THEOREM OrderFree == PolicySpec => []VerdictIsOrderFree
  BY VerdictsHold, PTL DEF Verdicts

(* Whatever the rules and the default, nothing of another tenant is allowed  *)
(* (security/rbac.py:53-56).                                                 *)
THEOREM Boundary == PolicySpec => []TenantBoundary
  BY VerdictsHold, PTL DEF Verdicts

=============================================================================
