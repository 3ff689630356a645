----------------------------- MODULE SumTheorems ------------------------------
(***************************************************************************)
(* Sums over finite sets.  The specifications write them with              *)
(* MapThenSumSet, which adds the values up in some order, by recursion on  *)
(* the set.  Here the sum of the numbers w[y], for y in S, is the number   *)
(* of pairs <<y, k>> with y in S and k in 1 .. w[y], which is what proofs  *)
(* can use: the laws of sums become laws of cardinalities.                 *)
(***************************************************************************)
EXTENDS Integers, FiniteSetsExt, FiniteSetTheorems, WellFoundedInduction, TLAPS

Pairs(S, w) == {p \in S \X Nat : p[2] \in 1 .. w[p[1]]}
Total(S, w) == Cardinality(Pairs(S, w))

\* There are finitely many pairs.
LEMMA PairsFinite ==
  ASSUME NEW S, IsFiniteSet(S), NEW w, \A y \in S : w[y] \in Nat
  PROVE  IsFiniteSet(Pairs(S, w)) /\ Total(S, w) \in Nat
<1> DEFINE col == [y \in S |-> {y} \X (1 .. w[y])]
           T   == {col[y] : y \in S}
<1>1. col \in Surjection(S, T)
  BY DEF Surjection
<1>2. IsFiniteSet(T)
  BY <1>1, FS_Surjection
<1>3. ASSUME NEW c \in T
      PROVE  IsFiniteSet(c)
  <2>1. PICK y \in S : c = {y} \X (1 .. w[y])
    OBVIOUS
  <2>2. IsFiniteSet({y}) /\ IsFiniteSet(1 .. w[y])
    <3>1. w[y] \in Int /\ 1 \in Int
      OBVIOUS
    <3>2. QED
      BY <3>1, FS_Singleton, FS_Interval
  <2>3. QED
    BY <2>1, <2>2, FS_Product
<1>4. IsFiniteSet(UNION T)
  BY <1>2, <1>3, FS_UNION
<1>5. Pairs(S, w) \subseteq UNION T
  <2>1. ASSUME NEW p \in Pairs(S, w)
        PROVE  p \in UNION T
    <3>1. p \in S \X Nat /\ p[2] \in 1 .. w[p[1]]
      BY <2>1 DEF Pairs
    <3>2. p[1] \in S /\ p \in {p[1]} \X (1 .. w[p[1]])
      BY <3>1
    <3>3. QED
      BY <3>2
  <2>2. QED
    BY <2>1
<1>6. QED
  BY <1>4, <1>5, FS_Subset, FS_CardinalityType DEF Total

\* The sum of nothing.
LEMMA TotalEmpty ==
  ASSUME NEW w
  PROVE  Total({}, w) = 0
<1>1. Pairs({}, w) = {}
  BY DEF Pairs
<1>2. QED
  BY <1>1, FS_EmptySet DEF Total

\* The sum of values that are all 0.
LEMMA TotalZero ==
  ASSUME NEW S, NEW w, \A y \in S : w[y] = 0
  PROVE  Total(S, w) = 0
<1>1. \A y \in S : 1 .. w[y] = {}
  OBVIOUS
<1>2. Pairs(S, w) = {}
  BY <1>1 DEF Pairs
<1>3. QED
  BY <1>2, FS_EmptySet DEF Total

\* Only the values at the elements count.
LEMMA TotalSame ==
  ASSUME NEW S, NEW v, NEW w, \A y \in S : v[y] = w[y]
  PROVE  Total(S, v) = Total(S, w)
<1>1. Pairs(S, v) = Pairs(S, w)
  BY DEF Pairs
<1>2. QED
  BY <1>1 DEF Total

\* The sum over two sets that have nothing in common.
LEMMA TotalUnion ==
  ASSUME NEW A, NEW B, IsFiniteSet(A), IsFiniteSet(B), A \cap B = {},
         NEW w, \A y \in A \cup B : w[y] \in Nat
  PROVE  Total(A \cup B, w) = Total(A, w) + Total(B, w)
<1>1. /\ IsFiniteSet(Pairs(A, w)) /\ Total(A, w) \in Nat
      /\ IsFiniteSet(Pairs(B, w)) /\ Total(B, w) \in Nat
  BY PairsFinite
<1>2. Pairs(A \cup B, w) = Pairs(A, w) \cup Pairs(B, w)
  BY DEF Pairs
<1>3. Pairs(A, w) \cap Pairs(B, w) = {}
  BY DEF Pairs
<1>4. Cardinality(Pairs(A, w) \cap Pairs(B, w)) = 0
  BY <1>3, FS_EmptySet
<1>5. Cardinality(Pairs(A, w) \cup Pairs(B, w))
        = Cardinality(Pairs(A, w)) + Cardinality(Pairs(B, w)) - Cardinality(Pairs(A, w) \cap Pairs(B, w))
  BY <1>1, FS_Union
<1>6. \A m, n \in Nat : m + n - 0 = m + n
  OBVIOUS
<1>7. QED
  BY <1>1, <1>2, <1>4, <1>5, <1>6 DEF Total

\* The same, within a larger set.
LEMMA TotalWithin ==
  ASSUME NEW S, IsFiniteSet(S), NEW w, \A y \in S : w[y] \in Nat,
         NEW A \in SUBSET S, NEW B \in SUBSET S, A \cap B = {}
  PROVE  Total(A \cup B, w) = Total(A, w) + Total(B, w)
<1>1. IsFiniteSet(A) /\ IsFiniteSet(B) /\ \A y \in A \cup B : w[y] \in Nat
  BY FS_Subset
<1>2. QED
  BY <1>1, TotalUnion

\* The sum over one element.
LEMMA TotalOne ==
  ASSUME NEW y, NEW w, w[y] \in Nat
  PROVE  Total({y}, w) = w[y]
<1>1. Pairs({y}, w) = {y} \X (1 .. w[y])
  BY DEF Pairs
<1>2. IsFiniteSet({y}) /\ Cardinality({y}) = 1
  BY FS_Singleton
<1>3. IsFiniteSet(1 .. w[y]) /\ Cardinality(1 .. w[y]) = w[y]
  <2>1. w[y] \in Int /\ 1 \in Int
    OBVIOUS
  <2>2. QED
    BY <2>1, FS_Interval
<1>4. Cardinality({y} \X (1 .. w[y])) = Cardinality({y}) * Cardinality(1 .. w[y])
  BY <1>2, <1>3, FS_Product
<1>5. \A n \in Nat : 1 * n = n
  OBVIOUS
<1>6. QED
  BY <1>1, <1>2, <1>3, <1>4, <1>5 DEF Total

\* Taking one element out of a sum.
LEMMA TotalSplit ==
  ASSUME NEW S, IsFiniteSet(S), NEW y \in S, NEW w, \A z \in S : w[z] \in Nat
  PROVE  Total(S, w) = w[y] + Total(S \ {y}, w) /\ Total(S \ {y}, w) \in Nat
<1>1. IsFiniteSet({y}) /\ IsFiniteSet(S \ {y})
  BY FS_Singleton, FS_RemoveElement
<1>2. {y} \cap (S \ {y}) = {} /\ {y} \cup (S \ {y}) = S
  OBVIOUS
<1>3. Total(S, w) = Total({y}, w) + Total(S \ {y}, w)
  BY <1>1, <1>2, TotalUnion
<1>4. Total({y}, w) = w[y]
  BY TotalOne
<1>5. Total(S \ {y}, w) \in Nat
  BY <1>1, PairsFinite
<1>6. QED
  BY <1>3, <1>4, <1>5

-----------------------------------------------------------------------------
(* The recursion of MapThenSumSet *)

Chosen(s) == CHOOSE y \in s : TRUE

\* What MapThenSumSet computes, as a function of the subset summed over.
Summed(S, w, sum) ==
  sum = [s \in SUBSET S |-> IF s = {} THEN 0 ELSE w[Chosen(s)] + sum[s \ {Chosen(s)}]]

\* There is one such function: the sums.
LEMMA SumIsTotal ==
  ASSUME NEW S, IsFiniteSet(S), NEW w, \A y \in S : w[y] \in Nat
  PROVE  /\ Summed(S, w, [s \in SUBSET S |-> Total(s, w)])
         /\ \A g, h : Summed(S, w, g) /\ Summed(S, w, h) => g = h
<1>1. ASSUME NEW s \in SUBSET S
      PROVE  /\ s = {} => Total(s, w) = 0
             /\ s # {} => /\ Chosen(s) \in s
                          /\ s \ {Chosen(s)} \in SUBSET S
                          /\ Total(s, w) = w[Chosen(s)] + Total(s \ {Chosen(s)}, w)
  <2>1. s = {} => Total(s, w) = 0
    BY TotalEmpty
  <2>2. ASSUME s # {}
        PROVE  /\ Chosen(s) \in s
               /\ s \ {Chosen(s)} \in SUBSET S
               /\ Total(s, w) = w[Chosen(s)] + Total(s \ {Chosen(s)}, w)
    <3>1. Chosen(s) \in s
      BY <2>2 DEF Chosen
    <3>2. IsFiniteSet(s)
      BY FS_Subset
    <3>3. \A z \in s : w[z] \in Nat
      OBVIOUS
    <3>4. Total(s, w) = w[Chosen(s)] + Total(s \ {Chosen(s)}, w)
      BY <3>1, <3>2, <3>3, TotalSplit
    <3>5. QED
      BY <3>1, <3>4
  <2>3. QED
    BY <2>1, <2>2
<1>2. Summed(S, w, [s \in SUBSET S |-> Total(s, w)])
  BY <1>1 DEF Summed
<1>3. ASSUME NEW g, NEW h, Summed(S, w, g), Summed(S, w, h)
      PROVE  g = h
  <2> DEFINE Bad == {s \in SUBSET S : g[s] # h[s]}
  <2>1. /\ g = [s \in SUBSET S |-> g[s]] /\ h = [s \in SUBSET S |-> h[s]]
        /\ \A s \in SUBSET S : g[s] = IF s = {} THEN 0 ELSE w[Chosen(s)] + g[s \ {Chosen(s)}]
        /\ \A s \in SUBSET S : h[s] = IF s = {} THEN 0 ELSE w[Chosen(s)] + h[s \ {Chosen(s)}]
    BY <1>3 DEF Summed
  <2>2. SUFFICES Bad = {}
    BY <2>1
  <2>3. SUFFICES ASSUME Bad # {}
                 PROVE  FALSE
    OBVIOUS
  <2>4. Bad \subseteq FiniteSubsetsOf(S)
    BY FS_Subset DEF FiniteSubsetsOf
  <2>5. IsWellFoundedOn(StrictSubsetOrdering(S), FiniteSubsetsOf(S))
    BY FS_StrictSubsetOrderingWellFounded
  <2>6. PICK s \in Bad : \A t \in Bad : ~ (<<t, s>> \in StrictSubsetOrdering(S))
    BY <2>3, <2>4, <2>5, WFMin, Zenon
  <2>7. s # {}
    BY <2>1
  <2>8. Chosen(s) \in s
    BY <2>7 DEF Chosen
  <2>9. s \ {Chosen(s)} \in SUBSET S /\ s \ {Chosen(s)} # s
    BY <2>8
  <2>10. <<s \ {Chosen(s)}, s>> \in StrictSubsetOrdering(S)
    BY <2>9 DEF StrictSubsetOrdering
  <2>11. g[s \ {Chosen(s)}] = h[s \ {Chosen(s)}]
    BY <2>6, <2>9, <2>10
  <2>12. g[s] = h[s]
    BY <2>1, <2>7, <2>11
  <2>13. QED
    BY <2>12
<1>4. QED
  BY <1>2, <1>3

=============================================================================
