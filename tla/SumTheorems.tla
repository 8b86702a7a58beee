---------------------------- MODULE SumTheorems ----------------------------
(***************************************************************************)
(* What SumFunctionOnSet of the module Functions computes on finite sets.  *)
(*                                                                         *)
(* It folds a set in the order in which CHOOSE picks its elements.  The    *)
(* theorems say that such a fold exists, that any element may be taken out *)
(* first, and how sums compare and add up.  Each induction is on the size  *)
(* of the set, as the absence of a smallest counterexample (LeastNat).     *)
(***************************************************************************)
EXTENDS Integers, FiniteSets, Functions, FiniteSetTheorems, WellFoundedInduction, TLAPS

Pick(S) == CHOOSE x \in S : TRUE

\* g computes the fold for every subset of S.
Folds(f, S, g) ==
  g = [s \in SUBSET S |-> IF s = {} THEN 0 ELSE f[Pick(s)] + g[s \ {Pick(s)}]]

-----------------------------------------------------------------------------
(* Smallest counterexamples.                                               *)

\* A set of natural numbers that is not empty has a least one.
LEMMA LeastNat ==
  ASSUME NEW T \in SUBSET Nat, T # {}
  PROVE  \E n \in T : \A m \in T : n <= m
<1> DEFINE R == {ss \in Nat \X Nat : ss[1] < ss[2]}
<1>1. IsWellFoundedOn(R, Nat)
  BY NatLessThanWellFounded DEF OpToRel
<1> HIDE DEF R
<1>2. PICK n \in T : \A m \in T : ~ (<<m, n>> \in R)
  BY <1>1, WFMin
<1>3. \A m \in T : ~(m < n)
  BY <1>2 DEF R
<1> QED
  BY <1>3

\* A collection of subsets of a finite set that is not empty has one of which no
\* smaller part is in the collection.
LEMMA LeastSet ==
  ASSUME NEW S, IsFiniteSet(S), NEW Bad \in SUBSET SUBSET S, Bad # {}
  PROVE  \E s \in Bad : IsFiniteSet(s) /\ \A t \in SUBSET s : t \in Bad => t = s
<1>1. \A s \in SUBSET S : IsFiniteSet(s) /\ Cardinality(s) \in Nat
  BY FS_Subset, FS_CardinalityType
<1> DEFINE T == {Cardinality(s) : s \in Bad}
<1>2. T \in SUBSET Nat /\ T # {}
  BY <1>1
<1>3. PICK n \in T : \A m \in T : n <= m
  BY <1>2, LeastNat
<1>4. PICK s \in Bad : Cardinality(s) = n
  OBVIOUS
<1>5. ASSUME NEW t \in SUBSET s, t \in Bad PROVE t = s
  <2>1. Cardinality(s) <= Cardinality(t)
    BY <1>3, <1>4, <1>5
  <2>2. t # s => Cardinality(t) < Cardinality(s)
    BY <1>1, <1>4, <1>5, FS_Subset
  <2> QED
    BY <1>1, <1>4, <1>5, <2>1, <2>2
<1> QED
  BY <1>1, <1>4, <1>5

\* An element is picked from a set.
LEMMA Picked == ASSUME NEW S, S # {} PROVE Pick(S) \in S
BY DEF Pick

-----------------------------------------------------------------------------
(* The fold exists.                                                        *)

LEMMA SumDef ==
  ASSUME NEW f, NEW S
  PROVE  SumFunctionOnSet(f, S) = (CHOOSE g : Folds(f, S, g))[S]
BY DEF SumFunctionOnSet, FoldFunctionOnSet, MapThenFoldSet, Folds, Pick

\* The equation of a fold.
LEMMA Unfold ==
  ASSUME NEW f, NEW S, NEW g, Folds(f, S, g), NEW s \in SUBSET S
  PROVE  /\ s = {} => g[s] = 0
         /\ s # {} => g[s] = f[Pick(s)] + g[s \ {Pick(s)}]
BY DEF Folds

\* Folds agree where they are both defined.
LEMMA FoldsAgree ==
  ASSUME NEW f, NEW S, NEW T, NEW g, NEW h, Folds(f, S, g), Folds(f, T, h),
         NEW s, IsFiniteSet(s), s \subseteq S, s \subseteq T
  PROVE  g[s] = h[s]
<1> DEFINE Bad == {u \in SUBSET s : g[u] # h[u]}
<1>1. SUFFICES ASSUME Bad # {} PROVE FALSE
  OBVIOUS
<1>2. Bad \in SUBSET SUBSET s
  OBVIOUS
<1> HIDE DEF Bad
<1>3. PICK u \in Bad : \A t \in SUBSET u : t \in Bad => t = u
  BY <1>1, <1>2, LeastSet
<1> USE DEF Bad
<1>4. /\ u = {} => g[u] = 0 /\ h[u] = 0
      /\ u # {} => /\ g[u] = f[Pick(u)] + g[u \ {Pick(u)}]
                   /\ h[u] = f[Pick(u)] + h[u \ {Pick(u)}]
  <2>1. u \in SUBSET S /\ u \in SUBSET T
    OBVIOUS
  <2> HIDE DEF Bad
  <2>2. (u = {} => g[u] = 0) /\ (u # {} => g[u] = f[Pick(u)] + g[u \ {Pick(u)}])
    BY <2>1, Unfold
  <2>3. (u = {} => h[u] = 0) /\ (u # {} => h[u] = f[Pick(u)] + h[u \ {Pick(u)}])
    BY <2>1, Unfold
  <2> QED
    BY <2>2, <2>3
<1>5. u # {} => g[u \ {Pick(u)}] = h[u \ {Pick(u)}]
  BY <1>3, Picked
<1> QED
  BY <1>4, <1>5

LEMMA FoldExists ==
  ASSUME NEW f, NEW S, IsFiniteSet(S)
  PROVE  \E g : Folds(f, S, g)
<1> DEFINE Bad == {s \in SUBSET S : ~ \E g : Folds(f, s, g)}
<1>1. SUFFICES ASSUME Bad # {} PROVE FALSE
  OBVIOUS
<1> HIDE DEF Bad
<1>2. PICK s \in Bad : IsFiniteSet(s) /\ \A t \in SUBSET s : t \in Bad => t = s
  <2>1. Bad \in SUBSET SUBSET S
    BY DEF Bad
  <2> QED
    BY <1>1, <2>1, LeastSet
<1> USE DEF Bad
<1> DEFINE G(t) == CHOOSE g : Folds(f, t, g)
           V(t) == G(t)[t]
           h == [t \in SUBSET s |-> IF t = {} THEN 0 ELSE f[Pick(t)] + V(t \ {Pick(t)})]
<1>3. \A t \in SUBSET s : t # s => Folds(f, t, G(t))
  BY <1>2
<1>4. ASSUME NEW u \in SUBSET s, u # s PROVE h[u] = V(u)
  <2>1. Folds(f, u, G(u))
    BY <1>3, <1>4
  <2>2. V(u) = IF u = {} THEN 0 ELSE f[Pick(u)] + G(u)[u \ {Pick(u)}]
    BY <2>1 DEF Folds
  <2>3. u # {} => G(u)[u \ {Pick(u)}] = V(u \ {Pick(u)})
    <3>1. SUFFICES ASSUME u # {} PROVE G(u)[u \ {Pick(u)}] = V(u \ {Pick(u)})
      OBVIOUS
    <3> DEFINE w == u \ {Pick(u)}
    <3>2. w \in SUBSET u /\ w \in SUBSET s /\ w # s /\ IsFiniteSet(w)
      BY <1>2, <1>4, <3>1, Picked, FS_Subset
    <3>3. Folds(f, w, G(w))
      BY <1>3, <3>2
    <3> HIDE DEF w, G
    <3>4. G(u)[w] = G(w)[w]
      BY <2>1, <3>2, <3>3, FoldsAgree
    <3> QED
      BY <3>4 DEF w
  <2> QED
    BY <2>2, <2>3
<1>5. ASSUME NEW t \in SUBSET s, t # {} PROVE h[t \ {Pick(t)}] = V(t \ {Pick(t)})
  <2>1. t \ {Pick(t)} \in SUBSET s /\ t \ {Pick(t)} # s
    BY <1>5, Picked
  <2> QED
    BY <1>4, <2>1
<1>6. Folds(f, s, h)
  <2> HIDE DEF G, V, h
  <2>1. \A t \in SUBSET s : (IF t = {} THEN 0 ELSE f[Pick(t)] + V(t \ {Pick(t)}))
                            = (IF t = {} THEN 0 ELSE f[Pick(t)] + h[t \ {Pick(t)}])
    BY <1>5
  <2> USE DEF h
  <2>2. h = [t \in SUBSET s |-> IF t = {} THEN 0 ELSE f[Pick(t)] + h[t \ {Pick(t)}]]
    BY <2>1
  <2> QED
    BY <2>2 DEF Folds
<1> QED
  BY <1>2, <1>6

\* The sum over a set is the element that is picked and the sum over the rest.
LEMMA SumStep ==
  ASSUME NEW f, NEW S, IsFiniteSet(S)
  PROVE  /\ S = {} => SumFunctionOnSet(f, S) = 0
         /\ S # {} => SumFunctionOnSet(f, S) = f[Pick(S)] + SumFunctionOnSet(f, S \ {Pick(S)})
<1> DEFINE G(t) == CHOOSE g : Folds(f, t, g)
<1>1. \A t \in SUBSET S : IsFiniteSet(t) /\ Folds(f, t, G(t))
  BY FoldExists, FS_Subset
<1>2. \A t \in SUBSET S : SumFunctionOnSet(f, t) = G(t)[t]
  BY SumDef
<1>3. /\ S = {} => G(S)[S] = 0
      /\ S # {} => G(S)[S] = f[Pick(S)] + G(S)[S \ {Pick(S)}]
  <2>1. Folds(f, S, G(S))
    BY <1>1
  <2> HIDE DEF G
  <2> QED
    BY <2>1, Unfold
<1>4. G(S)[S \ {Pick(S)}] = G(S \ {Pick(S)})[S \ {Pick(S)}]
  <2> DEFINE w == S \ {Pick(S)}
  <2>1. w \in SUBSET S /\ IsFiniteSet(w) /\ Folds(f, w, G(w)) /\ Folds(f, S, G(S))
    BY <1>1
  <2> HIDE DEF w, G
  <2>2. G(S)[w] = G(w)[w]
    BY <2>1, FoldsAgree
  <2> QED
    BY <2>2 DEF w
<1>5. S \in SUBSET S /\ S \ {Pick(S)} \in SUBSET S
  OBVIOUS
<1> HIDE DEF G
<1> QED
  BY <1>2, <1>3, <1>4, <1>5

-----------------------------------------------------------------------------
(* Sums of integers.                                                       *)

LEMMA SumEmpty == ASSUME NEW f PROVE SumFunctionOnSet(f, {}) = 0
BY SumStep, FS_EmptySet

LEMMA SumInt ==
  ASSUME NEW S, IsFiniteSet(S), NEW f, \A x \in S : f[x] \in Int
  PROVE  SumFunctionOnSet(f, S) \in Int
<1> DEFINE Bad == {s \in SUBSET S : SumFunctionOnSet(f, s) \notin Int}
<1>1. SUFFICES ASSUME Bad # {} PROVE FALSE
  OBVIOUS
<1>2. Bad \in SUBSET SUBSET S
  OBVIOUS
<1> HIDE DEF Bad
<1>3. PICK s \in Bad : IsFiniteSet(s) /\ \A t \in SUBSET s : t \in Bad => t = s
  BY <1>1, <1>2, LeastSet
<1> USE DEF Bad
<1> DEFINE rest == s \ {Pick(s)}
<1>4. s # {} => Pick(s) \in s /\ rest \in SUBSET s /\ rest # s
  BY Picked
<1>5. s # {} => f[Pick(s)] \in Int /\ SumFunctionOnSet(f, rest) \in Int
  BY <1>3, <1>4
<1>6. s # {} => SumFunctionOnSet(f, s) = f[Pick(s)] + SumFunctionOnSet(f, rest)
  BY <1>3, SumStep
<1>7. s = {} => SumFunctionOnSet(f, s) = 0
  BY SumEmpty
<1> QED
  BY <1>5, <1>6, <1>7

\* Any element may be taken out first.
LEMMA SumTakeOut ==
  ASSUME NEW S, IsFiniteSet(S), NEW f, \A x \in S : f[x] \in Int, NEW y \in S
  PROVE  SumFunctionOnSet(f, S) = f[y] + SumFunctionOnSet(f, S \ {y})
<1> DEFINE Splits(s, x) == SumFunctionOnSet(f, s) = f[x] + SumFunctionOnSet(f, s \ {x})
           Bad == {s \in SUBSET S : \E x \in s : ~Splits(s, x)}
<1>1. SUFFICES ASSUME Bad # {} PROVE FALSE
  OBVIOUS
<1>2. Bad \in SUBSET SUBSET S
  OBVIOUS
<1> HIDE DEF Bad
<1>3. PICK s \in Bad : IsFiniteSet(s) /\ \A t \in SUBSET s : t \in Bad => t = s
  BY <1>1, <1>2, LeastSet
<1>4. s \in SUBSET S /\ \E x \in s : ~Splits(s, x)
  BY DEF Bad
<1>5. PICK x \in s : ~Splits(s, x)
  BY <1>4
<1> DEFINE p == Pick(s)
           both == s \ {x, p}
<1>6. p \in s /\ Splits(s, p)
  BY <1>3, <1>5, Picked, SumStep
<1>7. x # p
  BY <1>5, <1>6
<1>8. \A t \in SUBSET S : t \in SUBSET s /\ t # s => \A z \in t : Splits(t, z)
  BY <1>3 DEF Bad
<1>9. Splits(s \ {p}, x) /\ Splits(s \ {x}, p)
  BY <1>4, <1>6, <1>7, <1>8
<1>10. (s \ {p}) \ {x} = both /\ (s \ {x}) \ {p} = both
  OBVIOUS
<1>11. f[x] \in Int /\ f[p] \in Int /\ SumFunctionOnSet(f, both) \in Int
  <2>1. IsFiniteSet(both) /\ both \in SUBSET S
    BY <1>3, <1>4, FS_Subset
  <2> QED
    BY <1>4, <1>6, <2>1, SumInt
<1> HIDE DEF p, both
<1>12. /\ SumFunctionOnSet(f, s) = f[p] + SumFunctionOnSet(f, s \ {p})
       /\ SumFunctionOnSet(f, s \ {p}) = f[x] + SumFunctionOnSet(f, both)
       /\ SumFunctionOnSet(f, s \ {x}) = f[p] + SumFunctionOnSet(f, both)
  BY <1>6, <1>9, <1>10
<1>13. SumFunctionOnSet(f, s) = f[x] + SumFunctionOnSet(f, s \ {x})
  BY <1>11, <1>12
<1> QED
  BY <1>5, <1>13

\* What is added to a set adds to the sum.
LEMMA SumAdd ==
  ASSUME NEW S, IsFiniteSet(S), NEW y, y \notin S, NEW f, \A x \in S \cup {y} : f[x] \in Int
  PROVE  /\ IsFiniteSet(S \cup {y})
         /\ SumFunctionOnSet(f, S \cup {y}) = f[y] + SumFunctionOnSet(f, S)
<1>1. IsFiniteSet(S \cup {y}) /\ (S \cup {y}) \ {y} = S /\ y \in S \cup {y}
  BY FS_AddElement
<1>2. SumFunctionOnSet(f, S \cup {y}) = f[y] + SumFunctionOnSet(f, (S \cup {y}) \ {y})
  BY <1>1, SumTakeOut
<1> QED
  BY <1>1, <1>2

\* The sum depends on the values over the set only, and grows with them.
LEMMA SumMonotone ==
  ASSUME NEW S, IsFiniteSet(S), NEW f, NEW g,
         \A x \in S : f[x] \in Int /\ g[x] \in Int /\ f[x] <= g[x]
  PROVE  SumFunctionOnSet(f, S) <= SumFunctionOnSet(g, S)
<1> DEFINE Bad == {s \in SUBSET S : ~(SumFunctionOnSet(f, s) <= SumFunctionOnSet(g, s))}
<1>1. SUFFICES ASSUME Bad # {} PROVE FALSE
  OBVIOUS
<1>2. Bad \in SUBSET SUBSET S
  OBVIOUS
<1> HIDE DEF Bad
<1>3. PICK s \in Bad : IsFiniteSet(s) /\ \A t \in SUBSET s : t \in Bad => t = s
  BY <1>1, <1>2, LeastSet
<1> DEFINE p == Pick(s)
           rest == s \ {p}
<1>4. s \in SUBSET S /\ ~(SumFunctionOnSet(f, s) <= SumFunctionOnSet(g, s))
  BY DEF Bad
<1>5. s # {}
  BY <1>4, SumEmpty
<1>6. p \in s /\ rest \in SUBSET s /\ rest \in SUBSET S /\ rest # s /\ IsFiniteSet(rest)
  BY <1>3, <1>4, <1>5, Picked, FS_Subset
<1>7. SumFunctionOnSet(f, rest) <= SumFunctionOnSet(g, rest)
  BY <1>3, <1>6 DEF Bad
<1>8. /\ SumFunctionOnSet(f, s) = f[p] + SumFunctionOnSet(f, rest)
      /\ SumFunctionOnSet(g, s) = g[p] + SumFunctionOnSet(g, rest)
  BY <1>3, <1>5, SumStep
<1>9. /\ SumFunctionOnSet(f, rest) \in Int /\ SumFunctionOnSet(g, rest) \in Int
      /\ f[p] \in Int /\ g[p] \in Int /\ f[p] <= g[p]
  BY <1>4, <1>6, SumInt
<1> HIDE DEF p, rest
<1> QED
  BY <1>4, <1>7, <1>8, <1>9

LEMMA SumEqual ==
  ASSUME NEW S, IsFiniteSet(S), NEW f, NEW g, \A x \in S : f[x] \in Int /\ g[x] = f[x]
  PROVE  SumFunctionOnSet(f, S) = SumFunctionOnSet(g, S)
<1>1. SumFunctionOnSet(f, S) \in Int /\ SumFunctionOnSet(g, S) \in Int
  BY SumInt
<1>2. SumFunctionOnSet(f, S) <= SumFunctionOnSet(g, S)
  BY SumMonotone
<1>3. SumFunctionOnSet(g, S) <= SumFunctionOnSet(f, S)
  BY SumMonotone
<1> QED
  BY <1>1, <1>2, <1>3

\* Sums of differences are differences of sums.
LEMMA SumDifference ==
  ASSUME NEW S, IsFiniteSet(S), NEW f, NEW g, NEW h,
         \A x \in S : f[x] \in Int /\ g[x] \in Int /\ h[x] = f[x] - g[x]
  PROVE  SumFunctionOnSet(h, S) = SumFunctionOnSet(f, S) - SumFunctionOnSet(g, S)
<1> DEFINE Differs(s) ==
             SumFunctionOnSet(h, s) # SumFunctionOnSet(f, s) - SumFunctionOnSet(g, s)
           Bad == {s \in SUBSET S : Differs(s)}
<1>1. SUFFICES ASSUME Bad # {} PROVE FALSE
  OBVIOUS
<1>2. Bad \in SUBSET SUBSET S
  OBVIOUS
<1> HIDE DEF Bad
<1>3. PICK s \in Bad : IsFiniteSet(s) /\ \A t \in SUBSET s : t \in Bad => t = s
  BY <1>1, <1>2, LeastSet
<1> DEFINE p == Pick(s)
           rest == s \ {p}
<1>4. s \in SUBSET S /\ Differs(s)
  BY DEF Bad
<1>5. s # {}
  <2>1. ~Differs({})
    BY SumEmpty
  <2> QED
    BY <1>4, <2>1
<1>6. p \in s /\ rest \in SUBSET s /\ rest \in SUBSET S /\ rest # s /\ IsFiniteSet(rest)
  BY <1>3, <1>4, <1>5, Picked, FS_Subset
<1>7. ~Differs(rest)
  BY <1>3, <1>6 DEF Bad
<1>8. /\ SumFunctionOnSet(f, s) = f[p] + SumFunctionOnSet(f, rest)
      /\ SumFunctionOnSet(g, s) = g[p] + SumFunctionOnSet(g, rest)
      /\ SumFunctionOnSet(h, s) = h[p] + SumFunctionOnSet(h, rest)
  BY <1>3, <1>5, SumStep
<1>9. /\ SumFunctionOnSet(f, rest) \in Int /\ SumFunctionOnSet(g, rest) \in Int
      /\ f[p] \in Int /\ g[p] \in Int /\ h[p] = f[p] - g[p]
  BY <1>4, <1>6, SumInt
<1> HIDE DEF p, rest
<1> QED
  BY <1>4, <1>7, <1>8, <1>9

-----------------------------------------------------------------------------
(* Sums of natural numbers.                                                *)

LEMMA SumNat ==
  ASSUME NEW S, IsFiniteSet(S), NEW f, \A x \in S : f[x] \in Nat
  PROVE  SumFunctionOnSet(f, S) \in Nat
<1> DEFINE Bad == {s \in SUBSET S : SumFunctionOnSet(f, s) \notin Nat}
<1>1. SUFFICES ASSUME Bad # {} PROVE FALSE
  OBVIOUS
<1>2. Bad \in SUBSET SUBSET S
  OBVIOUS
<1> HIDE DEF Bad
<1>3. PICK s \in Bad : IsFiniteSet(s) /\ \A t \in SUBSET s : t \in Bad => t = s
  BY <1>1, <1>2, LeastSet
<1> USE DEF Bad
<1> DEFINE rest == s \ {Pick(s)}
<1>4. s # {} => Pick(s) \in s /\ rest \in SUBSET s /\ rest # s
  BY Picked
<1>5. s # {} => f[Pick(s)] \in Nat /\ SumFunctionOnSet(f, rest) \in Nat
  BY <1>3, <1>4
<1>6. s # {} => SumFunctionOnSet(f, s) = f[Pick(s)] + SumFunctionOnSet(f, rest)
  BY <1>3, SumStep
<1>7. s = {} => SumFunctionOnSet(f, s) = 0
  BY SumEmpty
<1> QED
  BY <1>5, <1>6, <1>7

\* No element is larger than the sum.
LEMMA SumMember ==
  ASSUME NEW S, IsFiniteSet(S), NEW f, \A x \in S : f[x] \in Nat, NEW y \in S
  PROVE  f[y] <= SumFunctionOnSet(f, S)
<1>1. SumFunctionOnSet(f, S) = f[y] + SumFunctionOnSet(f, S \ {y})
  BY SumTakeOut
<1>2. SumFunctionOnSet(f, S \ {y}) \in Nat
  <2>1. IsFiniteSet(S \ {y}) /\ \A x \in S \ {y} : f[x] \in Nat
    BY FS_Subset
  <2> QED
    BY <2>1, SumNat
<1> QED
  BY <1>1, <1>2

\* Zeros add nothing.
LEMMA SumZeros ==
  ASSUME NEW S, IsFiniteSet(S), NEW T \in SUBSET S, NEW f, \A x \in S : f[x] \in Int,
         \A x \in S \ T : f[x] = 0
  PROVE  SumFunctionOnSet(f, S) = SumFunctionOnSet(f, T)
<1> DEFINE Differs(s) == SumFunctionOnSet(f, T \cup s) # SumFunctionOnSet(f, T)
           Bad == {s \in SUBSET (S \ T) : Differs(s)}
<1>1. SUFFICES ASSUME Bad # {} PROVE FALSE
  <2>1. Bad = {} => ~Differs(S \ T)
    OBVIOUS
  <2>2. T \cup (S \ T) = S
    OBVIOUS
  <2> QED
    BY <2>1, <2>2
<1>2. Bad \in SUBSET SUBSET (S \ T) /\ IsFiniteSet(S \ T)
  BY FS_Subset
<1> HIDE DEF Bad
<1>3. PICK s \in Bad : IsFiniteSet(s) /\ \A t \in SUBSET s : t \in Bad => t = s
  BY <1>1, <1>2, LeastSet
<1>4. s \in SUBSET (S \ T) /\ Differs(s)
  BY DEF Bad
<1>5. s # {}
  <2>1. T \cup {} = T
    OBVIOUS
  <2> QED
    BY <1>4, <2>1
<1> DEFINE p == Pick(s)
           rest == s \ {p}
<1>6. p \in s /\ rest \in SUBSET s /\ rest # s
  BY <1>5, Picked
<1>7. ~Differs(rest)
  <2>1. rest \notin Bad /\ rest \in SUBSET (S \ T)
    BY <1>3, <1>4, <1>6
  <2> HIDE DEF Differs, rest
  <2> QED
    BY <2>1 DEF Bad
<1> DEFINE part == T \cup rest
<1>8. T \cup s = part \cup {p} /\ p \notin part
  BY <1>4, <1>6
<1>9. /\ IsFiniteSet(part) /\ \A x \in part \cup {p} : f[x] \in Int
      /\ f[p] = 0
  BY <1>4, <1>6, FS_Subset
<1>10. SumFunctionOnSet(f, part) = SumFunctionOnSet(f, T)
  BY <1>7
<1>11. SumFunctionOnSet(f, T \cup s) # SumFunctionOnSet(f, T)
  BY <1>4
<1> HIDE DEF p, part, Differs
<1>12. SumFunctionOnSet(f, part) \in Int
  BY <1>9, SumInt
<1>13. SumFunctionOnSet(f, part \cup {p}) = f[p] + SumFunctionOnSet(f, part)
  BY <1>8, <1>9, SumAdd
<1>14. SumFunctionOnSet(f, T \cup s) = SumFunctionOnSet(f, part \cup {p})
  BY <1>8, Zenon
<1> HIDE DEF rest
<1> QED
  BY <1>9, <1>10, <1>11, <1>12, <1>13, <1>14

\* Adding up the images of different elements is adding up over the elements.
LEMMA SumImage ==
  ASSUME NEW S, IsFiniteSet(S), NEW f, NEW g, NEW h,
         \A x \in S : f[x] \in Int /\ h[g[x]] = f[x],
         \A x, y \in S : g[x] = g[y] => x = y
  PROVE  /\ IsFiniteSet({g[x] : x \in S})
         /\ SumFunctionOnSet(h, {g[x] : x \in S}) = SumFunctionOnSet(f, S)
<1> DEFINE Image(s) == {g[x] : x \in s}
           Agrees(s) == /\ IsFiniteSet(Image(s))
                        /\ SumFunctionOnSet(h, Image(s)) = SumFunctionOnSet(f, s)
           Bad == {s \in SUBSET S : ~Agrees(s)}
<1>1. SUFFICES ASSUME Bad # {} PROVE FALSE
  OBVIOUS
<1>2. Bad \in SUBSET SUBSET S
  OBVIOUS
<1> HIDE DEF Bad
<1>3. PICK s \in Bad : IsFiniteSet(s) /\ \A t \in SUBSET s : t \in Bad => t = s
  BY <1>1, <1>2, LeastSet
<1>4. s \in SUBSET S /\ ~Agrees(s)
  BY DEF Bad
<1>5. s # {}
  <2>1. Image({}) = {}
    OBVIOUS
  <2>2. Agrees({})
    BY <2>1, SumEmpty, FS_EmptySet
  <2> QED
    BY <1>4, <2>2
<1> DEFINE p == Pick(s)
           rest == s \ {p}
<1>6. p \in s /\ rest \in SUBSET s /\ rest # s
  BY <1>5, Picked
<1>7. Agrees(rest)
  <2>1. rest \notin Bad /\ rest \in SUBSET S
    BY <1>3, <1>4, <1>6
  <2> HIDE DEF Agrees, rest
  <2> QED
    BY <2>1 DEF Bad
<1>8. s = rest \cup {p} /\ p \notin rest
  BY <1>6
<1>9. Image(s) = Image(rest) \cup {g[p]} /\ g[p] \notin Image(rest)
  BY <1>4, <1>6
<1>10. /\ IsFiniteSet(rest) /\ \A x \in rest \cup {p} : f[x] \in Int
       /\ \A y \in Image(rest) \cup {g[p]} : h[y] \in Int
       /\ h[g[p]] = f[p]
  BY <1>3, <1>4, <1>6, FS_Subset
<1>11. IsFiniteSet(Image(rest)) /\ SumFunctionOnSet(h, Image(rest)) = SumFunctionOnSet(f, rest)
  BY <1>7
<1> HIDE DEF Image, p, rest
<1>12. SumFunctionOnSet(f, rest \cup {p}) = f[p] + SumFunctionOnSet(f, rest)
  BY <1>8, <1>10, SumAdd
<1>13. /\ IsFiniteSet(Image(rest) \cup {g[p]})
       /\ SumFunctionOnSet(h, Image(rest) \cup {g[p]})
            = h[g[p]] + SumFunctionOnSet(h, Image(rest))
  BY <1>9, <1>10, <1>11, SumAdd
<1>14. /\ SumFunctionOnSet(f, s) = SumFunctionOnSet(f, rest \cup {p})
       /\ SumFunctionOnSet(h, Image(s)) = SumFunctionOnSet(h, Image(rest) \cup {g[p]})
  BY <1>8, <1>9, Zenon
<1>15. SumFunctionOnSet(h, Image(s)) = SumFunctionOnSet(f, s)
  BY <1>10, <1>11, <1>12, <1>13, <1>14
<1>16. IsFiniteSet(Image(s))
  BY <1>9, <1>13
<1> QED
  BY <1>4, <1>15, <1>16

-----------------------------------------------------------------------------
(* Sums of sums.                                                           *)

\* Sums of sums of two functions are sums of two sums.
LEMMA SumPlus ==
  ASSUME NEW S, IsFiniteSet(S), NEW f, NEW g, NEW h,
         \A x \in S : f[x] \in Int /\ g[x] \in Int /\ h[x] = f[x] + g[x]
  PROVE  SumFunctionOnSet(h, S) = SumFunctionOnSet(f, S) + SumFunctionOnSet(g, S)
<1>1. \A x \in S : h[x] \in Int /\ f[x] = h[x] - g[x]
  OBVIOUS
<1>2. SumFunctionOnSet(f, S) = SumFunctionOnSet(h, S) - SumFunctionOnSet(g, S)
  BY <1>1, SumDifference
<1>3. SumFunctionOnSet(h, S) \in Int /\ SumFunctionOnSet(g, S) \in Int
  BY <1>1, SumInt
<1> QED
  BY <1>2, <1>3

\* A sum whose terms are all zero.
LEMMA SumZero ==
  ASSUME NEW S, IsFiniteSet(S), NEW f, \A x \in S : f[x] = 0
  PROVE  SumFunctionOnSet(f, S) = 0
<1>1. {} \in SUBSET S /\ (\A x \in S : f[x] \in Int) /\ \A x \in S \ {} : f[x] = 0
  OBVIOUS
<1>2. SumFunctionOnSet(f, S) = SumFunctionOnSet(f, {})
  BY <1>1, SumZeros
<1> QED
  BY <1>2, SumEmpty

\* The sum of the negated terms.
LEMMA SumNegative ==
  ASSUME NEW S, IsFiniteSet(S), NEW f, NEW h, \A x \in S : f[x] \in Int /\ h[x] = -f[x]
  PROVE  SumFunctionOnSet(h, S) = 0 - SumFunctionOnSet(f, S)
<1> DEFINE zero == [x \in S |-> 0]
<1>1. \A x \in S : zero[x] \in Int /\ f[x] \in Int /\ h[x] = zero[x] - f[x]
  OBVIOUS
<1>2. \A x \in S : zero[x] = 0
  OBVIOUS
<1> HIDE DEF zero
<1>3. SumFunctionOnSet(h, S) = SumFunctionOnSet(zero, S) - SumFunctionOnSet(f, S)
  BY <1>1, SumDifference
<1>4. SumFunctionOnSet(zero, S) = 0
  BY <1>2, SumZero
<1>5. SumFunctionOnSet(f, S) \in Int
  BY SumInt
<1> QED
  BY <1>3, <1>4, <1>5

\* The sum of a function that is zero but for one element.
LEMMA SumPoint ==
  ASSUME NEW S, IsFiniteSet(S), NEW k \in S, NEW f, f[k] \in Int,
         \A x \in S \ {k} : f[x] = 0
  PROVE  SumFunctionOnSet(f, S) = f[k]
<1>1. \A x \in S : f[x] \in Int
  OBVIOUS
<1>2. SumFunctionOnSet(f, S) = f[k] + SumFunctionOnSet(f, S \ {k})
  BY <1>1, SumTakeOut
<1>3. IsFiniteSet(S \ {k})
  BY FS_Subset
<1>4. SumFunctionOnSet(f, S \ {k}) = 0
  BY <1>3, SumZero
<1> QED
  BY <1>2, <1>4

\* The sum over a part is the sum of the function cut down to it.
LEMMA SumCut ==
  ASSUME NEW S, IsFiniteSet(S), NEW T \in SUBSET S, NEW f, NEW g,
         \A x \in S : f[x] \in Int /\ g[x] = IF x \in T THEN f[x] ELSE 0
  PROVE  SumFunctionOnSet(g, S) = SumFunctionOnSet(f, T)
<1>1. (\A x \in S : g[x] \in Int) /\ \A x \in S \ T : g[x] = 0
  OBVIOUS
<1>2. SumFunctionOnSet(g, S) = SumFunctionOnSet(g, T)
  BY <1>1, SumZeros
<1>3. IsFiniteSet(T) /\ \A x \in T : f[x] \in Int /\ g[x] = f[x]
  BY FS_Subset
<1>4. SumFunctionOnSet(f, T) = SumFunctionOnSet(g, T)
  BY <1>3, SumEqual
<1> QED
  BY <1>2, <1>4

\* The sum over two parts that have nothing in common.
LEMMA SumUnion ==
  ASSUME NEW S, IsFiniteSet(S), NEW T \in SUBSET S, NEW f, \A x \in S : f[x] \in Int
  PROVE  SumFunctionOnSet(f, S) = SumFunctionOnSet(f, T) + SumFunctionOnSet(f, S \ T)
<1> DEFINE in == [x \in S |-> IF x \in T THEN f[x] ELSE 0]
           out == [x \in S |-> IF x \in S \ T THEN f[x] ELSE 0]
<1>1. \A x \in S : in[x] \in Int /\ out[x] \in Int /\ f[x] = in[x] + out[x]
  OBVIOUS
<1>2. \A x \in S : f[x] \in Int /\ in[x] = IF x \in T THEN f[x] ELSE 0
  OBVIOUS
<1>3. \A x \in S : f[x] \in Int /\ out[x] = IF x \in S \ T THEN f[x] ELSE 0
  OBVIOUS
<1>4. S \ T \in SUBSET S
  OBVIOUS
<1> HIDE DEF in, out
<1>5. SumFunctionOnSet(f, S) = SumFunctionOnSet(in, S) + SumFunctionOnSet(out, S)
  BY <1>1, SumPlus
<1>6. SumFunctionOnSet(in, S) = SumFunctionOnSet(f, T)
  BY <1>2, SumCut
<1>7. SumFunctionOnSet(out, S) = SumFunctionOnSet(f, S \ T)
  BY <1>3, <1>4, SumCut
<1> QED
  BY <1>5, <1>6, <1>7

\* F[x][y] is what stands in row x and column y of a table, G[y][x] the same; row
\* and column hold their sums.
Table(F, G, S, T, row, column) ==
  /\ \A x \in S : \A y \in T : F[x][y] \in Int /\ G[y][x] = F[x][y]
  /\ \A x \in S : row[x] = SumFunctionOnSet(F[x], T)
  /\ \A y \in T : column[y] = SumFunctionOnSet(G[y], S)

\* The rows of a table add up to what its columns add up to.
LEMMA SumExchange ==
  ASSUME NEW S, IsFiniteSet(S), NEW T, IsFiniteSet(T), NEW F, NEW G, NEW row, NEW column,
         Table(F, G, S, T, row, column)
  PROVE  SumFunctionOnSet(row, S) = SumFunctionOnSet(column, T)
<1> USE DEF Table
<1> DEFINE part(s) == [y \in T |-> SumFunctionOnSet(G[y], s)]
           Differs(s) == SumFunctionOnSet(row, s) # SumFunctionOnSet(part(s), T)
           Bad == {s \in SUBSET S : Differs(s)}
<1>a. SumFunctionOnSet(column, T) = SumFunctionOnSet(part(S), T)
  <2>1. \A y \in T : SumFunctionOnSet(G[y], S) \in Int
    BY SumInt
  <2>2. \A y \in T : column[y] \in Int /\ part(S)[y] = column[y]
    BY <2>1
  <2> HIDE DEF part
  <2> QED
    BY <2>2, SumEqual
<1>1. SUFFICES ASSUME Bad # {} PROVE FALSE
  <2>1. Bad = {} => ~Differs(S)
    OBVIOUS
  <2> HIDE DEF part
  <2> QED
    BY <2>1, <1>a
<1>2. Bad \in SUBSET SUBSET S
  OBVIOUS
<1> HIDE DEF Bad
<1>3. PICK s \in Bad : IsFiniteSet(s) /\ \A t \in SUBSET s : t \in Bad => t = s
  BY <1>1, <1>2, LeastSet
<1>4. s \in SUBSET S /\ Differs(s)
  BY DEF Bad
<1>5. s # {}
  <2>1. \A y \in T : part({})[y] = 0
    BY SumEmpty
  <2> HIDE DEF part
  <2>2. SumFunctionOnSet(part({}), T) = 0
    BY <2>1, SumZero
  <2>3. ~Differs({})
    BY <2>2, SumEmpty
  <2> QED
    BY <1>4, <2>3
<1> DEFINE p == Pick(s)
           rest == s \ {p}
<1>6. p \in s /\ p \in S /\ rest \in SUBSET s /\ rest \in SUBSET S /\ rest # s /\ IsFiniteSet(rest)
  BY <1>3, <1>4, <1>5, Picked, FS_Subset
<1>7. ~Differs(rest)
  <2> HIDE DEF Differs, rest
  <2> QED
    BY <1>3, <1>6 DEF Bad
<1>8. SumFunctionOnSet(row, s) = row[p] + SumFunctionOnSet(row, rest)
  BY <1>3, <1>5, SumStep
<1>9. \A y \in T : SumFunctionOnSet(G[y], s) = G[y][p] + SumFunctionOnSet(G[y], rest)
  BY <1>3, <1>5, SumStep
<1>10. \A y \in T : SumFunctionOnSet(G[y], rest) \in Int
  BY <1>6, SumInt
<1> HIDE DEF p, rest
<1>11. \A y \in T : /\ F[p][y] \in Int /\ part(rest)[y] \in Int
                    /\ part(s)[y] = F[p][y] + part(rest)[y]
  BY <1>6, <1>9, <1>10
<1>12. row[p] = SumFunctionOnSet(F[p], T)
  BY <1>6
<1>13. SumFunctionOnSet(part(s), T) = SumFunctionOnSet(F[p], T) + SumFunctionOnSet(part(rest), T)
  <2> HIDE DEF part
  <2> QED
    BY <1>11, SumPlus
<1> HIDE DEF part
<1> QED
  BY <1>4, <1>7, <1>8, <1>12, <1>13

\* K[y] is the key of y, and row[x] what the elements with key x add up to.
ByKey(K, f, S, T, row) ==
  /\ \A y \in T : K[y] \in S /\ f[y] \in Int
  /\ \A x \in S : row[x] = SumFunctionOnSet(f, {y \in T : K[y] = x})

\* Adding up by key is adding up.
LEMMA SumByKey ==
  ASSUME NEW S, IsFiniteSet(S), NEW T, IsFiniteSet(T), NEW K, NEW f, NEW row,
         ByKey(K, f, S, T, row)
  PROVE  SumFunctionOnSet(row, S) = SumFunctionOnSet(f, T)
<1> USE DEF ByKey
<1> DEFINE F == [x \in S |-> [y \in T |-> IF K[y] = x THEN f[y] ELSE 0]]
           G == [y \in T |-> [x \in S |-> IF K[y] = x THEN f[y] ELSE 0]]
<1>1. \A x \in S : \A y \in T : F[x][y] \in Int /\ G[y][x] = F[x][y]
  OBVIOUS
<1>2. \A x \in S : row[x] = SumFunctionOnSet(F[x], T)
  <2>1. SUFFICES ASSUME NEW x \in S PROVE row[x] = SumFunctionOnSet(F[x], T)
    OBVIOUS
  <2> DEFINE part == {y \in T : K[y] = x}
  <2>2. part \in SUBSET T /\ \A y \in T : f[y] \in Int /\ F[x][y] = IF y \in part THEN f[y] ELSE 0
    OBVIOUS
  <2>3. row[x] = SumFunctionOnSet(f, part)
    OBVIOUS
  <2> HIDE DEF F, part
  <2>4. SumFunctionOnSet(F[x], T) = SumFunctionOnSet(f, part)
    BY <2>2, SumCut
  <2> QED
    BY <2>3, <2>4
<1>3. \A y \in T : f[y] = SumFunctionOnSet(G[y], S)
  <2>1. SUFFICES ASSUME NEW y \in T PROVE f[y] = SumFunctionOnSet(G[y], S)
    OBVIOUS
  <2>2. /\ K[y] \in S /\ G[y][K[y]] = f[y] /\ G[y][K[y]] \in Int
        /\ \A x \in S \ {K[y]} : G[y][x] = 0
    OBVIOUS
  <2> HIDE DEF G
  <2>3. SumFunctionOnSet(G[y], S) = G[y][K[y]]
    BY <2>2, SumPoint
  <2> QED
    BY <2>2, <2>3
<1> HIDE DEF F, G
<1> QED
  <2>1. Table(F, G, S, T, row, f)
    BY <1>1, <1>2, <1>3 DEF Table
  <2> QED
    BY <2>1, SumExchange
=============================================================================
