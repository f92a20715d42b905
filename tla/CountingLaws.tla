---------------------------- MODULE CountingLaws ----------------------------
(***************************************************************************)
(* The laws the proofs about tallies and histograms rest on.               *)
(*                                                                         *)
(* FoldFunction(+, 0, f) is the sum of the values of f: a natural number,  *)
(* whatever order they are taken in; and how it changes when one value     *)
(* does, when two functions are added, and when the domain grows by zeros. *)
(* The error counters of Accounts count each outcome once.  2 ^ n is the   *)
(* number of subsets of n things, from which follow its laws; and of the   *)
(* layout of Buckets, that each value is in one slot and a slot is narrow. *)
(*                                                                         *)
(* Induction is by least counterexample: a set of naturals, or of subsets  *)
(* of a finite set, that is not empty has a smallest member.               *)
(***************************************************************************)
EXTENDS Accounts, Buckets, FiniteSets, Functions, TLAPS,
        WellFoundedInduction, FiniteSetTheorems

Sum(f) == FoldFunction(+, 0, f)

(* g sums f over every part of its domain, in the order CHOOSE takes.       *)
SumsUp(g, f) ==
  g = [s \in SUBSET DOMAIN f |->
         IF s = {} THEN 0
         ELSE LET x == CHOOSE y \in s : TRUE IN f[x] + g[s \ {x}]]

PartSums(f) == CHOOSE g : SumsUp(g, f)

NatLess == {p \in Nat \X Nat : p[1] < p[2]}

-----------------------------------------------------------------------------

(* A set of naturals with a member has a least one.                         *)
LEMMA LeastNatural ==
  ASSUME NEW T, T \subseteq Nat, T # {}
  PROVE  \E n \in T : \A m \in T : n <= m
<1>1. IsWellFoundedOn(NatLess, Nat)
  BY NatLessThanWellFounded DEF OpToRel, NatLess
<1>2. PICK n \in T : \A m \in T : ~ (<<m, n>> \in NatLess)
  BY <1>1, WFMin
<1>3. \A m \in T : <<m, n>> \in Nat \X Nat /\ <<m, n>>[1] = m /\ <<m, n>>[2] = n
  OBVIOUS
<1>4. \A m \in T : ~ (m < n)
  BY <1>2, <1>3 DEF NatLess
<1>5. n \in Nat /\ \A m \in T : m \in Nat
  OBVIOUS
<1> QED
  BY <1>4, <1>5

(* Among some subsets of a finite set there is one that is not so any more  *)
(* when an element is removed.                                              *)
LEMMA SmallestSet ==
  ASSUME NEW S, IsFiniteSet(S), NEW T, T \subseteq SUBSET S, T # {}
  PROVE  \E s \in T : \A x \in s : s \ {x} \notin T
<1> DEFINE Sizes == {n \in Nat : \E s \in T : Cardinality(s) = n}
<1>1. \A s \in T : IsFiniteSet(s) /\ Cardinality(s) \in Nat
  BY FS_Subset, FS_CardinalityType
<1>2. Sizes # {} /\ Sizes \subseteq Nat
  BY <1>1
<1>3. PICK n \in Sizes : \A m \in Sizes : n <= m
  <2> HIDE DEF Sizes
  <2> QED  BY <1>2, LeastNatural
<1>4. PICK s \in T : Cardinality(s) = n
  BY <1>3
<1>5. ASSUME NEW x \in s, s \ {x} \in T PROVE FALSE
  <2>1. Cardinality(s \ {x}) = n - 1
    BY <1>1, <1>4, FS_RemoveElement
  <2>2. Cardinality(s \ {x}) \in Sizes
    BY <1>1, <1>5
  <2>3. n \in Nat /\ n <= n - 1
    <3> HIDE DEF Sizes
    <3> QED  BY <2>1, <2>2, <1>2, <1>3
  <2> QED
    BY <2>3
<1> QED
  BY <1>5

(* A choice from a set that is not empty is a member of it.                 *)
LEMMA Chosen ==
  ASSUME NEW s, s # {}
  PROVE  (CHOOSE y \in s : TRUE) \in s
OBVIOUS

-----------------------------------------------------------------------------
(* The fold is what its recursion says.                                     *)

(* The recursion of the fold has a solution: one for subsets of at most n   *)
(* elements yields one for subsets of at most n + 1.                        *)
LEMMA PartSumsExist ==
  ASSUME NEW f, IsFiniteSet(DOMAIN f)
  PROVE  \E g : SumsUp(g, f)
<1> DEFINE S == DOMAIN f
           Upto(n) == {s \in SUBSET S : Cardinality(s) <= n}
           Next(s, g) == IF s = {} THEN 0
                         ELSE LET x == CHOOSE y \in s : TRUE
                              IN  f[x] + g[s \ {x}]
           Good(n, g) == g = [s \in Upto(n) |-> Next(s, g)]
           Bad == {n \in Nat : ~ \E g : Good(n, g)}
<1>1. \A s \in SUBSET S : IsFiniteSet(s) /\ Cardinality(s) \in Nat
  BY FS_Subset, FS_CardinalityType
<1>2. \A s \in SUBSET S : \A x \in s :
         s \ {x} \in SUBSET S /\ Cardinality(s \ {x}) = Cardinality(s) - 1
  BY <1>1, FS_RemoveElement
<1>3. \E g : Good(0, g)
  <2>1. Upto(0) = {{}}
    BY <1>1, FS_EmptySet
  <2> DEFINE g == [s \in Upto(0) |-> 0]
  <2>2. \A s \in Upto(0) : Next(s, g) = 0
    BY <2>1
  <2>3. Good(0, g)
    <3> HIDE DEF Upto, Next
    <3> QED  BY <2>2
  <2> QED
    BY <2>3
<1>4. ASSUME NEW n \in Nat, \E g : Good(n, g)
      PROVE  \E g : Good(n + 1, g)
  <2>1. PICK g : Good(n, g)
    BY <1>4
  <2> DEFINE h == [s \in Upto(n + 1) |-> Next(s, g)]
  <2>2. ASSUME NEW s \in Upto(n)
        PROVE  s \in Upto(n + 1) /\ h[s] = g[s]
    <3>1. s \in Upto(n + 1)
      BY <1>1, <1>4
    <3>2. h[s] = Next(s, g)
      <4> HIDE DEF Upto, Next
      <4> QED  BY <3>1
    <3>3. g[s] = Next(s, g)
      <4> HIDE DEF Upto, Next
      <4> QED  BY <2>1, <2>2
    <3> QED
      BY <3>1, <3>2, <3>3
  <2>3. ASSUME NEW s \in Upto(n + 1)
        PROVE  Next(s, h) = Next(s, g)
    <3>1. CASE s = {}
      BY <3>1
    <3>2. CASE s # {}
      <4> DEFINE x == CHOOSE y \in s : TRUE
      <4>1. x \in s
        BY <3>2, Chosen
      <4>2. s \ {x} \in Upto(n)
        <5> HIDE DEF x
        <5>1. s \ {x} \in SUBSET S /\ Cardinality(s \ {x}) = Cardinality(s) - 1
          BY <1>2, <4>1, <2>3
        <5>2. Cardinality(s) \in Nat /\ Cardinality(s) <= n + 1
          BY <1>1, <2>3
        <5> QED
          BY <5>1, <5>2
      <4>3. h[s \ {x}] = g[s \ {x}]
        <5> HIDE DEF x, h, Upto
        <5> QED  BY <2>2, <4>2
      <4> HIDE DEF h
      <4> QED
        BY <3>2, <4>3
    <3> QED
      BY <3>1, <3>2
  <2>4. Good(n + 1, h)
    <3>1. [s \in Upto(n + 1) |-> Next(s, g)] = [s \in Upto(n + 1) |-> Next(s, h)]
      <4> HIDE DEF Upto, Next, h
      <4> QED  BY <2>3
    <3> QED
      BY <3>1
  <2> HIDE DEF h, Good
  <2> QED
    BY <2>4
<1>5. Bad = {}
  <2>1. SUFFICES ASSUME Bad # {} PROVE FALSE
    OBVIOUS
  <2> HIDE DEF Good
  <2>2. PICK n \in Bad : \A m \in Bad : n <= m
    <3>1. Bad \subseteq Nat
      OBVIOUS
    <3> HIDE DEF Bad
    <3> QED  BY <2>1, <3>1, LeastNatural
  <2>3. n # 0
    BY <1>3
  <2>4. n - 1 \in Nat /\ n - 1 \notin Bad
    BY <2>2, <2>3
  <2>5. \E g : Good((n - 1) + 1, g)
    BY <1>4, <2>4
  <2>6. (n - 1) + 1 = n
    BY <2>2
  <2> QED
    BY <2>5, <2>6
<1>6. Cardinality(S) \in Nat /\ Upto(Cardinality(S)) = SUBSET S
  BY <1>1, FS_Subset
<1>7. PICK g : Good(Cardinality(S), g)
  <2> HIDE DEF Good
  <2> QED  BY <1>5, <1>6
<1>8. SumsUp(g, f)
  BY <1>6, <1>7 DEF SumsUp
<1> QED
  BY <1>8

(* The sum of nothing, and of anything else by the recursion.               *)
LEMMA PartSumsRec ==
  ASSUME NEW f, IsFiniteSet(DOMAIN f)
  PROVE  /\ PartSums(f)[{}] = 0
         /\ \A s \in SUBSET DOMAIN f :
              s # {} => LET x == CHOOSE y \in s : TRUE
                        IN  PartSums(f)[s] = f[x] + PartSums(f)[s \ {x}]
<1>1. SumsUp(PartSums(f), f)
  BY PartSumsExist DEF PartSums
<1> QED
  BY <1>1 DEF SumsUp

LEMMA SumIsPartSums ==
  ASSUME NEW f
  PROVE  Sum(f) = PartSums(f)[DOMAIN f]
BY DEF Sum, FoldFunction, FoldFunctionOnSet, MapThenFoldSet, PartSums, SumsUp

-----------------------------------------------------------------------------
(* The laws of the sums.                                                    *)

(* P sums f over the parts of S, in whatever order.                         *)
AddsUp(S, f, P) ==
  /\ P[{}] = 0
  /\ \A s \in SUBSET S : P[s] \in Nat
  /\ \A s \in SUBSET S : \A x \in s : P[s] = f[x] + P[s \ {x}]

(* The partial sums are naturals, and any element can be taken last.        *)
LEMMA PartSumsLaw ==
  ASSUME NEW S, IsFiniteSet(S), NEW f \in [S -> Nat]
  PROVE  AddsUp(S, f, PartSums(f))
<1> DEFINE P == PartSums(f)
           Odd == {s \in SUBSET S : P[s] \notin Nat}
           Wrong == {s \in SUBSET S :
                       \E x \in s : P[s] # f[x] + P[s \ {x}]}
<1>1. P[{}] = 0
  BY PartSumsRec
<1>2. ASSUME NEW s \in SUBSET S, s # {}
      PROVE  \E x \in s : P[s] = f[x] + P[s \ {x}]
  <2> DEFINE x == CHOOSE y \in s : TRUE
  <2>1. x \in s
    BY <1>2, Chosen
  <2>2. P[s] = f[x] + P[s \ {x}]
    BY <1>2, PartSumsRec
  <2> QED
    BY <2>1, <2>2
<1> HIDE DEF P
<1>3. Odd = {}
  <2>1. SUFFICES ASSUME Odd # {} PROVE FALSE
    OBVIOUS
  <2>2. PICK s \in Odd : \A x \in s : s \ {x} \notin Odd
    <3>1. Odd \subseteq SUBSET S
      OBVIOUS
    <3> HIDE DEF Odd
    <3> QED  BY <2>1, <3>1, SmallestSet
  <2>3. s # {}
    BY <2>2, <1>1
  <2>4. PICK x \in s : P[s] = f[x] + P[s \ {x}]
    BY <1>2, <2>2, <2>3
  <2>5. P[s \ {x}] \in Nat
    BY <2>2
  <2>6. f[x] \in Nat
    BY <2>2
  <2> QED
    BY <2>2, <2>4, <2>5, <2>6
<1>4. \A s \in SUBSET S : P[s] \in Nat
  BY <1>3
<1>5. Wrong = {}
  <2>1. SUFFICES ASSUME Wrong # {} PROVE FALSE
    OBVIOUS
  <2>2. PICK s \in Wrong : \A x \in s : s \ {x} \notin Wrong
    <3>1. Wrong \subseteq SUBSET S
      OBVIOUS
    <3> HIDE DEF Wrong
    <3> QED  BY <2>1, <3>1, SmallestSet
  <2>3. PICK x \in s : P[s] # f[x] + P[s \ {x}]
    BY <2>2
  <2>4. PICK c \in s : P[s] = f[c] + P[s \ {c}]
    BY <1>2, <2>2
  <2>5. c # x
    BY <2>3, <2>4
  <2>6. P[s \ {c}] = f[x] + P[(s \ {c}) \ {x}]
    BY <2>2, <2>5
  <2>7. P[s \ {x}] = f[c] + P[(s \ {x}) \ {c}]
    BY <2>2, <2>5
  <2>8. (s \ {c}) \ {x} = (s \ {x}) \ {c}
    OBVIOUS
  <2>9. f[x] \in Nat /\ f[c] \in Nat /\ P[(s \ {x}) \ {c}] \in Nat
    BY <2>2, <1>4
  <2> HIDE DEF Wrong, Odd
  <2>10. P[s] = f[c] + (f[x] + P[(s \ {x}) \ {c}])
    BY <2>4, <2>6, <2>8
  <2>11. P[s] = f[x] + P[s \ {x}]
    BY <2>10, <2>7, <2>9
  <2> QED
    BY <2>3, <2>11
<1> QED
  BY <1>1, <1>4, <1>5 DEF P, AddsUp

(* The sum is the partial sum over the whole domain.                        *)
LEMMA SumIsTheWhole ==
  ASSUME NEW S, NEW f \in [S -> Nat]
  PROVE  Sum(f) = PartSums(f)[S]
BY SumIsPartSums

(* Over a part on which two functions agree their sums are the same.        *)
LEMMA PartSumsAgree ==
  ASSUME NEW S, IsFiniteSet(S), NEW f \in [S -> Nat],
         NEW T, IsFiniteSet(T), NEW g \in [T -> Nat],
         NEW s, s \subseteq S, s \subseteq T, \A x \in s : f[x] = g[x]
  PROVE  PartSums(f)[s] = PartSums(g)[s]
<1> DEFINE F == PartSums(f)
           G == PartSums(g)
           Apart == {t \in SUBSET s : F[t] # G[t]}
<1>a. AddsUp(S, f, PartSums(f)) /\ AddsUp(T, g, PartSums(g))
  BY PartSumsLaw
<1>1. /\ F[{}] = 0
      /\ \A t \in SUBSET S : \A x \in t : F[t] = f[x] + F[t \ {x}]
  BY <1>a DEF AddsUp
<1>2. /\ G[{}] = 0
      /\ \A t \in SUBSET T : \A x \in t : G[t] = g[x] + G[t \ {x}]
  BY <1>a DEF AddsUp
<1> HIDE DEF F, G
<1>3. Apart = {}
  <2>1. SUFFICES ASSUME Apart # {} PROVE FALSE
    OBVIOUS
  <2>2. PICK t \in Apart : \A x \in t : t \ {x} \notin Apart
    <3>1. Apart \subseteq SUBSET S
      OBVIOUS
    <3> HIDE DEF Apart
    <3> QED  BY <2>1, <3>1, SmallestSet
  <2>3. PICK x \in t : TRUE
    BY <2>2, <1>1, <1>2
  <2>4. F[t \ {x}] = G[t \ {x}]
    BY <2>2
  <2>5. F[t] = f[x] + F[t \ {x}]
    BY <1>1, <2>2
  <2>6. G[t] = g[x] + G[t \ {x}]
    BY <1>2, <2>2
  <2> QED
    BY <2>2, <2>4, <2>5, <2>6
<1> QED
  BY <1>3 DEF F, G

(* The sum of naturals is one.                                              *)
LEMMA SumIsNatural ==
  ASSUME NEW S, IsFiniteSet(S), NEW f \in [S -> Nat]
  PROVE  Sum(f) \in Nat
BY PartSumsLaw, SumIsTheWhole DEF AddsUp

(* One value taken out: what is left is the same for every function that    *)
(* agrees elsewhere.                                                        *)
LEMMA SumOfTheRest ==
  ASSUME NEW S, IsFiniteSet(S), NEW f \in [S -> Nat], NEW g \in [S -> Nat],
         NEW x \in S, \A y \in S \ {x} : f[y] = g[y]
  PROVE  Sum(f) + g[x] = Sum(g) + f[x]
<1>a. AddsUp(S, f, PartSums(f)) /\ AddsUp(S, g, PartSums(g))
  BY PartSumsLaw
<1>b. Sum(f) = PartSums(f)[S] /\ Sum(g) = PartSums(g)[S] /\ S \in SUBSET S
  BY SumIsTheWhole
<1>1. Sum(f) = f[x] + PartSums(f)[S \ {x}]
  BY <1>a, <1>b DEF AddsUp
<1>2. Sum(g) = g[x] + PartSums(g)[S \ {x}]
  BY <1>a, <1>b DEF AddsUp
<1>3. PartSums(f)[S \ {x}] = PartSums(g)[S \ {x}]
  BY PartSumsAgree
<1>4. f[x] \in Nat /\ g[x] \in Nat /\ PartSums(g)[S \ {x}] \in Nat
  BY <1>a DEF AddsUp
<1> QED
  BY <1>1, <1>2, <1>3, <1>4

(* A sum is at least each of its terms.                                     *)
LEMMA SumBoundsTerms ==
  ASSUME NEW S, IsFiniteSet(S), NEW f \in [S -> Nat], NEW x \in S
  PROVE  f[x] <= Sum(f)
<1>a. AddsUp(S, f, PartSums(f)) /\ Sum(f) = PartSums(f)[S] /\ S \in SUBSET S
  BY PartSumsLaw, SumIsTheWhole
<1>1. Sum(f) = f[x] + PartSums(f)[S \ {x}]
  BY <1>a DEF AddsUp
<1>2. f[x] \in Nat /\ PartSums(f)[S \ {x}] \in Nat
  BY <1>a DEF AddsUp
<1> QED
  BY <1>1, <1>2

(* The sum of zeros is zero.                                                *)
LEMMA SumOfZeros ==
  ASSUME NEW S, IsFiniteSet(S), NEW f \in [S -> Nat], \A x \in S : f[x] = 0
  PROVE  Sum(f) = 0
<1> DEFINE P == PartSums(f)
           Some == {s \in SUBSET S : P[s] # 0}
<1>1. /\ P[{}] = 0
      /\ \A s \in SUBSET S : \A x \in s : P[s] = f[x] + P[s \ {x}]
  BY PartSumsLaw DEF AddsUp
<1>2. Sum(f) = P[S]
  BY SumIsTheWhole
<1> HIDE DEF P
<1>3. Some = {}
  <2>1. SUFFICES ASSUME Some # {} PROVE FALSE
    OBVIOUS
  <2>2. PICK s \in Some : \A x \in s : s \ {x} \notin Some
    <3>1. Some \subseteq SUBSET S
      OBVIOUS
    <3> HIDE DEF Some
    <3> QED  BY <2>1, <3>1, SmallestSet
  <2>3. PICK x \in s : TRUE
    BY <2>2, <1>1
  <2>4. P[s \ {x}] = 0 /\ f[x] = 0
    BY <2>2
  <2> QED
    BY <2>2, <2>4, <1>1
<1> QED
  BY <1>2, <1>3

(* A sum with one term that is not zero is that term.                       *)
LEMMA SumOfOne ==
  ASSUME NEW S, IsFiniteSet(S), NEW f \in [S -> Nat], NEW x \in S,
         \A y \in S \ {x} : f[y] = 0
  PROVE  Sum(f) = f[x]
<1> DEFINE z == [y \in S |-> 0]
<1>1. z \in [S -> Nat] /\ z[x] = 0 /\ \A y \in S \ {x} : f[y] = z[y]
  OBVIOUS
<1>2. Sum(z) = 0
  <2>1. \A y \in S : z[y] = 0
    OBVIOUS
  <2> HIDE DEF z
  <2> QED  BY <1>1, <2>1, SumOfZeros
<1> HIDE DEF z
<1>3. Sum(f) + z[x] = Sum(z) + f[x]
  BY <1>1, SumOfTheRest
<1>4. Sum(f) \in Nat /\ f[x] \in Nat
  BY SumIsNatural
<1> QED
  BY <1>1, <1>2, <1>3, <1>4

(* The sum of two functions added value by value is the sum of the sums.    *)
LEMMA SumOfBoth ==
  ASSUME NEW S, IsFiniteSet(S), NEW f \in [S -> Nat], NEW g \in [S -> Nat],
         NEW h, h = [x \in S |-> f[x] + g[x]]
  PROVE  Sum(h) = Sum(f) + Sum(g)
<1>0. h \in [S -> Nat] /\ \A x \in S : h[x] = f[x] + g[x]
  OBVIOUS
<1> DEFINE F == PartSums(f)
           G == PartSums(g)
           H == PartSums(h)
           Off == {s \in SUBSET S : H[s] # F[s] + G[s]}
<1>a. AddsUp(S, f, F) /\ AddsUp(S, g, G) /\ AddsUp(S, h, H)
  <2>1. AddsUp(S, h, PartSums(h))
    BY <1>0, PartSumsLaw
  <2> QED  BY <2>1, PartSumsLaw
<1>1. /\ F[{}] = 0
      /\ \A s \in SUBSET S : F[s] \in Nat
      /\ \A s \in SUBSET S : \A x \in s : F[s] = f[x] + F[s \ {x}]
  BY <1>a DEF AddsUp
<1>2. /\ G[{}] = 0
      /\ \A s \in SUBSET S : G[s] \in Nat
      /\ \A s \in SUBSET S : \A x \in s : G[s] = g[x] + G[s \ {x}]
  BY <1>a DEF AddsUp
<1>3. /\ H[{}] = 0
      /\ \A s \in SUBSET S : \A x \in s : H[s] = h[x] + H[s \ {x}]
  BY <1>a DEF AddsUp
<1>4. Sum(f) = F[S] /\ Sum(g) = G[S] /\ Sum(h) = H[S]
  BY <1>0, SumIsTheWhole
<1> HIDE DEF F, G, H
<1>5. Off = {}
  <2>1. SUFFICES ASSUME Off # {} PROVE FALSE
    OBVIOUS
  <2>2. PICK s \in Off : \A x \in s : s \ {x} \notin Off
    <3>1. Off \subseteq SUBSET S
      OBVIOUS
    <3> HIDE DEF Off
    <3> QED  BY <2>1, <3>1, SmallestSet
  <2>3. PICK x \in s : TRUE
    <3>1. H[{}] = F[{}] + G[{}]
      BY <1>1, <1>2, <1>3
    <3>2. s # {}
      BY <2>2, <3>1
    <3> QED  BY <3>2
  <2> DEFINE r == s \ {x}
  <2>4. r \in SUBSET S /\ H[r] = F[r] + G[r]
    BY <2>2
  <2>5. F[s] = f[x] + F[r] /\ G[s] = g[x] + G[r] /\ H[s] = h[x] + H[r]
    BY <1>1, <1>2, <1>3, <2>2
  <2>6. F[r] \in Nat /\ G[r] \in Nat /\ f[x] \in Nat /\ g[x] \in Nat
    BY <1>1, <1>2, <2>2, <2>4
  <2>7. h[x] = f[x] + g[x]
    BY <1>0, <2>2
  <2> HIDE DEF r, Off
  <2>8. H[s] = F[s] + G[s]
    BY <2>4, <2>5, <2>6, <2>7
  <2> QED
    BY <2>2, <2>8 DEF Off
<1> QED
  BY <1>4, <1>5

(* Zeros outside the domain add nothing.                                    *)
LEMMA SumOfAWiderDomain ==
  ASSUME NEW S, NEW T, IsFiniteSet(T), S \subseteq T,
         NEW f \in [S -> Nat], NEW g \in [T -> Nat],
         \A x \in S : f[x] = g[x], \A x \in T \ S : g[x] = 0
  PROVE  Sum(g) = Sum(f)
<1>0. IsFiniteSet(S)
  BY FS_Subset
<1> DEFINE G == PartSums(g)
           More == {s \in SUBSET (T \ S) : G[S \cup s] # G[S]}
<1>a. AddsUp(T, g, PartSums(g))
  BY PartSumsLaw
<1>1. \A s \in SUBSET T : \A x \in s : G[s] = g[x] + G[s \ {x}]
  BY <1>a DEF AddsUp
<1>2. Sum(g) = G[T] /\ Sum(f) = PartSums(f)[S]
  BY SumIsTheWhole
<1>3. PartSums(f)[S] = G[S]
  BY <1>0, PartSumsAgree
<1>3a. \A s \in SUBSET T : G[s] \in Nat
  BY <1>a DEF AddsUp
<1> HIDE DEF G
<1>4. More = {}
  <2>1. SUFFICES ASSUME More # {} PROVE FALSE
    OBVIOUS
  <2>2. PICK s \in More : \A x \in s : s \ {x} \notin More
    <3>1. More \subseteq SUBSET T
      OBVIOUS
    <3> HIDE DEF More
    <3> QED  BY <2>1, <3>1, SmallestSet
  <2>3. PICK x \in s : TRUE
    <3>1. s # {}
      <4>1. S \cup {} = S
        OBVIOUS
      <4> QED  BY <2>2, <4>1
    <3> QED  BY <3>1
  <2>4. x \in T \ S /\ s \ {x} \in SUBSET (T \ S)
    BY <2>2
  <2>5. G[S \cup (s \ {x})] = G[S]
    BY <2>2, <2>4
  <2>6. (S \cup s) \ {x} = S \cup (s \ {x}) /\ S \cup s \in SUBSET T
    BY <2>2, <2>4
  <2>7. G[S \cup s] = g[x] + G[(S \cup s) \ {x}]
    BY <1>1, <2>6
  <2>8. g[x] = 0 /\ G[S] \in Nat
    BY <2>4, <1>3a
  <2> QED
    BY <2>2, <2>5, <2>6, <2>7, <2>8
<1>5. S \cup (T \ S) = T
  OBVIOUS
<1> QED
  BY <1>2, <1>3, <1>4, <1>5

(* A sum over the elements up to m: the next element adds its value.        *)
LEMMA SumUpToNext ==
  ASSUME NEW S, IsFiniteSet(S), S \subseteq Nat, NEW f \in [S -> Nat],
         NEW m \in Nat, m + 1 \in S
  PROVE  /\ Sum([x \in S |-> IF x <= m THEN f[x] ELSE 0]) \in Nat
         /\ Sum([x \in S |-> IF x <= m + 1 THEN f[x] ELSE 0])
              = Sum([x \in S |-> IF x <= m THEN f[x] ELSE 0]) + f[m + 1]
<1> DEFINE F == [x \in S |-> IF x <= m THEN f[x] ELSE 0]
           G == [x \in S |-> IF x <= m + 1 THEN f[x] ELSE 0]
           n == m + 1
<1>1. F \in [S -> Nat] /\ G \in [S -> Nat]
  OBVIOUS
<1>2. n \in S /\ F[n] = 0 /\ G[n] = f[n] /\ f[n] \in Nat
  OBVIOUS
<1>3. \A x \in S \ {n} : G[x] = F[x]
  OBVIOUS
<1> HIDE DEF F, G, n
<1>4. Sum(G) + F[n] = Sum(F) + G[n]
  BY <1>1, <1>2, <1>3, SumOfTheRest, ZenonT(60)
<1>5. Sum(F) \in Nat /\ Sum(G) \in Nat
  BY <1>1, SumIsNatural
<1>6. Sum(F) \in Nat /\ Sum(G) = Sum(F) + f[n]
  BY <1>2, <1>4, <1>5
<1> QED  BY <1>6 DEF F, G, n

-----------------------------------------------------------------------------
(* The error counters.                                                      *)

(* What is not timed is a number of attempts.                              *)
LEMMA UntimedNat == \A e \in [ErrorKinds -> Nat] : Untimed(e) \in Nat
  BY DEF Untimed, ErrorKinds

(* An outcome is counted as untimed exactly when it is not timed.           *)
LEMMA CountedOnce ==
  \A e \in [ErrorKinds -> Nat], o \in AllOutcomes :
    /\ Counted(e, o) \in [ErrorKinds -> Nat]
    /\ Untimed(Counted(e, o)) = Untimed(e) + (IF o \in Timed THEN 0 ELSE 1)
  BY DEF Counted, Bump, Untimed, ErrorKinds, AllOutcomes, Timed

(* A failed connect is counted, and is not timed.                           *)
LEMMA ConnectCounted ==
  \A e \in [ErrorKinds -> Nat] :
    /\ Bump(e, "connect") \in [ErrorKinds -> Nat]
    /\ Untimed(Bump(e, "connect")) = Untimed(e) + 1
  BY DEF Bump, Untimed, ErrorKinds

(* Merging two sets of counters adds what they left untimed.                *)
LEMMA ErrorsAdd ==
  \A e, f \in [ErrorKinds -> Nat] :
    /\ Added(e, f) \in [ErrorKinds -> Nat]
    /\ Untimed(Added(e, f)) = Untimed(e) + Untimed(f)
<1> SUFFICES ASSUME NEW e \in [ErrorKinds -> Nat], NEW f \in [ErrorKinds -> Nat]
             PROVE  /\ Added(e, f) \in [ErrorKinds -> Nat]
                    /\ Untimed(Added(e, f)) = Untimed(e) + Untimed(f)
  OBVIOUS
<1>1. Added(e, f) \in [ErrorKinds -> Nat]
  BY DEF Added
<1>2. \A k \in ErrorKinds : Added(e, f)[k] = e[k] + f[k] /\ e[k] \in Nat /\ f[k] \in Nat
  BY DEF Added
<1>3. Untimed(Added(e, f)) = Untimed(e) + Untimed(f)
  BY <1>2 DEF Untimed, ErrorKinds
<1> QED BY <1>1, <1>3


-----------------------------------------------------------------------------
(* Sums over a part of the domain.                                          *)

(* There is one way to sum up.                                              *)
LEMMA SumsUpOneWay ==
  ASSUME NEW f, IsFiniteSet(DOMAIN f), NEW g, NEW h, SumsUp(g, f), SumsUp(h, f)
  PROVE  g = h
<1> DEFINE S == DOMAIN f
           Bad == {s \in SUBSET S : g[s] # h[s]}
<1>1. \A s \in SUBSET S : s # {} =>
        \E x \in s : g[s] = f[x] + g[s \ {x}] /\ h[s] = f[x] + h[s \ {x}]
  <2> SUFFICES ASSUME NEW s \in SUBSET S, s # {}
               PROVE  \E x \in s : g[s] = f[x] + g[s \ {x}] /\ h[s] = f[x] + h[s \ {x}]
    OBVIOUS
  <2> DEFINE x == CHOOSE y \in s : TRUE
  <2>1. x \in s
    BY Chosen
  <2>2. g[s] = f[x] + g[s \ {x}] /\ h[s] = f[x] + h[s \ {x}]
    BY DEF SumsUp
  <2> HIDE DEF x
  <2> QED
    BY <2>1, <2>2
<1>2. g[{}] = 0 /\ h[{}] = 0
  BY DEF SumsUp
<1>3. Bad = {}
  <2> SUFFICES ASSUME Bad # {} PROVE FALSE
    OBVIOUS
  <2>1. PICK s \in Bad : \A x \in s : s \ {x} \notin Bad
    <3>1. Bad \subseteq SUBSET S
      OBVIOUS
    <3> HIDE DEF Bad
    <3> QED
      BY <3>1, SmallestSet
  <2>2. s # {}
    BY <2>1, <1>2
  <2>3. PICK x \in s : g[s] = f[x] + g[s \ {x}] /\ h[s] = f[x] + h[s \ {x}]
    BY <1>1, <2>1, <2>2
  <2>4. g[s \ {x}] = h[s \ {x}]
    BY <2>1
  <2> QED
    BY <2>1, <2>3, <2>4
<1>4. g = [s \in SUBSET S |-> g[s]] /\ h = [s \in SUBSET S |-> h[s]]
  BY DEF SumsUp
<1>5. \A s \in SUBSET S : g[s] = h[s]
  BY <1>3
<1> QED
  BY <1>4, <1>5

(* Over a part of the domain the fold is the partial sum.                   *)
LEMMA PartIsPartSums ==
  ASSUME NEW S, IsFiniteSet(S), NEW f \in [S -> Nat], NEW s, s \subseteq S
  PROVE  /\ SumFunctionOnSet(f, s) = PartSums(f)[s]
         /\ SumFunctionOnSet(f, s) \in Nat
<1> DEFINE r == [x \in s |-> f[x]]
           g == SumFunctionOnSet(f, s)
<1>1. IsFiniteSet(s) /\ r \in [s -> Nat] /\ DOMAIN r = s
  BY FS_Subset
<1>2. \A h : SumsUp(h, r) <=>
               h = [t \in SUBSET s |->
                      IF t = {} THEN 0
                      ELSE LET x == CHOOSE y \in t : TRUE IN f[x] + h[t \ {x}]]
  <2> SUFFICES ASSUME NEW h
               PROVE  [t \in SUBSET s |->
                      IF t = {} THEN 0
                      ELSE LET x == CHOOSE y \in t : TRUE IN r[x] + h[t \ {x}]]
                    = [t \in SUBSET s |->
                      IF t = {} THEN 0
                      ELSE LET x == CHOOSE y \in t : TRUE IN f[x] + h[t \ {x}]]
    BY <1>1, ZenonT(60) DEF SumsUp
  <2>1. ASSUME NEW t \in SUBSET s, t # {}
        PROVE  r[CHOOSE y \in t : TRUE] = f[CHOOSE y \in t : TRUE]
    BY <2>1, Chosen
  <2> HIDE DEF r
  <2> QED
    BY <2>1
<1>3. g = (CHOOSE h : h = [t \in SUBSET s |->
                      IF t = {} THEN 0
                      ELSE LET x == CHOOSE y \in t : TRUE IN f[x] + h[t \ {x}]])[s]
  BY DEF SumFunctionOnSet, FoldFunctionOnSet, MapThenFoldSet
<1> DEFINE Iter(h) == h = [t \in SUBSET s |->
                      IF t = {} THEN 0
                      ELSE LET x == CHOOSE y \in t : TRUE IN f[x] + h[t \ {x}]]
           c == CHOOSE h : Iter(h)
<1>4. g = PartSums(r)[s]
  <2> HIDE DEF r, g
  <2>1. g = c[s]
    BY <1>3
  <2>2. \A h : SumsUp(h, r) <=> Iter(h)
    BY <1>2
  <2> HIDE DEF Iter
  <2>3. PICK h : SumsUp(h, r)
    BY <1>1, PartSumsExist
  <2>4. SumsUp(PartSums(r), r)
    BY <2>3 DEF PartSums
  <2>5. Iter(c)
    BY <2>2, <2>3
  <2>6. c = PartSums(r)
    <3>1. SumsUp(c, r)
      BY <2>2, <2>5
    <3> HIDE DEF c
    <3> QED
      BY <1>1, <2>4, <3>1, SumsUpOneWay
  <2> QED
    BY <2>1, <2>6
<1>5. PartSums(r)[s] = PartSums(f)[s]
  BY <1>1, PartSumsAgree
<1>6. PartSums(f)[s] \in Nat
  BY PartSumsLaw DEF AddsUp
<1> QED
  BY <1>4, <1>5, <1>6

LEMMA SumIsSumFunction ==
  ASSUME NEW f
  PROVE  SumFunction(f) = Sum(f) /\ SumFunctionOnSet(f, DOMAIN f) = Sum(f)
BY DEF SumFunction, SumFunctionOnSet, Sum, FoldFunction

(* Two functions that agree on a part have the same sum over it.            *)
LEMMA PartAgrees ==
  ASSUME NEW S, IsFiniteSet(S), NEW f \in [S -> Nat], NEW g \in [S -> Nat],
         NEW s, s \subseteq S, \A x \in s : f[x] = g[x]
  PROVE  SumFunctionOnSet(f, s) = SumFunctionOnSet(g, s)
BY PartSumsAgree, PartIsPartSums

(* The sums over two disjoint parts add up to that over both.               *)
LEMMA PartSplit ==
  ASSUME NEW S, IsFiniteSet(S), NEW f \in [S -> Nat],
         NEW s, s \subseteq S, NEW t, t \subseteq S, s \cap t = {}
  PROVE  SumFunctionOnSet(f, s \cup t) = SumFunctionOnSet(f, s) + SumFunctionOnSet(f, t)
<1> DEFINE P == PartSums(f)
           Bad == {u \in SUBSET t : P[s \cup u] # P[s] + P[u]}
<1>1. /\ P[{}] = 0
      /\ \A u \in SUBSET S : P[u] \in Nat
      /\ \A u \in SUBSET S : \A x \in u : P[u] = f[x] + P[u \ {x}]
  BY PartSumsLaw DEF AddsUp
<1> HIDE DEF P
<1>2. IsFiniteSet(t)
  BY FS_Subset
<1>3. SUFFICES Bad = {}
  <2>1. t \notin Bad /\ s \cup t \subseteq S
    BY <1>3
  <2> QED
    BY <2>1, PartIsPartSums DEF P
<1>4. SUFFICES ASSUME Bad # {} PROVE FALSE
  OBVIOUS
<1>5. PICK u \in Bad : \A x \in u : u \ {x} \notin Bad
  <2>1. Bad \subseteq SUBSET t
    OBVIOUS
  <2> HIDE DEF Bad
  <2> QED
    BY <1>2, <1>4, <2>1, SmallestSet
<1>6. u # {}
  <2>1. P[s \cup {}] = P[s] + P[{}]
    BY <1>1
  <2> QED
    BY <2>1, <1>5
<1>7. PICK x \in u : TRUE
  BY <1>6
<1>8. u \ {x} \in SUBSET t /\ (s \cup u) \ {x} = s \cup (u \ {x})
  BY <1>5, <1>7
<1>9. P[s \cup (u \ {x})] = P[s] + P[u \ {x}]
  BY <1>5, <1>8
<1>10. P[s \cup u] = f[x] + P[s \cup (u \ {x})] /\ P[u] = f[x] + P[u \ {x}]
  <2>1. u \in SUBSET S /\ s \cup u \in SUBSET S /\ x \in s \cup u
    BY <1>5
  <2> QED
    BY <2>1, <1>1, <1>7, <1>8
<1>11. P[s] \in Nat /\ P[u \ {x}] \in Nat /\ f[x] \in Nat
  <2>1. u \ {x} \in SUBSET S /\ s \in SUBSET S /\ x \in S
    BY <1>5
  <2> QED
    BY <2>1, <1>1
<1> QED
  BY <1>5, <1>9, <1>10, <1>11

(* A wider part has no less.                                                *)
LEMMA PartMonotone ==
  ASSUME NEW S, IsFiniteSet(S), NEW f \in [S -> Nat],
         NEW s, NEW t, s \subseteq t, t \subseteq S
  PROVE  SumFunctionOnSet(f, s) <= SumFunctionOnSet(f, t)
<1> DEFINE u == t \ s
<1>1. u \subseteq S /\ s \subseteq S /\ s \cap u = {} /\ s \cup u = t
  OBVIOUS
<1> HIDE DEF u
<1>2. SumFunctionOnSet(f, t) = SumFunctionOnSet(f, s) + SumFunctionOnSet(f, u)
  BY <1>1, PartSplit
<1>3. SumFunctionOnSet(f, s) \in Nat /\ SumFunctionOnSet(f, u) \in Nat
  BY <1>1, PartIsPartSums
<1> QED
  BY <1>2, <1>3

(* The sum over one.                                                        *)
LEMMA PartOfOne ==
  ASSUME NEW S, IsFiniteSet(S), NEW f \in [S -> Nat], NEW x \in S
  PROVE  SumFunctionOnSet(f, {x}) = f[x]
<1> DEFINE P == PartSums(f)
<1>0. AddsUp(S, f, P)
  BY PartSumsLaw
<1>5. {x} \subseteq S => SumFunctionOnSet(f, {x}) = P[{x}]
  BY PartIsPartSums
<1> HIDE DEF P
<1>1. /\ P[{}] = 0
      /\ \A t \in SUBSET S : \A y \in t : P[t] = f[y] + P[t \ {y}]
  BY <1>0 DEF AddsUp
<1>2. {x} \ {x} = {} /\ {x} \in SUBSET S /\ x \in {x}
  OBVIOUS
<1>3. P[{x}] = f[x] + P[{x} \ {x}]
  BY <1>1, <1>2
<1>4. f[x] \in Nat /\ {x} \subseteq S
  OBVIOUS
<1>6. P[{x} \ {x}] = 0
  BY <1>1, <1>2
<1>7. SumFunctionOnSet(f, {x}) = P[{x}]
  BY <1>4, <1>5
<1> QED
  BY <1>3, <1>4, <1>6, <1>7

(* A part that has more than nothing has something.                         *)
LEMMA PartPositive ==
  ASSUME NEW S, IsFiniteSet(S), NEW f \in [S -> Nat], NEW s, s \subseteq S
  PROVE  SumFunctionOnSet(f, s) > 0 <=> \E x \in s : f[x] > 0
<1> DEFINE r == [x \in s |-> f[x]]
<1>1. IsFiniteSet(s) /\ r \in [s -> Nat]
  BY FS_Subset
<1>2. SumFunctionOnSet(f, s) \in Nat
  BY PartIsPartSums
<1>3. ASSUME NEW x \in s, f[x] > 0
      PROVE  SumFunctionOnSet(f, s) > 0
  <2>1. SumFunctionOnSet(f, {x}) = f[x] /\ {x} \subseteq s
    BY PartOfOne
  <2>2. SumFunctionOnSet(f, {x}) <= SumFunctionOnSet(f, s)
    BY <2>1, PartMonotone
  <2>3. f[x] \in Nat
    OBVIOUS
  <2> QED
    BY <1>3, <2>1, <2>2, <2>3, <1>2
<1>4. ASSUME \A x \in s : f[x] = 0
      PROVE  SumFunctionOnSet(f, s) = 0
  <2> DEFINE z == [x \in S |-> 0]
  <2>1. z \in [S -> Nat] /\ (\A x \in s : f[x] = z[x]) /\ \A x \in S : z[x] = 0
    BY <1>4
  <2> HIDE DEF z
  <2>2. SumFunctionOnSet(f, s) = SumFunctionOnSet(z, s)
    BY <2>1, PartAgrees
  <2>3. Sum(z) = 0 /\ DOMAIN z = S
    BY <2>1, SumOfZeros
  <2>4. SumFunctionOnSet(z, s) <= SumFunctionOnSet(z, S)
    BY <2>1, PartMonotone
  <2>5. SumFunctionOnSet(z, S) = 0
    BY <2>3, SumIsSumFunction
  <2> QED
    BY <2>2, <2>4, <2>5, <1>2
<1>5. \A x \in s : f[x] \in Nat
  OBVIOUS
<1> QED
  BY <1>2, <1>3, <1>4, <1>5

(* One value changes: so does the sum over every part that has it.          *)
LEMMA PartChanges ==
  ASSUME NEW S, IsFiniteSet(S), NEW f \in [S -> Nat], NEW g \in [S -> Nat],
         NEW x \in S, \A y \in S \ {x} : g[y] = f[y],
         NEW s, s \subseteq S
  PROVE  /\ x \in s => SumFunctionOnSet(g, s) + f[x] = SumFunctionOnSet(f, s) + g[x]
         /\ x \notin s => SumFunctionOnSet(g, s) = SumFunctionOnSet(f, s)
<1> DEFINE u == s \ {x}
<1>1. u \subseteq S /\ {x} \subseteq S /\ u \cap {x} = {} /\ x \notin u
  OBVIOUS
<1>2. x \in s => s = u \cup {x}
  OBVIOUS
<1>3. x \notin s => s = u
  OBVIOUS
<1> HIDE DEF u
<1>4. SumFunctionOnSet(g, u) = SumFunctionOnSet(f, u)
  <2>1. \A y \in u : g[y] = f[y]
    BY <1>1
  <2> QED
    BY <1>1, <2>1, PartAgrees
<1>5. SumFunctionOnSet(f, u) \in Nat /\ SumFunctionOnSet(g, u) \in Nat /\ SumFunctionOnSet(f, s) \in Nat
  BY <1>1, PartIsPartSums
<1>6. CASE x \in s
  <2>1. SumFunctionOnSet(g, s) = SumFunctionOnSet(g, u) + SumFunctionOnSet(g, {x})
    BY <1>1, <1>2, <1>6, PartSplit
  <2>2. SumFunctionOnSet(f, s) = SumFunctionOnSet(f, u) + SumFunctionOnSet(f, {x})
    BY <1>1, <1>2, <1>6, PartSplit
  <2>3. SumFunctionOnSet(g, {x}) = g[x] /\ SumFunctionOnSet(f, {x}) = f[x]
    BY PartOfOne
  <2>4. f[x] \in Nat /\ g[x] \in Nat
    OBVIOUS
  <2> QED
    BY <2>1, <2>2, <2>3, <2>4, <1>4, <1>5, <1>6
<1>7. CASE x \notin s
  BY <1>3, <1>4, <1>5, <1>7
<1> QED
  BY <1>6, <1>7

(* The sum of a sum is the sum of the sums, over every part.                *)
LEMMA PartOfBoth ==
  ASSUME NEW S, IsFiniteSet(S), NEW f \in [S -> Nat], NEW g \in [S -> Nat],
         NEW h \in [S -> Nat], \A x \in S : h[x] = f[x] + g[x],
         NEW s, s \subseteq S
  PROVE  SumFunctionOnSet(h, s) = SumFunctionOnSet(f, s) + SumFunctionOnSet(g, s)
<1> DEFINE F == [x \in s |-> f[x]]
           G == [x \in s |-> g[x]]
           H == [x \in s |-> F[x] + G[x]]
<1>1. IsFiniteSet(s)
  BY FS_Subset
<1>2. F \in [s -> Nat] /\ G \in [s -> Nat] /\ H \in [s -> Nat]
  OBVIOUS
<1>3. (\A x \in s : F[x] = f[x]) /\ (\A x \in s : G[x] = g[x]) /\ \A x \in s : H[x] = h[x]
  OBVIOUS
<1>4. Sum(H) = Sum(F) + Sum(G)
  <2> HIDE DEF F, G
  <2> QED
    BY <1>1, <1>2, SumOfBoth
<1> HIDE DEF F, G, H
<1>5. PartSums(F)[s] = PartSums(f)[s] /\ PartSums(G)[s] = PartSums(g)[s]
  BY <1>1, <1>2, <1>3, PartSumsAgree
<1>6. PartSums(H)[s] = PartSums(h)[s]
  BY <1>1, <1>2, <1>3, PartSumsAgree
<1>7. Sum(F) = PartSums(F)[s] /\ Sum(G) = PartSums(G)[s] /\ Sum(H) = PartSums(H)[s]
  BY <1>2, SumIsTheWhole
<1> QED
  BY <1>4, <1>5, <1>6, <1>7, PartIsPartSums

-----------------------------------------------------------------------------
(* Division.                                                                *)

(* Quotient and remainder.                                                  *)
LEMMA DivMod ==
  ASSUME NEW a \in Nat, NEW b \in Nat, b > 0
  PROVE  /\ a \div b \in Nat
         /\ a % b \in Nat
         /\ a % b < b
         /\ a = b * (a \div b) + (a % b)
BY SMT

(* There is one quotient and one remainder.                                 *)
LEMMA DivIsUnique ==
  ASSUME NEW a \in Nat, NEW b \in Nat, b > 0, NEW q \in Nat, NEW r \in Nat,
         r < b, a = b * q + r
  PROVE  q = a \div b /\ r = a % b
<1>1. a \div b \in Nat /\ a % b \in Nat /\ a % b < b /\ a = b * (a \div b) + (a % b)
  BY DivMod
<1> DEFINE p == a \div b
           s == a % b
<1>2. p \in Nat /\ s \in Nat /\ s < b /\ a = b * p + s
  BY <1>1
<1> HIDE DEF p, s
<1>3. b * p + s = b * q + r
  BY <1>2
<1>4. ~ (p < q)
  <2> SUFFICES ASSUME p < q PROVE FALSE
    OBVIOUS
  <2>1. p + 1 <= q
    BY <1>2
  <2>2. b * (p + 1) <= b * q
    BY <2>1, <1>2
  <2> QED
    BY <2>2, <1>2, <1>3
<1>5. ~ (q < p)
  <2> SUFFICES ASSUME q < p PROVE FALSE
    OBVIOUS
  <2>1. q + 1 <= p
    BY <1>2
  <2>2. b * (q + 1) <= b * p
    BY <2>1, <1>2
  <2> QED
    BY <2>2, <1>2, <1>3
<1>6. p = q /\ s = r
  BY <1>2, <1>3, <1>4, <1>5
<1> QED
  BY <1>6 DEF p, s

-----------------------------------------------------------------------------
(* Powers of two: 2 ^ n counts the subsets of n things.                     *)

(* There is one part of nothing.                                            *)
LEMMA PowerZero == 2 ^ 0 = 1
<1>1. IsFiniteSet({}) /\ Cardinality({}) = 0
  BY FS_EmptySet
<1>2. SUBSET {} = {{}}
  OBVIOUS
<1>3. Cardinality({{}}) = 1
  BY FS_Singleton
<1> QED
  BY <1>1, <1>2, <1>3, FS_SUBSET

(* A power of two is a natural number.                                      *)
LEMMA PowerNat ==
  ASSUME NEW n \in Nat
  PROVE  2 ^ n \in Nat
<1>1. IsFiniteSet(1 .. n) /\ Cardinality(1 .. n) = n
  BY FS_Interval
<1>2. IsFiniteSet(SUBSET (1 .. n)) /\ Cardinality(SUBSET (1 .. n)) = 2 ^ n
  BY <1>1, FS_SUBSET
<1> QED
  BY <1>2, FS_CardinalityType

(* One thing more doubles the subsets: those with it and those without.     *)
LEMMA PowerNext ==
  ASSUME NEW n \in Nat
  PROVE  2 ^ (n + 1) = 2 * 2 ^ n
<1> DEFINE S == 1 .. n
           T == 1 .. n + 1
           A == SUBSET S
           B == {s \in SUBSET T : n + 1 \in s}
           f == [s \in A |-> s \cup {n + 1}]
<1>1. /\ IsFiniteSet(S) /\ Cardinality(S) = n
      /\ IsFiniteSet(T) /\ Cardinality(T) = n + 1
  BY FS_Interval
<1>2. /\ IsFiniteSet(A) /\ Cardinality(A) = 2 ^ n
      /\ Cardinality(SUBSET T) = 2 ^ (n + 1)
  BY <1>1, FS_SUBSET
<1>3. T = S \cup {n + 1} /\ n + 1 \notin S
  OBVIOUS
<1> HIDE DEF S, T
<1>4. f \in Bijection(A, B)
  <2>1. f \in [A -> B]
    BY <1>3
  <2>2. \A s, t \in A : f[s] = f[t] => s = t
    BY <1>3
  <2>3. \A t \in B : \E s \in A : f[s] = t
    <3> SUFFICES ASSUME NEW t \in B PROVE \E s \in A : f[s] = t
      OBVIOUS
    <3>1. t \ {n + 1} \in A /\ (t \ {n + 1}) \cup {n + 1} = t
      BY <1>3
    <3> QED
      BY <3>1
  <2> QED
    BY <2>1, <2>2, <2>3 DEF Bijection, Injection, Surjection, IsInjective
<1>5. IsFiniteSet(B) /\ Cardinality(B) = Cardinality(A)
  BY <1>2, <1>4, FS_Bijection DEF ExistsBijection
<1>6. SUBSET T = A \cup B /\ A \cap B = {}
  BY <1>3
<1>7. Cardinality(SUBSET T) = Cardinality(A) + Cardinality(B) - Cardinality(A \cap B)
  BY <1>2, <1>5, <1>6, FS_Union
<1>8. Cardinality(A \cap B) = 0
  BY <1>6, FS_EmptySet
<1> QED
  BY <1>2, <1>5, <1>7, <1>8, PowerNat


(* And at least one.                                                        *)
LEMMA PowerPositive ==
  ASSUME NEW n \in Nat
  PROVE  2 ^ n \in Nat /\ 2 ^ n >= 1
<1> DEFINE Bad == {m \in Nat : ~ (2 ^ m >= 1)}
<1>1. SUFFICES Bad = {}
  BY PowerNat
<1>2. SUFFICES ASSUME Bad # {} PROVE FALSE
  OBVIOUS
<1>3. PICK m \in Bad : \A k \in Bad : m <= k
  BY <1>2, LeastNatural
<1>4. m # 0
  <2> SUFFICES ASSUME m = 0 PROVE FALSE
    OBVIOUS
  <2>1. 2 ^ m = 1
    BY PowerZero
  <2> QED
    BY <2>1, <1>3
<1>5. m - 1 \in Nat /\ m = (m - 1) + 1 /\ m - 1 \notin Bad
  BY <1>3, <1>4
<1>6. 2 ^ ((m - 1) + 1) = 2 * 2 ^ (m - 1)
  BY <1>5, PowerNext
<1>7. 2 ^ (m - 1) \in Nat
  BY <1>5, PowerNat
<1> QED
  BY <1>3, <1>5, <1>6, <1>7

(* Sums of exponents.                                                       *)
LEMMA PowerSum ==
  ASSUME NEW m \in Nat, NEW n \in Nat
  PROVE  2 ^ (m + n) = 2 ^ m * 2 ^ n
<1> DEFINE Bad == {k \in Nat : 2 ^ (m + k) # 2 ^ m * 2 ^ k}
<1>1. SUFFICES Bad = {}
  OBVIOUS
<1>2. SUFFICES ASSUME Bad # {} PROVE FALSE
  OBVIOUS
<1>3. PICK k \in Bad : \A j \in Bad : k <= j
  BY <1>2, LeastNatural
<1>4. k # 0
  <2> SUFFICES ASSUME k = 0 PROVE FALSE
    OBVIOUS
  <2>1. 2 ^ k = 1 /\ m + k = m
    BY PowerZero
  <2>2. 2 ^ m * 2 ^ k = 2 ^ m
    BY <2>1, PowerNat
  <2> QED
    BY <2>1, <2>2, <1>3
<1> DEFINE j == k - 1
<1>5. j \in Nat /\ k = j + 1 /\ j \notin Bad /\ m + k = (m + j) + 1
  BY <1>3, <1>4
<1> HIDE DEF j
<1>6. 2 ^ k = 2 * 2 ^ j /\ 2 ^ (m + k) = 2 * 2 ^ (m + j)
  BY <1>5, PowerNext
<1>7. 2 ^ (m + j) = 2 ^ m * 2 ^ j /\ 2 ^ m \in Nat /\ 2 ^ j \in Nat
  BY <1>5, PowerNat
<1>8. 2 ^ m * (2 * 2 ^ j) = 2 * (2 ^ m * 2 ^ j)
  <2> DEFINE a == 2 ^ m
             b == 2 ^ j
  <2>1. a \in Nat /\ b \in Nat
    BY <1>7
  <2> HIDE DEF a, b
  <2>2. a * (2 * b) = 2 * (a * b)
    BY <2>1
  <2> QED
    BY <2>2 DEF a, b
<1> QED
  BY <1>3, <1>6, <1>7, <1>8

(* A larger exponent is no smaller a power.                                 *)
LEMMA PowerMonotone ==
  ASSUME NEW m \in Nat, NEW n \in Nat, m <= n
  PROVE  2 ^ m <= 2 ^ n
<1> DEFINE k == n - m
           a == 2 ^ m
           b == 2 ^ k
<1>1. k \in Nat /\ n = m + k
  OBVIOUS
<1>2. 2 ^ n = a * b
  BY <1>1, PowerSum
<1>3. a \in Nat /\ b \in Nat /\ b >= 1
  BY <1>1, PowerPositive
<1> HIDE DEF a, b, k
<1>4. a * b >= a
  <2>1. a * (b - 1) >= 0
    BY <1>3
  <2> QED
    BY <2>1, <1>3
<1> QED
  BY <1>2, <1>3, <1>4 DEF a

(* It is at least twice the power of a smaller one.                         *)
LEMMA PowerDoubled ==
  ASSUME NEW m \in Nat, NEW n \in Nat, m < n
  PROVE  2 * 2 ^ m <= 2 ^ n
<1>1. m + 1 \in Nat /\ m + 1 <= n
  OBVIOUS
<1> QED
  BY <1>1, PowerMonotone, PowerNext

-----------------------------------------------------------------------------
(* The leading bit, and the slot.                                           *)

(* There is a slot to an octave.                                            *)
LEMMA SubBucketsPositive == SubBuckets \in Nat /\ SubBuckets >= 1
  BY LayoutAssumption, PowerPositive DEF SubBuckets

(* The octave of a value is the one whose powers of two enclose it.         *)
LEMMA MsbIs ==
  ASSUME NEW v \in 1 .. MaxValue, NEW m \in Nat, 2 ^ m <= v, v < 2 * 2 ^ m
  PROVE  Msb(v) = m
<1>1. MaxValue \in Nat
  BY LayoutAssumption
<1>2. PICK c \in 0 .. 62 : MaxValue \div 2 < 2 ^ c
  BY LayoutAssumption
<1>3. v \div 2 <= MaxValue \div 2 /\ v \div 2 < 2 ^ m
  BY <1>1, PowerNat
<1>4. m <= 62
  <2> SUFFICES ASSUME m > 62 PROVE FALSE
    OBVIOUS
  <2>1. 2 * 2 ^ c <= 2 ^ m
    BY PowerDoubled
  <2> QED
    BY <2>1, <1>1, <1>2, PowerNat
<1>5. \A k \in 0 .. 62 : 2 ^ k <= v /\ v \div 2 < 2 ^ k => k = m
  <2> SUFFICES ASSUME NEW k \in 0 .. 62, 2 ^ k <= v, v \div 2 < 2 ^ k, k # m
               PROVE  FALSE
    OBVIOUS
  <2>1. 2 ^ k \in Nat /\ 2 ^ m \in Nat /\ v < 2 * 2 ^ k
    BY PowerNat, <1>1
  <2>2. CASE k < m
    <3>1. 2 * 2 ^ k <= 2 ^ m
      BY <2>2, PowerDoubled
    <3> QED
      BY <3>1, <2>1, <1>1
  <2>3. CASE m < k
    <3>1. 2 * 2 ^ m <= 2 ^ k
      BY <2>3, PowerDoubled
    <3> QED
      BY <3>1, <2>1, <1>1
  <2> QED
    BY <2>2, <2>3
<1>6. m \in 0 .. 62 /\ 2 ^ m <= v /\ v \div 2 < 2 ^ m
  BY <1>3, <1>4
<1> HIDE DEF Msb
<1>7. Msb(v) = CHOOSE k \in 0 .. 62 : 2 ^ k <= v /\ v \div 2 < 2 ^ k
  BY DEF Msb
<1> DEFINE P(k) == 2 ^ k <= v /\ v \div 2 < 2 ^ k
<1>8. Msb(v) \in 0 .. 62 /\ P(Msb(v))
  BY <1>6, <1>7
<1> QED
  BY <1>5, <1>8

(* Every value within the layout has an octave.                             *)
LEMMA MsbLaw ==
  ASSUME NEW v \in 1 .. MaxValue
  PROVE  Msb(v) \in Nat /\ 2 ^ Msb(v) <= v /\ v < 2 * 2 ^ Msb(v)
<1>1. PICK c \in 0 .. 62 : MaxValue \div 2 < 2 ^ c
  BY LayoutAssumption
<1>2. MaxValue \in Nat
  BY LayoutAssumption
<1> DEFINE Above == {n \in Nat : v < 2 * 2 ^ n}
<1>3. c \in Above
  BY <1>1, <1>2, PowerNat
<1>4. PICK m \in Above : \A n \in Above : m <= n
  BY <1>3, LeastNatural
<1>5. 2 ^ m <= v
  <2>1. CASE m = 0
    BY <2>1, PowerZero, <1>2
  <2>2. CASE m # 0
    <3>1. m - 1 \in Nat /\ m = (m - 1) + 1 /\ m - 1 \notin Above
      BY <2>2, <1>4
    <3>2. 2 ^ m = 2 * 2 ^ (m - 1)
      BY <3>1, PowerNext
    <3> QED
      BY <3>1, <3>2, PowerNat, <1>2
  <2> QED
    BY <2>1, <2>2
<1>6. Msb(v) = m
  BY <1>4, <1>5, MsbIs
<1> QED
  BY <1>4, <1>5, <1>6

(* A slot above the exact ones: the octave it is in and its leading bits.   *)
LEMMA SlotDecoded ==
  ASSUME NEW i \in Nat, i >= SubBuckets
  PROVE  \E k \in Nat, q \in Nat :
           /\ SubBuckets <= q /\ q < 2 * SubBuckets
           /\ i = (k + 1) * SubBuckets + (q - SubBuckets)
           /\ k = (i \div SubBuckets) - 1
           /\ Mantissa(i) = q /\ Width(i) = 2 ^ k
<1> DEFINE S == SubBuckets
           d == i \div S
           r == i % S
<1>1. S \in Nat /\ S >= 1
  BY SubBucketsPositive
<1>2. d \in Nat /\ r \in Nat /\ r < S /\ i = S * d + r
  BY <1>1, DivMod
<1>3. Mantissa(i) = r + S /\ Width(i) = 2 ^ (d - 1) /\ i >= S
  BY DEF Mantissa, Width
<1> HIDE DEF S, d, r
<1>4. d >= 1
  <2> SUFFICES ASSUME d = 0 PROVE FALSE
    BY <1>2
  <2>1. S * d = 0
    BY <1>1
  <2> QED
    BY <2>1, <1>1, <1>2, <1>3
<1>5. S * d = ((d - 1) + 1) * S
  BY <1>1, <1>2
<1> DEFINE k == d - 1
           q == r + S
<1>6. k \in Nat /\ q \in Nat /\ S <= q /\ q < 2 * S /\ k = d - 1
  BY <1>1, <1>2, <1>4
<1>7. i = (k + 1) * S + (q - S) /\ Mantissa(i) = q /\ Width(i) = 2 ^ k
  BY <1>1, <1>2, <1>3, <1>5
<1> HIDE DEF k, q
<1> QED
  BY <1>6, <1>7 DEF S, d

(* A value within the layout is the quotient of its octave's width in a slot. *)
LEMMA ValueEncoded ==
  ASSUME NEW v \in Nat, SubBuckets <= v, v <= MaxValue
  PROVE  \E k \in Nat, q \in Nat :
           /\ SubBuckets <= q /\ q < 2 * SubBuckets
           /\ q * 2 ^ k <= v /\ v < (q + 1) * 2 ^ k
           /\ Msb(v) = SubBucketBits + k
           /\ IndexOf(v) = (k + 1) * SubBuckets + (q - SubBuckets)
<1> DEFINE S == SubBuckets
           B == SubBucketBits
           m == Msb(v)
           k == m - B
           w == 2 ^ k
           q == v \div w
           r == v % w
<1>1. S \in Nat /\ S >= 1 /\ B \in Nat /\ MaxValue \in Nat /\ S = 2 ^ B
  BY SubBucketsPositive, LayoutAssumption DEF SubBuckets
<1>2. m \in Nat /\ 2 ^ m <= v /\ v < 2 * 2 ^ m
  BY <1>1, MsbLaw
<1>3. k \in Nat /\ m = B + k
  <2> SUFFICES ASSUME m < B PROVE FALSE
    BY <1>1, <1>2
  <2>1. 2 * 2 ^ m <= 2 ^ B
    BY <1>1, <1>2, PowerDoubled
  <2> QED
    BY <2>1, <1>1, <1>2, PowerNat
<1>4. 2 ^ m = S * w /\ w \in Nat /\ w >= 1
  BY <1>1, <1>3, PowerSum, PowerPositive
<1>5. q \in Nat /\ r \in Nat /\ r < w /\ v = w * q + r
  <2> HIDE DEF w
  <2> QED
    BY <1>4, DivMod
<1>6. IndexOf(v) = (k + 1) * S + (q - S)
  BY <1>1 DEF IndexOf
<1> HIDE DEF S, B, m, k, w, q, r
<1>7. S <= q
  <2> SUFFICES ASSUME q + 1 <= S PROVE FALSE
    BY <1>1, <1>5
  <2>1. w * (q + 1) <= w * S
    BY <1>1, <1>4, <1>5
  <2>2. w * S = S * w /\ w * (q + 1) = w * q + w
    BY <1>1, <1>4, <1>5
  <2> QED
    BY <2>1, <2>2, <1>1, <1>2, <1>4, <1>5
<1>8. q < 2 * S
  <2> SUFFICES ASSUME 2 * S <= q PROVE FALSE
    BY <1>1, <1>5
  <2>1. w * (2 * S) <= w * q
    BY <1>1, <1>4, <1>5
  <2>2. w * (2 * S) = 2 * (S * w)
    BY <1>1, <1>4
  <2> QED
    BY <2>1, <2>2, <1>1, <1>2, <1>4, <1>5
<1>9. q * w <= v /\ v < (q + 1) * w
  <2>1. q * w = w * q /\ (q + 1) * w = w * q + w
    BY <1>4, <1>5
  <2> QED
    BY <2>1, <1>4, <1>5
<1>10. q * 2 ^ k <= v /\ v < (q + 1) * 2 ^ k
  BY <1>9 DEF w
<1> QED
  BY <1>3, <1>5, <1>6, <1>7, <1>8, <1>10 DEF S, B, m

(* A value within the layout is within the bounds of its slot.              *)
LEMMA WithinItsSlot ==
  ASSUME NEW v \in Nat, v <= MaxValue
  PROVE  /\ IndexOf(v) \in Nat
         /\ SlotLow(IndexOf(v)) <= v /\ v <= SlotHigh(IndexOf(v))
<1>1. SubBuckets \in Nat /\ SubBuckets >= 1
  BY SubBucketsPositive
<1>2. CASE v < SubBuckets
  BY <1>2, <1>1 DEF IndexOf, SlotLow, SlotHigh
<1>3. CASE v >= SubBuckets
  <2>1. PICK k \in Nat, q \in Nat :
           /\ SubBuckets <= q /\ q < 2 * SubBuckets
           /\ q * 2 ^ k <= v /\ v < (q + 1) * 2 ^ k
           /\ IndexOf(v) = (k + 1) * SubBuckets + (q - SubBuckets)
    BY <1>3, ValueEncoded
  <2> DEFINE i == IndexOf(v)
             S == SubBuckets
             c == (k + 1) * S
             s == q - S
             w == 2 ^ k
  <2>2. i = c + s /\ c = S * (k + 1) /\ c >= S /\ s \in Nat /\ s < S
    <3>1. S * k >= 0 /\ (k + 1) * S = S * k + S /\ S * (k + 1) = S * k + S
      BY <1>1
    <3> QED
      BY <1>1, <2>1, <3>1
  <2>3. k + 1 = i \div S /\ s = i % S
    <3> HIDE DEF i, S, c, s
    <3> QED
      BY <2>2, DivIsUnique, <1>1 DEF S
  <2>4. i \in Nat /\ i >= S
    BY <1>1, <2>2
  <2>5. Mantissa(i) = q /\ Width(i) = w
    BY <2>1, <2>3, <1>1 DEF Mantissa, Width
  <2>6. SlotLow(i) = q * w /\ SlotHigh(i) = (q + 1) * w - 1
    <3> HIDE DEF i, S, w
    <3> QED
      BY <2>4, <2>5, <1>1 DEF SlotLow, SlotHigh, S
  <2>7. w \in Nat /\ (q + 1) * w \in Nat
    BY PowerNat
  <2> QED
    BY <2>1, <2>4, <2>6, <2>7
<1> QED
  BY <1>1, <1>2, <1>3

(* And within those of no other.                                            *)
LEMMA WithinNoOther ==
  ASSUME NEW v \in Nat, v <= MaxValue, NEW i \in Nat,
         SlotLow(i) <= v, v <= SlotHigh(i)
  PROVE  i = IndexOf(v)
<1> DEFINE S == SubBuckets
<1>1. S \in Nat /\ S >= 1 /\ SubBucketBits \in Nat /\ MaxValue \in Nat /\ S = 2 ^ SubBucketBits
  BY SubBucketsPositive, LayoutAssumption DEF SubBuckets
<1>2. CASE i < S
  BY <1>1, <1>2 DEF SlotLow, SlotHigh, IndexOf
<1>3. CASE i >= S
  <2>1. PICK k \in Nat, q \in Nat :
           /\ S <= q /\ q < 2 * S
           /\ i = (k + 1) * S + (q - S)
           /\ Mantissa(i) = q /\ Width(i) = 2 ^ k
    BY <1>3, SlotDecoded
  <2> DEFINE w == 2 ^ k
  <2>2. w \in Nat /\ w >= 1
    BY PowerPositive
  <2>3. q * w <= v /\ v < (q + 1) * w
    <3>1. SlotLow(i) = q * w /\ SlotHigh(i) = (q + 1) * w - 1
      BY <1>1, <1>3, <2>1 DEF SlotLow, SlotHigh
    <3>2. (q + 1) * w \in Nat
      BY <2>2
    <3> QED
      BY <3>1, <3>2
  <2>4. 2 ^ (SubBucketBits + k) = S * w
    BY <1>1, PowerSum
  <2> HIDE DEF S, w
  <2>5. S * w <= q * w /\ (q + 1) * w <= (2 * S) * w /\ (2 * S) * w = 2 * (S * w)
    <3>1. (q - S) * w >= 0 /\ (2 * S - (q + 1)) * w >= 0
      BY <1>1, <2>1, <2>2
    <3>2. (q - S) * w = q * w - S * w
      BY <1>1, <2>1, <2>2
    <3>3. (2 * S - (q + 1)) * w = (2 * S) * w - (q + 1) * w
      BY <1>1, <2>1, <2>2
    <3>4. q * w \in Nat /\ S * w \in Nat /\ (2 * S) * w \in Nat /\ (q + 1) * w \in Nat
      BY <1>1, <2>1, <2>2
    <3> QED
      BY <1>1, <2>1, <2>2, <3>1, <3>2, <3>3, <3>4
  <2>6. S * w >= S /\ S * w \in Nat /\ q * w \in Nat
    <3>1. S * (w - 1) >= 0 /\ S * (w - 1) = S * w - S
      BY <1>1, <2>2
    <3> QED
      BY <1>1, <2>1, <2>2, <3>1
  <2>7. S <= v /\ S * w <= v /\ v < 2 * (S * w)
    <3>1. (q + 1) * w \in Nat /\ (2 * S) * w \in Nat
      BY <1>1, <2>1, <2>2
    <3> QED
      BY <2>3, <2>5, <2>6, <3>1, <1>1
  <2>8. Msb(v) = SubBucketBits + k
    BY <1>1, <2>4, <2>7, MsbIs
  <2>9. v = w * q + (v - q * w) /\ v - q * w \in Nat /\ v - q * w < w
    <3>1. (q + 1) * w = q * w + w /\ w * q = q * w
      BY <2>1, <2>2
    <3> QED
      BY <2>2, <2>3, <2>6, <3>1
  <2>10. q = v \div w
    BY <2>2, <2>9, DivIsUnique
  <2>11. IndexOf(v) = (k + 1) * S + (v \div w - S)
    <3>1. Msb(v) - SubBucketBits = k
      BY <1>1, <2>8
    <3>2. ~ (v < SubBuckets)
      BY <1>1, <2>7 DEF S
    <3> QED
      BY <3>1, <3>2 DEF IndexOf, S, w
  <2> QED
    BY <2>1, <2>10, <2>11
<1> QED
  BY <1>1, <1>2, <1>3

(* Longer values are in later slots, or the same.                           *)
LEMMA IndexMonotone ==
  ASSUME NEW u \in Nat, NEW v \in Nat, u <= v, v <= MaxValue
  PROVE  IndexOf(u) <= IndexOf(v)
<1> DEFINE S == SubBuckets
<1>1. S \in Nat /\ S >= 1 /\ MaxValue \in Nat /\ SubBucketBits \in Nat
  BY SubBucketsPositive, LayoutAssumption
<1>2. CASE v < S
  BY <1>1, <1>2 DEF IndexOf
<1>3. CASE u < S /\ S <= v
  <2>1. PICK k \in Nat, q \in Nat :
           S <= q /\ IndexOf(v) = (k + 1) * S + (q - S)
    BY <1>1, <1>3, ValueEncoded
  <2>2. (k + 1) * S = k * S + S /\ k * S >= 0
    BY <1>1
  <2>3. IndexOf(u) = u
    BY <1>3 DEF IndexOf
  <2> QED
    BY <1>1, <1>3, <2>1, <2>2, <2>3
<1>4. CASE S <= u
  <2>1. PICK j \in Nat, p \in Nat :
           /\ S <= p /\ p < 2 * S /\ p * 2 ^ j <= u /\ u < (p + 1) * 2 ^ j
           /\ Msb(u) = SubBucketBits + j
           /\ IndexOf(u) = (j + 1) * S + (p - S)
    BY <1>1, <1>4, ValueEncoded
  <2>2. PICK k \in Nat, q \in Nat :
           /\ S <= q /\ q < 2 * S /\ q * 2 ^ k <= v /\ v < (q + 1) * 2 ^ k
           /\ Msb(v) = SubBucketBits + k
           /\ IndexOf(v) = (k + 1) * S + (q - S)
    BY <1>1, <1>4, ValueEncoded
  <2>3. j <= k
    <3> SUFFICES ASSUME k < j PROVE FALSE
      OBVIOUS
    <3> DEFINE m == SubBucketBits + k
               n == SubBucketBits + j
    <3>1. m \in Nat /\ n \in Nat /\ m < n
      BY <1>1
    <3>2. v < 2 * 2 ^ m /\ 2 ^ n <= u
      BY <1>1, <1>4, <2>1, <2>2, MsbLaw
    <3>3. 2 * 2 ^ m <= 2 ^ n
      BY <3>1, PowerDoubled
    <3> QED
      BY <3>1, <3>2, <3>3, PowerNat
  <2>4. CASE j = k
    <3> DEFINE w == 2 ^ k
    <3>1. w \in Nat /\ w >= 1 /\ p * w <= u /\ v < (q + 1) * w
      BY <2>1, <2>2, <2>4, PowerPositive
    <3> HIDE DEF w
    <3>2. p <= q
      <4> SUFFICES ASSUME q + 1 <= p PROVE FALSE
        OBVIOUS
      <4>1. (p - (q + 1)) * w >= 0 /\ (p - (q + 1)) * w = p * w - (q + 1) * w
        BY <3>1
      <4>2. p * w \in Nat /\ (q + 1) * w \in Nat
        BY <3>1
      <4> QED
        BY <4>1, <4>2, <3>1
    <3>3. (j + 1) * S \in Nat
      BY <1>1
    <3> QED
      BY <1>1, <2>1, <2>2, <2>4, <3>2, <3>3
  <2>5. CASE j < k
    <3>1. (k - (j + 1)) * S >= 0
      BY <1>1, <2>5
    <3>2. (k - (j + 1)) * S = k * S - (j + 1) * S /\ (k + 1) * S = k * S + S
      BY <1>1
    <3>3. k * S \in Nat /\ (j + 1) * S \in Nat
      BY <1>1
    <3> QED
      BY <1>1, <2>1, <2>2, <3>1, <3>2, <3>3
  <2> QED
    BY <2>3, <2>4, <2>5
<1> QED
  BY <1>1, <1>2, <1>3, <1>4

(* What a slot holds differs from its end by at most one part in SubBuckets. *)
LEMMA SlotIsNarrow ==
  ASSUME NEW v \in Nat, v <= MaxValue
  PROVE  /\ SlotHigh(IndexOf(v)) \in Nat
         /\ (SlotHigh(IndexOf(v)) - v) * SubBuckets <= v
<1> DEFINE S == SubBuckets
           i == IndexOf(v)
<1>1. S \in Nat /\ S >= 1 /\ MaxValue \in Nat
  BY SubBucketsPositive, LayoutAssumption
<1>2. i \in Nat /\ SlotLow(i) <= v /\ v <= SlotHigh(i)
  BY WithinItsSlot
<1>3. CASE i < S
  <2>1. SlotLow(i) = i /\ SlotHigh(i) = i
    BY <1>3 DEF SlotLow, SlotHigh
  <2>2. v = i
    BY <1>2, <2>1
  <2>3. (i - v) * S = 0
    BY <1>1, <2>2
  <2> QED
    BY <1>2, <2>1, <2>3
<1>4. CASE i >= S
  <2> HIDE DEF i
  <2>1. PICK k \in Nat, q \in Nat :
           S <= q /\ Mantissa(i) = q /\ Width(i) = 2 ^ k
    BY <1>2, <1>4, SlotDecoded
  <2> DEFINE w == 2 ^ k
             high == SlotHigh(i)
  <2>2. w \in Nat /\ w >= 1
    BY PowerPositive
  <2>3. q * w <= v /\ v <= high /\ high = (q + 1) * w - 1
    <3>1. SlotLow(i) = q * w /\ SlotHigh(i) = (q + 1) * w - 1
      BY <1>1, <1>2, <1>4, <2>1 DEF SlotLow, SlotHigh
    <3> QED
      BY <1>2, <3>1
  <2> HIDE DEF S, w, high
  <2>4. q * w \in Nat /\ (q + 1) * w = q * w + w
    BY <2>1, <2>2
  <2>5. high \in Nat /\ high - v \in Nat /\ high - v <= w
    BY <2>2, <2>3, <2>4
  <2>6. (high - v) * S <= w * S
    <3> DEFINE d == high - v
    <3>1. d \in Nat /\ d <= w
      BY <2>5
    <3> HIDE DEF d
    <3>2. (w - d) * S >= 0 /\ (w - d) * S = w * S - d * S
      BY <1>1, <2>2, <3>1
    <3>3. d * S \in Nat /\ w * S \in Nat
      BY <1>1, <2>2, <3>1
    <3> QED
      BY <3>2, <3>3 DEF d
  <2>7. w * S <= q * w
    <3>1. (q - S) * w >= 0 /\ (q - S) * w = q * w - w * S /\ w * S \in Nat
      BY <1>1, <2>1, <2>2
    <3> QED
      BY <3>1, <2>4
  <2>8. (high - v) * S \in Nat /\ w * S \in Nat
    BY <1>1, <2>2, <2>5
  <2> QED
    BY <2>3, <2>4, <2>5, <2>6, <2>7, <2>8 DEF S, high, i
<1> QED
  BY <1>1, <1>2, <1>3, <1>4

=============================================================================
