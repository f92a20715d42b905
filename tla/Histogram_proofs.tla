-------------------------- MODULE Histogram_proofs --------------------------
(***************************************************************************)
(* Theorems about the histograms, for every layout, every set of latencies *)
(* and any number of workers.                                              *)
(*                                                                         *)
(* Books: record and merge keep a histogram that of its samples (Holds).   *)
(* Percentiles: the slot at which the running count reaches the rank is    *)
(* that of the sample of this rank.  The layout, on which both rest, is in *)
(* CountingLaws.                                                           *)
(***************************************************************************)
EXTENDS Histogram, CountingLaws, FunctionTheorems

-----------------------------------------------------------------------------
(* A histogram and what it was told.                                        *)

(* The latencies within the layout that are in slot i.                      *)
InSlot(i) == {v \in Values : v <= MaxValue /\ SlotLow(i) <= v /\ v <= SlotHigh(i)}

PastTheLayout == {v \in Values : v > MaxValue}

(* h is the histogram of f[v] samples of every latency v.                   *)
Holds(h, f) ==
  /\ f \in [Values -> Nat]
  /\ h.slots \in [Slots -> Nat]
  /\ \A i \in Slots : h.slots[i] = SumFunctionOnSet(f, InSlot(i))
  /\ h.overflow = SumFunctionOnSet(f, PastTheLayout)
  /\ h.count = SumFunctionOnSet(f, Values)
  /\ \A v \in Values : f[v] > 0 => v <= h.max
  /\ h.max = 0 \/ (h.max \in Values /\ f[h.max] > 0)

(* The assumptions, in the form the proofs use them.                        *)
LEMMA ValuesFacts ==
  /\ IsFiniteSet(Values) /\ MaxValue \in Nat
  /\ \A v \in Values : v \in Nat
  /\ PastTheLayout \subseteq Values
  /\ \A i \in Slots : i \in Nat /\ InSlot(i) \subseteq Values
  BY HistogramAssumption, LayoutAssumption DEF PastTheLayout, InSlot, Slots

(* Every latency within the layout has a slot, which no other has.          *)
LEMMA SlotOfValue ==
  ASSUME NEW v \in Values, v <= MaxValue
  PROVE  /\ IndexOf(v) \in Slots
         /\ \A i \in Slots : v \in InSlot(i) <=> i = IndexOf(v)
<1>1. v \in Nat /\ MaxValue \in Nat
  BY ValuesFacts
<1>2. IndexOf(v) \in Nat /\ IndexOf(MaxValue) \in Nat
  BY <1>1, WithinItsSlot
<1>3. IndexOf(v) <= IndexOf(MaxValue)
  BY <1>1, IndexMonotone
<1>4. IndexOf(v) \in Slots
  BY <1>2, <1>3 DEF Slots
<1>5. SlotLow(IndexOf(v)) <= v /\ v <= SlotHigh(IndexOf(v))
  BY <1>1, WithinItsSlot
<1>6. \A i \in Slots : SlotLow(i) <= v /\ v <= SlotHigh(i) => i = IndexOf(v)
  BY <1>1, WithinNoOther, ValuesFacts
<1> QED
  BY <1>4, <1>5, <1>6 DEF InSlot

(* Nothing recorded yet.                                                    *)
LEMMA EmptyHolds ==
  ASSUME NEW f \in [Values -> Nat], \A v \in Values : f[v] = 0
  PROVE  Holds(Empty, f)
<1>1. \A s \in SUBSET Values : SumFunctionOnSet(f, s) = 0
  <2> SUFFICES ASSUME NEW s \in SUBSET Values PROVE SumFunctionOnSet(f, s) = 0
    OBVIOUS
  <2>1. s \subseteq Values
    OBVIOUS
  <2>2. SumFunctionOnSet(f, s) \in Nat
    BY <2>1, ValuesFacts, PartIsPartSums
  <2>3. ~ (SumFunctionOnSet(f, s) > 0)
    BY <2>1, ValuesFacts, PartPositive
  <2> QED
    BY <2>2, <2>3
<1>2. /\ Empty.slots = [i \in Slots |-> 0] /\ Empty.count = 0
      /\ Empty.overflow = 0 /\ Empty.max = 0
  BY DEF Empty
<1>3. \A i \in Slots : InSlot(i) \in SUBSET Values
  BY ValuesFacts
<1>4. PastTheLayout \in SUBSET Values /\ Values \in SUBSET Values
  BY ValuesFacts
<1> QED
  BY <1>1, <1>2, <1>3, <1>4 DEF Holds

(* record keeps the books.                                                  *)
LEMMA RecordHolds ==
  ASSUME NEW h, NEW f, Holds(h, f), NEW v \in Values, NEW n \in Nat \ {0},
         NEW g \in [Values -> Nat], g[v] = f[v] + n,
         \A u \in Values \ {v} : g[u] = f[u]
  PROVE  Holds(Record(h, v, n), g)
<1> DEFINE r == Record(h, v, n)
<1>0. f \in [Values -> Nat] /\ IsFiniteSet(Values)
  BY ValuesFacts DEF Holds
<1>1. f \in [Values -> Nat] /\ IsFiniteSet(Values) /\ v \in Nat /\ MaxValue \in Nat
  BY ValuesFacts DEF Holds
<1>2. \A s \in SUBSET Values :
        /\ v \in s => SumFunctionOnSet(g, s) = SumFunctionOnSet(f, s) + n
        /\ v \notin s => SumFunctionOnSet(g, s) = SumFunctionOnSet(f, s)
        /\ SumFunctionOnSet(f, s) \in Nat
  <2> SUFFICES ASSUME NEW s \in SUBSET Values
               PROVE  /\ v \in s => SumFunctionOnSet(g, s) = SumFunctionOnSet(f, s) + n
                      /\ v \notin s => SumFunctionOnSet(g, s) = SumFunctionOnSet(f, s)
                      /\ SumFunctionOnSet(f, s) \in Nat
    OBVIOUS
  <2>0. s \subseteq Values
    OBVIOUS
  <2>1. s \subseteq Values /\ n \in Nat
    OBVIOUS
  <2>2. SumFunctionOnSet(f, s) \in Nat
    BY <2>1, <1>1, PartIsPartSums
  <2>3. /\ v \in s => SumFunctionOnSet(g, s) + f[v] = SumFunctionOnSet(f, s) + g[v]
        /\ v \notin s => SumFunctionOnSet(g, s) = SumFunctionOnSet(f, s)
    BY <1>0, <2>0, PartChanges
  <2>4. SumFunctionOnSet(g, s) \in Nat /\ f[v] \in Nat
    BY <2>1, <1>1, PartIsPartSums
  <2> QED
    BY <2>2, <2>3, <2>4
<1>3. SumFunctionOnSet(g, Values) = SumFunctionOnSet(f, Values) + n
  BY <1>2
<1>4. /\ \A u \in Values : g[u] > 0 => u <= Larger(h.max, v)
      /\ Larger(h.max, v) \in Values /\ g[Larger(h.max, v)] > 0
  <2>1. h.max = 0 \/ (h.max \in Values /\ f[h.max] > 0)
    BY DEF Holds
  <2>2. \A u \in Values : u \in Nat /\ f[u] \in Nat /\ (f[u] > 0 => u <= h.max)
    BY <1>1, ValuesFacts DEF Holds
  <2>3. \A u \in Values : f[u] > 0 => g[u] > 0
    BY <2>2
  <2>4. g[v] > 0
    BY <2>2
  <2>5. h.max \in Nat
    BY <2>1, <2>2
  <2>6. CASE h.max > v
    <3>1. h.max \in Values /\ f[h.max] > 0
      BY <2>1, <2>6, <1>1
    <3>2. Larger(h.max, v) = h.max
      BY <2>6 DEF Larger
    <3>3. \A u \in Values : g[u] > 0 => u <= h.max
      BY <2>2, <2>5, <2>6, <1>1
    <3> QED
      BY <3>1, <3>2, <3>3, <2>3
  <2>7. CASE ~ (h.max > v)
    <3>2. Larger(h.max, v) = v
      BY <2>7 DEF Larger
    <3>3. \A u \in Values : g[u] > 0 => u <= v
      BY <2>2, <2>5, <2>7, <1>1
    <3> QED
      BY <3>2, <3>3, <2>4
  <2> QED
    BY <2>6, <2>7
<1>5. CASE v > MaxValue
  <2>1. /\ r.slots = h.slots /\ r.count = h.count + n
        /\ r.overflow = h.overflow + n /\ r.max = Larger(h.max, v)
    BY <1>5 DEF Record
  <2>2. v \in PastTheLayout /\ PastTheLayout \in SUBSET Values
    BY <1>5 DEF PastTheLayout
  <2>3. \A i \in Slots : v \notin InSlot(i) /\ InSlot(i) \in SUBSET Values
    BY <1>1, <1>5 DEF InSlot
  <2> HIDE DEF r
  <2>4. \A i \in Slots : SumFunctionOnSet(g, InSlot(i)) = SumFunctionOnSet(f, InSlot(i))
    BY <2>3, <1>2
  <2>5. SumFunctionOnSet(g, PastTheLayout) = SumFunctionOnSet(f, PastTheLayout) + n
    BY <2>2, <1>2
  <2> QED
    <3>1. /\ h.slots \in [Slots -> Nat]
          /\ \A i \in Slots : h.slots[i] = SumFunctionOnSet(f, InSlot(i))
          /\ h.overflow = SumFunctionOnSet(f, PastTheLayout)
          /\ h.count = SumFunctionOnSet(f, Values)
      BY DEF Holds
    <3>2. /\ r.slots \in [Slots -> Nat]
          /\ \A i \in Slots : r.slots[i] = SumFunctionOnSet(g, InSlot(i))
      BY <2>1, <2>4, <3>1
    <3>3. /\ r.overflow = SumFunctionOnSet(g, PastTheLayout)
          /\ r.count = SumFunctionOnSet(g, Values)
      BY <1>3, <2>1, <2>5, <3>1
    <3>4. /\ \A u \in Values : g[u] > 0 => u <= r.max
          /\ r.max \in Values /\ g[r.max] > 0
      BY <1>4, <2>1
    <3> QED
      BY <3>2, <3>3, <3>4 DEF Holds, r
<1>6. CASE v <= MaxValue
  <2> DEFINE k == IndexOf(v)
  <2>1. /\ r.slots = [h.slots EXCEPT ![k] = @ + n] /\ r.count = h.count + n
        /\ r.overflow = h.overflow /\ r.max = Larger(h.max, v)
    BY <1>1, <1>6 DEF Record
  <2>2. v \notin PastTheLayout /\ PastTheLayout \in SUBSET Values
    BY <1>1, <1>6 DEF PastTheLayout
  <2>3. k \in Slots /\ \A i \in Slots : v \in InSlot(i) <=> i = k
    BY <1>6, SlotOfValue
  <2>4. \A i \in Slots : InSlot(i) \in SUBSET Values
    BY ValuesFacts
  <2> HIDE DEF r, k
  <2>5. h.slots \in [Slots -> Nat]
    BY DEF Holds
  <2>6. \A i \in Slots : r.slots[i] = h.slots[i] + (IF i = k THEN n ELSE 0)
    BY <2>1, <2>3, <2>5
  <2>7. r.slots \in [Slots -> Nat]
    BY <2>1, <2>3, <2>5
  <2>8. \A i \in Slots : SumFunctionOnSet(g, InSlot(i))
           = SumFunctionOnSet(f, InSlot(i)) + (IF i = k THEN n ELSE 0)
    BY <2>3, <2>4, <1>2
  <2>9. SumFunctionOnSet(g, PastTheLayout) = SumFunctionOnSet(f, PastTheLayout)
    BY <2>2, <1>2
  <2>10. \A i \in Slots : h.slots[i] = SumFunctionOnSet(f, InSlot(i))
    BY DEF Holds
  <2>11. \A i \in Slots : r.slots[i] = SumFunctionOnSet(g, InSlot(i))
    BY <2>6, <2>8, <2>10
  <2>12. r.overflow = SumFunctionOnSet(g, PastTheLayout) /\ r.count = SumFunctionOnSet(g, Values)
    BY <2>1, <2>9, <1>3 DEF Holds
  <2> QED
    <3>1. /\ \A u \in Values : g[u] > 0 => u <= r.max
          /\ r.max \in Values /\ g[r.max] > 0
      BY <1>4, <2>1
    <3> QED
      BY <2>7, <2>11, <2>12, <3>1 DEF Holds, r
<1> QED
  BY <1>1, <1>5, <1>6

(* merge adds what two histograms hold.                                     *)
LEMMA MergedHolds ==
  ASSUME NEW h, NEW f, Holds(h, f), NEW k, NEW g, Holds(k, g),
         NEW e \in [Values -> Nat], \A v \in Values : e[v] = f[v] + g[v]
  PROVE  Holds(Merged(h, k), e)
<1>1. f \in [Values -> Nat] /\ g \in [Values -> Nat] /\ IsFiniteSet(Values)
  BY ValuesFacts DEF Holds
<1>2. \A s \in SUBSET Values :
        SumFunctionOnSet(e, s) = SumFunctionOnSet(f, s) + SumFunctionOnSet(g, s)
  <2> SUFFICES ASSUME NEW s \in SUBSET Values
               PROVE  SumFunctionOnSet(e, s) = SumFunctionOnSet(f, s) + SumFunctionOnSet(g, s)
    OBVIOUS
  <2>1. s \subseteq Values
    OBVIOUS
  <2> QED
    BY <1>1, <2>1, PartOfBoth
<1> DEFINE m == Merged(h, k)
<1>3. /\ m.slots = [i \in Slots |-> h.slots[i] + k.slots[i]]
      /\ m.count = h.count + k.count /\ m.overflow = h.overflow + k.overflow
      /\ m.max = Larger(h.max, k.max)
  BY DEF Merged
<1> HIDE DEF m
<1>4. /\ h.slots \in [Slots -> Nat] /\ k.slots \in [Slots -> Nat]
      /\ \A i \in Slots : h.slots[i] = SumFunctionOnSet(f, InSlot(i))
      /\ \A i \in Slots : k.slots[i] = SumFunctionOnSet(g, InSlot(i))
  BY DEF Holds
<1>5. /\ m.slots \in [Slots -> Nat]
      /\ \A i \in Slots : m.slots[i] = h.slots[i] + k.slots[i]
  BY <1>3, <1>4
<1>6. \A i \in Slots : InSlot(i) \in SUBSET Values
  BY ValuesFacts
<1>7. \A i \in Slots : m.slots[i] = SumFunctionOnSet(e, InSlot(i))
  BY <1>2, <1>4, <1>5, <1>6
<1>8. /\ m.overflow = SumFunctionOnSet(e, PastTheLayout)
      /\ m.count = SumFunctionOnSet(e, Values)
  <2>1. PastTheLayout \in SUBSET Values /\ Values \in SUBSET Values
    BY ValuesFacts
  <2>2. /\ h.overflow = SumFunctionOnSet(f, PastTheLayout)
        /\ k.overflow = SumFunctionOnSet(g, PastTheLayout)
        /\ h.count = SumFunctionOnSet(f, Values) /\ k.count = SumFunctionOnSet(g, Values)
    BY DEF Holds
  <2> QED
    BY <1>2, <1>3, <2>1, <2>2
<1>9. /\ \A v \in Values : e[v] > 0 => v <= m.max
      /\ m.max = 0 \/ (m.max \in Values /\ e[m.max] > 0)
  <2>1. \A v \in Values : /\ v \in Nat /\ f[v] \in Nat /\ g[v] \in Nat
                          /\ e[v] = f[v] + g[v]
                          /\ f[v] > 0 => v <= h.max
                          /\ g[v] > 0 => v <= k.max
    BY <1>1, ValuesFacts DEF Holds
  <2>2. /\ h.max = 0 \/ (h.max \in Values /\ f[h.max] > 0)
        /\ k.max = 0 \/ (k.max \in Values /\ g[k.max] > 0)
    BY DEF Holds
  <2>3. h.max \in Nat /\ k.max \in Nat
    BY <2>1, <2>2
  <2>4. \/ m.max = h.max /\ h.max >= k.max
        \/ m.max = k.max /\ k.max >= h.max
    BY <1>3, <2>3 DEF Larger
  <2>5. \A v \in Values : e[v] > 0 => v <= m.max
    BY <2>1, <2>3, <2>4
  <2>6. \A v \in Values : f[v] > 0 \/ g[v] > 0 => e[v] > 0
    BY <2>1
  <2> QED
    BY <2>2, <2>4, <2>5, <2>6
<1> QED
  BY <1>5, <1>7, <1>8, <1>9 DEF Holds, m

-----------------------------------------------------------------------------
(* The percentiles.                                                         *)

(* The running count at a slot is the number of samples that do not exceed  *)
(* what the slot can hold.                                                  *)
UpToSlot(i) == {v \in Values : v <= MaxValue /\ IndexOf(v) <= i}

(* The sum over the first slots is that over the latencies in them.         *)
LEMMA RunningCounts ==
  ASSUME NEW h, NEW f, Holds(h, f), NEW i \in Slots
  PROVE  Running(h, i) = SumFunctionOnSet(f, UpToSlot(i))
<1> DEFINE Bad == {n \in Nat : n <= i /\ Running(h, n) # SumFunctionOnSet(f, UpToSlot(n))}
<1>1. /\ i \in Nat /\ (\A n \in 0 .. i : n \in Slots) /\ \A n \in Nat : 0 .. n \in SUBSET Nat
      /\ MaxValue \in Nat /\ IsFiniteSet(Values) /\ f \in [Values -> Nat]
      /\ h.slots \in [Slots -> Nat]
  BY ValuesFacts, WithinItsSlot DEF Slots, Holds
<1>2. IsFiniteSet(Slots)
  <2>1. IndexOf(MaxValue) \in Int /\ 0 \in Int
    BY <1>1, WithinItsSlot
  <2> QED
    BY <2>1, FS_Interval DEF Slots
<1>0. h.slots \in [Slots -> Nat]
  BY <1>1
<1>3. \A n \in Slots : UpToSlot(n) \subseteq Values /\ InSlot(n) \subseteq Values
  BY DEF UpToSlot, InSlot
<1>4. \A n \in Slots : SumFunctionOnSet(h.slots, {n}) = h.slots[n]
  BY <1>1, <1>2, PartOfOne
<1>5. \A n \in Slots : h.slots[n] = SumFunctionOnSet(f, InSlot(n))
  BY DEF Holds
<1>6. \A v \in Values : v <= MaxValue => /\ IndexOf(v) \in Nat
                                         /\ \A n \in Slots : v \in InSlot(n) <=> n = IndexOf(v)
  BY SlotOfValue, ValuesFacts
<1>7. SUFFICES ASSUME Bad # {} PROVE FALSE
  BY <1>1
<1>8. PICK n \in Bad : \A m \in Bad : n <= m
  BY <1>7, LeastNatural
<1>9. n \in Nat /\ n <= i /\ n \in Slots
  BY <1>1, <1>8
<1>10. CASE n = 0
  <2>1. 0 .. n = {n}
    BY <1>10
  <2>2. UpToSlot(n) = InSlot(n)
    <3>1. \A v \in Values : v <= MaxValue => (IndexOf(v) <= n <=> v \in InSlot(n))
      BY <1>6, <1>9, <1>10
    <3>2. \A v \in InSlot(n) : v \in Values /\ v <= MaxValue
      BY DEF InSlot
    <3> QED
      BY <3>1, <3>2 DEF UpToSlot
  <2>3. Running(h, n) = h.slots[n]
    BY <1>4, <1>9, <2>1 DEF Running
  <2>4. Running(h, n) = SumFunctionOnSet(f, UpToSlot(n))
    BY <1>5, <1>9, <2>2, <2>3
  <2> QED
    BY <1>8, <2>4
<1>11. CASE n # 0
  <2> DEFINE m == n - 1
  <2>1. m \in Nat /\ m \in Slots /\ n = m + 1 /\ m \notin Bad /\ m <= i
    BY <1>1, <1>8, <1>9, <1>11
  <2> HIDE DEF m
  <2>2. Running(h, m) = SumFunctionOnSet(f, UpToSlot(m))
    BY <2>1
  <2>3. /\ 0 .. n = (0 .. m) \cup {n} /\ (0 .. m) \cap {n} = {}
        /\ 0 .. m \subseteq Slots /\ {n} \subseteq Slots
    BY <1>1, <1>9, <2>1
  <2>4. Running(h, n) = Running(h, m) + h.slots[n]
    <3>1. SumFunctionOnSet(h.slots, (0 .. m) \cup {n})
            = SumFunctionOnSet(h.slots, 0 .. m) + SumFunctionOnSet(h.slots, {n})
      <4> DEFINE s == 0 .. m
                 t == {n}
      <4>1. s \cap t = {} /\ s \subseteq Slots /\ t \subseteq Slots
        BY <2>3
      <4> HIDE DEF s, t
      <4>2. SumFunctionOnSet(h.slots, s \cup t)
              = SumFunctionOnSet(h.slots, s) + SumFunctionOnSet(h.slots, t)
        BY <1>0, <1>2, <4>1, PartSplit
      <4> QED
        BY <4>2 DEF s, t
    <3> QED
      BY <1>4, <1>9, <2>3, <3>1 DEF Running
  <2>5. UpToSlot(n) = UpToSlot(m) \cup InSlot(n) /\ UpToSlot(m) \cap InSlot(n) = {}
    <3>1. \A v \in Values : v <= MaxValue =>
            /\ IndexOf(v) <= n <=> (IndexOf(v) <= m \/ v \in InSlot(n))
            /\ ~ (IndexOf(v) <= m /\ v \in InSlot(n))
      BY <1>6, <1>9, <2>1
    <3>2. \A v \in InSlot(n) : v \in Values /\ v <= MaxValue
      BY DEF InSlot
    <3> QED
      BY <3>1, <3>2 DEF UpToSlot
  <2>6. SumFunctionOnSet(f, UpToSlot(n))
          = SumFunctionOnSet(f, UpToSlot(m)) + SumFunctionOnSet(f, InSlot(n))
    <3>1. UpToSlot(m) \subseteq Values /\ InSlot(n) \subseteq Values
      BY <1>3, <1>9, <2>1
    <3> QED
      BY <1>1, <2>5, <3>1, PartSplit
  <2>7. Running(h, n) = SumFunctionOnSet(f, UpToSlot(n))
    BY <1>5, <1>9, <2>2, <2>4, <2>6
  <2> QED
    BY <1>8, <2>7
<1> QED
  BY <1>10, <1>11

(* Slots meet without a gap.                                                *)
LEMMA SlotsMeet ==
  ASSUME NEW i \in Nat
  PROVE  /\ SlotLow(i) \in Nat /\ SlotHigh(i) \in Nat
         /\ SlotLow(i) <= SlotHigh(i)
         /\ SlotLow(i + 1) = SlotHigh(i) + 1
<1> DEFINE S == SubBuckets
<1>1. S \in Nat /\ S >= 1
  BY SubBucketsPositive
<1>2. CASE i + 1 < S
  BY <1>1, <1>2 DEF SlotLow, SlotHigh
<1>3. CASE i + 1 = S
  <2>1. S \div S = 1 /\ S % S = 0
    <3>1. S = S * 1 + 0
      BY <1>1
    <3> QED
      BY <1>1, <3>1, DivIsUnique
  <2>2. Mantissa(S) = S /\ Width(S) = 1
    <3>1. Width(S) = 2 ^ 0
      <4> DEFINE x == S \div S - 1
      <4>1. x = 0 /\ Width(S) = 2 ^ x
        BY <2>1 DEF Width
      <4> HIDE DEF x
      <4> QED
        BY <4>1
    <3> QED
      BY <2>1, <3>1, <1>1, PowerZero DEF Mantissa
  <2>3. SlotLow(S) = S
    BY <1>1, <2>2 DEF SlotLow
  <2>4. SlotLow(i) = i /\ SlotHigh(i) = i
    BY <1>1, <1>3 DEF SlotLow, SlotHigh
  <2> QED
    BY <1>1, <1>3, <2>3, <2>4
<1>4. CASE i >= S
  <2>1. PICK k \in Nat, q \in Nat :
           /\ S <= q /\ q < 2 * S
           /\ i = (k + 1) * S + (q - S)
           /\ k = (i \div S) - 1
           /\ Mantissa(i) = q /\ Width(i) = 2 ^ k
    BY <1>4, SlotDecoded
  <2> DEFINE w == 2 ^ k
  <2>2. w \in Nat /\ w >= 1
    BY PowerPositive
  <2>3. SlotLow(i) = q * w /\ SlotHigh(i) = (q + 1) * w - 1
    BY <1>1, <1>4, <2>1 DEF SlotLow, SlotHigh
  <2>4. (q + 1) * w = q * w + w /\ q * w \in Nat
    BY <2>1, <2>2
  <2>5. SlotLow(i + 1) = (q + 1) * w
    <3>1. CASE q + 1 < 2 * S
      <4> DEFINE s == (q + 1) - S
                 d == k + 1
      <4>1. s \in Nat /\ s < S /\ d \in Nat
        BY <1>1, <2>1, <3>1
      <4>2. i + 1 = S * d + s
        <5>1. (k + 1) * S = S * (k + 1) /\ S * (k + 1) \in Nat
          BY <1>1
        <5> QED
          BY <1>1, <2>1, <5>1
      <4>3. d = (i + 1) \div S /\ s = (i + 1) % S
        <5> HIDE DEF s, d, S
        <5> QED
          BY <1>1, <4>1, <4>2, DivIsUnique
      <4>4. Mantissa(i + 1) = q + 1 /\ Width(i + 1) = 2 ^ k
        BY <1>1, <4>3, <2>1 DEF Mantissa, Width
      <4>5. ~ (i + 1 < S)
        BY <1>1, <1>4
      <4> QED
        BY <4>4, <4>5 DEF SlotLow
    <3>2. CASE q + 1 = 2 * S
      <4> DEFINE d == k + 2
      <4>1. i + 1 = S * d + 0
        <5>1. (k + 1) * S + S = S * (k + 2) /\ (k + 1) * S \in Nat
          BY <1>1
        <5> QED
          BY <1>1, <2>1, <3>2, <5>1
      <4>2. d = (i + 1) \div S /\ 0 = (i + 1) % S
        <5>1. 0 < S /\ d \in Nat
          BY <1>1
        <5> HIDE DEF d, S
        <5> QED
          BY <1>1, <4>1, <5>1, DivIsUnique
      <4>3. Mantissa(i + 1) = S /\ Width(i + 1) = 2 ^ (k + 1)
        BY <1>1, <4>2, <2>1 DEF Mantissa, Width
      <4>4. ~ (i + 1 < S)
        BY <1>1, <1>4
      <4>5. SlotLow(i + 1) = S * 2 ^ (k + 1)
        BY <4>3, <4>4 DEF SlotLow
      <4>6. 2 ^ (k + 1) = 2 * w
        BY PowerNext
      <4> HIDE DEF S, w
      <4>7. S * (2 * w) = (2 * S) * w
        BY <1>1, <2>2
      <4> QED
        BY <3>2, <4>5, <4>6, <4>7
    <3> QED
      BY <1>1, <2>1, <3>1, <3>2
  <2> HIDE DEF w
  <2> QED
    BY <2>2, <2>3, <2>4, <2>5
<1> QED
  BY <1>1, <1>2, <1>3, <1>4

(* Later slots begin later.                                                 *)
LEMMA SlotLowMonotone ==
  ASSUME NEW i \in Nat, NEW j \in Nat, i <= j
  PROVE  SlotLow(i) <= SlotLow(j)
<1> DEFINE Bad == {n \in Nat : i <= n /\ ~ (SlotLow(i) <= SlotLow(n))}
<1>1. SUFFICES ASSUME Bad # {} PROVE FALSE
  OBVIOUS
<1>2. PICK n \in Bad : \A m \in Bad : n <= m
  BY <1>1, LeastNatural
<1>3. SlotLow(i) \in Nat
  BY SlotsMeet
<1>4. n # i
  BY <1>2, <1>3
<1> DEFINE m == n - 1
<1>5. m \in Nat /\ i <= m /\ n = m + 1 /\ m \notin Bad
  BY <1>2, <1>4
<1> HIDE DEF m
<1>6. /\ SlotLow(m) \in Nat /\ SlotHigh(m) \in Nat
      /\ SlotLow(m) <= SlotHigh(m) /\ SlotLow(n) = SlotHigh(m) + 1
  BY <1>5, SlotsMeet
<1>7. SlotLow(i) <= SlotLow(m)
  BY <1>5
<1> QED
  BY <1>2, <1>3, <1>6, <1>7

(* A value lies past the end of the slots before its own, and of no other.  *)
LEMMA PastTheSlot ==
  ASSUME NEW v \in Nat, v <= MaxValue, NEW i \in Nat
  PROVE  v > SlotHigh(i) <=> IndexOf(v) > i
<1> DEFINE j == IndexOf(v)
<1>1. j \in Nat /\ SlotLow(j) <= v /\ v <= SlotHigh(j)
  BY WithinItsSlot
<1> HIDE DEF j
<1>2. /\ SlotHigh(i) \in Nat /\ SlotHigh(j) \in Nat /\ SlotLow(j) \in Nat
      /\ SlotLow(i + 1) = SlotHigh(i) + 1 /\ SlotLow(j + 1) = SlotHigh(j) + 1
  BY <1>1, SlotsMeet
<1>3. CASE j > i
  <2>1. SlotLow(i + 1) <= SlotLow(j)
    BY <1>1, <1>3, SlotLowMonotone
  <2> QED
    BY <1>1, <1>2, <1>3, <2>1 DEF j
<1>4. CASE j <= i
  <2>1. SlotLow(j + 1) <= SlotLow(i + 1)
    BY <1>1, <1>4, SlotLowMonotone
  <2> QED
    BY <1>1, <1>2, <1>4, <2>1 DEF j
<1> QED
  BY <1>1, <1>3, <1>4

-----------------------------------------------------------------------------
(* The rank.                                                                *)

(* k of n samples are at least p of every thousand.                         *)
Share(p, n, k) == k * 1000 >= p * n

(* It is one of the samples, at least the share of them that was asked for. *)
LEMMA RankReaches ==
  ASSUME NEW p \in 0 .. 1000, NEW n \in Nat, n >= 1
  PROVE  Rank(p, n) \in 1 .. n /\ Share(p, n, Rank(p, n))
<1> DEFINE t == p * n
           extra == IF p \in RoundsUp /\ n > 0 /\ t % 1000 = 0 THEN 1 ELSE 0
           r == (t + 999) \div 1000 + extra
<1>1. t \in Nat /\ t <= 1000 * n
  <2>1. (1000 - p) * n >= 0 /\ (1000 - p) * n = 1000 * n - p * n /\ p * n >= 0 /\ p * n \in Int
    OBVIOUS
  <2> QED
    BY <2>1
<1>2. extra \in {0, 1}
  OBVIOUS
<1>3. Rank(p, n) = IF r < 1 THEN 1 ELSE IF r > n THEN n ELSE r
  BY DEF Rank, Clamped
<1> HIDE DEF t, extra
<1>4. r \in Nat /\ r * 1000 >= t
  BY <1>1, <1>2
<1> HIDE DEF r
<1>5. Rank(p, n) \in 1 .. n
  BY <1>3, <1>4
<1>6. Rank(p, n) * 1000 >= t
  BY <1>1, <1>3, <1>4
<1> QED
  BY <1>5, <1>6 DEF t, Share

(* The product is a whole number and is computed above it.                  *)
RoundedUp(p, n) == p \in RoundsUp /\ (p * n) % 1000 = 0

(* And the least such, where it is not.                                     *)
LEMMA RankIsLeast ==
  ASSUME NEW p \in 0 .. 1000, NEW n \in Nat, ~RoundedUp(p, n),
         NEW k \in 1 .. n, Share(p, n, k)
  PROVE  Rank(p, n) <= k
<1> DEFINE t == p * n
           r == (t + 999) \div 1000
<1>1. t \in Nat
  <2>1. p \in Nat
    OBVIOUS
  <2> QED
    BY <2>1
<1>2. Rank(p, n) = IF r < 1 THEN 1 ELSE IF r > n THEN n ELSE r
  <2>1. (p * n + 999) \div 1000 + 0 = r
    BY <1>1
  <2>2. ~ (p \in RoundsUp /\ n > 0 /\ (p * n) % 1000 = 0)
    BY DEF RoundedUp
  <2> QED
    BY <2>1, <2>2 DEF Rank, Clamped
<1> HIDE DEF t
<1>3. r \in Nat /\ r <= k
  BY <1>1 DEF t, Share
<1> HIDE DEF r
<1> QED
  BY <1>2, <1>3

-----------------------------------------------------------------------------
(* The percentile and the sample it stands for.                             *)

Below(f, v) == SumFunctionOnSet(f, {u \in Values : u <= v})

(* e is the nearest-rank percentile p of the samples f, n of them.          *)
IsExact(f, n, p, e) ==
  /\ e \in Values /\ f[e] > 0
  /\ Share(p, n, Below(f, e))
  /\ \A u \in Values : f[u] > 0 /\ Share(p, n, Below(f, u)) => e <= u

(* How many samples do not exceed v.                                        *)
LEMMA BelowLaws ==
  ASSUME NEW f \in [Values -> Nat], NEW v \in Values
  PROVE  /\ Below(f, v) \in Nat
         /\ Below(f, v) <= SumFunctionOnSet(f, Values)
         /\ f[v] > 0 => Below(f, v) >= 1
<1> DEFINE s == {u \in Values : u <= v}
<1>1. s \subseteq Values /\ IsFiniteSet(Values) /\ v \in s
  BY ValuesFacts
<1>2. Below(f, v) = SumFunctionOnSet(f, s)
  BY DEF Below
<1> HIDE DEF s
<1>3. SumFunctionOnSet(f, s) \in Nat
  BY <1>1, PartIsPartSums
<1>4. SumFunctionOnSet(f, s) <= SumFunctionOnSet(f, Values)
  BY <1>1, PartMonotone
<1>5. f[v] > 0 => SumFunctionOnSet(f, s) > 0
  BY <1>1, PartPositive
<1> QED
  BY <1>2, <1>3, <1>4, <1>5

(* All samples are below the longest.                                       *)
LEMMA AllBelowTheLongest ==
  ASSUME NEW h, NEW f, Holds(h, f), h.count > 0
  PROVE  /\ h.max \in Values /\ f[h.max] > 0
         /\ Below(f, h.max) = h.count
<1>0. f \in [Values -> Nat] /\ IsFiniteSet(Values)
  BY ValuesFacts DEF Holds
<1>1. h.count = SumFunctionOnSet(f, Values)
  BY DEF Holds
<1>2. PICK v \in Values : f[v] > 0
  <2>1. SumFunctionOnSet(f, Values) > 0
    BY <1>1
  <2> QED
    BY <1>0, <2>1, PartPositive
<1>3. h.max \in Values /\ f[h.max] > 0
  <2>1. v <= h.max /\ (h.max = 0 \/ (h.max \in Values /\ f[h.max] > 0))
    BY <1>2 DEF Holds
  <2>2. v \in Nat
    BY ValuesFacts
  <2>3. h.max = 0 => v = h.max
    BY <2>1, <2>2
  <2> QED
    BY <1>2, <2>1, <2>3
<1> DEFINE s == {u \in Values : u <= h.max}
           t == {u \in Values : ~ (u <= h.max)}
<1>4. s \subseteq Values /\ t \subseteq Values /\ s \cap t = {} /\ Values = s \cup t
  OBVIOUS
<1>5. ~ \E u \in t : f[u] > 0
  BY DEF Holds
<1>6. Below(f, h.max) = SumFunctionOnSet(f, s)
  BY DEF Below
<1> HIDE DEF s, t
<1>7. SumFunctionOnSet(f, s \cup t) = SumFunctionOnSet(f, s) + SumFunctionOnSet(f, t)
  BY <1>0, <1>4, PartSplit
<1>8. SumFunctionOnSet(f, s) \in Nat /\ SumFunctionOnSet(f, t) \in Nat
  BY <1>0, <1>4, PartIsPartSums
<1>9. ~ (SumFunctionOnSet(f, t) > 0)
  BY <1>0, <1>4, <1>5, PartPositive
<1> QED
  BY <1>1, <1>3, <1>4, <1>6, <1>7, <1>8, <1>9

(* A histogram that is not empty has every percentile.                      *)
LEMMA ExactExists ==
  ASSUME NEW h, NEW f, Holds(h, f), h.count > 0, NEW p \in 0 .. 1000
  PROVE  \E e \in Values : IsExact(f, h.count, p, e)
<1> DEFINE Enough == {u \in Values : f[u] > 0 /\ Share(p, h.count, Below(f, u))}
<1>0. f \in [Values -> Nat] /\ (\A v \in Values : v \in Nat) /\ Values \subseteq Nat
  BY ValuesFacts DEF Holds
<1>1. h.max \in Values /\ f[h.max] > 0 /\ Below(f, h.max) = h.count
  BY AllBelowTheLongest
<1>2. h.count \in Nat
  <2>1. f \in [Values -> Nat]
    BY <1>0
  <2> QED
    BY <2>1, <1>1, BelowLaws
<1>3. Share(p, h.count, h.count)
  <2> DEFINE n == h.count
  <2>1. n \in Nat
    BY <1>2
  <2> HIDE DEF n
  <2>2. (1000 - p) * n >= 0 /\ (1000 - p) * n = n * 1000 - p * n
    BY <2>1
  <2>3. p * n \in Int
    BY <2>1
  <2> QED
    BY <2>1, <2>2, <2>3 DEF n, Share
<1>4. h.max \in Enough /\ Enough \subseteq Nat
  <2>1. Enough \subseteq Values
    OBVIOUS
  <2>2. h.max \in Enough
    BY <1>1, <1>3
  <2> QED
    BY <1>0, <2>1, <2>2
<1>5. PICK e \in Enough : \A u \in Enough : e <= u
  <2> HIDE DEF Enough
  <2> QED
    BY <1>4, LeastNatural, ZenonT(60)
<1> QED
  BY <1>5 DEF IsExact

(* The slot that percentile takes, where there is one.                      *)
LEMMA SlotTaken ==
  ASSUME NEW h, NEW p
  PROVE  LET reached == {i \in Slots : Running(h, i) >= Rank(p, h.count)}
         IN  /\ reached = {} => Percentile(h, p) = h.max
             /\ reached # {} =>
                  \E i \in reached : /\ \A j \in reached : i <= j
                                     /\ Percentile(h, p) = SlotHigh(i)
<1> DEFINE reached == {i \in Slots : Running(h, i) >= Rank(p, h.count)}
           i == CHOOSE k \in reached : \A j \in reached : k <= j
<1>1. reached \subseteq Nat
  BY ValuesFacts
<1>2. Percentile(h, p) = IF reached = {} THEN h.max ELSE SlotHigh(i)
  BY DEF Percentile
<1> HIDE DEF reached
<1>3. reached # {} => i \in reached /\ \A j \in reached : i <= j
  <2> SUFFICES ASSUME reached # {} PROVE i \in reached /\ \A j \in reached : i <= j
    OBVIOUS
  <2>1. \E k \in reached : \A j \in reached : k <= j
    BY <1>1, LeastNatural
  <2> QED
    BY <2>1
<1> HIDE DEF i
<1> QED
  BY <1>2, <1>3 DEF reached

(* No percentile is below the sample it stands for.                         *)
LEMMA NotBelow ==
  ASSUME NEW h, NEW f, Holds(h, f), h.count > 0, NEW p \in 0 .. 1000,
         NEW e, IsExact(f, h.count, p, e)
  PROVE  Percentile(h, p) >= e
<1> DEFINE reached == {i \in Slots : Running(h, i) >= Rank(p, h.count)}
           n == h.count
           r == Rank(p, n)
<1>1. e \in Values /\ f[e] > 0 /\ e \in Nat /\ MaxValue \in Nat
  BY ValuesFacts DEF IsExact
<1>2. CASE reached = {}
  <2>1. Percentile(h, p) = h.max
    BY <1>2, SlotTaken
  <2>2. e <= h.max
    BY <1>1 DEF Holds
  <2>3. h.max \in Nat
    BY AllBelowTheLongest, ValuesFacts
  <2> QED
    BY <1>1, <2>1, <2>2, <2>3
<1>3. CASE reached # {}
  <2>1. PICK i \in reached : Percentile(h, p) = SlotHigh(i)
    BY <1>3, SlotTaken
  <2> DEFINE t == UpToSlot(i)
  <2>0. f \in [Values -> Nat] /\ IsFiniteSet(Values) /\ t \subseteq Values
    BY ValuesFacts DEF Holds, UpToSlot
  <2>2. i \in Slots /\ i \in Nat /\ Running(h, i) >= r
    BY <2>1, ValuesFacts
  <2>3. n \in Nat /\ n >= 1
    <3>1. n = Below(f, h.max) /\ h.max \in Values
      BY AllBelowTheLongest
    <3>2. n \in Nat
      BY <3>1, <2>0, BelowLaws
    <3> QED
      BY <3>2
  <2>4. r \in 1 .. n /\ Share(p, n, r)
    <3> HIDE DEF n
    <3> QED
      BY <2>3, RankReaches
  <2>5. SumFunctionOnSet(f, t) >= r
    BY <2>2, RunningCounts
  <2>6. SlotHigh(i) \in Nat
    BY <2>2, SlotsMeet
  <2> HIDE DEF reached, n, r
  <2>7. SUFFICES ASSUME e > SlotHigh(i) PROVE FALSE
    BY <1>1, <2>1, <2>6
  <2>8. \A v \in t : v < e
    <3>0. \A v \in t : v \in Nat
      <4>1. t \subseteq Values
        BY <2>0
      <4> QED
        BY <4>1, ValuesFacts
    <3> SUFFICES ASSUME NEW v \in t, v >= e PROVE FALSE
      <4> HIDE DEF t
      <4> QED
        BY <1>1, <3>0
    <3>1. v \in Nat /\ v <= MaxValue /\ IndexOf(v) <= i
      BY ValuesFacts DEF UpToSlot
    <3>2. e <= MaxValue
      BY <1>1, <3>1
    <3>3. IndexOf(e) > i
      BY <1>1, <2>2, <2>7, <3>2, PastTheSlot
    <3>4. IndexOf(e) <= IndexOf(v) /\ IndexOf(e) \in Nat /\ IndexOf(v) \in Nat
      BY <1>1, <3>1, <3>2, IndexMonotone, WithinItsSlot
    <3> QED
      BY <2>2, <3>1, <3>3, <3>4
  <2> HIDE DEF t
  <2>9. SumFunctionOnSet(f, t) \in Nat /\ SumFunctionOnSet(f, t) > 0
    <3>1. SumFunctionOnSet(f, t) \in Nat
      BY <2>0, PartIsPartSums
    <3> QED
      BY <2>3, <2>4, <2>5, <3>1
  <2>10. \E v \in t : f[v] > 0
    BY <2>0, <2>9, PartPositive
  <2>11. PICK u \in t : f[u] > 0 /\ \A v \in t : f[v] > 0 => v <= u
    <3> DEFINE D == {e - v : v \in {w \in t : f[w] > 0}}
    <3>1. \A v \in t : v \in Nat /\ e - v \in Nat
      BY <1>1, <2>0, <2>8, ValuesFacts
    <3>2. D \subseteq Nat /\ D # {}
      BY <2>10, <3>1
    <3>3. PICK d \in D : \A c \in D : d <= c
      <4> HIDE DEF D
      <4> QED
        BY <3>2, LeastNatural
    <3>4. PICK u \in t : f[u] > 0 /\ d = e - u
      BY <3>3
    <3>5. \A v \in t : f[v] > 0 => e - u <= e - v
      BY <3>3, <3>4
    <3> QED
      BY <1>1, <3>1, <3>4, <3>5
  <2> DEFINE s == {v \in t : v <= u}
             z == {v \in t : ~ (v <= u)}
             b == {v \in Values : v <= u}
  <2>12. /\ s \subseteq Values /\ z \subseteq Values /\ s \cap z = {} /\ t = s \cup z
         /\ s \subseteq b /\ b \subseteq Values
    BY <2>0
  <2>13. ~ \E v \in z : f[v] > 0
    BY <2>11
  <2>14. Below(f, u) = SumFunctionOnSet(f, b) /\ u \in Values
    BY <2>0 DEF Below
  <2> HIDE DEF s, z, b
  <2>15. SumFunctionOnSet(f, s \cup z) = SumFunctionOnSet(f, s) + SumFunctionOnSet(f, z)
    BY <2>0, <2>12, PartSplit
  <2>16. /\ SumFunctionOnSet(f, s) \in Nat /\ SumFunctionOnSet(f, z) \in Nat
         /\ SumFunctionOnSet(f, b) \in Nat
    BY <2>0, <2>12, PartIsPartSums
  <2>17. ~ (SumFunctionOnSet(f, z) > 0)
    BY <2>0, <2>12, <2>13, PartPositive
  <2>18. SumFunctionOnSet(f, s) <= SumFunctionOnSet(f, b)
    BY <2>0, <2>12, PartMonotone
  <2>19. Below(f, u) >= r /\ Below(f, u) \in Nat
    BY <2>4, <2>3, <2>5, <2>9, <2>12, <2>14, <2>15, <2>16, <2>17, <2>18
  <2>20. Share(p, n, Below(f, u))
    <3> DEFINE k == p * n
    <3>1. k \in Int /\ r * 1000 >= k
      BY <2>3, <2>4 DEF Share
    <3> HIDE DEF k
    <3> QED
      BY <2>3, <2>4, <2>19, <3>1 DEF k, Share
  <2>21. e <= u
    BY <2>11, <2>14, <2>20 DEF IsExact, n
  <2>22. u < e /\ u \in Nat
    BY <2>8, <2>14, ValuesFacts
  <2> QED
    BY <1>1, <2>21, <2>22
<1> QED
  BY <1>2, <1>3

(* One that has a slot is the end of the slot of the sample it stands for.  *)
LEMMA SlotOfTheSample ==
  ASSUME NEW h, NEW f, Holds(h, f), h.count > 0,
         NEW p \in 0 .. 1000, ~RoundedUp(p, h.count),
         NEW e, IsExact(f, h.count, p, e), e <= MaxValue
  PROVE  Percentile(h, p) = SlotHigh(IndexOf(e))
<1> DEFINE reached == {i \in Slots : Running(h, i) >= Rank(p, h.count)}
           n == h.count
           r == Rank(p, n)
           j == IndexOf(e)
           b == {v \in Values : v <= e}
<1>0. f \in [Values -> Nat] /\ IsFiniteSet(Values)
  BY ValuesFacts DEF Holds
<1>1. e \in Values /\ f[e] > 0 /\ e \in Nat /\ MaxValue \in Nat
  BY ValuesFacts DEF IsExact
<1>2. j \in Slots /\ j \in Nat
  BY <1>1, SlotOfValue, ValuesFacts
<1>3. n \in Nat /\ n >= 1 /\ n = SumFunctionOnSet(f, Values)
  <2>1. n = SumFunctionOnSet(f, Values)
    BY DEF Holds
  <2>2. Values \subseteq Values
    OBVIOUS
  <2>3. SumFunctionOnSet(f, Values) \in Nat
    BY <1>0, <2>2, PartIsPartSums
  <2> QED
    BY <2>1, <2>3
<1>4. Below(f, e) \in 1 .. n /\ Share(p, n, Below(f, e))
  <2>1. Below(f, e) \in Nat /\ Below(f, e) <= n /\ Below(f, e) >= 1
    BY <1>0, <1>1, <1>3, BelowLaws
  <2> QED
    BY <1>3, <2>1 DEF IsExact
<1>5. r \in 1 .. n /\ r <= Below(f, e)
  <2> DEFINE k == Below(f, e)
  <2>1. k \in 1 .. n /\ Share(p, n, k)
    BY <1>4
  <2> HIDE DEF n, k
  <2>2. n \in Nat /\ n >= 1
    BY <1>3
  <2>5. ~RoundedUp(p, n)
    BY DEF n
  <2>3. r \in 1 .. n
    BY <2>2, RankReaches
  <2>4. r <= k
    BY <2>1, <2>2, <2>5, RankIsLeast
  <2> QED
    BY <2>3, <2>4 DEF k
<1>6. b \subseteq UpToSlot(j) /\ UpToSlot(j) \subseteq Values
  <2>1. UpToSlot(j) \subseteq Values
    BY DEF UpToSlot
  <2>2. ASSUME NEW v \in Values, v <= e
        PROVE  v <= MaxValue /\ IndexOf(v) <= j
    <3>1. v \in Nat
      BY ValuesFacts
    <3>2. v <= MaxValue
      BY <1>1, <2>2, <3>1
    <3> QED
      BY <1>1, <2>2, <3>1, <3>2, IndexMonotone
  <2> QED
    BY <2>1, <2>2 DEF UpToSlot
<1>7. Below(f, e) = SumFunctionOnSet(f, b)
  BY DEF Below
<1>8. SumFunctionOnSet(f, b) <= SumFunctionOnSet(f, UpToSlot(j))
  <2> HIDE DEF b, j
  <2> QED
    BY <1>0, <1>6, PartMonotone
<1>9. SumFunctionOnSet(f, UpToSlot(j)) \in Nat
  BY <1>0, <1>6, PartIsPartSums
<1>10. Running(h, j) = SumFunctionOnSet(f, UpToSlot(j))
  BY <1>2, RunningCounts
<1>11. j \in reached
  <2> HIDE DEF b, j, n
  <2>1. Running(h, j) >= r
    BY <1>3, <1>4, <1>5, <1>7, <1>8, <1>9, <1>10
  <2> QED
    BY <1>2, <2>1 DEF n
<1>12. PICK i \in reached : (\A k \in reached : i <= k) /\ Percentile(h, p) = SlotHigh(i)
  BY <1>11, SlotTaken
<1>13. i <= j /\ i \in Slots /\ i \in Nat
  BY <1>11, <1>12, ValuesFacts
<1>14. SlotHigh(i) >= e
  BY <1>12, NotBelow
<1>15. ~ (j > i)
  <2>1. SlotHigh(i) \in Nat
    BY <1>13, SlotsMeet
  <2> QED
    BY <1>1, <1>13, <1>14, <2>1, PastTheSlot
<1> QED
  BY <1>2, <1>12, <1>13, <1>15

-----------------------------------------------------------------------------
(* The run.                                                                 *)

(* The samples of the first m workers, by length, and by worker.            *)
Gathered(t, m) == [v \in Values |-> Sum([w \in All |-> IF w <= m THEN t[w][v] ELSE 0])]
CountOf(t, m) == Sum([w \in All |-> IF w <= m THEN Sum(t[w]) ELSE 0])

(* Every worker's histogram is that of its samples, and the run's that of   *)
(* the samples of the workers that were merged.                             *)
Books(t, o, m, r) ==
  /\ \A w \in All : Holds(o[w], t[w])
  /\ Holds(r, Gathered(t, m))
  /\ r.count = CountOf(t, m)

IHist ==
  /\ taken \in [All -> [Values -> Nat]] /\ own = [w \in All |-> own[w]]
  /\ merged \in 0 .. Workers /\ stopped \in BOOLEAN
  /\ merged > 0 => stopped
  /\ Books(taken, own, merged, run)
  /\ summary # <<>> => merged = Workers /\ summary = SummaryOf(run)

(* Priming reaches the arguments.                                           *)
LEMMA BooksNext ==
  /\ Books(taken, own, merged, run)' <=> Books(taken', own', merged', run')
  /\ SummaryOf(run)' = SummaryOf(run')
OBVIOUS

(* The assumptions, in the form the proofs use them.                        *)
LEMMA WorkersFacts ==
  /\ Workers \in Nat \ {0} /\ IsFiniteSet(All) /\ All = 1 .. Workers /\ All \subseteq Nat
  /\ Values \subseteq Nat /\ IsFiniteSet(Values)
  /\ \A n \in Batches : n \in Nat \ {0}
<1>1. Workers \in Nat \ {0}
  BY HistogramAssumption
<1>2. IsFiniteSet(1 .. Workers)
  BY <1>1, FS_Interval
<1> QED
  BY <1>1, <1>2, HistogramAssumption DEF All

(* The sums of the workers' samples, one worker after the other.            *)
LEMMA GatheredLaws ==
  ASSUME NEW t \in [All -> [Values -> Nat]], NEW m \in 0 .. Workers
  PROVE  /\ Gathered(t, m) \in [Values -> Nat] /\ CountOf(t, m) \in Nat
         /\ m = 0 => CountOf(t, m) = 0 /\ \A v \in Values : Gathered(t, m)[v] = 0
         /\ m < Workers =>
              /\ \A v \in Values : Gathered(t, m + 1)[v] = Gathered(t, m)[v] + t[m + 1][v]
              /\ CountOf(t, m + 1) = CountOf(t, m) + Sum(t[m + 1])
         /\ m = Workers =>
              /\ \A v \in Values : Gathered(t, m)[v] = SumFunction([w \in All |-> t[w][v]])
              /\ CountOf(t, m) = SamplesOf(t)
<1>1. IsFiniteSet(All) /\ All \subseteq Nat /\ IsFiniteSet(Values) /\ m \in Nat
  BY WorkersFacts
<1>2. \A f \in [All -> Nat] :
        LET g == [w \in All |-> IF w <= m THEN f[w] ELSE 0]
        IN  /\ g \in [All -> Nat]
            /\ Sum(g) \in Nat
            /\ m = 0 => Sum(g) = 0
            /\ m < Workers => Sum([w \in All |-> IF w <= m + 1 THEN f[w] ELSE 0])
                                = Sum(g) + f[m + 1]
            /\ m = Workers => Sum(g) = Sum(f)
  <2> SUFFICES ASSUME NEW f \in [All -> Nat]
               PROVE LET g == [w \in All |-> IF w <= m THEN f[w] ELSE 0]
        IN  /\ g \in [All -> Nat]
            /\ Sum(g) \in Nat
            /\ m = 0 => Sum(g) = 0
            /\ m < Workers => Sum([w \in All |-> IF w <= m + 1 THEN f[w] ELSE 0])
                                = Sum(g) + f[m + 1]
            /\ m = Workers => Sum(g) = Sum(f)
    OBVIOUS
  <2> DEFINE g == [w \in All |-> IF w <= m THEN f[w] ELSE 0]
  <2>1. g \in [All -> Nat]
    OBVIOUS
  <2>2. m = 0 => \A w \in All : g[w] = 0
    BY WorkersFacts
  <2>3. m = Workers => g = f
    <3>1. m = Workers => \A w \in All : g[w] = f[w]
      BY WorkersFacts
    <3> HIDE DEF g
    <3> QED
      BY <2>1, <3>1
  <2>4. m < Workers => Sum([w \in All |-> IF w <= m + 1 THEN f[w] ELSE 0])
                                = Sum(g) + f[m + 1]
    <3> SUFFICES ASSUME m < Workers
                 PROVE  Sum([w \in All |-> IF w <= m + 1 THEN f[w] ELSE 0])
                                = Sum(g) + f[m + 1]
      OBVIOUS
    <3>1. m + 1 \in All
      BY WorkersFacts
    <3> QED
      BY <1>1, <3>1, SumUpToNext
  <2> HIDE DEF g
  <2>5. Sum(g) \in Nat
    BY <1>1, <2>1, SumIsNatural
  <2>6. m = 0 => Sum(g) = 0
    BY <1>1, <2>1, <2>2, SumOfZeros
  <2> QED
    BY <2>1, <2>3, <2>4, <2>5, <2>6 DEF g
<1>3. ASSUME NEW v \in Values
      PROVE  /\ Gathered(t, m)[v] \in Nat
             /\ m = 0 => Gathered(t, m)[v] = 0
             /\ m < Workers => Gathered(t, m + 1)[v] = Gathered(t, m)[v] + t[m + 1][v]
             /\ m = Workers => Gathered(t, m)[v] = SumFunction([w \in All |-> t[w][v]])
  <2> DEFINE f == [w \in All |-> t[w][v]]
  <2>1. f \in [All -> Nat] /\ DOMAIN f = All
    OBVIOUS
  <2>2. /\ [w \in All |-> IF w <= m THEN f[w] ELSE 0]
             = [w \in All |-> IF w <= m THEN t[w][v] ELSE 0]
        /\ [w \in All |-> IF w <= m + 1 THEN f[w] ELSE 0]
             = [w \in All |-> IF w <= m + 1 THEN t[w][v] ELSE 0]
    OBVIOUS
  <2>3. SumFunction([w \in All |-> t[w][v]]) = Sum(f)
    BY SumIsSumFunction
  <2>4. m < Workers => f[m + 1] = t[m + 1][v]
    BY WorkersFacts
  <2> HIDE DEF f
  <2>5. /\ Gathered(t, m)[v] = Sum([w \in All |-> IF w <= m THEN f[w] ELSE 0])
        /\ Gathered(t, m + 1)[v] = Sum([w \in All |-> IF w <= m + 1 THEN f[w] ELSE 0])
    BY <2>2 DEF Gathered
  <2>6. /\ Gathered(t, m)[v] \in Nat
        /\ m = 0 => Gathered(t, m)[v] = 0
        /\ m < Workers => Gathered(t, m + 1)[v] = Gathered(t, m)[v] + f[m + 1]
        /\ m = Workers => Gathered(t, m)[v] = Sum(f)
    BY <1>2, <2>1, <2>5
  <2> QED
    BY <2>3, <2>4, <2>6
<1>4. /\ CountOf(t, m) \in Nat
      /\ m = 0 => CountOf(t, m) = 0
      /\ m < Workers => CountOf(t, m + 1) = CountOf(t, m) + Sum(t[m + 1])
      /\ m = Workers => CountOf(t, m) = SamplesOf(t)
  <2> DEFINE f == [w \in All |-> Sum(t[w])]
  <2>1. f \in [All -> Nat] /\ DOMAIN f = All
    <3>1. \A w \in All : t[w] \in [Values -> Nat]
      OBVIOUS
    <3>2. \A w \in All : Sum(t[w]) \in Nat
      BY <1>1, <3>1, SumIsNatural
    <3> QED
      BY <3>2
  <2>2. /\ [w \in All |-> IF w <= m THEN f[w] ELSE 0]
             = [w \in All |-> IF w <= m THEN Sum(t[w]) ELSE 0]
        /\ [w \in All |-> IF w <= m + 1 THEN f[w] ELSE 0]
             = [w \in All |-> IF w <= m + 1 THEN Sum(t[w]) ELSE 0]
    OBVIOUS
  <2>3. SamplesOf(t) = Sum(f)
    <3>1. f = [w \in All |-> SumFunction(t[w])]
      BY SumIsSumFunction
    <3> HIDE DEF f
    <3> QED
      BY <3>1, SumIsSumFunction DEF SamplesOf
  <2>4. m < Workers => f[m + 1] = Sum(t[m + 1])
    BY WorkersFacts
  <2> HIDE DEF f
  <2>5. /\ CountOf(t, m) = Sum([w \in All |-> IF w <= m THEN f[w] ELSE 0])
        /\ CountOf(t, m + 1) = Sum([w \in All |-> IF w <= m + 1 THEN f[w] ELSE 0])
    BY <2>2 DEF CountOf
  <2>6. /\ CountOf(t, m) \in Nat
        /\ m = 0 => CountOf(t, m) = 0
        /\ m < Workers => CountOf(t, m + 1) = CountOf(t, m) + f[m + 1]
        /\ m = Workers => CountOf(t, m) = Sum(f)
    BY <1>2, <2>1, <2>5
  <2> QED
    BY <2>3, <2>4, <2>6
<1>5. Gathered(t, m) \in [Values -> Nat]
  <2>1. Gathered(t, m) = [v \in Values |-> Gathered(t, m)[v]]
    BY DEF Gathered
  <2> QED
    BY <1>3, <2>1
<1> QED
  BY <1>3, <1>4, <1>5

(* Nothing is recorded when a run starts.                                   *)
LEMMA InitHist == Init => IHist
<1> SUFFICES ASSUME Init PROVE IHist
  OBVIOUS
<1>1. taken \in [All -> [Values -> Nat]] /\ \A w \in All, v \in Values : taken[w][v] = 0
  BY DEF Init
<1>2. 0 \in 0 .. Workers
  BY WorkersFacts
<1>3. /\ Gathered(taken, 0) \in [Values -> Nat] /\ (\A v \in Values : Gathered(taken, 0)[v] = 0)
      /\ CountOf(taken, 0) = 0
  BY <1>1, <1>2, GatheredLaws
<1>4. \A w \in All : Holds(own[w], taken[w])
  <2> SUFFICES ASSUME NEW w \in All PROVE Holds(own[w], taken[w])
    OBVIOUS
  <2>1. taken[w] \in [Values -> Nat] /\ (\A v \in Values : taken[w][v] = 0) /\ own[w] = Empty
    BY <1>1 DEF Init
  <2> QED
    BY <2>1, EmptyHolds
<1>5. Holds(run, Gathered(taken, 0)) /\ run.count = 0
  <2>1. Holds(Empty, Gathered(taken, 0))
    BY <1>3, EmptyHolds
  <2> QED
    BY <2>1 DEF Init, Empty
<1>6. merged = 0 /\ stopped = FALSE /\ summary = <<>> /\ own = [w \in All |-> own[w]]
  BY DEF Init
<1>7. Books(taken, own, merged, run)
  BY <1>3, <1>4, <1>5, <1>6 DEF Books
<1>8. taken \in [All -> [Values -> Nat]] /\ merged \in 0 .. Workers /\ stopped \in BOOLEAN
  BY <1>1, <1>2, <1>6
<1>9. (merged > 0 => stopped)
      /\ (summary # <<>> => merged = Workers /\ summary = SummaryOf(run))
  BY <1>6
<1> QED
  BY <1>6, <1>7, <1>8, <1>9 DEF IHist

(* Every step keeps the books.                                              *)
LEMMA NextHist == IHist /\ [Next]_vars => IHist'
<1> SUFFICES ASSUME IHist, [Next]_vars PROVE IHist'
  OBVIOUS
<1> USE DEF IHist
<1>1. ASSUME NEW w \in All, NEW v \in Values, NEW n \in Batches, Measure(w, v, n)
      PROVE  IHist'
  <2>0. n \in Nat \ {0} /\ ~stopped /\ merged = 0 /\ 0 \in 0 .. Workers
    BY <1>1, WorkersFacts DEF Measure
  <2>1. /\ taken' = [taken EXCEPT ![w][v] = @ + n]
        /\ own' = [own EXCEPT ![w] = Record(@, v, n)]
        /\ UNCHANGED <<stopped, merged, run, summary>>
    BY <1>1 DEF Measure
  <2>2. /\ taken' \in [All -> [Values -> Nat]]
        /\ taken'[w] \in [Values -> Nat]
        /\ taken'[w][v] = taken[w][v] + n
        /\ \A u \in Values \ {v} : taken'[w][u] = taken[w][u]
        /\ \A x \in All \ {w} : taken'[x] = taken[x]
    BY <2>0, <2>1
  <2>3. /\ own' = [x \in All |-> own'[x]]
        /\ own'[w] = Record(own[w], v, n)
        /\ \A x \in All \ {w} : own'[x] = own[x]
    BY <2>1
  <2>4. Holds(Record(own[w], v, n), taken'[w])
    <3>1. Holds(own[w], taken[w])
      BY DEF Books
    <3> QED
      BY <2>0, <2>2, <3>1, RecordHolds
  <2>5. \A x \in All : Holds(own'[x], taken'[x])
    BY <2>2, <2>3, <2>4 DEF Books
  <2>6. Books(taken', own', merged', run')
    <3>1. /\ Gathered(taken, 0) \in [Values -> Nat] /\ CountOf(taken, 0) = 0
          /\ \A u \in Values : Gathered(taken, 0)[u] = 0
      BY <2>0, GatheredLaws
    <3>2. /\ Gathered(taken', 0) \in [Values -> Nat] /\ CountOf(taken', 0) = 0
          /\ \A u \in Values : Gathered(taken', 0)[u] = 0
      BY <2>0, <2>2, GatheredLaws
    <3>3. Gathered(taken', 0) = Gathered(taken, 0)
      BY <3>1, <3>2
    <3>4. Holds(run, Gathered(taken', 0)) /\ run.count = 0
      BY <2>0, <3>1, <3>3 DEF Books
    <3>5. run' = run /\ merged' = 0
      BY <2>0, <2>1
    <3> QED
      BY <2>5, <3>2, <3>4, <3>5 DEF Books
  <2>7. (summary # <<>> => merged = Workers /\ summary = SummaryOf(run))'
    BY <2>0, <2>1, WorkersFacts
  <2> QED
    BY <2>0, <2>1, <2>2, <2>3, <2>6, <2>7, BooksNext
<1>2. CASE JoinAll
  BY <1>2, BooksNext DEF JoinAll
<1>3. CASE MergeNext
  <2> DEFINE m == merged
             w == merged + 1
  <2>1. /\ stopped /\ m < Workers /\ m \in 0 .. Workers /\ w \in All /\ w = m + 1
        /\ w \in 0 .. Workers
        /\ run' = Merged(run, own[w]) /\ merged' = w
        /\ UNCHANGED <<taken, batches, own, stopped, summary>>
    BY <1>3, WorkersFacts DEF MergeNext
  <2>2. summary = <<>>
    BY <2>1, WorkersFacts
  <2> HIDE DEF w
  <2>3. /\ Gathered(taken, w) \in [Values -> Nat]
        /\ \A v \in Values : Gathered(taken, w)[v] = Gathered(taken, m)[v] + taken[w][v]
        /\ CountOf(taken, w) = CountOf(taken, m) + Sum(taken[w])
    BY <2>1, GatheredLaws
  <2>4. Holds(Merged(run, own[w]), Gathered(taken, w))
    <3>1. Holds(run, Gathered(taken, m)) /\ Holds(own[w], taken[w])
      BY <2>1 DEF Books
    <3> QED
      BY <2>3, <3>1, MergedHolds
  <2>5. own[w].count = Sum(taken[w])
    <3>1. own[w].count = SumFunctionOnSet(taken[w], Values) /\ DOMAIN taken[w] = Values
      BY <2>1 DEF Books, Holds
    <3> QED
      BY <3>1, SumIsSumFunction
  <2>6. Merged(run, own[w]).count = CountOf(taken, w)
    BY <2>3, <2>5 DEF Merged, Books
  <2>7. Books(taken', own', merged', run')
    BY <2>1, <2>4, <2>6 DEF Books
  <2>8. (own = [x \in All |-> own[x]])' /\ (taken \in [All -> [Values -> Nat]])'
    BY <2>1
  <2> QED
    BY <2>1, <2>2, <2>7, <2>8, BooksNext
<1>4. CASE SumUp
  BY <1>4, BooksNext DEF SumUp
<1>5. CASE UNCHANGED vars
  BY <1>5, BooksNext DEF vars
<1> QED
  BY <1>1, <1>2, <1>3, <1>4, <1>5 DEF Next

(* The inductive invariant.                                                 *)
LEMMA HistHolds == Spec => []IHist
  BY InitHist, NextHist, PTL DEF Spec

-----------------------------------------------------------------------------
(* The properties.                                                          *)

(* What the run holds when all have been merged, in the properties' words.  *)
LEMMA WholeRun ==
  ASSUME IHist, merged = Workers
  PROVE  LET f == [v \in Values |-> Of(v)]
         IN  /\ Holds(run, f)
             /\ run.count = SamplesOf(taken)
             /\ \A v \in Values : /\ v \in Recorded <=> f[v] > 0
                                  /\ UpTo(v) = Below(f, v)
<1> DEFINE f == [v \in Values |-> Of(v)]
           g == Gathered(taken, Workers)
<1>1. Workers \in 0 .. Workers /\ taken \in [All -> [Values -> Nat]]
  BY WorkersFacts DEF IHist
<1>2. /\ g \in [Values -> Nat]
      /\ \A v \in Values : g[v] = SumFunction([w \in All |-> taken[w][v]])
      /\ CountOf(taken, Workers) = SamplesOf(taken)
  BY <1>1, GatheredLaws
<1>3. g = f
  <2>1. \A v \in Values : g[v] = Of(v)
    BY <1>2 DEF Of
  <2> HIDE DEF g
  <2> QED
    BY <1>2, <2>1
<1>4. Holds(run, g) /\ run.count = CountOf(taken, Workers)
  BY DEF IHist, Books
<1>5. \A v \in Values : v \in Recorded <=> f[v] > 0
  BY DEF Recorded
<1>6. \A v \in Values : UpTo(v) = Below(f, v)
  BY DEF UpTo, Below
<1> QED
  BY <1>2, <1>3, <1>4, <1>5, <1>6

(* At the last merge the books are what RunIsTheUnion says.                 *)
LEMMA UnionHolds == IHist => RunIsTheUnion
<1> SUFFICES ASSUME IHist, merged = Workers PROVE RunIsTheUnion
  BY DEF RunIsTheUnion
<1> DEFINE f == [v \in Values |-> Of(v)]
<1>1. /\ Holds(run, f) /\ run.count = SamplesOf(taken)
      /\ \A v \in Values : v \in Recorded <=> f[v] > 0
  BY WholeRun
<1>2. Recorded \subseteq Values
  BY DEF Recorded
<1>3. \A v \in Recorded : v \in Nat
  BY <1>2, ValuesFacts
<1> HIDE DEF f
<1>4. \A i \in Slots : run.slots[i] = SumFunctionOnSet(f,
           {v \in Values : v <= MaxValue /\ SlotLow(i) <= v /\ v <= SlotHigh(i)})
  BY <1>1 DEF Holds, InSlot
<1>5. run.overflow = SumFunctionOnSet(f, {v \in Values : v > MaxValue})
  BY <1>1 DEF Holds, PastTheLayout
<1>6. Recorded # {} => run.max \in Recorded /\ \A v \in Recorded : v <= run.max
  <2> SUFFICES ASSUME Recorded # {}
               PROVE  run.max \in Recorded /\ \A v \in Recorded : v <= run.max
    OBVIOUS
  <2>1. \A v \in Recorded : v <= run.max
    BY <1>1, <1>2 DEF Holds
  <2>2. run.max = 0 \/ (run.max \in Values /\ f[run.max] > 0)
    BY <1>1 DEF Holds
  <2>3. PICK v \in Recorded : TRUE
    OBVIOUS
  <2>4. run.max = 0 => v = run.max
    BY <1>3, <2>1, <2>3
  <2> QED
    BY <1>1, <2>1, <2>2, <2>3, <2>4
<1> QED
  BY <1>1, <1>4, <1>5, <1>6 DEF RunIsTheUnion, f

(* A summary that has a ladder is one of a run with samples, and the exact  *)
(* percentiles of the properties are those of its histogram.                *)
LEMMA LadderOf ==
  ASSUME IHist, HasLadder
  PROVE  /\ merged = Workers /\ run.count > 0
         /\ summary.overflow = run.overflow
         /\ \A p \in Ladder :
              /\ summary.at[p] = Percentile(run, p)
              /\ IsExact([v \in Values |-> Of(v)], run.count, p, Exact(p))
<1> DEFINE f == [v \in Values |-> Of(v)]
           n == run.count
<1>1. merged = Workers /\ summary = SummaryOf(run) /\ summary # Absent
  BY DEF IHist, HasLadder
<1>2. /\ Holds(run, f) /\ n = SamplesOf(taken)
      /\ \A v \in Values : (v \in Recorded <=> f[v] > 0) /\ UpTo(v) = Below(f, v)
  BY <1>1, WholeRun
<1>3. n \in Nat
  <2>1. f \in [Values -> Nat] /\ n = SumFunctionOnSet(f, Values)
    BY <1>2 DEF Holds
  <2>2. IsFiniteSet(Values) /\ Values \subseteq Values
    BY ValuesFacts
  <2> HIDE DEF f
  <2> QED
    BY <2>1, <2>2, PartIsPartSums
<1>4. n > 0
  BY <1>1, <1>3 DEF SummaryOf
<1>5. summary = [samples |-> n, overflow |-> run.overflow, max |-> run.max,
                 at |-> [p \in Ladder |-> Percentile(run, p)]]
  BY <1>1, <1>4 DEF SummaryOf
<1> HIDE DEF f
<1>6. ASSUME NEW p \in Ladder
      PROVE  IsExact(f, n, p, Exact(p))
  <2> DEFINE enough == {v \in Recorded : UpTo(v) * 1000 >= p * SamplesOf(taken)}
  <2>1. p \in 0 .. 1000
    BY DEF Ladder
  <2>2. PICK e \in Values : IsExact(f, n, p, e)
    BY <1>2, <1>4, <2>1, ExactExists
  <2>3. \A v : v \in enough <=> v \in Values /\ f[v] > 0 /\ Share(p, n, Below(f, v))
    <3>1. Recorded \subseteq Values
      BY DEF Recorded
    <3> HIDE DEF n
    <3> QED
      BY <1>2, <3>1 DEF Share
  <2>4. Exact(p) = CHOOSE v \in enough : \A u \in enough : v <= u
    BY DEF Exact
  <2> HIDE DEF enough, n
  <2>5. e \in enough /\ \A u \in enough : e <= u
    BY <2>2, <2>3 DEF IsExact
  <2>6. Exact(p) \in enough /\ \A u \in enough : Exact(p) <= u
    BY <2>4, <2>5
  <2> QED
    BY <2>3, <2>6 DEF IsExact
<1> QED
  BY <1>1, <1>4, <1>5, <1>6 DEF f

(* NotBelow, for the summary.                                               *)
LEMMA UnderReportsNever == IHist => NeverUnderReports
<1> SUFFICES ASSUME IHist PROVE NeverUnderReports
  OBVIOUS
<1> DEFINE f == [v \in Values |-> Of(v)]
<1>1. ASSUME summary = Absent
      PROVE  Recorded = {}
  <2>1. summary # <<>>
    <3>1. DOMAIN summary = {"samples"}
      BY <1>1 DEF Absent
    <3>2. DOMAIN <<>> = {}
      OBVIOUS
    <3> QED
      BY <3>1, <3>2
  <2>2. merged = Workers /\ summary = SummaryOf(run)
    BY <2>1 DEF IHist
  <2>3. run.count = 0
    <3> SUFFICES ASSUME run.count # 0 PROVE FALSE
      OBVIOUS
    <3>1. summary.samples = run.count
      BY <2>2 DEF SummaryOf
    <3>2. summary.samples = 0
      BY <1>1 DEF Absent
    <3> QED
      BY <3>1, <3>2
  <2>4. Holds(run, f) /\ \A v \in Values : v \in Recorded <=> f[v] > 0
    BY <2>2, WholeRun
  <2> HIDE DEF f
  <2>5. f \in [Values -> Nat] /\ SumFunctionOnSet(f, Values) = 0
    BY <2>3, <2>4 DEF Holds
  <2>6. IsFiniteSet(Values) /\ Values \subseteq Values /\ Recorded \subseteq Values
    BY ValuesFacts DEF Recorded
  <2>7. ~ \E v \in Values : f[v] > 0
    <3>1. ~ (SumFunctionOnSet(f, Values) > 0)
      BY <2>5
    <3> QED
      BY <2>5, <2>6, <3>1, PartPositive
  <2> QED
    BY <2>4, <2>6, <2>7
<1>2. ASSUME HasLadder, NEW p \in Ladder
      PROVE  /\ summary.at[p] >= Exact(p)
             /\ Exact(p) > MaxValue => summary.overflow > 0
  <2>1. /\ merged = Workers /\ run.count > 0 /\ summary.overflow = run.overflow
        /\ summary.at[p] = Percentile(run, p)
        /\ IsExact(f, run.count, p, Exact(p))
    BY <1>2, LadderOf
  <2>2. Holds(run, f)
    BY <2>1, WholeRun
  <2>3. p \in 0 .. 1000
    BY DEF Ladder
  <2> HIDE DEF f
  <2>4. summary.at[p] >= Exact(p)
    BY <2>1, <2>2, <2>3, NotBelow
  <2>5. ASSUME Exact(p) > MaxValue
        PROVE  summary.overflow > 0
    <3>1. f \in [Values -> Nat] /\ run.overflow = SumFunctionOnSet(f, PastTheLayout)
      BY <2>2 DEF Holds
    <3>2. Exact(p) \in PastTheLayout /\ f[Exact(p)] > 0
      BY <2>1, <2>5 DEF IsExact, PastTheLayout
    <3>3. IsFiniteSet(Values) /\ PastTheLayout \subseteq Values
      BY ValuesFacts
    <3>4. SumFunctionOnSet(f, PastTheLayout) > 0
      BY <3>1, <3>2, <3>3, PartPositive
    <3> QED
      BY <2>1, <3>1, <3>4
  <2> QED
    BY <2>4, <2>5
<1> QED
  BY <1>1, <1>2 DEF NeverUnderReports

(* No rank of the ladder is one the doubles round up at this count.         *)
RanksAreExact ==
  \A p \in Ladder \cap RoundsUp : (p * SamplesOf(taken)) % 1000 # 0

(* SlotOfTheSample and SlotIsNarrow, for the summary.                       *)
LEMMA BiasBounded == IHist => (RanksAreExact => WithinTheBound)
<1> SUFFICES ASSUME IHist, RanksAreExact, HasLadder, NEW p \in Ladder, Exact(p) <= MaxValue
             PROVE  (summary.at[p] - Exact(p)) * SubBuckets <= Exact(p)
  BY DEF WithinTheBound
<1> DEFINE f == [v \in Values |-> Of(v)]
           e == Exact(p)
<1>1. /\ merged = Workers /\ run.count > 0
      /\ summary.at[p] = Percentile(run, p)
      /\ IsExact(f, run.count, p, e)
  BY LadderOf
<1>2. Holds(run, f) /\ run.count = SamplesOf(taken)
  BY <1>1, WholeRun
<1>3. p \in 0 .. 1000
  BY DEF Ladder
<1>4. ~RoundedUp(p, run.count)
  BY <1>2 DEF RanksAreExact, RoundedUp
<1> HIDE DEF f, e
<1>5. e \in Nat /\ e <= MaxValue
  BY <1>1, ValuesFacts DEF IsExact, e
<1>6. Percentile(run, p) = SlotHigh(IndexOf(e))
  BY <1>1, <1>2, <1>3, <1>4, <1>5, SlotOfTheSample, ZenonT(60)
<1>7. (SlotHigh(IndexOf(e)) - e) * SubBuckets <= e
  BY <1>5, SlotIsNarrow
<1> QED
  BY <1>1, <1>6, <1>7 DEF e

(* However the samples were spread over however many workers, and whatever  *)
(* the layout, the histogram of the run is that of all of them              *)
(* (histogram.cpp:43-55, the merges of closed_loop.cpp and open_loop.cpp).  *)
THEOREM RunIsAlwaysTheUnion == Spec => []RunIsTheUnion
  BY HistHolds, UnionHolds, PTL

(* No percentile of a summary is below the sample it stands for, and one    *)
(* above what the slots can hold is in a summary that says so               *)
(* (histogram.cpp:14-41, summary.cpp).                                      *)
THEOREM SummaryNeverUnderReports == Spec => []NeverUnderReports
  BY HistHolds, UnderReportsNever, PTL

(* Unless a rank is rounded up at this count of samples, which with the     *)
(* doubles is that of p99.9 at a multiple of a thousand, no percentile that *)
(* has a slot is too high by more than one part in SubBuckets               *)
(* (histogram.hpp:66-68, buckets.hpp).                                      *)
THEOREM BiasIsBounded == Spec => [](RanksAreExact => WithinTheBound)
  BY HistHolds, BiasBounded, PTL

(* A latency within the layout lies within the bounds of its own slot and   *)
(* of no other, and the slots leave no gap (buckets.hpp).                   *)
THEOREM SlotsPartition ==
  /\ \A v \in 0 .. MaxValue, i \in Nat :
       SlotLow(i) <= v /\ v <= SlotHigh(i) <=> i = IndexOf(v)
  /\ \A i \in Nat : SlotLow(i) <= SlotHigh(i) /\ SlotLow(i + 1) = SlotHigh(i) + 1
<1>1. ASSUME NEW v \in 0 .. MaxValue, NEW i \in Nat
      PROVE  SlotLow(i) <= v /\ v <= SlotHigh(i) <=> i = IndexOf(v)
  <2>1. v \in Nat /\ v <= MaxValue
    BY LayoutAssumption
  <2>2. SlotLow(IndexOf(v)) <= v /\ v <= SlotHigh(IndexOf(v))
    BY <2>1, WithinItsSlot
  <2>3. SlotLow(i) <= v /\ v <= SlotHigh(i) => i = IndexOf(v)
    BY <2>1, WithinNoOther
  <2> QED
    BY <2>2, <2>3
<1>2. ASSUME NEW i \in Nat
      PROVE  SlotLow(i) <= SlotHigh(i) /\ SlotLow(i + 1) = SlotHigh(i) + 1
  BY SlotsMeet
<1> QED
  BY <1>1, <1>2
=============================================================================
