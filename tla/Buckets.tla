------------------------------ MODULE Buckets ------------------------------
(***************************************************************************)
(* The layout of a latency histogram (src/stats/buckets.hpp): every value  *)
(* below SubBuckets is a slot of its own, and every power of two above it  *)
(* is cut into SubBuckets slots of equal width.                            *)
(***************************************************************************)
EXTENDS Integers

CONSTANTS
  SubBucketBits,   \* kSubBucketBits, 7 in the code
  MaxValue         \* kMaxValue, a minute in nanoseconds in the code

SubBuckets == 2 ^ SubBucketBits

ASSUME LayoutAssumption ==
  /\ SubBucketBits \in Nat /\ MaxValue \in Nat /\ MaxValue >= SubBuckets
  /\ \E m \in 0 .. 62 : MaxValue \div 2 < 2 ^ m   \* it is a 64-bit integer

(* floor(log2(value)).                                                      *)
Msb(value) == CHOOSE m \in 0 .. 62 : 2 ^ m <= value /\ value \div 2 < 2 ^ m

IndexOf(value) ==
  IF value < SubBuckets THEN value
  ELSE LET shift == Msb(value) - SubBucketBits
       IN  (shift + 1) * SubBuckets + (value \div 2 ^ shift - SubBuckets)

Slots == 0 .. IndexOf(MaxValue)

(* A slip: the octaves are counted from the exact values.                   *)
WidthOfNext(index) == 2 ^ (index \div SubBuckets)

(* A slot decoded: the width of its octave's slots and the leading bits.    *)
Width(index) == 2 ^ (index \div SubBuckets - 1)
Mantissa(index) == (index % SubBuckets) + SubBuckets

SlotLow(index) ==
  IF index < SubBuckets THEN index ELSE Mantissa(index) * Width(index)

SlotHigh(index) ==
  IF index < SubBuckets THEN index ELSE (Mantissa(index) + 1) * Width(index) - 1
=============================================================================
