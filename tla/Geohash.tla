------------------------------- MODULE Geohash -------------------------------
(***************************************************************************)
(* The geohash of geohash.cpp: a longitude and a latitude become two cell  *)
(* numbers of Step bits, and their bits, interleaved, one score.  A word   *)
(* is the set of the positions of its bits.                                *)
(*                                                                         *)
(* Coordinates are integers, three to the sixth decimal that the server    *)
(* prints: Printed rounds to the nearest multiple of three, without ties.  *)
(***************************************************************************)
EXTENDS Integers, FiniteSets

CONSTANTS Step,                \* bits of a cell number: 26 in the code
          Width,               \* bits of a word: 64 in the code
          LonMax, LatMax       \* the greatest longitude and latitude allowed

ASSUME StepAssumption == Step \in 1 .. 26
ASSUME WidthAssumption == Width \in 2 * Step + 2 .. 64
ASSUME RangeAssumption == LonMax \in Nat \ {0} /\ LatMax \in Nat \ {0}

\* Mutant: a decimal too few.
PrintedCoarse(c) == 9 * ((c + 4) \div 9)

\* std::to_string of a double, and std::stod of the result.
Printed(c) == 3 * ((c + 1) \div 3)

\* The powers of two in a word.
Pow2[n \in 0 .. 63] == IF n = 0 THEN 1 ELSE 2 * Pow2[n - 1]

(***************************************************************************)
(* Words.                                                                  *)
(***************************************************************************)
Bits == 0 .. Width - 1

Shl(w, n) == {b + n : b \in w} \cap Bits
Shr(w, n) == {b - n : b \in w} \cap Bits

\* The masks B[k]: blocks of 2^k ones, every second one.
Mask(k) == {b \in Bits : (b \div Pow2[k]) % 2 = 0}

\* One line of interleave64 and one of deinterleave64.
Spread(w, k) == (w \cup Shl(w, Pow2[k])) \cap Mask(k)
Gather(w, k) == (w \cup Shr(w, Pow2[k - 1])) \cap Mask(k)

interleave64(xlo, ylo) ==
  LET spread(w) == Spread(Spread(Spread(Spread(Spread(w, 4), 3), 2), 1), 0)
  IN spread(xlo) \cup Shl(spread(ylo), 1)

\* The two halves that deinterleave64 returns in one word.
deinterleave64(w) ==
  LET gather(v) == Gather(Gather(Gather(Gather(Gather(v \cap Mask(0), 1), 2), 3), 4), 5)
  IN [low |-> gather(w), high |-> gather(Shr(w, 1))]

\* A number as a word: bit b is the parity after b halvings, and back, from
\* the highest bit down.
Word(n) ==
  LET half[b \in 0 .. Width] == IF b = 0 THEN n ELSE half[b - 1] \div 2
  IN {b \in Bits : half[b] % 2 = 1}

Value(w) ==
  LET top[k \in 0 .. Width] ==
        IF k = 0 THEN 0 ELSE 2 * top[k - 1] + (IF Width - k \in w THEN 1 ELSE 0)
  IN top[Width]

(***************************************************************************)
(* Encoding and decoding.                                                  *)
(***************************************************************************)
Allowed(lon, lat) == lon \in -LonMax .. LonMax /\ lat \in -LatMax .. LatMax

\* The cell of a coordinate; the greatest one is in a cell of its own, past
\* the last.
Cell(c, max) == ((c + max) * Pow2[Step]) \div (2 * max)

geoHashEncode(lon, lat) ==
  interleave64(Word(Cell(lat, LatMax)), Word(Cell(lon, LonMax)))

\* A double holds 2 * Step + 1 bits; a word with one more is rounded to even.
AsDouble(n) ==
  CASE n < Pow2[2 * Step + 1] \/ n % 2 = 0          -> n
    [] n >= Pow2[2 * Step + 1] /\ n % 4 = 1         -> n - 1
    [] n >= Pow2[2 * Step + 1] /\ n % 4 = 3         -> n + 1

GeoScore(lon, lat) == AsDouble(Value(geoHashEncode(lon, lat)))

\* Mutant: the halves are swapped.
DecodeSwapped(score) ==
  LET halves == deinterleave64(Word(score))
  IN [lon |-> Value(halves.low), lat |-> Value(halves.high)]

\* The cells whose centre is replied for a score.
geoHashDecode(score) ==
  LET halves == deinterleave64(Word(score))
  IN [lon |-> Value(halves.high), lat |-> Value(halves.low)]

CellsOf(lon, lat) == [lon |-> Cell(lon, LonMax), lat |-> Cell(lat, LatMax)]

\* calculateDistance is the length of an arc; only whether it is zero, and
\* that it grows with the cells between, is kept.
calculateDistance(a, b) ==
  LET diff(x, y) == IF x < y THEN y - x ELSE x - y
  IN diff(a.lon, b.lon) + diff(a.lat, b.lat)
=============================================================================
