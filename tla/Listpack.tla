------------------------------ MODULE Listpack ------------------------------
(***************************************************************************)
(* The listpack of listpack.cpp: a byte array that holds a list.           *)
(*                                                                         *)
(*    total bytes (4) | number of elements (2) | entry ... entry | 0xFF    *)
(*                                                                         *)
(* An entry is a header, a payload and the length of the two written       *)
(* backwards, so that the list can be walked from either end.              *)
(*                                                                         *)
(* A listpack is a record: `bytes' and `num' are the two header fields,    *)
(* `mem' the bytes of headers, integers and backward lengths by their      *)
(* offset, `str' the texts by the offset of their first byte (their other  *)
(* bytes are left out, so texts of thousands of bytes cost nothing).       *)
(* A pointer is an offset, NULL, or Abort: an assert failed on the way.    *)
(***************************************************************************)
EXTENDS Integers, Sequences, SequencesExt

CONSTANT NumUnknown    \* LP_HDR_NUMELE_UNKNOWN: 65535 in the code

ASSUME NumUnknownAssumption == NumUnknown \in Nat \ {0}

NULL == -1
Abort == -2

LP_HEADER_SIZE == 6
LP_EOF == 255

(***************************************************************************)
(* Texts.  A text is its first characters and its length; a character is a *)
(* digit 0..9, Minus, or any larger number.  The texts of fewer than 21    *)
(* characters, the only ones that can be integers, are given in full.      *)
(***************************************************************************)
Minus == 10
MAX_LONG_INT_STR_LEN == 21

Text(chars) == [head |-> chars, len |-> Len(chars)]
LongText(char, len) == [head |-> <<char>>, len |-> len]
EmptyText == Text(<<>>)

(***************************************************************************)
(* 64-bit integers: eight bytes, least significant first, in two's         *)
(* complement.  The magnitude of a text of up to 20 digits takes nine.     *)
(***************************************************************************)
TimesTenPlus(v, d) ==
  LET carry[i \in 0 .. Len(v)] ==
        IF i = 0 THEN d ELSE (v[i] * 10 + carry[i - 1]) \div 256
      wide == [i \in 1 .. Len(v) |-> (v[i] * 10 + carry[i - 1]) % 256]
  IN SubSeq(wide, 1, Len(v))

Negated(v) ==
  [i \in 1 .. Len(v) |->
     IF \E j \in 1 .. i - 1 : v[j] # 0 THEN 255 - v[i] ELSE (256 - v[i]) % 256]

Negative(v) == v[8] >= 128

DivTen(v) ==
  LET rem[i \in 1 .. Len(v) + 1] ==
        IF i = Len(v) + 1 THEN 0 ELSE (rem[i + 1] * 256 + v[i]) % 10
      quotient == [i \in 1 .. Len(v) |-> (rem[i + 1] * 256 + v[i]) \div 10]
  IN [quotient |-> SubSeq(quotient, 1, Len(v)), digit |-> rem[1]]

Magnitude(digits) ==
  LET read[k \in 0 .. Len(digits)] ==
        IF k = 0 THEN [i \in 1 .. 9 |-> 0] ELSE TimesTenPlus(read[k - 1], digits[k])
  IN read[Len(digits)]

LeastInt64 == [i \in 1 .. 8 |-> IF i = 8 THEN 128 ELSE 0]

\* The digits of t, behind its sign, are the canonical form of an integer.
Canonical(t, digits) ==
  /\ t.len \in 1 .. MAX_LONG_INT_STR_LEN - 1
  /\ digits # <<>>
  /\ \A i \in 1 .. Len(digits) : digits[i] \in 0 .. 9
  /\ digits[1] # 0 \/ t.head = <<0>>

\* What lpStringToInt64 finds: `ok' when the text is the canonical decimal
\* form of an integer of 64 bits.
Signed(neg, mag) ==
  LET v == SubSeq(mag, 1, 8)
  IN [ok |-> mag[9] = 0 /\ (~Negative(v) \/ (neg /\ v = LeastInt64)),
      v  |-> IF neg THEN Negated(v) ELSE v]

lpStringToInt64(t) ==
  LET neg    == t.len > 0 /\ t.head[1] = Minus
      digits == IF neg THEN Tail(t.head) ELSE t.head
  IN IF Canonical(t, digits) THEN Signed(neg, Magnitude(digits)) ELSE [ok |-> FALSE]

\* std::to_string of a 64-bit integer.
Digits[m \in Seq(0 .. 255)] ==
  LET d == DivTen(m)
  IN IF \A i \in 1 .. 8 : d.quotient[i] = 0 THEN <<d.digit>>
     ELSE Append(Digits[d.quotient], d.digit)

to_string(v) ==
  Text(IF Negative(v) THEN <<Minus>> \o Digits[Negated(v)] ELSE Digits[v])

(***************************************************************************)
(* Encoding.                                                               *)
(***************************************************************************)
\* The bytes of v above the first k repeat its sign, which is the top bit
\* of the k-th.
FitsBytes(v, k) ==
  \A i \in k + 1 .. 8 : v[i] = IF v[k] >= 128 THEN 255 ELSE 0

Fits13Bits(v) ==
  /\ FitsBytes(v, 2)
  /\ v[2] < 16 \/ v[2] >= 240

\* Mutant: 13 bits are taken for 4096 to 8191 too.
Encode13BitsUnsigned(v) ==
  CASE FitsBytes(v, 2) /\ v[2] = 0 /\ v[1] < 128 -> <<v[1]>>
    [] FitsBytes(v, 2) /\ v[2] < 32 /\ ~(v[2] = 0 /\ v[1] < 128) -> <<192 + v[2], v[1]>>
    [] FitsBytes(v, 2) /\ v[2] >= 32          -> <<241>> \o SubSeq(v, 1, 2)
    [] FitsBytes(v, 3) /\ ~FitsBytes(v, 2)    -> <<242>> \o SubSeq(v, 1, 3)
    [] FitsBytes(v, 4) /\ ~FitsBytes(v, 3)    -> <<243>> \o SubSeq(v, 1, 4)
    [] OTHER                                  -> <<244>> \o v

lpEncodeIntegerGetType(v) ==
  CASE FitsBytes(v, 2) /\ v[2] = 0 /\ v[1] < 128 -> <<v[1]>>
    [] Fits13Bits(v) /\ ~(v[2] = 0 /\ v[1] < 128) -> <<192 + (v[2] % 32), v[1]>>
    [] FitsBytes(v, 2) /\ ~Fits13Bits(v)      -> <<241>> \o SubSeq(v, 1, 2)
    [] FitsBytes(v, 3) /\ ~FitsBytes(v, 2)    -> <<242>> \o SubSeq(v, 1, 3)
    [] FitsBytes(v, 4) /\ ~FitsBytes(v, 3)    -> <<243>> \o SubSeq(v, 1, 4)
    [] OTHER                                  -> <<244>> \o v

LittleEndian(n, k) == [i \in 1 .. k |-> (n \div 256 ^ (i - 1)) % 256]

\* The header lpEncodeString writes in front of a text of this length.
lpEncodeString(len) ==
  CASE len < 64                   -> <<128 + len>>
    [] len >= 64 /\ len < 4096    -> <<224 + (len \div 256), len % 256>>
    [] len >= 4096                -> <<240>> \o LittleEndian(len, 4)

lpEncodeBacklenBytes(l) ==
  CASE l <= 127                         -> 1
    [] l > 127 /\ l < 16383             -> 2
    [] l >= 16383 /\ l < 2097151        -> 3
    [] l >= 2097151 /\ l < 268435455    -> 4
    [] l >= 268435455                   -> 5

\* Seven bits a byte, most significant first; all but the first are marked.
lpEncodeBacklen(l) ==
  LET k == lpEncodeBacklenBytes(l)
  IN [i \in 1 .. k |-> IF i = 1 THEN l \div 128 ^ (k - 1)
                       ELSE ((l \div 128 ^ (k - i)) % 128) + 128]

\* lpEncodeGetType: the bytes of the element, integer or header of a text,
\* the text that follows them if any, and the length of the whole encoding.
lpEncodeGetType(t) ==
  LET int == lpStringToInt64(t)
  IN IF int.ok
     THEN LET code == lpEncodeIntegerGetType(int.v)
          IN [code |-> code, isInt |-> TRUE, enclen |-> Len(code)]
     ELSE LET code == lpEncodeString(t.len)
          IN [code |-> code, isInt |-> FALSE, enclen |-> Len(code) + t.len]

(***************************************************************************)
(* Reading.  A byte that belongs to a text reads as some letter.           *)
(***************************************************************************)
Letter == 120

ByteAt(lp, p) == IF p \in DOMAIN lp.mem THEN lp.mem[p] ELSE Letter

Is7BitUint(b) == b < 128
Is6BitStr(b)  == b \in 128 .. 191
Is13BitInt(b) == b \in 192 .. 223
Is12BitStr(b) == b \in 224 .. 239
Is32BitStr(b) == b = 240
IsWholeInt(b) == b \in 241 .. 244          \* 16, 24, 32 and 64 bits
WholeIntBytes(b) == IF b = 244 THEN 8 ELSE b - 239

StrLen(lp, p) ==
  LET b == ByteAt(lp, p)
  IN CASE Is6BitStr(b)  -> b - 128
       [] Is12BitStr(b) -> (b % 16) * 256 + ByteAt(lp, p + 1)
       [] Is32BitStr(b) -> ByteAt(lp, p + 1) + 256 * (ByteAt(lp, p + 2)
                             + 256 * (ByteAt(lp, p + 3) + 256 * ByteAt(lp, p + 4)))

\* Bytes of header and payload of the entry at p.
lpCurrentEncodedSizeUnsafe(lp, p) ==
  LET b == ByteAt(lp, p)
  IN CASE Is7BitUint(b) -> 1
       [] Is13BitInt(b) -> 2
       [] IsWholeInt(b) -> 1 + WholeIntBytes(b)
       [] Is6BitStr(b)  -> 1 + StrLen(lp, p)
       [] Is12BitStr(b) -> 2 + StrLen(lp, p)
       [] Is32BitStr(b) -> 5 + StrLen(lp, p)
       [] b = LP_EOF    -> 1
       [] OTHER         -> 0

\* Mutant: the case of the long texts is missing too.
HeaderWithoutLongTexts(lp, p) ==
  LET b == ByteAt(lp, p)
  IN CASE Is12BitStr(b)             -> 2
       [] b \in {240} \cup 244 .. LP_EOF - 1 -> 0
       [] OTHER                     -> 1

\* Bytes of the header alone; the 64-bit integer (0xF4) has no case.
lpCurrentEncodedSizeBytes(lp, p) ==
  LET b == ByteAt(lp, p)
  IN CASE Is12BitStr(b)             -> 2
       [] Is32BitStr(b)             -> 5
       [] b \in 244 .. LP_EOF - 1   -> 0
       [] OTHER                     -> 1

\* The number whose last byte is at p; UINT64_MAX stands as NULL.
lpDecodeBacklen(lp, p) ==
  LET marked(k) == ByteAt(lp, p - k) >= 128
      value[k \in 0 .. 4] ==
        LET low == (ByteAt(lp, p - k) % 128) * 128 ^ k
        IN CASE ~marked(k)           -> low
             [] marked(k) /\ k = 4   -> NULL
             [] marked(k) /\ k < 4   -> IF value[k + 1] = NULL THEN NULL
                                        ELSE low + value[k + 1]
  IN value[0]

IS_OUT_OF_RANGE(lp, p) == p < LP_HEADER_SIZE \/ p > lp.bytes - 1

WithBacklen(size) == size + lpEncodeBacklenBytes(size)

EntryLen(lp, p) == WithBacklen(lpCurrentEncodedSizeUnsafe(lp, p))

\* The entry at p, of a header of `header' bytes and `size' bytes in all, is
\* within the listpack and its backward length says the same.
WellFormed(lp, p, header, size) ==
  /\ header # 0
  /\ ~IS_OUT_OF_RANGE(lp, p + header)
  /\ ~IS_OUT_OF_RANGE(lp, p + WithBacklen(size))
  /\ lpDecodeBacklen(lp, p + WithBacklen(size) - 1) = size

\* Does lpValidateNext accept the entry at p?
lpValidateNext(lp, p) ==
  /\ ~IS_OUT_OF_RANGE(lp, p)
  /\ \/ ByteAt(lp, p) = LP_EOF
     \/ WellFormed(lp, p, lpCurrentEncodedSizeBytes(lp, p), lpCurrentEncodedSizeUnsafe(lp, p))

\* lpAssertValidEntry: the pointer, if the entry it points to is accepted.
lpAssertValidEntry(lp, p) == IF lpValidateNext(lp, p) THEN p ELSE Abort

lpSkip(lp, p) == p + EntryLen(lp, p)

EntryAt(lp, q) ==
  IF IS_OUT_OF_RANGE(lp, q) \/ ByteAt(lp, q) = LP_EOF THEN NULL
  ELSE lpAssertValidEntry(lp, q)

\* A NULL pointer is returned as it is, and nothing follows an abort.
lpNext(lp, p) ==
  IF p \in {NULL, Abort} THEN p ELSE EntryAt(lp, lpSkip(lp, p))

\* Mutant: the backward length itself always counts as one byte.
PrevOneByteBacklen(lp, p) ==
  IF p \in {NULL, Abort} \/ p = LP_HEADER_SIZE
  THEN IF p = Abort THEN Abort ELSE NULL
  ELSE lpAssertValidEntry(lp, p - lpDecodeBacklen(lp, p - 1) - 1)

lpPrev(lp, p) ==
  IF p \in {NULL, Abort} \/ p = LP_HEADER_SIZE
  THEN IF p = Abort THEN Abort ELSE NULL
  ELSE LET prevlen == lpDecodeBacklen(lp, p - 1)
       IN lpAssertValidEntry(lp, p - prevlen - lpEncodeBacklenBytes(prevlen))

lpFirst(lp) ==
  IF ByteAt(lp, LP_HEADER_SIZE) = LP_EOF THEN NULL
  ELSE lpAssertValidEntry(lp, LP_HEADER_SIZE)

lpLast(lp) == lpPrev(lp, lp.bytes - 1)

\* n steps of lpNext, or of lpPrev, from p.
Forward(lp, p, n) ==
  LET go[q \in Int, k \in 0 .. n] == IF k = 0 THEN q ELSE go[lpNext(lp, q), k - 1]
  IN go[p, n]

Backward(lp, p, n) ==
  LET go[q \in Int, k \in 0 .. n] == IF k = 0 THEN q ELSE go[lpPrev(lp, q), k - 1]
  IN go[p, n]

\* An index in the second half of a known length is reached from the end,
\* and so is a negative one of an unknown length.
lpSeek(lp, index) ==
  LET known    == lp.num # NumUnknown
      i        == IF known /\ index < 0 THEN lp.num + index ELSE index
      outside  == known /\ (i < 0 \/ i >= lp.num)
      backward == IF known THEN i > lp.num \div 2 ELSE i < 0
  IN CASE outside               -> NULL
       [] ~outside /\ backward  ->
            Backward(lp, lpLast(lp), IF known THEN lp.num - i - 1 ELSE -i - 1)
       [] ~outside /\ ~backward -> Forward(lp, lpFirst(lp), i)

\* The number of entries lpNext visits from the first on, or Abort.
Counted(lp) ==
  LET from[p \in Int] ==
        IF p \in {NULL, Abort} THEN (IF p = NULL THEN 0 ELSE Abort)
        ELSE LET rest == from[lpNext(lp, p)]
             IN IF rest = Abort THEN Abort ELSE rest + 1
  IN from[lpFirst(lp)]

\* The length returned; a length counted below the limit is written back.
Length(lp, n) ==
  [len |-> n,
   lp  |-> IF n # Abort /\ n < NumUnknown THEN [lp EXCEPT !.num = n] ELSE lp]

lpLength(lp) == Length(lp, IF lp.num # NumUnknown THEN lp.num ELSE Counted(lp))

\* The string the handlers make of the entry at p with lpGetWithSize.
lpGetWithSize(lp, p) ==
  LET b      == ByteAt(lp, p)
      bytes  == CASE Is7BitUint(b) -> <<b>>
                  [] Is13BitInt(b) -> <<ByteAt(lp, p + 1),
                                        (b % 32) + (IF b % 32 >= 16 THEN 224 ELSE 0)>>
                  [] IsWholeInt(b) -> [i \in 1 .. WholeIntBytes(b) |-> ByteAt(lp, p + i)]
      filler == IF b >= 128 /\ bytes[Len(bytes)] >= 128 THEN 255 ELSE 0
      start  == CASE Is6BitStr(b)  -> p + 1
                  [] Is12BitStr(b) -> p + 2
                  [] Is32BitStr(b) -> p + 5
      len    == StrLen(lp, p)
  IN IF Is7BitUint(b) \/ Is13BitInt(b) \/ IsWholeInt(b)
     THEN to_string([i \in 1 .. 8 |-> IF i <= Len(bytes) THEN bytes[i] ELSE filler])
     ELSE CASE len = 0 -> EmptyText
            [] len > 0 /\ start \in DOMAIN lp.str -> [lp.str[start] EXCEPT !.len = len]
            [] OTHER -> LongText(Letter, len)

(***************************************************************************)
(* Changing.  The handlers insert before an entry and delete; they never   *)
(* insert after one or replace one.                                        *)
(***************************************************************************)
lpNew == [bytes |-> LP_HEADER_SIZE + 1, num |-> 0,
          mem |-> [p \in {LP_HEADER_SIZE} |-> LP_EOF], str |-> <<>>]

\* The two memmoves: `gone' cells at p make room for `width' new ones.
Spliced(f, p, gone, width, new) ==
  LET after == {o \in DOMAIN f : o >= p + gone}
  IN [o \in {x \in DOMAIN f : x < p} \cup {p + d : d \in DOMAIN new}
              \cup {x + width - gone : x \in after} |->
        CASE o < p                    -> f[o]
          [] o >= p /\ o < p + width  -> new[o - p]
          [] o >= p + width           -> f[o - width + gone]]

\* Text t, encoded as e and with its backward length, before p.
Inserted(lp, t, p, e, backlen) ==
  LET width   == e.enclen + Len(backlen)
      entry   == [d \in 0 .. Len(e.code) - 1 \cup e.enclen .. width - 1 |->
                    IF d < Len(e.code) THEN e.code[d + 1] ELSE backlen[d - e.enclen + 1]]
      payload == [d \in IF e.isInt \/ t.len = 0 THEN {} ELSE {Len(e.code)} |-> t]
  IN [bytes |-> lp.bytes + width,
      num   |-> IF lp.num = NumUnknown THEN lp.num ELSE lp.num + 1,
      mem   |-> Spliced(lp.mem, p, 0, width, entry),
      str   |-> Spliced(lp.str, p, 0, width, payload)]

\* lpInsert of a text before p.
lpInsert(lp, t, p) ==
  CHOOSE new \in {Inserted(lp, t, p, e, lpEncodeBacklen(e.enclen)) : e \in {lpEncodeGetType(t)}} : TRUE

lpAppend(lp, t) == lpInsert(lp, t, lp.bytes - 1)

\* (Never reached when lpFirst aborts.)
lpPrepend(lp, t) ==
  LET p == lpFirst(lp)
  IN IF p = NULL THEN lpAppend(lp, t) ELSE lpInsert(lp, t, p)

\* Mutant: the entry is taken out but still counted.
DeleteKeepsCount(lp, p) ==
  LET gone == EntryLen(lp, p)
  IN [lp EXCEPT !.bytes = @ - gone,
                !.mem = Spliced(@, p, gone, 0, <<>>),
                !.str = Spliced(@, p, gone, 0, <<>>)]

\* lpInsert without an element: the entry at p is taken out.
lpDelete(lp, p) ==
  LET gone == EntryLen(lp, p)
  IN [bytes |-> lp.bytes - gone,
      num   |-> IF lp.num = NumUnknown THEN lp.num ELSE lp.num - 1,
      mem   |-> Spliced(lp.mem, p, gone, 0, <<>>),
      str   |-> Spliced(lp.str, p, gone, 0, <<>>)]

(***************************************************************************)
(* The library's own check of a whole listpack.                            *)
(***************************************************************************)
\* Where lpValidateNext leads from the first entry, and after how many.
Validated(lp) ==
  LET from[p \in Nat] ==
        IF ~lpValidateNext(lp, p) THEN [end |-> NULL, count |-> 0]
        ELSE IF ByteAt(lp, p) = LP_EOF THEN [end |-> p, count |-> 0]
        ELSE [from[lpSkip(lp, p)] EXCEPT !.count = @ + 1]
  IN from[LP_HEADER_SIZE]

lpValidateIntegrity(lp, size) ==
  /\ size >= LP_HEADER_SIZE + 1
  /\ lp.bytes = size
  /\ ByteAt(lp, size - 1) = LP_EOF
  /\ LET walk == Validated(lp)
     IN /\ walk.end = size - 1
        /\ lp.num \in {NumUnknown, walk.count}
=============================================================================
