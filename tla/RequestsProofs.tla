--------------------------- MODULE RequestsProofs ---------------------------
(* Invariants of Requests for any requests, any number of them and any     *)
(* reads.                                                                  *)
EXTENDS Requests, Induction, SequenceTheorems, FiniteSetTheorems, TLAPS

-----------------------------------------------------------------------------
(* Bytes.                                                                  *)

Bytes == Seq(Pieces)

LEMMA BytesAssociative ==
    ASSUME NEW a \in Bytes, NEW b \in Bytes, NEW c \in Bytes
    PROVE  (a \o b) \o c = a \o (b \o c)
  BY ConcatAssociative DEF Bytes

LEMMA PieceFacts ==
    /\ \A n \in Int : ArrayHeader(n) \in Pieces
    /\ BulkHeader \in Pieces /\ LineBreak \in Pieces
    /\ \A t \in STRING : Text(t) \in Pieces
    /\ \A n : ArrayHeader(n).kind = "array" /\ ArrayHeader(n).n = n
    /\ BulkHeader.kind = "bulk" /\ LineBreak.kind = "break"
    /\ \A t : Text(t).kind = "text"
  <1> DEFINE K == {"array", "bulk", "text", "break"}
             T == STRING \cup {NoText, ""}
  <1>1. NoText \in T /\ "" \in T /\ \A t \in STRING : t \in T
    OBVIOUS
  <1>2. "array" \in K /\ "bulk" \in K /\ "text" \in K /\ "break" \in K
    OBVIOUS
  <1>3. \A k \in K, n \in Int, t \in T : Piece(k, n, t) \in Pieces
    <2> TAKE k \in K, n \in Int, t \in T
    <2> HIDE DEF T, K
    <2>1. [kind |-> k, n |-> n, text |-> t] \in [kind : K, n : Int, text : T]
      OBVIOUS
    <2> QED
      BY <2>1, Zenon DEF Piece, Pieces, T, K
  <1> HIDE DEF T, K
  <1>4. /\ \A n \in Int : ArrayHeader(n) \in Pieces
        /\ \A t \in STRING : Text(t) \in Pieces
        /\ BulkHeader \in Pieces /\ LineBreak \in Pieces
    <2>1. 0 \in Int
      OBVIOUS
    <2> QED
      BY <1>1, <1>2, <1>3, <2>1, Zenon DEF ArrayHeader, Text, BulkHeader, LineBreak
  <1>5. /\ \A n : ArrayHeader(n).kind = "array" /\ ArrayHeader(n).n = n
        /\ \A t : Text(t).kind = "text"
        /\ BulkHeader.kind = "bulk" /\ LineBreak.kind = "break"
    BY DEF Piece, ArrayHeader, Text, BulkHeader, LineBreak
  <1> QED
    BY <1>4, <1>5

LEMMA DropFacts ==
    ASSUME NEW S, NEW b \in Seq(S), NEW k \in Nat
    PROVE  /\ Drop(b, k) \in Seq(S)
           /\ Len(Drop(b, k)) = IF k <= Len(b) THEN Len(b) - k ELSE 0
           /\ \A i \in 1 .. Len(b) - k : Drop(b, k)[i] = b[k + i]
  <1>1. Len(b) \in Nat /\ k + 1 \in Nat
    OBVIOUS
  <1>2. CASE k <= Len(b)
    BY <1>1, <1>2, SubSeqProperties DEF Drop
  <1>3. CASE ~(k <= Len(b))
    BY <1>1, <1>3, SubSeqProperties DEF Drop
  <1> QED
    BY <1>2, <1>3

\* Bytes at the beginning are dropped from the first part.
LEMMA DropConcat ==
    ASSUME NEW S, NEW a \in Seq(S), NEW b \in Seq(S), NEW k \in 0 .. Len(a)
    PROVE  Drop(a \o b, k) = Drop(a, k) \o b
  <1> DEFINE c == a \o b
             l == Drop(c, k)
             d == Drop(a, k)
             r == d \o b
  <1>0. Len(a) \in Nat /\ Len(b) \in Nat /\ k \in Nat /\ k <= Len(a)
    OBVIOUS
  <1>1. /\ c \in Seq(S) /\ Len(c) = Len(a) + Len(b)
        /\ \A i \in 1 .. Len(a) : c[i] = a[i]
        /\ \A i \in 1 .. Len(b) : c[Len(a) + i] = b[i]
    BY ConcatProperties
  <1>2. /\ d \in Seq(S) /\ Len(d) = Len(a) - k
        /\ \A i \in 1 .. Len(a) - k : d[i] = a[k + i]
    BY <1>0, DropFacts
  <1> HIDE DEF c, d
  <1>3. /\ l \in Seq(S) /\ Len(l) = Len(a) + Len(b) - k
        /\ \A i \in 1 .. Len(l) : l[i] = c[k + i]
    <2>1. k <= Len(c) /\ Len(c) - k = Len(a) + Len(b) - k
      BY <1>0, <1>1
    <2> QED
      BY <1>0, <1>1, <2>1, DropFacts
  <1>4. /\ r \in Seq(S) /\ Len(r) = Len(a) - k + Len(b)
        /\ \A i \in 1 .. Len(d) : r[i] = d[i]
        /\ \A i \in 1 .. Len(b) : r[Len(d) + i] = b[i]
    <2>0. d \in Seq(S) /\ Len(d) \in Nat
      BY <1>0, <1>2
    <2>1. /\ r \in Seq(S) /\ Len(r) = Len(d) + Len(b)
          /\ \A i \in 1 .. Len(d) : r[i] = d[i]
          /\ \A i \in 1 .. Len(b) : r[Len(d) + i] = b[i]
      BY <2>0, ConcatProperties
    <2> QED
      BY <1>2, <2>1
  <1> HIDE DEF l, r
  <1>5. Len(l) = Len(r)
    BY <1>0, <1>3, <1>4
  <1>6. ASSUME NEW i \in 1 .. Len(l) PROVE l[i] = r[i]
    <2>1. CASE i <= Len(a) - k
      <3>1. i \in 1 .. Len(d) /\ k + i \in 1 .. Len(a) /\ i \in 1 .. Len(a) - k
        BY <1>0, <1>2, <1>3, <2>1
      <3> QED
        BY <1>1, <1>2, <1>3, <1>4, <3>1
    <2>2. CASE i > Len(a) - k
      <3> DEFINE j == i - (Len(a) - k)
      <3>1. j \in 1 .. Len(b) /\ k + i = Len(a) + j /\ i = Len(d) + j
        BY <1>0, <1>2, <1>3, <2>2
      <3> HIDE DEF j
      <3> QED
        BY <1>1, <1>3, <1>4, <3>1
    <2> QED
      BY <1>0, <1>3, <2>1, <2>2
  <1>7. l = r
    BY <1>3, <1>4, <1>5, <1>6, SeqEqual
  <1> QED
    BY <1>7 DEF l, r, c, d

\* c is the end of b.
TailOf(c, b) ==
    /\ b \in Bytes /\ c \in Bytes /\ Len(c) <= Len(b)
    /\ \A i \in 1 .. Len(c) : c[i] = b[Len(b) - Len(c) + i]

LEMMA DropIsTail ==
    ASSUME NEW b \in Bytes, NEW k \in Nat
    PROVE  TailOf(Drop(b, k), b)
  <1> DEFINE d == Drop(b, k)
  <1>1. Len(b) \in Nat
    BY DEF Bytes
  <1>2. /\ d \in Bytes /\ Len(d) = IF k <= Len(b) THEN Len(b) - k ELSE 0
        /\ \A i \in 1 .. Len(b) - k : d[i] = b[k + i]
    BY DropFacts DEF Bytes
  <1> HIDE DEF d
  <1>3. Len(d) <= Len(b) /\ Len(d) \in Nat
    BY <1>1, <1>2
  <1>4. ASSUME NEW i \in 1 .. Len(d)
        PROVE  i \in 1 .. Len(b) - k /\ Len(b) - Len(d) + i = k + i
    <2>1. CASE k <= Len(b)
      BY <1>1, <1>2, <2>1
    <2>2. CASE ~(k <= Len(b))
      BY <1>1, <1>2, <2>2
    <2> QED
      BY <2>1, <2>2
  <1>5. TailOf(d, b)
    BY <1>2, <1>3, <1>4 DEF TailOf
  <1> QED
    BY <1>5 DEF d

LEMMA TailRefl ==
    ASSUME NEW b \in Bytes
    PROVE  TailOf(b, b) /\ TailOf(<<>>, b)
  <1>1. Len(b) \in Nat /\ <<>> \in Bytes /\ Len(<<>>) = 0
    BY DEF Bytes
  <1> QED
    BY <1>1 DEF TailOf

LEMMA TailTrans ==
    ASSUME NEW a, NEW b, NEW c, TailOf(b, a), TailOf(c, b)
    PROVE  TailOf(c, a)
  <1>1. Len(a) \in Nat /\ Len(b) \in Nat /\ Len(c) \in Nat
    BY DEF TailOf, Bytes
  <1>2. ASSUME NEW i \in 1 .. Len(c)
        PROVE  c[i] = a[Len(a) - Len(c) + i]
    <2> DEFINE j == Len(b) - Len(c) + i
    <2>1. j \in 1 .. Len(b) /\ Len(a) - Len(b) + j = Len(a) - Len(c) + i
      BY <1>1, <1>2 DEF TailOf
    <2>2. c[i] = b[j]
      BY <1>2 DEF TailOf
    <2>3. b[j] = a[Len(a) - Len(b) + j]
      BY <2>1 DEF TailOf
    <2> QED
      BY <2>1, <2>2, <2>3
  <1> QED
    BY <1>1, <1>2 DEF TailOf

-----------------------------------------------------------------------------
(* Tokens.                                                                 *)

LEMMA ParseIsToken ==
    ASSUME NEW b
    PROVE  Parse(b) = Token(b)
  <1>1. {Token(buffer) : buffer \in {b}} = {Token(b)}
    OBVIOUS
  <1> QED
    BY <1>1 DEF Parse, TheOne

\* The text of the bulk string at the start of b, cut off or not.
BulkText(b) == IF Len(b) > 2 THEN b[3].text ELSE ""

\* What a piece looks like has a kind and a number.
LEMMA LooksFacts ==
    ASSUME NEW p \in Pieces
    PROVE  /\ Looks(p).n \in Int /\ Looks(p).kind \in {"array", "bulk", "text", "break"}
           /\ p.kind \in {"array", "bulk"} => Looks(p) = p
           /\ ~Opening(p) => Looks(p) = p
           /\ Opening(p) => Looks(p).kind \in {"array", "bulk"}
  <1>1. CASE Opening(p)
    <2>1. Opens[p.text] \in Pieces /\ Opens[p.text].kind \in {"array", "bulk"}
      BY <1>1, OpensAssumption DEF Opening
    <2> QED
      BY <1>1, <2>1 DEF Looks, Opening, Pieces
  <1>2. CASE ~Opening(p)
    BY <1>2 DEF Looks, Pieces
  <1> QED
    BY <1>1, <1>2

LEMMA FirstPiece ==
    ASSUME NEW b \in Bytes, b # <<>>
    PROVE  /\ Len(b) \in Nat /\ Len(b) >= 1 /\ b[1] \in Pieces
           /\ Looks(b[1]).n \in Int
           /\ Looks(b[1]).kind \in {"array", "bulk", "text", "break"}
           /\ b[1].kind \in {"array", "bulk", "text", "break"}
           /\ Head(b) = b[1]
  <1>1. Len(b) \in Nat /\ Len(b) >= 1 /\ Head(b) = b[1]
    BY DEF Bytes
  <1>2. b[1] \in Pieces
    BY <1>1 DEF Bytes
  <1> QED
    BY <1>1, <1>2, LooksFacts DEF Pieces

LEMMA TextEndFacts ==
    ASSUME NEW b
    PROVE  TextEnd(b) \in {2, 3}
  BY DEF TextEnd

\* What Parse makes of the three kinds of beginnings.
LEMMA TokenFacts ==
    ASSUME NEW b \in Bytes
    PROVE  /\ b # <<>> /\ Looks(b[1]).kind = "array" =>
                /\ Parse(b).type = "ARRAY" /\ Parse(b).n = Looks(b[1]).n
                /\ Parse(b).text = NoText /\ Parse(b).rest = Drop(b, 2)
           /\ b # <<>> /\ Looks(b[1]).kind = "bulk" =>
                /\ Parse(b).type = "BULK_STRING" /\ Parse(b).n = 0
                /\ Parse(b).text = BulkText(b)
                /\ Parse(b).rest = Drop(b, TextEnd(b) + 1)
           /\ (b # <<>> => Looks(b[1]).kind \notin {"array", "bulk"}) =>
                /\ Parse(b).type = "UNKNOWN" /\ Parse(b).n = 0
                /\ Parse(b).text = NoText /\ Parse(b).rest = b
  <1>1. Parse(b) = Token(b)
    BY ParseIsToken
  <1>2. Head(b) = b[1]
    OBVIOUS
  <1>3. CASE b = <<>>
    BY <1>1, <1>3 DEF Token
  <1>4. CASE b # <<>> /\ Looks(b[1]).kind = "array"
    <2>1. Token(b) = [type |-> "ARRAY", n |-> Looks(b[1]).n, text |-> NoText,
                      rest |-> Drop(b, 2)]
      BY <1>2, <1>4 DEF Token
    <2> QED
      BY <1>1, <1>4, <2>1
  <1>5. CASE b # <<>> /\ Looks(b[1]).kind = "bulk"
    <2>1. Token(b) = [type |-> "BULK_STRING", n |-> 0,
                      text |-> BulkText(b), rest |-> Drop(b, TextEnd(b) + 1)]
      BY <1>2, <1>5 DEF Token, BulkText
    <2> QED
      BY <1>1, <1>5, <2>1
  <1>6. CASE b # <<>> /\ Looks(b[1]).kind \notin {"array", "bulk"}
    <2>1. Token(b) = [type |-> "UNKNOWN", n |-> 0, text |-> NoText, rest |-> b]
      BY <1>2, <1>6 DEF Token
    <2> QED
      BY <1>1, <1>6, <2>1
  <1> QED
    BY <1>3, <1>4, <1>5, <1>6

\* A token moves the position towards the end, and its number is one.
LEMMA ParseIsTail ==
    ASSUME NEW b \in Bytes
    PROVE  TailOf(Parse(b).rest, b) /\ Parse(b).n \in Int
  <1>1. CASE b # <<>> /\ Looks(b[1]).kind = "array"
    <2>1. /\ Parse(b).rest = Drop(b, 2) /\ Parse(b).n = Looks(b[1]).n
          /\ Looks(b[1]).n \in Int
      BY <1>1, TokenFacts, FirstPiece
    <2> QED
      BY <2>1, DropIsTail
  <1>2. CASE b # <<>> /\ Looks(b[1]).kind = "bulk"
    <2>1. Parse(b).rest = Drop(b, TextEnd(b) + 1) /\ Parse(b).n = 0
      BY <1>2, TokenFacts
    <2>2. TextEnd(b) + 1 \in Nat
      BY TextEndFacts
    <2> QED
      BY <2>1, <2>2, DropIsTail
  <1>3. CASE b # <<>> => Looks(b[1]).kind \notin {"array", "bulk"}
    <2>1. Parse(b).rest = b /\ Parse(b).n = 0
      BY <1>3, TokenFacts
    <2> QED
      BY <2>1, TailRefl
  <1> QED
    BY <1>1, <1>2, <1>3

-----------------------------------------------------------------------------
(* The same beginning with something else behind it.                       *)

\* The bytes of a and b are the same up to Following in a and s in b.
Alike(a, b, s) == \E r \in Bytes : a = r \o Following /\ b = r \o s

LEMMA FollowingFacts ==
    /\ Following \in Bytes /\ Len(Following) = 2 /\ Following[1].kind = "array"
    /\ Following # <<>>
  <1>1. ArrayHeader(1) \in Pieces /\ LineBreak \in Pieces /\ ArrayHeader(1).kind = "array"
    BY PieceFacts
  <1> QED
    BY <1>1 DEF Following, Bytes

LEMMA ConcatFacts ==
    ASSUME NEW r \in Bytes, NEW s \in Bytes
    PROVE  /\ r \o s \in Bytes /\ Len(r \o s) = Len(r) + Len(s)
           /\ Len(r) \in Nat /\ Len(s) \in Nat
           /\ \A i \in 1 .. Len(r) : (r \o s)[i] = r[i]
           /\ \A i \in 1 .. Len(s) : (r \o s)[Len(r) + i] = s[i]
           /\ r # <<>> => r \o s # <<>>
           /\ r = <<>> => r \o s = s
  <1>1. /\ r \o s \in Bytes /\ Len(r \o s) = Len(r) + Len(s)
        /\ \A i \in 1 .. Len(r) : (r \o s)[i] = r[i]
        /\ \A i \in 1 .. Len(s) : (r \o s)[Len(r) + i] = s[i]
    BY ConcatProperties DEF Bytes
  <1>2. Len(r) \in Nat /\ Len(s) \in Nat
    BY DEF Bytes
  <1>3. r # <<>> => Len(r) > 0
    BY FirstPiece, <1>2
  <1>4. r # <<>> => r \o s # <<>>
    BY <1>1, <1>2, <1>3
  <1>5. r = <<>> => r \o s = s
    BY DEF Bytes
  <1> QED
    BY <1>1, <1>2, <1>4, <1>5

LEMMA BeforeFollowing ==
    ASSUME NEW r \in Bytes
    PROVE  /\ r \o Following \in Bytes /\ Len(r \o Following) = Len(r) + 2
           /\ Len(r) \in Nat
           /\ \A i \in 1 .. Len(r) : (r \o Following)[i] = r[i]
           /\ r # <<>> => r \o Following # <<>>
           /\ r = <<>> => r \o Following = Following
  <1> DEFINE f == Following
  <1>1. f \in Bytes /\ Len(f) = 2
    BY FollowingFacts
  <1> HIDE DEF f
  <1>2. /\ r \o f \in Bytes /\ Len(r \o f) = Len(r) + 2 /\ Len(r) \in Nat
        /\ \A i \in 1 .. Len(r) : (r \o f)[i] = r[i]
        /\ r # <<>> => r \o f # <<>>
        /\ r = <<>> => r \o f = f
    <2>1. /\ r \o f \in Bytes /\ Len(r \o f) = Len(r) + Len(f)
          /\ Len(r) \in Nat
          /\ r # <<>> => r \o f # <<>>
          /\ r = <<>> => r \o f = f
      BY <1>1, ConcatFacts
    <2>2. \A i \in 1 .. Len(r) : (r \o f)[i] = r[i]
      BY <1>1, ConcatFacts
    <2> QED
      BY <1>1, <2>1, <2>2
  <1> QED
    BY <1>2 DEF f

\* Drop within the common beginning.
LEMMA DropAlike ==
    ASSUME NEW r \in Bytes, NEW s \in Bytes, NEW k \in 2 .. 4
    PROVE  \/ Len(Drop(r \o Following, k)) < 2
           \/ Len(r) >= k /\ Alike(Drop(r \o Following, k), Drop(r \o s, k), s)
  <1>1. /\ r \o Following \in Bytes /\ Len(r \o Following) = Len(r) + 2
        /\ Len(r) \in Nat
    BY BeforeFollowing
  <1>2. CASE Len(r) >= k
    <2>1. k \in 0 .. Len(r) /\ k \in Nat
      BY <1>1, <1>2
    <2>2. Drop(r \o Following, k) = Drop(r, k) \o Following
      BY <2>1, DropConcat, FollowingFacts DEF Bytes
    <2>3. Drop(r \o s, k) = Drop(r, k) \o s
      BY <2>1, DropConcat DEF Bytes
    <2>4. Drop(r, k) \in Bytes
      BY <2>1, DropFacts DEF Bytes
    <2> QED
      BY <1>2, <2>2, <2>3, <2>4 DEF Alike
  <1>3. CASE Len(r) < k
    <2> DEFINE a == r \o Following
    <2>1. a \in Seq(Pieces) /\ Len(a) = Len(r) + 2 /\ k \in Nat
      BY <1>1 DEF Bytes
    <2> HIDE DEF a
    <2>2. Len(Drop(a, k)) = IF k <= Len(a) THEN Len(a) - k ELSE 0
      BY <2>1, DropFacts
    <2>3. Len(Drop(a, k)) < 2
      BY <1>1, <1>3, <2>1, <2>2
    <2> QED
      BY <2>3 DEF a
  <1> QED
    BY <1>1, <1>2, <1>3

\* The next token is the same, unless it eats into what follows.
LEMMA ParseAlike ==
    ASSUME NEW a, NEW b, NEW s \in Bytes, Alike(a, b, s)
    PROVE  /\ a \in Bytes /\ b \in Bytes
           /\ \/ Len(Parse(a).rest) < 2
              \/ /\ Parse(a).type = Parse(b).type /\ Parse(a).n = Parse(b).n
                 /\ Parse(a).text = Parse(b).text
                 /\ Alike(Parse(a).rest, Parse(b).rest, s)
  <1>1. PICK r \in Bytes : a = r \o Following /\ b = r \o s
    BY DEF Alike
  <1>2. /\ a \in Bytes /\ Len(a) = Len(r) + 2 /\ Len(r) \in Nat
        /\ \A i \in 1 .. Len(r) : a[i] = r[i]
        /\ r # <<>> => a # <<>>
        /\ r = <<>> => a = Following
    BY <1>1, BeforeFollowing
  <1>3. /\ b \in Bytes
        /\ \A i \in 1 .. Len(r) : b[i] = r[i]
        /\ r # <<>> => b # <<>>
        /\ Len(b) = Len(r) + Len(s) /\ Len(s) \in Nat
    BY <1>1, ConcatFacts
  <1>4. \A k \in 2 .. 4 :
           \/ Len(Drop(a, k)) < 2
           \/ Len(r) >= k /\ Alike(Drop(a, k), Drop(b, k), s)
    BY <1>1, DropAlike
  <1>5. CASE r = <<>>
    <2>1. Parse(a).rest = Drop(a, 2)
      <3>1. a # <<>> /\ Looks(a[1]).kind = "array"
        BY <1>2, <1>5, FollowingFacts, FirstPiece, LooksFacts
      <3> QED
        BY <1>2, <3>1, TokenFacts
    <2>2. Len(r) = 0
      BY <1>5
    <2> QED
      BY <1>2, <1>3, <1>4, <2>1, <2>2
  <1>6. CASE r # <<>>
    <2>1. Len(r) >= 1 /\ Looks(r[1]).kind \in {"array", "bulk", "text", "break"}
      BY <1>6, FirstPiece
    <2>2. a # <<>> /\ b # <<>> /\ a[1] = r[1] /\ b[1] = r[1]
      BY <1>2, <1>3, <1>6, <2>1
    <2>3. CASE Looks(r[1]).kind = "array"
      <3>1. Parse(a).rest = Drop(a, 2) /\ Parse(b).rest = Drop(b, 2)
        BY <1>2, <1>3, <2>2, <2>3, TokenFacts
      <3>2. /\ Parse(a).type = Parse(b).type /\ Parse(a).n = Parse(b).n
            /\ Parse(a).text = Parse(b).text
        BY <1>2, <1>3, <2>2, <2>3, TokenFacts
      <3> QED
        BY <1>2, <1>3, <1>4, <3>1, <3>2
    <2>4. CASE Looks(r[1]).kind = "bulk"
      <3>1. /\ Parse(a).rest = Drop(a, TextEnd(a) + 1)
            /\ Parse(b).rest = Drop(b, TextEnd(b) + 1)
        BY <1>2, <1>3, <2>2, <2>4, TokenFacts
      <3>2. /\ Parse(a).type = Parse(b).type /\ Parse(a).n = Parse(b).n
            /\ Parse(a).text = BulkText(a) /\ Parse(b).text = BulkText(b)
        BY <1>2, <1>3, <2>2, <2>4, TokenFacts
      <3>3. TextEnd(a) + 1 \in 2 .. 4 /\ TextEnd(a) + 1 >= 3
        BY TextEndFacts
      <3>4. CASE Len(r) >= 3
        <4>1. Len(a) > 2 /\ Len(b) > 2 /\ a[3] = r[3] /\ b[3] = r[3]
          BY <1>2, <1>3, <3>4
        <4>2. BulkText(a) = BulkText(b) /\ TextEnd(a) = TextEnd(b)
          BY <4>1 DEF BulkText, TextEnd
        <4> QED
          BY <1>2, <1>3, <1>4, <3>1, <3>2, <3>3, <4>2
      <3>5. CASE Len(r) < 3
        <4>1. Len(Drop(a, TextEnd(a) + 1)) < 2
          BY <1>2, <1>4, <3>3, <3>5
        <4> QED
          BY <1>2, <1>3, <3>1, <4>1
      <3> QED
        BY <1>2, <3>4, <3>5
    <2>5. CASE Looks(r[1]).kind \in {"text", "break"}
      <3>1. Parse(a).rest = a /\ Parse(b).rest = b
        BY <1>2, <1>3, <2>2, <2>5, TokenFacts
      <3>2. /\ Parse(a).type = Parse(b).type /\ Parse(a).n = Parse(b).n
            /\ Parse(a).text = Parse(b).text
        BY <1>2, <1>3, <2>2, <2>5, TokenFacts
      <3> QED
        BY <1>2, <1>3, <3>1, <3>2
    <2> QED
      BY <2>1, <2>3, <2>4, <2>5
  <1> QED
    BY <1>5, <1>6

-----------------------------------------------------------------------------
(* Groups of tokens.                                                       *)

IsProgress(p) ==
    p = [status |-> p.status, args |-> p.args, rest |-> p.rest] /\ p.rest \in Bytes

\* The first, second and third token of b.
TokenAt(b, i) == IF i = 1 THEN Parse(b)
                 ELSE IF i = 2 THEN Parse(Parse(b).rest)
                 ELSE Parse(Parse(Parse(b).rest).rest)

LEMMA TokenAtIsTail ==
    ASSUME NEW b \in Bytes, NEW k \in 1 .. 3
    PROVE  TailOf(TokenAt(b, k).rest, b)
  <1>1. TailOf(Parse(b).rest, b) /\ Parse(b).rest \in Bytes
    BY ParseIsTail DEF TailOf
  <1> DEFINE c == Parse(b).rest
             d == Parse(c).rest
  <1>2. TailOf(d, c) /\ d \in Bytes
    BY <1>1, ParseIsTail DEF TailOf
  <1>3. TailOf(Parse(d).rest, d)
    BY <1>2, ParseIsTail
  <1>4. TailOf(d, b)
    BY <1>1, <1>2, TailTrans
  <1>5. TailOf(Parse(d).rest, b)
    BY <1>3, <1>4, TailTrans
  <1>6. k = 1 \/ k = 2 \/ k = 3
    OBVIOUS
  <1> QED
    BY <1>1, <1>4, <1>5, <1>6 DEF TokenAt

LEMMA TokenAtAlike ==
    ASSUME NEW a, NEW b, NEW s \in Bytes, Alike(a, b, s), NEW k \in 1 .. 3
    PROVE  \/ Len(TokenAt(a, k).rest) < 2
           \/ /\ \A i \in 1 .. k : /\ TokenAt(a, i).type = TokenAt(b, i).type
                                   /\ TokenAt(a, i).text = TokenAt(b, i).text
              /\ Alike(TokenAt(a, k).rest, TokenAt(b, k).rest, s)
  <1> DEFINE a1 == Parse(a)
             a2 == Parse(a1.rest)
             a3 == Parse(a2.rest)
             b1 == Parse(b)
             b2 == Parse(b1.rest)
             b3 == Parse(b2.rest)
  <1>1. /\ a \in Bytes
        /\ \/ Len(a1.rest) < 2
           \/ a1.type = b1.type /\ a1.text = b1.text /\ Alike(a1.rest, b1.rest, s)
    BY ParseAlike
  <1>2. a1.rest \in Bytes /\ TailOf(a2.rest, a1.rest) /\ a2.rest \in Bytes
    BY <1>1, ParseIsTail DEF TailOf
  <1>3. TailOf(a3.rest, a2.rest)
    BY <1>2, ParseIsTail
  <1>4. Alike(a1.rest, b1.rest, s) =>
           \/ Len(a2.rest) < 2
           \/ a2.type = b2.type /\ a2.text = b2.text /\ Alike(a2.rest, b2.rest, s)
    BY ParseAlike
  <1>5. Alike(a2.rest, b2.rest, s) =>
           \/ Len(a3.rest) < 2
           \/ a3.type = b3.type /\ a3.text = b3.text /\ Alike(a3.rest, b3.rest, s)
    BY ParseAlike
  <1>6. Len(a1.rest) \in Nat /\ Len(a2.rest) \in Nat /\ Len(a3.rest) \in Nat
        /\ Len(a2.rest) <= Len(a1.rest) /\ Len(a3.rest) <= Len(a2.rest)
    BY <1>2, <1>3 DEF TailOf, Bytes
  <1>7. /\ TokenAt(a, 1) = a1 /\ TokenAt(a, 2) = a2 /\ TokenAt(a, 3) = a3
        /\ TokenAt(b, 1) = b1 /\ TokenAt(b, 2) = b2 /\ TokenAt(b, 3) = b3
    BY DEF TokenAt
  <1> HIDE DEF a1, a2, a3, b1, b2, b3
  <1>8. CASE k = 1
    <2>1. \A i \in 1 .. 1 : i = 1
      OBVIOUS
    <2> QED
      BY <1>1, <1>7, <1>8, <2>1
  <1>9. CASE k = 2
    <2>1. \A i \in 1 .. 2 : i = 1 \/ i = 2
      OBVIOUS
    <2> QED
      BY <1>1, <1>4, <1>6, <1>7, <1>9, <2>1
  <1>10. CASE k = 3
    <2>1. \A i \in 1 .. 3 : i = 1 \/ i = 2 \/ i = 3
      OBVIOUS
    <2> QED
      BY <1>1, <1>4, <1>5, <1>6, <1>7, <1>10, <2>1
  <1> QED
    BY <1>8, <1>9, <1>10

AllBulk(b, k)   == \A i \in 1 .. k : TokenAt(b, i).type = "BULK_STRING"
TokenTexts(b, k) == [i \in 1 .. k |-> TokenAt(b, i).text]

\* What a group of tokens does to the progress.
LEMMA GroupFacts ==
    ASSUME NEW p, IsProgress(p), NEW k \in 1 .. 3, NEW otherwise
    PROVE  /\ p.status # "go" => Group(p, k, otherwise) = p
           /\ p.status = "go" /\ AllBulk(p.rest, k) =>
                Group(p, k, otherwise) =
                    [status |-> "go", args |-> p.args \o TokenTexts(p.rest, k),
                     rest |-> TokenAt(p.rest, k).rest]
           /\ p.status = "go" /\ ~AllBulk(p.rest, k) =>
                Group(p, k, otherwise) =
                    [status |-> otherwise, args |-> p.args,
                     rest |-> TokenAt(p.rest, k).rest]
  <1> DEFINE F(f) == [i \in 1 .. k |-> Parse(IF i = 1 THEN p.rest ELSE f[i - 1].rest)]
             t == CHOOSE f : f = F(f)
             g == [i \in 1 .. k |-> TokenAt(p.rest, i)]
  <1>1. g = F(g)
    <2>1. ASSUME NEW i \in 1 .. k
          PROVE  TokenAt(p.rest, i) = Parse(IF i = 1 THEN p.rest ELSE g[i - 1].rest)
      <3>1. CASE i = 1
        BY <3>1 DEF TokenAt
      <3>2. CASE i = 2
        <4>1. g[1] = TokenAt(p.rest, 1)
          OBVIOUS
        <4> QED
          BY <3>2, <4>1 DEF TokenAt
      <3>3. CASE i = 3
        <4>1. g[2] = TokenAt(p.rest, 2)
          BY <3>3
        <4> QED
          BY <3>3, <4>1 DEF TokenAt
      <3> QED
        BY <3>1, <3>2, <3>3
    <2> QED
      BY <2>1
  <1>2. t = F(t)
    <2> HIDE DEF F
    <2> QED
      BY <1>1
  <1>3. \A i \in 1 .. k : t[i] = Parse(IF i = 1 THEN p.rest ELSE t[i - 1].rest)
    <2> HIDE DEF t
    <2> QED
      BY <1>2
  <1>4. \A i \in 1 .. k : t[i] = TokenAt(p.rest, i)
    <2> HIDE DEF t
    <2>1. t[1] = Parse(p.rest)
      BY <1>3
    <2>2. k >= 2 => t[2] = Parse(t[1].rest)
      <3>1. HAVE k >= 2
      <3>2. t[2] = Parse(t[2 - 1].rest)
        BY <1>3, <3>1
      <3> QED
        BY <3>2
    <2>3. k = 3 => t[3] = Parse(t[2].rest)
      <3>1. HAVE k = 3
      <3>2. t[3] = Parse(t[3 - 1].rest)
        BY <1>3, <3>1
      <3> QED
        BY <3>2
    <2>4. \A i \in 1 .. k : i = 1 \/ (i = 2 /\ k >= 2) \/ (i = 3 /\ k = 3)
      OBVIOUS
    <2> QED
      BY <2>1, <2>2, <2>3, <2>4 DEF TokenAt
  <1>5. Group(p, k, otherwise) = TokensTaken(p, k, otherwise)
    <2>1. {TokensTaken(x, k, otherwise) : x \in {p}} = {TokensTaken(p, k, otherwise)}
      OBVIOUS
    <2> QED
      BY <2>1 DEF Group, TheOne
  <1>6. TokensTaken(p, k, otherwise) =
            IF p.status # "go" THEN p
            ELSE IF \A i \in 1 .. k : t[i].type = "BULK_STRING"
                 THEN [p EXCEPT !.args = @ \o [i \in 1 .. k |-> t[i].text],
                                !.rest = t[k].rest]
                 ELSE [p EXCEPT !.status = otherwise, !.rest = t[k].rest]
    BY DEF TokensTaken
  <1> HIDE DEF t
  <1>7. AllBulk(p.rest, k) <=> \A i \in 1 .. k : t[i].type = "BULK_STRING"
    BY <1>4 DEF AllBulk
  <1>8. TokenTexts(p.rest, k) = [i \in 1 .. k |-> t[i].text] /\ t[k] = TokenAt(p.rest, k)
    BY <1>4 DEF TokenTexts
  <1> DEFINE ts == [i \in 1 .. k |-> t[i].text]
             all == p.args \o ts
             re == t[k].rest
  <1>9. [p EXCEPT !.args = all, !.rest = re] = [status |-> p.status, args |-> all, rest |-> re]
    <2> DEFINE q == [status |-> p.status, args |-> all, rest |-> p.rest]
    <2> HIDE DEF all, re
    <2>1. [p EXCEPT !.args = all] = q
      BY DEF IsProgress
    <2>2. [q EXCEPT !.rest = re] = [status |-> p.status, args |-> all, rest |-> re]
      OBVIOUS
    <2> HIDE DEF q
    <2>3. [p EXCEPT !.args = all, !.rest = re] = [q EXCEPT !.rest = re]
      BY <2>1, Zenon
    <2> QED
      BY <2>2, <2>3, Zenon
  <1>10. [p EXCEPT !.status = otherwise, !.rest = re] =
            [status |-> otherwise, args |-> p.args, rest |-> re]
    <2> DEFINE q == [status |-> otherwise, args |-> p.args, rest |-> p.rest]
    <2> HIDE DEF re
    <2>1. [p EXCEPT !.status = otherwise] = q
      BY DEF IsProgress
    <2>2. [q EXCEPT !.rest = re] = [status |-> otherwise, args |-> p.args, rest |-> re]
      OBVIOUS
    <2> HIDE DEF q
    <2>3. [p EXCEPT !.status = otherwise, !.rest = re] = [q EXCEPT !.rest = re]
      BY <2>1, Zenon
    <2> QED
      BY <2>2, <2>3, Zenon
  <1>11. [p EXCEPT !.args = @ \o ts, !.rest = re] = [p EXCEPT !.args = all, !.rest = re]
    OBVIOUS
  <1>12. CASE p.status # "go"
    BY <1>5, <1>6, <1>12
  <1>13. CASE p.status = "go" /\ AllBulk(p.rest, k)
    <2>1. Group(p, k, otherwise) = [p EXCEPT !.args = @ \o ts, !.rest = re]
      BY <1>5, <1>6, <1>7, <1>13
    <2>2. Group(p, k, otherwise) = [status |-> p.status, args |-> all, rest |-> re]
      BY <1>9, <1>11, <2>1, Zenon
    <2> QED
      BY <1>8, <1>13, <2>2
  <1>14. CASE p.status = "go" /\ ~AllBulk(p.rest, k)
    BY <1>5, <1>6, <1>7, <1>8, <1>10, <1>14
  <1> QED
    BY <1>12, <1>13, <1>14

-----------------------------------------------------------------------------
(* What every command parser keeps.                                        *)

\* The position of p is one in b, at its start or behind it.
At(p, b) == IsProgress(p) /\ TailOf(p.rest, b)

\* p and q have read the same, and what comes next differs only behind it.
Live(p, q, s) ==
    /\ IsProgress(p) /\ IsProgress(q)
    /\ p.status = q.status /\ p.args = q.args
    /\ Alike(p.rest, q.rest, s)

\* p has read of b what q has, or less than Following is left of it.
Same(p, q, b, s) ==
    /\ At(p, b)
    /\ Len(p.rest) < 2 \/ (s = Following /\ p = q) \/ Live(p, q, s)

LEMMA Ended ==
    ASSUME NEW p, NEW q, NEW b, IsProgress(p), At(q, p.rest), Len(p.rest) < 2, TailOf(p.rest, b)
    PROVE  \A x, s : Same(q, x, b, s)
  <1>1. Len(q.rest) <= Len(p.rest) /\ Len(q.rest) \in Nat /\ Len(p.rest) \in Nat
    BY DEF At, TailOf, Bytes
  <1>2. TailOf(q.rest, b)
    BY TailTrans DEF At
  <1> QED
    BY <1>1, <1>2 DEF Same, At

LEMMA GroupAt ==
    ASSUME NEW b, NEW p, At(p, b), NEW k \in 1 .. 3, NEW otherwise
    PROVE  At(Group(p, k, otherwise), b)
  <1>1. IsProgress(p) /\ p.rest \in Bytes
    BY DEF At, IsProgress
  <1> DEFINE R == TokenAt(p.rest, k).rest
             G == Group(p, k, otherwise)
  <1>2. TailOf(R, b) /\ R \in Bytes
    <2>1. TailOf(R, p.rest)
      BY <1>1, TokenAtIsTail
    <2>2. TailOf(p.rest, b)
      BY DEF At
    <2>3. TailOf(R, b)
      BY <2>1, <2>2, TailTrans
    <2> QED
      BY <2>3 DEF TailOf
  <1>3. CASE p.status # "go"
    <2>1. G = p
      BY <1>1, <1>3, GroupFacts
    <2> QED
      BY <2>1
  <1>4. CASE p.status = "go" /\ AllBulk(p.rest, k)
    <2> DEFINE A == p.args \o TokenTexts(p.rest, k)
    <2>1. G = [status |-> "go", args |-> A, rest |-> R]
      BY <1>1, <1>4, GroupFacts
    <2> HIDE DEF A, R, G
    <2>2. At(G, b)
      BY <1>2, <2>1 DEF At, IsProgress
    <2> QED
      BY <2>2 DEF G
  <1>5. CASE p.status = "go" /\ ~AllBulk(p.rest, k)
    <2>1. G = [status |-> otherwise, args |-> p.args, rest |-> R]
      BY <1>1, <1>5, GroupFacts
    <2> HIDE DEF R, G
    <2>2. At(G, b)
      BY <1>2, <2>1 DEF At, IsProgress
    <2> QED
      BY <2>2 DEF G
  <1> QED
    BY <1>3, <1>4, <1>5

LEMMA GroupLive ==
    ASSUME NEW s \in Bytes, NEW p, NEW q, Live(p, q, s), NEW k \in 1 .. 3, NEW otherwise
    PROVE  \/ Len(Group(p, k, otherwise).rest) < 2
           \/ Live(Group(p, k, otherwise), Group(q, k, otherwise), s)
  <1>1. /\ IsProgress(p) /\ IsProgress(q) /\ Alike(p.rest, q.rest, s)
        /\ p.status = q.status /\ p.args = q.args
        /\ p.rest \in Bytes /\ q.rest \in Bytes
    BY DEF Live, IsProgress
  <1>2. CASE p.status # "go"
    BY <1>1, <1>2, GroupFacts
  <1> DEFINE P == TokenAt(p.rest, k).rest
             Q == TokenAt(q.rest, k).rest
  <1>3. P \in Bytes /\ Q \in Bytes
    BY <1>1, TokenAtIsTail DEF TailOf
  <1>4. CASE p.status = "go" /\ Len(P) < 2
    <2>1. Group(p, k, otherwise).rest = P
      <3>1. CASE AllBulk(p.rest, k)
        <4>1. Group(p, k, otherwise) = [status |-> "go", args |-> p.args \o TokenTexts(p.rest, k),
                                        rest |-> P]
          BY <1>1, <1>4, <3>1, GroupFacts
        <4> QED
          BY <4>1
      <3>2. CASE ~AllBulk(p.rest, k)
        <4>1. Group(p, k, otherwise) = [status |-> otherwise, args |-> p.args, rest |-> P]
          BY <1>1, <1>4, <3>2, GroupFacts
        <4> QED
          BY <4>1
      <3> QED
        BY <3>1, <3>2
    <2> QED
      BY <1>4, <2>1
  <1>5. CASE p.status = "go" /\ ~(Len(P) < 2)
    <2>1. /\ \A i \in 1 .. k : /\ TokenAt(p.rest, i).type = TokenAt(q.rest, i).type
                               /\ TokenAt(p.rest, i).text = TokenAt(q.rest, i).text
          /\ Alike(P, Q, s)
      BY <1>1, <1>5, TokenAtAlike
    <2>2. AllBulk(p.rest, k) <=> AllBulk(q.rest, k)
      BY <2>1 DEF AllBulk
    <2>3. TokenTexts(p.rest, k) = TokenTexts(q.rest, k)
      BY <2>1 DEF TokenTexts
    <2>4. CASE AllBulk(p.rest, k)
      <3> DEFINE A == p.args \o TokenTexts(p.rest, k)
      <3>1. /\ Group(p, k, otherwise) = [status |-> "go", args |-> A, rest |-> P]
            /\ Group(q, k, otherwise) = [status |-> "go", args |-> A, rest |-> Q]
        BY <1>1, <1>5, <2>2, <2>3, <2>4, GroupFacts, ZenonT(60)
      <3> HIDE DEF A, P, Q
      <3> QED
        BY <1>3, <2>1, <3>1 DEF Live, IsProgress
    <2>5. CASE ~AllBulk(p.rest, k)
      <3>1. /\ Group(p, k, otherwise) = [status |-> otherwise, args |-> p.args, rest |-> P]
            /\ Group(q, k, otherwise) = [status |-> otherwise, args |-> p.args, rest |-> Q]
        BY <1>1, <1>5, <2>2, <2>5, GroupFacts, ZenonT(60)
      <3> HIDE DEF P, Q
      <3> QED
        BY <1>3, <2>1, <3>1 DEF Live, IsProgress
    <2> QED
      BY <2>4, <2>5
  <1> QED
    BY <1>2, <1>4, <1>5

LEMMA GroupSame ==
    ASSUME NEW b, NEW s \in Bytes, NEW p, NEW q, Same(p, q, b, s),
           NEW k \in 1 .. 3, NEW otherwise
    PROVE  Same(Group(p, k, otherwise), Group(q, k, otherwise), b, s)
  <1>1. At(p, b) /\ At(Group(p, k, otherwise), b)
    BY GroupAt DEF Same
  <1>2. CASE Len(p.rest) < 2
    <2>1. At(p, p.rest)
      BY <1>1, TailRefl DEF At, IsProgress
    <2>2. At(Group(p, k, otherwise), p.rest)
      BY <2>1, GroupAt
    <2> QED
      BY <1>1, <1>2, <2>2, Ended DEF At
  <1>3. CASE s = Following /\ p = q
    BY <1>1, <1>3 DEF Same
  <1>4. CASE Live(p, q, s)
    BY <1>1, <1>4, GroupLive DEF Same
  <1> QED
    BY <1>2, <1>3, <1>4 DEF Same

LEMMA OneSame ==
    ASSUME NEW b, NEW s \in Bytes, NEW p, NEW q, Same(p, q, b, s)
    PROVE  /\ Same(Must(p), Must(q), b, s)
           /\ Same(Maybe(p), Maybe(q), b, s)
           /\ Same(Until(p), Until(q), b, s)
  BY GroupSame DEF Must, Maybe, Until

Repeats(p, n, k, otherwise, f) ==
    f[0] = p /\ \A j \in 1 .. n : f[j] = Group(f[j - 1], k, otherwise)

LEMMA RepeatSteps ==
    ASSUME NEW p, NEW n \in Nat, n > 0, NEW k, NEW otherwise
    PROVE  \E f : Repeats(p, n, k, otherwise, f) /\ Repeat(p, n, k, otherwise) = f[n]
  <1> DEFINE N         == n
             Step1(x, j) == Group(x, k, otherwise)
             Good(c, f) == f = [j \in 0 .. c |-> IF j = 0 THEN p ELSE Step1(f[j - 1], j)]
             g         == CHOOSE f : Good(N, f)
  <1>1. Repeat(p, n, k, otherwise) = g[N]
    BY DEF Repeat
  <1>2. N \in Nat
    OBVIOUS
  <1> HIDE DEF N, Step1
  <1> DEFINE S == {c \in 0 .. N : \E f : Good(c, f)}
  <1>3. 0 \in S
    <2>1. Good(0, [j \in 0 .. 0 |-> p])
      OBVIOUS
    <2> HIDE DEF Good
    <2> QED
      BY <1>2, <2>1
  <1>4. \A c \in 0 .. N - 1 : c \in S => c + 1 \in S
    <2> SUFFICES ASSUME NEW c \in 0 .. N - 1, c \in S
                 PROVE  \E h : Good(c + 1, h)
      BY <1>2
    <2>1. PICK f : Good(c, f)
      OBVIOUS
    <2> DEFINE h == [j \in 0 .. c + 1 |-> IF j = c + 1 THEN Step1(f[c], j) ELSE f[j]]
    <2>2. \A j \in 0 .. c : f[j] = IF j = 0 THEN p ELSE Step1(f[j - 1], j)
      BY <2>1
    <2>3. \A j \in 0 .. c + 1 : h[j] = IF j = 0 THEN p ELSE Step1(h[j - 1], j)
      <3> SUFFICES ASSUME NEW j \in 0 .. c + 1
                   PROVE  h[j] = IF j = 0 THEN p ELSE Step1(h[j - 1], j)
        OBVIOUS
      <3>1. CASE j = c + 1
        <4>1. j # 0 /\ j - 1 = c /\ c \in 0 .. c + 1 /\ c # c + 1
          BY <1>2, <3>1
        <4> QED
          BY <3>1, <4>1
      <3>2. CASE j # c + 1
        <4>1. j \in 0 .. c /\ (j # 0 => j - 1 \in 0 .. c + 1 /\ j - 1 # c + 1)
          BY <1>2, <3>2
        <4> QED
          BY <2>2, <3>2, <4>1
      <3> QED
        BY <3>1, <3>2
    <2>4. Good(c + 1, h)
      <3>1. h = [j \in 0 .. c + 1 |-> h[j]]
        OBVIOUS
      <3> HIDE DEF h
      <3> QED
        BY <2>3, <3>1
    <2> HIDE DEF Good, h
    <2> QED
      BY <2>4
  <1>5. \E f : Good(N, f)
    <2> HIDE DEF S
    <2>1. 0 .. N \subseteq S
      BY <1>2, <1>3, <1>4, BoundedInduction
    <2>2. N \in S
      BY <1>2, <2>1
    <2> QED
      BY <2>2 DEF S
  <1>6. Good(N, g)
    <2> HIDE DEF Good
    <2> QED
      BY <1>5
  <1>7. \A j \in 0 .. N : g[j] = IF j = 0 THEN p ELSE Step1(g[j - 1], j)
    <2> HIDE DEF g
    <2> QED
      BY <1>6
  <1> HIDE DEF g
  <1>8. g[0] = p /\ \A j \in 1 .. N : g[j] = Step1(g[j - 1], j)
    BY <1>2, <1>7
  <1>9. Repeats(p, n, k, otherwise, g)
    BY <1>8 DEF Repeats, N, Step1
  <1> QED
    BY <1>1, <1>9 DEF N

LEMMA RepeatSame ==
    ASSUME NEW b, NEW s \in Bytes, NEW p, NEW q, Same(p, q, b, s),
           NEW n \in Int, NEW k \in 1 .. 3, NEW otherwise
    PROVE  Same(Repeat(p, n, k, otherwise), Repeat(q, n, k, otherwise), b, s)
  <1>1. CASE ~(n > 0)
    <2>1. Repeat(p, n, k, otherwise) = p /\ Repeat(q, n, k, otherwise) = q
      BY <1>1 DEF Repeat
    <2> QED
      BY <2>1
  <1>2. CASE n > 0
    <2>0. n \in Nat
      BY <1>2
    <2>1. PICK f : Repeats(p, n, k, otherwise, f) /\ Repeat(p, n, k, otherwise) = f[n]
      BY <1>2, <2>0, RepeatSteps
    <2>2. PICK g : Repeats(q, n, k, otherwise, g) /\ Repeat(q, n, k, otherwise) = g[n]
      BY <1>2, <2>0, RepeatSteps
    <2> DEFINE S == {j \in 0 .. n : Same(f[j], g[j], b, s)}
    <2>3. 0 \in S
      BY <2>0, <2>1, <2>2 DEF Repeats
    <2>4. \A j \in 0 .. n - 1 : j \in S => j + 1 \in S
      <3> SUFFICES ASSUME NEW j \in 0 .. n - 1, Same(f[j], g[j], b, s)
                   PROVE  Same(f[j + 1], g[j + 1], b, s)
        BY <2>0
      <3>1. j + 1 \in 1 .. n /\ (j + 1) - 1 = j
        BY <2>0
      <3>2. f[j + 1] = Group(f[j], k, otherwise) /\ g[j + 1] = Group(g[j], k, otherwise)
        BY <2>1, <2>2, <3>1 DEF Repeats
      <3> QED
        BY <3>2, GroupSame
    <2>5. 0 .. n \subseteq S
      <3> HIDE DEF S
      <3> QED
        BY <2>0, <2>3, <2>4, BoundedInduction
    <2>6. n \in S
      BY <2>0, <2>5
    <2> QED
      BY <2>1, <2>2, <2>6
  <1> QED
    BY <1>1, <1>2

\* A step that leaves the position where it is.
LEMMA KeptSame ==
    ASSUME NEW b, NEW s \in Bytes, NEW p, NEW q, Same(p, q, b, s), NEW v, NEW w,
           IsProgress(v), v.rest = p.rest,
           p = q => v = w,
           Live(p, q, s) => /\ IsProgress(w) /\ w.rest = q.rest
                            /\ v.status = w.status /\ v.args = w.args
    PROVE  Same(v, w, b, s)
  <1>1. At(v, b)
    BY DEF Same, At
  <1>2. Live(p, q, s) => Live(v, w, s)
    BY DEF Live
  <1> QED
    BY <1>1, <1>2 DEF Same

\* p has read what q has, as far as they can tell.
Agree(p, q) == p.status = q.status /\ p.args = q.args

LEMMA SameAgree ==
    ASSUME NEW b, NEW s, NEW p, NEW q, Same(p, q, b, s)
    PROVE  /\ Len(p.rest) < 2 \/ Agree(p, q)
           /\ At(p, b) /\ IsProgress(p) /\ TailOf(p.rest, b)
           /\ At(p, p.rest)
           /\ Same(p, p, p.rest, Following) /\ Agree(p, p) /\ Following \in Bytes
  <1>1. At(p, b) /\ IsProgress(p) /\ TailOf(p.rest, b) /\ p.rest \in Bytes
    BY DEF Same, At, IsProgress
  <1>2. At(p, p.rest)
    BY <1>1, TailRefl DEF At
  <1> QED
    BY <1>1, <1>2, FollowingFacts DEF Same, Live, Agree

LEMMA RefuseSame ==
    ASSUME NEW b, NEW s \in Bytes, NEW p, NEW q, Same(p, q, b, s)
    PROVE  Same(Refuse(p), Refuse(q), b, s)
  <1>1. \A x : IsProgress(x) => Refuse(x) = [status |-> "unknown", args |-> x.args, rest |-> x.rest]
    BY DEF IsProgress, Refuse
  <1>2. \A x : IsProgress(x) =>
            IsProgress(Refuse(x)) /\ Refuse(x).rest = x.rest
            /\ Refuse(x).status = "unknown" /\ Refuse(x).args = x.args
    BY <1>1 DEF IsProgress
  <1>3. IsProgress(p) /\ (Live(p, q, s) => IsProgress(q) /\ p.args = q.args)
    BY DEF Same, At, Live
  <1> QED
    BY <1>2, <1>3, KeptSame

NumbersBad(p, places) == p.status = "go" /\ \E i \in places : p.args[i] \notin Numbers

LEMMA NumbersSame ==
    ASSUME NEW b, NEW s \in Bytes, NEW p, NEW q, Same(p, q, b, s), NEW places
    PROVE  Same(NumbersAt(p, places), NumbersAt(q, places), b, s)
  <1>1. ASSUME NEW x, NEW y, NEW c, NEW z \in Bytes, Same(x, y, c, z), Agree(x, y)
        PROVE  Same(NumbersAt(x, places), NumbersAt(y, places), c, z)
    <2>1. NumbersBad(x, places) <=> NumbersBad(y, places)
      BY <1>1 DEF Agree, NumbersBad
    <2>2. CASE NumbersBad(x, places)
      <3>1. NumbersAt(x, places) = Refuse(x) /\ NumbersAt(y, places) = Refuse(y)
        BY <2>1, <2>2 DEF NumbersAt, NumbersBad
      <3> QED
        BY <1>1, <3>1, RefuseSame
    <2>3. CASE ~NumbersBad(x, places)
      <3>1. NumbersAt(x, places) = x /\ NumbersAt(y, places) = y
        BY <2>1, <2>3 DEF NumbersAt, NumbersBad
      <3> QED
        BY <1>1, <3>1
    <2> QED
      BY <2>2, <2>3
  <1>2. CASE Agree(p, q)
    BY <1>1, <1>2
  <1>3. CASE Len(p.rest) < 2
    <2>0. /\ Same(p, p, p.rest, Following) /\ Agree(p, p) /\ Following \in Bytes
          /\ IsProgress(p) /\ TailOf(p.rest, b)
      BY SameAgree
    <2>1. At(NumbersAt(p, places), p.rest)
      BY <1>1, <2>0 DEF Same
    <2> QED
      BY <1>3, <2>0, <2>1, Ended
  <1> QED
    BY <1>2, <1>3, SameAgree

-----------------------------------------------------------------------------
(* The parsers that look at what they have read.                           *)

ReplConfRest(x) ==
    IF x.status = "go" /\ x.args[1] \in {"listening-port", "capa", "GETACK", "ACK"}
    THEN Maybe(x) ELSE x

LEMMA ReplConfRestSame ==
    ASSUME NEW b, NEW s \in Bytes, NEW p, NEW q, Same(p, q, b, s)
    PROVE  Same(ReplConfRest(p), ReplConfRest(q), b, s)
  <1>1. ASSUME NEW x, NEW y, NEW c, NEW z \in Bytes, Same(x, y, c, z), Agree(x, y)
        PROVE  Same(ReplConfRest(x), ReplConfRest(y), c, z)
    <2>1. CASE x.status = "go" /\ x.args[1] \in {"listening-port", "capa", "GETACK", "ACK"}
      <3>1. ReplConfRest(x) = Maybe(x) /\ ReplConfRest(y) = Maybe(y)
        BY <1>1, <2>1 DEF Agree, ReplConfRest
      <3> QED
        BY <1>1, <3>1, OneSame
    <2>2. CASE ~(x.status = "go" /\ x.args[1] \in {"listening-port", "capa", "GETACK", "ACK"})
      <3>1. ReplConfRest(x) = x /\ ReplConfRest(y) = y
        BY <1>1, <2>2 DEF Agree, ReplConfRest
      <3> QED
        BY <1>1, <3>1
    <2> QED
      BY <2>1, <2>2
  <1>2. CASE Agree(p, q)
    BY <1>1, <1>2
  <1>3. CASE Len(p.rest) < 2
    <2>0. /\ Same(p, p, p.rest, Following) /\ Agree(p, p) /\ Following \in Bytes
          /\ IsProgress(p) /\ TailOf(p.rest, b)
      BY SameAgree
    <2>1. At(ReplConfRest(p), p.rest)
      BY <1>1, <2>0 DEF Same
    <2> QED
      BY <1>3, <2>0, <2>1, Ended
  <1> QED
    BY <1>2, <1>3, SameAgree

GetConfigRest(x, n) ==
    IF x.status = "go" /\ x.args[1] # "GET" THEN Refuse(x)
    ELSE Repeat(x, n - 1, 1, "unknown")

LEMMA GetConfigRestSame ==
    ASSUME NEW b, NEW s \in Bytes, NEW p, NEW q, Same(p, q, b, s), NEW n \in Int
    PROVE  Same(GetConfigRest(p, n), GetConfigRest(q, n), b, s)
  <1>1. ASSUME NEW x, NEW y, NEW c, NEW z \in Bytes, Same(x, y, c, z), Agree(x, y)
        PROVE  Same(GetConfigRest(x, n), GetConfigRest(y, n), c, z)
    <2>1. CASE x.status = "go" /\ x.args[1] # "GET"
      <3>1. GetConfigRest(x, n) = Refuse(x) /\ GetConfigRest(y, n) = Refuse(y)
        BY <1>1, <2>1 DEF Agree, GetConfigRest
      <3> QED
        BY <1>1, <3>1, RefuseSame
    <2>2. CASE ~(x.status = "go" /\ x.args[1] # "GET")
      <3>1. /\ GetConfigRest(x, n) = Repeat(x, n - 1, 1, "unknown")
            /\ GetConfigRest(y, n) = Repeat(y, n - 1, 1, "unknown")
        BY <1>1, <2>2 DEF Agree, GetConfigRest
      <3>2. n - 1 \in Int /\ 1 \in 1 .. 3
        OBVIOUS
      <3> QED
        BY <1>1, <3>1, <3>2, RepeatSame
    <2> QED
      BY <2>1, <2>2
  <1>2. CASE Agree(p, q)
    BY <1>1, <1>2
  <1>3. CASE Len(p.rest) < 2
    <2>0. /\ Same(p, p, p.rest, Following) /\ Agree(p, p) /\ Following \in Bytes
          /\ IsProgress(p) /\ TailOf(p.rest, b)
      BY SameAgree
    <2>1. At(GetConfigRest(p, n), p.rest)
      BY <1>1, <2>0 DEF Same
    <2> QED
      BY <1>3, <2>0, <2>1, Ended
  <1> QED
    BY <1>2, <1>3, SameAgree

ACLRest(x, n) ==
    IF x.status # "go" THEN x
    ELSE CASE x.args[1] = "WHOAMI"  -> x
           [] x.args[1] = "GETUSER" ->
                IF n > 2 THEN Refuse(x) ELSE IF n = 2 THEN Must(x) ELSE x
           [] x.args[1] = "SETUSER" ->
                IF n < 2 THEN Refuse(x) ELSE Repeat(Must(x), n - 2, 1, "stop")
           [] OTHER -> Refuse(x)

LEMMA ACLRestSame ==
    ASSUME NEW b, NEW s \in Bytes, NEW p, NEW q, Same(p, q, b, s), NEW n \in Int
    PROVE  Same(ACLRest(p, n), ACLRest(q, n), b, s)
  <1>1. ASSUME NEW x, NEW y, NEW c, NEW z \in Bytes, Same(x, y, c, z), Agree(x, y)
        PROVE  Same(ACLRest(x, n), ACLRest(y, n), c, z)
    <2>0. x.status = y.status /\ x.args = y.args
      BY <1>1 DEF Agree
    <2> DEFINE a == x.args[1]
    <2>1. CASE x.status # "go" \/ a = "WHOAMI" \/ (a = "GETUSER" /\ n < 2)
      <3>1. ACLRest(x, n) = x /\ ACLRest(y, n) = y
        BY <2>0, <2>1 DEF ACLRest
      <3> QED
        BY <1>1, <3>1
    <2>2. CASE x.status = "go" /\ \/ a = "GETUSER" /\ n > 2
                                  \/ a = "SETUSER" /\ n < 2
                                  \/ a \notin {"WHOAMI", "GETUSER", "SETUSER"}
      <3>1. ACLRest(x, n) = Refuse(x) /\ ACLRest(y, n) = Refuse(y)
        BY <2>0, <2>2 DEF ACLRest
      <3> QED
        BY <1>1, <3>1, RefuseSame
    <2>3. CASE x.status = "go" /\ a = "GETUSER" /\ n = 2
      <3>1. ACLRest(x, n) = Must(x) /\ ACLRest(y, n) = Must(y)
        BY <2>0, <2>3 DEF ACLRest
      <3> QED
        BY <1>1, <3>1, OneSame
    <2>4. CASE x.status = "go" /\ a = "SETUSER" /\ ~(n < 2)
      <3>1. /\ ACLRest(x, n) = Repeat(Must(x), n - 2, 1, "stop")
            /\ ACLRest(y, n) = Repeat(Must(y), n - 2, 1, "stop")
        BY <2>0, <2>4 DEF ACLRest
      <3>2. n - 2 \in Int /\ 1 \in 1 .. 3 /\ Same(Must(x), Must(y), c, z)
        BY <1>1, OneSame
      <3> QED
        BY <3>1, <3>2, RepeatSame
    <2> QED
      BY <2>1, <2>2, <2>3, <2>4
  <1>2. CASE Agree(p, q)
    BY <1>1, <1>2
  <1>3. CASE Len(p.rest) < 2
    <2>0. /\ Same(p, p, p.rest, Following) /\ Agree(p, p) /\ Following \in Bytes
          /\ IsProgress(p) /\ TailOf(p.rest, b)
      BY SameAgree
    <2>1. At(ACLRest(p, n), p.rest)
      BY <1>1, <2>0 DEF Same
    <2> QED
      BY <1>3, <2>0, <2>1, Ended
  <1> QED
    BY <1>2, <1>3, SameAgree

XreadRest(x, n) ==
    LET block == x.args[1] = "BLOCK"
        left  == IF block THEN n - 3 ELSE n - 1
        keys  == IF block THEN Maybe(Maybe(x)) ELSE x
    IN  IF x.status # "go" THEN x
        ELSE IF x.args[1] \notin {"BLOCK", "STREAMS"} THEN Refuse(x)
        ELSE IF left % 2 # 0 THEN Refuse(keys)
        ELSE Repeat(keys, left, 1, "go")

LEMMA XreadRestSame ==
    ASSUME NEW b, NEW s \in Bytes, NEW p, NEW q, Same(p, q, b, s), NEW n \in Int
    PROVE  Same(XreadRest(p, n), XreadRest(q, n), b, s)
  <1>1. ASSUME NEW x, NEW y, NEW c, NEW z \in Bytes, Same(x, y, c, z), Agree(x, y)
        PROVE  Same(XreadRest(x, n), XreadRest(y, n), c, z)
    <2>0. x.status = y.status /\ x.args = y.args
      BY <1>1 DEF Agree
    <2> DEFINE a == x.args[1]
    <2>1. CASE x.status # "go"
      <3>1. XreadRest(x, n) = x /\ XreadRest(y, n) = y
        BY <2>0, <2>1 DEF XreadRest
      <3> QED
        BY <1>1, <3>1
    <2>2. CASE x.status = "go" /\ a \notin {"BLOCK", "STREAMS"}
      <3>1. XreadRest(x, n) = Refuse(x) /\ XreadRest(y, n) = Refuse(y)
        BY <2>0, <2>2 DEF XreadRest
      <3> QED
        BY <1>1, <3>1, RefuseSame
    <2>3. CASE x.status = "go" /\ a = "STREAMS"
      <3> DEFINE l == n - 1
      <3>0. a # "BLOCK"
        BY <2>3
      <3>1. CASE l % 2 # 0
        <4>1. XreadRest(x, n) = Refuse(x) /\ XreadRest(y, n) = Refuse(y)
          BY <2>0, <2>3, <3>0, <3>1 DEF XreadRest
        <4> QED
          BY <1>1, <4>1, RefuseSame
      <3>2. CASE ~(l % 2 # 0)
        <4>1. /\ XreadRest(x, n) = Repeat(x, l, 1, "go")
              /\ XreadRest(y, n) = Repeat(y, l, 1, "go")
          BY <2>0, <2>3, <3>0, <3>2 DEF XreadRest
        <4>2. l \in Int /\ 1 \in 1 .. 3
          OBVIOUS
        <4> QED
          BY <1>1, <4>1, <4>2, RepeatSame
      <3> QED
        BY <3>1, <3>2
    <2>4. CASE x.status = "go" /\ a = "BLOCK"
      <3> DEFINE l == n - 3
                 u == Maybe(Maybe(x))
                 v == Maybe(Maybe(y))
      <3>0. Same(u, v, c, z)
        BY <1>1, OneSame
      <3>1. CASE l % 2 # 0
        <4>1. XreadRest(x, n) = Refuse(u) /\ XreadRest(y, n) = Refuse(v)
          BY <2>0, <2>4, <3>1 DEF XreadRest
        <4> QED
          BY <3>0, <4>1, RefuseSame
      <3>2. CASE ~(l % 2 # 0)
        <4>1. /\ XreadRest(x, n) = Repeat(u, l, 1, "go")
              /\ XreadRest(y, n) = Repeat(v, l, 1, "go")
          BY <2>0, <2>4, <3>2 DEF XreadRest
        <4>2. l \in Int /\ 1 \in 1 .. 3
          OBVIOUS
        <4> QED
          BY <3>0, <4>1, <4>2, RepeatSame
      <3> QED
        BY <3>1, <3>2
    <2> QED
      BY <2>1, <2>2, <2>3, <2>4
  <1>2. CASE Agree(p, q)
    BY <1>1, <1>2
  <1>3. CASE Len(p.rest) < 2
    <2>0. /\ Same(p, p, p.rest, Following) /\ Agree(p, p) /\ Following \in Bytes
          /\ IsProgress(p) /\ TailOf(p.rest, b)
      BY SameAgree
    <2>1. At(XreadRest(p, n), p.rest)
      BY <1>1, <2>0 DEF Same
    <2> QED
      BY <1>3, <2>0, <2>1, Ended
  <1> QED
    BY <1>2, <1>3, SameAgree

-----------------------------------------------------------------------------
(* The options of SET.                                                     *)

SetArgs(before, flag, value) ==
    IF value.type = "BULK_STRING" /\ value.text \in Numbers
    THEN flag.args \o <<value.text>> ELSE before.args

\* The progress has nothing to read.
NoOption(p, left) == p.status # "go" \/ left <= 0

\* The option takes a value.
TakesValue(flag, left) == flag.args[Len(flag.args)] \in {"EX", "PX"} /\ left > 1

LEMMA SetOptionFacts ==
    ASSUME NEW p, IsProgress(p), NEW left \in Int, NEW F, F = Until(p), IsProgress(F),
           NEW V, V = Parse(F.rest)
    PROVE  /\ NoOption(p, left) => SetOptionTaken(p, left) = [p |-> p, left |-> left]
           /\ ~NoOption(p, left) /\ F.status = "stop" =>
                SetOptionTaken(p, left) = [p |-> F, left |-> left]
           /\ ~NoOption(p, left) /\ F.status # "stop" /\ TakesValue(F, left) =>
                SetOptionTaken(p, left) =
                    [p |-> [status |-> F.status, args |-> SetArgs(p, F, V), rest |-> V.rest],
                     left |-> left - 2]
           /\ ~NoOption(p, left) /\ F.status # "stop" /\ ~TakesValue(F, left) =>
                SetOptionTaken(p, left) =
                    [p |-> [status |-> F.status, args |-> p.args, rest |-> F.rest],
                     left |-> left - 1]
  <1> DEFINE A == SetArgs(p, F, V)
             re == V.rest
             kept == [F EXCEPT !.args = A, !.rest = re]
             skipped == [F EXCEPT !.args = p.args]
  <1>1. SetOptionTaken(p, left) =
            IF p.status # "go" \/ left <= 0 THEN [p |-> p, left |-> left]
            ELSE IF F.status = "stop" THEN [p |-> F, left |-> left]
            ELSE IF F.args[Len(F.args)] \in {"EX", "PX"} /\ left > 1
            THEN [p |-> [F EXCEPT !.args = IF V.type = "BULK_STRING" /\ V.text \in Numbers
                                           THEN @ \o <<V.text>> ELSE p.args,
                                  !.rest = V.rest],
                  left |-> left - 2]
            ELSE [p |-> [F EXCEPT !.args = p.args], left |-> left - 1]
    BY Zenon DEF SetOptionTaken
  <1>2. skipped = [status |-> F.status, args |-> p.args, rest |-> F.rest]
    BY DEF IsProgress
  <1>3. kept = [status |-> F.status, args |-> A, rest |-> re]
    <2> DEFINE q == [status |-> F.status, args |-> A, rest |-> F.rest]
    <2> HIDE DEF A, re
    <2>1. [F EXCEPT !.args = A] = q
      BY DEF IsProgress
    <2>2. [q EXCEPT !.rest = re] = [status |-> F.status, args |-> A, rest |-> re]
      OBVIOUS
    <2> HIDE DEF q
    <2>3. [F EXCEPT !.args = A, !.rest = re] = [q EXCEPT !.rest = re]
      BY <2>1, Zenon
    <2> QED
      BY <2>2, <2>3, Zenon
  <1>4. [F EXCEPT !.args = IF V.type = "BULK_STRING" /\ V.text \in Numbers
                           THEN @ \o <<V.text>> ELSE p.args,
                  !.rest = V.rest] = kept
    BY Zenon DEF SetArgs
  <1> HIDE DEF kept, skipped
  <1>5. SetOptionTaken(p, left) =
            IF NoOption(p, left) THEN [p |-> p, left |-> left]
            ELSE IF F.status = "stop" THEN [p |-> F, left |-> left]
            ELSE IF TakesValue(F, left) THEN [p |-> kept, left |-> left - 2]
            ELSE [p |-> skipped, left |-> left - 1]
    BY <1>1, <1>4, Zenon DEF NoOption, TakesValue, skipped
  <1>6. CASE NoOption(p, left)
    BY <1>5, <1>6
  <1>7. CASE ~NoOption(p, left) /\ F.status = "stop"
    BY <1>5, <1>7
  <1>8. CASE ~NoOption(p, left) /\ F.status # "stop" /\ TakesValue(F, left)
    BY <1>3, <1>5, <1>8
  <1>9. CASE ~NoOption(p, left) /\ F.status # "stop" /\ ~TakesValue(F, left)
    BY <1>2, <1>5, <1>9 DEF skipped
  <1> QED
    BY <1>6, <1>7, <1>8, <1>9

\* An option moves the position on, from the place behind its word.
LEMMA SetOptionAt ==
    ASSUME NEW p, NEW b, At(p, b), NEW left \in Int
    PROVE  /\ At(SetOptionTaken(p, left).p, b) /\ SetOptionTaken(p, left).left \in Int
           /\ At(Until(p), b)
           /\ NoOption(p, left) \/ At(SetOptionTaken(p, left).p, Until(p).rest)
  <1> DEFINE F == Until(p)
             V == Parse(F.rest)
             R == SetOptionTaken(p, left)
  <1>1. IsProgress(p) /\ At(F, b) /\ IsProgress(F) /\ TailOf(F.rest, b) /\ F.rest \in Bytes
    <2>1. IsProgress(p) /\ At(F, b)
      BY GroupAt DEF At, Until
    <2> QED
      BY <2>1 DEF At, IsProgress
  <1>2. TailOf(V.rest, F.rest) /\ V.rest \in Bytes
    BY <1>1, ParseIsTail DEF TailOf
  <1>3. TailOf(V.rest, b)
    BY <1>1, <1>2, TailTrans
  <1>4. TailOf(F.rest, F.rest)
    BY <1>1, TailRefl
  <1>5. CASE NoOption(p, left)
    <2>1. R = [p |-> p, left |-> left]
      BY <1>1, <1>5, SetOptionFacts
    <2> QED
      BY <1>1, <1>5, <2>1
  <1>6. CASE ~NoOption(p, left) /\ F.status = "stop"
    <2>1. R = [p |-> F, left |-> left]
      BY <1>1, <1>6, SetOptionFacts
    <2>2. At(F, F.rest)
      BY <1>1, <1>4 DEF At
    <2> QED
      BY <1>1, <2>1, <2>2
  <1>7. CASE ~NoOption(p, left) /\ F.status # "stop" /\ TakesValue(F, left)
    <2> DEFINE A == SetArgs(p, F, V)
               g == [status |-> F.status, args |-> A, rest |-> V.rest]
    <2>1. R = [p |-> g, left |-> left - 2]
      BY <1>1, <1>7, SetOptionFacts
    <2>2. At(g, b) /\ At(g, F.rest)
      <3> HIDE DEF A, V
      <3> QED
        BY <1>1, <1>2, <1>3 DEF At, IsProgress
    <2> HIDE DEF g
    <2> QED
      BY <1>1, <2>1, <2>2
  <1>8. CASE ~NoOption(p, left) /\ F.status # "stop" /\ ~TakesValue(F, left)
    <2> DEFINE g == [status |-> F.status, args |-> p.args, rest |-> F.rest]
    <2>1. R = [p |-> g, left |-> left - 1]
      BY <1>1, <1>8, SetOptionFacts
    <2>2. At(g, b) /\ At(g, F.rest)
      <3> HIDE DEF F
      <3> QED
        BY <1>1, <1>4 DEF At, IsProgress
    <2> HIDE DEF g
    <2> QED
      BY <1>1, <2>1, <2>2
  <1> QED
    BY <1>5, <1>6, <1>7, <1>8

\* The progress and what is left of total_commands.
SameOption(o, u, b, s) ==
    /\ Same(o.p, u.p, b, s)
    /\ o.left \in Int
    /\ Len(o.p.rest) < 2 \/ o.left = u.left

LEMMA SetOptionLive ==
    ASSUME NEW s \in Bytes, NEW p, NEW q, NEW b, At(p, b), Live(p, q, s), NEW left \in Int
    PROVE  \/ Len(SetOptionTaken(p, left).p.rest) < 2
           \/ /\ Live(SetOptionTaken(p, left).p, SetOptionTaken(q, left).p, s)
              /\ SetOptionTaken(p, left).left = SetOptionTaken(q, left).left
  <1> DEFINE F == Until(p)
             G == Until(q)
             V == Parse(F.rest)
             W == Parse(G.rest)
             R == SetOptionTaken(p, left)
             T == SetOptionTaken(q, left)
  <1>1. /\ IsProgress(p) /\ IsProgress(q) /\ p.status = q.status /\ p.args = q.args
        /\ At(F, b) /\ IsProgress(F) /\ F.rest \in Bytes
    <2>1. At(F, b) /\ IsProgress(p) /\ IsProgress(q)
      BY SetOptionAt DEF Live
    <2> QED
      BY <2>1 DEF At, IsProgress, Live
  <1>2. CASE NoOption(p, left)
    <2>1. NoOption(q, left)
      BY <1>1, <1>2 DEF NoOption
    <2>2. At(q, q.rest)
      BY <1>1, TailRefl DEF At, IsProgress
    <2>3. IsProgress(G)
      BY <2>2, SetOptionAt DEF At
    <2>4. R = [p |-> p, left |-> left] /\ T = [p |-> q, left |-> left]
      BY <1>1, <1>2, <2>1, <2>3, SetOptionFacts
    <2> QED
      BY <2>4
  <1>3. CASE ~NoOption(p, left) /\ Len(F.rest) < 2
    <2>1. TailOf(R.p.rest, F.rest)
      BY <1>3, SetOptionAt DEF At
    <2>2. Len(R.p.rest) <= Len(F.rest) /\ Len(R.p.rest) \in Nat /\ Len(F.rest) \in Nat
      BY <2>1 DEF TailOf, Bytes
    <2> QED
      BY <1>3, <2>2
  <1>4. CASE ~NoOption(p, left) /\ ~(Len(F.rest) < 2)
    <2>1. Live(F, G, s)
      BY <1>4, GroupLive DEF Until
    <2>2. /\ IsProgress(F) /\ IsProgress(G) /\ F.status = G.status /\ F.args = G.args
          /\ Alike(F.rest, G.rest, s) /\ G.rest \in Bytes
      BY <2>1 DEF Live, IsProgress
    <2>3. /\ ~NoOption(q, left)
          /\ TakesValue(F, left) <=> TakesValue(G, left)
      BY <1>1, <1>4, <2>2 DEF NoOption, TakesValue
    <2>4. CASE F.status = "stop"
      <3>1. R = [p |-> F, left |-> left]
        BY <1>1, <1>4, <2>2, <2>4, SetOptionFacts
      <3>2. T = [p |-> G, left |-> left]
        <4>1. G.status = "stop"
          BY <2>2, <2>4
        <4> QED
          BY <1>1, <2>2, <2>3, <4>1, SetOptionFacts
      <3> QED
        BY <2>1, <3>1, <3>2
    <2>5. CASE F.status # "stop" /\ TakesValue(F, left)
      <3> DEFINE A == SetArgs(p, F, V)
                 B == SetArgs(q, G, W)
                 f == [status |-> F.status, args |-> A, rest |-> V.rest]
                 g == [status |-> G.status, args |-> B, rest |-> W.rest]
      <3>1. R = [p |-> f, left |-> left - 2] /\ T = [p |-> g, left |-> left - 2]
        BY <1>1, <1>4, <2>2, <2>3, <2>5, SetOptionFacts
      <3>2. V.rest \in Bytes /\ W.rest \in Bytes
        BY <1>1, <2>2, ParseIsTail DEF TailOf
      <3>3. CASE Len(V.rest) < 2
        <4>1. R.p.rest = V.rest
          BY <3>1
        <4> QED
          BY <3>3, <4>1
      <3>4. CASE ~(Len(V.rest) < 2)
        <4>1. V.type = W.type /\ V.text = W.text /\ Alike(V.rest, W.rest, s)
          BY <2>2, <3>4, ParseAlike
        <4>2. A = B
          <5> HIDE DEF F, G, V, W
          <5> QED
            BY <1>1, <2>2, <4>1 DEF SetArgs
        <4>3. Live(f, g, s)
          <5> HIDE DEF A, B, V, W, F, G
          <5> QED
            BY <2>2, <3>2, <4>1, <4>2 DEF Live, IsProgress
        <4> HIDE DEF f, g
        <4> QED
          BY <3>1, <4>3
      <3> QED
        BY <3>3, <3>4
    <2>6. CASE F.status # "stop" /\ ~TakesValue(F, left)
      <3> DEFINE f == [status |-> F.status, args |-> p.args, rest |-> F.rest]
                 g == [status |-> G.status, args |-> q.args, rest |-> G.rest]
      <3>1. R = [p |-> f, left |-> left - 1] /\ T = [p |-> g, left |-> left - 1]
        BY <1>1, <1>4, <2>2, <2>3, <2>6, SetOptionFacts
      <3>2. Live(f, g, s)
        <4> HIDE DEF F, G
        <4> QED
          BY <1>1, <2>2 DEF Live, IsProgress
      <3> HIDE DEF f, g
      <3> QED
        BY <3>1, <3>2
    <2> QED
      BY <2>4, <2>5, <2>6
  <1> QED
    BY <1>2, <1>3, <1>4

LEMMA SetOptionSame ==
    ASSUME NEW b, NEW s \in Bytes, NEW o, NEW u, SameOption(o, u, b, s)
    PROVE  SameOption(SetOption(o), SetOption(u), b, s)
  <1> DEFINE R == SetOptionTaken(o.p, o.left)
             T == SetOptionTaken(u.p, u.left)
  <1>1. SetOption(o) = R /\ SetOption(u) = T
    <2>1. \A v : {SetOptionTaken(x.p, x.left) : x \in {v}} = {SetOptionTaken(v.p, v.left)}
      OBVIOUS
    <2> QED
      BY <2>1 DEF SetOption, TheOne
  <1>2. At(o.p, b) /\ o.left \in Int /\ Same(o.p, u.p, b, s)
    BY DEF SameOption, Same
  <1>3. At(R.p, b) /\ R.left \in Int
    BY <1>2, SetOptionAt
  <1>4. CASE Len(o.p.rest) < 2
    <2>1. At(o.p, o.p.rest) /\ IsProgress(o.p) /\ TailOf(o.p.rest, b)
      BY <1>2, SameAgree
    <2>2. At(R.p, o.p.rest)
      BY <1>2, <2>1, SetOptionAt
    <2>3. Same(R.p, T.p, b, s)
      BY <1>4, <2>1, <2>2, Ended
    <2>4. Len(R.p.rest) < 2
      <3>1. Len(R.p.rest) <= Len(o.p.rest) /\ Len(R.p.rest) \in Nat /\ Len(o.p.rest) \in Nat
        BY <2>2 DEF At, TailOf, Bytes
      <3> QED
        BY <1>4, <3>1
    <2> QED
      BY <1>1, <1>3, <2>3, <2>4 DEF SameOption
  <1>5. CASE ~(Len(o.p.rest) < 2) /\ s = Following /\ o.p = u.p
    <2>1. R = T
      BY <1>5 DEF SameOption
    <2> QED
      BY <1>1, <1>3, <1>5, <2>1 DEF SameOption, Same
  <1>6. CASE ~(Len(o.p.rest) < 2) /\ Live(o.p, u.p, s)
    <2>1. o.left = u.left
      BY <1>6 DEF SameOption
    <2>2. \/ Len(R.p.rest) < 2
          \/ Live(R.p, T.p, s) /\ R.left = T.left
      BY <1>2, <1>6, <2>1, SetOptionLive
    <2> QED
      BY <1>1, <1>3, <2>2 DEF SameOption, Same
  <1> QED
    BY <1>2, <1>4, <1>5, <1>6 DEF Same

Options(kv, n, f) ==
    f[0] = kv /\ \A j \in 1 .. n : f[j] = SetOption(f[j - 1])

KeyValue(p, n) == [p |-> Must(Must(p)), left |-> n - 2]

LEMMA SetSteps ==
    ASSUME NEW p, NEW total \in Int, total - 2 \in Nat, total > 2
    PROVE  \E f : Options(KeyValue(p, total), total - 2, f) /\ parseSetCommand(p, total) = f[total - 2].p
  <1> DEFINE N         == total - 2
             Step1(x, j) == SetOption(x)
             Good(n, f) == f = [j \in 0 .. n |-> IF j = 0 THEN KeyValue(p, total) ELSE Step1(f[j - 1], j)]
             g         == CHOOSE f : Good(N, f)
  <1>1. parseSetCommand(p, total) = g[N].p
    BY DEF parseSetCommand, KeyValue
  <1>2. N \in Nat
    OBVIOUS
  <1> HIDE DEF N, Step1
  <1> DEFINE S == {n \in 0 .. N : \E f : Good(n, f)}
  <1>3. 0 \in S
    <2>1. Good(0, [j \in 0 .. 0 |-> KeyValue(p, total)])
      OBVIOUS
    <2> HIDE DEF Good
    <2> QED
      BY <1>2, <2>1
  <1>4. \A n \in 0 .. N - 1 : n \in S => n + 1 \in S
    <2>0. \A n \in 0 .. N - 1 : n + 1 \in 0 .. N
      BY <1>2
    <2> HIDE DEF Good
    <2> SUFFICES ASSUME NEW n \in 0 .. N - 1, n \in S
                 PROVE  \E h : Good(n + 1, h)
      BY <2>0
    <2> USE DEF Good
    <2>1. PICK f : Good(n, f)
      OBVIOUS
    <2> DEFINE h == [j \in 0 .. n + 1 |-> IF j = n + 1 THEN Step1(f[n], j) ELSE f[j]]
    <2>2. \A j \in 0 .. n : f[j] = IF j = 0 THEN KeyValue(p, total) ELSE Step1(f[j - 1], j)
      BY <2>1
    <2>3. \A j \in 0 .. n + 1 : h[j] = IF j = 0 THEN KeyValue(p, total) ELSE Step1(h[j - 1], j)
      <3> SUFFICES ASSUME NEW j \in 0 .. n + 1
                   PROVE  h[j] = IF j = 0 THEN KeyValue(p, total) ELSE Step1(h[j - 1], j)
        OBVIOUS
      <3>1. CASE j = n + 1
        <4>1. j # 0 /\ j - 1 = n /\ n \in 0 .. n + 1 /\ n # n + 1
          BY <1>2, <3>1
        <4> QED
          BY <3>1, <4>1
      <3>2. CASE j # n + 1
        <4>1. j \in 0 .. n /\ (j # 0 => j - 1 \in 0 .. n + 1 /\ j - 1 # n + 1)
          BY <1>2, <3>2
        <4> QED
          BY <2>2, <3>2, <4>1
      <3> QED
        BY <3>1, <3>2
    <2>4. Good(n + 1, h)
      <3>1. h = [j \in 0 .. n + 1 |-> h[j]]
        OBVIOUS
      <3> HIDE DEF h
      <3> QED
        BY <2>3, <3>1
    <2> HIDE DEF Good, h
    <2> QED
      BY <2>4
  <1>5. \E f : Good(N, f)
    <2> HIDE DEF S
    <2>1. 0 .. N \subseteq S
      BY <1>2, <1>3, <1>4, BoundedInduction
    <2>2. N \in S
      BY <1>2, <2>1
    <2> QED
      BY <2>2 DEF S
  <1>6. Good(N, g)
    <2> HIDE DEF Good
    <2> QED
      BY <1>5
  <1>7. \A j \in 0 .. N : g[j] = IF j = 0 THEN KeyValue(p, total) ELSE Step1(g[j - 1], j)
    <2> HIDE DEF g
    <2> QED
      BY <1>6
  <1> HIDE DEF g
  <1>8. g[0] = KeyValue(p, total) /\ \A j \in 1 .. N : g[j] = Step1(g[j - 1], j)
    BY <1>2, <1>7
  <1>9. Options(KeyValue(p, total), total - 2, g)
    BY <1>8 DEF Options, N, Step1
  <1> QED
    BY <1>1, <1>9 DEF N

LEMMA SetSame ==
    ASSUME NEW b, NEW s \in Bytes, NEW p, NEW q, Same(p, q, b, s), NEW n \in Int
    PROVE  Same(parseSetCommand(p, n), parseSetCommand(q, n), b, s)
  <1>0. Same(Must(Must(p)), Must(Must(q)), b, s)
    BY OneSame
  <1>1. CASE ~(n > 2)
    <2>1. parseSetCommand(p, n) = Must(Must(p)) /\ parseSetCommand(q, n) = Must(Must(q))
      BY <1>1 DEF parseSetCommand
    <2> QED
      BY <1>0, <2>1
  <1>2. CASE n > 2
    <2> DEFINE m == n - 2
    <2>0. m \in Nat
      BY <1>2
    <2>1. PICK f : Options(KeyValue(p, n), m, f) /\ parseSetCommand(p, n) = f[m].p
      BY <1>2, <2>0, SetSteps
    <2>2. PICK g : Options(KeyValue(q, n), m, g) /\ parseSetCommand(q, n) = g[m].p
      BY <1>2, <2>0, SetSteps
    <2>3. SameOption(KeyValue(p, n), KeyValue(q, n), b, s)
      BY <1>0 DEF SameOption, KeyValue
    <2> HIDE DEF m
    <2> DEFINE S == {j \in 0 .. m : SameOption(f[j], g[j], b, s)}
    <2>4. 0 \in S
      BY <2>0, <2>1, <2>2, <2>3 DEF Options
    <2>5. \A j \in 0 .. m - 1 : j \in S => j + 1 \in S
      <3> SUFFICES ASSUME NEW j \in 0 .. m - 1, SameOption(f[j], g[j], b, s)
                   PROVE  SameOption(f[j + 1], g[j + 1], b, s)
        BY <2>0
      <3>1. j + 1 \in 1 .. m /\ (j + 1) - 1 = j
        BY <2>0
      <3>2. f[j + 1] = SetOption(f[j]) /\ g[j + 1] = SetOption(g[j])
        BY <2>1, <2>2, <3>1 DEF Options
      <3> QED
        BY <3>2, SetOptionSame
    <2>6. 0 .. m \subseteq S
      <3> HIDE DEF S
      <3> QED
        BY <2>0, <2>4, <2>5, BoundedInduction
    <2>7. m \in S
      BY <2>0, <2>6
    <2> QED
      BY <2>1, <2>2, <2>7 DEF SameOption
  <1> QED
    BY <1>1, <1>2

-----------------------------------------------------------------------------
(* All parsers.                                                            *)

\* The key and the last triple.
LastTriple(args) ==
    IF Len(args) > 4 THEN SubSeq(args, 1, 1) \o SubSeq(args, Len(args) - 2, Len(args))
    ELSE args

LEMMA GeoAddSame ==
    ASSUME NEW b, NEW s \in Bytes, NEW p, NEW q, Same(p, q, b, s), NEW n \in Int
    PROVE  Same(parseGeoAddCommand(p, n), parseGeoAddCommand(q, n), b, s)
  <1> DEFINE m == (n - 1) \div 3
             x == Repeat(Must(p), m, 3, "stop")
             y == Repeat(Must(q), m, 3, "stop")
             Kept(all) == [status |-> all.status, args |-> LastTriple(all.args), rest |-> all.rest]
  <1>1. m \in Int /\ 3 \in 1 .. 3
    OBVIOUS
  <1> HIDE DEF m
  <1>2. Same(x, y, b, s)
    BY <1>1, OneSame, RepeatSame
  <1> DEFINE Upd(all) == [all EXCEPT !.args = IF Len(@) > 4
                                    THEN SubSeq(@, 1, 1) \o SubSeq(@, Len(@) - 2, Len(@))
                                    ELSE @]
  <1>3. ASSUME NEW all, IsProgress(all)
        PROVE  /\ IsProgress(Upd(all)) /\ Upd(all).rest = all.rest
               /\ Upd(all).status = all.status /\ Upd(all).args = LastTriple(all.args)
    <2> DEFINE A == LastTriple(all.args)
               U == Upd(all)
    <2>1. U = [all EXCEPT !.args = A]
      BY Zenon DEF LastTriple
    <2> HIDE DEF A
    <2>2. [all EXCEPT !.args = A] = [status |-> all.status, args |-> A, rest |-> all.rest]
      BY <1>3 DEF IsProgress
    <2> HIDE DEF U
    <2>3. U = [status |-> all.status, args |-> A, rest |-> all.rest]
      BY <2>1, <2>2, Zenon
    <2>4. IsProgress(U) /\ U.rest = all.rest /\ U.status = all.status /\ U.args = A
      BY <1>3, <2>3 DEF IsProgress
    <2> QED
      BY <2>4 DEF U, A
  <1>4. IsProgress(x) /\ (Live(x, y, s) => IsProgress(y) /\ x.status = y.status /\ x.args = y.args)
    BY <1>2 DEF Same, At, Live
  <1> DEFINE v == parseGeoAddCommand(p, n)
             w == parseGeoAddCommand(q, n)
  <1>5. v = Upd(x) /\ w = Upd(y)
    BY Zenon DEF parseGeoAddCommand, m
  <1> HIDE DEF Upd, v, w, x, y
  <1>6. /\ IsProgress(v) /\ v.rest = x.rest
        /\ v.status = x.status /\ v.args = LastTriple(x.args)
    BY <1>3, <1>4, <1>5
  <1>7. Live(x, y, s) =>
            /\ IsProgress(w) /\ w.rest = y.rest
            /\ v.status = w.status /\ v.args = w.args
    <2> HAVE Live(x, y, s)
    <2>1. /\ IsProgress(w) /\ w.rest = y.rest
          /\ w.status = y.status /\ w.args = LastTriple(y.args)
      BY <1>3, <1>4, <1>5
    <2> QED
      BY <1>4, <1>6, <2>1
  <1>8. x = y => v = w
    BY <1>5
  <1>9. Same(v, w, b, s)
    BY <1>2, <1>6, <1>7, <1>8, KeptSame
  <1> QED
    BY <1>9 DEF v, w

\* Whatever the command, its parser moves the position towards the end of the
\* buffer, and what it finds does not depend on the bytes behind those it takes.
LEMMA ParsersSame ==
    ASSUME NEW b, NEW s \in Bytes, NEW p, NEW q, Same(p, q, b, s), NEW n \in Int
    PROVE
      /\ Same(parsePingCommand(p), parsePingCommand(q), b, s)
      /\ Same(parseEchoCommand(p), parseEchoCommand(q), b, s)
      /\ Same(parseSetCommand(p, n), parseSetCommand(q, n), b, s)
      /\ Same(parseGetCommand(p), parseGetCommand(q), b, s)
      /\ Same(parseTypeCommand(p), parseTypeCommand(q), b, s)
      /\ Same(parseIncrCommand(p), parseIncrCommand(q), b, s)
      /\ Same(parseRpushCommand(p, n), parseRpushCommand(q, n), b, s)
      /\ Same(parseLpushCommand(p, n), parseLpushCommand(q, n), b, s)
      /\ Same(parseLrangeCommand(p), parseLrangeCommand(q), b, s)
      /\ Same(parseLlenCommand(p), parseLlenCommand(q), b, s)
      /\ Same(parseLpopCommand(p, n), parseLpopCommand(q, n), b, s)
      /\ Same(parseBlpopCommand(p, n), parseBlpopCommand(q, n), b, s)
      /\ Same(parseXaddCommand(p, n), parseXaddCommand(q, n), b, s)
      /\ Same(parseXrangeCommand(p), parseXrangeCommand(q), b, s)
      /\ Same(parseXreadCommand(p, n), parseXreadCommand(q, n), b, s)
      /\ Same(parseMultiCommand(p), parseMultiCommand(q), b, s)
      /\ Same(parseExecCommand(p), parseExecCommand(q), b, s)
      /\ Same(parseDiscardCommand(p), parseDiscardCommand(q), b, s)
      /\ Same(parseInfoCommand(p), parseInfoCommand(q), b, s)
      /\ Same(parseReplConfCommand(p), parseReplConfCommand(q), b, s)
      /\ Same(parsePsyncCommand(p, n), parsePsyncCommand(q, n), b, s)
      /\ Same(parseWaitCommand(p), parseWaitCommand(q), b, s)
      /\ Same(parseGetConfigCommand(p, n), parseGetConfigCommand(q, n), b, s)
      /\ Same(parseKeysCommand(p), parseKeysCommand(q), b, s)
      /\ Same(parseSubScribeCommand(p), parseSubScribeCommand(q), b, s)
      /\ Same(parsePublishCommand(p), parsePublishCommand(q), b, s)
      /\ Same(parseUnsubscribeCommand(p), parseUnsubscribeCommand(q), b, s)
      /\ Same(parseZaddCommand(p, n), parseZaddCommand(q, n), b, s)
      /\ Same(parseZrankCommand(p), parseZrankCommand(q), b, s)
      /\ Same(parseZrangeCommand(p), parseZrangeCommand(q), b, s)
      /\ Same(parseZcardCommand(p), parseZcardCommand(q), b, s)
      /\ Same(parseZscoreCommand(p), parseZscoreCommand(q), b, s)
      /\ Same(parseZremCommand(p, n), parseZremCommand(q, n), b, s)
      /\ Same(parseGeoAddCommand(p, n), parseGeoAddCommand(q, n), b, s)
      /\ Same(parseGeoPosCommand(p, n), parseGeoPosCommand(q, n), b, s)
      /\ Same(parseGeoDistCommand(p), parseGeoDistCommand(q), b, s)
      /\ Same(parseGeoSearchCommand(p), parseGeoSearchCommand(q), b, s)
      /\ Same(parseACLCommand(p, n), parseACLCommand(q, n), b, s)
      /\ Same(parseAuthCommand(p), parseAuthCommand(q), b, s)
  <1>a. n - 1 \in Int /\ 1 \in 1 .. 3
    OBVIOUS
  <1>b. (n - 2) \div 2 \in Int /\ 2 \in 1 .. 3
    OBVIOUS
  <1>c. (n - 1) \div 2 \in Int /\ 2 \in 1 .. 3
    OBVIOUS
  <1>1. Same(parsePingCommand(p), parsePingCommand(q), b, s)
    BY DEF parsePingCommand
  <1>2. Same(parseEchoCommand(p), parseEchoCommand(q), b, s)
    BY OneSame DEF parseEchoCommand
  <1>3. Same(parseSetCommand(p, n), parseSetCommand(q, n), b, s)
    BY SetSame
  <1>4. Same(parseGetCommand(p), parseGetCommand(q), b, s)
    BY OneSame DEF parseGetCommand
  <1>5. Same(parseTypeCommand(p), parseTypeCommand(q), b, s)
    BY OneSame DEF parseTypeCommand
  <1>6. Same(parseIncrCommand(p), parseIncrCommand(q), b, s)
    BY OneSame DEF parseIncrCommand
  <1>7. Same(parseRpushCommand(p, n), parseRpushCommand(q, n), b, s)
    BY <1>a, OneSame, RepeatSame DEF parseRpushCommand
  <1>8. Same(parseLpushCommand(p, n), parseLpushCommand(q, n), b, s)
    BY <1>a, OneSame, RepeatSame DEF parseLpushCommand
  <1>9. Same(parseLrangeCommand(p), parseLrangeCommand(q), b, s)
    BY RepeatSame, NumbersSame DEF parseLrangeCommand
  <1>10. Same(parseLlenCommand(p), parseLlenCommand(q), b, s)
    BY OneSame DEF parseLlenCommand
  <1>11. Same(parseLpopCommand(p, n), parseLpopCommand(q, n), b, s)
    <2>1. CASE n > 1
      BY <2>1, OneSame DEF parseLpopCommand
    <2>2. CASE ~(n > 1)
      BY <2>2, OneSame DEF parseLpopCommand
    <2> QED
      BY <2>1, <2>2
  <1>12. Same(parseBlpopCommand(p, n), parseBlpopCommand(q, n), b, s)
    BY RepeatSame DEF parseBlpopCommand
  <1>13. Same(parseXaddCommand(p, n), parseXaddCommand(q, n), b, s)
    BY <1>b, OneSame, RepeatSame DEF parseXaddCommand
  <1>14. Same(parseXrangeCommand(p), parseXrangeCommand(q), b, s)
    BY RepeatSame DEF parseXrangeCommand
  <1>15. Same(parseXreadCommand(p, n), parseXreadCommand(q, n), b, s)
    <2>1. \A x : parseXreadCommand(x, n) = XreadRest(Must(x), n)
      BY DEF parseXreadCommand, XreadRest
    <2> QED
      BY <2>1, OneSame, XreadRestSame
  <1>16. Same(parseMultiCommand(p), parseMultiCommand(q), b, s)
    BY DEF parseMultiCommand
  <1>17. Same(parseExecCommand(p), parseExecCommand(q), b, s)
    BY DEF parseExecCommand
  <1>18. Same(parseDiscardCommand(p), parseDiscardCommand(q), b, s)
    BY DEF parseDiscardCommand
  <1>19. Same(parseInfoCommand(p), parseInfoCommand(q), b, s)
    BY OneSame DEF parseInfoCommand
  <1>20. Same(parseReplConfCommand(p), parseReplConfCommand(q), b, s)
    <2>1. \A x : parseReplConfCommand(x) = ReplConfRest(Must(x))
      BY DEF parseReplConfCommand, ReplConfRest
    <2> QED
      BY <2>1, OneSame, ReplConfRestSame
  <1>21. Same(parsePsyncCommand(p, n), parsePsyncCommand(q, n), b, s)
    <2>1. CASE n > 1
      BY <2>1, OneSame DEF parsePsyncCommand
    <2>2. CASE ~(n > 1)
      BY <2>2, OneSame DEF parsePsyncCommand
    <2> QED
      BY <2>1, <2>2
  <1>22. Same(parseWaitCommand(p), parseWaitCommand(q), b, s)
    BY OneSame DEF parseWaitCommand
  <1>23. Same(parseGetConfigCommand(p, n), parseGetConfigCommand(q, n), b, s)
    <2>1. \A x : parseGetConfigCommand(x, n) = GetConfigRest(Must(x), n)
      BY DEF parseGetConfigCommand, GetConfigRest
    <2> QED
      BY <2>1, OneSame, GetConfigRestSame
  <1>24. Same(parseKeysCommand(p), parseKeysCommand(q), b, s)
    BY OneSame DEF parseKeysCommand
  <1>25. Same(parseSubScribeCommand(p), parseSubScribeCommand(q), b, s)
    BY OneSame DEF parseSubScribeCommand
  <1>26. Same(parsePublishCommand(p), parsePublishCommand(q), b, s)
    BY OneSame DEF parsePublishCommand
  <1>27. Same(parseUnsubscribeCommand(p), parseUnsubscribeCommand(q), b, s)
    BY OneSame DEF parseUnsubscribeCommand
  <1>28. Same(parseZaddCommand(p, n), parseZaddCommand(q, n), b, s)
    BY <1>c, OneSame, RepeatSame DEF parseZaddCommand
  <1>29. Same(parseZrankCommand(p), parseZrankCommand(q), b, s)
    BY OneSame DEF parseZrankCommand
  <1>30. Same(parseZrangeCommand(p), parseZrangeCommand(q), b, s)
    BY RepeatSame, NumbersSame DEF parseZrangeCommand
  <1>31. Same(parseZcardCommand(p), parseZcardCommand(q), b, s)
    BY OneSame DEF parseZcardCommand
  <1>32. Same(parseZscoreCommand(p), parseZscoreCommand(q), b, s)
    BY OneSame DEF parseZscoreCommand
  <1>33. Same(parseZremCommand(p, n), parseZremCommand(q, n), b, s)
    BY <1>a, OneSame, RepeatSame DEF parseZremCommand
  <1>34. Same(parseGeoAddCommand(p, n), parseGeoAddCommand(q, n), b, s)
    BY GeoAddSame
  <1>35. Same(parseGeoPosCommand(p, n), parseGeoPosCommand(q, n), b, s)
    BY <1>a, OneSame, RepeatSame DEF parseGeoPosCommand
  <1>36. Same(parseGeoDistCommand(p), parseGeoDistCommand(q), b, s)
    BY RepeatSame DEF parseGeoDistCommand
  <1>37. Same(parseGeoSearchCommand(p), parseGeoSearchCommand(q), b, s)
    BY RepeatSame, OneSame, NumbersSame DEF parseGeoSearchCommand
  <1>38. Same(parseACLCommand(p, n), parseACLCommand(q, n), b, s)
    <2>1. CASE n < 1
      BY <2>1, RefuseSame DEF parseACLCommand
    <2>2. CASE ~(n < 1)
      <3>1. \A x : parseACLCommand(x, n) = ACLRest(Must(x), n)
        BY <2>2 DEF parseACLCommand, ACLRest
      <3> QED
        BY <3>1, OneSame, ACLRestSame
    <2> QED
      BY <2>1, <2>2
  <1>39. Same(parseAuthCommand(p), parseAuthCommand(q), b, s)
    BY OneSame DEF parseAuthCommand
  <1> QED
    BY <1>1, <1>2, <1>3, <1>4, <1>5, <1>6, <1>7, <1>8, <1>9, <1>10, <1>11,
       <1>12, <1>13, <1>14, <1>15, <1>16, <1>17, <1>18, <1>19, <1>20, <1>21,
       <1>22, <1>23, <1>24, <1>25, <1>26, <1>27, <1>28, <1>29, <1>30, <1>31,
       <1>32, <1>33, <1>34, <1>35, <1>36, <1>37, <1>38, <1>39, Zenon

LEMMA ArgumentsSame ==
    ASSUME NEW b, NEW s \in Bytes, NEW p, NEW q, Same(p, q, b, s), NEW n \in Int,
           NEW name \in Names
    PROVE  Same(Arguments(name, p, n), Arguments(name, q, n), b, s)
  <1>1. CASE name = "PING"
    <2>1. Arguments(name, p, n) = parsePingCommand(p) /\ Arguments(name, q, n) = parsePingCommand(q)
      BY <1>1 DEF Arguments
    <2> QED
      BY <2>1, ParsersSame
  <1>2. CASE name = "ECHO"
    <2>1. Arguments(name, p, n) = parseEchoCommand(p) /\ Arguments(name, q, n) = parseEchoCommand(q)
      BY <1>2 DEF Arguments
    <2> QED
      BY <2>1, ParsersSame
  <1>3. CASE name = "SET"
    <2>1. Arguments(name, p, n) = parseSetCommand(p, n) /\ Arguments(name, q, n) = parseSetCommand(q, n)
      BY <1>3 DEF Arguments
    <2> QED
      BY <2>1, ParsersSame
  <1>4. CASE name = "GET"
    <2>1. Arguments(name, p, n) = parseGetCommand(p) /\ Arguments(name, q, n) = parseGetCommand(q)
      BY <1>4 DEF Arguments
    <2> QED
      BY <2>1, ParsersSame
  <1>5. CASE name = "TYPE"
    <2>1. Arguments(name, p, n) = parseTypeCommand(p) /\ Arguments(name, q, n) = parseTypeCommand(q)
      BY <1>5 DEF Arguments
    <2> QED
      BY <2>1, ParsersSame
  <1>6. CASE name = "INCR"
    <2>1. Arguments(name, p, n) = parseIncrCommand(p) /\ Arguments(name, q, n) = parseIncrCommand(q)
      BY <1>6 DEF Arguments
    <2> QED
      BY <2>1, ParsersSame
  <1>7. CASE name = "RPUSH"
    <2>1. Arguments(name, p, n) = parseRpushCommand(p, n) /\ Arguments(name, q, n) = parseRpushCommand(q, n)
      BY <1>7 DEF Arguments
    <2> QED
      BY <2>1, ParsersSame
  <1>8. CASE name = "LPUSH"
    <2>1. Arguments(name, p, n) = parseLpushCommand(p, n) /\ Arguments(name, q, n) = parseLpushCommand(q, n)
      BY <1>8 DEF Arguments
    <2> QED
      BY <2>1, ParsersSame
  <1>9. CASE name = "LRANGE"
    <2>1. Arguments(name, p, n) = parseLrangeCommand(p) /\ Arguments(name, q, n) = parseLrangeCommand(q)
      BY <1>9 DEF Arguments
    <2> QED
      BY <2>1, ParsersSame
  <1>10. CASE name = "LLEN"
    <2>1. Arguments(name, p, n) = parseLlenCommand(p) /\ Arguments(name, q, n) = parseLlenCommand(q)
      BY <1>10 DEF Arguments
    <2> QED
      BY <2>1, ParsersSame
  <1>11. CASE name = "LPOP"
    <2>1. Arguments(name, p, n) = parseLpopCommand(p, n) /\ Arguments(name, q, n) = parseLpopCommand(q, n)
      BY <1>11 DEF Arguments
    <2> QED
      BY <2>1, ParsersSame
  <1>12. CASE name = "BLPOP"
    <2>1. Arguments(name, p, n) = parseBlpopCommand(p, n) /\ Arguments(name, q, n) = parseBlpopCommand(q, n)
      BY <1>12 DEF Arguments
    <2> QED
      BY <2>1, ParsersSame
  <1>13. CASE name = "XADD"
    <2>1. Arguments(name, p, n) = parseXaddCommand(p, n) /\ Arguments(name, q, n) = parseXaddCommand(q, n)
      BY <1>13 DEF Arguments
    <2> QED
      BY <2>1, ParsersSame
  <1>14. CASE name = "XRANGE"
    <2>1. Arguments(name, p, n) = parseXrangeCommand(p) /\ Arguments(name, q, n) = parseXrangeCommand(q)
      BY <1>14 DEF Arguments
    <2> QED
      BY <2>1, ParsersSame
  <1>15. CASE name = "XREAD"
    <2>1. Arguments(name, p, n) = parseXreadCommand(p, n) /\ Arguments(name, q, n) = parseXreadCommand(q, n)
      BY <1>15 DEF Arguments
    <2> QED
      BY <2>1, ParsersSame
  <1>16. CASE name = "MULTI"
    <2>1. Arguments(name, p, n) = parseMultiCommand(p) /\ Arguments(name, q, n) = parseMultiCommand(q)
      BY <1>16 DEF Arguments
    <2> QED
      BY <2>1, ParsersSame
  <1>17. CASE name = "EXEC"
    <2>1. Arguments(name, p, n) = parseExecCommand(p) /\ Arguments(name, q, n) = parseExecCommand(q)
      BY <1>17 DEF Arguments
    <2> QED
      BY <2>1, ParsersSame
  <1>18. CASE name = "DISCARD"
    <2>1. Arguments(name, p, n) = parseDiscardCommand(p) /\ Arguments(name, q, n) = parseDiscardCommand(q)
      BY <1>18 DEF Arguments
    <2> QED
      BY <2>1, ParsersSame
  <1>19. CASE name = "INFO"
    <2>1. Arguments(name, p, n) = parseInfoCommand(p) /\ Arguments(name, q, n) = parseInfoCommand(q)
      BY <1>19 DEF Arguments
    <2> QED
      BY <2>1, ParsersSame
  <1>20. CASE name = "REPLCONF"
    <2>1. Arguments(name, p, n) = parseReplConfCommand(p) /\ Arguments(name, q, n) = parseReplConfCommand(q)
      BY <1>20 DEF Arguments
    <2> QED
      BY <2>1, ParsersSame
  <1>21. CASE name = "PSYNC"
    <2>1. Arguments(name, p, n) = parsePsyncCommand(p, n) /\ Arguments(name, q, n) = parsePsyncCommand(q, n)
      BY <1>21 DEF Arguments
    <2> QED
      BY <2>1, ParsersSame
  <1>22. CASE name = "WAIT"
    <2>1. Arguments(name, p, n) = parseWaitCommand(p) /\ Arguments(name, q, n) = parseWaitCommand(q)
      BY <1>22 DEF Arguments
    <2> QED
      BY <2>1, ParsersSame
  <1>23. CASE name = "CONFIG"
    <2>1. Arguments(name, p, n) = parseGetConfigCommand(p, n) /\ Arguments(name, q, n) = parseGetConfigCommand(q, n)
      BY <1>23 DEF Arguments
    <2> QED
      BY <2>1, ParsersSame
  <1>24. CASE name = "KEYS"
    <2>1. Arguments(name, p, n) = parseKeysCommand(p) /\ Arguments(name, q, n) = parseKeysCommand(q)
      BY <1>24 DEF Arguments
    <2> QED
      BY <2>1, ParsersSame
  <1>25. CASE name = "SUBSCRIBE"
    <2>1. Arguments(name, p, n) = parseSubScribeCommand(p) /\ Arguments(name, q, n) = parseSubScribeCommand(q)
      BY <1>25 DEF Arguments
    <2> QED
      BY <2>1, ParsersSame
  <1>26. CASE name = "PUBLISH"
    <2>1. Arguments(name, p, n) = parsePublishCommand(p) /\ Arguments(name, q, n) = parsePublishCommand(q)
      BY <1>26 DEF Arguments
    <2> QED
      BY <2>1, ParsersSame
  <1>27. CASE name = "UNSUBSCRIBE"
    <2>1. Arguments(name, p, n) = parseUnsubscribeCommand(p) /\ Arguments(name, q, n) = parseUnsubscribeCommand(q)
      BY <1>27 DEF Arguments
    <2> QED
      BY <2>1, ParsersSame
  <1>28. CASE name = "ZADD"
    <2>1. Arguments(name, p, n) = parseZaddCommand(p, n) /\ Arguments(name, q, n) = parseZaddCommand(q, n)
      BY <1>28 DEF Arguments
    <2> QED
      BY <2>1, ParsersSame
  <1>29. CASE name = "ZRANK"
    <2>1. Arguments(name, p, n) = parseZrankCommand(p) /\ Arguments(name, q, n) = parseZrankCommand(q)
      BY <1>29 DEF Arguments
    <2> QED
      BY <2>1, ParsersSame
  <1>30. CASE name = "ZRANGE"
    <2>1. Arguments(name, p, n) = parseZrangeCommand(p) /\ Arguments(name, q, n) = parseZrangeCommand(q)
      BY <1>30 DEF Arguments
    <2> QED
      BY <2>1, ParsersSame
  <1>31. CASE name = "ZCARD"
    <2>1. Arguments(name, p, n) = parseZcardCommand(p) /\ Arguments(name, q, n) = parseZcardCommand(q)
      BY <1>31 DEF Arguments
    <2> QED
      BY <2>1, ParsersSame
  <1>32. CASE name = "ZSCORE"
    <2>1. Arguments(name, p, n) = parseZscoreCommand(p) /\ Arguments(name, q, n) = parseZscoreCommand(q)
      BY <1>32 DEF Arguments
    <2> QED
      BY <2>1, ParsersSame
  <1>33. CASE name = "ZREM"
    <2>1. Arguments(name, p, n) = parseZremCommand(p, n) /\ Arguments(name, q, n) = parseZremCommand(q, n)
      BY <1>33 DEF Arguments
    <2> QED
      BY <2>1, ParsersSame
  <1>34. CASE name = "GEOADD"
    <2>1. Arguments(name, p, n) = parseGeoAddCommand(p, n) /\ Arguments(name, q, n) = parseGeoAddCommand(q, n)
      BY <1>34 DEF Arguments
    <2> QED
      BY <2>1, ParsersSame
  <1>35. CASE name = "GEOPOS"
    <2>1. Arguments(name, p, n) = parseGeoPosCommand(p, n) /\ Arguments(name, q, n) = parseGeoPosCommand(q, n)
      BY <1>35 DEF Arguments
    <2> QED
      BY <2>1, ParsersSame
  <1>36. CASE name = "GEODIST"
    <2>1. Arguments(name, p, n) = parseGeoDistCommand(p) /\ Arguments(name, q, n) = parseGeoDistCommand(q)
      BY <1>36 DEF Arguments
    <2> QED
      BY <2>1, ParsersSame
  <1>37. CASE name = "GEOSEARCH"
    <2>1. Arguments(name, p, n) = parseGeoSearchCommand(p) /\ Arguments(name, q, n) = parseGeoSearchCommand(q)
      BY <1>37 DEF Arguments
    <2> QED
      BY <2>1, ParsersSame
  <1>38. CASE name = "ACL"
    <2>1. Arguments(name, p, n) = parseACLCommand(p, n) /\ Arguments(name, q, n) = parseACLCommand(q, n)
      BY <1>38 DEF Arguments
    <2> QED
      BY <2>1, ParsersSame
  <1>39. CASE name = "AUTH"
    <2>1. Arguments(name, p, n) = parseAuthCommand(p) /\ Arguments(name, q, n) = parseAuthCommand(q)
      BY <1>39 DEF Arguments
    <2> QED
      BY <2>1, ParsersSame
  <1> QED
    BY <1>1, <1>2, <1>3, <1>4, <1>5, <1>6, <1>7, <1>8, <1>9, <1>10, <1>11,
       <1>12, <1>13, <1>14, <1>15, <1>16, <1>17, <1>18, <1>19, <1>20, <1>21,
       <1>22, <1>23, <1>24, <1>25, <1>26, <1>27, <1>28, <1>29, <1>30, <1>31,
       <1>32, <1>33, <1>34, <1>35, <1>36, <1>37, <1>38, <1>39 DEF Names

-----------------------------------------------------------------------------
(* A command.                                                              *)

\* The number of arguments, the name and the parser's result.
Announced(b)  == Parse(b).n - 1
NameToken(b)  == Parse(Parse(b).rest)
ParserEnd(b)  == Arguments(NameToken(b).text, Begin(NameToken(b).rest), Announced(b))

LEMMA CommandFacts ==
    ASSUME NEW b \in Bytes, b # <<>>, Looks(b[1]).kind = "array"
    PROVE  /\ NameToken(b).text \notin Names =>
                parseCommand(b) = [cmd |-> UnknowCommand, rest |-> <<>>]
           /\ NameToken(b).text \in Names =>
                parseCommand(b) =
                    [cmd |-> IF ParserEnd(b).status = "unknown" THEN UnknowCommand
                             ELSE Command(NameToken(b).text, ParserEnd(b).args),
                     rest |-> ParserEnd(b).rest]
           /\ Parse(b).rest \in Bytes
           /\ Len(Parse(b).rest) < Len(b)
           /\ Announced(b) \in Int
           /\ TailOf(Parse(b).rest, b) /\ TailOf(NameToken(b).rest, Parse(b).rest)
  <1>1. Parse(b).type = "ARRAY" /\ Parse(b).rest = Drop(b, 2)
    BY TokenFacts
  <1>2. TailOf(Parse(b).rest, b) /\ Parse(b).n \in Int /\ Parse(b).rest \in Bytes
    BY ParseIsTail DEF TailOf
  <1>3. TailOf(NameToken(b).rest, Parse(b).rest)
    BY <1>2, ParseIsTail DEF NameToken
  <1>4. Len(Parse(b).rest) < Len(b)
    <2>1. Len(b) \in Nat /\ Len(b) >= 1
      BY FirstPiece
    <2>2. Len(Drop(b, 2)) = IF 2 <= Len(b) THEN Len(b) - 2 ELSE 0
      BY DropFacts DEF Bytes
    <2> QED
      BY <1>1, <2>1, <2>2
  <1>5. Parse(b).type # "UNKNOWN" /\ Parse(b).type # "BULK_STRING"
    BY <1>1
  <1>6. CASE NameToken(b).text \notin Names
    <2>1. parseCommand(b) = [cmd |-> UnknowCommand, rest |-> <<>>]
      BY <1>1, <1>5, <1>6 DEF parseCommand, NameToken
    <2> QED
      BY <1>2, <1>3, <1>4, <1>6, <2>1 DEF Announced
  <1>7. CASE NameToken(b).text \in Names
    <2>1. parseCommand(b) =
              [cmd |-> IF ParserEnd(b).status = "unknown" THEN UnknowCommand
                       ELSE Command(NameToken(b).text, ParserEnd(b).args),
               rest |-> ParserEnd(b).rest]
      BY <1>1, <1>5, <1>7 DEF parseCommand, NameToken, ParserEnd, Announced
    <2> QED
      BY <1>2, <1>3, <1>4, <1>7, <2>1 DEF Announced
  <1> QED
    BY <1>6, <1>7

LEMMA BeginFacts ==
    ASSUME NEW b \in Bytes
    PROVE  /\ IsProgress(Begin(b)) /\ Begin(b).rest = b /\ At(Begin(b), b)
           /\ Begin(b).status = "go" /\ Begin(b).args = <<>>
  <1>1. IsProgress(Begin(b)) /\ Begin(b).rest = b
        /\ Begin(b).status = "go" /\ Begin(b).args = <<>>
    BY DEF Begin, IsProgress
  <1> QED
    BY <1>1, TailRefl DEF At

\* A command takes its array header at least, and leaves an end of the buffer.
LEMMA CommandIsTail ==
    ASSUME NEW b \in Bytes, b # <<>>, Looks(b[1]).kind = "array"
    PROVE  TailOf(parseCommand(b).rest, b) /\ Len(parseCommand(b).rest) < Len(b)
  <1> DEFINE F == Parse(b).rest
             N == NameToken(b)
             P == ParserEnd(b)
  <1>1. /\ F \in Bytes /\ Len(F) < Len(b) /\ Announced(b) \in Int
        /\ TailOf(F, b) /\ TailOf(N.rest, F)
    BY CommandFacts
  <1>2. Len(b) \in Nat /\ Len(F) \in Nat
    BY <1>1 DEF Bytes
  <1>3. CASE N.text \notin Names
    <2>1. parseCommand(b).rest = <<>>
      <3>1. parseCommand(b) = [cmd |-> UnknowCommand, rest |-> <<>>]
        BY <1>3, CommandFacts
      <3> QED
        BY <3>1
    <2>2. Len(<<>>) = 0 /\ TailOf(<<>>, b)
      BY TailRefl
    <2> QED
      BY <1>1, <1>2, <2>1, <2>2
  <1>4. CASE N.text \in Names
    <2>1. parseCommand(b).rest = P.rest
      <3>1. parseCommand(b) =
                [cmd |-> IF P.status = "unknown" THEN UnknowCommand
                         ELSE Command(N.text, P.args),
                 rest |-> P.rest]
        BY <1>4, CommandFacts
      <3> QED
        BY <3>1
    <2>2. N.rest \in Bytes
      BY <1>1 DEF TailOf
    <2>3. Same(Begin(N.rest), Begin(N.rest), N.rest, Following) /\ Following \in Bytes
      BY <2>2, BeginFacts, FollowingFacts DEF Same
    <2>4. Same(P, P, N.rest, Following)
      BY <1>1, <1>4, <2>3, ArgumentsSame DEF ParserEnd
    <2>5. TailOf(P.rest, N.rest)
      BY <2>4 DEF Same, At
    <2>6. TailOf(P.rest, F)
      BY <1>1, <2>5, TailTrans
    <2>7. TailOf(P.rest, b)
      BY <1>1, <2>6, TailTrans
    <2>8. Len(P.rest) <= Len(F) /\ Len(P.rest) \in Nat
      BY <2>6 DEF TailOf, Bytes
    <2> QED
      BY <1>1, <1>2, <2>1, <2>7, <2>8
  <1> QED
    BY <1>3, <1>4

\* A command that leaves what follows it alone is parsed the same whatever
\* follows it.
LEMMA ParseLocal ==
    ASSUME NEW r \in Bytes, r # <<>>, r[1].kind = "array", NEW s \in Bytes, NEW c,
           parseCommand(r \o Following) = [cmd |-> c, rest |-> Following]
    PROVE  parseCommand(r \o s) = [cmd |-> c, rest |-> s]
  <1> DEFINE a == r \o Following
             b == r \o s
             L == NameToken(a)
             M == NameToken(b)
             P == ParserEnd(a)
             Q == ParserEnd(b)
  <1>1. Len(r) \in Nat /\ Len(r) >= 1
    BY FirstPiece
  <1>0. Looks(r[1]).kind = "array"
    BY FirstPiece, LooksFacts
  <1>2. a \in Bytes /\ a # <<>> /\ Looks(a[1]).kind = "array"
    BY <1>0, <1>1, BeforeFollowing
  <1>3. b \in Bytes /\ b # <<>> /\ Looks(b[1]).kind = "array"
    BY <1>0, <1>1, ConcatFacts
  <1>4. Alike(a, b, s)
    BY DEF Alike
  <1> HIDE DEF a, b
  <1>5. /\ Parse(a).rest \in Bytes /\ Announced(a) \in Int
        /\ TailOf(L.rest, Parse(a).rest)
    BY <1>2, CommandFacts
  <1>6. Parse(b).rest \in Bytes /\ TailOf(M.rest, Parse(b).rest)
    BY <1>3, CommandFacts
  <1>7. L.rest \in Bytes /\ M.rest \in Bytes
    BY <1>5, <1>6 DEF TailOf
  <1>8. parseCommand(a) = [cmd |-> c, rest |-> Following]
    BY DEF a
  <1>9. L.text \in Names
    <2>1. SUFFICES ASSUME L.text \notin Names PROVE FALSE
      OBVIOUS
    <2>2. parseCommand(a) = [cmd |-> UnknowCommand, rest |-> <<>>]
      BY <1>2, <2>1, CommandFacts
    <2>3. Following = <<>>
      BY <1>8, <2>2
    <2> QED
      BY <2>3, FollowingFacts
  <1>10. parseCommand(a) =
              [cmd |-> IF P.status = "unknown" THEN UnknowCommand
                       ELSE Command(L.text, P.args),
               rest |-> P.rest]
    BY <1>2, <1>9, CommandFacts
  <1>11. /\ P.rest = Following /\ ~(Len(P.rest) < 2)
         /\ c = IF P.status = "unknown" THEN UnknowCommand ELSE Command(L.text, P.args)
    BY <1>8, <1>10, FollowingFacts
  <1>12. TailOf(P.rest, L.rest)
    <2>1. Same(Begin(L.rest), Begin(L.rest), L.rest, Following) /\ Following \in Bytes
      BY <1>7, BeginFacts, FollowingFacts DEF Same
    <2>2. Same(P, P, L.rest, Following)
      BY <1>5, <1>9, <2>1, ArgumentsSame DEF ParserEnd
    <2> QED
      BY <2>2 DEF Same, At
  <1>13. ~(Len(L.rest) < 2) /\ ~(Len(Parse(a).rest) < 2)
    <2>1. Len(P.rest) <= Len(L.rest) /\ Len(L.rest) <= Len(Parse(a).rest)
      BY <1>5, <1>12 DEF TailOf
    <2>2. Len(P.rest) \in Nat /\ Len(L.rest) \in Nat /\ Len(Parse(a).rest) \in Nat
      BY <1>5, <1>12 DEF TailOf, Bytes
    <2> QED
      BY <1>11, <2>1, <2>2
  <1>14. Announced(a) = Announced(b) /\ Alike(Parse(a).rest, Parse(b).rest, s)
    BY <1>4, <1>13, ParseAlike DEF Announced
  <1>15. L.text = M.text /\ Alike(L.rest, M.rest, s)
    BY <1>13, <1>14, ParseAlike DEF NameToken
  <1>16. Same(Begin(L.rest), Begin(M.rest), L.rest, s)
    <2>1. Live(Begin(L.rest), Begin(M.rest), s)
      BY <1>7, <1>15, BeginFacts DEF Live
    <2> QED
      BY <1>7, <2>1, BeginFacts DEF Same
  <1>17. Same(P, Q, L.rest, s)
    BY <1>5, <1>9, <1>14, <1>15, <1>16, ArgumentsSame DEF ParserEnd
  <1>18. P.status = Q.status /\ P.args = Q.args /\ Q.rest = s
    <2>1. CASE s = Following /\ P = Q
      BY <1>11, <2>1
    <2>2. CASE Live(P, Q, s)
      <3>1. PICK t \in Bytes : P.rest = t \o Following /\ Q.rest = t \o s
        BY <2>2 DEF Live, Alike
      <3>2. t = <<>>
        <4>1. Len(P.rest) = Len(t) + 2 /\ Len(t) \in Nat
          BY <3>1, BeforeFollowing
        <4>2. Len(t) = 0
          <5>1. Len(P.rest) = 2
            BY <1>11, FollowingFacts
          <5>2. 2 = Len(t) + 2
            BY <4>1, <5>1, Zenon
          <5>3. \A n \in Nat : 2 = n + 2 => n = 0
            OBVIOUS
          <5> QED
            BY <4>1, <5>2, <5>3, Zenon
        <4> QED
          <5>1. t \in Seq(Pieces)
            BY DEF Bytes
          <5> QED
            BY <4>2, <5>1, EmptySeq
      <3>3. t \o s = s
        BY <3>2, ConcatFacts
      <3> QED
        BY <2>2, <3>1, <3>3 DEF Live
    <2> QED
      BY <1>11, <1>17, <2>1, <2>2 DEF Same
  <1>19. parseCommand(b) =
              [cmd |-> IF Q.status = "unknown" THEN UnknowCommand
                       ELSE Command(M.text, Q.args),
               rest |-> Q.rest]
    BY <1>3, <1>9, <1>15, CommandFacts
  <1>20. parseCommand(b) = [cmd |-> c, rest |-> s]
    BY <1>11, <1>15, <1>18, <1>19
  <1> QED
    BY <1>20 DEF b

\* Bytes that do not start with an array header, or what looks like one, are no
\* command.
LEMMA NoCommand ==
    ASSUME NEW b \in Bytes, b # <<>>, Looks(b[1]).kind # "array"
    PROVE  /\ parseCommand(b).cmd = UnknowCommand
           /\ Looks(b[1]).kind = "bulk" => parseCommand(b).rest = Drop(b, TextEnd(b))
           /\ Looks(b[1]).kind # "bulk" => parseCommand(b).rest = b
  <1>1. CASE Looks(b[1]).kind = "bulk"
    <2>1. Parse(b).type = "BULK_STRING"
      BY <1>1, TokenFacts
    <2>2. parseCommand(b) = [cmd |-> UnknowCommand, rest |-> Drop(b, TextEnd(b))]
      BY <2>1 DEF parseCommand
    <2> QED
      BY <1>1, <2>2
  <1>2. CASE Looks(b[1]).kind # "bulk"
    <2>1. Parse(b).type = "UNKNOWN"
      BY <1>2, TokenFacts
    <2>2. parseCommand(b) = [cmd |-> UnknowCommand, rest |-> b]
      BY <2>1 DEF parseCommand
    <2> QED
      BY <1>2, <2>2
  <1> QED
    BY <1>1, <1>2

LEMMA CommandRest ==
    ASSUME NEW b \in Bytes, b # <<>>
    PROVE  TailOf(parseCommand(b).rest, b)
  <1>1. CASE Looks(b[1]).kind = "array"
    BY <1>1, CommandIsTail
  <1>2. CASE Looks(b[1]).kind = "bulk"
    <2>1. parseCommand(b).rest = Drop(b, TextEnd(b)) /\ TextEnd(b) \in Nat
      BY <1>2, NoCommand, TextEndFacts
    <2> QED
      BY <2>1, DropIsTail
  <1>3. CASE Looks(b[1]).kind \notin {"array", "bulk"}
    <2>1. parseCommand(b).rest = b
      BY <1>3, NoCommand
    <2> QED
      BY <2>1, TailRefl
  <1> QED
    BY <1>1, <1>2, <1>3

-----------------------------------------------------------------------------
(* What a client sends.                                                    *)

AllRequests == Proper \cup Refused \cup Spoiling

\* Every header of a bulk string has its text between two line breaks behind it.
Aligned(b) ==
    \A i \in 1 .. Len(b) :
        b[i].kind = "bulk" =>
            /\ i + 3 <= Len(b) /\ b[i + 1].kind = "break"
            /\ b[i + 2].kind = "text" /\ b[i + 3].kind = "break"

NoHeader(b) == \A i \in 1 .. Len(b) : b[i].kind # "array"

LEMMA AlignedConcat ==
    ASSUME NEW a \in Bytes, NEW b \in Bytes, Aligned(a), Aligned(b)
    PROVE  Aligned(a \o b) /\ (NoHeader(a) /\ NoHeader(b) => NoHeader(a \o b))
  <1> DEFINE c == a \o b
  <1>1. /\ Len(c) = Len(a) + Len(b) /\ Len(a) \in Nat /\ Len(b) \in Nat
        /\ \A i \in 1 .. Len(a) : c[i] = a[i]
        /\ \A i \in 1 .. Len(b) : c[Len(a) + i] = b[i]
    BY ConcatFacts
  <1> HIDE DEF c
  <1>2. ASSUME NEW i \in 1 .. Len(c)
        PROVE  \/ i \in 1 .. Len(a) /\ c[i] = a[i]
               \/ \E j \in 1 .. Len(b) : i = Len(a) + j /\ c[i] = b[j]
    <2>1. CASE i <= Len(a)
      BY <1>1, <2>1
    <2>2. CASE i > Len(a)
      <3>1. i - Len(a) \in 1 .. Len(b) /\ i = Len(a) + (i - Len(a))
        BY <1>1, <2>2
      <3> QED
        BY <1>1, <3>1
    <2> QED
      BY <1>1, <2>1, <2>2
  <1>3. Aligned(c)
    <2> SUFFICES ASSUME NEW i \in 1 .. Len(c), c[i].kind = "bulk"
                 PROVE  /\ i + 3 <= Len(c) /\ c[i + 1].kind = "break"
                        /\ c[i + 2].kind = "text" /\ c[i + 3].kind = "break"
      BY DEF Aligned
    <2>1. CASE i \in 1 .. Len(a) /\ c[i] = a[i]
      <3>1. /\ i + 3 <= Len(a) /\ a[i + 1].kind = "break"
            /\ a[i + 2].kind = "text" /\ a[i + 3].kind = "break"
        BY <2>1 DEF Aligned
      <3>2. i + 1 \in 1 .. Len(a) /\ i + 2 \in 1 .. Len(a) /\ i + 3 \in 1 .. Len(a)
        BY <1>1, <3>1
      <3> QED
        BY <1>1, <3>1, <3>2
    <2>2. CASE \E j \in 1 .. Len(b) : i = Len(a) + j /\ c[i] = b[j]
      <3>1. PICK j \in 1 .. Len(b) : i = Len(a) + j /\ c[i] = b[j]
        BY <2>2
      <3>2. /\ j + 3 <= Len(b) /\ b[j + 1].kind = "break"
            /\ b[j + 2].kind = "text" /\ b[j + 3].kind = "break"
        BY <3>1 DEF Aligned
      <3>3. /\ j + 1 \in 1 .. Len(b) /\ j + 2 \in 1 .. Len(b) /\ j + 3 \in 1 .. Len(b)
            /\ i + 1 = Len(a) + (j + 1) /\ i + 2 = Len(a) + (j + 2)
            /\ i + 3 = Len(a) + (j + 3)
        BY <1>1, <3>1, <3>2
      <3>4. c[i + 1] = b[j + 1] /\ c[i + 2] = b[j + 2] /\ c[i + 3] = b[j + 3]
        <4> HIDE DEF Aligned
        <4>1. /\ c[Len(a) + (j + 1)] = b[j + 1] /\ c[Len(a) + (j + 2)] = b[j + 2]
              /\ c[Len(a) + (j + 3)] = b[j + 3]
          BY <1>1, <3>3, SMTT(30)
        <4> QED
          BY <3>3, <4>1, Zenon
      <3>5. i + 3 <= Len(c)
        BY <1>1, <3>1, <3>2
      <3> QED
        BY <3>2, <3>4, <3>5
    <2> QED
      BY <1>2, <2>1, <2>2
  <1>4. NoHeader(a) /\ NoHeader(b) => NoHeader(c)
    BY <1>2 DEF NoHeader
  <1> QED
    BY <1>3, <1>4 DEF c

LEMMA AlignedTail ==
    ASSUME NEW b, NEW c, TailOf(c, b), Aligned(b)
    PROVE  Aligned(c)
  <1>1. /\ Len(b) \in Nat /\ Len(c) \in Nat /\ Len(c) <= Len(b)
        /\ \A i \in 1 .. Len(c) : c[i] = b[Len(b) - Len(c) + i]
    BY DEF TailOf, Bytes
  <1> DEFINE d == Len(b) - Len(c)
  <1>2. d \in Nat /\ Len(b) = d + Len(c) /\ \A i \in 1 .. Len(c) : c[i] = b[d + i]
    BY <1>1
  <1> HIDE DEF d
  <1> SUFFICES ASSUME NEW i \in 1 .. Len(c), c[i].kind = "bulk"
               PROVE  /\ i + 3 <= Len(c) /\ c[i + 1].kind = "break"
                      /\ c[i + 2].kind = "text" /\ c[i + 3].kind = "break"
    BY DEF Aligned
  <1> DEFINE j == d + i
  <1>3. j \in 1 .. Len(b) /\ b[j] = c[i]
    BY <1>1, <1>2
  <1>4. /\ j + 3 <= Len(b) /\ b[j + 1].kind = "break"
        /\ b[j + 2].kind = "text" /\ b[j + 3].kind = "break"
    <2> HIDE DEF j
    <2> QED
      BY <1>3 DEF Aligned
  <1>5. /\ i + 3 <= Len(c) /\ i + 1 \in 1 .. Len(c) /\ i + 2 \in 1 .. Len(c)
        /\ i + 3 \in 1 .. Len(c)
        /\ j + 1 = d + (i + 1) /\ j + 2 = d + (i + 2) /\ j + 3 = d + (i + 3)
    <2>1. d \in Nat /\ Len(c) \in Nat /\ i \in Nat /\ Len(b) = d + Len(c) /\ d + i + 3 <= Len(b)
      BY <1>1, <1>2, <1>4
    <2> QED
      BY <2>1
  <1>6. c[i + 1] = b[j + 1] /\ c[i + 2] = b[j + 2] /\ c[i + 3] = b[j + 3]
    <2>1. /\ c[i + 1] = b[d + (i + 1)] /\ c[i + 2] = b[d + (i + 2)]
          /\ c[i + 3] = b[d + (i + 3)]
      BY <1>2, <1>5
    <2> HIDE DEF j
    <2> QED
      BY <1>5, <2>1
  <1> QED
    BY <1>4, <1>5, <1>6

\* The tail of a part is the tail of the whole.
LEMMA TailConcat ==
    ASSUME NEW b, NEW c, TailOf(c, b), NEW w \in Bytes
    PROVE  TailOf(c \o w, b \o w)
  <1> DEFINE x == c \o w
             y == b \o w
  <1>1. /\ b \in Bytes /\ c \in Bytes /\ Len(c) <= Len(b)
        /\ \A i \in 1 .. Len(c) : c[i] = b[Len(b) - Len(c) + i]
    BY DEF TailOf
  <1>2. /\ x \in Bytes /\ Len(x) = Len(c) + Len(w) /\ Len(c) \in Nat /\ Len(w) \in Nat
        /\ \A i \in 1 .. Len(c) : x[i] = c[i]
        /\ \A i \in 1 .. Len(w) : x[Len(c) + i] = w[i]
    BY <1>1, ConcatFacts
  <1>3. /\ y \in Bytes /\ Len(y) = Len(b) + Len(w) /\ Len(b) \in Nat
        /\ \A i \in 1 .. Len(b) : y[i] = b[i]
        /\ \A i \in 1 .. Len(w) : y[Len(b) + i] = w[i]
    BY <1>1, ConcatFacts
  <1> HIDE DEF x, y
  <1>4. ASSUME NEW i \in 1 .. Len(x)
        PROVE  x[i] = y[Len(y) - Len(x) + i]
    <2>1. Len(y) - Len(x) + i = Len(b) - Len(c) + i
      BY <1>1, <1>2, <1>3
    <2>2. CASE i <= Len(c)
      <3>1. i \in 1 .. Len(c) /\ Len(b) - Len(c) + i \in 1 .. Len(b)
        BY <1>1, <1>2, <1>3, <2>2
      <3> QED
        BY <1>1, <1>2, <1>3, <2>1, <3>1
    <2>3. CASE i > Len(c)
      <3> DEFINE j == i - Len(c)
      <3>1. j \in 1 .. Len(w) /\ i = Len(c) + j /\ Len(b) - Len(c) + i = Len(b) + j
        BY <1>1, <1>2, <1>3, <2>3
      <3> HIDE DEF j
      <3> QED
        BY <1>2, <1>3, <2>1, <3>1
    <2> QED
      BY <1>2, <2>2, <2>3
  <1>5. TailOf(x, y)
    BY <1>1, <1>2, <1>3, <1>4 DEF TailOf
  <1> QED
    BY <1>5 DEF x, y

\* No token begins in the rest of the text t, or of a text of the request.
PlainText(t) ==
    t \in DOMAIN Binary =>
        \A i \in DOMAIN Binary[t] : Looks(Binary[t][i]).kind \notin {"array", "bulk"}

Plain(request) == \A t \in TextsOf(request) : PlainText(t)

\* These are whole bulk strings without an array header.
Whole(b) == Aligned(b) /\ NoHeader(b)

LEMMA BulkFacts ==
    ASSUME NEW t \in STRING
    PROVE  Bulk(t) \in Bytes /\ (PlainText(t) => Whole(Bulk(t)))
  <1> DEFINE u == BulkHeader
             v == Text(t)
             w == LineBreak
             d == <<u, w, v, w>>
             x == IF t \in DOMAIN Binary THEN Binary[t] ELSE <<>>
  <1>1. /\ u \in Pieces /\ v \in Pieces /\ w \in Pieces
        /\ u.kind = "bulk" /\ v.kind = "text" /\ w.kind = "break"
    BY PieceFacts
  <1>2. Bulk(t) = d \o x
    BY DEF Bulk
  <1> HIDE DEF u, v, w
  <1>3. d \in Bytes /\ Whole(d)
    <2>1. d \in Bytes /\ Len(d) = 4 /\ d[1] = u /\ d[2] = w /\ d[3] = v /\ d[4] = w
      BY <1>1 DEF Bytes
    <2> HIDE DEF d, x
    <2>2. \A i \in 1 .. 4 : i = 1 \/ i = 2 \/ i = 3 \/ i = 4
      OBVIOUS
    <2>3. Aligned(d)
      BY <1>1, <2>1, <2>2 DEF Aligned
    <2>4. NoHeader(d)
      BY <1>1, <2>1, <2>2 DEF NoHeader
    <2> QED
      BY <2>1, <2>3, <2>4 DEF Whole
  <1>4. x \in Bytes /\ (PlainText(t) => Whole(x))
    <2>1. CASE t \notin DOMAIN Binary
      <3>1. x = <<>> /\ <<>> \in Bytes /\ Len(<<>>) = 0
        BY <2>1 DEF Bytes
      <3> HIDE DEF x, d
      <3>2. Len(x) = 0 /\ x \in Bytes
        BY <3>1
      <3> QED
        BY <3>2 DEF Whole, Aligned, NoHeader
    <2>2. CASE t \in DOMAIN Binary
      <3>1. x = Binary[t]
        BY <2>2
      <3>2. x \in Bytes
        BY <2>2, <3>1, BinaryAssumption DEF Bytes
      <3>3. DOMAIN x = 1 .. Len(x)
        <4> HIDE DEF x
        <4> QED
          BY <3>2 DEF Bytes
      <3>4. PlainText(t) => \A i \in 1 .. Len(x) : Looks(x[i]).kind \notin {"array", "bulk"}
        <4> HIDE DEF x
        <4> QED
          BY <2>2, <3>1, <3>3 DEF PlainText
      <3> HIDE DEF x, d
      <3>5. \A i \in 1 .. Len(x) : x[i] \in Pieces
        BY <3>2 DEF Bytes
      <3>6. PlainText(t) => \A i \in 1 .. Len(x) : x[i].kind \notin {"array", "bulk"}
        BY <3>4, <3>5, LooksFacts
      <3> QED
        BY <3>2, <3>6 DEF Whole, Aligned, NoHeader
    <2> QED
      BY <2>1, <2>2
  <1> HIDE DEF d, x
  <1>5. d \o x \in Bytes
    BY <1>3, <1>4, ConcatFacts
  <1>6. Whole(x) => Whole(d \o x)
    BY <1>3, <1>4, AlignedConcat DEF Whole
  <1> QED
    BY <1>2, <1>4, <1>5, <1>6

Bulks(request, n, f) ==
    f[0] = Bulk(request.name) /\ \A j \in 1 .. n : f[j] = f[j - 1] \o Bulk(request.args[j])

EncodeHead(request) == << ArrayHeader(Len(request.args) + 1), LineBreak >>

LEMMA EncodeSteps ==
    ASSUME NEW request, Len(request.args) \in Nat
    PROVE  \E f : Bulks(request, Len(request.args), f) /\ Encode(request) = EncodeHead(request) \o f[Len(request.args)]
  <1> DEFINE N         == Len(request.args)
             Step1(x, j) == x \o Bulk(request.args[j])
             Good(n, f) == f = [j \in 0 .. n |-> IF j = 0 THEN Bulk(request.name) ELSE Step1(f[j - 1], j)]
             g         == CHOOSE f : Good(N, f)
  <1>1. Encode(request) = EncodeHead(request) \o g[N]
    BY DEF Encode, EncodeHead
  <1>2. N \in Nat
    OBVIOUS
  <1> HIDE DEF N, Step1
  <1> DEFINE S == {n \in 0 .. N : \E f : Good(n, f)}
  <1>3. 0 \in S
    <2>1. Good(0, [j \in 0 .. 0 |-> Bulk(request.name)])
      OBVIOUS
    <2> HIDE DEF Good
    <2> QED
      BY <1>2, <2>1
  <1>4. \A n \in 0 .. N - 1 : n \in S => n + 1 \in S
    <2>0. \A n \in 0 .. N - 1 : n + 1 \in 0 .. N
      BY <1>2
    <2> HIDE DEF Good
    <2> SUFFICES ASSUME NEW n \in 0 .. N - 1, n \in S
                 PROVE  \E h : Good(n + 1, h)
      BY <2>0
    <2> USE DEF Good
    <2>1. PICK f : Good(n, f)
      OBVIOUS
    <2> DEFINE h == [j \in 0 .. n + 1 |-> IF j = n + 1 THEN Step1(f[n], j) ELSE f[j]]
    <2>2. \A j \in 0 .. n : f[j] = IF j = 0 THEN Bulk(request.name) ELSE Step1(f[j - 1], j)
      BY <2>1
    <2>3. \A j \in 0 .. n + 1 : h[j] = IF j = 0 THEN Bulk(request.name) ELSE Step1(h[j - 1], j)
      <3> SUFFICES ASSUME NEW j \in 0 .. n + 1
                   PROVE  h[j] = IF j = 0 THEN Bulk(request.name) ELSE Step1(h[j - 1], j)
        OBVIOUS
      <3>1. CASE j = n + 1
        <4>1. j # 0 /\ j - 1 = n /\ n \in 0 .. n + 1 /\ n # n + 1
          BY <1>2, <3>1
        <4> QED
          BY <3>1, <4>1
      <3>2. CASE j # n + 1
        <4>1. j \in 0 .. n /\ (j # 0 => j - 1 \in 0 .. n + 1 /\ j - 1 # n + 1)
          BY <1>2, <3>2
        <4> QED
          BY <2>2, <3>2, <4>1
      <3> QED
        BY <3>1, <3>2
    <2>4. Good(n + 1, h)
      <3>1. h = [j \in 0 .. n + 1 |-> h[j]]
        OBVIOUS
      <3> HIDE DEF h
      <3> QED
        BY <2>3, <3>1
    <2> HIDE DEF Good, h
    <2> QED
      BY <2>4
  <1>5. \E f : Good(N, f)
    <2> HIDE DEF S
    <2>1. 0 .. N \subseteq S
      BY <1>2, <1>3, <1>4, BoundedInduction
    <2>2. N \in S
      BY <1>2, <2>1
    <2> QED
      BY <2>2 DEF S
  <1>6. Good(N, g)
    <2> HIDE DEF Good
    <2> QED
      BY <1>5
  <1>7. \A j \in 0 .. N : g[j] = IF j = 0 THEN Bulk(request.name) ELSE Step1(g[j - 1], j)
    <2> HIDE DEF g
    <2> QED
      BY <1>6
  <1> HIDE DEF g
  <1>8. g[0] = Bulk(request.name) /\ \A j \in 1 .. N : g[j] = Step1(g[j - 1], j)
    BY <1>2, <1>7
  <1>9. Bulks(request, Len(request.args), g)
    BY <1>8 DEF Bulks, N, Step1
  <1> QED
    BY <1>1, <1>9 DEF N

\* A request begins with an array header, and has no other unless a token begins
\* in the rest of one of its texts.
LEMMA EncodeFacts ==
    ASSUME NEW r \in AllRequests
    PROVE  /\ Encode(r) \in Bytes /\ Encode(r) # <<>> /\ Len(Encode(r)) >= 1
           /\ Encode(r)[1].kind = "array"
           /\ Plain(r) => /\ \A i \in 2 .. Len(Encode(r)) : Encode(r)[i].kind # "array"
                          /\ Aligned(Encode(r))
  <1> DEFINE m == Len(r.args)
             h == EncodeHead(r)
             u == ArrayHeader(m + 1)
             w == LineBreak
  <1>1. /\ m \in Nat /\ r.name \in STRING /\ \A i \in 1 .. m : r.args[i] \in STRING
        /\ r.name \in TextsOf(r) /\ \A i \in 1 .. m : r.args[i] \in TextsOf(r)
    <2>1. r \in [name : STRING, args : Seq(STRING)]
      BY RequestsAssumption DEF AllRequests
    <2>2. r.args \in Seq(STRING) /\ r.name \in STRING
      BY <2>1
    <2>3. m \in Nat /\ DOMAIN r.args = 1 .. m
      BY <2>2
    <2>4. \A i \in 1 .. m : r.args[i] \in STRING
      BY <2>2, <2>3
    <2>5. r.name \in TextsOf(r) /\ \A i \in 1 .. m : r.args[i] \in TextsOf(r)
      BY <2>3 DEF TextsOf
    <2> QED
      BY <2>2, <2>3, <2>4, <2>5
  <1>2. PICK f : Bulks(r, m, f) /\ Encode(r) = h \o f[m]
    BY <1>1, EncodeSteps
  <1>3. u \in Pieces /\ w \in Pieces /\ u.kind = "array" /\ w.kind = "break"
    BY <1>1, PieceFacts
  <1>4. h = <<u, w>>
    BY DEF EncodeHead
  <1> HIDE DEF m, u, w, h
  <1>5. h \in Bytes /\ Len(h) = 2 /\ h[1] = u /\ h[2] = w
    BY <1>3, <1>4 DEF Bytes
  <1>6. Aligned(h)
    <2>1. \A i \in 1 .. 2 : i = 1 \/ i = 2
      OBVIOUS
    <2> QED
      BY <1>3, <1>5, <2>1 DEF Aligned
  <1> DEFINE S == {j \in 0 .. m : f[j] \in Bytes /\ (Plain(r) => Whole(f[j]))}
  <1>7. 0 \in S
    <2>1. f[0] = Bulk(r.name) /\ 0 \in 0 .. m
      BY <1>1, <1>2 DEF Bulks
    <2>2. Plain(r) => PlainText(r.name)
      BY <1>1 DEF Plain
    <2> QED
      BY <1>1, <2>1, <2>2, BulkFacts
  <1>8. \A j \in 0 .. m - 1 : j \in S => j + 1 \in S
    <2> SUFFICES ASSUME NEW j \in 0 .. m - 1, j \in S
                 PROVE  f[j + 1] \in Bytes /\ (Plain(r) => Whole(f[j + 1]))
      BY <1>1
    <2>1. j + 1 \in 1 .. m /\ (j + 1) - 1 = j
      BY <1>1
    <2>2. f[j + 1] = f[j] \o Bulk(r.args[j + 1])
      BY <1>2, <2>1 DEF Bulks
    <2> DEFINE c == Bulk(r.args[j + 1])
    <2>3. c \in Bytes /\ (Plain(r) => Whole(c))
      <3>1. Plain(r) => PlainText(r.args[j + 1])
        BY <1>1, <2>1 DEF Plain
      <3> QED
        BY <1>1, <2>1, <3>1, BulkFacts
    <2>4. f[j] \in Bytes /\ (Plain(r) => Whole(f[j]))
      OBVIOUS
    <2> HIDE DEF c, S
    <2>5. f[j] \o c \in Bytes
      BY <2>3, <2>4, ConcatFacts
    <2>6. Whole(f[j]) /\ Whole(c) => Whole(f[j] \o c)
      BY <2>3, <2>4, AlignedConcat DEF Whole
    <2> QED
      BY <2>2, <2>3, <2>4, <2>5, <2>6 DEF c
  <1>9. f[m] \in Bytes /\ (Plain(r) => Aligned(f[m]) /\ NoHeader(f[m]))
    <2>1. 0 .. m \subseteq S
      <3> HIDE DEF S
      <3> QED
        BY <1>1, <1>7, <1>8, BoundedInduction
    <2>2. m \in 0 .. m
      BY <1>1
    <2> QED
      BY <2>1, <2>2 DEF Whole
  <1> DEFINE e == Encode(r)
             d == f[m]
  <1>10. /\ e \in Bytes /\ Len(e) = Len(h) + Len(d) /\ Len(d) \in Nat
         /\ \A i \in 1 .. Len(h) : e[i] = h[i]
         /\ \A i \in 1 .. Len(d) : e[Len(h) + i] = d[i]
    <2>1. e = h \o d /\ h \in Bytes /\ d \in Bytes
      BY <1>2, <1>5, <1>9
    <2> HIDE DEF d, e
    <2>2. e \in Bytes /\ Len(e) = Len(h) + Len(d) /\ Len(d) \in Nat
      BY <2>1, ConcatFacts
    <2>3. /\ \A i \in 1 .. Len(h) : e[i] = h[i]
          /\ \A i \in 1 .. Len(d) : e[Len(h) + i] = d[i]
      BY <2>1, ConcatFacts
    <2> QED
      BY <2>2, <2>3
  <1>11. Plain(r) => Aligned(e)
    BY <1>2, <1>5, <1>6, <1>9, AlignedConcat
  <1> HIDE DEF e, d
  <1>12. Len(e) >= 1 /\ e[1] = u /\ e[2] = w /\ Len(e) = 2 + Len(d)
    BY <1>5, <1>10
  <1>13. ASSUME Plain(r), NEW i \in 2 .. Len(e) PROVE e[i].kind # "array"
    <2>1. CASE i = 2
      BY <1>3, <1>12, <2>1
    <2>2. CASE i > 2
      <3> DEFINE j == i - 2
      <3>1. j \in 1 .. Len(d) /\ i = Len(h) + j
        BY <1>5, <1>10, <1>12, <2>2
      <3> HIDE DEF j
      <3>2. e[i] = d[j]
        BY <1>10, <3>1
      <3>3. d[j].kind # "array"
        BY <1>9, <1>13, <3>1 DEF NoHeader, d
      <3> QED
        BY <3>2, <3>3
    <2> QED
      BY <1>10, <1>12, <2>1, <2>2
  <1>14. e # <<>>
    BY <1>12
  <1>15. /\ e \in Bytes /\ e # <<>> /\ Len(e) >= 1 /\ e[1].kind = "array"
         /\ Plain(r) => Aligned(e) /\ \A i \in 2 .. Len(e) : e[i].kind # "array"
    BY <1>3, <1>10, <1>11, <1>12, <1>13, <1>14
  <1> QED
    BY <1>15 DEF e

\* The requests that are not spoiling have no binary text.
LEMMA PlainRequest ==
    ASSUME NEW r \in AllRequests, r \notin Spoiling
    PROVE  Plain(r)
  <1>1. TextsOf(r) \cap DOMAIN Binary = {}
    BY BinaryAssumption DEF AllRequests
  <1> QED
    BY <1>1 DEF Plain, PlainText

Encodes(requests, n, f) ==
    f[0] = <<>> /\ \A j \in 1 .. n : f[j] = f[j - 1] \o Encode(requests[j])

LEMMA EncodeAllSteps ==
    ASSUME NEW requests, Len(requests) \in Nat
    PROVE  \E f : Encodes(requests, Len(requests), f) /\ EncodeAll(requests) = f[Len(requests)]
  <1> DEFINE N         == Len(requests)
             Step1(x, j) == x \o Encode(requests[j])
             Good(n, f) == f = [j \in 0 .. n |-> IF j = 0 THEN <<>> ELSE Step1(f[j - 1], j)]
             g         == CHOOSE f : Good(N, f)
  <1>1. EncodeAll(requests) = g[N]
    BY DEF EncodeAll
  <1>2. N \in Nat
    OBVIOUS
  <1> HIDE DEF N, Step1
  <1> DEFINE S == {n \in 0 .. N : \E f : Good(n, f)}
  <1>3. 0 \in S
    <2>1. Good(0, [j \in 0 .. 0 |-> <<>>])
      OBVIOUS
    <2> HIDE DEF Good
    <2> QED
      BY <1>2, <2>1
  <1>4. \A n \in 0 .. N - 1 : n \in S => n + 1 \in S
    <2>0. \A n \in 0 .. N - 1 : n + 1 \in 0 .. N
      BY <1>2
    <2> HIDE DEF Good
    <2> SUFFICES ASSUME NEW n \in 0 .. N - 1, n \in S
                 PROVE  \E h : Good(n + 1, h)
      BY <2>0
    <2> USE DEF Good
    <2>1. PICK f : Good(n, f)
      OBVIOUS
    <2> DEFINE h == [j \in 0 .. n + 1 |-> IF j = n + 1 THEN Step1(f[n], j) ELSE f[j]]
    <2>2. \A j \in 0 .. n : f[j] = IF j = 0 THEN <<>> ELSE Step1(f[j - 1], j)
      BY <2>1
    <2>3. \A j \in 0 .. n + 1 : h[j] = IF j = 0 THEN <<>> ELSE Step1(h[j - 1], j)
      <3> SUFFICES ASSUME NEW j \in 0 .. n + 1
                   PROVE  h[j] = IF j = 0 THEN <<>> ELSE Step1(h[j - 1], j)
        OBVIOUS
      <3>1. CASE j = n + 1
        <4>1. j # 0 /\ j - 1 = n /\ n \in 0 .. n + 1 /\ n # n + 1
          BY <1>2, <3>1
        <4> QED
          BY <3>1, <4>1
      <3>2. CASE j # n + 1
        <4>1. j \in 0 .. n /\ (j # 0 => j - 1 \in 0 .. n + 1 /\ j - 1 # n + 1)
          BY <1>2, <3>2
        <4> QED
          BY <2>2, <3>2, <4>1
      <3> QED
        BY <3>1, <3>2
    <2>4. Good(n + 1, h)
      <3>1. h = [j \in 0 .. n + 1 |-> h[j]]
        OBVIOUS
      <3> HIDE DEF h
      <3> QED
        BY <2>3, <3>1
    <2> HIDE DEF Good, h
    <2> QED
      BY <2>4
  <1>5. \E f : Good(N, f)
    <2> HIDE DEF S
    <2>1. 0 .. N \subseteq S
      BY <1>2, <1>3, <1>4, BoundedInduction
    <2>2. N \in S
      BY <1>2, <2>1
    <2> QED
      BY <2>2 DEF S
  <1>6. Good(N, g)
    <2> HIDE DEF Good
    <2> QED
      BY <1>5
  <1>7. \A j \in 0 .. N : g[j] = IF j = 0 THEN <<>> ELSE Step1(g[j - 1], j)
    <2> HIDE DEF g
    <2> QED
      BY <1>6
  <1> HIDE DEF g
  <1>8. g[0] = <<>> /\ \A j \in 1 .. N : g[j] = Step1(g[j - 1], j)
    BY <1>2, <1>7
  <1>9. Encodes(requests, Len(requests), g)
    BY <1>8 DEF Encodes, N, Step1
  <1> QED
    BY <1>1, <1>9 DEF N

LEMMA EncodesBytes ==
    ASSUME NEW q \in Seq(AllRequests), NEW f, Encodes(q, Len(q), f)
    PROVE  \A j \in 0 .. Len(q) : f[j] \in Bytes
  <1> DEFINE m == Len(q)
             S == {j \in 0 .. m : f[j] \in Bytes}
  <1>1. m \in Nat
    OBVIOUS
  <1>2. 0 \in S
    <2>1. f[0] = <<>> /\ <<>> \in Bytes /\ 0 \in 0 .. m
      BY <1>1 DEF Encodes, Bytes
    <2> QED
      BY <2>1
  <1>3. \A j \in 0 .. m - 1 : j \in S => j + 1 \in S
    <2> SUFFICES ASSUME NEW j \in 0 .. m - 1, f[j] \in Bytes
                 PROVE  f[j + 1] \in Bytes
      BY <1>1
    <2>1. j + 1 \in 1 .. m /\ (j + 1) - 1 = j
      BY <1>1
    <2>2. f[j + 1] = f[j] \o Encode(q[j + 1]) /\ q[j + 1] \in AllRequests
      <3>1. q[j + 1] \in AllRequests
        BY <2>1
      <3>2. f[j + 1] = f[(j + 1) - 1] \o Encode(q[j + 1])
        BY <2>1 DEF Encodes
      <3> QED
        BY <2>1, <3>1, <3>2
    <2>3. Encode(q[j + 1]) \in Bytes
      BY <2>2, EncodeFacts
    <2> QED
      BY <2>2, <2>3, ConcatFacts
  <1>4. 0 .. m \subseteq S
    <2> HIDE DEF S, m
    <2> QED
      BY <1>1, <1>2, <1>3, BoundedInduction
  <1> QED
    BY <1>4

LEMMA EncodeAllFacts ==
    ASSUME NEW q \in Seq(AllRequests)
    PROVE  EncodeAll(q) \in Bytes /\ (q = <<>> => EncodeAll(q) = <<>>)
  <1>1. Len(q) \in Nat
    OBVIOUS
  <1>2. PICK f : Encodes(q, Len(q), f) /\ EncodeAll(q) = f[Len(q)]
    BY <1>1, EncodeAllSteps
  <1>3. EncodeAll(q) \in Bytes
    BY <1>1, <1>2, EncodesBytes
  <1>4. q = <<>> => Len(q) = 0
    OBVIOUS
  <1> QED
    BY <1>2, <1>3, <1>4 DEF Encodes

LEMMA EncodeAllAppend ==
    ASSUME NEW q \in Seq(AllRequests), NEW r \in AllRequests
    PROVE  EncodeAll(Append(q, r)) = EncodeAll(q) \o Encode(r)
  <1> DEFINE a == Append(q, r)
             m == Len(q)
  <1>1. m \in Nat /\ a \in Seq(AllRequests) /\ Len(a) = m + 1 /\ a[m + 1] = r
        /\ \A i \in 1 .. m : a[i] = q[i]
    OBVIOUS
  <1> HIDE DEF a
  <1>2. PICK g : Encodes(q, m, g) /\ EncodeAll(q) = g[m]
    BY <1>1, EncodeAllSteps
  <1>3. PICK f : Encodes(a, m + 1, f) /\ EncodeAll(a) = f[m + 1]
    BY <1>1, EncodeAllSteps
  <1> DEFINE S == {j \in 0 .. m : f[j] = g[j]}
  <1> HIDE DEF m
  <1>4. 0 \in S
    BY <1>1, <1>2, <1>3 DEF Encodes
  <1>5. \A j \in 0 .. m - 1 : j \in S => j + 1 \in S
    <2> SUFFICES ASSUME NEW j \in 0 .. m - 1, f[j] = g[j]
                 PROVE  f[j + 1] = g[j + 1]
      BY <1>1
    <2>1. j + 1 \in 1 .. m /\ j + 1 \in 1 .. m + 1 /\ (j + 1) - 1 = j
      BY <1>1
    <2>2. f[j + 1] = f[j] \o Encode(a[j + 1]) /\ g[j + 1] = g[j] \o Encode(q[j + 1])
      BY <1>2, <1>3, <2>1 DEF Encodes
    <2> QED
      BY <1>1, <2>1, <2>2
  <1>6. m \in S
    <2>1. 0 .. m \subseteq S
      <3> HIDE DEF S
      <3> QED
        BY <1>1, <1>4, <1>5, BoundedInduction
    <2> QED
      BY <1>1, <2>1
  <1>7. f[m + 1] = f[m] \o Encode(a[m + 1])
    <2>1. m + 1 \in 1 .. m + 1 /\ (m + 1) - 1 = m
      BY <1>1
    <2> QED
      BY <1>3, <2>1 DEF Encodes
  <1>8. EncodeAll(a) = EncodeAll(q) \o Encode(r)
    BY <1>1, <1>2, <1>3, <1>6, <1>7
  <1> QED
    BY <1>8 DEF a

LEMMA EncodeAllFirst ==
    ASSUME NEW q \in Seq(AllRequests), q # <<>>
    PROVE  EncodeAll(q) = Encode(q[1]) \o EncodeAll(Drop(q, 1))
  <1> DEFINE d == Drop(q, 1)
             m == Len(d)
             e == Encode(q[1])
  <1>1. m \in Nat /\ d \in Seq(AllRequests) /\ Len(q) = m + 1
        /\ \A i \in 1 .. m : d[i] = q[i + 1]
    <2>1. Len(q) \in Nat /\ Len(q) >= 1
      OBVIOUS
    <2>2. /\ d \in Seq(AllRequests) /\ Len(d) = IF 1 <= Len(q) THEN Len(q) - 1 ELSE 0
          /\ \A i \in 1 .. Len(q) - 1 : d[i] = q[1 + i]
      BY DropFacts
    <2> HIDE DEF d
    <2>3. m = Len(q) - 1 /\ m \in Nat
      BY <2>1, <2>2
    <2>4. \A i \in 1 .. m : d[i] = q[i + 1]
      <3> TAKE i \in 1 .. m
      <3>1. i \in 1 .. Len(q) - 1 /\ 1 + i = i + 1
        BY <2>1, <2>3
      <3> QED
        BY <2>2, <3>1
    <2> QED
      BY <2>1, <2>2, <2>3, <2>4
  <1>2. q[1] \in AllRequests /\ e \in Bytes /\ Len(q) \in Nat
    <2>1. q[1] \in AllRequests /\ Len(q) \in Nat
      OBVIOUS
    <2> QED
      BY <2>1, EncodeFacts
  <1> HIDE DEF d, m, e
  <1>3. PICK f : Encodes(q, m + 1, f) /\ EncodeAll(q) = f[m + 1]
    BY <1>1, <1>2, EncodeAllSteps
  <1>4. PICK g : Encodes(d, m, g) /\ EncodeAll(d) = g[m]
    BY <1>1, EncodeAllSteps DEF m
  <1>5. \A j \in 0 .. m : g[j] \in Bytes
    BY <1>1, <1>4, EncodesBytes DEF m
  <1> DEFINE S == {j \in 0 .. m : f[j + 1] = e \o g[j]}
  <1>6. 0 \in S
    <2>1. f[0] = <<>> /\ g[0] = <<>>
      BY <1>3, <1>4 DEF Encodes
    <2>2. f[1] = f[0] \o e
      <3>1. 1 \in 1 .. m + 1 /\ 1 - 1 = 0
        BY <1>1
      <3> QED
        BY <1>3, <3>1 DEF Encodes, e
    <2>3. <<>> \o e = e /\ e \o <<>> = e
      BY <1>2, ConcatEmptySeq DEF Bytes
    <2>4. 0 \in 0 .. m /\ 0 + 1 = 1
      BY <1>1
    <2> QED
      BY <2>1, <2>2, <2>3, <2>4
  <1>7. \A j \in 0 .. m - 1 : j \in S => j + 1 \in S
    <2> SUFFICES ASSUME NEW j \in 0 .. m - 1, f[j + 1] = e \o g[j]
                 PROVE  f[(j + 1) + 1] = e \o g[j + 1]
      <3>1. \A j \in 0 .. m - 1 : j + 1 \in 0 .. m
        BY <1>1
      <3> QED
        BY <3>1
    <2>1. /\ j + 1 \in 1 .. m /\ (j + 1) - 1 = j /\ j \in 0 .. m
          /\ (j + 1) + 1 \in 1 .. m + 1 /\ ((j + 1) + 1) - 1 = j + 1
      BY <1>1
    <2> DEFINE x == Encode(d[j + 1])
    <2>2. d[j + 1] \in AllRequests /\ d[j + 1] = q[(j + 1) + 1]
      BY <1>1, <2>1 DEF m
    <2>3. g[j + 1] = g[j] \o x
      BY <1>4, <2>1 DEF Encodes
    <2>4. f[(j + 1) + 1] = f[j + 1] \o x
      BY <1>3, <2>1, <2>2 DEF Encodes
    <2>5. x \in Bytes /\ g[j] \in Bytes
      BY <1>5, <2>1, <2>2, EncodeFacts
    <2> HIDE DEF x
    <2>6. (e \o g[j]) \o x = e \o (g[j] \o x)
      <3> DEFINE y == g[j]
      <3>1. e \in Bytes /\ y \in Bytes /\ x \in Bytes
        BY <1>2, <2>5
      <3> HIDE DEF y
      <3>2. (e \o y) \o x = e \o (y \o x)
        BY <3>1, BytesAssociative
      <3> QED
        BY <3>2 DEF y
    <2> QED
      BY <2>3, <2>4, <2>6
  <1>8. m \in S
    <2>1. 0 .. m \subseteq S
      <3> HIDE DEF S
      <3> QED
        BY <1>1, <1>6, <1>7, BoundedInduction
    <2> QED
      BY <1>1, <2>1
  <1> QED
    BY <1>3, <1>4, <1>8 DEF e, d

-----------------------------------------------------------------------------
(* A read.                                                                 *)

\* The bytes read and those still under way.
LEMMA ReadFacts ==
    ASSUME NEW b \in Bytes, NEW w \in Bytes, NEW k \in 0 .. Len(w)
    PROVE  /\ SubSeq(w, 1, k) \in Bytes /\ Drop(w, k) \in Bytes
           /\ b \o SubSeq(w, 1, k) \in Bytes
           /\ (b \o SubSeq(w, 1, k)) \o Drop(w, k) = b \o w
           /\ k >= 1 => b \o SubSeq(w, 1, k) # <<>>
           /\ b # <<>> => b \o SubSeq(w, 1, k) # <<>> /\ (b \o SubSeq(w, 1, k))[1] = b[1]
  <1> DEFINE p == SubSeq(w, 1, k)
             d == Drop(w, k)
             c == p \o d
  <1>1. Len(w) \in Nat /\ k \in Nat /\ k <= Len(w) /\ w \in Seq(Pieces)
    BY DEF Bytes
  <1>2. p \in Bytes /\ Len(p) = k /\ \A i \in 1 .. k : p[i] = w[i]
    <2>1. \A i \in 1 .. k : w[i] \in Pieces
      BY <1>1
    <2>2. /\ p \in Seq(Pieces)
          /\ Len(p) = IF 1 <= k + 1 THEN k - 1 + 1 ELSE 0
          /\ \A i \in 1 .. k - 1 + 1 : p[i] = w[1 + i - 1]
      BY <1>1, <2>1, SubSeqProperties
    <2> HIDE DEF p
    <2>3. Len(p) = k
      BY <1>1, <2>2
    <2>4. \A i \in 1 .. k : i \in 1 .. k - 1 + 1 /\ 1 + i - 1 = i
      BY <1>1
    <2>5. \A i \in 1 .. k : p[i] = w[i]
      BY <2>2, <2>4
    <2> QED
      BY <2>2, <2>3, <2>5 DEF Bytes
  <1>3. /\ d \in Bytes /\ Len(d) = Len(w) - k
        /\ \A i \in 1 .. Len(w) - k : d[i] = w[k + i]
    BY <1>1, DropFacts DEF Bytes
  <1> HIDE DEF p, d
  <1>4. c \in Bytes /\ Len(c) = Len(p) + Len(d)
    BY <1>2, <1>3, ConcatFacts
  <1>5. /\ \A i \in 1 .. Len(p) : c[i] = p[i]
        /\ \A i \in 1 .. Len(d) : c[Len(p) + i] = d[i]
    BY <1>2, <1>3, ConcatFacts
  <1> HIDE DEF c
  <1>6. Len(c) = Len(w)
    BY <1>1, <1>2, <1>3, <1>4
  <1>7. ASSUME NEW i \in 1 .. Len(w) PROVE c[i] = w[i]
    <2>1. CASE i <= k
      <3>1. i \in 1 .. k /\ i \in 1 .. Len(p)
        BY <1>1, <1>2, <2>1
      <3> QED
        BY <1>2, <1>5, <3>1
    <2>2. CASE i > k
      <3> DEFINE j == i - k
      <3>1. j \in 1 .. Len(w) - k /\ j \in 1 .. Len(d) /\ i = k + j /\ i = Len(p) + j
        BY <1>1, <1>2, <1>3, <2>2
      <3> HIDE DEF j
      <3> QED
        BY <1>3, <1>5, <3>1
    <2> QED
      BY <1>1, <2>1, <2>2
  <1>8. c = w
    BY <1>1, <1>4, <1>6, <1>7, SeqEqual DEF Bytes
  <1>9. (b \o p) \o d = b \o (p \o d)
    BY <1>2, <1>3, BytesAssociative
  <1>10. b \o p \in Bytes /\ (b # <<>> => b \o p # <<>>)
    BY <1>2, ConcatFacts
  <1>11. b # <<>> => (b \o p)[1] = b[1]
    <2> HAVE b # <<>>
    <2>1. Len(b) \in Nat /\ Len(b) >= 1
      BY FirstPiece
    <2>2. 1 \in 1 .. Len(b)
      BY <2>1
    <2> QED
      BY <1>2, <2>2, ConcatFacts
  <1>12. k >= 1 => b \o p # <<>>
    <2> HAVE k >= 1
    <2>1. Len(b \o p) = Len(b) + Len(p) /\ Len(b) \in Nat
      BY <1>2, ConcatFacts
    <2>2. Len(b \o p) # 0
      BY <1>1, <1>2, <2>1
    <2> QED
      BY <2>2
  <1>13. (b \o p) \o d = b \o w
    BY <1>8, <1>9 DEF c
  <1> QED
    BY <1>2, <1>3, <1>10, <1>11, <1>12, <1>13 DEF p, d

LEMMA HeadersFacts ==
    ASSUME NEW b \in Bytes
    PROVE  IsFiniteSet(Headers(b)) /\ Cardinality(Headers(b)) \in Nat
  <1>1. Headers(b) \subseteq 1 .. Len(b) /\ Len(b) \in Nat
    BY DEF Headers, Bytes
  <1>2. IsFiniteSet(1 .. Len(b))
    BY <1>1, FS_Interval
  <1>3. IsFiniteSet(Headers(b))
    BY <1>1, <1>2, FS_Subset
  <1> QED
    BY <1>3, FS_CardinalityType

\* The beginning of both parts.
LEMMA ConcatFirst ==
    ASSUME NEW a \in Bytes, NEW b \in Bytes
    PROVE  /\ a # <<>> => a \o b # <<>> /\ (a \o b)[1] = a[1]
           /\ a = <<>> => a \o b = b
  <1>1. a # <<>> => a \o b # <<>>
    BY ConcatFacts
  <1>2. a = <<>> => a \o b = b
    BY ConcatFacts
  <1>3. a # <<>> => (a \o b)[1] = a[1]
    <2> HAVE a # <<>>
    <2>1. Len(a) \in Nat /\ Len(a) >= 1
      BY FirstPiece
    <2>2. 1 \in 1 .. Len(a)
      BY <2>1
    <2> QED
      BY <2>2, ConcatFacts
  <1> QED
    BY <1>1, <1>2, <1>3

\* There are bytes and they do not start a request.
Lost(b) == b # <<>> /\ b[1].kind # "array"

\* What a command leaves of the bytes that arrive.
LEMMA RestFacts ==
    ASSUME NEW b \in Bytes, b # <<>>, NEW w \in Bytes
    PROVE  /\ parseCommand(b).rest \in Bytes
           /\ Aligned(b \o w) => Aligned(parseCommand(b).rest \o w)
           /\ Aligned(b \o w) /\ Lost(b \o w) /\ ~Opening(b[1]) =>
                Lost(parseCommand(b).rest \o w)
           /\ Incomplete(b, w) => Lost(parseCommand(b).rest \o w)
  <1> DEFINE r == parseCommand(b).rest
             s == b \o w
             t == r \o w
  <1>1. TailOf(r, b) /\ r \in Bytes
    BY CommandRest DEF TailOf
  <1>2. Len(b) \in Nat /\ Len(b) >= 1 /\ Head(b) = b[1] /\ b[1] \in Pieces
    BY FirstPiece
  <1>3. /\ s \in Bytes /\ Len(s) = Len(b) + Len(w) /\ Len(w) \in Nat /\ s # <<>>
        /\ \A i \in 1 .. Len(b) : s[i] = b[i]
        /\ \A i \in 1 .. Len(w) : s[Len(b) + i] = w[i]
    BY ConcatFacts
  <1>4. TailOf(t, s)
    BY <1>1, TailConcat
  <1>5. Aligned(s) => Aligned(t)
    BY <1>4, AlignedTail
  <1>6. s[1] = b[1]
    BY <1>2, <1>3
  <1> HIDE DEF s
  <1>7. ASSUME Aligned(s), Lost(s), ~Opening(b[1]) PROVE Lost(t)
    <2>1. b[1].kind # "array" /\ Looks(b[1]) = b[1]
      BY <1>2, <1>6, <1>7, LooksFacts DEF Lost
    <2>2. CASE b[1].kind # "bulk"
      <3>1. r = b
        BY <2>1, <2>2, NoCommand
      <3> QED
        BY <1>7, <3>1 DEF s
    <2>3. CASE b[1].kind = "bulk"
      <3>1. 1 + 3 <= Len(s) /\ s[1 + 1].kind = "break" /\ s[1 + 2].kind = "text"
            /\ s[1 + 3].kind = "break"
        <4>1. 1 \in 1 .. Len(s) /\ s[1].kind = "bulk"
          BY <1>2, <1>3, <1>6, <2>3
        <4> QED
          BY <1>7, <4>1 DEF Aligned
      <3>2. /\ 4 <= Len(s) /\ s[2].kind = "break" /\ s[3].kind = "text"
            /\ s[4].kind = "break"
        BY <3>1
      <3>3. TextEnd(b) = 3
        <4>1. CASE Len(b) > 2
          <5>1. 3 \in 1 .. Len(b)
            BY <1>2, <4>1
          <5>2. b[3] = s[3]
            BY <1>3, <5>1
          <5>3. b[3].kind = "text"
            BY <3>2, <5>2
          <5> QED
            BY <5>3 DEF TextEnd
        <4>2. CASE ~(Len(b) > 2)
          BY <4>2 DEF TextEnd
        <4> QED
          BY <4>1, <4>2
      <3>4. /\ Len(r) = IF 3 <= Len(b) THEN Len(b) - 3 ELSE 0
            /\ \A i \in 1 .. Len(b) - 3 : r[i] = b[3 + i]
        <4> DEFINE d == Drop(b, 3)
        <4>1. r = d
          BY <2>1, <2>3, <3>3, NoCommand
        <4>2. b \in Seq(Pieces) /\ 3 \in Nat
          BY DEF Bytes
        <4> HIDE DEF r
        <4>3. Len(d) = IF 3 <= Len(b) THEN Len(b) - 3 ELSE 0
          BY <4>2, DropFacts
        <4>4. \A i \in 1 .. Len(b) - 3 : d[i] = b[3 + i]
          BY <4>2, DropFacts
        <4> HIDE DEF d
        <4> QED
          BY <4>1, <4>3, <4>4
      <3> HIDE DEF r
      <3>5. CASE Len(b) > 3
        <4>1. 1 \in 1 .. Len(b) - 3 /\ 3 + 1 = 4 /\ 4 \in 1 .. Len(b) /\ Len(r) > 0
          BY <1>2, <3>4, <3>5
        <4>2. r[1] = b[3 + 1] /\ s[4] = b[4]
          BY <1>3, <3>4, <4>1
        <4>3. r # <<>> /\ r[1].kind = "break"
          BY <3>2, <4>1, <4>2
        <4> QED
          BY <1>1, <4>3, ConcatFirst DEF Lost
      <3>6. CASE Len(b) = 1 \/ Len(b) = 2 \/ Len(b) = 3
        <4>1. Len(r) = 0
          <5>1. CASE Len(b) = 1
            BY <3>4, <5>1
          <5>2. CASE Len(b) = 2
            BY <3>4, <5>2
          <5>3. CASE Len(b) = 3
            BY <3>4, <5>3
          <5> QED
            BY <3>6, <5>1, <5>2, <5>3
        <4>2. r = <<>>
          BY <1>1, <4>1, EmptySeq DEF Bytes
        <4>3. t = w
          BY <1>1, <4>2, ConcatFirst
        <4>4. 1 \in 1 .. Len(w) /\ Len(b) + 1 \in {2, 3, 4}
          <5>1. Len(b) + Len(w) >= 4 /\ Len(w) \in Nat
            BY <1>3, <3>2
          <5>2. Len(w) >= 1
            <6>1. CASE Len(b) = 1
              BY <5>1, <6>1
            <6>2. CASE Len(b) = 2
              BY <5>1, <6>2
            <6>3. CASE Len(b) = 3
              BY <5>1, <6>3
            <6> QED
              BY <3>6, <6>1, <6>2, <6>3
          <5>3. 1 \in 1 .. Len(w)
            BY <5>1, <5>2
          <5>4. \A n \in {1, 2, 3} : n + 1 \in {2, 3, 4}
            OBVIOUS
          <5> QED
            BY <3>6, <5>3, <5>4
        <4>5. w[1] = s[Len(b) + 1]
          BY <1>3, <4>4
        <4>6. w[1].kind # "array"
          BY <3>2, <4>4, <4>5
        <4>7. w # <<>>
          BY <4>4
        <4> QED
          BY <4>3, <4>6, <4>7 DEF Lost
      <3>7. Len(b) > 3 \/ Len(b) = 1 \/ Len(b) = 2 \/ Len(b) = 3
        <4>1. \A n \in Nat : n >= 1 => n > 3 \/ n = 1 \/ n = 2 \/ n = 3
          OBVIOUS
        <4>2. Len(b) \in Nat /\ Len(b) >= 1
          BY <1>2
        <4> QED
          BY <4>1, <4>2
      <3> QED
        BY <3>5, <3>6, <3>7
    <2> QED
      BY <2>2, <2>3
  <1>8. ASSUME Incomplete(b, w) PROVE Lost(t)
    <2>1. /\ Cardinality(Headers(b)) = 1 /\ b[1].kind = "array"
          /\ w # <<>> /\ w[1].kind # "array"
      <3>1. w # <<>> /\ Head(w).kind # "array" /\ Cardinality(Headers(b)) = 1
            /\ Head(b).kind = "array"
        BY <1>8 DEF Incomplete
      <3>2. Head(w) = w[1]
        BY <3>1, FirstPiece
      <3> QED
        BY <1>2, <3>1, <3>2
    <2>2. TailOf(r, b) /\ Len(r) < Len(b)
      <3>1. Looks(b[1]).kind = "array"
        BY <1>2, <2>1, LooksFacts
      <3> QED
        BY <3>1, CommandIsTail
    <2>3. CASE r = <<>>
      BY <1>1, <2>1, <2>3, ConcatFirst DEF Lost
    <2>4. CASE r # <<>>
      <3> DEFINE j == Len(b) - Len(r) + 1
      <3>1. Len(r) \in Nat /\ Len(r) >= 1
        BY <1>1, <2>4, FirstPiece
      <3>2. j \in 2 .. Len(b) /\ r[1] = b[j]
        <4>1. 1 \in 1 .. Len(r)
          BY <3>1
        <4>2. r[1] = b[j]
          BY <2>2, <4>1 DEF TailOf
        <4>3. j \in 2 .. Len(b)
          BY <1>2, <2>2, <3>1
        <4> QED
          BY <4>2, <4>3
      <3> HIDE DEF j
      <3>3. b[j].kind # "array"
        <4>1. SUFFICES ASSUME b[j].kind = "array" PROVE FALSE
          OBVIOUS
        <4>2. 1 \in Headers(b) /\ j \in Headers(b) /\ j # 1
          BY <1>2, <2>1, <3>2, <4>1 DEF Headers
        <4>3. PICK x : Headers(b) = {x}
          BY <2>1, HeadersFacts, FS_Singleton
        <4> QED
          BY <4>2, <4>3
      <3> QED
        BY <1>1, <2>4, <3>2, <3>3, ConcatFirst DEF Lost
    <2> QED
      BY <2>3, <2>4
  <1> QED
    BY <1>1, <1>5, <1>7, <1>8 DEF s

\* Bytes that arrive were sent.
LEMMA SomethingSent ==
    ASSUME NEW q \in Seq(AllRequests), NEW b \in Bytes, b # <<>>, NEW w \in Bytes,
           b \o w = EncodeAll(q)
    PROVE  q # <<>>
  <1>1. b \o w # <<>>
    BY ConcatFacts
  <1> QED
    BY <1>1, EncodeAllFacts

\* A read that ends in a later request has all of the first one.
LEMMA FirstComplete ==
    ASSUME NEW q \in Seq(AllRequests), NEW b \in Bytes, b # <<>>, NEW w \in Bytes,
           b \o w = EncodeAll(q), ~Incomplete(b, w), q[1] \notin Spoiling
    PROVE  /\ q # <<>>
           /\ \E s \in Bytes : b = Encode(q[1]) \o s /\ s \o w = EncodeAll(Drop(q, 1))
  <1> DEFINE S == b \o w
             e == Encode(q[1])
             x == EncodeAll(Drop(q, 1))
             s == Drop(b, Len(e))
  <1>1. Len(b) \in Nat /\ Len(b) >= 1 /\ Head(b) = b[1] /\ b[1] \in Pieces
    BY FirstPiece
  <1>2. /\ S \in Bytes /\ Len(S) = Len(b) + Len(w) /\ Len(w) \in Nat /\ S # <<>>
        /\ \A i \in 1 .. Len(b) : S[i] = b[i]
        /\ \A i \in 1 .. Len(w) : S[Len(b) + i] = w[i]
    BY ConcatFacts
  <1> HIDE DEF S
  <1>3. q # <<>> /\ q[1] \in AllRequests
    <2>1. q # <<>>
      BY SomethingSent
    <2>2. q[1] \in AllRequests
      BY <2>1
    <2> QED
      BY <2>1, <2>2
  <1>4. /\ e \in Bytes /\ e # <<>> /\ Len(e) >= 1 /\ e[1].kind = "array"
        /\ \A i \in 2 .. Len(e) : e[i].kind # "array"
    BY <1>3, EncodeFacts, PlainRequest
  <1>5. x \in Bytes
    <2>1. Drop(q, 1) \in Seq(AllRequests)
      BY DropFacts
    <2> QED
      BY <2>1, EncodeAllFacts
  <1>6. S = e \o x
    BY <1>3, EncodeAllFirst DEF S
  <1> HIDE DEF e, x
  <1>7. /\ Len(S) = Len(e) + Len(x) /\ Len(e) \in Nat /\ Len(x) \in Nat
        /\ \A i \in 1 .. Len(e) : S[i] = e[i]
    BY <1>4, <1>5, <1>6, ConcatFacts
  <1>8. Len(b) >= Len(e)
    <2>1. SUFFICES ASSUME Len(b) < Len(e) PROVE FALSE
      BY <1>1, <1>7
    <2>2. \A i \in 1 .. Len(b) : b[i] = e[i]
      BY <1>1, <1>2, <1>7, <2>1
    <2>3. b[1].kind = "array"
      BY <1>1, <1>4, <2>2
    <2>4. Headers(b) = {1}
      <3>1. 1 \in Headers(b)
        BY <1>1, <2>3 DEF Headers
      <3>2. ASSUME NEW i \in Headers(b) PROVE i = 1
        <4>1. i \in 1 .. Len(b) /\ e[i].kind = "array"
          BY <2>2 DEF Headers
        <4>2. i # 1 => i \in 2 .. Len(e)
          BY <1>1, <1>7, <2>1, <4>1
        <4> QED
          BY <1>4, <4>1, <4>2
      <3> QED
        BY <3>1, <3>2
    <2>5. Cardinality(Headers(b)) = 1
      BY <2>4, FS_Singleton
    <2>6. Len(w) >= 1 /\ 1 \in 1 .. Len(w)
      BY <1>1, <1>2, <1>7, <2>1
    <2>7. w # <<>>
      BY <2>6
    <2>8. w[1] = e[Len(b) + 1] /\ Len(b) + 1 \in 2 .. Len(e)
      <3>1. Len(b) + 1 \in 1 .. Len(e) /\ Len(b) + 1 \in 2 .. Len(e)
        BY <1>1, <1>7, <2>1
      <3>2. S[Len(b) + 1] = w[1]
        BY <1>2, <2>6
      <3> QED
        BY <1>7, <3>1, <3>2
    <2>9. w[1].kind # "array" /\ Head(w) = w[1]
      BY <1>4, <2>7, <2>8, FirstPiece
    <2> QED
      BY <1>1, <2>3, <2>5, <2>7, <2>9 DEF Incomplete
  <1>9. /\ s \in Bytes /\ Len(s) = Len(b) - Len(e)
        /\ \A i \in 1 .. Len(b) - Len(e) : s[i] = b[Len(e) + i]
    BY <1>1, <1>7, <1>8, DropFacts DEF Bytes
  <1> HIDE DEF s
  <1> DEFINE c == e \o s
  <1>10. /\ c \in Bytes /\ Len(c) = Len(e) + Len(s)
         /\ \A i \in 1 .. Len(e) : c[i] = e[i]
         /\ \A i \in 1 .. Len(s) : c[Len(e) + i] = s[i]
    BY <1>4, <1>9, ConcatFacts
  <1> HIDE DEF c
  <1>11. Len(c) = Len(b)
    BY <1>1, <1>7, <1>9, <1>10
  <1>12. ASSUME NEW i \in 1 .. Len(b) PROVE c[i] = b[i]
    <2>1. CASE i <= Len(e)
      <3>1. i \in 1 .. Len(e)
        BY <1>1, <2>1
      <3> QED
        BY <1>2, <1>7, <1>10, <3>1
    <2>2. CASE i > Len(e)
      <3> DEFINE j == i - Len(e)
      <3>1. j \in 1 .. Len(s) /\ j \in 1 .. Len(b) - Len(e) /\ i = Len(e) + j
        BY <1>1, <1>7, <1>8, <1>9, <2>2
      <3> HIDE DEF j
      <3> QED
        BY <1>9, <1>10, <3>1
    <2> QED
      BY <1>1, <1>7, <2>1, <2>2
  <1>13. c = b
    BY <1>10, <1>11, <1>12, SeqEqual DEF Bytes
  <1>14. (e \o s) \o w = e \o (s \o w)
    <2>1. e \in Bytes /\ s \in Bytes /\ w \in Bytes
      BY <1>4, <1>9
    <2> QED
      BY <2>1, BytesAssociative
  <1>15. e \o (s \o w) = e \o x
    BY <1>6, <1>13, <1>14 DEF c, S
  <1>16. s \o w = x
    <2> DEFINE y == s \o w
    <2>1. y \in Bytes
      BY <1>9, ConcatFacts
    <2> HIDE DEF y
    <2>2. e \o y = e \o x
      BY <1>15 DEF y
    <2>3. y = x
      BY <1>4, <1>5, <2>1, <2>2, ConcatSimplifications DEF Bytes
    <2> QED
      BY <2>3 DEF y
  <1> QED
    BY <1>3, <1>9, <1>13, <1>16 DEF c, e, x

\* It is executed, or refused, and the bytes of the others are left.
LEMMA FirstExecuted ==
    ASSUME NEW q \in Seq(AllRequests), NEW b \in Bytes, b # <<>>, NEW w \in Bytes,
           b \o w = EncodeAll(q), ~Incomplete(b, w), q[1] \notin Spoiling,
           Cardinality(Headers(b)) > 1 => q[1] \in Proper
    PROVE  /\ q # <<>>
           /\ parseCommand(b).cmd = Meaning(q[1])
           /\ parseCommand(b).rest \o w = EncodeAll(Drop(q, 1))
  <1> DEFINE e == Encode(q[1])
  <1>1. q # <<>>
    BY FirstComplete
  <1>2. PICK s \in Bytes : b = e \o s /\ s \o w = EncodeAll(Drop(q, 1))
    BY FirstComplete
  <1>3. q[1] \in AllRequests
    BY <1>1
  <1>4. e \in Bytes /\ e # <<>> /\ Len(e) >= 1 /\ Len(e) \in Nat /\ e[1].kind = "array"
    BY <1>3, EncodeFacts, FirstPiece
  <1>5. CASE q[1] \in Proper
    <2>1. parseCommand(e \o Following) = [cmd |-> q[1], rest |-> Following]
      BY <1>5, ProperAssumption
    <2>2. parseCommand(b) = [cmd |-> q[1], rest |-> s]
      BY <1>2, <1>4, <2>1, ParseLocal
    <2>3. Meaning(q[1]) = q[1]
      BY <1>5 DEF Meaning
    <2> QED
      BY <1>1, <1>2, <2>2, <2>3
  <1>6. CASE q[1] \notin Proper
    <2>1. q[1] \in Refused /\ Meaning(q[1]) = UnknowCommand
      BY <1>3, <1>6 DEF AllRequests, Meaning
    <2>2. s = <<>>
      <3>1. SUFFICES ASSUME s # <<>> PROVE FALSE
        OBVIOUS
      <3> DEFINE d == Drop(q, 1)
                 y == s \o w
      <3>2. d \in Seq(AllRequests)
        BY DropFacts
      <3>3. y # <<>> /\ y[1] = s[1]
        BY <3>1, ConcatFirst
      <3>4. y = EncodeAll(d)
        BY <1>2
      <3> HIDE DEF d, y
      <3>5. d # <<>>
        BY <3>2, <3>3, <3>4, EncodeAllFacts
      <3>6. d[1] \in AllRequests
        BY <3>2, <3>5
      <3>7. y = Encode(d[1]) \o EncodeAll(Drop(d, 1))
        BY <3>2, <3>4, <3>5, EncodeAllFirst
      <3> DEFINE g == Encode(d[1])
                 z == EncodeAll(Drop(d, 1))
      <3>8. g \in Bytes /\ g # <<>> /\ g[1].kind = "array"
        BY <3>6, EncodeFacts
      <3>9. z \in Bytes
        <4>1. Drop(d, 1) \in Seq(AllRequests)
          BY <3>2, DropFacts
        <4> QED
          BY <4>1, EncodeAllFacts
      <3> HIDE DEF g, z
      <3>10. y[1] = g[1]
        BY <3>7, <3>8, <3>9, ConcatFirst DEF g, z
      <3>11. s[1].kind = "array" /\ Len(s) \in Nat /\ Len(s) >= 1
        BY <3>1, <3>3, <3>8, <3>10, FirstPiece
      <3>12. /\ Len(b) = Len(e) + Len(s) /\ \A i \in 1 .. Len(e) : b[i] = e[i]
             /\ \A i \in 1 .. Len(s) : b[Len(e) + i] = s[i]
        BY <1>2, <1>4, ConcatFacts
      <3> DEFINE n == Len(e) + 1
      <3>13. 1 \in Headers(b) /\ n \in Headers(b) /\ n # 1
        <4>1. 1 \in 1 .. Len(b) /\ 1 \in 1 .. Len(e) /\ 1 \in 1 .. Len(s) /\ n \in 1 .. Len(b)
          BY <1>4, <3>11, <3>12
        <4>2. b[1] = e[1] /\ b[n] = s[1]
          BY <3>12, <4>1
        <4>3. n # 1
          BY <1>4
        <4> HIDE DEF n, e
        <4> QED
          BY <1>4, <3>11, <4>1, <4>2, <4>3 DEF Headers
      <3> HIDE DEF n
      <3>14. Cardinality(Headers(b)) \in Nat /\ IsFiniteSet(Headers(b))
        BY HeadersFacts
      <3>15. Cardinality(Headers(b)) # 1
        BY <3>13, <3>14, FS_Singleton
      <3>16. Cardinality(Headers(b)) # 0
        BY <3>13, <3>14, FS_EmptySet
      <3>17. Cardinality(Headers(b)) > 1
        BY <3>14, <3>15, <3>16
      <3> QED
        BY <1>6, <3>17
    <2>3. b = e
      <3>1. e \in Seq(Pieces)
        BY <1>4 DEF Bytes
      <3> HIDE DEF e
      <3>2. e \o <<>> = e
        BY <3>1, ConcatEmptySeq
      <3> QED
        BY <1>2, <2>2, <3>2
    <2>4. parseCommand(b) = [cmd |-> UnknowCommand, rest |-> <<>>]
      BY <2>1, <2>3, RefusedAssumption
    <2> QED
      <3>1. parseCommand(b).cmd = UnknowCommand /\ parseCommand(b).rest = s
        BY <2>2, <2>4
      <3> QED
        BY <1>1, <1>2, <2>1, <3>1
  <1> QED
    BY <1>5, <1>6

-----------------------------------------------------------------------------
(* The invariants.                                                         *)

Types ==
    /\ sent \in Seq(AllRequests)
    /\ wire \in Bytes /\ read_buffer \in Bytes
    /\ \E T : answered \in Seq(T)
    /\ torn \in BOOLEAN /\ astray \in BOOLEAN /\ coalesced \in BOOLEAN

\* The bytes not parsed yet.
Stream == read_buffer \o wire

\* Unless a token begins in the rest of a binary text: bulk strings are whole,
\* and from a torn request on the stream does not start with a request until it
\* has started with a text that looks like a header.
StreamOK == ~TokenInBinary => Aligned(Stream) /\ (astray => Lost(Stream))

IInv == Types /\ StreamOK

Buffer(k) == read_buffer \o SubSeq(wire, 1, k)

\* The two outcomes of a read event.
Closes(k) ==
    /\ open' = FALSE
    /\ UNCHANGED <<answered, torn, astray, coalesced, sent>>
    /\ read_buffer' = Buffer(k) /\ wire' = Drop(wire, k)

Parses(k) ==
    /\ Buffer(k) # <<>>
    /\ open /\ open' = open /\ sent' = sent
    /\ read_buffer' = parseCommand(Buffer(k)).rest /\ wire' = Drop(wire, k)
    /\ answered' = Append(answered, parseCommand(Buffer(k)).cmd)
    /\ torn' = (torn \/ Incomplete(Buffer(k), Drop(wire, k)))
    /\ astray' = StaysAstray(Buffer(k), Drop(wire, k))
    /\ coalesced' = (coalesced \/ Cardinality(Headers(Buffer(k))) > 1)

LEMMA ReadableCases ==
    ASSUME Types, Readable
    PROVE  \E k \in 0 .. Len(wire) : Closes(k) \/ Parses(k)
  <1>0. wire \in Bytes /\ read_buffer \in Bytes /\ Len(wire) \in Nat
    BY DEF Types, Bytes
  <1>1. PICK k \in 0 .. Len(wire) : (k > 0 \/ (hung_up /\ wire = <<>>)) /\ handleRead(k)
    BY DEF Readable
  <1>2. CASE hung_up /\ k = Len(wire)
    <2>1. Closes(k)
      BY <1>1, <1>2 DEF handleRead, Closes, Buffer, aux
    <2> QED
      BY <2>1
  <1>3. CASE ~(hung_up /\ k = Len(wire))
    <2>1. k >= 1
      BY <1>0, <1>1, <1>3
    <2>2. Buffer(k) # <<>>
      BY <1>0, <2>1, ReadFacts DEF Buffer
    <2>3. Parses(k)
      BY <1>1, <1>3, <2>2 DEF handleRead, Parses, Buffer
    <2> QED
      BY <2>3
  <1> QED
    BY <1>2, <1>3

LEMMA BufferFacts ==
    ASSUME Types, NEW k \in 0 .. Len(wire)
    PROVE  /\ Buffer(k) \in Bytes /\ Drop(wire, k) \in Bytes
           /\ Buffer(k) \o Drop(wire, k) = Stream
           /\ read_buffer # <<>> => Buffer(k) # <<>> /\ Buffer(k)[1] = read_buffer[1]
  <1>1. wire \in Bytes /\ read_buffer \in Bytes
    BY DEF Types
  <1>2. Buffer(k) \in Bytes /\ Drop(wire, k) \in Bytes
    BY <1>1, ReadFacts DEF Buffer
  <1>3. Buffer(k) \o Drop(wire, k) = Stream
    BY <1>1, ReadFacts DEF Buffer, Stream
  <1>4. read_buffer # <<>> => Buffer(k) # <<>> /\ Buffer(k)[1] = read_buffer[1]
    BY <1>1, ReadFacts DEF Buffer
  <1> QED
    BY <1>2, <1>3, <1>4

LEMMA TypesInit == Init => IInv
  <1> SUFFICES ASSUME Init PROVE IInv
    OBVIOUS
  <1>1. <<>> \in Bytes /\ Len(<<>>) = 0
    BY DEF Bytes
  <1>2. Stream = <<>>
    BY <1>1, ConcatFirst DEF Init, Stream
  <1>3. Aligned(<<>>)
    BY <1>1 DEF Aligned
  <1>4. <<>> \in Seq(AllRequests) /\ \E T : <<>> \in Seq(T)
    <2>1. <<>> \in Seq(AllRequests)
      OBVIOUS
    <2> QED
      BY <2>1
  <1>5. Types
    BY <1>1, <1>4 DEF Init, Types
  <1> QED
    BY <1>2, <1>3, <1>5 DEF Init, IInv, StreamOK

\* What appending an answer does.
LEMMA AnswerAppended ==
    ASSUME NEW s, NEW c, \E T : s \in Seq(T)
    PROVE  /\ \E T : Append(s, c) \in Seq(T)
           /\ Len(s) \in Nat /\ Len(Append(s, c)) = Len(s) + 1
           /\ \A i \in 1 .. Len(s) : Append(s, c)[i] = s[i]
           /\ Append(s, c)[Len(s) + 1] = c
  <1>1. PICK T : s \in Seq(T)
    OBVIOUS
  <1> DEFINE U == T \cup {c}
  <1>2. s \in Seq(U) /\ c \in U
    BY <1>1
  <1> HIDE DEF U
  <1>3. Append(s, c) \in Seq(U)
    BY <1>2
  <1> QED
    BY <1>2, <1>3, AppendProperties

LEMMA SendStream ==
    ASSUME Types, NEW request \in AllRequests, Send(request)
    PROVE  /\ Stream' = Stream \o Encode(request)
           /\ sent' \in Seq(AllRequests) /\ wire' \in Bytes
           /\ Stream \in Bytes
  <1> DEFINE b == read_buffer
             w == wire
             e == Encode(request)
  <1>1. b \in Bytes /\ w \in Bytes /\ e \in Bytes
    BY EncodeFacts DEF Types
  <1>2. Stream' = b \o (w \o e)
    BY DEF Send, Stream
  <1>3. (b \o w) \o e = b \o (w \o e)
    <2> HIDE DEF b, w, e
    <2> QED
      BY <1>1, BytesAssociative
  <1>4. w \o e \in Bytes /\ b \o w \in Bytes
    BY <1>1, ConcatFacts
  <1>5. sent' \in Seq(AllRequests)
    BY DEF Types, Send
  <1> QED
    BY <1>2, <1>3, <1>4, <1>5 DEF Send, Stream

\* A token in the rest of a binary text stays among what was sent.
LEMMA SentGrows ==
    ASSUME Types, NEW request \in AllRequests, Send(request)
    PROVE  /\ TokenInBinary => TokenInBinary'
           /\ ~TokenInBinary' => Plain(request)
  <1>1. /\ sent' = Append(sent, request) /\ sent \in Seq(AllRequests)
        /\ Len(sent) \in Nat /\ Len(sent') = Len(sent) + 1
        /\ \A i \in 1 .. Len(sent) : sent'[i] = sent[i]
        /\ sent'[Len(sent) + 1] = request
    <2>1. sent' = Append(sent, request) /\ sent \in Seq(AllRequests) /\ Len(sent) \in Nat
      BY DEF Send, Types
    <2> QED
      BY <2>1, AppendProperties
  <1>2. Sent \subseteq Sent'
    <2> SUFFICES ASSUME NEW i \in 1 .. Len(sent) PROVE sent[i] \in Sent'
      BY DEF Sent
    <2>1. i \in 1 .. Len(sent') /\ sent'[i] = sent[i]
      BY <1>1
    <2> QED
      BY <2>1 DEF Sent
  <1>3. request \in Sent'
    <2>1. Len(sent) + 1 \in 1 .. Len(sent')
      BY <1>1
    <2> QED
      BY <1>1, <2>1 DEF Sent
  <1>4. TokenInBinary => TokenInBinary'
    BY <1>2 DEF TokenInBinary
  <1>5. ~TokenInBinary' => Plain(request)
    BY <1>3 DEF TokenInBinary, Plain, PlainText
  <1> QED
    BY <1>4, <1>5

LEMMA IInvStep == IInv /\ [Next]_vars => IInv'
  <1> SUFFICES ASSUME IInv, [Next]_vars PROVE IInv'
    OBVIOUS
  <1>0. /\ Types /\ StreamOK
        /\ torn \in BOOLEAN /\ astray \in BOOLEAN /\ coalesced \in BOOLEAN
    BY DEF IInv, Types
  <1>1. ASSUME NEW request \in AllRequests, Send(request) PROVE IInv'
    <2> DEFINE e == Encode(request)
    <2>1. /\ Stream' = Stream \o e /\ sent' \in Seq(AllRequests) /\ wire' \in Bytes
          /\ Stream \in Bytes
      BY <1>0, <1>1, SendStream
    <2>2. e \in Bytes /\ (Plain(request) => Aligned(e))
      BY EncodeFacts
    <2>3. ~TokenInBinary' => ~TokenInBinary /\ Plain(request)
      BY <1>0, <1>1, SentGrows
    <2>4. UNCHANGED <<read_buffer, answered, torn, astray, coalesced>>
      BY <1>1 DEF Send, aux
    <2>5. Types'
      BY <1>0, <2>1, <2>4 DEF Types
    <2>6. ASSUME ~TokenInBinary' PROVE Aligned(Stream') /\ (astray' => Lost(Stream'))
      <3>1. Aligned(Stream) /\ (astray => Lost(Stream)) /\ Aligned(e)
        BY <1>0, <2>2, <2>3, <2>6 DEF StreamOK
      <3>2. Aligned(Stream')
        BY <2>1, <2>2, <3>1, AlignedConcat
      <3>3. Lost(Stream) => Lost(Stream')
        BY <2>1, <2>2, ConcatFirst DEF Lost
      <3> QED
        BY <2>4, <3>1, <3>2, <3>3
    <2> QED
      BY <2>5, <2>6 DEF IInv, StreamOK
  <1>2. CASE HangUp \/ UNCHANGED vars
    <2>1. UNCHANGED <<sent, wire, read_buffer, answered, torn, astray, coalesced>>
      BY <1>2 DEF HangUp, vars, aux
    <2> QED
      BY <1>0, <2>1 DEF IInv, Types, StreamOK, Stream, TokenInBinary, Sent
  <1>3. CASE Readable
    <2>1. PICK k \in 0 .. Len(wire) : Closes(k) \/ Parses(k)
      BY <1>0, <1>3, ReadableCases
    <2> DEFINE b == Buffer(k)
               w == Drop(wire, k)
    <2>2. b \in Bytes /\ w \in Bytes /\ b \o w = Stream
      BY <1>0, BufferFacts
    <2>3. sent' = sent /\ (TokenInBinary' <=> TokenInBinary)
      BY <2>1 DEF Closes, Parses, TokenInBinary, Sent
    <2>4. CASE Closes(k)
      <3>1. Stream' = Stream
        BY <2>2, <2>4 DEF Closes, Stream
      <3>2. Types'
        BY <1>0, <2>2, <2>4 DEF Types, Closes
      <3> QED
        BY <1>0, <2>3, <2>4, <3>1, <3>2 DEF IInv, StreamOK, Closes
    <2>5. CASE Parses(k)
      <3> DEFINE r == parseCommand(b).rest
      <3>0. b # <<>> /\ Head(b) = b[1]
        BY <2>2, <2>5, FirstPiece DEF Parses
      <3>1. r \in Bytes
        BY <2>2, <3>0, RestFacts
      <3>2. /\ Aligned(b \o w) => Aligned(r \o w)
            /\ Aligned(b \o w) /\ Lost(b \o w) /\ ~Opening(b[1]) => Lost(r \o w)
            /\ Incomplete(b, w) => Lost(r \o w)
        BY <2>2, <3>0, RestFacts
      <3>3. Stream' = r \o w
        BY <2>5 DEF Parses, Stream
      <3>4. torn' \in BOOLEAN /\ coalesced' \in BOOLEAN
        BY <1>0, <2>5, Zenon DEF Parses
      <3>5. astray' = ((astray \/ Incomplete(b, w)) /\ ~Opening(Head(b)))
            /\ astray' \in BOOLEAN
        BY <1>0, <2>5, Zenon DEF Parses, StaysAstray
      <3>6. \E T : answered' \in Seq(T)
        BY <1>0, <2>5, AnswerAppended DEF Types, Parses
      <3>7. Types'
        BY <1>0, <2>2, <2>5, <3>1, <3>4, <3>5, <3>6 DEF Types, Parses
      <3>8. astray' => (astray \/ Incomplete(b, w)) /\ ~Opening(Head(b))
        BY <3>5, Zenon
      <3> HIDE DEF b, w, r
      <3>9. ASSUME ~TokenInBinary PROVE Aligned(Stream') /\ (astray' => Lost(Stream'))
        <4>1. Aligned(b \o w) /\ (astray => Lost(b \o w))
          BY <1>0, <2>2, <3>9 DEF StreamOK
        <4> QED
          BY <3>0, <3>2, <3>3, <3>8, <4>1
      <3> QED
        BY <2>3, <3>7, <3>9 DEF IInv, StreamOK
    <2> QED
      BY <2>1, <2>4, <2>5
  <1> QED
    BY <1>1, <1>2, <1>3 DEF Next, AllRequests

\* The bytes of a connection keep their shape, and from a torn request on they
\* do not start with a request until they have started with a text that looks
\* like a header (parser.cpp takes a "*" or "$" for one), for any requests and
\* any reads in which no token begins in the rest of a binary text.
THEOREM StreamInvariant == Spec => []IInv
  BY TypesInit, IInvStep, PTL DEF Spec

\* A step from a state in which a request was torn, or read_buffer starts with
\* bytes that are not a request, executes nothing, but for the two exceptions.
LEMMA NothingExecuted ==
    IInv /\ [Next]_vars =>
        [(astray \/ Wedged) /\ ~TextFirst /\ ~TokenInBinary =>
            answered' \in {answered, Append(answered, UnknowCommand)}]_vars
  <1> SUFFICES ASSUME IInv, Next, astray \/ Wedged, ~TextFirst, ~TokenInBinary
               PROVE  answered' \in {answered, Append(answered, UnknowCommand)}
    OBVIOUS
  <1>0. Types /\ (astray => Lost(Stream)) /\ read_buffer \in Bytes
    BY DEF IInv, StreamOK, Types
  <1>1. CASE \E request \in AllRequests : Send(request)
    BY <1>1 DEF Send
  <1>2. CASE HangUp
    BY <1>2 DEF HangUp
  <1>3. CASE Readable
    <2>1. PICK k \in 0 .. Len(wire) : Closes(k) \/ Parses(k)
      BY <1>0, <1>3, ReadableCases
    <2>2. CASE Closes(k)
      BY <2>2 DEF Closes
    <2>3. CASE Parses(k)
      <3> DEFINE b == Buffer(k)
                 w == Drop(wire, k)
      <3>1. /\ b \in Bytes /\ w \in Bytes /\ b \o w = Stream
            /\ read_buffer # <<>> => b[1] = read_buffer[1]
        BY <1>0, BufferFacts
      <3>2. b # <<>> /\ answered' = Append(answered, parseCommand(b).cmd)
        BY <2>3 DEF Parses
      <3> HIDE DEF b, w
      <3>3. /\ Stream \in Bytes /\ Stream # <<>> /\ Stream[1] = b[1] /\ Head(Stream) = b[1]
            /\ b[1] \in Pieces
        <4>1. Stream \in Bytes /\ Stream # <<>> /\ Stream[1] = b[1]
          BY <3>1, <3>2, ConcatFacts, ConcatFirst
        <4> QED
          BY <3>1, <3>2, <4>1, FirstPiece
      <3>4. Looks(b[1]) = b[1]
        BY <3>3, LooksFacts DEF TextFirst, Stream
      <3>5. b[1].kind # "array"
        <4>1. CASE astray
          BY <1>0, <3>3, <4>1 DEF Lost
        <4>2. CASE Wedged
          <5>1. read_buffer # <<>> /\ read_buffer[1].kind # "array"
            BY <1>0, <4>2, FirstPiece DEF Wedged
          <5> QED
            BY <3>1, <5>1
        <4> QED
          BY <4>1, <4>2
      <3>6. parseCommand(b).cmd = UnknowCommand
        BY <3>1, <3>2, <3>4, <3>5, NoCommand
      <3> QED
        BY <3>2, <3>6
    <2> QED
      BY <2>1, <2>2, <2>3
  <1> QED
    BY <1>1, <1>2, <1>3 DEF Next, AllRequests

\* A connection does not recover by itself: after a command was parsed from a
\* part of its bytes (handleRead calls onMessage with what has arrived), or with
\* bytes at the start of read_buffer that no parser took, no read executes a
\* command until the bytes to parse begin with a text that looks like a header,
\* for any requests, any texts that look like headers, any reads and any number
\* of them, if no token begins in the rest of a binary text.
THEOREM NeverRecoversHolds == Spec => NeverRecovers
  <1>1. Spec => []IInv
    BY StreamInvariant
  <1> QED
    BY <1>1, NothingExecuted, PTL DEF Spec, NeverRecovers

-----------------------------------------------------------------------------
(* Clean reads.                                                            *)

LEMMA ExecutesInit == Init => ExecutesWhatWasSent
  <1> SUFFICES ASSUME Init PROVE ExecutesWhatWasSent
    OBVIOUS
  <1>1. <<>> \in Bytes /\ Len(<<>>) = 0
    BY DEF Bytes
  <1>2. read_buffer \o wire = <<>>
    BY <1>1, ConcatFirst DEF Init
  <1>3. Drop(<<>>, 0) = <<>>
    BY SubSeqEmpty, <1>1 DEF Drop
  <1>4. EncodeAll(<<>>) = <<>>
    <2>1. <<>> \in Seq(AllRequests)
      OBVIOUS
    <2> QED
      BY <2>1, EncodeAllFacts
  <1> QED
    BY <1>1, <1>2, <1>3, <1>4 DEF Init, ExecutesWhatWasSent

\* The part of the properties that a clean read keeps.
Executed ==
    /\ Len(answered) <= Len(sent)
    /\ \A i \in 1 .. Len(answered) : answered[i] = Meaning(sent[i])
    /\ Stream = EncodeAll(Drop(sent, Len(answered)))

LEMMA DropAppend ==
    ASSUME NEW S, NEW q \in Seq(S), NEW x \in S, NEW k \in 0 .. Len(q)
    PROVE  Drop(Append(q, x), k) = Append(Drop(q, k), x)
  <1> DEFINE a == Append(q, x)
             l == Drop(a, k)
             d == Drop(q, k)
             r == Append(d, x)
  <1>1. k \in Nat /\ Len(q) \in Nat /\ k <= Len(q)
    OBVIOUS
  <1>2. /\ a \in Seq(S) /\ Len(a) = Len(q) + 1 /\ a[Len(q) + 1] = x
        /\ \A i \in 1 .. Len(q) : a[i] = q[i]
    OBVIOUS
  <1>3. /\ d \in Seq(S) /\ Len(d) = Len(q) - k
        /\ \A i \in 1 .. Len(q) - k : d[i] = q[k + i]
    BY <1>1, DropFacts
  <1> HIDE DEF a, d
  <1>4. /\ l \in Seq(S) /\ Len(l) = Len(q) + 1 - k
        /\ \A i \in 1 .. Len(l) : l[i] = a[k + i]
    <2>1. k <= Len(a) /\ Len(a) - k = Len(q) + 1 - k
      BY <1>1, <1>2
    <2> QED
      BY <1>1, <1>2, <2>1, DropFacts
  <1>5. /\ r \in Seq(S) /\ Len(r) = Len(q) - k + 1 /\ r[Len(d) + 1] = x
        /\ \A i \in 1 .. Len(d) : r[i] = d[i]
    BY <1>3
  <1> HIDE DEF l, r
  <1>6. Len(l) = Len(r)
    BY <1>1, <1>4, <1>5
  <1>7. ASSUME NEW i \in 1 .. Len(l) PROVE l[i] = r[i]
    <2>1. CASE i <= Len(q) - k
      <3>1. i \in 1 .. Len(d) /\ i \in 1 .. Len(q) - k /\ k + i \in 1 .. Len(q)
        BY <1>1, <1>3, <2>1
      <3> QED
        BY <1>2, <1>3, <1>4, <1>5, <3>1
    <2>2. CASE i > Len(q) - k
      <3>1. i = Len(d) + 1 /\ k + i = Len(q) + 1
        BY <1>1, <1>3, <1>4, <2>2
      <3> QED
        BY <1>2, <1>4, <1>5, <3>1
    <2> QED
      BY <1>1, <1>4, <2>1, <2>2
  <1>8. l = r
    BY <1>4, <1>5, <1>6, <1>7, SeqEqual
  <1> QED
    BY <1>8 DEF l, r, a, d

\* Dropping one more.
LEMMA DropOneMore ==
    ASSUME NEW S, NEW q \in Seq(S), NEW k \in Nat, k < Len(q)
    PROVE  /\ Drop(q, k)[1] = q[k + 1] /\ Drop(q, k) \in Seq(S)
           /\ Drop(Drop(q, k), 1) = Drop(q, k + 1)
  <1> DEFINE d == Drop(q, k)
             l == Drop(d, 1)
             r == Drop(q, k + 1)
  <1>1. Len(q) \in Nat /\ k + 1 \in Nat /\ k + 1 <= Len(q) /\ k <= Len(q)
    OBVIOUS
  <1>2. /\ d \in Seq(S) /\ Len(d) = Len(q) - k
        /\ \A i \in 1 .. Len(q) - k : d[i] = q[k + i]
    BY <1>1, DropFacts
  <1>3. /\ r \in Seq(S) /\ Len(r) = Len(q) - (k + 1)
        /\ \A i \in 1 .. Len(q) - (k + 1) : r[i] = q[(k + 1) + i]
    BY <1>1, DropFacts
  <1> HIDE DEF d, r
  <1>4. /\ l \in Seq(S) /\ Len(l) = Len(d) - 1
        /\ \A i \in 1 .. Len(d) - 1 : l[i] = d[1 + i]
    <2>1. 1 <= Len(d)
      BY <1>1, <1>2
    <2> QED
      BY <1>2, <2>1, DropFacts
  <1> HIDE DEF l
  <1>5. Len(l) = Len(r)
    BY <1>1, <1>2, <1>3, <1>4
  <1>6. ASSUME NEW i \in 1 .. Len(l) PROVE l[i] = r[i]
    <2>1. /\ i \in 1 .. Len(d) - 1 /\ 1 + i \in 1 .. Len(q) - k
          /\ i \in 1 .. Len(q) - (k + 1) /\ k + (1 + i) = (k + 1) + i
      BY <1>1, <1>2, <1>3, <1>4
    <2>2. l[i] = d[1 + i] /\ d[1 + i] = q[k + (1 + i)] /\ r[i] = q[(k + 1) + i]
      BY <1>2, <1>3, <1>4, <2>1
    <2> QED
      BY <2>1, <2>2
  <1>7. l = r
    BY <1>3, <1>4, <1>5, <1>6, SeqEqual
  <1>8. d[1] = q[k + 1]
    <2>1. 1 \in 1 .. Len(q) - k
      BY <1>1
    <2> QED
      BY <1>2, <2>1
  <1> QED
    BY <1>2, <1>7, <1>8 DEF l, r, d

\* A client sends one request more.
LEMMA ExecutesSend ==
    ASSUME Types, ExecutesWhatWasSent, NEW request \in AllRequests, Send(request)
    PROVE  ExecutesWhatWasSent'
  <1> SUFFICES ASSUME Clean', open' PROVE Executed'
    BY DEF ExecutesWhatWasSent, Executed, Stream
  <1>1. /\ sent' = Append(sent, request)
        /\ UNCHANGED <<read_buffer, open, answered, torn, coalesced>>
    BY DEF Send, aux
  <1>2. /\ sent \in Seq(AllRequests) /\ Len(sent) \in Nat /\ Len(answered) \in Nat
        /\ Len(sent') = Len(sent) + 1 /\ \A i \in 1 .. Len(sent) : sent'[i] = sent[i]
    <2>1. sent \in Seq(AllRequests) /\ Len(sent) \in Nat /\ Len(answered) \in Nat
      BY DEF Types
    <2> QED
      BY <1>1, <2>1
  <1>3. Clean
    <2>1. Sent \subseteq Sent'
      <3> SUFFICES ASSUME NEW i \in 1 .. Len(sent) PROVE sent[i] \in Sent'
        BY DEF Sent
      <3>1. i \in 1 .. Len(sent') /\ sent'[i] = sent[i]
        BY <1>2
      <3> QED
        BY <3>1 DEF Sent
    <2> QED
      BY <1>1, <2>1 DEF Clean
  <1>4. Executed
    BY <1>1, <1>3 DEF ExecutesWhatWasSent, Executed, Stream
  <1> DEFINE n == Len(answered)
             d == Drop(sent, n)
  <1>5. n \in 0 .. Len(sent) /\ n \in Nat
    BY <1>2, <1>4 DEF Executed
  <1>6. Drop(sent', n) = Append(d, request)
    BY <1>1, <1>2, <1>5, DropAppend
  <1>7. d \in Seq(AllRequests)
    BY <1>2, <1>5, DropFacts
  <1>8. EncodeAll(Append(d, request)) = EncodeAll(d) \o Encode(request)
    BY <1>7, EncodeAllAppend
  <1>9. Stream' = Stream \o Encode(request)
    BY SendStream
  <1>10. Stream' = EncodeAll(Drop(sent', n))
    BY <1>4, <1>6, <1>8, <1>9 DEF Executed
  <1>11. Len(answered') <= Len(sent')
    BY <1>1, <1>2, <1>5
  <1>12. \A i \in 1 .. n : sent'[i] = sent[i]
    BY <1>2, <1>5
  <1>13. \A i \in 1 .. n : answered[i] = Meaning(sent'[i])
    BY <1>4, <1>12 DEF Executed
  <1> QED
    BY <1>1, <1>10, <1>11, <1>13 DEF Executed

\* The server reads and parses.
LEMMA ExecutesParse ==
    ASSUME Types, ExecutesWhatWasSent, NEW k \in 0 .. Len(wire), Parses(k)
    PROVE  ExecutesWhatWasSent'
  <1> SUFFICES ASSUME Clean', open' PROVE Executed'
    BY DEF ExecutesWhatWasSent, Executed, Stream
  <1> DEFINE b == Buffer(k)
             w == Drop(wire, k)
             n == Len(answered)
             q == Drop(sent, n)
  <1>1. b \in Bytes /\ w \in Bytes /\ b \o w = Stream
    BY BufferFacts
  <1>2. /\ b # <<>> /\ open /\ sent' = sent
        /\ read_buffer' = parseCommand(b).rest /\ wire' = w
        /\ answered' = Append(answered, parseCommand(b).cmd)
        /\ torn' = (torn \/ Incomplete(b, w))
        /\ coalesced' = (coalesced \/ Cardinality(Headers(b)) > 1)
    BY DEF Parses
  <1> HIDE DEF b, w
  <1>3. /\ ~torn /\ ~Incomplete(b, w)
        /\ Sent \cap Spoiling = {}
        /\ coalesced \/ Cardinality(Headers(b)) > 1 => Sent \subseteq Proper
    <2>1. ~torn' /\ (Sent \cap Spoiling = {}) /\ (coalesced' => Sent \subseteq Proper)
      BY <1>2 DEF Clean, Sent
    <2> QED
      BY <1>2, <2>1
  <1>4. Executed
    <2>1. Clean
      BY <1>3 DEF Clean
    <2> QED
      BY <1>2, <2>1 DEF ExecutesWhatWasSent, Executed, Stream
  <1>5. sent \in Seq(AllRequests) /\ Len(sent) \in Nat /\ n \in Nat /\ n <= Len(sent)
    BY <1>4 DEF Types, Executed
  <1>6. q \in Seq(AllRequests) /\ Len(q) = Len(sent) - n
    BY <1>5, DropFacts
  <1>7. b \o w = EncodeAll(q)
    BY <1>1, <1>4 DEF Executed
  <1>8. n < Len(sent)
    <2>1. q # <<>>
      BY <1>1, <1>2, <1>6, <1>7, SomethingSent
    <2>2. Len(q) # 0
      BY <1>6, <2>1, EmptySeq
    <2> QED
      BY <1>5, <1>6, <2>2
  <1>9. q[1] = sent[n + 1] /\ Drop(q, 1) = Drop(sent, n + 1)
    BY <1>5, <1>8, DropOneMore
  <1>10. q[1] \in Sent
    <2>1. n + 1 \in 1 .. Len(sent)
      BY <1>5, <1>8
    <2> QED
      BY <1>9, <2>1 DEF Sent
  <1> HIDE DEF q
  <1>11. /\ parseCommand(b).cmd = Meaning(q[1])
         /\ parseCommand(b).rest \o w = EncodeAll(Drop(q, 1))
    <2>1. q[1] \notin Spoiling /\ (Cardinality(Headers(b)) > 1 => q[1] \in Proper)
      BY <1>3, <1>10
    <2> QED
      BY <1>1, <1>2, <1>3, <1>6, <1>7, <2>1, FirstExecuted
  <1>12. /\ Len(answered') = n + 1
         /\ \A i \in 1 .. n : answered'[i] = answered[i]
         /\ answered'[n + 1] = Meaning(sent[n + 1])
    <2>1. \E T : answered \in Seq(T)
      BY DEF Types
    <2> DEFINE c == parseCommand(b).cmd
    <2>2. /\ Len(Append(answered, c)) = n + 1
          /\ \A i \in 1 .. n : Append(answered, c)[i] = answered[i]
          /\ Append(answered, c)[n + 1] = c
      <3> HIDE DEF c
      <3> QED
        BY <2>1, AnswerAppended
    <2> QED
      BY <1>2, <1>9, <1>11, <2>2
  <1>13. \A i \in 1 .. n + 1 : answered'[i] = Meaning(sent[i])
    <2> TAKE i \in 1 .. n + 1
    <2>1. i \in 1 .. n \/ i = n + 1
      BY <1>5
    <2> QED
      BY <1>4, <1>12, <2>1 DEF Executed
  <1>14. Stream' = EncodeAll(Drop(sent, n + 1))
    BY <1>2, <1>9, <1>11 DEF Stream
  <1>15. Len(answered') <= Len(sent')
    BY <1>2, <1>5, <1>8, <1>12
  <1> QED
    BY <1>2, <1>12, <1>13, <1>14, <1>15 DEF Executed

LEMMA ExecutesStep == IInv /\ ExecutesWhatWasSent /\ [Next]_vars => ExecutesWhatWasSent'
  <1> SUFFICES ASSUME IInv, ExecutesWhatWasSent, [Next]_vars PROVE ExecutesWhatWasSent'
    OBVIOUS
  <1>0. Types
    BY DEF IInv
  <1>1. CASE \E request \in AllRequests : Send(request)
    BY <1>0, <1>1, ExecutesSend
  <1>2. CASE HangUp \/ UNCHANGED vars
    BY <1>2 DEF HangUp, vars, aux, ExecutesWhatWasSent, Clean, Sent
  <1>3. CASE Readable
    <2>1. PICK k \in 0 .. Len(wire) : Closes(k) \/ Parses(k)
      BY <1>0, <1>3, ReadableCases
    <2>2. CASE Closes(k)
      BY <2>2 DEF Closes, ExecutesWhatWasSent
    <2>3. CASE Parses(k)
      BY <1>0, <2>3, ExecutesParse
    <2> QED
      BY <2>1, <2>2, <2>3
  <1> QED
    BY <1>1, <1>2, <1>3 DEF Next, AllRequests

\* Requests that arrive in clean reads are executed as they were sent, in
\* order, each once, and the bytes of the others are still there: every parser
\* of command-parser.cpp takes what belongs to its command and nothing behind
\* it, whatever that is.
THEOREM ExecutesWhatWasSentHolds == Spec => []ExecutesWhatWasSent
  <1>1. Spec => []IInv
    BY StreamInvariant
  <1> QED
    BY <1>1, ExecutesInit, ExecutesStep, PTL DEF Spec
=============================================================================
