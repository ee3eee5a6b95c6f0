------------------------------- MODULE MCLists -------------------------------
(* The list commands on texts at the boundaries of every encoding. *)
EXTENDS Lists

MCPlain == Text(<<11>>)

\* Texts that look like integers, at the limits of 7, 13, 16, 24, 32 and 64
\* bits, and the ones that are refused as integers.
IntegerTexts ==
  { Text(<<0>>), Text(<<1,2,7>>), Text(<<1,2,8>>), Text(<<Minus,1>>),
    Text(<<4,0,9,6>>), Text(<<Minus,4,0,9,6>>), Text(<<Minus,4,0,9,7>>),
    Text(<<Minus,3,2,7,6,8>>), Text(<<3,2,7,6,8>>),
    Text(<<Minus,8,3,8,8,6,0,8>>), Text(<<8,3,8,8,6,0,8>>),
    Text(<<Minus,2,1,4,7,4,8,3,6,4,8>>) }

RefusedTexts ==
  { EmptyText, Text(<<Minus>>), Text(<<Minus,0>>), Text(<<0,7>>),
    Text(<<9,2,2,3,3,7,2,0,3,6,8,5,4,7,7,5,8,0,8>>),
    Text(<<9,9,9,9,9,9,9,9,9,9,9,9,9,9,9,9,9,9,9,9>>) }

WideTexts ==
  { Text(<<2,1,4,7,4,8,3,6,4,8>>), 
    Text(<<Minus,9,2,2,3,3,7,2,0,3,6,8,5,4,7,7,5,8,0,8>>) }

\* Texts at the limits of the headers (64, 4096) and of the backward lengths
\* (127 and 16382 bytes of header and text).
LongTexts ==
  { LongText(12, n) : n \in {63, 64, 125, 126, 4095, 4096, 16377, 16378} }

Specials == IntegerTexts \cup RefusedTexts \cup WideTexts \cup LongTexts

MCBatches ==
  {<<MCPlain>>, <<MCPlain, MCPlain>>}
    \cup {<<t>> : t \in Specials} \cup {<<t, MCPlain>> : t \in WideTexts}
MCCounts == {1, 3}
MCIndexes == {-6, -2, 1, 6}
=============================================================================
