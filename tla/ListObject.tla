----------------------------- MODULE ListObject -----------------------------
(***************************************************************************)
(* What the list commands promise: one list of texts, kept as a sequence,  *)
(* and the reply to the last command.  The only freedom left to an         *)
(* implementation is the number a push replies once the list has been too  *)
(* long to be counted: then it may be Saturated instead of the length.     *)
(***************************************************************************)
EXTENDS Integers, Sequences, SequencesExt

CONSTANTS Batches,     \* the texts one push command carries
          Counts,      \* the counts LPOP is called with
          Indexes,     \* the indexes LRANGE is called with
          Saturated    \* the number that stands for "not counted"

VARIABLES up,      \* the server runs; nothing is promised once it does not
          list, reply

vars == <<up, list, reply>>

\* A reply names the command it answers.
Number(cmd, n) == [to |-> cmd, integer |-> n]
Texts(cmd, ts) == [to |-> cmd, array |-> ts]

Init ==
  /\ up = TRUE
  /\ list = <<>>
  /\ reply = Texts(<<"none">>, <<>>)

Push ==
  \E ts \in Batches, left \in BOOLEAN :
     LET cmd == <<"push", ts, left>>
     IN /\ list' = IF left THEN Reverse(ts) \o list ELSE list \o ts
        /\ reply' \in {Number(cmd, Len(list')), Number(cmd, Saturated)}

Pop ==
  \E n \in Counts :
     LET k == IF n < Len(list) THEN n ELSE Len(list)
     IN /\ reply' = Texts(<<"pop", n>>, SubSeq(list, 1, k))
        /\ list' = SubSeq(list, k + 1, Len(list))

ReadLength ==
  /\ reply' = Number(<<"length">>, Len(list))
  /\ UNCHANGED list

\* The elements from position `start' to position `stop', counted from 0; a
\* negative index counts from the end.
Slice(start, stop) ==
  LET abs(i) == IF i < 0 THEN Len(list) + i ELSE i
  IN SubSeq(list, Max({0, abs(start)}) + 1, Min({Len(list), abs(stop) + 1}))

ReadRange ==
  /\ \E start, stop \in Indexes :
        reply' = Texts(<<"range", start, stop>>, Slice(start, stop))
  /\ UNCHANGED list

Crash == up' = FALSE

Next ==
  /\ up
  /\ Crash \/ (UNCHANGED up /\ (Push \/ Pop \/ ReadLength \/ ReadRange))

Spec == Init /\ [][Next]_vars
=============================================================================
