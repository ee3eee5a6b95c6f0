-------------------------------- MODULE Lists --------------------------------
(***************************************************************************)
(* The list commands RPUSH, LPUSH, LPOP, LLEN and LRANGE on one key, down  *)
(* to the bytes of its listpack.  (Blocked clients, watchers and the other *)
(* types a key can have are in BlockingList and Sessions.)                 *)
(*                                                                         *)
(* asserts are compiled in: when one fails the process is gone, `alive'    *)
(* is FALSE and nothing happens any more.                                  *)
(***************************************************************************)
EXTENDS Listpack, FiniteSets

CONSTANTS Batches,      \* the texts one push command carries
          Counts,       \* the counts LPOP is called with
          Indexes,      \* the indexes LRANGE is called with
          Plain,        \* a text that does not count against MaxSpecial
          MaxLength,    \* bound: elements in the list
          MaxSpecial    \* bound: elements other than Plain in the list

VARIABLES alive,    \* no assert has failed
          store,    \* the listpack of the key, or NoList
          reply,    \* the reply to the last command
          list      \* auxiliary: the texts `store' is decoded to

vars == <<alive, store, reply, list>>

NoList == [bytes |-> 0]

\* A reply, with the command it answers.
Number(cmd, n) == [to |-> cmd, integer |-> n]
TextArray(cmd, ts) == [to |-> cmd, array |-> ts]

Exists == store # NoList

Init ==
  /\ alive = TRUE
  /\ store = NoList
  /\ reply = TextArray(<<"none">>, <<>>)
  /\ list = <<>>

assertFails ==
  /\ alive' = FALSE
  /\ UNCHANGED <<store, reply, list>>

(***************************************************************************)
(* The list a listpack holds: every entry from the first to the last, read *)
(* as the handlers read it.                                                *)
(***************************************************************************)
EntriesOf(lp) ==
  LET from[p \in Nat] ==
        IF ByteAt(lp, p) = LP_EOF \/ IS_OUT_OF_RANGE(lp, p) THEN <<>>
        ELSE <<p>> \o from[lpSkip(lp, p)]
  IN from[LP_HEADER_SIZE]

Entries == IF Exists THEN EntriesOf(store) ELSE <<>>

TextsAt(lp, ps) == SubSeq([i \in 1 .. Len(ps) |-> lpGetWithSize(lp, ps[i])], 1, Len(ps))

Decoded(lp) == TextsAt(lp, EntriesOf(lp))

\* An integer of 64 bits is in the list.
IsWide(p) == ByteAt(store, p) = 244
HoldsWide == \E i \in 1 .. Len(Entries) : IsWide(Entries[i])

(***************************************************************************)
(* The handlers.                                                           *)
(***************************************************************************)
\* create_new_list and append_to_existing_list, one value after the other;
\* lpPrepend aborts where lpFirst does.
PushStep(is_prepend, acc, t) ==
  CASE acc.abort \/ (is_prepend /\ lpFirst(acc.lp) = Abort) -> [acc EXCEPT !.abort = TRUE]
    [] OTHER -> [acc EXCEPT !.lp = IF is_prepend THEN lpPrepend(@, t) ELSE lpAppend(@, t)]

handle_push(ts, is_prepend) ==
  /\ alive
  /\ \E acc \in {FoldLeft(LAMBDA r, t : PushStep(is_prepend, r, t),
                          [lp |-> IF Exists THEN store ELSE lpNew, abort |-> FALSE], ts)} :
        /\ store' = acc.lp
        /\ alive' = ~acc.abort
        /\ reply' = IF acc.abort THEN reply
                    ELSE Number(<<"push", ts, is_prepend>>, acc.lp.num)
        /\ list' = Decoded(acc.lp)

\* Up to `count' entries are read and deleted, each one the first.
PopStep(acc, k) ==
  LET p == IF acc.done THEN NULL ELSE lpFirst(acc.lp)
  IN IF p \in {NULL, Abort}
     THEN [acc EXCEPT !.done = TRUE, !.abort = @ \/ p = Abort]
     ELSE [acc EXCEPT !.texts = Append(@, lpGetWithSize(acc.lp, p)),
                      !.lp = lpDelete(acc.lp, p)]

handle_lpop(count) ==
  /\ alive
  /\ \E acc \in {FoldLeft(PopStep,
                          [lp |-> store, texts |-> <<>>, done |-> ~Exists, abort |-> FALSE],
                          [k \in 1 .. count |-> k])} :
        /\ store' = acc.lp
        /\ alive' = ~acc.abort
        /\ reply' = IF acc.abort THEN reply ELSE TextArray(<<"pop", count>>, acc.texts)
        /\ list' = IF Exists THEN Decoded(acc.lp) ELSE <<>>

handle_llen ==
  /\ alive
  /\ \/ /\ ~Exists
        /\ reply' = Number(<<"length">>, 0)
        /\ UNCHANGED <<alive, store, list>>
     \/ /\ Exists
        /\ \E length \in {lpLength(store)} :
              IF length.len = Abort THEN assertFails
              ELSE /\ store' = length.lp
                   /\ reply' = Number(<<"length">>, length.len)
                   /\ UNCHANGED <<alive, list>>

\* What lpSeek returns for the indexes from first to last, up to the first
\* that is not found, where the loop of handle_lrange ends.
SoughtFrom(lp, first, last) ==
  LET upTo[i \in first - 1 .. last] ==
        IF i < first THEN <<>>
        ELSE LET before == upTo[i - 1]
                 here   == lpSeek(lp, i)
             IN IF Len(before) < i - first \/ here = NULL THEN before ELSE Append(before, here)
  IN IF last < first THEN <<>> ELSE upTo[last]

Sought(lp, length, start, stop) ==
  LET first == IF start < 0 THEN (IF length + start < 0 THEN 0 ELSE length + start) ELSE start
      end   == IF stop < 0 THEN length + stop ELSE stop
  IN IF end < 0 \/ first >= length THEN <<>>
     ELSE SoughtFrom(lp, first, IF end >= length THEN length - 1 ELSE end)

handle_lrange(start, stop) ==
  /\ alive
  /\ \/ /\ ~Exists
        /\ reply' = TextArray(<<"range", start, stop>>, <<>>)
        /\ UNCHANGED <<alive, store, list>>
     \/ /\ Exists
        /\ \E length \in {lpLength(store)} :
           \E found \in {IF length.len = Abort THEN <<Abort>>
                         ELSE Sought(length.lp, length.len, start, stop)} :
              IF \E k \in 1 .. Len(found) : found[k] = Abort THEN assertFails
              ELSE /\ store' = length.lp
                   /\ reply' = TextArray(<<"range", start, stop>>, TextsAt(store, found))
                   /\ UNCHANGED <<alive, list>>

\* The batches that keep the list within the bounds.
Room ==
  LET special(ts) == Cardinality({i \in 1 .. Len(ts) : ts[i] # Plain})
  IN {ts \in Batches : /\ Len(list) + Len(ts) <= MaxLength
                       /\ special(list) + special(ts) <= MaxSpecial}

RPUSH == \E ts \in Room : handle_push(ts, FALSE)
LPUSH == \E ts \in Room : handle_push(ts, TRUE)
LPOP == \E n \in Counts : handle_lpop(n)
LLEN == handle_llen
LRANGE == \E start, stop \in Indexes : handle_lrange(start, stop)

Next == RPUSH \/ LPUSH \/ LPOP \/ LLEN \/ LRANGE

Spec == Init /\ [][Next]_vars

(***************************************************************************)
(* Properties.                                                             *)
(***************************************************************************)

\* What the listpack holds is the abstract list: every push, pop, length and
\* range of the byte array is the one of a sequence of texts, whatever the
\* encodings of the elements and wherever the count has given up.
AbstractList == INSTANCE ListObject WITH up <- alive, Saturated <- NumUnknown
ImplementsList == AbstractList!Spec

\* The library's own validation, which no handler calls, accepts every
\* listpack the handlers build, except one that holds a 64-bit integer.
IntegrityKept == Exists /\ ~HoldsWide => lpValidateIntegrity(store, store.bytes)

\* Walking backwards with lpPrev visits the entries of the forward walk in
\* the opposite order: the backward lengths agree with the headers at every
\* size boundary.
BackwardMirrorsForward ==
  Exists /\ ~HoldsWide =>
    LET ps == Entries
    IN \A i \in 1 .. Len(ps) :
          /\ Backward(store, lpLast(store), Len(ps) - i) = ps[i]
          /\ Forward(store, lpFirst(store), i - 1) = ps[i]

\* An assert fails only on a listpack that holds a 64-bit integer, which
\* lpCurrentEncodedSizeBytes does not know.
AbortsOnlyOnWide == ~alive => HoldsWide
=============================================================================
