-------------------------- MODULE HandshakeProofs ---------------------------
(* Invariants of Handshake for any number of propagated commands.          *)
EXTENDS Handshake, Induction, SequenceTheorems, FiniteSetTheorems, TLAPS

-----------------------------------------------------------------------------
(* The inductive invariant.                                                *)

\* Piece k of what the master sends once it has been asked for PSYNC.
Sent(k) == IF k <= 6 THEN FullResync[k] ELSE Command(k - 6)

Pieces == [kind : {"reply", "line", "length", "rdb", "command", "broken"}, n : Nat]

\* The request a status stands for.
Asked == CASE replication_status = "PING_SENT" -> "PING"
           [] replication_status = "REPLCONF_PORT_SENT" -> "REPLCONF port"
           [] replication_status = "REPLCONF_CAPA_SENT" -> "REPLCONF capa"
           [] OTHER -> "PSYNC"

\* Before the master has answered PSYNC: one message is on its way.
Early ==
    /\ replication_status \in {"PING_SENT", "REPLCONF_PORT_SENT", "REPLCONF_CAPA_SENT", "PSYNC_SENT"}
    /\ is_handshake_completed = FALSE /\ registered = FALSE
    /\ read_buffer = <<>> /\ executed = <<>>
    /\ propagated = 0 /\ read = 0 /\ cuts \subseteq {0}
    /\ \/ request = <<Asked>> /\ to_master = <<>> /\ wire = <<>>
       \/ request = <<>> /\ to_master = <<Asked>> /\ wire = <<>>
       \/ /\ request = <<>> /\ to_master = <<>> /\ wire = <<Piece("reply", 0)>>
          /\ replication_status # "PSYNC_SENT"

\* What is in flight continues what has been read.
InFlight ==
    /\ wire \in Seq(Pieces)
    /\ Len(wire) = 6 + propagated - read
    /\ \A i \in 1 .. Len(wire) : wire[i] = Sent(read + i)

Waiting == replication_status = "PSYNC_SENT" /\ is_handshake_completed = FALSE

Completed == replication_status = "HANDSHAKE_SUCCESS" /\ is_handshake_completed = TRUE

\* The FULLRESYNC line is not complete.
NoLine ==
    /\ Waiting /\ executed = <<>> /\ read \in 0 .. 1 /\ cuts \subseteq 0 .. 1
    /\ read_buffer = SubSeq(FullResync, 1, read)

\* The line is gone from the buffer, and the handshake waits for it.
LineLost ==
    /\ Waiting /\ executed = <<>> /\ cuts \cap {3, 4, 5} # {}
    /\ read_buffer # <<>> /\ read_buffer[1] = Piece("length", 1)

\* The handshake completed at the end of the line.
AtLine ==
    /\ Completed /\ executed = <<>> /\ read = 2 /\ read_buffer = <<>>
    /\ 2 \in cuts /\ cuts \subseteq 0 .. 2

\* It did, and a part of the RDB was skipped.
RdbCut ==
    /\ Completed /\ executed = <<>> /\ read \in 3 .. 5 /\ read_buffer = <<>>
    /\ cuts \cap {3, 4, 5} # {}

\* The head of the buffer can never be parsed.
Stuck ==
    /\ Completed /\ executed = <<>>
    /\ read_buffer # <<>> /\ read_buffer[1].kind # "command" /\ read_buffer[1] # Piece("length", 1)
    /\ cuts \cap {3, 4, 5} # {} \/ (2 \in cuts /\ 6 \notin cuts /\ read > 6)

\* Everything read has been executed.
InStep ==
    /\ Completed /\ read >= 6 /\ read_buffer = <<>>
    /\ executed = [i \in 1 .. read - 6 |-> i]
    /\ cuts \cap {3, 4, 5} = {} /\ (2 \in cuts => 6 \in cuts)

Mode == NoLine \/ LineLost \/ AtLine \/ RdbCut \/ Stuck \/ InStep

\* The master has answered PSYNC.
Late ==
    /\ registered = TRUE /\ request = <<>> /\ to_master = <<>>
    /\ propagated \in Nat /\ read \in Nat /\ read <= 6 + propagated
    /\ read_buffer \in Seq(Pieces)
    /\ InFlight /\ Mode

IInv == Early \/ Late

-----------------------------------------------------------------------------
(* The pieces and the buffer.                                              *)

LEMMA FullResyncFacts ==
    /\ FullResync \in Seq(Pieces) /\ Len(FullResync) = 6
    /\ FullResync[1] = Piece("line", 1) /\ FullResync[2] = Piece("line", 2)
    /\ FullResync[3] = Piece("length", 1) /\ FullResync[4] = Piece("length", 2)
    /\ FullResync[5] = Piece("rdb", 1) /\ FullResync[6] = Piece("rdb", 2)
  BY DEF FullResync, Piece, Pieces

LEMMA SentFacts ==
    ASSUME NEW k \in Nat, k > 0
    PROVE  /\ Sent(k) \in Pieces
           /\ k > 6 => Sent(k) = Command(k - 6)
           /\ k <= 6 => Sent(k).kind # "command" /\ Sent(k) = FullResync[k]
           /\ k \in 4 .. 6 => Sent(k) # Piece("length", 1)
  <1>1. CASE k > 6
    <2>1. Sent(k) = Command(k - 6) /\ k - 6 \in Nat /\ ~(k <= 6) /\ k \notin 4 .. 6
      BY <1>1 DEF Sent
    <2>2. Command(k - 6) \in Pieces
      BY <2>1 DEF Command, Piece, Pieces
    <2> QED
      BY <2>1, <2>2
  <1>2. CASE k <= 6
    <2>1. k \in {1, 2, 3, 4, 5, 6} /\ Sent(k) = FullResync[k] /\ ~(k > 6)
      BY <1>2 DEF Sent
    <2>2. FullResync[k] \in Pieces
      BY <2>1, FullResyncFacts DEF Piece, Pieces
    <2>3. FullResync[k].kind # "command" /\ (k \in 4 .. 6 => FullResync[k] # Piece("length", 1))
      BY <2>1, FullResyncFacts DEF Piece
    <2> QED
      BY <2>1, <2>2, <2>3
  <1> QED
    BY <1>1, <1>2

LEMMA DropFacts ==
    ASSUME NEW S, NEW b \in Seq(S), NEW n \in 0 .. Len(b)
    PROVE  /\ Drop(b, n) \in Seq(S) /\ Len(Drop(b, n)) = Len(b) - n
           /\ \A i \in 1 .. Len(b) - n : Drop(b, n)[i] = b[n + i]
  <1>1. Len(b) \in Nat /\ n \in Nat /\ n <= Len(b) /\ n + 1 \in Int /\ Len(b) \in Int
    OBVIOUS
  <1>2. \A i \in n + 1 .. Len(b) : b[i] \in S
    BY <1>1, ElementOfSeq
  <1>3. /\ SubSeq(b, n + 1, Len(b)) \in Seq(S)
        /\ Len(SubSeq(b, n + 1, Len(b))) = IF n + 1 <= Len(b) THEN Len(b) - (n + 1) + 1 ELSE 0
        /\ \A i \in 1 .. Len(b) - (n + 1) + 1 : SubSeq(b, n + 1, Len(b))[i] = b[(n + 1) + i - 1]
    BY <1>1, <1>2, SubSeqProperties
  <1>4. \A i \in 1 .. Len(b) - n : i \in 1 .. Len(b) - (n + 1) + 1 /\ (n + 1) + i - 1 = n + i
    BY <1>1
  <1> QED
    BY <1>1, <1>3, <1>4 DEF Drop

\* Nothing at all is left.
LEMMA EmptyIsLenZero ==
    ASSUME NEW S, NEW b \in Seq(S)
    PROVE  b = <<>> <=> Len(b) = 0
  BY EmptySeq

-----------------------------------------------------------------------------
(* process_commands.                                                       *)

\* A buffer that begins with something else is left alone or skipped.
LEMMA ProcessOther ==
    ASSUME NEW b \in Seq(Pieces), b # <<>>, b[1].kind # "command"
    PROVE  /\ ProcessCommands(b).executed = <<>>
           /\ b[1] # Piece("length", 1) => ProcessCommands(b).left = b
           /\ b[1] = Piece("length", 1) /\ (\A i \in 1 .. Len(b) : b[i].kind # "command") =>
                 ProcessCommands(b).left = <<>>
           /\ b[1] = Piece("length", 1) /\ (\E i \in 1 .. Len(b) : b[i].kind = "command") =>
                 /\ ProcessCommands(b).left \in Seq(Pieces)
                 /\ ProcessCommands(b).left # <<>>
                 /\ ProcessCommands(b).left[1] = Piece("broken", 0)
  <1> DEFINE leading == {i \in DOMAIN b : \A j \in 1 .. i : b[j].kind = "command"}
             n       == Cardinality(leading)
             rest    == Drop(b, n)
             later   == {i \in DOMAIN rest : rest[i].kind = "command"}
             first   == CHOOSE i \in later : \A j \in later : i <= j
  <1>1. leading = {}
    <2>1. \A i \in DOMAIN b : 1 \in 1 .. i
      OBVIOUS
    <2> QED
      BY <2>1
  <1>2. n = 0
    BY <1>1, FS_EmptySet
  <1>3. rest = b
    <2> HIDE DEF n
    <2>1. rest = SubSeq(b, 1, Len(b))
      BY <1>2 DEF Drop
    <2> QED
      BY <2>1, SubSeqFull
  <1>4. ProcessCommands(b) =
            [executed |-> [i \in 1 .. n |-> b[i].n],
             left     |-> IF rest = <<>> \/ rest[1] # Piece("length", 1) THEN rest
                          ELSE IF later = {} THEN <<>>
                          ELSE <<Piece("broken", 0)>> \o Drop(rest, first)]
    BY DEF ProcessCommands
  <1>5. [i \in 1 .. n |-> b[i].n] = <<>>
    <2> HIDE DEF n
    <2>1. 1 .. n = {}
      BY <1>2
    <2> QED
      BY <2>1
  <1>6. later = {i \in 1 .. Len(b) : b[i].kind = "command"}
    <2> HIDE DEF rest
    <2> QED
      BY <1>3, LenProperties
  <1>7. later # {} => first \in later
    <2> HIDE DEF later
    <2>1. later \subseteq Nat
      BY <1>6
    <2> QED
      BY <2>1, LeastElement
  <1>8. later # {} => /\ <<Piece("broken", 0)>> \o Drop(rest, first) \in Seq(Pieces)
                      /\ <<Piece("broken", 0)>> \o Drop(rest, first) # <<>>
                      /\ (<<Piece("broken", 0)>> \o Drop(rest, first))[1] = Piece("broken", 0)
    <2> SUFFICES ASSUME later # {}
                 PROVE  /\ <<Piece("broken", 0)>> \o Drop(rest, first) \in Seq(Pieces)
                        /\ <<Piece("broken", 0)>> \o Drop(rest, first) # <<>>
                        /\ (<<Piece("broken", 0)>> \o Drop(rest, first))[1] = Piece("broken", 0)
      OBVIOUS
    <2>1. first \in 0 .. Len(b)
      <3> HIDE DEF first, later
      <3>1. first \in 1 .. Len(b)
        BY <1>6, <1>7
      <3> QED
        BY <3>1
    <2> HIDE DEF first, later, rest, n, leading
    <2>2. Drop(rest, first) \in Seq(Pieces)
      BY <1>3, <2>1, DropFacts
    <2> DEFINE d == Drop(rest, first)
               x == Piece("broken", 0)
    <2>3. x \in Pieces
      BY DEF Piece, Pieces
    <2> HIDE DEF d, x
    <2>4. d \in Seq(Pieces)
      BY <2>2 DEF d
    <2>5. <<x>> \o d \in Seq(Pieces) /\ <<x>> \o d # <<>> /\ (<<x>> \o d)[1] = x
      BY <2>3, <2>4
    <2> QED
      BY <2>5 DEF d, x
  <1> HIDE DEF first, later, rest, n, leading
  <1>9. b[1] = Piece("length", 1) => rest # <<>> /\ rest[1] = Piece("length", 1)
    BY <1>3
  <1> QED
    BY <1>3, <1>4, <1>5, <1>6, <1>8, <1>9

\* A buffer of commands is executed to the end.
LEMMA ProcessAll ==
    ASSUME NEW b \in Seq(Pieces), \A i \in 1 .. Len(b) : b[i].kind = "command"
    PROVE  ProcessCommands(b).executed = [i \in 1 .. Len(b) |-> b[i].n]
           /\ ProcessCommands(b).left = <<>>
  <1> DEFINE leading == {i \in DOMAIN b : \A j \in 1 .. i : b[j].kind = "command"}
             n       == Cardinality(leading)
             rest    == Drop(b, n)
             later   == {i \in DOMAIN rest : rest[i].kind = "command"}
             first   == CHOOSE i \in later : \A j \in later : i <= j
  <1>1. leading = 1 .. Len(b) /\ Len(b) \in Nat
    BY LenProperties
  <1>2. n = Len(b)
    <2> HIDE DEF leading
    <2>1. Cardinality(1 .. Len(b)) = IF 1 > Len(b) THEN 0 ELSE Len(b) - 1 + 1
      BY <1>1, FS_Interval, SMTT(30)
    <2>2. Cardinality(1 .. Len(b)) = Len(b)
      BY <1>1, <2>1
    <2> QED
      BY <1>1, <2>2
  <1>3. rest = <<>>
    <2> HIDE DEF n
    <2>1. rest = SubSeq(b, Len(b) + 1, Len(b))
      BY <1>2 DEF Drop
    <2> DEFINE m == Len(b)
    <2>2. m \in Int /\ m + 1 \in Int /\ m < m + 1
      BY <1>1
    <2>3. SubSeq(b, m + 1, m) = <<>>
      <3> HIDE DEF m
      <3> QED
        BY <2>2, SubSeqEmpty
    <2> QED
      BY <2>1, <2>3
  <1>4. ProcessCommands(b) =
            [executed |-> [i \in 1 .. n |-> b[i].n],
             left     |-> IF rest = <<>> \/ rest[1] # Piece("length", 1) THEN rest
                          ELSE IF later = {} THEN <<>>
                          ELSE <<Piece("broken", 0)>> \o Drop(rest, first)]
    BY DEF ProcessCommands
  <1> HIDE DEF first, later, rest, n, leading
  <1> QED
    BY <1>2, <1>3, <1>4

-----------------------------------------------------------------------------
(* handle_handshake_read.                                                  *)

LEMMA StartsFacts ==
    ASSUME NEW b \in Seq(Pieces), NEW pieces \in Seq(Pieces)
    PROVE  Starts(b, pieces) <=> /\ Len(pieces) <= Len(b)
                                 /\ \A i \in 1 .. Len(pieces) : b[i] = pieces[i]
  <1> DEFINE m == Len(pieces)
  <1>1. m \in Nat /\ Len(b) \in Nat
    OBVIOUS
  <1> HIDE DEF m
  <1>2. ASSUME m <= Len(b)
        PROVE  SubSeq(b, 1, m) = pieces <=> \A i \in 1 .. m : b[i] = pieces[i]
    <2>1. \A i \in 1 .. m : b[i] \in Pieces
      BY <1>1, <1>2, ElementOfSeq
    <2>2. /\ SubSeq(b, 1, m) \in Seq(Pieces)
          /\ Len(SubSeq(b, 1, m)) = IF 1 <= m THEN m - 1 + 1 ELSE 0
          /\ \A i \in 1 .. m - 1 + 1 : SubSeq(b, 1, m)[i] = b[1 + i - 1]
      BY <1>1, <2>1, SubSeqProperties
    <2>3. Len(SubSeq(b, 1, m)) = m /\ m - 1 + 1 = m /\ \A i \in 1 .. m : 1 + i - 1 = i
      BY <1>1, <2>2
    <2>4. \A i \in 1 .. m : SubSeq(b, 1, m)[i] = b[i]
      BY <2>2, <2>3
    <2>5. (\A i \in 1 .. m : b[i] = pieces[i]) => SubSeq(b, 1, m) = pieces
      BY <2>2, <2>3, <2>4, SeqEqual DEF m
    <2> QED
      BY <2>4, <2>5
  <1> QED
    BY <1>2 DEF Starts, m

\* The two parts of the answer to PSYNC.
LEMMA PartsOfAnswer ==
    /\ SubSeq(FullResync, 1, 2) \in Seq(Pieces) /\ Len(SubSeq(FullResync, 1, 2)) = 2
    /\ \A i \in 1 .. 2 : SubSeq(FullResync, 1, 2)[i] = FullResync[i]
    /\ SubSeq(FullResync, 3, 6) \in Seq(Pieces) /\ Len(SubSeq(FullResync, 3, 6)) = 4
    /\ \A i \in 1 .. 4 : SubSeq(FullResync, 3, 6)[i] = FullResync[2 + i]
  <1> DEFINE f == FullResync
  <1>1. f \in Seq(Pieces) /\ Len(f) = 6
    BY FullResyncFacts
  <1> HIDE DEF f
  <1>2. \A i \in 1 .. 6 : f[i] \in Pieces
    BY <1>1, ElementOfSeq
  <1>3. /\ SubSeq(f, 1, 2) \in Seq(Pieces) /\ Len(SubSeq(f, 1, 2)) = IF 1 <= 2 THEN 2 - 1 + 1 ELSE 0
        /\ \A i \in 1 .. 2 - 1 + 1 : SubSeq(f, 1, 2)[i] = f[1 + i - 1]
    <2>1. \A i \in 1 .. 2 : f[i] \in Pieces
      BY <1>2
    <2> QED
      BY <2>1, SubSeqProperties
  <1>4. /\ SubSeq(f, 3, 6) \in Seq(Pieces) /\ Len(SubSeq(f, 3, 6)) = IF 3 <= 6 THEN 6 - 3 + 1 ELSE 0
        /\ \A i \in 1 .. 6 - 3 + 1 : SubSeq(f, 3, 6)[i] = f[3 + i - 1]
    <2>1. \A i \in 3 .. 6 : f[i] \in Pieces
      BY <1>2
    <2> QED
      BY <2>1, SubSeqProperties
  <1>5. /\ \A i \in 1 .. 2 : i \in 1 .. 2 - 1 + 1 /\ 1 + i - 1 = i
        /\ \A i \in 1 .. 4 : i \in 1 .. 6 - 3 + 1 /\ 3 + i - 1 = 2 + i
    OBVIOUS
  <1> QED
    BY <1>3, <1>4, <1>5 DEF f

\* Without the line in front, nothing happens.
LEMMA SkipNothing ==
    ASSUME NEW b \in Seq(Pieces), b # <<>>, b[1] # Piece("line", 1)
    PROVE  SkipRdb(b).done = FALSE /\ SkipRdb(b).left = b
  <1>1. ~Starts(b, SubSeq(FullResync, 1, 2))
    <2>1. Starts(b, SubSeq(FullResync, 1, 2)) =>
             \A i \in 1 .. Len(SubSeq(FullResync, 1, 2)) : b[i] = SubSeq(FullResync, 1, 2)[i]
      BY PartsOfAnswer, StartsFacts
    <2>2. SubSeq(FullResync, 1, 2)[1] = Piece("line", 1) /\ 1 \in 1 .. Len(SubSeq(FullResync, 1, 2))
      BY PartsOfAnswer, FullResyncFacts
    <2> QED
      BY <2>1, <2>2
  <1> QED
    BY <1>1 DEF SkipRdb

\* The buffer holds the first m pieces.
LEMMA SkipPrefix ==
    ASSUME NEW b \in Seq(Pieces), \A i \in 1 .. Len(b) : b[i] = Sent(i)
    PROVE  /\ Len(b) < 2 => SkipRdb(b).done = FALSE /\ SkipRdb(b).left = b
           /\ Len(b) = 2 => SkipRdb(b).done = TRUE /\ SkipRdb(b).left = <<>>
           /\ Len(b) \in 3 .. 5 => SkipRdb(b).done = FALSE /\ SkipRdb(b).left = Drop(b, 2)
           /\ Len(b) >= 6 => SkipRdb(b).done = TRUE /\ SkipRdb(b).left = Drop(Drop(b, 2), 4)
  <1> DEFINE m == Len(b)
             line == SubSeq(FullResync, 1, 2)
             rdb == SubSeq(FullResync, 3, 6)
             rest == Drop(b, 2)
             Goal == /\ m < 2 => SkipRdb(b).done = FALSE /\ SkipRdb(b).left = b
                     /\ m = 2 => SkipRdb(b).done = TRUE /\ SkipRdb(b).left = <<>>
                     /\ m \in 3 .. 5 => SkipRdb(b).done = FALSE /\ SkipRdb(b).left = Drop(b, 2)
                     /\ m >= 6 => SkipRdb(b).done = TRUE /\ SkipRdb(b).left = Drop(Drop(b, 2), 4)
  <1>0. m \in Nat /\ Len(b) = m /\ \A i \in 1 .. m : b[i] = Sent(i)
    OBVIOUS
  <1> SUFFICES Goal
    OBVIOUS
  <1> HIDE DEF m
  <1>1. line \in Seq(Pieces) /\ Len(line) = 2 /\ (\A i \in 1 .. 2 : line[i] = FullResync[i])
        /\ rdb \in Seq(Pieces) /\ Len(rdb) = 4 /\ (\A i \in 1 .. 4 : rdb[i] = FullResync[2 + i])
    BY PartsOfAnswer
  <1>2. SkipRdb(b) = IF ~Starts(b, line) THEN [done |-> FALSE, left |-> b]
                     ELSE IF Starts(rest, rdb) THEN [done |-> TRUE, left |-> Drop(rest, 4)]
                     ELSE [done |-> rest = <<>>, left |-> rest]
    BY DEF SkipRdb
  <1> HIDE DEF line, rdb
  <1>3. Starts(b, line) <=> m >= 2
    <2>1. Starts(b, line) <=> 2 <= m /\ \A i \in 1 .. 2 : b[i] = line[i]
      <3>1. Starts(b, line) <=> Len(line) <= Len(b) /\ \A i \in 1 .. Len(line) : b[i] = line[i]
        BY <1>1, StartsFacts
      <3> QED
        BY <1>0, <1>1, <3>1
    <2>2. ASSUME m >= 2, NEW i \in 1 .. 2
          PROVE  b[i] = line[i]
      <3>1. i \in 1 .. m /\ i \in Nat /\ i > 0 /\ i <= 6
        BY <1>0, <2>2
      <3> QED
        BY <1>0, <1>1, <3>1, SentFacts
    <2> QED
      BY <1>0, <2>1, <2>2
  <1>4. CASE m < 2
    <2>1. ~(m >= 2) /\ m # 2 /\ m \notin 3 .. 5 /\ ~(m >= 6)
      BY <1>0, <1>4
    <2>2. SkipRdb(b) = [done |-> FALSE, left |-> b]
      BY <1>2, <1>3, <2>1
    <2> QED
      BY <2>1, <2>2
  <1>5. CASE m >= 2
    <2>1. /\ rest \in Seq(Pieces) /\ Len(rest) = m - 2 /\ \A i \in 1 .. m - 2 : rest[i] = b[2 + i]
      <3>1. 2 \in 0 .. Len(b)
        BY <1>0, <1>5
      <3> QED
        BY <1>0, <3>1, DropFacts
    <2> HIDE DEF rest
    <2>2. Starts(rest, rdb) <=> m >= 6
      <3>1. Starts(rest, rdb) <=> 4 <= m - 2 /\ \A i \in 1 .. 4 : rest[i] = rdb[i]
        <4>1. Starts(rest, rdb) <=> Len(rdb) <= Len(rest)
                                    /\ \A i \in 1 .. Len(rdb) : rest[i] = rdb[i]
          BY <1>1, <2>1, StartsFacts
        <4> QED
          BY <1>1, <2>1, <4>1
      <3>2. ASSUME m >= 6, NEW i \in 1 .. 4
            PROVE  rest[i] = rdb[i]
        <4>1. i \in 1 .. m - 2 /\ 2 + i \in 1 .. m /\ 2 + i \in Nat /\ 2 + i > 0 /\ 2 + i <= 6
          BY <1>0, <3>2
        <4> QED
          BY <1>0, <1>1, <2>1, <4>1, SentFacts
      <3> QED
        BY <1>0, <3>1, <3>2
    <2>3. rest = <<>> <=> m = 2
      BY <1>0, <2>1, EmptyIsLenZero
    <2>4. m = 2 => ~(m >= 6) /\ ~(m < 2) /\ m \notin 3 .. 5
      OBVIOUS
    <2>5. m \in 3 .. 5 => ~(m >= 6) /\ m # 2 /\ ~(m < 2)
      OBVIOUS
    <2>6. m >= 6 => m \notin 3 .. 5 /\ m # 2 /\ ~(m < 2)
      BY <1>0
    <2>6a. m = 2 \/ m \in 3 .. 5 \/ m >= 6
      BY <1>0, <1>5
    <2>7. CASE m = 2
      <3>1. SkipRdb(b) = [done |-> TRUE, left |-> rest]
        BY <1>2, <1>3, <1>5, <2>2, <2>3, <2>4, <2>7
      <3>2. rest = <<>>
        BY <2>3, <2>7
      <3> QED
        BY <2>4, <2>7, <3>1, <3>2
    <2>8. CASE m \in 3 .. 5
      <3>1. (rest = <<>>) = FALSE
        BY <2>3, <2>5, <2>8
      <3>2. SkipRdb(b) = [done |-> FALSE, left |-> rest]
        BY <1>2, <1>3, <1>5, <2>2, <2>5, <2>8, <3>1
      <3>3. rest = Drop(b, 2)
        BY DEF rest
      <3> QED
        BY <2>5, <2>8, <3>2, <3>3
    <2>9. CASE m >= 6
      <3>1. SkipRdb(b) = [done |-> TRUE, left |-> Drop(rest, 4)]
        BY <1>2, <1>3, <1>5, <2>2, <2>9
      <3>2. rest = Drop(b, 2)
        BY DEF rest
      <3> QED
        BY <2>6, <2>9, <3>1, <3>2
    <2> HIDE DEF Goal
    <2> QED
      BY <1>0, <1>5, <2>6a, <2>7, <2>8, <2>9
  <1> HIDE DEF Goal
  <1>6. m < 2 \/ m >= 2
    BY <1>0
  <1> QED
    BY <1>4, <1>5, <1>6

-----------------------------------------------------------------------------
(* One read.                                                               *)

\* Commands that continue those executed.
LEMMA ExecuteCommands ==
    ASSUME NEW b \in Seq(Pieces), NEW k \in Nat, executed = [i \in 1 .. k |-> i],
           \A i \in 1 .. Len(b) : b[i] = Command(k + i), Execute(b)
    PROVE  executed' = [i \in 1 .. k + Len(b) |-> i] /\ read_buffer' = <<>>
  <1> DEFINE m == Len(b)
             done == [i \in 1 .. m |-> b[i].n]
             e == [i \in 1 .. k |-> i]
             f == [i \in 1 .. k + m |-> i]
  <1>0. m \in Nat /\ \A i \in 1 .. m : b[i] = Command(k + i)
    OBVIOUS
  <1>1. m \in Nat /\ \A i \in 1 .. m : b[i].kind = "command" /\ b[i].n = k + i
    <2> HIDE DEF m
    <2>1. ASSUME NEW i \in 1 .. m
          PROVE  b[i].kind = "command" /\ b[i].n = k + i
      <3>1. b[i] = Command(k + i)
        BY <1>0
      <3>2. Command(k + i).kind = "command" /\ Command(k + i).n = k + i
        BY DEF Command, Piece
      <3> QED
        BY <3>1, <3>2
    <2> QED
      BY <1>0, <2>1
  <1>2. ProcessCommands(b).executed = done /\ ProcessCommands(b).left = <<>>
    BY <1>1, ProcessAll
  <1>3. executed' = executed \o done /\ read_buffer' = <<>>
    BY <1>2 DEF Execute
  <1> HIDE DEF m
  <1>4. done \in Seq(Nat) /\ Len(done) = m /\ \A i \in 1 .. m : done[i] = k + i
    BY <1>1
  <1>5. e \in Seq(Nat) /\ Len(e) = k /\ \A i \in 1 .. k : e[i] = i
    OBVIOUS
  <1>6. f \in Seq(Nat) /\ Len(f) = k + m /\ \A i \in 1 .. k + m : f[i] = i
    BY <1>1
  <1>7. executed = e
    OBVIOUS
  <1> HIDE DEF done, e, f
  <1>8. e \o done \in Seq(Nat) /\ Len(e \o done) = k + m
        /\ \A i \in 1 .. k + m : (e \o done)[i] = IF i <= k THEN e[i] ELSE done[i - k]
    BY <1>4, <1>5, ConcatProperties
  <1>9. \A i \in 1 .. k + m : (e \o done)[i] = f[i]
    <2> SUFFICES ASSUME NEW i \in 1 .. k + m PROVE (e \o done)[i] = i
      BY <1>6
    <2>1. CASE i <= k
      <3>1. i \in 1 .. k
        BY <1>1, <2>1
      <3> QED
        BY <1>5, <1>8, <2>1, <3>1
    <2>2. CASE ~(i <= k)
      <3>1. i - k \in 1 .. m /\ k + (i - k) = i
        BY <1>1, <2>2
      <3> QED
        BY <1>4, <1>8, <2>2, <3>1
    <2> QED
      BY <2>1, <2>2
  <1>10. e \o done = f
    BY <1>6, <1>8, <1>9, SeqEqual
  <1> QED
    BY <1>3, <1>7, <1>10 DEF f, m

\* The new buffer, given what one read takes from the wire.
Reads(n, chunk) ==
    /\ n \in Nat /\ n > 0 /\ read \in Nat
    /\ chunk \in Seq(Pieces) /\ Len(chunk) = n
    /\ \A i \in 1 .. n : chunk[i] = Sent(read + i)
    /\ read_buffer \in Seq(Pieces)
    /\ process_read_buffer(read_buffer \o chunk)
    /\ read' = read + n /\ cuts' = cuts \cup {read + n}

\* A handshake that waits for the line.
LEMMA WaitingReads ==
    ASSUME NEW b, process_read_buffer(b), Waiting
    PROVE  /\ SkipRdb(b).done = TRUE => Completed' /\ Execute(SkipRdb(b).left)
           /\ SkipRdb(b).done = FALSE => /\ Waiting' /\ executed' = executed
                                         /\ read_buffer' = SkipRdb(b).left
  BY DEF process_read_buffer, Waiting, Completed, prepare_handshake_write

LEMMA CompletedReads ==
    ASSUME NEW b, process_read_buffer(b), Completed
    PROVE  Execute(b) /\ Completed'
  BY DEF process_read_buffer, Completed, prepare_handshake_write

LEMMA NoLineReads ==
    ASSUME NEW n, NEW chunk, Reads(n, chunk), NoLine
    PROVE  read_buffer' \in Seq(Pieces) /\ Mode'
  <1> DEFINE m == read + n
             b == read_buffer \o chunk
  <1>0. /\ n \in Nat /\ n > 0 /\ read \in 0 .. 1 /\ chunk \in Seq(Pieces) /\ Len(chunk) = n
        /\ \A i \in 1 .. n : chunk[i] = Sent(read + i)
        /\ process_read_buffer(b) /\ read' = m /\ cuts' = cuts \cup {m}
        /\ Waiting /\ executed = <<>> /\ cuts \subseteq 0 .. 1
        /\ read_buffer \in Seq(Pieces) /\ read_buffer = SubSeq(FullResync, 1, read)
    BY DEF Reads, NoLine
  <1>1. Len(read_buffer) = read /\ \A i \in 1 .. read : read_buffer[i] = Sent(i)
    <2>1. CASE read = 0
      <3>1. read_buffer = <<>>
        BY <1>0, <2>1, SubSeqEmpty
      <3> QED
        BY <2>1, <3>1
    <2>2. CASE read = 1
      <3> DEFINE f == FullResync
      <3>1. f[1] \in Pieces
        BY FullResyncFacts DEF Piece, Pieces
      <3> HIDE DEF f
      <3>2. \A i \in 1 .. 1 : f[i] \in Pieces
        BY <3>1
      <3>3. Len(SubSeq(f, 1, 1)) = (IF 1 <= 1 THEN 1 - 1 + 1 ELSE 0)
            /\ \A i \in 1 .. 1 - 1 + 1 : SubSeq(f, 1, 1)[i] = f[1 + i - 1]
        BY <3>2, SubSeqProperties
      <3>4. Len(SubSeq(f, 1, 1)) = 1 /\ SubSeq(f, 1, 1)[1] = f[1]
        <4>1. 1 \in 1 .. 1 - 1 + 1 /\ 1 + 1 - 1 = 1
          OBVIOUS
        <4> QED
          BY <3>3, <4>1
      <3>5. Sent(1) = f[1]
        BY DEF Sent, f
      <3>6. \A i \in 1 .. 1 : i = 1
        OBVIOUS
      <3> QED
        BY <1>0, <2>2, <3>4, <3>5, <3>6 DEF f
    <2> QED
      BY <1>0, <2>1, <2>2
  <1>2. /\ b \in Seq(Pieces) /\ Len(b) = m /\ m \in Nat /\ m > 0
        /\ \A i \in 1 .. m : b[i] = Sent(i)
    <2> DEFINE r == read_buffer
    <2>0. r \in Seq(Pieces) /\ Len(r) = read /\ \A i \in 1 .. read : r[i] = Sent(i)
      BY <1>0, <1>1
    <2> HIDE DEF r
    <2>1. /\ r \o chunk \in Seq(Pieces) /\ Len(r \o chunk) = read + n
          /\ \A i \in 1 .. read + n : (r \o chunk)[i] = IF i <= read THEN r[i] ELSE chunk[i - read]
      BY <1>0, <2>0, ConcatProperties
    <2>2. ASSUME NEW i \in 1 .. read + n
          PROVE  (r \o chunk)[i] = Sent(i)
      <3>1. CASE i <= read
        <4>1. i \in 1 .. read
          BY <1>0, <3>1
        <4> QED
          BY <2>0, <2>1, <3>1, <4>1
      <3>2. CASE ~(i <= read)
        <4>1. i - read \in 1 .. n /\ read + (i - read) = i
          BY <1>0, <3>2
        <4> QED
          BY <1>0, <2>1, <3>2, <4>1
      <3> QED
        BY <3>1, <3>2
    <2>3. m \in Nat /\ m > 0
      BY <1>0
    <2> QED
      BY <2>1, <2>2, <2>3 DEF r
  <1>3. /\ m < 2 => SkipRdb(b).done = FALSE /\ SkipRdb(b).left = b
        /\ m = 2 => SkipRdb(b).done = TRUE /\ SkipRdb(b).left = <<>>
        /\ m \in 3 .. 5 => SkipRdb(b).done = FALSE /\ SkipRdb(b).left = Drop(b, 2)
        /\ m >= 6 => SkipRdb(b).done = TRUE /\ SkipRdb(b).left = Drop(Drop(b, 2), 4)
    <2> HIDE DEF b
    <2>1. \A i \in 1 .. Len(b) : b[i] = Sent(i)
      BY <1>2
    <2>2. /\ Len(b) < 2 => SkipRdb(b).done = FALSE /\ SkipRdb(b).left = b
          /\ Len(b) = 2 => SkipRdb(b).done = TRUE /\ SkipRdb(b).left = <<>>
          /\ Len(b) \in 3 .. 5 => SkipRdb(b).done = FALSE /\ SkipRdb(b).left = Drop(b, 2)
          /\ Len(b) >= 6 => SkipRdb(b).done = TRUE /\ SkipRdb(b).left = Drop(Drop(b, 2), 4)
      BY <1>2, <2>1, SkipPrefix
    <2> QED
      BY <1>2, <2>2
  <1>4. /\ SkipRdb(b).done = TRUE => Completed' /\ Execute(SkipRdb(b).left)
        /\ SkipRdb(b).done = FALSE => /\ Waiting' /\ executed' = executed
                                      /\ read_buffer' = SkipRdb(b).left
    BY <1>0, WaitingReads
  <1> HIDE DEF b, m
  <1>5. CASE m = 1
    <2>1. Waiting' /\ executed' = <<>> /\ read_buffer' = b
      BY <1>0, <1>3, <1>4, <1>5
    <2>2. b = SubSeq(FullResync, 1, 1)
      <3> DEFINE f == SubSeq(FullResync, 1, 1)
      <3>1. f \in Seq(Pieces) /\ Len(f) = 1 /\ f[1] = FullResync[1]
        <4>1. FullResync[1] \in Pieces
          BY FullResyncFacts DEF Piece, Pieces
        <4>2. \A i \in 1 .. 1 : FullResync[i] \in Pieces
          BY <4>1
        <4>3. f \in Seq(Pieces) /\ Len(f) = (IF 1 <= 1 THEN 1 - 1 + 1 ELSE 0)
              /\ \A i \in 1 .. 1 - 1 + 1 : f[i] = FullResync[1 + i - 1]
          BY <4>2, SubSeqProperties
        <4>4. 1 \in 1 .. 1 - 1 + 1 /\ 1 + 1 - 1 = 1
          OBVIOUS
        <4> QED
          BY <4>3, <4>4
      <3> HIDE DEF f
      <3>2. b[1] = FullResync[1]
        BY <1>2, <1>5 DEF Sent
      <3>3. \A i \in 1 .. Len(b) : b[i] = f[i]
        BY <1>2, <1>5, <3>1, <3>2
      <3> QED
        BY <1>2, <1>5, <3>1, <3>3, SeqEqual DEF f
    <2>3. cuts' \subseteq 0 .. 1 /\ read' = 1
      BY <1>0, <1>5
    <2>4. NoLine'
      BY <2>1, <2>2, <2>3 DEF NoLine
    <2> QED
      BY <1>2, <2>1, <2>4 DEF Mode
  <1>6. CASE m = 2
    <2>1. Completed' /\ Execute(<<>>)
      BY <1>3, <1>4, <1>6
    <2>2. executed' = <<>> /\ read_buffer' = <<>>
      <3> DEFINE z == <<>>
      <3>1. executed = [i \in 1 .. 0 |-> i] /\ z \in Seq(Pieces) /\ Len(z) = 0 /\ 0 \in Nat
            /\ [i \in 1 .. 0 |-> i] = <<>> /\ Execute(z)
        BY <1>0, <2>1
      <3> HIDE DEF z
      <3>2. \A i \in 1 .. Len(z) : z[i] = Command(0 + i)
        BY <3>1
      <3>3. executed' = [i \in 1 .. 0 + Len(z) |-> i] /\ read_buffer' = <<>>
        BY <3>1, <3>2, ExecuteCommands
      <3> QED
        BY <3>1, <3>3
    <2>3. AtLine'
      BY <1>0, <1>6, <2>1, <2>2 DEF AtLine
    <2> QED
      BY <2>2, <2>3 DEF Mode
  <1>7. CASE m \in 3 .. 5
    <2>1. Waiting' /\ executed' = <<>> /\ read_buffer' = Drop(b, 2)
      BY <1>0, <1>3, <1>4, <1>7
    <2>2. Drop(b, 2) \in Seq(Pieces) /\ Len(Drop(b, 2)) = m - 2
          /\ \A i \in 1 .. m - 2 : Drop(b, 2)[i] = b[2 + i]
      <3>1. 2 \in 0 .. Len(b)
        BY <1>2, <1>7
      <3> QED
        BY <1>2, <3>1, DropFacts
    <2>3. Drop(b, 2)[1] = Piece("length", 1) /\ Drop(b, 2) # <<>>
      <3>1. 1 \in 1 .. m - 2 /\ 2 + 1 = 3 /\ 3 \in 1 .. m /\ m - 2 # 0
        BY <1>2, <1>7
      <3>2. Sent(3) = Piece("length", 1)
        BY FullResyncFacts DEF Sent
      <3> QED
        BY <1>2, <2>2, <3>1, <3>2
    <2>4. LineLost'
      BY <1>0, <1>7, <2>1, <2>3 DEF LineLost
    <2> QED
      BY <2>1, <2>2, <2>4 DEF Mode
  <1>8. CASE m >= 6
    <2> DEFINE d == Drop(b, 2)
               w == Drop(d, 4)
    <2>1. Completed' /\ Execute(w)
      BY <1>3, <1>4, <1>8
    <2>2. d \in Seq(Pieces) /\ Len(d) = m - 2 /\ \A i \in 1 .. m - 2 : d[i] = b[2 + i]
      <3>1. 2 \in 0 .. Len(b)
        BY <1>2, <1>8
      <3> QED
        BY <1>2, <3>1, DropFacts
    <2> HIDE DEF d
    <2>3. w \in Seq(Pieces) /\ Len(w) = m - 6 /\ \A i \in 1 .. m - 6 : w[i] = d[4 + i]
      <3>1. 4 \in 0 .. Len(d) /\ (m - 2) - 4 = m - 6
        BY <1>2, <1>8, <2>2
      <3>2. Drop(d, 4) \in Seq(Pieces) /\ Len(Drop(d, 4)) = Len(d) - 4
            /\ \A i \in 1 .. Len(d) - 4 : Drop(d, 4)[i] = d[4 + i]
        <4>1. d \in Seq(Pieces) /\ 4 \in 0 .. Len(d)
          BY <2>2, <3>1
        <4> HIDE DEF w
        <4> QED
          BY <4>1, DropFacts
      <3> QED
        BY <2>2, <3>1, <3>2
    <2> HIDE DEF w
    <2>4. ASSUME NEW i \in 1 .. Len(w)
          PROVE  w[i] = Command(0 + i)
      <3>1. /\ i \in 1 .. m - 6 /\ 4 + i \in 1 .. m - 2 /\ 2 + (4 + i) = 6 + i /\ 6 + i \in 1 .. m
            /\ 6 + i \in Nat /\ 6 + i > 6 /\ 6 + i > 0 /\ (6 + i) - 6 = 0 + i
        BY <1>2, <1>8, <2>3
      <3>2. w[i] = Sent(6 + i)
        BY <1>2, <2>2, <2>3, <3>1
      <3>3. Sent(6 + i) = Command((6 + i) - 6)
        BY <3>1, SentFacts
      <3> QED
        BY <3>1, <3>2, <3>3
    <2>5. executed' = [i \in 1 .. m - 6 |-> i] /\ read_buffer' = <<>>
      <3>1. executed = [i \in 1 .. 0 |-> i] /\ 0 \in Nat
        BY <1>0
      <3>2. executed' = [i \in 1 .. 0 + Len(w) |-> i] /\ read_buffer' = <<>>
        BY <2>1, <2>3, <2>4, <3>1, ExecuteCommands
      <3>3. 0 + Len(w) = m - 6
        BY <1>2, <2>3
      <3> QED
        BY <3>2, <3>3
    <2>6. InStep'
      BY <1>0, <1>2, <1>8, <2>1, <2>5, SMTT(30) DEF InStep
    <2> QED
      BY <2>5, <2>6 DEF Mode
  <1> QED
    BY <1>2, <1>5, <1>6, <1>7, <1>8

\* What a non-empty buffer begins with stays there when more is read.
LEMMA FirstStays ==
    ASSUME NEW r \in Seq(Pieces), r # <<>>, NEW chunk \in Seq(Pieces)
    PROVE  r \o chunk \in Seq(Pieces) /\ r \o chunk # <<>> /\ (r \o chunk)[1] = r[1]
  <1>1. Len(r) \in Nat /\ Len(r) > 0 /\ Len(chunk) \in Nat
    BY EmptySeq
  <1>2. /\ r \o chunk \in Seq(Pieces) /\ Len(r \o chunk) = Len(r) + Len(chunk)
        /\ \A i \in 1 .. Len(r) + Len(chunk) : (r \o chunk)[i] =
              IF i <= Len(r) THEN r[i] ELSE chunk[i - Len(r)]
    BY ConcatProperties
  <1>3. 1 \in 1 .. Len(r) + Len(chunk) /\ 1 <= Len(r) /\ Len(r) + Len(chunk) # 0
    BY <1>1
  <1> QED
    BY <1>2, <1>3, EmptyIsLenZero

LEMMA LineLostReads ==
    ASSUME NEW n, NEW chunk, Reads(n, chunk), LineLost
    PROVE  read_buffer' \in Seq(Pieces) /\ Mode'
  <1> DEFINE b == read_buffer \o chunk
  <1>0. /\ read_buffer \in Seq(Pieces) /\ read_buffer # <<>> /\ read_buffer[1] = Piece("length", 1)
        /\ chunk \in Seq(Pieces) /\ process_read_buffer(b) /\ Waiting
        /\ executed = <<>> /\ cuts \cap {3, 4, 5} # {} /\ cuts \subseteq cuts'
    BY DEF Reads, LineLost
  <1>1. b \in Seq(Pieces) /\ b # <<>> /\ b[1] = Piece("length", 1)
    BY <1>0, FirstStays
  <1>2. SkipRdb(b).done = FALSE => Waiting' /\ executed' = executed /\ read_buffer' = SkipRdb(b).left
    BY <1>0, WaitingReads
  <1> HIDE DEF b
  <1>3. SkipRdb(b).done = FALSE /\ SkipRdb(b).left = b
    <2>1. b[1] # Piece("line", 1)
      BY <1>1 DEF Piece
    <2> QED
      BY <1>1, <2>1, SkipNothing
  <1>4. LineLost'
    BY <1>0, <1>1, <1>2, <1>3 DEF LineLost
  <1> QED
    BY <1>1, <1>2, <1>3, <1>4 DEF Mode

\* A buffer whose head cannot be parsed.
LEMMA ExecuteNothing ==
    ASSUME NEW b \in Seq(Pieces), b # <<>>, b[1].kind # "command", b[1] # Piece("length", 1),
           executed = <<>>, Execute(b)
    PROVE  executed' = <<>> /\ read_buffer' = b
  <1>1. ProcessCommands(b).executed = <<>> /\ ProcessCommands(b).left = b
    BY ProcessOther
  <1>2. <<>> \o <<>> = <<>>
    OBVIOUS
  <1> QED
    BY <1>1, <1>2 DEF Execute

LEMMA StuckReads ==
    ASSUME NEW n, NEW chunk, Reads(n, chunk), Stuck
    PROVE  read_buffer' \in Seq(Pieces) /\ Mode'
  <1> DEFINE b == read_buffer \o chunk
  <1>0. /\ read_buffer \in Seq(Pieces) /\ read_buffer # <<>>
        /\ read_buffer[1].kind # "command" /\ read_buffer[1] # Piece("length", 1)
        /\ chunk \in Seq(Pieces) /\ process_read_buffer(b) /\ Completed
        /\ executed = <<>> /\ n \in Nat /\ read \in Nat /\ n > 0
        /\ cuts' = cuts \cup {read + n} /\ read' = read + n
        /\ cuts \cap {3, 4, 5} # {} \/ (2 \in cuts /\ 6 \notin cuts /\ read > 6)
    BY DEF Reads, Stuck
  <1>1. b \in Seq(Pieces) /\ b # <<>> /\ b[1].kind # "command" /\ b[1] # Piece("length", 1)
    BY <1>0, FirstStays
  <1>2. Execute(b) /\ Completed'
    BY <1>0, CompletedReads
  <1> HIDE DEF b
  <1>3. executed' = <<>> /\ read_buffer' = b
    BY <1>0, <1>1, <1>2, ExecuteNothing
  <1>4. cuts' \cap {3, 4, 5} # {} \/ (2 \in cuts' /\ 6 \notin cuts' /\ read' > 6)
    BY <1>0
  <1>5. Stuck'
    BY <1>1, <1>2, <1>3, <1>4 DEF Stuck
  <1> QED
    BY <1>1, <1>3, <1>5 DEF Mode

\* A completed handshake with an empty buffer executes what it reads.
LEMMA EmptyReads ==
    ASSUME NEW n, NEW chunk, Reads(n, chunk), Completed, read_buffer = <<>>
    PROVE  /\ Execute(chunk) /\ Completed' /\ chunk # <<>>
           /\ chunk[1] = Sent(read + 1)
  <1>1. /\ n \in Nat /\ n > 0 /\ chunk \in Seq(Pieces) /\ Len(chunk) = n
        /\ process_read_buffer(<<>> \o chunk)
        /\ \A i \in 1 .. n : chunk[i] = Sent(read + i)
    BY DEF Reads
  <1>2. <<>> \o chunk = chunk
    BY <1>1, ConcatEmptySeq
  <1>3. Execute(chunk) /\ Completed'
    BY <1>1, <1>2, CompletedReads
  <1>4. 1 \in 1 .. n /\ n # 0
    BY <1>1
  <1> QED
    BY <1>1, <1>3, <1>4, EmptyIsLenZero

LEMMA RdbCutReads ==
    ASSUME NEW n, NEW chunk, Reads(n, chunk), RdbCut
    PROVE  read_buffer' \in Seq(Pieces) /\ Mode'
  <1>0. /\ chunk \in Seq(Pieces) /\ Completed /\ executed = <<>> /\ read \in 3 .. 5
        /\ read_buffer = <<>> /\ cuts \cap {3, 4, 5} # {} /\ cuts \subseteq cuts'
    BY DEF Reads, RdbCut
  <1>1. Execute(chunk) /\ Completed' /\ chunk # <<>> /\ chunk[1] = Sent(read + 1)
    BY <1>0, EmptyReads
  <1>2. chunk[1].kind # "command" /\ chunk[1] # Piece("length", 1)
    <2>1. read + 1 \in Nat /\ read + 1 > 0 /\ read + 1 <= 6 /\ read + 1 \in 4 .. 6
      BY <1>0
    <2> QED
      BY <1>1, <2>1, SentFacts
  <1>3. executed' = <<>> /\ read_buffer' = chunk
    BY <1>0, <1>1, <1>2, ExecuteNothing
  <1>4. Stuck'
    BY <1>0, <1>1, <1>2, <1>3 DEF Stuck
  <1> QED
    BY <1>0, <1>3, <1>4 DEF Mode

LEMMA InStepReads ==
    ASSUME NEW n, NEW chunk, Reads(n, chunk), InStep
    PROVE  read_buffer' \in Seq(Pieces) /\ Mode'
  <1> DEFINE k == read - 6
  <1>0. /\ n \in Nat /\ n > 0 /\ read \in Nat /\ read >= 6
        /\ chunk \in Seq(Pieces) /\ Len(chunk) = n /\ \A i \in 1 .. n : chunk[i] = Sent(read + i)
        /\ Completed /\ read_buffer = <<>> /\ executed = [i \in 1 .. k |-> i]
        /\ read' = read + n /\ cuts' = cuts \cup {read + n}
        /\ cuts \cap {3, 4, 5} = {} /\ (2 \in cuts => 6 \in cuts)
    BY DEF Reads, InStep
  <1>1. Execute(chunk) /\ Completed'
    BY <1>0, EmptyReads
  <1>2. k \in Nat /\ k + n = (read + n) - 6
    BY <1>0
  <1>3. ASSUME NEW i \in 1 .. Len(chunk)
        PROVE  chunk[i] = Command(k + i)
    <2>1. i \in 1 .. n /\ read + i \in Nat /\ read + i > 6 /\ read + i > 0 /\ (read + i) - 6 = k + i
      BY <1>0
    <2>2. Sent(read + i) = Command((read + i) - 6)
      BY <2>1, SentFacts
    <2> QED
      BY <1>0, <2>1, <2>2
  <1> HIDE DEF k
  <1>4. executed' = [i \in 1 .. k + Len(chunk) |-> i] /\ read_buffer' = <<>>
    BY <1>0, <1>1, <1>2, <1>3, ExecuteCommands
  <1>5. executed' = [i \in 1 .. read' - 6 |-> i]
    BY <1>0, <1>2, <1>4
  <1>6. InStep'
    BY <1>0, <1>1, <1>4, <1>5 DEF InStep
  <1> QED
    BY <1>4, <1>6 DEF Mode

\* The RDB comes after the handshake: a bulk string to skip.
LEMMA AtLineReads ==
    ASSUME NEW n, NEW chunk, Reads(n, chunk), AtLine
    PROVE  read_buffer' \in Seq(Pieces) /\ Mode'
  <1>0. /\ n \in Nat /\ n > 0 /\ read = 2
        /\ chunk \in Seq(Pieces) /\ Len(chunk) = n /\ \A i \in 1 .. n : chunk[i] = Sent(2 + i)
        /\ Completed /\ read_buffer = <<>> /\ executed = <<>>
        /\ read' = 2 + n /\ cuts' = cuts \cup {2 + n} /\ 2 \in cuts /\ cuts \subseteq 0 .. 2
    BY DEF Reads, AtLine
  <1>1. Execute(chunk) /\ Completed' /\ chunk # <<>> /\ chunk[1] = Sent(3)
    BY <1>0, EmptyReads
  <1>2. chunk[1] = Piece("length", 1) /\ chunk[1].kind # "command"
    BY <1>1, FullResyncFacts DEF Sent, Piece
  <1>3. ProcessCommands(chunk).executed = <<>>
    BY <1>0, <1>1, <1>2, ProcessOther
  <1>4. executed' = <<>> /\ read_buffer' = ProcessCommands(chunk).left
    <2>1. <<>> \o <<>> = <<>>
      OBVIOUS
    <2> QED
      BY <1>0, <1>1, <1>3, <2>1 DEF Execute
  <1>5. CASE n <= 4
    <2>1. ASSUME NEW i \in 1 .. Len(chunk)
          PROVE  chunk[i].kind # "command"
      <3>1. i \in 1 .. n /\ 2 + i \in Nat /\ 2 + i > 0 /\ 2 + i <= 6
        BY <1>0, <1>5
      <3>2. Sent(2 + i).kind # "command"
        BY <3>1, SentFacts
      <3> QED
        BY <1>0, <3>1, <3>2
    <2>2. read_buffer' = <<>>
      BY <1>0, <1>1, <1>2, <1>4, <2>1, ProcessOther
    <2>3. CASE n = 4
      <3>1. 2 + n = 6
        BY <2>3
      <3>2. read' = 6 /\ cuts' = cuts \cup {6} /\ cuts' \cap {3, 4, 5} = {} /\ 6 \in cuts'
        BY <1>0, <3>1
      <3>3. [i \in 1 .. 6 - 6 |-> i] = <<>>
        OBVIOUS
      <3>4. InStep'
        BY <1>1, <1>4, <2>2, <3>2, <3>3 DEF InStep
      <3> QED
        BY <2>2, <3>4 DEF Mode
    <2>4. CASE n # 4
      <3>1. 2 + n \in 3 .. 5
        BY <1>0, <1>5, <2>4
      <3>2. read' \in 3 .. 5 /\ cuts' \cap {3, 4, 5} # {}
        <4> DEFINE m == 2 + n
        <4>1. m \in {3, 4, 5} /\ m \in cuts'
          BY <1>0, <3>1
        <4> QED
          BY <1>0, <3>1, <4>1
      <3>3. RdbCut'
        BY <1>1, <1>4, <2>2, <3>2 DEF RdbCut
      <3> QED
        BY <2>2, <3>3 DEF Mode
    <2> QED
      BY <2>3, <2>4
  <1>6. CASE n > 4
    <2>1. chunk[5].kind = "command" /\ 5 \in 1 .. Len(chunk)
      <3>1. 5 \in 1 .. n /\ 2 + 5 = 7
        BY <1>0, <1>6
      <3>2. Sent(7).kind = "command"
        BY DEF Sent, Command, Piece
      <3> QED
        BY <1>0, <3>1, <3>2
    <2>2. /\ ProcessCommands(chunk).left \in Seq(Pieces) /\ ProcessCommands(chunk).left # <<>>
          /\ ProcessCommands(chunk).left[1] = Piece("broken", 0)
      BY <1>0, <1>1, <1>2, <2>1, ProcessOther
    <2>3. read_buffer' # <<>> /\ read_buffer'[1].kind # "command" /\ read_buffer'[1] # Piece("length", 1)
      BY <1>4, <2>2 DEF Piece
    <2>4. 2 \in cuts' /\ 6 \notin cuts' /\ read' > 6
      BY <1>0, <1>6
    <2>5. Stuck'
      BY <1>1, <1>4, <2>3, <2>4 DEF Stuck
    <2> QED
      BY <1>4, <2>2, <2>5 DEF Mode
  <1> QED
    BY <1>0, <1>5, <1>6

-----------------------------------------------------------------------------
(* Every step.                                                             *)

LEMMA InitInv == Init => IInv
  BY DEF Init, IInv, Early, Asked

\* The handshake up to PSYNC.
LEMMA EarlyStep ==
    ASSUME Early, Next
    PROVE  IInv'
  <1>0. /\ replication_status \in {"PING_SENT", "REPLCONF_PORT_SENT", "REPLCONF_CAPA_SENT", "PSYNC_SENT"}
        /\ is_handshake_completed = FALSE /\ registered = FALSE
        /\ read_buffer = <<>> /\ executed = <<>>
        /\ propagated = 0 /\ read = 0 /\ cuts \subseteq {0}
        /\ \/ request = <<Asked>> /\ to_master = <<>> /\ wire = <<>>
           \/ request = <<>> /\ to_master = <<Asked>> /\ wire = <<>>
           \/ /\ request = <<>> /\ to_master = <<>> /\ wire = <<Piece("reply", 0)>>
              /\ replication_status # "PSYNC_SENT"
    BY DEF Early
  <1>1. CASE handleWrite
    <2>1. /\ request = <<Asked>> /\ to_master = <<>> /\ wire = <<>>
          /\ to_master' = to_master \o request /\ request' = <<>>
          /\ UNCHANGED <<replication_status, is_handshake_completed, read_buffer,
                         wire, registered, propagated, executed, read, cuts>>
      BY <1>0, <1>1 DEF handleWrite
    <2>2. <<>> \o <<Asked>> = <<Asked>>
      OBVIOUS
    <2>3. to_master' = <<Asked>> /\ Asked' = Asked
      BY <2>1, <2>2 DEF Asked
    <2> QED
      BY <1>0, <2>1, <2>3 DEF IInv, Early
  <1>2. CASE AnswerRequest
    <2>1. /\ request = <<>> /\ to_master = <<Asked>> /\ wire = <<>>
          /\ wire' = wire \o (IF Head(to_master) = "PSYNC" THEN FullResync ELSE <<Piece("reply", 0)>>)
          /\ registered' = (registered \/ Head(to_master) = "PSYNC")
          /\ to_master' = Tail(to_master)
          /\ UNCHANGED <<replication_status, is_handshake_completed, read_buffer,
                         request, propagated, executed, read, cuts>>
      BY <1>0, <1>2 DEF AnswerRequest
    <2>2. Head(to_master) = Asked /\ to_master' = <<>>
      BY <2>1
    <2>3. Asked = "PSYNC" <=> replication_status = "PSYNC_SENT"
      BY <1>0 DEF Asked
    <2>4. CASE replication_status = "PSYNC_SENT"
      <3>1. wire' = <<>> \o FullResync /\ registered' = TRUE
        BY <2>1, <2>2, <2>3, <2>4
      <3>2. wire' = FullResync
        BY <3>1, FullResyncFacts, ConcatEmptySeq
      <3>3. \A i \in 1 .. 6 : FullResync[i] = Sent(0 + i)
        BY DEF Sent
      <3>4. InFlight'
        <4>1. wire' \in Seq(Pieces) /\ Len(wire') = 6 /\ propagated' = 0 /\ read' = 0
          BY <1>0, <2>1, <3>2, FullResyncFacts
        <4>2. \A i \in 1 .. Len(wire') : wire'[i] = Sent(read' + i)
          BY <3>2, <3>3, <4>1
        <4> QED
          BY <4>1, <4>2 DEF InFlight
      <3>5. NoLine'
        <4>1. SubSeq(FullResync, 1, 0) = <<>>
          BY SubSeqEmpty
        <4> QED
          BY <1>0, <2>1, <2>4, <4>1 DEF NoLine, Waiting
      <3>6. Late'
        BY <1>0, <2>1, <2>2, <3>1, <3>4, <3>5 DEF Late, Mode
      <3> QED
        BY <3>6 DEF IInv
    <2>5. CASE replication_status # "PSYNC_SENT"
      <3>1. wire' = <<>> \o <<Piece("reply", 0)>> /\ registered' = FALSE
        BY <1>0, <2>1, <2>2, <2>3, <2>5
      <3>2. wire' = <<Piece("reply", 0)>>
        BY <3>1
      <3> QED
        BY <1>0, <2>1, <2>2, <2>5, <3>1, <3>2 DEF IInv, Early
    <2> QED
      BY <2>4, <2>5
  <1>3. CASE handle_propagate
    BY <1>0, <1>3 DEF handle_propagate
  <1>4. ASSUME NEW n, handleRead(n)
        PROVE  IInv'
    <2>1. /\ request = <<>> /\ n \in DOMAIN wire /\ wire' = Drop(wire, n)
          /\ process_read_buffer(read_buffer \o SubSeq(wire, 1, n))
          /\ UNCHANGED <<to_master, registered, propagated>>
      BY <1>4 DEF handleRead
    <2>2. /\ to_master = <<>> /\ wire = <<Piece("reply", 0)>> /\ replication_status # "PSYNC_SENT"
          /\ n = 1
      BY <1>0, <2>1
    <2>3. read' = 0 /\ cuts' \subseteq {0}
      BY <1>0, <1>4, <2>2 DEF handleRead
    <2>4. wire' = <<>>
      <3>1. Len(<<Piece("reply", 0)>>) = 1
        OBVIOUS
      <3>2. wire' = SubSeq(wire, 1 + 1, 1)
        BY <2>1, <2>2, <3>1 DEF Drop
      <3>3. 1 + 1 \in Int /\ 1 \in Int /\ 1 < 1 + 1
        OBVIOUS
      <3> QED
        BY <3>2, <3>3, SubSeqEmpty
    <2>5. read_buffer' = <<>> /\ prepare_handshake_write
          /\ UNCHANGED <<is_handshake_completed, executed>>
      BY <1>0, <2>1, <2>2 DEF process_read_buffer
    <2>6. /\ request' = <<Asked'>>
          /\ replication_status' \in {"REPLCONF_PORT_SENT", "REPLCONF_CAPA_SENT", "PSYNC_SENT"}
      BY <2>5 DEF prepare_handshake_write, Asked
    <2> QED
      BY <1>0, <2>1, <2>2, <2>3, <2>4, <2>5, <2>6 DEF IInv, Early
  <1> QED
    BY <1>1, <1>2, <1>3, <1>4 DEF Next, Read

\* The stream behind PSYNC.
LEMMA LateStep ==
    ASSUME Late, Next
    PROVE  Late'
  <1>0. /\ registered = TRUE /\ request = <<>> /\ to_master = <<>>
        /\ propagated \in Nat /\ read \in Nat /\ read <= 6 + propagated
        /\ read_buffer \in Seq(Pieces)
        /\ wire \in Seq(Pieces) /\ Len(wire) = 6 + propagated - read
        /\ \A i \in 1 .. Len(wire) : wire[i] = Sent(read + i)
        /\ Mode
    BY DEF Late, InFlight
  <1>1. ~handleWrite /\ ~AnswerRequest
    BY <1>0 DEF handleWrite, AnswerRequest
  <1>2. CASE handle_propagate
    <2> DEFINE x == Command(propagated + 1)
    <2>1. /\ propagated' = propagated + 1 /\ wire' = Append(wire, x)
          /\ UNCHANGED <<replication_status, is_handshake_completed, read_buffer,
                         request, to_master, registered, executed, read, cuts>>
      BY <1>2 DEF handle_propagate
    <2>2. x \in Pieces
      BY <1>0 DEF Command, Piece, Pieces
    <2>3. Mode'
      BY <1>0, <2>1 DEF Mode, NoLine, LineLost, AtLine, RdbCut, Stuck, InStep, Waiting, Completed
    <2>4. Sent(read + (Len(wire) + 1)) = x
      <3>1. read + (Len(wire) + 1) = propagated + 7 /\ ~(propagated + 7 <= 6)
            /\ (propagated + 7) - 6 = propagated + 1
        BY <1>0
      <3> QED
        BY <3>1 DEF Sent
    <2> HIDE DEF x
    <2>5. wire' \in Seq(Pieces) /\ Len(wire') = Len(wire) + 1 /\ wire'[Len(wire) + 1] = x
          /\ \A i \in 1 .. Len(wire) : wire'[i] = wire[i]
      BY <1>0, <2>1, <2>2, AppendProperties
    <2>6. \A i \in 1 .. Len(wire') : wire'[i] = Sent(read' + i)
      <3> SUFFICES ASSUME NEW i \in 1 .. Len(wire') PROVE wire'[i] = Sent(read + i)
        BY <2>1
      <3>1. CASE i = Len(wire) + 1
        BY <2>4, <2>5, <3>1
      <3>2. CASE i # Len(wire) + 1
        <4>1. i \in 1 .. Len(wire)
          BY <1>0, <2>5, <3>2
        <4> QED
          BY <1>0, <2>5, <4>1
      <3> QED
        BY <3>1, <3>2
    <2>7. InFlight'
      <3>1. Len(wire') = 6 + propagated' - read'
        BY <1>0, <2>1, <2>5
      <3> QED
        BY <2>5, <2>6, <3>1 DEF InFlight
    <2> QED
      BY <1>0, <2>1, <2>3, <2>7 DEF Late
  <1>3. ASSUME NEW n, handleRead(n)
        PROVE  Late'
    <2> DEFINE chunk == SubSeq(wire, 1, n)
    <2>1. /\ n \in DOMAIN wire /\ wire' = Drop(wire, n)
          /\ process_read_buffer(read_buffer \o chunk)
          /\ UNCHANGED <<to_master, registered, propagated>>
      BY <1>3 DEF handleRead
    <2>2. n \in Nat /\ n > 0 /\ n <= Len(wire) /\ n \in 0 .. Len(wire) /\ Len(wire) \in Nat
      BY <1>0, <2>1
    <2>3. read' = read + n /\ cuts' = cuts \cup {read + n}
      <3>1. replication_status \in {"PSYNC_SENT", "HANDSHAKE_SUCCESS"}
        BY <1>0 DEF Mode, NoLine, LineLost, AtLine, RdbCut, Stuck, InStep, Waiting, Completed
      <3> QED
        BY <1>3, <3>1 DEF handleRead
    <2>4. chunk \in Seq(Pieces) /\ Len(chunk) = n /\ \A i \in 1 .. n : chunk[i] = Sent(read + i)
      <3>1. \A i \in 1 .. n : wire[i] \in Pieces
        BY <1>0, <2>2, ElementOfSeq
      <3>2. /\ chunk \in Seq(Pieces) /\ Len(chunk) = IF 1 <= n THEN n - 1 + 1 ELSE 0
            /\ \A i \in 1 .. n - 1 + 1 : chunk[i] = wire[1 + i - 1]
        BY <2>2, <3>1, SubSeqProperties
      <3>3. \A i \in 1 .. n : i \in 1 .. n - 1 + 1 /\ 1 + i - 1 = i /\ i \in 1 .. Len(wire)
        BY <1>0, <2>2
      <3> HIDE DEF chunk
      <3>4. Len(chunk) = n
        BY <2>2, <3>2
      <3> QED
        BY <1>0, <3>2, <3>3, <3>4
    <2> HIDE DEF chunk
    <2>5. Reads(n, chunk)
      BY <1>0, <2>1, <2>2, <2>3, <2>4 DEF Reads
    <2>6. read_buffer' \in Seq(Pieces) /\ Mode'
      BY <1>0, <2>5, NoLineReads, LineLostReads, AtLineReads, RdbCutReads, StuckReads, InStepReads
         DEF Mode
    <2>7. request' = <<>>
      <3>1. Waiting \/ Completed
        BY <1>0 DEF Mode, NoLine, LineLost, AtLine, RdbCut, Stuck, InStep
      <3> QED
        BY <1>0, <2>1, <3>1 DEF process_read_buffer, prepare_handshake_write, Waiting, Completed
    <2>8. /\ wire' \in Seq(Pieces) /\ Len(wire') = Len(wire) - n
          /\ \A i \in 1 .. Len(wire) - n : wire'[i] = wire[n + i]
      <3>1. Drop(wire, n) \in Seq(Pieces) /\ Len(Drop(wire, n)) = Len(wire) - n
            /\ \A i \in 1 .. Len(wire) - n : Drop(wire, n)[i] = wire[n + i]
        BY <1>0, <2>2, DropFacts
      <3> QED
        BY <2>1, <3>1
    <2>9. InFlight'
      <3>1. ASSUME NEW i \in 1 .. Len(wire')
            PROVE  wire'[i] = Sent(read' + i)
        <4>1. i \in 1 .. Len(wire) - n /\ n + i \in 1 .. Len(wire) /\ read + (n + i) = (read + n) + i
          BY <1>0, <2>2, <2>8, SMTT(30)
        <4> QED
          BY <1>0, <2>3, <2>8, <4>1
      <3>2. Len(wire') = 6 + propagated' - read'
        BY <1>0, <2>1, <2>2, <2>3, <2>8, SMTT(30)
      <3> QED
        BY <2>8, <3>1, <3>2 DEF InFlight
    <2>10. propagated' \in Nat /\ read' \in Nat /\ read' <= 6 + propagated'
      BY <1>0, <2>1, <2>2, <2>3
    <2> QED
      BY <1>0, <2>1, <2>6, <2>7, <2>9, <2>10 DEF Late
  <1> QED
    BY <1>1, <1>2, <1>3 DEF Next, Read

LEMMA NextInv == IInv /\ [Next]_vars => IInv'
  <1> SUFFICES ASSUME IInv, [Next]_vars PROVE IInv'
    OBVIOUS
  <1>1. CASE Next
    BY <1>1, EarlyStep, LateStep DEF IInv
  <1>2. CASE UNCHANGED vars
    <2>1. UNCHANGED <<replication_status, is_handshake_completed, read_buffer, request, to_master,
                      wire, registered, propagated, executed, read, cuts>>
      BY <1>2 DEF vars
    <2>2. Early => Early'
      BY <2>1 DEF Early, Asked
    <2>3. InFlight => InFlight'
      BY <2>1 DEF InFlight
    <2>4. Mode => Mode'
      <3>1. Waiting' = Waiting /\ Completed' = Completed
        BY <2>1 DEF Waiting, Completed
      <3>2. (NoLine => NoLine') /\ (LineLost => LineLost') /\ (AtLine => AtLine')
        BY <2>1, <3>1 DEF NoLine, LineLost, AtLine
      <3>3. (RdbCut => RdbCut') /\ (Stuck => Stuck') /\ (InStep => InStep')
        BY <2>1, <3>1 DEF RdbCut, Stuck, InStep
      <3> QED
        BY <3>2, <3>3 DEF Mode
    <2>5. Late => Late'
      BY <2>1, <2>3, <2>4 DEF Late
    <2> QED
      BY <2>2, <2>5 DEF IInv
  <1> QED
    BY <1>1, <1>2

LEMMA Invariance == Spec => []IInv
  BY InitInv, NextInv, PTL DEF Spec

-----------------------------------------------------------------------------
(* The theorems.                                                           *)

\* However the stream is cut into reads, the replica executes the master's
\* commands in order, without a gap, and none before the RDB is behind it
\* (process_commands, handle_handshake_read).
THEOREM CommandsInOrder == Spec => []ExecutesPrefix
  <1>1. IInv => ExecutesPrefix
    <2> SUFFICES ASSUME IInv PROVE ExecutesPrefix
      OBVIOUS
    <2>1. CASE executed = <<>>
      BY <2>1 DEF ExecutesPrefix
    <2>2. CASE executed # <<>>
      <3>1. read \in Nat /\ read >= 6 /\ executed = [i \in 1 .. read - 6 |-> i]
        BY <2>2 DEF IInv, Early, Late, Mode, NoLine, LineLost, AtLine, RdbCut, Stuck, InStep
      <3>2. Len(executed) = read - 6 /\ DOMAIN executed = 1 .. read - 6
        BY <3>1
      <3> QED
        BY <3>1, <3>2 DEF ExecutesPrefix
    <2> QED
      BY <2>1, <2>2
  <1> QED
    BY Invariance, <1>1, PTL

\* When everything sent has been read, the replica has executed all of it or
\* none of it, and only the places where reads ended decide which
\* (handle_handshake_read, process_commands).
THEOREM SyncDecidedByCuts == Spec => []SyncedUnlessBadCut
  <1>1. IInv => SyncedUnlessBadCut
    <2> SUFFICES ASSUME IInv, registered, wire = <<>>
                 PROVE  Len(executed) = IF BadCut THEN 0 ELSE propagated
      BY DEF SyncedUnlessBadCut
    <2>1. /\ propagated \in Nat /\ read \in Nat /\ Len(wire) = 6 + propagated - read /\ Mode
      BY DEF IInv, Early, Late, InFlight
    <2>2. read = 6 + propagated
      <3>1. Len(wire) = 0
        OBVIOUS
      <3> QED
        BY <2>1, <3>1
    <2>3. ~NoLine /\ ~AtLine /\ ~RdbCut
      BY <2>1, <2>2 DEF NoLine, AtLine, RdbCut
    <2>4. CASE LineLost \/ Stuck
      <3>1. BadCut /\ executed = <<>>
        BY <2>4 DEF LineLost, Stuck, BadCut
      <3> QED
        BY <3>1
    <2>5. CASE InStep
      <3>1. ~BadCut /\ executed = [i \in 1 .. propagated |-> i]
        <4>1. read - 6 = propagated
          BY <2>1, <2>2
        <4> QED
          BY <2>5, <4>1 DEF InStep, BadCut
      <3>2. Len(executed) = propagated
        BY <2>1, <3>1
      <3> QED
        BY <3>1, <3>2
    <2> QED
      BY <2>1, <2>3, <2>4, <2>5 DEF Mode
  <1> QED
    BY Invariance, <1>1, PTL
=============================================================================
