--------------------------- MODULE StreamsProofs ----------------------------
(* Invariants of Streams for every value of its constants.                 *)
EXTENDS Streams, Induction, SequenceTheorems, FiniteSetTheorems, TLAPS

Pair == [key : Keys, start : StreamID]

Blocked ==
    {b \in [client : Clients, stream_id : Start, finite : BOOLEAN, ticket : Nat,
            asked : Seq(Pair), at : Nat] : b.at \in DOMAIN b.asked}

\* The types of the state.  The queues are finite, so that the number of
\* replies an XADD makes is a number.
Typed ==
    /\ keyType \in [Keys -> {"none", "string", "stream"}]
    /\ entries \in [Keys -> Seq(StreamID)]
    /\ lastInsertStreamID \in [Keys -> StreamID]
    /\ blocked_xread_keys \in [Keys -> SUBSET Blocked]
    /\ \A k \in Keys : IsFiniteSet(blocked_xread_keys[k])
    /\ write_buffer \in [Clients -> Nat]
    /\ open \subseteq Clients
    /\ armed \subseteq open
    /\ tickets \in Nat

LEMMA IdFacts ==
    /\ Zero \in StreamID
    /\ Dollar \notin StreamID
    /\ \A a, b, c \in StreamID : isGreater(a, b) /\ isGreater(b, c) => isGreater(a, c)
    /\ \A a \in StreamID : a # Zero => isGreater(a, Zero)
    /\ \A a, b \in StreamID : ~(isGreater(a, b) /\ isGreater(b, a))
  <1>1. Zero \in StreamID
    BY ConstantsAssumption DEF Zero, StreamID
  <1>2. Dollar \notin StreamID
    BY DEF Dollar, StreamID
  <1>3. \A a, b, c \in StreamID : isGreater(a, b) /\ isGreater(b, c) => isGreater(a, c)
    BY ConstantsAssumption DEF StreamID, isGreater
  <1>4. \A a \in StreamID : a # Zero => isGreater(a, Zero)
    BY ConstantsAssumption DEF StreamID, isGreater, Zero
  <1>5. \A a, b \in StreamID : ~(isGreater(a, b) /\ isGreater(b, a))
    BY ConstantsAssumption DEF StreamID, isGreater
  <1> QED
    BY <1>1, <1>2, <1>3, <1>4, <1>5

\* XADD computes an ID.
LEMMA FromStringType ==
    ASSUME NEW last \in StreamID, NEW arg \in IdArgument
    PROVE  fromString(last, arg) \in StreamID
  <1>1. arg.ms \in 0 .. MaxMs /\ last.seq \in 0 .. MaxSeq
    BY DEF IdArgument, StreamID
  <1>2. (last.seq + 1) % (MaxSeq + 1) \in 0 .. MaxSeq
    BY <1>1, ConstantsAssumption
  <1>3. CASE arg.form = "explicit"
    BY <1>1, <1>3 DEF fromString, StreamID, IdArgument
  <1>4. CASE arg.form = "auto"
    BY <1>1, <1>4, ConstantsAssumption DEF fromString, StreamID
  <1>5. CASE arg.form = "autoseq"
    BY <1>1, <1>2, <1>5, ConstantsAssumption DEF fromString, StreamID
  <1> QED
    BY <1>3, <1>4, <1>5 DEF IdArgument

\* One reply per blocked client that is answered, and nobody else's buffer
\* is touched.
LEMMA AnswerFacts ==
    ASSUME NEW S, IsFiniteSet(S), NEW buffer \in [Clients -> Nat]
    PROVE  /\ Answer(S, buffer) \in [Clients -> Nat]
           /\ \A c \in Clients :
                (\A b \in S : b.client # c) => Answer(S, buffer)[c] = buffer[c]
  <1> DEFINE mine(c) == {b \in S : b.client = c}
  <1>1. \A c \in Clients : IsFiniteSet(mine(c))
    BY FS_Subset
  <1>2. \A c \in Clients : Cardinality(mine(c)) \in Nat
    BY <1>1, FS_CardinalityType
  <1>3. ASSUME NEW c \in Clients, \A b \in S : b.client # c
        PROVE  Cardinality(mine(c)) = 0
    <2>1. mine(c) = {}
      BY <1>3
    <2> QED
      BY <2>1, FS_EmptySet
  <1>4. Answer(S, buffer) = [c \in Clients |-> buffer[c] + Cardinality(mine(c))]
    BY DEF Answer
  <1> HIDE DEF mine
  <1> QED
    BY <1>2, <1>3, <1>4

\* The reply of a command to its own client.
LEMMA RespondTyped ==
    ASSUME Typed, NEW c \in Clients, NEW n \in Nat, Respond(c, n)
    PROVE  /\ write_buffer' \in [Clients -> Nat]
           /\ open' = open
           /\ armed' \subseteq open
           /\ \A d \in Clients : d # c => write_buffer'[d] = write_buffer[d]
           /\ armed \subseteq armed'
           /\ c \in open /\ write_buffer'[c] > 0 => c \in armed'
  BY DEF Typed, Respond, flush

\* What XREAD queues a client with.
QueuedFrom(r) ==
    IF r.start = Dollar /\ keyType[r.key] = "stream" THEN lastInsertStreamID[r.key] ELSE r.start

AskedBy(reads) == [j \in DOMAIN reads |-> [key |-> reads[j].key, start |-> Awaited(reads[j])]]

LEMMA AskedFacts ==
    ASSUME Typed, NEW reads \in Reads, NEW i \in DOMAIN reads
    PROVE  /\ reads[i] \in [key : Keys, start : Start]
           /\ AskedBy(reads) \in Seq(Pair)
           /\ i \in DOMAIN AskedBy(reads) /\ i \in Nat
           /\ AskedBy(reads)[i] = [key |-> reads[i].key, start |-> Awaited(reads[i])]
  <1> DEFINE T == [key : Keys, start : Start]
             asked == AskedBy(reads)
  <1>1. reads \in Seq(T)
    BY ConstantsAssumption
  <1>2. Len(reads) \in Nat /\ DOMAIN reads = 1 .. Len(reads) /\ \A j \in DOMAIN reads : reads[j] \in T
    <2> HIDE DEF T
    <2> QED
      BY <1>1
  <1>3. ASSUME NEW j \in DOMAIN reads
        PROVE  [key |-> reads[j].key, start |-> Awaited(reads[j])] \in Pair
    <2>1. reads[j].key \in Keys /\ reads[j].start \in Start
      BY <1>2
    <2>2. Awaited(reads[j]) \in StreamID
      <3>1. CASE reads[j].start # Dollar
        BY <2>1, <3>1 DEF Awaited, Start, Dollar
      <3>2. CASE reads[j].start = Dollar
        <4>1. Awaited(reads[j]) \in {lastInsertStreamID[reads[j].key], Zero}
          BY <3>2 DEF Awaited
        <4> QED
          BY <2>1, <4>1, IdFacts DEF Typed
      <3> QED
        BY <3>1, <3>2
    <2> QED
      BY <2>1, <2>2 DEF Pair
  <1>4. asked = [j \in 1 .. Len(reads) |-> [key |-> reads[j].key, start |-> Awaited(reads[j])]]
    BY <1>2 DEF AskedBy
  <1>5. asked \in [1 .. Len(reads) -> Pair]
    BY <1>2, <1>3, <1>4
  <1>6. asked \in Seq(Pair) /\ DOMAIN asked = DOMAIN reads
    BY <1>2, <1>5
  <1>7. asked[i] = [key |-> reads[i].key, start |-> Awaited(reads[i])]
    BY <1>2, <1>4
  <1> QED
    BY <1>2, <1>6, <1>7

LEMMA TypedInductive ==
    ASSUME Typed, [Next]_vars
    PROVE  Typed'
  <1> USE ConstantsAssumption
  <1>1. ASSUME NEW c \in Clients, NEW k \in Keys, NEW arg \in IdArgument,
               handle_xadd(c, k, arg)
        PROVE  Typed'
    <2> DEFINE id == fromString(lastInsertStreamID[k], arg)
    <2>0. id \in StreamID
      BY FromStringType DEF Typed
    <2> HIDE DEF id
    <2>1. CASE XaddInserts(c, k, id)
      <3> DEFINE queue == blocked_xread_keys[k]
                 latest == {b \in queue : \A d \in queue : d.ticket <= b.ticket}
                 one    == [write_buffer EXCEPT ![c] = @ + 1]
                 buffer == Answer(queue, one)
      <3>1. one \in [Clients -> Nat] /\ IsFiniteSet(queue)
        BY DEF Typed
      <3>2. buffer \in [Clients -> Nat]
        <4> HIDE DEF one, queue
        <4> QED
          BY <3>1, AnswerFacts
      <3>3. /\ write_buffer' = buffer
            /\ armed' = flush({c} \cup {b.client : b \in latest}, buffer)
            /\ blocked_xread_keys' = [blocked_xread_keys EXCEPT ![k] = {}]
            /\ open' = open /\ tickets' = tickets
            /\ keyType' = [keyType EXCEPT ![k] = "stream"]
            /\ entries' = [entries EXCEPT ![k] = Append(@, id)]
            /\ lastInsertStreamID' = [lastInsertStreamID EXCEPT ![k] = id]
        BY <2>1 DEF XaddInserts
      <3> HIDE DEF buffer, latest, one, queue
      <3>4. armed' \subseteq open'
        BY <3>3 DEF flush, Typed
      <3>5. /\ entries' \in [Keys -> Seq(StreamID)]
            /\ lastInsertStreamID' \in [Keys -> StreamID]
            /\ keyType' \in [Keys -> {"none", "string", "stream"}]
        BY <2>0, <3>3 DEF Typed
      <3>6. /\ blocked_xread_keys' \in [Keys -> SUBSET Blocked]
            /\ \A j \in Keys : IsFiniteSet(blocked_xread_keys'[j])
        BY <3>3, FS_EmptySet DEF Typed
      <3> QED
        BY <3>2, <3>3, <3>4, <3>5, <3>6 DEF Typed
    <2>2. CASE XaddRefused(c, k, id)
      <3>1. Respond(c, 1) /\ UNCHANGED <<entries, lastInsertStreamID, blocked_xread_keys, aux>>
        BY <2>2 DEF XaddRefused
      <3>2. keyType' \in [Keys -> {"none", "string", "stream"}]
        BY <2>2 DEF XaddRefused, Typed
      <3> QED
        BY <3>1, <3>2, RespondTyped DEF Typed, aux
    <2> QED
      BY <1>1, <2>1, <2>2 DEF handle_xadd, id
  <1>2. ASSUME NEW c \in Clients, NEW reads \in Reads, handle_xread(c, reads)
        PROVE  Typed'
    <2>1. ASSUME NEW finite \in BOOLEAN, XreadBlocks(c, reads, finite)
          PROVE  Typed'
      <3>1. PICK i \in DOMAIN reads :
              /\ tickets' = tickets + 1
              /\ blocked_xread_keys' = [blocked_xread_keys EXCEPT ![reads[i].key] = @ \cup
                   {BlockedXreadClient(c, QueuedFrom(reads[i]), finite, tickets + 1,
                                       AskedBy(reads), i)}]
              /\ UNCHANGED <<store, write_buffer, open, armed, phase, eclipsed>>
        BY <2>1 DEF XreadBlocks, QueuedFrom, AskedBy
      <3> DEFINE r == reads[i]
                 b == BlockedXreadClient(c, QueuedFrom(r), finite, tickets + 1,
                                         AskedBy(reads), i)
      <3>2. r \in [key : Keys, start : Start] /\ AskedBy(reads) \in Seq(Pair)
            /\ i \in DOMAIN AskedBy(reads) /\ i \in Nat
        BY AskedFacts
      <3>3. b \in Blocked
        <4>1. QueuedFrom(r) \in Start /\ tickets + 1 \in Nat
          BY <3>2 DEF QueuedFrom, Start, Typed
        <4> QED
          BY <3>2, <4>1 DEF BlockedXreadClient, Blocked
      <3>4. /\ r.key \in Keys
            /\ blocked_xread_keys' = [blocked_xread_keys EXCEPT ![r.key] = @ \cup {b}]
            /\ UNCHANGED <<store, write_buffer, open, armed, phase, eclipsed>>
            /\ tickets' = tickets + 1
        BY <3>1, <3>2
      <3> HIDE DEF b, r
      <3>5. blocked_xread_keys' \in [Keys -> SUBSET Blocked]
        BY <3>3, <3>4 DEF Typed
      <3>6. \A j \in Keys : IsFiniteSet(blocked_xread_keys'[j])
        <4>1. IsFiniteSet(blocked_xread_keys[r.key] \cup {b})
          BY <3>4, FS_AddElement DEF Typed
        <4> QED
          BY <3>4, <4>1 DEF Typed
      <3>7. UNCHANGED <<keyType, entries, lastInsertStreamID>> /\ tickets' \in Nat
        BY <3>4 DEF Typed, store
      <3> QED
        BY <3>4, <3>5, <3>6, <3>7 DEF Typed
    <2>2. CASE XreadReplies(c)
      BY <2>2, RespondTyped DEF XreadReplies, Typed, store, aux
    <2>3. CASE XreadOfMissingKey(c)
      <3>1. CASE Respond(c, 2) /\ UNCHANGED <<store, blocked_xread_keys, aux>>
        BY <3>1, RespondTyped DEF Typed, store, aux
      <3> QED
        BY <2>3, <3>1 DEF XreadOfMissingKey, Typed, store, aux
    <2> QED
      BY <1>2, <2>1, <2>2, <2>3 DEF handle_xread
  <1>3. ASSUME NEW c \in Clients, handle_xrange(c)
        PROVE  Typed'
    BY <1>3, RespondTyped DEF handle_xrange, Typed, store, aux
  <1>4. ASSUME NEW c \in Clients, NEW k \in Keys, handle_set(c, k)
        PROVE  Typed'
    <2>1. Respond(c, 1) /\ UNCHANGED <<blocked_xread_keys, aux>>
      BY <1>4 DEF handle_set
    <2>2. /\ entries' \in [Keys -> Seq(StreamID)]
          /\ lastInsertStreamID' \in [Keys -> StreamID]
          /\ keyType' \in [Keys -> {"none", "string", "stream"}]
      BY <1>4, IdFacts DEF handle_set, Typed
    <2> QED
      BY <2>1, <2>2, RespondTyped DEF Typed, aux
  <1>5. ASSUME NEW c \in Clients, handleWrite(c) \/ handleClose(c)
        PROVE  Typed'
    BY <1>5 DEF handleWrite, handleClose, Typed, store, aux
  <1>6. ASSUME NEW k \in Keys, NEW S \in SUBSET blocked_xread_keys[k],
               check_and_expire_blocked_clients(k, S)
        PROVE  Typed'
    <2>1. IsFiniteSet(S)
      BY FS_Subset DEF Typed
    <2>2. /\ Answer(S, write_buffer) \in [Clients -> Nat]
          /\ write_buffer' = Answer(S, write_buffer)
      BY <1>6, <2>1, AnswerFacts DEF Typed, check_and_expire_blocked_clients
    <2>3. /\ blocked_xread_keys' \in [Keys -> SUBSET Blocked]
          /\ \A j \in Keys : IsFiniteSet(blocked_xread_keys'[j])
      BY <1>6, FS_Difference DEF Typed, check_and_expire_blocked_clients
    <2>4. armed' \subseteq open' /\ open' = open
      BY <1>6 DEF check_and_expire_blocked_clients, flush, Typed
    <2> QED
      BY <1>6, <2>2, <2>3, <2>4 DEF Typed, check_and_expire_blocked_clients, store, aux
  <1>7. CASE UNCHANGED vars
    BY <1>7 DEF Typed, vars, store, aux
  <1> QED
    BY <1>1, <1>2, <1>3, <1>4, <1>5, <1>6, <1>7 DEF Next

-----------------------------------------------------------------------------
(* The order of the entries.                                               *)

\* An ID that Stream::insert accepts is above all the IDs of its stream.
LEMMA AppendIncreases ==
    ASSUME NEW ids \in Seq(StreamID), NEW last \in StreamID, NEW id \in StreamID,
           \A i, j \in DOMAIN ids : i < j => isGreater(ids[j], ids[i]),
           \A i \in DOMAIN ids : isGreater(ids[i], Zero),
           ids # <<>> => last = ids[Len(ids)],
           Accepted(last, id)
    PROVE  LET new == Append(ids, id)
           IN  /\ \A i, j \in DOMAIN new : i < j => isGreater(new[j], new[i])
               /\ \A i \in DOMAIN new : isGreater(new[i], Zero)
               /\ new # <<>> /\ new[Len(new)] = id
  <1> DEFINE new == Append(ids, id)
             n == Len(ids)
  <1>1. /\ DOMAIN new = 1 .. n + 1 /\ DOMAIN ids = 1 .. n /\ n \in Nat
        /\ Len(new) = n + 1
        /\ \A i \in 1 .. n : new[i] = ids[i] /\ ids[i] \in StreamID
        /\ new[n + 1] = id /\ new # <<>>
    <2>1. new \in Seq(StreamID) /\ Len(new) = n + 1 /\ new # <<>> /\ new[n + 1] = id
      BY AppendProperties
    <2>2. \A i \in 1 .. n : new[i] = ids[i]
      BY AppendProperties
    <2>3. \A s \in Seq(StreamID) : /\ DOMAIN s = 1 .. Len(s) /\ Len(s) \in Nat
                                  /\ \A i \in 1 .. Len(s) : s[i] \in StreamID
      OBVIOUS
    <2> HIDE DEF new
    <2> QED
      BY <2>1, <2>2, <2>3
  <1>2. isGreater(id, Zero)
    BY IdFacts DEF Accepted
  <1>3. ASSUME NEW i \in 1 .. n
        PROVE  isGreater(id, ids[i])
    <2>1. ids # <<>> /\ last = ids[n] /\ n \in 1 .. n
      BY <1>3
    <2>2. last # Zero
      <3>1. isGreater(last, Zero)
        BY <2>1
      <3> QED
        BY <3>1, IdFacts
    <2>3. isGreater(id, last)
      BY <2>2 DEF Accepted
    <2>4. CASE i = n
      BY <2>1, <2>3, <2>4
    <2>5. CASE i < n
      <3>1. isGreater(ids[n], ids[i])
        BY <1>1, <2>1, <2>5
      <3> QED
        BY <1>1, <2>1, <2>3, <3>1, IdFacts
    <2>6. i = n \/ i < n
      <3> HIDE DEF n
      <3> QED
        BY <1>1
    <2> QED
      BY <2>4, <2>5, <2>6
  <1> HIDE DEF new, n
  <1>4. ASSUME NEW i \in DOMAIN new, NEW j \in DOMAIN new, i < j
        PROVE  isGreater(new[j], new[i])
    <2>1. CASE j = n + 1
      BY <1>1, <1>3, <1>4, <2>1
    <2>2. CASE j # n + 1
      <3>1. i \in DOMAIN ids /\ j \in DOMAIN ids
        BY <1>1, <1>4, <2>2
      <3> QED
        BY <1>1, <1>4, <3>1
    <2> QED
      BY <2>1, <2>2
  <1>5. \A i \in DOMAIN new : isGreater(new[i], Zero)
    BY <1>1, <1>2
  <1> QED
    BY <1>1, <1>4, <1>5 DEF new

\* XADD appends an ID above all others, SET forgets all of them, and nothing
\* else touches a stream.
LEMMA IdsInductive ==
    ASSUME Typed, IdsIncrease, [Next]_vars
    PROVE  IdsIncrease'
  <1>1. ASSUME NEW c \in Clients, NEW k \in Keys, NEW arg \in IdArgument,
               handle_xadd(c, k, arg)
        PROVE  IdsIncrease'
    <2> DEFINE id == fromString(lastInsertStreamID[k], arg)
    <2>1. CASE XaddInserts(c, k, id)
      <3>1. id \in StreamID /\ lastInsertStreamID[k] \in StreamID /\ entries[k] \in Seq(StreamID)
        BY FromStringType DEF Typed
      <3> HIDE DEF id
      <3>2. /\ Accepted(lastInsertStreamID[k], id)
            /\ entries' = [entries EXCEPT ![k] = Append(@, id)]
            /\ lastInsertStreamID' = [lastInsertStreamID EXCEPT ![k] = id]
        BY <2>1 DEF XaddInserts
      <3> DEFINE new == Append(entries[k], id)
      <3>3. /\ \A i, j \in DOMAIN new : i < j => isGreater(new[j], new[i])
            /\ \A i \in DOMAIN new : isGreater(new[i], Zero)
            /\ new[Len(new)] = id
        BY <3>1, <3>2, AppendIncreases DEF IdsIncrease
      <3>4. entries'[k] = new /\ lastInsertStreamID'[k] = id
        BY <3>2 DEF Typed
      <3>5. \A j \in Keys : j # k => /\ entries'[j] = entries[j]
                                    /\ lastInsertStreamID'[j] = lastInsertStreamID[j]
        BY <3>2 DEF Typed
      <3> HIDE DEF new
      <3> QED
        BY <3>3, <3>4, <3>5 DEF IdsIncrease
    <2>2. CASE XaddRefused(c, k, id)
      BY <2>2 DEF XaddRefused, IdsIncrease
    <2> QED
      BY <1>1, <2>1, <2>2 DEF handle_xadd
  <1>2. ASSUME NEW c \in Clients, NEW k \in Keys, handle_set(c, k)
        PROVE  IdsIncrease'
    <2>1. entries'[k] = <<>>
      BY <1>2 DEF handle_set, Typed
    <2>2. \A j \in Keys : j # k => /\ entries'[j] = entries[j]
                                  /\ lastInsertStreamID'[j] = lastInsertStreamID[j]
      BY <1>2 DEF handle_set, Typed
    <2> QED
      BY <2>1, <2>2 DEF IdsIncrease
  <1>3. ASSUME UNCHANGED store
        PROVE  IdsIncrease'
    BY <1>3 DEF store, IdsIncrease
  <1> QED
    BY <1>1, <1>2, <1>3
       DEF Next, handle_xread, XreadBlocks, XreadReplies, XreadOfMissingKey, handle_xrange,
           handleWrite, handleClose, check_and_expire_blocked_clients, vars

-----------------------------------------------------------------------------
(* The clients blocked in XREAD.                                           *)

\* A key that is no stream has no entries.
EmptyUnlessStream == \A k \in Keys : keyType[k] # "stream" => entries[k] = <<>>

LEMMA EmptyInductive ==
    ASSUME Typed, EmptyUnlessStream, [Next]_vars
    PROVE  EmptyUnlessStream'
  <1> USE DEF EmptyUnlessStream
  <1>1. ASSUME NEW c \in Clients, NEW k \in Keys, NEW arg \in IdArgument,
               handle_xadd(c, k, arg)
        PROVE  EmptyUnlessStream'
    BY <1>1 DEF handle_xadd, XaddInserts, XaddRefused, Typed
  <1>2. ASSUME NEW c \in Clients, NEW k \in Keys, handle_set(c, k)
        PROVE  EmptyUnlessStream'
    BY <1>2 DEF handle_set, Typed
  <1>3. ASSUME UNCHANGED store
        PROVE  EmptyUnlessStream'
    BY <1>3 DEF store
  <1> QED
    BY <1>1, <1>2, <1>3
       DEF Next, handle_xread, XreadBlocks, XreadReplies, XreadOfMissingKey, handle_xrange,
           handleWrite, handleClose, check_and_expire_blocked_clients, vars

\* Nothing is missed on the stream a client is queued for.
Settled(b, k) ==
    b.asked[b.at].key = k /\ IdsAfter(entries[k], b.asked[b.at].start) = {}

AllSettled == \A k \in Keys : \A b \in blocked_xread_keys[k] : Settled(b, k)

\* That is all NoEntryMissed says, for whatever the client asked.
LEMMA SettledMissesNothing ==
    ASSUME Typed
    PROVE  AllSettled <=> NoEntryMissed
  <1>1. ASSUME NEW k \in Keys, NEW b \in blocked_xread_keys[k]
        PROVE  Settled(b, k) <=>
                 /\ b.asked[b.at].key = k
                 /\ \A i \in DOMAIN b.asked : Missed(b, i) => QueuedElsewhere(b, i)
    <2>1. b \in Blocked
      BY DEF Typed
    <2>2. b.asked \in Seq(Pair) /\ b.at \in DOMAIN b.asked
      BY <2>1 DEF Blocked
    <2>3. Len(b.asked) \in Nat /\ DOMAIN b.asked = 1 .. Len(b.asked)
      BY <2>2
    <2>4. ASSUME NEW i \in DOMAIN b.asked, i # b.at
          PROVE  QueuedElsewhere(b, i)
      BY <2>2, <2>3, <2>4 DEF QueuedElsewhere
    <2>5. ~QueuedElsewhere(b, b.at)
      BY DEF QueuedElsewhere
    <2>6. b.asked[b.at].key = k => (Settled(b, k) <=> ~Missed(b, b.at))
      BY DEF Settled, Missed
    <2>7. Settled(b, k) => b.asked[b.at].key = k
      BY DEF Settled
    <2> QED
      BY <2>2, <2>4, <2>5, <2>6, <2>7
  <1> QED
    BY <1>1 DEF AllSettled, NoEntryMissed

\* Nothing is above the last ID of a stream.
LEMMA NothingAfterLast ==
    ASSUME Typed, IdsIncrease, NEW k \in Keys
    PROVE  IdsAfter(entries[k], lastInsertStreamID[k]) = {}
  <1> DEFINE ids == entries[k]
  <1>1. ids \in Seq(StreamID) /\ lastInsertStreamID[k] \in StreamID
    BY DEF Typed
  <1>2. ASSUME NEW i \in DOMAIN ids
        PROVE  ~isGreater(ids[i], lastInsertStreamID[k])
    <2>1. i \in 1 .. Len(ids) /\ Len(ids) \in DOMAIN ids /\ ids # <<>> /\ ids[i] \in StreamID
      BY <1>1, <1>2
    <2>2. lastInsertStreamID[k] = ids[Len(ids)]
      BY <2>1 DEF IdsIncrease
    <2>3. CASE i = Len(ids)
      BY <1>1, <2>1, <2>2, <2>3, IdFacts
    <2>4. CASE i # Len(ids)
      <3>1. i < Len(ids)
        BY <1>1, <2>1, <2>4
      <3>2. isGreater(ids[Len(ids)], ids[i])
        BY <2>1, <3>1 DEF IdsIncrease
      <3> QED
        BY <1>1, <2>1, <2>2, <3>2, IdFacts
    <2> QED
      BY <2>3, <2>4
  <1> QED
    BY <1>2 DEF IdsAfter

\* XREAD blocks a client on a key only where nothing newer is in the stream,
\* and XADD empties the queue of the key it adds to.
LEMMA SettledInductive ==
    ASSUME Typed, IdsIncrease, EmptyUnlessStream, AllSettled, [Next]_vars
    PROVE  AllSettled'
  <1> USE DEF AllSettled, Settled
  <1>0. \A start : IdsAfter(<<>>, start) = {}
    BY DEF IdsAfter
  <1>1. ASSUME NEW c \in Clients, NEW k \in Keys, NEW arg \in IdArgument,
               handle_xadd(c, k, arg)
        PROVE  AllSettled'
    <2> DEFINE id == fromString(lastInsertStreamID[k], arg)
    <2>1. CASE XaddInserts(c, k, id)
      <3>1. /\ blocked_xread_keys'[k] = {}
            /\ \A j \in Keys : j # k => /\ blocked_xread_keys'[j] = blocked_xread_keys[j]
                                        /\ entries'[j] = entries[j]
        BY <2>1 DEF XaddInserts, Typed
      <3> QED
        BY <3>1
    <2>2. CASE XaddRefused(c, k, id)
      BY <2>2 DEF XaddRefused
    <2> QED
      BY <1>1, <2>1, <2>2 DEF handle_xadd
  <1>2. ASSUME NEW c \in Clients, NEW reads \in Reads, handle_xread(c, reads)
        PROVE  AllSettled'
    <2>1. ASSUME NEW finite \in BOOLEAN, XreadBlocks(c, reads, finite)
          PROVE  AllSettled'
      <3>1. PICK i \in DOMAIN reads :
              /\ Stops(reads[i])
              /\ blocked_xread_keys' = [blocked_xread_keys EXCEPT ![reads[i].key] = @ \cup
                   {BlockedXreadClient(c, QueuedFrom(reads[i]), finite, tickets + 1,
                                       AskedBy(reads), i)}]
              /\ UNCHANGED <<store, write_buffer, open, armed, phase, eclipsed>>
        BY <2>1 DEF XreadBlocks, QueuedFrom, AskedBy
      <3> DEFINE r == reads[i]
                 b == BlockedXreadClient(c, QueuedFrom(r), finite, tickets + 1,
                                         AskedBy(reads), i)
      <3>2. r.key \in Keys /\ r.start \in Start
        <4>1. r \in [key : Keys, start : Start]
          BY AskedFacts
        <4> QED
          BY <4>1
      <3>3. b.asked[b.at].key = r.key /\ b.asked[b.at].start = Awaited(r)
        <4>1. AskedBy(reads)[i] = [key |-> r.key, start |-> Awaited(r)]
          BY AskedFacts
        <4>2. b.asked = AskedBy(reads) /\ b.at = i
          BY DEF BlockedXreadClient
        <4> QED
          BY <4>1, <4>2
      <3>4. /\ Stops(r) /\ entries' = entries
            /\ blocked_xread_keys' = [blocked_xread_keys EXCEPT ![r.key] = @ \cup {b}]
        BY <3>1 DEF store
      <3>5. IdsAfter(entries[r.key], Awaited(r)) = {}
        <4>1. CASE keyType[r.key] # "stream"
          BY <1>0, <3>2, <4>1 DEF EmptyUnlessStream
        <4>2. CASE keyType[r.key] = "stream" /\ r.start = Dollar
          <5>1. Awaited(r) = lastInsertStreamID[r.key]
            BY <4>2 DEF Awaited
          <5> QED
            BY <3>2, <5>1, NothingAfterLast
        <4>3. CASE keyType[r.key] = "stream" /\ r.start # Dollar
          <5>1. Awaited(r) = r.start
            BY <4>3 DEF Awaited
          <5> QED
            BY <3>4, <4>3, <5>1 DEF Stops, Found
        <4> QED
          BY <4>1, <4>2, <4>3
      <3> HIDE DEF b, r
      <3>6. \A j \in Keys : \A d \in blocked_xread_keys'[j] :
              d \in blocked_xread_keys[j] \/ (j = r.key /\ d = b)
        BY <3>2, <3>4 DEF Typed
      <3> QED
        BY <3>3, <3>4, <3>5, <3>6
    <2>2. CASE XreadReplies(c) \/ XreadOfMissingKey(c)
      BY <2>2 DEF XreadReplies, XreadOfMissingKey, store
    <2> QED
      BY <1>2, <2>1, <2>2 DEF handle_xread
  <1>3. ASSUME NEW c \in Clients, NEW k \in Keys, handle_set(c, k)
        PROVE  AllSettled'
    <2>1. /\ entries'[k] = <<>>
          /\ \A j \in Keys : j # k => entries'[j] = entries[j]
          /\ blocked_xread_keys' = blocked_xread_keys
      BY <1>3 DEF handle_set, Typed
    <2> QED
      BY <1>0, <2>1
  <1>4. ASSUME NEW k \in Keys, NEW S \in SUBSET blocked_xread_keys[k],
               check_and_expire_blocked_clients(k, S)
        PROVE  AllSettled'
    <2>1. \A j \in Keys : blocked_xread_keys'[j] \subseteq blocked_xread_keys[j]
      BY <1>4 DEF check_and_expire_blocked_clients, Typed
    <2>2. entries' = entries
      BY <1>4 DEF check_and_expire_blocked_clients, store
    <2> QED
      BY <2>1, <2>2
  <1>5. ASSUME UNCHANGED <<store, blocked_xread_keys>>
        PROVE  AllSettled'
    BY <1>5 DEF store
  <1> QED
    BY <1>1, <1>2, <1>3, <1>4, <1>5 DEF Next, handle_xrange, handleWrite, handleClose, vars

LEMMA MissedInductive ==
    ASSUME Typed, IdsIncrease, EmptyUnlessStream, NoEntryMissed, [Next]_vars
    PROVE  NoEntryMissed'
  <1>1. AllSettled
    BY SettledMissesNothing
  <1>2. AllSettled' /\ Typed'
    BY <1>1, SettledInductive, TypedInductive
  <1>3. Typed' => (AllSettled' <=> NoEntryMissed')
    BY SettledMissesNothing, PTL
  <1> QED
    BY <1>2, <1>3

-----------------------------------------------------------------------------
(* Flushes.                                                                *)

\* A reply to the client of the request arms it; nobody else's buffer moves.
LEMMA RespondFlushes ==
    ASSUME Typed, UnflushedOnlyIfEclipsed, NEW c \in Clients, NEW n \in Nat,
           Respond(c, n), eclipsed' = eclipsed
    PROVE  UnflushedOnlyIfEclipsed'
  BY RespondTyped DEF UnflushedOnlyIfEclipsed, Typed

\* XADD flushes its own client and the last one it unblocked, and marks the
\* others; every other handler flushes all those it answers.
LEMMA FlushInductive ==
    ASSUME Typed, UnflushedOnlyIfEclipsed, [Next]_vars
    PROVE  UnflushedOnlyIfEclipsed'
  <1>1. ASSUME NEW c \in Clients, NEW k \in Keys, NEW arg \in IdArgument,
               handle_xadd(c, k, arg)
        PROVE  UnflushedOnlyIfEclipsed'
    <2> DEFINE id == fromString(lastInsertStreamID[k], arg)
    <2>1. CASE XaddInserts(c, k, id)
      <3> DEFINE queue == blocked_xread_keys[k]
                 latest == {b \in queue : \A d \in queue : d.ticket <= b.ticket}
                 one    == [write_buffer EXCEPT ![c] = @ + 1]
                 buffer == Answer(queue, one)
      <3>1. /\ one \in [Clients -> Nat] /\ IsFiniteSet(queue)
            /\ \A d \in Clients : d # c => one[d] = write_buffer[d]
        BY DEF Typed
      <3>2. /\ write_buffer' = buffer
            /\ armed' = flush({c} \cup {b.client : b \in latest}, buffer)
            /\ eclipsed' = eclipsed \cup {b.client : b \in queue \ latest}
            /\ open' = open
        BY <2>1 DEF XaddInserts
      <3> HIDE DEF one
      <3>3. \A d \in Clients : d # c /\ (\A b \in queue : b.client # d) =>
              buffer[d] = write_buffer[d]
        BY <3>1, AnswerFacts
      <3> HIDE DEF buffer
      <3> QED
        BY <3>2, <3>3 DEF UnflushedOnlyIfEclipsed, flush, Typed
    <2>2. CASE XaddRefused(c, k, id)
      BY <2>2, RespondFlushes DEF XaddRefused, aux
    <2> QED
      BY <1>1, <2>1, <2>2 DEF handle_xadd
  <1>2. ASSUME NEW c \in Clients, NEW reads \in Reads, handle_xread(c, reads)
        PROVE  UnflushedOnlyIfEclipsed'
    <2>1. ASSUME NEW finite \in BOOLEAN, XreadBlocks(c, reads, finite)
          PROVE  UnflushedOnlyIfEclipsed'
      BY <2>1 DEF XreadBlocks, UnflushedOnlyIfEclipsed
    <2>2. CASE XreadReplies(c)
      BY <2>2, RespondFlushes DEF XreadReplies, aux
    <2>3. CASE XreadOfMissingKey(c)
      <3>1. CASE Respond(c, 2) /\ UNCHANGED <<store, blocked_xread_keys, aux>>
        BY <3>1, RespondFlushes DEF aux
      <3> QED
        BY <2>3, <3>1 DEF XreadOfMissingKey, UnflushedOnlyIfEclipsed, aux
    <2> QED
      BY <1>2, <2>1, <2>2, <2>3 DEF handle_xread
  <1>3. ASSUME NEW c \in Clients, NEW k \in Keys, handle_set(c, k)
        PROVE  UnflushedOnlyIfEclipsed'
    BY <1>3, RespondFlushes DEF handle_set, aux
  <1>4. ASSUME NEW c \in Clients, handle_xrange(c)
        PROVE  UnflushedOnlyIfEclipsed'
    BY <1>4, RespondFlushes DEF handle_xrange, aux
  <1>5. ASSUME NEW c \in Clients, handleWrite(c) \/ handleClose(c)
        PROVE  UnflushedOnlyIfEclipsed'
    <2>1. CASE handleWrite(c)
      <3>1. /\ write_buffer'[c] = 0
            /\ \A d \in Clients : d # c => write_buffer'[d] = write_buffer[d]
            /\ armed' = armed \ {c} /\ open' = open /\ eclipsed' = eclipsed
        BY <2>1 DEF handleWrite, Typed, aux
      <3> QED
        BY <3>1 DEF UnflushedOnlyIfEclipsed, Typed
    <2>2. CASE handleClose(c)
      BY <2>2 DEF handleClose, UnflushedOnlyIfEclipsed, aux
    <2> QED
      BY <1>5, <2>1, <2>2
  <1>6. ASSUME NEW k \in Keys, NEW S \in SUBSET blocked_xread_keys[k],
               check_and_expire_blocked_clients(k, S)
        PROVE  UnflushedOnlyIfEclipsed'
    <2> DEFINE buffer == Answer(S, write_buffer)
    <2>1. IsFiniteSet(S)
      BY FS_Subset DEF Typed
    <2>2. \A d \in Clients : (\A b \in S : b.client # d) => buffer[d] = write_buffer[d]
      BY <2>1, AnswerFacts DEF Typed
    <2>3. /\ write_buffer' = buffer /\ open' = open /\ eclipsed' = eclipsed
          /\ armed' = flush({b.client : b \in S}, buffer)
      BY <1>6 DEF check_and_expire_blocked_clients, aux
    <2> HIDE DEF buffer
    <2> QED
      BY <2>2, <2>3 DEF UnflushedOnlyIfEclipsed, flush, Typed
  <1>7. CASE UNCHANGED vars
    BY <1>7 DEF UnflushedOnlyIfEclipsed, vars, aux
  <1> QED
    BY <1>1, <1>2, <1>3, <1>4, <1>5, <1>6, <1>7 DEF Next

-----------------------------------------------------------------------------
(* The theorems.                                                           *)

\* The inductive invariant: the properties need the types, and that a key
\* without a stream has no entries.
IInv == Typed /\ IdsIncrease /\ EmptyUnlessStream /\ NoEntryMissed /\ UnflushedOnlyIfEclipsed

LEMMA IInvariant == Spec => []IInv
  <1>1. Init => IInv
    <2> SUFFICES ASSUME Init PROVE IInv
      OBVIOUS
    <2>1. Typed
      BY ConstantsAssumption, IdFacts, FS_EmptySet DEF Init, Typed
    <2>2. IdsIncrease /\ EmptyUnlessStream
      BY DEF Init, IdsIncrease, EmptyUnlessStream
    <2>3. NoEntryMissed /\ UnflushedOnlyIfEclipsed
      BY DEF Init, NoEntryMissed, UnflushedOnlyIfEclipsed
    <2> QED
      BY <2>1, <2>2, <2>3 DEF IInv
  <1>2. ASSUME IInv, [Next]_vars
        PROVE  IInv'
    BY <1>2, TypedInductive, IdsInductive, EmptyInductive, MissedInductive, FlushInductive DEF IInv
  <1> QED
    BY <1>1, <1>2, PTL DEF Spec

\* IDs increase in every stream, for any clock, any mixture of the three
\* forms of ID and any width of the sequence number: where fromString wraps
\* around, insert refuses.
THEOREM IdsAlwaysIncrease == Spec => []IdsIncrease
  BY IInvariant, PTL DEF IInv

\* A client sleeps in XREAD beside an entry it asked for only on a stream other
\* than the one it is queued for: for any number of streams in an XREAD, also
\* where it names one of them twice, of clients and of entries, nothing is
\* missed on the stream that handle_xread queues it for.
THEOREM NoReaderMissesAnEntry == Spec => []NoEntryMissed
  BY IInvariant, PTL DEF IInv

\* The one unblocked_client_fd of an XADD is the only way for a reply to stay
\* without a flush.
THEOREM UnflushedCharacterised == Spec => []UnflushedOnlyIfEclipsed
  BY IInvariant, PTL DEF IInv

=============================================================================
