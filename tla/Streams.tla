------------------------------ MODULE Streams -------------------------------
(***************************************************************************)
(* Streams: the generation and order of entry IDs (stream.cpp), XADD,      *)
(* XRANGE and XREAD, and the clients blocked in XREAD (db/XADD, db/XRANGE, *)
(* db/XREAD, the XREAD half of db.cpp's timeouts).                         *)
(*                                                                         *)
(* One step is one command run to its end, with the flushes that           *)
(* processClientRequest makes after it.  An entry is its ID; the radix     *)
(* tree that holds the entries is the subject of RadixTree.tla and appears *)
(* here as the sequence of IDs inserted.  The wall clock that XADD * reads *)
(* may show any time; the deadline of a blocked XREAD may have passed at   *)
(* any turn of the event loop.                                             *)
(***************************************************************************)
EXTENDS Naturals, Sequences, FiniteSets

CONSTANTS
    Clients,
    Keys,
    Reads,       \* XREAD arguments: sequences of [key, start]
    MaxMs,       \* largest millisecond part of an ID
    MaxSeq,      \* largest sequence part of an ID (2^64 - 1 in the code)
    MaxEntries,  \* bound: entries ever inserted into one stream
    MaxBlocks,   \* bound: XREADs that ever block
    MaxReplies   \* bound: buffered replies above which a client stays quiet

StreamID == [ms : 0 .. MaxMs, seq : 0 .. MaxSeq]

\* The start of an XREAD: an ID, or $.
Start == StreamID \cup {[dollar |-> TRUE]}

ASSUME ConstantsAssumption ==
    /\ {MaxMs, MaxSeq, MaxEntries, MaxBlocks, MaxReplies} \subseteq Nat
    /\ MaxSeq > 0
    /\ Reads \subseteq Seq([key : Keys, start : Start])

VARIABLES
    keyType,             \* store: RedisObject.type
    entries,             \* store: the IDs in the radix tree, as inserted
    lastInsertStreamID,  \* store: Stream::lastInsertStreamID
    blocked_xread_keys,  \* the BlockedXreadClients of each key, in ticket order
    write_buffer,        \* number of replies buffered for each client
    open,                \* connections still registered with epoll
    armed,               \* connections registered for EPOLLOUT
    phase,               \* "running", or "aborted" after an invalid access
    tickets,             \* auxiliary: XREADs that blocked so far
    eclipsed             \* auxiliary: clients unblocked along with a later one

store == <<keyType, entries, lastInsertStreamID>>
aux   == <<tickets, eclipsed>>
vars  == <<store, blocked_xread_keys, write_buffer, open, armed, phase, aux>>

Zero == [ms |-> 0, seq |-> 0]

Dollar == [dollar |-> TRUE]

\* finite: the client gave a timeout other than 0.  Auxiliary: asked, all the
\* pairs of its XREAD, and at, the place of the one it is queued for.
BlockedXreadClient(c, id, finite, ticket, asked, at) ==
    [client |-> c, stream_id |-> id, finite |-> finite, ticket |-> ticket,
     asked |-> asked, at |-> at]

Init ==
    /\ keyType = [k \in Keys |-> "none"]
    /\ entries = [k \in Keys |-> <<>>]
    /\ lastInsertStreamID = [k \in Keys |-> Zero]
    /\ blocked_xread_keys = [k \in Keys |-> {}]
    /\ write_buffer = [c \in Clients |-> 0]
    /\ open = Clients
    /\ armed = {}
    /\ phase = "running"
    /\ tickets = 0
    /\ eclipsed = {}

-----------------------------------------------------------------------------
(* Stream IDs.                                                             *)

isGreater(a, b) == a.ms > b.ms \/ (a.ms = b.ms /\ a.seq > b.seq)

\* The ID argument of XADD: *, ms-* or ms-seq.  For * the milliseconds are
\* those of the clock.
IdArgument ==
    [form : {"auto", "autoseq"}, ms : 0 .. MaxMs]
        \cup [form : {"explicit"}, ms : 0 .. MaxMs, seq : 0 .. MaxSeq]

\* Stream::fromString.  The sequence number wraps around at its width.
fromString(last, arg) ==
    [ms  |-> arg.ms,
     seq |-> CASE arg.form = "explicit" -> arg.seq
               [] arg.form = "auto"     -> IF last.ms = arg.ms THEN 1 ELSE 0
               [] arg.form = "autoseq"  -> IF last.ms = arg.ms
                                           THEN (last.seq + 1) % (MaxSeq + 1) ELSE 0]

\* Faulty variant of Accepted: only the milliseconds are compared.
AcceptedByMs(last, id) == id # Zero /\ (last # Zero => id.ms >= last.ms)

\* Stream::insert refuses 0-0 and any ID not above the last one.
Accepted(last, id) == id # Zero /\ (last # Zero => isGreater(id, last))

\* Stream::xrangeData from start, excluded, to the end: $ is not an ID that
\* fromStringForSearch can read.
IdsAfter(ids, start) ==
    IF start = Dollar THEN {}
    ELSE {id \in {ids[i] : i \in DOMAIN ids} : isGreater(id, start)}

-----------------------------------------------------------------------------
(* The reactor around a command.                                           *)

Readable(c) ==
    /\ phase = "running"
    /\ c \in open
    /\ write_buffer[c] < MaxReplies

\* TcpConnection::flush on the clients S once buffer is their write buffer.
flush(S, buffer) == armed \cup {c \in S \cap open : buffer[c] > 0}

\* The end of processClientRequest for a command that wrote n replies to c.
Respond(c, n) ==
    LET buffer == [write_buffer EXCEPT ![c] = @ + n]
    IN  /\ write_buffer' = buffer
        /\ armed' = flush({c}, buffer)
        /\ UNCHANGED <<open, phase>>

-----------------------------------------------------------------------------
(* Commands.                                                               *)

\* One reply for each of the blocked clients in S: the entries after its
\* start, or a null array.
Answer(S, buffer) ==
    [c \in Clients |-> buffer[c] + Cardinality({b \in S : b.client = c})]

\* Faulty variant of XaddInserts: as in a push, only the first client of the
\* queue is served.
XaddServesOne(c, k, id) ==
    /\ keyType[k] # "string"
    /\ Accepted(lastInsertStreamID[k], id)
    /\ Len(entries[k]) < MaxEntries
    /\ keyType' = [keyType EXCEPT ![k] = "stream"]
    /\ entries' = [entries EXCEPT ![k] = Append(@, id)]
    /\ lastInsertStreamID' = [lastInsertStreamID EXCEPT ![k] = id]
    /\ LET queue  == blocked_xread_keys[k]
           first  == {b \in queue : \A d \in queue : b.ticket <= d.ticket}
           buffer == Answer(first, [write_buffer EXCEPT ![c] = @ + 1])
       IN  /\ blocked_xread_keys' = [blocked_xread_keys EXCEPT ![k] = @ \ first]
           /\ write_buffer' = buffer
           /\ armed' = flush({c} \cup {b.client : b \in first}, buffer)
    /\ UNCHANGED <<open, phase, aux>>

\* XADD is accepted: the whole queue of the key is answered, and
\* unblocked_client_fd remembers the last of it.
XaddInserts(c, k, id) ==
    /\ keyType[k] # "string"
    /\ Accepted(lastInsertStreamID[k], id)
    /\ Len(entries[k]) < MaxEntries
    /\ keyType' = [keyType EXCEPT ![k] = "stream"]
    /\ entries' = [entries EXCEPT ![k] = Append(@, id)]
    /\ lastInsertStreamID' = [lastInsertStreamID EXCEPT ![k] = id]
    /\ LET queue  == blocked_xread_keys[k]
           latest == {b \in queue : \A d \in queue : d.ticket <= b.ticket}
           buffer == Answer(queue, [write_buffer EXCEPT ![c] = @ + 1])
       IN  /\ blocked_xread_keys' = [blocked_xread_keys EXCEPT ![k] = {}]
           /\ write_buffer' = buffer
           /\ armed' = flush({c} \cup {b.client : b \in latest}, buffer)
           /\ eclipsed' = eclipsed \cup {b.client : b \in queue \ latest}
    /\ UNCHANGED <<open, phase, tickets>>

\* XADD is refused: a key that did not exist stays behind as an empty stream.
XaddRefused(c, k, id) ==
    /\ \/ keyType[k] = "string"
       \/ ~Accepted(lastInsertStreamID[k], id)
    /\ keyType' = [keyType EXCEPT ![k] = IF @ = "none" THEN "stream" ELSE @]
    /\ Respond(c, 1)
    /\ UNCHANGED <<entries, lastInsertStreamID, blocked_xread_keys, aux>>

handle_xadd(c, k, arg) ==
    /\ Readable(c)
    /\ LET id == fromString(lastInsertStreamID[k], arg)
       IN  XaddInserts(c, k, id) \/ XaddRefused(c, k, id)

\* What XREAD finds for one pair of key and start.
Found(r) ==
    IF keyType[r.key] = "stream" THEN IdsAfter(entries[r.key], r.start) ELSE {}

\* The pairs at which a blocking XREAD stops: start $, no such key, or a
\* stream without newer entries.  A string is passed over.
Stops(r) ==
    \/ r.start = Dollar
    \/ keyType[r.key] = "none"
    \/ keyType[r.key] = "stream" /\ Found(r) = {}

\* The ID after which a pair asks for entries: $ is the last one there is.
Awaited(r) ==
    IF r.start # Dollar THEN r.start
    ELSE IF keyType[r.key] = "stream" THEN lastInsertStreamID[r.key] ELSE Zero

\* XREAD BLOCK: the first pair that stops blocks the client on that key
\* alone; what the pairs before it found is dropped, the pairs after it are
\* not looked at.
XreadBlocks(c, reads, finite) ==
    \E i \in DOMAIN reads :
        LET r     == reads[i]
            from  == IF r.start = Dollar /\ keyType[r.key] = "stream"
                     THEN lastInsertStreamID[r.key] ELSE r.start
            asked == [j \in DOMAIN reads |->
                        [key |-> reads[j].key, start |-> Awaited(reads[j])]]
        IN  /\ Stops(r)
            /\ \A j \in 1 .. i - 1 : ~Stops(reads[j])
            /\ tickets < MaxBlocks
            /\ tickets' = tickets + 1
            /\ blocked_xread_keys' = [blocked_xread_keys EXCEPT ![r.key] = @ \cup
                 {BlockedXreadClient(c, from, finite, tickets + 1, asked, i)}]
            /\ UNCHANGED <<store, write_buffer, open, armed, phase, eclipsed>>

\* XREAD that answers at once: the entries found, or an empty array.
XreadReplies(c) ==
    /\ Respond(c, 1)
    /\ UNCHANGED <<store, blocked_xread_keys, aux>>

\* XREAD without BLOCK of a key that is not in the store: an empty array is
\* written and then the end iterator is dereferenced (xread_db.cpp:138).
\* Either the access fails, or what is read there is no stream and the
\* command goes on to its own reply.
XreadOfMissingKey(c) ==
    \/ /\ phase' = "aborted"
       /\ UNCHANGED <<store, blocked_xread_keys, write_buffer, open, armed, aux>>
    \/ /\ Respond(c, 2)
       /\ UNCHANGED <<store, blocked_xread_keys, aux>>

handle_xread(c, reads) ==
    /\ Readable(c)
    /\ \/ \E finite \in BOOLEAN : XreadBlocks(c, reads, finite)
       \/ /\ \A i \in DOMAIN reads : keyType[reads[i].key] # "none"
          /\ XreadReplies(c)
       \/ /\ \E i \in DOMAIN reads : keyType[reads[i].key] = "none"
          /\ XreadOfMissingKey(c)

\* XRANGE reads only.
handle_xrange(c) ==
    /\ Readable(c)
    /\ Respond(c, 1)
    /\ UNCHANGED <<store, blocked_xread_keys, aux>>

\* SET replaces a stream; the clients blocked on it stay.
handle_set(c, k) ==
    /\ Readable(c)
    /\ keyType' = [keyType EXCEPT ![k] = "string"]
    /\ entries' = [entries EXCEPT ![k] = <<>>]
    /\ lastInsertStreamID' = [lastInsertStreamID EXCEPT ![k] = Zero]
    /\ Respond(c, 1)
    /\ UNCHANGED <<blocked_xread_keys, aux>>

-----------------------------------------------------------------------------
(* The reactor.                                                            *)

\* Faulty variant of check_and_expire_blocked_clients: nobody is flushed.
ExpireWithoutFlush(k, S) ==
    /\ phase = "running"
    /\ blocked_xread_keys' = [blocked_xread_keys EXCEPT ![k] = @ \ S]
    /\ write_buffer' = Answer(S, write_buffer)
    /\ UNCHANGED <<store, open, armed, phase, aux>>

\* A turn of the loop finds the blocked clients S past their deadlines.
check_and_expire_blocked_clients(k, S) ==
    /\ phase = "running"
    /\ blocked_xread_keys' = [blocked_xread_keys EXCEPT ![k] = @ \ S]
    /\ LET buffer == Answer(S, write_buffer)
       IN  /\ write_buffer' = buffer
           /\ armed' = flush({b.client : b \in S}, buffer)
    /\ UNCHANGED <<store, open, phase, aux>>

handleWrite(c) ==
    /\ phase = "running"
    /\ c \in armed
    /\ write_buffer' = [write_buffer EXCEPT ![c] = 0]
    /\ armed' = armed \ {c}
    /\ UNCHANGED <<store, blocked_xread_keys, open, phase, aux>>

handleClose(c) ==
    /\ phase = "running"
    /\ c \in open
    /\ open' = open \ {c}
    /\ armed' = armed \ {c}
    /\ UNCHANGED <<store, blocked_xread_keys, write_buffer, phase, aux>>

Next ==
    \/ \E c \in Clients :
         \/ \E k \in Keys, arg \in IdArgument : handle_xadd(c, k, arg)
         \/ \E reads \in Reads : handle_xread(c, reads)
         \/ handle_xrange(c)
         \/ \E k \in Keys : handle_set(c, k)
         \/ handleWrite(c)
         \/ handleClose(c)
    \/ \E k \in Keys : \E S \in SUBSET {b \in blocked_xread_keys[k] : b.finite} :
         S # {} /\ check_and_expire_blocked_clients(k, S)

Spec == Init /\ [][Next]_vars

-----------------------------------------------------------------------------
(* Properties.                                                             *)

\* The IDs of a stream increase strictly, whatever the clock shows, however
\* the IDs are asked for, and also where a sequence number wraps around;
\* 0-0 is never used, and the last ID is the one remembered
\* (Stream::fromString, Stream::insert).
IdsIncrease ==
    \A k \in Keys :
        /\ \A i, j \in DOMAIN entries[k] : i < j => isGreater(entries[k][j], entries[k][i])
        /\ \A i \in DOMAIN entries[k] : isGreater(entries[k][i], Zero)
        /\ entries[k] # <<>> => lastInsertStreamID[k] = entries[k][Len(entries[k])]

\* A stream holds an entry that the i-th pair of b's XREAD asked for.
Missed(b, i) == IdsAfter(entries[b.asked[i].key], b.asked[i].start) # {}

\* The exception: XREAD named several streams, and b is queued for another
\* pair than the i-th.
QueuedElsewhere(b, i) == Len(b.asked) > 1 /\ i # b.at

\* A client sleeps in XREAD beside an entry it asked for, on any of its
\* streams, only where it is queued for another one of them: an XREAD of
\* several streams is queued for the first that has nothing new, with what the
\* streams before it had dropped, and an XADD to any of the others does not
\* wake it.  On the stream it is queued for nothing is missed: not what came
\* before it blocked, nor what an XADD adds, nor what $ stood for
\* (handle_xread, handle_blocked_xread_clients).
NoEntryMissed ==
    \A k \in Keys : \A b \in blocked_xread_keys[k] :
        /\ b.asked[b.at].key = k
        /\ \A i \in DOMAIN b.asked : Missed(b, i) => QueuedElsewhere(b, i)

\* A reply stays without a flush only where one XADD unblocked several
\* XREADs and its client was not the last (handle_blocked_xread_clients,
\* processClientRequest).
UnflushedOnlyIfEclipsed ==
    \A c \in open : write_buffer[c] > 0 => c \in armed \cup eclipsed

=============================================================================
