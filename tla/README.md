# CarrotDB in TLA+

CarrotDB is an in-memory key-value server with Redis' protocol: one process, one
thread, an epoll reactor, blocking commands, transactions, publish/subscribe and
master/replica replication. This directory holds TLA+ models of its core, TLC
configurations that check them on small instances, and TLAPS proofs. Paths below
are relative to `src/src/`.

Run `tlc -config X.cfg M` for the runs listed in `PROJECT.json`, and `tlapm M.tla`
for the proofs, where `M` is `Induction` or one of the modules `...Proofs`.

## 1. Inventory

| Component | State | Operations | Interacts with |
|---|---|---|---|
| Reactor (`server.cpp`, `eventloop.cpp`, `connection.cpp`) | epoll registrations, `read_buffer`, `write_buffer`, the timeout of `epoll_wait` | `handleRead`, `handleWrite`, `flush`, `handleClose`, one turn of `Server::run` | calls the replication manager, then `DB::execute`; flushes the client of the request, *one* `unblocked_client_fd`, and `ready_to_write_clients` |
| Keyspace: strings, lists (`db/SET`, `GET_TYPE`, `INCR`, `PUSH`, `LPOP`, `BLPOP`) | `store`, `expiration`, `blocked_keys` | one handler per command, expiry of blocked clients | another client's push writes into a blocked client's buffer |
| Streams (`stream.cpp`, `radix-tree.cpp`, `db/XADD`, `XREAD`, `XRANGE`) | entries by ID in a radix tree, the last ID, `blocked_xread_keys` | insert, range search, blocking read | XADD answers every XREAD blocked on the key |
| Replication, master (`replication.cpp`) | `config.offset`, `slave_connections`, `replica_offset`, `blocked_wait_clients` | PSYNC, REPLCONF, WAIT, propagation | runs after each command of `DB::execute`; offsets against the replica's own count |
| Replication, replica (`slave-replication.cpp`, `master-connection.cpp`) | `replication_status`, `read_buffer`, `bytes_processed` | handshake, execution of the stream, ACK | byte stream from the master, cut anywhere |
| Transactions (`db/MULTI`, `EXEC`, `DISCARD`) | `flags`, `queued_commands` | queue, run, drop | EXEC runs the handlers of the other commands under its own `ClientContext` |
| Publish/subscribe (`db/PUBSUB`) | `pubsub_clients`, `total_subscribed_channels`, a flag | SUBSCRIBE, UNSUBSCRIBE, PUBLISH, the restricted mode | writes into other clients' buffers |
| Access control (`acl.cpp`, `db/ACL`) | shared `User` objects, `is_authenticated` | AUTH, ACL SETUSER, GETUSER, WHOAMI | sessions share a `User`; a new connection is the default user's |
| Sorted sets, geo (`sortedset.cpp`, `geohash.cpp`) | two indexes of the same members and a length; bit-interleaved scores | insert, remove, rank, range; encode, decode | propagated with six decimals |
| Listpack (`listpack.cpp`) | a byte array with encodings and backward lengths | append, prepend, delete, iterate, seek | stores the lists; its assertions can end the server |
| Parsers (`parser/`) | a read position | `Parse`, `parseCommand`, one parser per command | a command cut by a read, several in one read, bytes left over |
| RDB, I/O, configuration, sockets | files, options, descriptors | once at start | - |

What is hard about it: although nothing runs in parallel, callbacks of several
connections and timeouts interleave freely; replies are written by one client's
command into another client's buffer and need a flush of their own; the timeout
of `epoll_wait` is computed from queues that change in between; the byte stream
to a replica is cut at arbitrary places; and two processes count bytes separately
and compare the counts. The list `hazards` of `PROJECT.json` names these places
line by line, with the properties that watch them.

What makes each component correct:

- lists: a pushed value is delivered exactly once; nobody waits beside a value;
  every reply is flushed; timeouts are kept;
- streams: IDs increase; no reader sleeps beside an entry; range search is exact;
- WAIT: it counts only replicas that have the writes, ends in time, is flushed;
- replica: it executes the master's commands in order without a gap, whatever the
  reads, and ends up with the master's data;
- sessions: a queue lives as long as its transaction; subscriptions are counted;
  nobody is logged in as another user without a password;
- listpack and list commands: they behave as a sequence of texts, whatever the
  encodings;
- sorted sets: both indexes agree, reads fit together, and the replica has the
  same members in the same order;
- parsers and connection: what a client sends is executed once, in order, as sent.

Where the code does not meet such a statement, the model says precisely when: the
invariant carries the exception by name (`StrandedOnlyIfOverfed`, `...UnlessAhead`,
`...OnlyIfEclipsed`), which is stronger than either silence or a counterexample.

## 2. Modules

In every module a step is one callback of the reactor run to its end (command,
replies, flushes): the server is single-threaded and no handler yields.
Definitions keep the names of the functions they stand for; `map` in
`PROJECT.json` gives the lines. Variables marked *auxiliary* in a module record
history for the properties and influence no step. Definitions called *faulty
variant* are deliberate mutations, used only to show that a property can fail.

**BlockingList** - keyspace of strings and lists, BLPOP, expiration, event loop.
`blocked_keys[k]` is a set of entries ordered by `ticket` (a queue that also loses
entries in its middle, when they expire). `Request` has one action per command;
`handle_push` splits into `PushServes`, `PushStores`, `PushAborts` (the assertion
of `append_to_existing_list`). `phase` and `wake` model the loop: a callback sets
`phase` to `dispatch`; `EventsHandled` or `TimerFires` runs the expiry and computes
the next timeout from the *heads* of the queues, as `get_next_timeout_ms` does.
Left out: `DIRTY` (never read), the integer of INCR, BLPOP on several keys (the
handler looks at the first one only).

**BlockingListProofs**, **StreamsProofs**, **ReplicationProofs**, **SessionsProofs**,
**HandshakeProofs**, **SortedSetsProofs**, **RequestsProofs** - the theorems about these
modules (section 5). **Induction** - the induction they share.

**Replication**, **MCReplication** - propagation and WAIT. `stream[r]` is all that
was ever queued for replica `r`, `received[r]` how far it has come. A write is a
pair of lengths: what the client sent (added to `offset`) and what `to_resp`
produces (sent and counted by the replica); `GetackBytes` is counted by the replica
only. `process_commands` keeps the rule that any command behind GETACK in one read
empties the write buffer. Lost connections stay in `slave_connections`.

**Streams**, **MCStreams** - IDs, XADD, XREAD, XRANGE; `fromString` generates IDs
from any clock value, and sequence numbers wrap at their width. Deadlines of XREAD
are a flag: an entry with a finite one may expire at any time. XREAD takes any
number of streams; an entry of `blocked_xread_keys` also records, for the property
only, all the pairs that were asked for and which of them the client is queued for. The undefined
access of XREAD without BLOCK to a missing key is a choice between an abort and
a second reply.

**RadixTree** - insertion and range search as recursive operators over a tree of
edge labels, against the sorted list of keys.

**Handshake** - the replica's handshake, the RDB and the first commands, as a
stream of pieces that a read may cut anywhere: the FULLRESYNC line, the RDB's
length and the RDB are two halves each, which is all the code distinguishes.
`SkipRdb` is the PSYNC branch of `handle_handshake_read`, `ProcessCommands` the loop
of `process_commands` with the parser's treatment of a late RDB.

**Sessions**, **MCSessions** - MULTI, EXEC, DISCARD, publish/subscribe, BLPOP and
propagation together. A handler is an operator on a *session record* (database
and `ClientContext`), so that EXEC is a recursion over the queue (`RunQueue`) under
one context. SUBSCRIBE and PUBLISH inside EXEC read past the EXEC command
(`static_cast` of `c.command`): abort, or any channel. Access control is here too,
because what AUTH and ACL SETUSER do depends on the mode the session is in:
`users` is the map of `ACLManager`, `user` and `is_authenticated` the fields of a
client, `waiting` the clients that connect later (`onNewConnection`).

**Listpack** - the byte array as an algebra: a listpack is a record of its two
header fields, its structural bytes by offset, and its texts by the offset of
their first byte (the other bytes of a text are never looked at, so texts of
16 KB cost nothing). 64-bit integers are eight bytes. A failed assertion is the
pointer `Abort`. `NumUnknown` is the limit of the 16-bit count.

**Lists**, **MCLists** - RPUSH, LPUSH, LPOP, LLEN and LRANGE on one key, by the
operators of Listpack, one action per command.

**ListObject** - what those commands promise: a sequence of texts and the reply
to the last command. `Lists!ImplementsList` is the refinement: the sequence is
the one decoded from the bytes, `up` is `alive`. The abstract specification leaves
open only the number replied by a push once the count is saturated, and it lets
the server crash (when it may is the business of `AbortsOnlyOnWide`).

**Geohash** - `interleave64` and `deinterleave64` pass by pass on sets of bit
positions, encoding into cells and decoding, the rounding of a word that is too
long for a double, the printing of coordinates. `Step` is 26 in the code and `Width`,
the bits of a word, 64; `Word` and `Value` convert between numbers and words.

**SortedSets**, **MCSortedSets** - class `SortedSet` and the handlers as operators
on an object, for a master and a replica that executes what `to_resp` prints.
Scores and coordinates are integers in thirds of the printed resolution, so that
rounding in both directions and without ties occurs; members are numbers that
stand in for the order of strings. `InOrder` is the order in which `std::set`
iterates. The link is one step: delivery in order is
shown in Handshake.

**CommandParser** - `Parser::Parse`, the 39 command parsers and `parseCommand` as
functions from a buffer to a command and the rest of the buffer. A buffer is
a sequence of headers, texts and line breaks, which is where the parsers can tell one
cut from another: inside a header or a line break a cut has the effect of one of its
ends, and inside a text that of a cut before the part that comes late. Where a
token is expected a text counts by its own characters: `Opens` names the texts that
look like headers (`*` and `$`, of KEYS, XADD, XREAD and GETACK) and what they are taken
for; every other text is an unknown token.
Combinators (`Must`, `Maybe`, `Until`, `Group`, `Repeat`) name the four ways in which
the parsers treat a token of the wrong type; each parser is one line or a few.

**Requests**, **MCRequests** - one client and its connection: requests sent and
encoded, reads that take any prefix of what is under way, one command parsed per
read, the end of the stream. `Binary` gives for each text with a carriage return in
it the bytes that are left where a token is expected: letters, a header, a whole
request. `torn`, `astray` and `coalesced` record what kind of reads happened.

The modules overlap on purpose at the reactor (`flush`, `Respond`, `handleWrite`,
`handleClose`): each carries the part of it that its questions need.

## 3. Runs

Every run is exhaustive within its bounds and takes at most a few minutes with two workers.

| Run | Question | Bounds |
|---|---|---|
| `blocking` | are values delivered exactly once, replies flushed, deadlines kept? | 2 clients, 1 key, 3 values, pushes of 1 or 2 values, 2 blocking BLPOPs, time 0..2 |
| `wait_timeouts` | are WAITs timed, counted and flushed as claimed? | 2 clients, 1 replica, 2 writes (SET, and ZADD, longer after `to_resp`), 2 WAITs, 1 tick |
| `wait_count` | the counting with two replicas, one possibly late | 1 client, 2 symmetric replicas, 2 writes, WAITs for 1 or 2 |
| `streams` | IDs, missed entries, flushes | 2 clients, 2 streams, 2 entries, all ID forms, 2 blocking XREADs over 1 or 2 keys |
| `radix_tree` | does range search agree with a sorted list? | all increasing sequences of 3 keys of 3 ternary digits, all ranges |
| `handshake` | what does the replica execute, for all cuts? | 4 commands, all cuts |
| `transactions` | when do replica and master differ, when is a flush lost? | 2 symmetric clients, 2 values, 2 queued commands, 2 in flight |
| `subscriptions` | are counts, queues and logins consistent? | 2 clients, one connecting late, 2 channels, 2 subscriptions each, 2 users, 1 password, 1 queued command |
| `lists` | do the list commands on bytes implement a sequence? | up to 5 elements, one of them any of 28 boundary texts; count saturated at 4 |
| `sorted_sets` | do indexes, reads and replica agree? | 2 members and the empty one, 4 scores within two printed steps, 24 GEOADD triples on and off the edges, 2-bit cells in 16-bit words |
| `requests` | is what a client sends executed? | every command once (KEYS, XADD, XREAD, GETACK with texts that look like headers), 6 refused and 8 over-long or binary requests, followed by PING; all cuts between pieces |
| `handshake_completes` | what a comment says, refuted | 1 command |

Why these bounds are enough for what they show: every exception named in an
invariant needs at most two waiters and one command acting on both; two values
distinguish the value served from the value stored; a second WAIT is needed for
the drift of offsets (the first GETACK moves the replica's count); three ternary
digits give radix-tree splits at the root, in the middle and at the end of an
edge. A list of five elements has a first and a second half for `lpSeek`, passes
the limit of the count and comes back below it, and one special element meets
plain ones on both sides; the special texts are the two sides of every limit of
the six integer widths, the three text headers and the backward lengths of one,
two and three bytes. Backward lengths of four and five bytes (texts of 2 MB) are
in the operators and not in the run. Two requests are enough for a connection:
the second one shows what the first left behind. The guards that impose bounds (`MaxTime`, `MaxValue`, `MaxReplies`, ...) only
stop clients and clock; no handler's behaviour depends on them. `CHECK_DEADLOCK` is
off because clients may fall silent and the bounds end every behaviour.
Symmetry is used only in runs without liveness properties.

**What the passing runs show**

- `ExactlyOnce`: no interleaving of pushes, pops, timeouts and disconnections
  duplicates or loses a value. (A value handed to a connection that is already
  gone stays in its buffer: it is not given to the next waiter.)
- `RepliesArmed`: in the list module no reply lacks its flush. In the others one
  can: `UnflushedOnlyIfEclipsed` (one ACK or one XADD unblocks several clients,
  `unblocked_client_fd` keeps the last), `UnflushedOnlyByExec` (two pushes in one
  EXEC, or a BLPOP in EXEC that blocks the reply of EXEC itself).
- `StrandedOnlyIfOverfed`: a client waits beside elements only if one push with
  several values met several waiters.
- `OversleepsOnlyShadowed`, `TimeoutAnswered`: timeouts of BLPOP are kept except
  behind a later deadline in the same queue. WAIT has no such exception
  (`WaitWakesInTime`, `WaitTimeoutAnswered`).
- `AcksOrdered`, `CountedUnlessAhead`: ACKs never claim too much *in the replica's
  count*; WAIT miscounts only because that count includes GETACKs and re-encoded
  writes. `WaitNotForgotten`: a WAIT hangs only for the reasons in its comment.
- `IdsIncrease`, `RangeExact`, `TreeCompact`. `NoEntryMissed`: on the stream it is
  queued for, a client never sleeps beside an entry it asked for. The exception,
  `QueuedElsewhere`, is XREAD BLOCK of several streams: it is queued for the first one
  without news, what the streams before it had is dropped, and an XADD to another
  one does not wake it.
- `ExecutesPrefix`, `SyncedUnlessBadCut`: the replica never executes garbage nor
  leaves a gap; it executes everything, or nothing at all if a read ended inside
  the RDB, or at the FULLRESYNC line without another ending at the RDB's end.
- `ReplicaAgrees`: apart from joining late, from writes inside EXEC, from blocking
  pops and from writes refused to a subscriber (which are propagated all the
  same), the replica ends up with the master's data.
- `SubscriptionsCounted`, `QueuesBelongToTransactions`.
- `LoginsNeedPasswords`: although a new connection and AUTH treat a user without
  passwords differently, no order of creating users, setting passwords, connecting
  and logging in makes a session another user's without a password.
- `ImplementsList`, `IntegrityKept`, `BackwardMirrorsForward`: bytes and sequence
  agree after every command, forwards and backwards, and `lpValidateIntegrity`,
  which nothing calls, would accept them. `AbortsOnlyOnWide`: the only thing that
  fails an assertion is a 64-bit integer, for which `lpCurrentEncodedSizeBytes` has
  no case.
- `IndexesAgree`, `ReadsAgree`: hash map, ordered set and length never drift apart,
  and ZCARD, ZSCORE, ZRANK and ZRANGE tell one story.
- `ReplicaSameMembers`, `ReplicaSameOrder`: rounding to six decimals can reverse
  only scores closer than that, and changes membership only where a GEOADD lies
  within the rounding of the edge of the map.
- `GeoRoundTrip`: GEOPOS, GEODIST and GEOSEARCH find a member where GEOADD put it,
  except on longitude 180, whose cell does not fit into a double.
- `ExecutesWhatWasSent`: with reads that end between requests every parser takes
  its own arguments and leaves the rest alone. `NeverRecovers`: after a read that
  ended inside a request, or a request with more arguments than its parser takes,
  no command of that connection is executed; it only gets replies. There are
  two exceptions. `TextFirst`: the bytes to parse come to begin with a text that
  looks like a header. If a read ends before the `*` of KEYS, that text alone is an
  array without a name, the buffer is cleared, and the next request is executed; of
  `XADD key * GET v` the field is even executed as a command. `TokenInBinary`: a
  token begins in the rest of a binary text, which may be a whole request.
  `EveryRequestAnswered`: there is a reply for every request unless two arrived in
  one read (then the second waits for the next read) or the client hung up.

**The violation run** `handshake_completes` shows that a read that ends inside the
RDB leaves the replica in its handshake for ever, because the FULLRESYNC line was
erased before "wait for more data". The other `findings` are stated with the passing
run whose invariant bounds them: `get_next_timeout_ms` looks at queue heads only
(`OversleepsOnlyShadowed`); RPUSH on a string key fails an assertion (`PushAborts`);
WAIT may count a replica that lacks the last write (`CountedUnlessAhead`); a 64-bit
integer in a list fails an assertion (`AbortsOnlyOnWide`).

## 4. Fairness

Three properties of passing runs are liveness properties. `TimeoutAnswered` and
`WaitTimeoutAnswered` assume weak fairness of `Tick` (the clock advances), `TimerFires` (`epoll_wait` returns when its
timeout has passed) and `EventsHandled` (a batch of at most 64 events is worked off
and `Server::run` goes round). Nothing is assumed of clients, replicas or
connections: a client may never send, read or close. `EveryRequestAnswered` assumes
weak fairness of `Readable` only: the registration is edge-triggered, but
`handleRead` reads until `read` would block, so what it has not taken arrived later
and raises an event of its own, and the loop always comes back to `epoll_wait`. It
does not assume how much a read takes. `HandshakeCompletes` assumes in
addition that both processes run: requests are sent and answered, and what has
arrived is read. Even so it fails.

## 5. Proofs

The theorems are of the form `Spec => []P`, for *every* value of the constants: any
sets of clients, keys, channels, users, replicas and members, any timeouts, any
widths and any bounds. The assumptions are those the modules state and TLC
evaluates: bounds are numbers, sets of numbers contain numbers, a push has at least
one value, the sequence numbers of stream IDs have at least one bit
(`MaxSeq > 0`), the arguments of ZADD, ZREM and GEOADD are sequences of pairs,
members and triples (`ListsAssumption`), cell numbers have at most the 26 bits of
the code and two of them with two bits to spare fit into a word of at most 64
(`StepAssumption`, `WidthAssumption`). Texts that look like headers look like one of
an array or a bulk string (`OpensAssumption`), and the rest of a binary text is made
of pieces with a carriage return behind each (`BinaryAssumption`). `ProperAssumption` and `RefusedAssumption` of
Requests say which requests the constants `Proper` and `Refused` name: the ones
that their parser takes whole when nothing but the start of another request
follows, and the ones that it refuses without leaving a byte. TLC evaluates both
for every request of the run, that is, for every command of the server.

| Module | Theorem | Property |
|---|---|---|
| BlockingListProofs | `TypeCorrect` | `TypeOK`; with it, only live connections are armed |
| | `ExpirationSound` | `OnlyStringsExpire`: the iterator erased by GET or TYPE is valid |
| | `EveryReplyArmed` | `RepliesArmed` |
| | `StrandingCharacterised` | `StrandedOnlyIfOverfed` |
| | `SleepBounded` | `OversleepsOnlyShadowed` |
| | `DeliveredOnce` | `ExactlyOnce` |
| StreamsProofs | `IdsAlwaysIncrease` | `IdsIncrease` |
| | `NoReaderMissesAnEntry` | `NoEntryMissed` |
| | `UnflushedCharacterised` | `UnflushedOnlyIfEclipsed` |
| ReplicationProofs | `TypeCorrect` | `TypeOK` |
| | `AcksComeInOrder` | `AcksOrdered` |
| | `CountedReplicasHaveWrites` | `CountedUnlessAhead` |
| | `NoWaitForgotten` | `WaitNotForgotten` |
| | `LoopWakesInTime` | `WaitWakesInTime` |
| | `OnlyEclipsedUnflushed` | `UnflushedOnlyIfEclipsed` |
| SessionsProofs | `TypeCorrect` | `TypeOK` |
| | `ReplicasAgree` | `ReplicaAgrees` |
| | `RepliesFlushed` | `UnflushedOnlyByExec` |
| | `CountsAreRight` | `SubscriptionsCounted` |
| | `QueuesNeedMulti` | `QueuesBelongToTransactions` |
| | `PasswordsNeeded` | `LoginsNeedPasswords` |
| HandshakeProofs | `CommandsInOrder` | `ExecutesPrefix` |
| | `SyncDecidedByCuts` | `SyncedUnlessBadCut` |
| SortedSetsProofs | `IndexesNeverDrift` | `IndexesAgree` |
| | `ReplicaHasMembers` | `ReplicaSameMembers` |
| | `ReplicaKeepsOrder` | `ReplicaSameOrder` |
| | `ReadsAlwaysAgree` | `ReadsAgree` |
| | `PlacesRoundTrip` | `GeoRoundTrip` |
| RequestsProofs | `StreamInvariant` | the inductive invariant `IInv` |
| | `NeverRecoversHolds` | `NeverRecovers` |
| | `ExecutesWhatWasSentHolds` | `ExecutesWhatWasSent` |

Each module has an inductive invariant `IInv` and one inductive lemma per conjunct,
with a step for every action that can disturb it.

**BlockingList.** `IInv` adds three conjuncts. `ListsOnly`: only a key of type
list has elements; without it, INCR or SET on a key with waiters could be followed
by an unexplained non-empty list. `QueuesOrdered`: tickets in a queue are distinct
and at most `tickets`; without it "the head of the queue" need not be unique, and a
newcomer could be sorted in front. `ValuesInPlace`: the values in the lists, those
in the buffers and those gone are a partition of all pushed so far, and no sequence
holds one twice; `ExactlyOnce` counts places, which is not inductive by itself,
because a step moves a *set* of values from one place to another (`HandedOver` and
three more such moves). `SleepBounded` also needs that a non-empty queue has a head
(`FrontExists`): when the loop goes to sleep, an entry is either not earlier than
the head, which bounds `wake`, or is shadowed by the head (`TurnSetsTimeout`); until
the loop wakes no queue changes (`OversleepInductive`).

**Streams.** `IInv` adds that a key that is no stream has no entries: XREAD queues a
client on a missing key, and the stream that appears there later must start empty.
`IdsIncrease` rests on `insert` refusing what is not greater than the last ID, not on
`fromString`, whose sequence number wraps. `NoEntryMissed` is proved in the form
`Settled`: the pair a client is queued for is one of those it asked for, names that
key and has nothing behind its start; the exception leaves exactly this to prove
(`SettledMissesNothing`). That an XADD answers a finite number of
clients is part of the types.

**Replication.** `WaitWakesInTime`, `AcksOrdered` and the flushes are inductive with
the types. `WaitNotForgotten` needs `StillShort` (too few replicas have *acknowledged*
the offset of a blocked WAIT, which every ACK re-establishes by unblocking),
`LastAck` (if the last command a replica took is a GETACK, the last ACK on the way
answers it) and `Unregistered` (nothing has passed to or from a replica that did not
join). `CountedUnlessAhead` compares two counts that are never in one place: the
master's offset and the bytes a replica has processed. The proof gives each replica
a *timetable* (`Scheduled`): a function from positions in its stream to how far the
master's offset had moved when the command was queued. It grows by what each command moved the
offset, and a replica that is not ahead never acknowledges more than the timetable
says for what it has received; since every write moves the offset (`WritesMove`), an
acknowledgement of the whole offset leaves no write outstanding.

**Sessions.** `Follows(s, t, c, ch)` says what a handler may do to a session; it is
proved for each handler and then, by induction over the queue, for EXEC. `IInv` is
`ServerInv` (types; values numbered in the order of pushes; waiting clients have no
state; the counter of subscriptions; the flushes), `QueuesBelongToTransactions`,
`ReplicaInv` (the commands on their way to the replica can be executed there, and
executing them gives the master's list) and `AccessInv`: besides
`LoginsNeedPasswords`, that only the default user ever needs no password.
`ReplicaAgrees` needs that executing a sequence and then one more command is
executing the longer sequence (`Replay`), again by induction.

**Handshake.** The invariant is a case distinction over what the reads have done so
far: `Early` (one message is on its way in the handshake), or `Late`, where pieces in
flight continue the pieces read and the replica is in one of six modes: `NoLine`,
`LineLost` (the FULLRESYNC line was erased before "wait for more data"), `AtLine`
(the handshake completed at the end of the line), `RdbCut`, `Stuck` (the head of the
buffer can never be parsed) and `InStep` (all that was read has been executed). Each
mode fixes which cuts have happened. Once everything sent has been read only three
modes are left: `LineLost` and `Stuck`, where a cut was bad and no command is ever
executed, and `InStep`, where none was and all have been.

**SortedSets.** `Sound` ties hash map, ordered set and length to one another;
`insert` and `remove` keep it, and by induction over the arguments so do ZADD and
ZREM with any number of them. The replica is `Copy` of the master: the same members
and, as long as no GEOADD touched the object, the printed scores. That printing
is monotone at its resolution (`Printed`) gives the order.

`ReadsAgree` is about the order in which `std::set` iterates. That an ordered
sequence of the entries exists and is unique is proved by counting: the rank of an
entry is the number of entries before it (`Below`), ranks are different and fill
`0 .. length - 1` (`BelowFacts`, `InOrderExists`), so the sequence that `InOrder` chooses
is the one `rank` counts in (`RankFacts`) and `range` cuts from (`RangeFacts`). Both need
that members and scores are comparable, the first half of a second inductive
invariant, `PInv`.

`GeoRoundTrip` needs its other half, `PlacesKept`: a member with a known place has
the geohash of that place as its score, until ZADD, ZREM or another GEOADD names it.
Behind it are three facts for every place allowed. Each pass of `interleave64`
moves the bits of a cell number apart without losing or merging one (`Spread4` to
`Spread0`: a lemma for each pass, in terms of where bit i is), and the passes of
`deinterleave64` move them back (`Gather1` to `Gather5`). `Word` and `Value` undo each
other below the width (`WordOfValue`, `ValueOfWord`). And the geohash has
`2 * Step + 1` bits, which a double holds, unless the longitude is the greatest
(`EncodeFacts`, `ScoreRoundTrip`).

**Requests.** What must be shown of each of the 39 parsers is that it is *local*: if it
takes a request whole with the start of another behind it, it takes it whole with
anything behind it (`ParseLocal`). A parser sees the buffer only through the
combinators, so this is proved once for each combinator, for two runs of a parser on
two buffers that agree up to the end of the request (`Same`): as long as both are in
front of that end they do the same, and a parser that reads past it leaves less
than the start of a request, which a proper one does not. `IInv` is about
buffer and wire taken together: every bulk header in them has a text between two line
breaks (`Aligned`), and while the connection is `astray`, that is, from a torn request
until the bytes to parse begin with a text that looks like a header, they do not begin with
an array header (`Lost`). Both are claimed as long as no token begins in the rest of a
binary text: such a header need not have a text. The property alone is not inductive: that the bytes stay lost depends on
what the parser erases, which `Aligned` bounds (`RestFacts`: from a lost buffer it erases
nothing, or a bulk header and its text, whose line break then leads the bytes). What a
lost buffer gives is always the unknown command, unless a text that looks like a
header leads it. `ExecutesWhatWasSent` is inductive with
`IInv`, because it says exactly which bytes are left: the encodings of the requests
not yet executed.

**Induction over data.** `Induction` derives from the well-foundedness of the
naturals an induction principle for *sets* (`SetInduction`, `BoundedInduction`), which
can be cited like any fact: the set of positions at which a claim holds contains 0
and is closed under successor. Recursive functions over the positions of a sequence
exist by the same argument (`RecursionExists`), so `RunQueue`, `Replay`, `InsertAll`,
`RemoveAll` and the parser of GEOADD can be reasoned about for every length.

Model-checked only:

- liveness (`TimeoutAnswered`, `WaitTimeoutAnswered`, `EveryRequestAnswered`,
  `HandshakeCompletes`): fairness and ENABLED are out of the prover's reach;
- `RangeExact`, `TreeCompact` of RadixTree: its operators are recursive over trees;
- `ImplementsList`, `IntegrityKept`, `BackwardMirrorsForward`, `AbortsOnlyOnWide` of
  Lists: the walks and conversions of Listpack at the level of bytes.

## 6. Not modelled

- Partial writes: `handleWrite` keeps what `write` did not take and stays armed; to
  every property here that is one longer write.
- KEYS, INFO, CONFIG GET, ECHO, ACL GETUSER: they only read and format; their
  parsing is modelled.
- The replica's own clients: a propagated push may answer one and nothing flushes
  it (listed as a hazard).
- Conversions between texts and floating-point numbers beyond their rounding, NaN
  and negative scores; the arc length of `calculateDistance`.
- RDB loading, files, sockets, option parsing: sequential I/O at start, without
  another actor; only a local file is read.
- `RadixTree::search`, `DB::signal_key_ready`, `lpInsert` after or in place of an
  entry, `lpSafeToAdd`: no caller.
- Reads that end inside a text: the late part is then at the head of the buffer, as
  a whole text is after a read that ends before it, but it may look like a header
  where the whole does not.
- Control flow of single handlers that no document takes a position on is in the
  models without a property: XREAD without BLOCK of a missing key (an invalid
  access), a push to a key of another type (a failed assertion), GEOSEARCH around a centre outside the map (taken for cell zero), AUTH
  and ACL SETUSER inside a transaction (PONG, no effect), ACL SETUSER propagated
  without its arguments (the replica has no such user).

## 7. Plan

1. Proofs about Lists: that an encoded entry decodes to its text for every width, from
   which `ImplementsList` follows by induction over the entries.
2. Refinement of BlockingList to an abstract queue with waiting clients, provable
   from `ValuesInPlace` and `QueuesOrdered`.
3. A composition of the replica's own reactor with the replication stream.
