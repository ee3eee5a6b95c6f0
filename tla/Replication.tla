---------------------------- MODULE Replication -----------------------------
(***************************************************************************)
(* Replication and WAIT: a master (replication.cpp, driven by server.cpp), *)
(* its clients, and replicas (slave-replication.cpp, master-connection.cpp)*)
(* joined to it by reliable FIFO byte streams.                             *)
(*                                                                         *)
(* A replica enters with its PSYNC already answered.  What a command does  *)
(* to the data set is left out: only the bytes it takes matter to WAIT.    *)
(* On the wire a command is a record: its bytes, as to_resp encodes them,  *)
(* and (history) how far it moved the master's offset.  The replica takes  *)
(* commands one at a time; where one read ends and the next begins is left *)
(* open, because the master sees nothing of a replica but its ACKs.        *)
(***************************************************************************)
EXTENDS Naturals, Sequences, FiniteSets

CONSTANTS
    Clients,
    Replicas,
    Writes,       \* write commands, as <<bytes received, bytes of to_resp>>
    GetackBytes,  \* length of REPLCONF GETACK *
    Needs,        \* numbers of replicas a WAIT may ask for
    Timeouts,     \* timeouts a WAIT may ask for; 0 asks to wait for ever
    MaxTime,      \* bound: last tick of the clock
    MaxWrites,    \* bound: writes ever propagated
    MaxWaits,     \* bound: WAITs that ever block
    MaxReplies    \* bound: buffered replies above which a client stays quiet

ASSUME ConstantsAssumption ==
    /\ Writes \subseteq (Nat \ {0}) \X (Nat \ {0})
    /\ GetackBytes \in Nat \ {0}
    /\ Needs \subseteq Nat
    /\ Timeouts \subseteq Nat
    /\ {MaxTime, MaxWrites, MaxWaits, MaxReplies} \subseteq Nat

VARIABLES
    offset,                \* master: ServerConfig::offset
    slave_connections,     \* master: connections registered by PSYNC
    replica_offset,        \* master: Client::replica_offset of each replica
    read_buffer,           \* master: ACKs read from a replica, not yet parsed
    blocked_wait_clients,  \* master: the BlockedWaitClients, in ticket order
    write_buffer,          \* master: number of replies buffered per client
    open,                  \* connections alive, of clients and of replicas
    armed,                 \* clients registered for EPOLLOUT
    phase,                 \* master: in epoll_wait or in a batch of events
    wake,                  \* master: when epoll_wait gives up waiting
    now,                   \* steady_clock
    stream,                \* all commands ever queued for each replica
    received,              \* replica: number of commands taken from stream
    bytes_processed,       \* replica: SlaveReplicationClient::bytes_processed
    ack,                   \* replica: the ACK in its write_buffer, if any
    to_master,             \* ACKs in flight
    writes,                \* auxiliary: writes propagated so far
    tickets,               \* auxiliary: WAITs that blocked so far
    eclipsed               \* auxiliary: clients unblocked along with a later one

waiting == <<blocked_wait_clients, tickets, eclipsed>>
loop    == <<phase, wake, now>>
replica == <<received, bytes_processed, ack>>
master  == <<offset, slave_connections, replica_offset, read_buffer, writes>>
vars    == <<master, waiting, write_buffer, open, armed, loop, stream,
             replica, to_master>>

Never == MaxTime + 1

BlockedWaitClient ==
    [client : Clients, timeout_at : 0 .. Never, num_replicas_needed : Nat,
     master_offset : Nat, ticket : 1 .. MaxWaits]

Command == [kind : {"write", "getack"}, bytes : Nat, moved : Nat]

TypeOK ==
    /\ offset \in Nat
    /\ slave_connections \subseteq Replicas
    /\ replica_offset \in [Replicas -> Nat]
    /\ read_buffer \in [Replicas -> Seq(Nat)]
    /\ blocked_wait_clients \subseteq BlockedWaitClient
    /\ write_buffer \in [Clients -> Nat]
    /\ open \subseteq Clients \cup Replicas
    /\ armed \subseteq open \cap Clients
    /\ phase \in {"waiting", "dispatch"}
    /\ wake \in 0 .. Never
    /\ now \in 0 .. MaxTime
    /\ stream \in [Replicas -> Seq(Command)]
    /\ received \in [Replicas -> Nat]
    /\ \A r \in Replicas : received[r] <= Len(stream[r])
    /\ bytes_processed \in [Replicas -> Nat]
    /\ ack \in [Replicas -> Seq(Nat)]
    /\ \A r \in Replicas : Len(ack[r]) <= 1
    /\ to_master \in [Replicas -> Seq(Nat)]
    /\ writes \in 0 .. MaxWrites
    /\ tickets \in 0 .. MaxWaits
    /\ eclipsed \subseteq Clients

Init ==
    /\ offset = 0
    /\ slave_connections = {}
    /\ replica_offset = [r \in Replicas |-> 0]
    /\ read_buffer = [r \in Replicas |-> <<>>]
    /\ blocked_wait_clients = {}
    /\ write_buffer = [c \in Clients |-> 0]
    /\ open = Clients \cup Replicas
    /\ armed = {}
    /\ phase = "waiting"
    /\ wake = Never
    /\ now = 0
    /\ stream = [r \in Replicas |-> <<>>]
    /\ received = [r \in Replicas |-> 0]
    /\ bytes_processed = [r \in Replicas |-> 0]
    /\ ack = [r \in Replicas |-> <<>>]
    /\ to_master = [r \in Replicas |-> <<>>]
    /\ writes = 0
    /\ tickets = 0
    /\ eclipsed = {}

-----------------------------------------------------------------------------
(* The reactor around a command of the master.                             *)

\* One callback of a batch of events reported by epoll_wait.
Dispatching ==
    /\ phase' = "dispatch"
    /\ wake' = Never
    /\ UNCHANGED now

Readable(c) == c \in open /\ write_buffer[c] < MaxReplies

\* Faulty variant of flush: removed descriptors are armed as well.
FlushClosed(S, buffer) == armed \cup {c \in S : buffer[c] > 0}

\* TcpConnection::flush on the clients S once buffer is their write buffer.
flush(S, buffer) == armed \cup {c \in S \cap open : buffer[c] > 0}

\* The end of processClientRequest for a command that answered c at once.
Respond(c) ==
    LET buffer == [write_buffer EXCEPT ![c] = @ + 1]
    IN  /\ write_buffer' = buffer
        /\ armed' = flush({c}, buffer)
        /\ Dispatching

-----------------------------------------------------------------------------
(* The master's handlers.                                                  *)

\* The replica's bytes go into every registered connection, dead or alive,
\* and every one is flushed.
Queue(cmd) ==
    stream' = [r \in Replicas |-> IF r \in slave_connections
                                  THEN Append(stream[r], cmd) ELSE stream[r]]

\* The first PSYNC of a connection registers it, whatever was written
\* before; the offset it is told is 0.
handle_psync(r) ==
    /\ r \in open \ slave_connections
    /\ slave_connections' = slave_connections \cup {r}
    /\ Dispatching
    /\ UNCHANGED <<offset, replica_offset, read_buffer, writes, waiting,
                   write_buffer, open, armed, stream, replica, to_master>>

\* A write command: the offset grows by the bytes the client sent, the
\* replicas are sent the bytes of to_resp.  Without replicas the offset
\* stands still.
propagateAndNotifySlaves(c, w) ==
    /\ Readable(c)
    /\ IF slave_connections = {}
       THEN UNCHANGED <<offset, writes, stream>>
       ELSE /\ writes < MaxWrites
            /\ writes' = writes + 1
            /\ offset' = offset + w[1]
            /\ Queue([kind |-> "write", bytes |-> w[2], moved |-> w[1]])
    /\ Respond(c)
    /\ UNCHANGED <<slave_connections, replica_offset, read_buffer, waiting,
                   open, replica, to_master>>

\* The registered replicas whose last ACK, in offsets, has reached goal.
Acked(offsets, goal) == {r \in slave_connections : offsets[r] >= goal}

\* WAIT answered at once: nothing was ever propagated, or enough replicas
\* have acknowledged the present offset.
WaitReplies(c, n) ==
    /\ offset = 0 \/ Cardinality(Acked(replica_offset, offset)) >= n
    /\ Respond(c)
    /\ UNCHANGED <<stream, waiting>>

\* WAIT blocks: every replica is asked for its offset.
WaitBlocks(c, n, timeout) ==
    /\ offset # 0
    /\ Cardinality(Acked(replica_offset, offset)) < n
    /\ tickets < MaxWaits
    /\ now + timeout <= MaxTime
    /\ Queue([kind |-> "getack", bytes |-> GetackBytes, moved |-> 0])
    /\ tickets' = tickets + 1
    /\ blocked_wait_clients' = blocked_wait_clients \cup
         {[client              |-> c,
           timeout_at          |-> IF timeout = 0 THEN Never ELSE now + timeout,
           num_replicas_needed |-> n,
           master_offset       |-> offset,
           ticket              |-> tickets + 1]}
    /\ Dispatching
    /\ UNCHANGED <<write_buffer, armed, eclipsed>>

handle_wait(c, n, timeout) ==
    /\ Readable(c)
    /\ WaitReplies(c, n) \/ WaitBlocks(c, n, timeout)
    /\ UNCHANGED <<master, open, replica, to_master>>

\* One reply for each WAIT in the set done.
Answer(done) ==
    [c \in Clients |->
        write_buffer[c] + Cardinality({b \in done : b.client = c})]

\* Faulty variant of check_blocked_wait_clients: more replicas than asked
\* for are needed.
CheckOneTooMany(offsets) ==
    LET done   == {b \in blocked_wait_clients :
                     Cardinality(Acked(offsets, b.master_offset)) > b.num_replicas_needed}
    IN  /\ blocked_wait_clients' = blocked_wait_clients \ done
        /\ write_buffer' = Answer(done)
        /\ armed' = flush({b.client : b \in done}, Answer(done))
        /\ UNCHANGED eclipsed

\* An ACK has set the offsets: every WAIT that has enough replicas now is
\* answered, and unblocked_client_fd remembers the last of them, the only
\* one that is flushed.
check_blocked_wait_clients(offsets) ==
    LET done   == {b \in blocked_wait_clients :
                     Cardinality(Acked(offsets, b.master_offset)) >= b.num_replicas_needed}
        latest == {b \in done : \A d \in done : d.ticket <= b.ticket}
    IN  /\ blocked_wait_clients' = blocked_wait_clients \ done
        /\ write_buffer' = Answer(done)
        /\ armed' = flush({b.client : b \in latest}, Answer(done))
        /\ eclipsed' = eclipsed \cup {b.client : b \in done \ latest}

\* Input from a replica: everything is read, one ACK is parsed; another one
\* stays in the read buffer until more input arrives.
handle_replconf(r) ==
    /\ r \in open
    /\ to_master[r] # <<>>
    /\ LET input   == read_buffer[r] \o to_master[r]
           offsets == [replica_offset EXCEPT ![r] = Head(input)]
       IN  /\ read_buffer' = [read_buffer EXCEPT ![r] = Tail(input)]
           /\ replica_offset' = offsets
           /\ check_blocked_wait_clients(offsets)
    /\ to_master' = [to_master EXCEPT ![r] = <<>>]
    /\ Dispatching
    /\ UNCHANGED <<offset, slave_connections, writes, tickets, open, stream, replica>>

-----------------------------------------------------------------------------
(* The master's event loop.                                                *)

is_expired(b) == b.timeout_at # Never /\ now >= b.timeout_at

\* Faulty variant of check_and_expire_blocked_wait_clients: the replies are
\* not flushed.
ExpireWithoutFlush ==
    LET expired == {b \in blocked_wait_clients : is_expired(b)}
    IN  /\ blocked_wait_clients' = blocked_wait_clients \ expired
        /\ write_buffer' = Answer(expired)
        /\ UNCHANGED armed

\* All the expired WAITs are answered and flushed.
check_and_expire_blocked_wait_clients ==
    LET expired == {b \in blocked_wait_clients : is_expired(b)}
    IN  /\ blocked_wait_clients' = blocked_wait_clients \ expired
        /\ write_buffer' = Answer(expired)
        /\ armed' = flush({b.client : b \in expired}, Answer(expired))

\* Faulty variant of get_next_wait_timeout_ms: only the WAIT that blocked
\* first is looked at.
TimeoutOfFirst(blocked) ==
    IF blocked = {} THEN {Never}
    ELSE {b.timeout_at : b \in {x \in blocked : \A y \in blocked : x.ticket <= y.ticket}}

\* Faulty variant of get_next_wait_timeout_ms: epoll_wait has no timeout.
NoTimeout(blocked) == {Never}

\* The least timeout of all the blocked clients.
get_next_wait_timeout_ms(blocked) ==
    LET times == {b.timeout_at : b \in blocked} \cup {Never}
    IN  {t \in times : \A u \in times : t <= u}

\* The rest of the body of Server::run.
LoopTurn ==
    /\ check_and_expire_blocked_wait_clients
    /\ wake' \in get_next_wait_timeout_ms(blocked_wait_clients')
    /\ phase' = "waiting"
    /\ UNCHANGED <<master, tickets, eclipsed, open, now, stream, replica, to_master>>

TimerFires == phase = "waiting" /\ wake # Never /\ now >= wake /\ LoopTurn

EventsHandled == phase = "dispatch" /\ LoopTurn

Tick ==
    /\ now < MaxTime
    /\ now' = now + 1
    /\ UNCHANGED <<master, waiting, write_buffer, open, armed, phase, wake,
                   stream, replica, to_master>>

\* EPOLLOUT of a client: its buffer is written out.
handleWrite(c) ==
    /\ c \in armed
    /\ write_buffer' = [write_buffer EXCEPT ![c] = 0]
    /\ armed' = armed \ {c}
    /\ Dispatching
    /\ UNCHANGED <<master, waiting, open, stream, replica, to_master>>

\* A connection breaks: it leaves epoll; a replica stays registered.
handleClose(x) ==
    /\ x \in open
    /\ open' = open \ {x}
    /\ armed' = armed \ {x}
    /\ Dispatching
    /\ UNCHANGED <<master, waiting, write_buffer, stream, replica, to_master>>

-----------------------------------------------------------------------------
(* The replica.                                                            *)

\* Faulty variant of process_commands: the ACK counts its own GETACK, the
\* replica's total does not.
AckCountsItself(r) ==
    /\ r \in open
    /\ received[r] < Len(stream[r])
    /\ LET cmd == stream[r][received[r] + 1]
       IN  /\ ack' = [ack EXCEPT ![r] =
                        IF cmd.kind = "getack" THEN <<bytes_processed[r] + cmd.bytes>>
                        ELSE <<>>]
           /\ bytes_processed' = [bytes_processed EXCEPT ![r] =
                        IF cmd.kind = "getack" THEN @ ELSE @ + cmd.bytes]
    /\ received' = [received EXCEPT ![r] = @ + 1]
    /\ UNCHANGED <<master, waiting, write_buffer, open, armed, loop, stream, to_master>>

\* Faulty variant of process_commands: GETACK is counted before the ACK is
\* made.
AckAfterCounting(r) ==
    /\ r \in open
    /\ received[r] < Len(stream[r])
    /\ LET cmd == stream[r][received[r] + 1]
       IN  /\ ack' = [ack EXCEPT ![r] =
                        IF cmd.kind = "getack" THEN <<bytes_processed[r] + cmd.bytes>>
                        ELSE <<>>]
           /\ bytes_processed' = [bytes_processed EXCEPT ![r] = @ + cmd.bytes]
    /\ received' = [received EXCEPT ![r] = @ + 1]
    /\ UNCHANGED <<master, waiting, write_buffer, open, armed, loop, stream, to_master>>

\* One turn of the loop of process_commands: GETACK puts the count so far
\* into an emptied write buffer; any other command empties it.
process_commands(r) ==
    /\ r \in open
    /\ received[r] < Len(stream[r])
    /\ LET cmd == stream[r][received[r] + 1]
       IN  /\ ack' = [ack EXCEPT ![r] =
                        IF cmd.kind = "getack" THEN <<bytes_processed[r]>> ELSE <<>>]
           /\ bytes_processed' = [bytes_processed EXCEPT ![r] = @ + cmd.bytes]
    /\ received' = [received EXCEPT ![r] = @ + 1]
    /\ UNCHANGED <<master, waiting, write_buffer, open, armed, loop, stream, to_master>>

\* A read ended with an ACK in the buffer: it is written before the next read.
MasterConnectionWrite(r) ==
    /\ r \in open
    /\ ack[r] # <<>>
    /\ to_master' = [to_master EXCEPT ![r] = @ \o ack[r]]
    /\ ack' = [ack EXCEPT ![r] = <<>>]
    /\ UNCHANGED <<master, waiting, write_buffer, open, armed, loop, stream,
                   received, bytes_processed>>

-----------------------------------------------------------------------------
Next ==
    \/ \E c \in Clients :
         \/ \E w \in Writes : propagateAndNotifySlaves(c, w)
         \/ \E n \in Needs, t \in Timeouts : handle_wait(c, n, t)
         \/ handleWrite(c)
    \/ \E r \in Replicas :
         \/ handle_psync(r)
         \/ handle_replconf(r)
         \/ process_commands(r)
         \/ MasterConnectionWrite(r)
    \/ \E x \in Clients \cup Replicas : handleClose(x)
    \/ TimerFires
    \/ EventsHandled
    \/ Tick

Spec == Init /\ [][Next]_vars

\* The clock advances and the master's loop comes round.
Fairness ==
    /\ WF_vars(Tick)
    /\ WF_vars(TimerFires)
    /\ WF_vars(EventsHandled)

FairSpec == Spec /\ Fairness

-----------------------------------------------------------------------------
(* Properties.                                                             *)

\* No ACK, wherever it is on its way, claims more bytes than its replica
\* has processed, and later ACKs never claim less than earlier ones
\* (process_commands, handle_replconf).
AcksOrdered ==
    \A r \in Replicas :
        LET claims == <<replica_offset[r]>> \o read_buffer[r] \o to_master[r]
                      \o ack[r] \o <<bytes_processed[r]>>
        IN  \A i, j \in DOMAIN claims : i <= j => claims[i] <= claims[j]

\* r has taken every write that was queued for it.
HasAllWrites(r) ==
    \A i \in DOMAIN stream[r] : stream[r][i].kind = "write" => i <= received[r]

\* A GETACK that r has taken found it with a command counted for more
\* bytes than the master had moved its offset by.
RunsAhead(r) ==
    \E i \in 1 .. received[r] :
        /\ stream[r][i].kind = "getack"
        /\ \E j \in 1 .. i - 1 : stream[r][j].bytes > stream[r][j].moved

\* WAIT counts a replica that lacks a write only where the replica's count
\* includes an earlier GETACK or a write that to_resp made longer than the
\* client sent it; the first WAIT over plain SETs is exact
\* (handle_wait, handle_propagate, process_commands).
CountedUnlessAhead ==
    \A r \in Acked(replica_offset, offset) : HasAllWrites(r) \/ RunsAhead(r)

\* Nothing is under way between the master and r.
Quiet(r) ==
    /\ r \in open
    /\ received[r] = Len(stream[r])
    /\ ack[r] = <<>> /\ to_master[r] = <<>> /\ read_buffer[r] = <<>>

\* The last thing the master asked of r was GETACK, and the count r had then
\* had reached goal.
AnsweredLast(r, goal) ==
    /\ stream[r] # <<>>
    /\ stream[r][Len(stream[r])].kind = "getack"
    /\ bytes_processed[r] - stream[r][Len(stream[r])].bytes >= goal

\* A WAIT is not forgotten: while it is blocked, fewer replicas than it
\* needs have settled with its offset reached and no command behind the last
\* GETACK.  So it hangs only for a count that falls short, a GETACK
\* overtaken by another command in the same read, an ACK left in the
\* master's read buffer, or a lost replica (check_blocked_wait_clients,
\* process_commands).
WaitNotForgotten ==
    \A b \in blocked_wait_clients :
        Cardinality({r \in slave_connections :
                        Quiet(r) /\ AnsweredLast(r, b.master_offset)})
            < b.num_replicas_needed

\* While the loop sleeps it will wake up by the deadline of every blocked
\* WAIT (get_next_wait_timeout_ms looks at all of them).
WaitWakesInTime ==
    phase = "waiting" => \A b \in blocked_wait_clients : wake <= b.timeout_at

\* A reply is left behind without a flush only where one ACK unblocked
\* several WAITs and its client was not the last of them
\* (check_blocked_wait_clients, processClientRequest).
UnflushedOnlyIfEclipsed ==
    \A c \in open \cap Clients : write_buffer[c] > 0 => c \in armed \cup eclipsed

\* A WAIT with a timeout is eventually answered, whatever the replicas do
\* (check_and_expire_blocked_wait_clients).
WaitTimeoutAnswered ==
    \A t \in 1 .. MaxWaits :
        (\E b \in blocked_wait_clients : b.ticket = t /\ b.timeout_at # Never)
            ~> ~\E b \in blocked_wait_clients : b.ticket = t

=============================================================================
