----------------------------- MODULE Handshake ------------------------------
(***************************************************************************)
(* The handshake of a replica with its master, and the first commands      *)
(* propagated to it (slave-replication.cpp, master-connection.cpp,         *)
(* handle_psync, and the parser as far as it meets the RDB).               *)
(*                                                                         *)
(* The connection is a byte stream and a read may end anywhere in it.  The *)
(* answer to PSYNC is cut into the pieces the code can tell apart: the     *)
(* FULLRESYNC line, the length of the RDB and the RDB itself, each in two  *)
(* halves.  The RDB is the empty one of get_empty_rdb, which contains no   *)
(* carriage return.  The short replies and the propagated commands arrive  *)
(* whole.                                                                  *)
(***************************************************************************)
EXTENDS Naturals, Sequences, FiniteSets

CONSTANT MaxCommands  \* bound: commands propagated

ASSUME ConstantsAssumption == MaxCommands \in Nat

VARIABLES
    replication_status,      \* SlaveReplicationClient
    is_handshake_completed,  \* SlaveReplicationClient
    read_buffer,             \* SlaveReplicationClient: pieces not yet consumed
    request,                 \* replica: the request in its write_buffer
    to_master,               \* requests in flight
    wire,                    \* pieces in flight to the replica
    registered,              \* master: the replica is in slave_connections
    propagated,              \* master: number of commands sent to the replica
    executed,                \* replica: the commands executed, in order
    read,                    \* auxiliary: pieces read since PSYNC was sent
    cuts                     \* auxiliary: values of read at which a read ended

vars == <<replication_status, is_handshake_completed, read_buffer, request,
          to_master, wire, registered, propagated, executed, read, cuts>>

\* A piece of the byte stream; n numbers the commands.
Piece(kind, n) == [kind |-> kind, n |-> n]

Command(n) == Piece("command", n)

\* The answer of handle_psync: the FULLRESYNC line, then the RDB as a bulk
\* string without a final line break.
FullResync ==
    << Piece("line", 1), Piece("line", 2), Piece("length", 1),
       Piece("length", 2), Piece("rdb", 1), Piece("rdb", 2) >>

\* The constructor of MasterConnection has prepared PING.
Init ==
    /\ replication_status = "PING_SENT"
    /\ is_handshake_completed = FALSE
    /\ read_buffer = <<>>
    /\ request = <<"PING">>
    /\ to_master = <<>>
    /\ wire = <<>>
    /\ registered = FALSE
    /\ propagated = 0
    /\ executed = <<>>
    /\ read = 0
    /\ cuts = {}

-----------------------------------------------------------------------------
(* The master.                                                             *)

\* PING and REPLCONF are answered in a line; PSYNC registers the replica.
AnswerRequest ==
    /\ to_master # <<>>
    /\ wire' = wire \o (IF Head(to_master) = "PSYNC" THEN FullResync
                        ELSE <<Piece("reply", 0)>>)
    /\ registered' = (registered \/ Head(to_master) = "PSYNC")
    /\ to_master' = Tail(to_master)
    /\ UNCHANGED <<replication_status, is_handshake_completed, read_buffer,
                   request, propagated, executed, read, cuts>>

handle_propagate ==
    /\ registered
    /\ propagated < MaxCommands
    /\ propagated' = propagated + 1
    /\ wire' = Append(wire, Command(propagated'))
    /\ UNCHANGED <<replication_status, is_handshake_completed, read_buffer,
                   request, to_master, registered, executed, read, cuts>>

-----------------------------------------------------------------------------
(* The replica.                                                            *)

\* The request goes out, and only then does the replica listen again.
handleWrite ==
    /\ request # <<>>
    /\ to_master' = to_master \o request
    /\ request' = <<>>
    /\ UNCHANGED <<replication_status, is_handshake_completed, read_buffer,
                   wire, registered, propagated, executed, read, cuts>>

\* The request that follows the reply to the one sent last.
prepare_handshake_write ==
    \/ /\ replication_status = "PING_SENT"
       /\ replication_status' = "REPLCONF_PORT_SENT"
       /\ request' = <<"REPLCONF port">>
    \/ /\ replication_status = "REPLCONF_PORT_SENT"
       /\ replication_status' = "REPLCONF_CAPA_SENT"
       /\ request' = <<"REPLCONF capa">>
    \/ /\ replication_status = "REPLCONF_CAPA_SENT"
       /\ replication_status' = "PSYNC_SENT"
       /\ request' = <<"PSYNC">>

Starts(buffer, pieces) ==
    Len(pieces) <= Len(buffer) /\ SubSeq(buffer, 1, Len(pieces)) = pieces

Drop(buffer, n) == SubSeq(buffer, n + 1, Len(buffer))

\* Faulty variant of ProcessCommands: what cannot be parsed is dropped.
DropUnknown(buffer) ==
    LET commands == SelectSeq(buffer, LAMBDA p : p.kind = "command")
        n        == Len(commands)
        lost     == IF buffer # <<>> /\ buffer[1].kind # "command" THEN 1 ELSE 0
    IN  [executed |-> [i \in 1 .. (IF n = 0 THEN 0 ELSE n - lost) |-> commands[i + lost].n],
         left     |-> <<>>]

\* process_commands on a buffer: the commands it executes and what stays in
\* the buffer.  A bulk string (an RDB that came late) is skipped up to the
\* next carriage return, which without one is the end of the buffer, and
\* otherwise lies inside the command behind it; whatever cannot be parsed
\* stays at the head of the buffer and ends the loop.
ProcessCommands(buffer) ==
    LET leading == {i \in DOMAIN buffer : \A j \in 1 .. i : buffer[j].kind = "command"}
        n       == Cardinality(leading)
        rest    == Drop(buffer, n)
        later   == {i \in DOMAIN rest : rest[i].kind = "command"}
        first   == CHOOSE i \in later : \A j \in later : i <= j
    IN  [executed |-> [i \in 1 .. n |-> buffer[i].n],
         left     |-> IF rest = <<>> \/ rest[1] # Piece("length", 1) THEN rest
                      ELSE IF later = {} THEN <<>>
                      ELSE <<Piece("broken", 0)>> \o Drop(rest, first)]

\* Faulty variant of SkipRdb: rdb_end >= read_buffer.size() counts as
\* incomplete, so an RDB at the end of the buffer is not skipped.
SkipRdbIfMore(buffer) ==
    LET rest == Drop(buffer, 2)
    IN  IF ~Starts(buffer, SubSeq(FullResync, 1, 2))
        THEN [done |-> FALSE, left |-> buffer]
        ELSE IF Starts(rest, SubSeq(FullResync, 3, 6)) /\ Len(rest) > 4
        THEN [done |-> TRUE, left |-> Drop(rest, 4)]
        ELSE [done |-> rest = <<>>, left |-> rest]

\* The part of handle_handshake_read that waits for FULLRESYNC: whether the
\* handshake completes, and what stays in the buffer.  The line is erased
\* even if the RDB behind it is not complete.
SkipRdb(buffer) ==
    LET rest == Drop(buffer, 2)
    IN  IF ~Starts(buffer, SubSeq(FullResync, 1, 2))
        THEN [done |-> FALSE, left |-> buffer]
        ELSE IF Starts(rest, SubSeq(FullResync, 3, 6))
        THEN [done |-> TRUE, left |-> Drop(rest, 4)]
        ELSE [done |-> rest = <<>>, left |-> rest]

Execute(buffer) ==
    /\ executed' = executed \o ProcessCommands(buffer).executed
    /\ read_buffer' = ProcessCommands(buffer).left

\* process_read_buffer once the bytes read have been appended.
process_read_buffer(buffer) ==
    \/ /\ is_handshake_completed
       /\ Execute(buffer)
       /\ UNCHANGED <<replication_status, is_handshake_completed, request>>
    \/ /\ replication_status = "PSYNC_SENT"
       /\ IF SkipRdb(buffer).done
          THEN /\ replication_status' = "HANDSHAKE_SUCCESS"
               /\ is_handshake_completed' = TRUE
               /\ Execute(SkipRdb(buffer).left)
          ELSE /\ read_buffer' = SkipRdb(buffer).left
               /\ UNCHANGED <<replication_status, is_handshake_completed, executed>>
       /\ UNCHANGED request
    \/ /\ read_buffer' = <<>>
       /\ prepare_handshake_write
       /\ UNCHANGED <<is_handshake_completed, executed>>

\* One read takes n pieces.
handleRead(n) ==
    /\ request = <<>>
    /\ n \in DOMAIN wire
    /\ wire' = Drop(wire, n)
    /\ process_read_buffer(read_buffer \o SubSeq(wire, 1, n))
    /\ LET now == IF replication_status \in {"PSYNC_SENT", "HANDSHAKE_SUCCESS"}
                  THEN read + n ELSE 0
       IN  /\ read' = now
           /\ cuts' = cuts \cup {now}
    /\ UNCHANGED <<to_master, registered, propagated>>

-----------------------------------------------------------------------------
Read == \E n \in 1 .. 6 + MaxCommands : handleRead(n)

Next ==
    \/ AnswerRequest
    \/ handle_propagate
    \/ handleWrite
    \/ Read

Spec == Init /\ [][Next]_vars

\* Both processes run: what has arrived is read, what is buffered is sent.
FairSpec ==
    /\ Spec
    /\ WF_vars(AnswerRequest)
    /\ WF_vars(handleWrite)
    /\ WF_vars(Read)

-----------------------------------------------------------------------------
(* Properties.                                                             *)

\* However the stream is cut into reads, the replica executes the master's
\* commands in order and without a gap, and none of them before the RDB is
\* behind it; pieces that cannot be parsed never turn into a command
\* (process_commands, handle_handshake_read).
ExecutesPrefix ==
    /\ \A i \in DOMAIN executed : executed[i] = i
    /\ executed # <<>> => read >= 6 + Len(executed)

\* A read ended inside the RDB, or one ended at the FULLRESYNC line and none
\* at the end of the RDB.
BadCut ==
    \/ cuts \cap {3, 4, 5} # {}
    \/ 2 \in cuts /\ 6 \notin cuts

\* Once everything sent has been read, the replica has executed all the
\* commands, or none at all; which of the two depends only on where the reads
\* ended (SkipRdb, ProcessCommands).
SyncedUnlessBadCut ==
    registered /\ wire = <<>> =>
        Len(executed) = IF BadCut THEN 0 ELSE propagated

\* The comments of handle_handshake_read on incomplete data, "wait for more
\* data": the handshake completes in the end.
HandshakeCompletes == <>is_handshake_completed

=============================================================================
