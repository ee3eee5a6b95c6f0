------------------------- MODULE ReplicationProofs --------------------------
(* Invariants of Replication for every value of its constants.             *)
EXTENDS Replication, Induction, SequenceTheorems, FiniteSetTheorems, TLAPS

\* Only finitely many WAITs have blocked and only finitely many replicas have
\* joined, so that both can be counted.
Finite == IsFiniteSet(blocked_wait_clients) /\ IsFiniteSet(slave_connections)

\* What is known of one replica.
LEMMA ReplicaTypes ==
    ASSUME TypeOK, NEW r \in Replicas
    PROVE  /\ stream[r] \in Seq(Command) /\ Len(stream[r]) \in Nat
           /\ received[r] \in Nat /\ received[r] <= Len(stream[r])
           /\ bytes_processed[r] \in Nat /\ replica_offset[r] \in Nat
           /\ read_buffer[r] \in Seq(Nat) /\ to_master[r] \in Seq(Nat)
           /\ ack[r] \in Seq(Nat) /\ Len(ack[r]) <= 1
  <1>1. stream[r] \in Seq(Command)
    BY DEF TypeOK
  <1>2. Len(stream[r]) \in Nat
    BY <1>1
  <1> QED
    BY <1>1, <1>2 DEF TypeOK

\* One reply for each WAIT that is answered, and no other buffer is touched.
LEMMA AnswerFacts ==
    ASSUME NEW done, IsFiniteSet(done), write_buffer \in [Clients -> Nat]
    PROVE  /\ Answer(done) \in [Clients -> Nat]
           /\ \A c \in Clients :
                (\A b \in done : b.client # c) => Answer(done)[c] = write_buffer[c]
  <1> DEFINE mine(c) == {b \in done : b.client = c}
  <1>1. \A c \in Clients : IsFiniteSet(mine(c))
    BY FS_Subset
  <1>2. \A c \in Clients : Cardinality(mine(c)) \in Nat
    BY <1>1, FS_CardinalityType
  <1>3. ASSUME NEW c \in Clients, \A b \in done : b.client # c
        PROVE  Cardinality(mine(c)) = 0
    <2>1. mine(c) = {}
      BY <1>3
    <2> QED
      BY <2>1, FS_EmptySet
  <1>4. Answer(done) = [c \in Clients |-> write_buffer[c] + Cardinality(mine(c))]
    BY DEF Answer
  <1> HIDE DEF mine
  <1> QED
    BY <1>2, <1>3, <1>4

\* A command goes to the registered replicas, at the end of their streams.
LEMMA QueueFacts ==
    ASSUME TypeOK, NEW cmd \in Command, Queue(cmd)
    PROVE  /\ stream' \in [Replicas -> Seq(Command)]
           /\ \A r \in Replicas : Len(stream[r]) <= Len(stream'[r])
           /\ \A r \in Replicas \ slave_connections : stream'[r] = stream[r]
           /\ \A r \in Replicas \cap slave_connections : stream'[r] = Append(stream[r], cmd)
  <1>1. \A r \in Replicas : stream[r] \in Seq(Command)
    BY DEF TypeOK
  <1>2. \A s \in Seq(Command) : Append(s, cmd) \in Seq(Command) /\ Len(Append(s, cmd)) = Len(s) + 1
                                /\ Len(s) \in Nat
    BY AppendProperties
  <1>3. \A r \in Replicas : stream'[r] = IF r \in slave_connections
                                         THEN Append(stream[r], cmd) ELSE stream[r]
    BY DEF Queue
  <1>4. stream' \in [Replicas -> Seq(Command)]
    BY <1>1, <1>2 DEF Queue
  <1>5. ASSUME NEW r \in Replicas
        PROVE  Len(stream[r]) <= Len(stream'[r])
    <2>1. Len(stream[r]) \in Nat
      BY ReplicaTypes
    <2>2. Len(stream'[r]) = Len(stream[r]) \/ Len(stream'[r]) = Len(stream[r]) + 1
      BY <1>1, <1>2, <1>3
    <2> QED
      BY <2>1, <2>2
  <1> QED
    BY <1>3, <1>4, <1>5

\* A command that is answered at once.
LEMMA RespondFacts ==
    ASSUME TypeOK, NEW c \in Clients, Respond(c), open' = open
    PROVE  /\ write_buffer' \in [Clients -> Nat]
           /\ \A d \in Clients : d # c => write_buffer'[d] = write_buffer[d]
           /\ armed \subseteq armed' /\ armed' \subseteq open' \cap Clients
           /\ c \in open => c \in armed'
           /\ phase' = "dispatch" /\ wake' = Never /\ now' = now
  BY DEF TypeOK, Respond, Dispatching, flush

\* The state stays well typed.
LEMMA TypeInductive ==
    ASSUME TypeOK, Finite, [Next]_vars
    PROVE  TypeOK' /\ Finite'
  <1> USE ConstantsAssumption
  <1>0. Never \in 0 .. Never
    BY DEF Never
  <1>1. ASSUME NEW c \in Clients, NEW w \in Writes, propagateAndNotifySlaves(c, w)
        PROVE  TypeOK' /\ Finite'
    <2>0. w[1] \in Nat /\ w[2] \in Nat
      OBVIOUS
    <2>1. /\ Respond(c) /\ open' = open
          /\ UNCHANGED <<slave_connections, replica_offset, read_buffer, waiting, replica, to_master>>
      BY <1>1 DEF propagateAndNotifySlaves
    <2>2. /\ offset' \in Nat /\ writes' \in 0 .. MaxWrites
          /\ stream' \in [Replicas -> Seq(Command)]
          /\ \A r \in Replicas : Len(stream[r]) <= Len(stream'[r])
      <3>1. CASE slave_connections = {}
        BY <1>1, <3>1 DEF propagateAndNotifySlaves, TypeOK
      <3>2. CASE slave_connections # {}
        <4>1. [kind |-> "write", bytes |-> w[2], moved |-> w[1]] \in Command
          BY <2>0 DEF Command
        <4>2. /\ Queue([kind |-> "write", bytes |-> w[2], moved |-> w[1]])
              /\ writes < MaxWrites /\ writes' = writes + 1 /\ offset' = offset + w[1]
          BY <1>1, <3>2 DEF propagateAndNotifySlaves
        <4>3. offset' \in Nat /\ writes' \in 0 .. MaxWrites
          BY <2>0, <4>2, SMTT(30) DEF TypeOK
        <4> QED
          BY <4>1, <4>2, <4>3, QueueFacts
      <3> QED
        BY <3>1, <3>2
    <2>3. ASSUME NEW r \in Replicas
          PROVE  received'[r] <= Len(stream'[r])
      <3>1. Len(stream'[r]) \in Nat /\ received'[r] = received[r]
        BY <2>1, <2>2 DEF replica
      <3> QED
        BY <2>2, <3>1, ReplicaTypes
    <2> QED
      BY <1>0, <2>1, <2>2, <2>3, RespondFacts DEF TypeOK, Finite, waiting, replica
  <1>2. ASSUME NEW c \in Clients, NEW n \in Needs, NEW t \in Timeouts, handle_wait(c, n, t)
        PROVE  TypeOK' /\ Finite'
    <2>1. UNCHANGED <<master, replica, to_master>> /\ open' = open
      BY <1>2 DEF handle_wait
    <2>2. CASE WaitReplies(c, n)
      <3>1. Respond(c) /\ UNCHANGED <<stream, waiting>>
        BY <2>2 DEF WaitReplies
      <3> QED
        BY <1>0, <2>1, <3>1, RespondFacts DEF TypeOK, Finite, master, waiting, replica
    <2>3. CASE WaitBlocks(c, n, t)
      <3> DEFINE b == [client |-> c, timeout_at |-> IF t = 0 THEN Never ELSE now + t,
                       num_replicas_needed |-> n, master_offset |-> offset,
                       ticket |-> tickets + 1]
      <3>1. [kind |-> "getack", bytes |-> GetackBytes, moved |-> 0] \in Command
        BY DEF Command
      <3>2. /\ stream' \in [Replicas -> Seq(Command)]
            /\ \A r \in Replicas : Len(stream[r]) <= Len(stream'[r])
        BY <2>3, <3>1, QueueFacts DEF WaitBlocks
      <3>3. ASSUME NEW r \in Replicas
            PROVE  received'[r] <= Len(stream'[r])
        <4>1. Len(stream'[r]) \in Nat /\ received'[r] = received[r]
          BY <2>1, <3>2 DEF replica
        <4> QED
          BY <3>2, <4>1, ReplicaTypes
      <3>4. /\ b \in BlockedWaitClient
            /\ tickets' \in 0 .. MaxWaits
        BY <2>3, <1>0, SMTT(30) DEF WaitBlocks, TypeOK, BlockedWaitClient, Never
      <3>5. /\ blocked_wait_clients' = blocked_wait_clients \cup {b}
            /\ UNCHANGED <<write_buffer, armed, eclipsed>>
            /\ phase' = "dispatch" /\ wake' = Never /\ now' = now
        BY <2>3 DEF WaitBlocks, Dispatching
      <3> HIDE DEF b
      <3>6. IsFiniteSet(blocked_wait_clients')
        BY <3>5, FS_AddElement DEF Finite
      <3> QED
        BY <1>0, <2>1, <3>2, <3>3, <3>4, <3>5, <3>6 DEF TypeOK, Finite, master, replica
    <2> QED
      BY <1>2, <2>2, <2>3 DEF handle_wait
  <1>3. ASSUME NEW c \in Clients, handleWrite(c)
        PROVE  TypeOK' /\ Finite'
    BY <1>0, <1>3 DEF handleWrite, Dispatching, TypeOK, Finite, master, waiting, replica
  <1>4. ASSUME NEW r \in Replicas, handle_psync(r)
        PROVE  TypeOK' /\ Finite'
    <2>1. IsFiniteSet(slave_connections')
      BY <1>4, FS_AddElement DEF handle_psync, Finite
    <2> QED
      BY <1>0, <1>4, <2>1 DEF handle_psync, Dispatching, TypeOK, Finite, waiting, replica
  <1>5. ASSUME NEW r \in Replicas, handle_replconf(r)
        PROVE  TypeOK' /\ Finite'
    <2> DEFINE input == read_buffer[r] \o to_master[r]
               offsets == [replica_offset EXCEPT ![r] = Head(input)]
               done == {b \in blocked_wait_clients :
                          Cardinality(Acked(offsets, b.master_offset)) >= b.num_replicas_needed}
               latest == {b \in done : \A d \in done : d.ticket <= b.ticket}
    <2>1. /\ read_buffer' = [read_buffer EXCEPT ![r] = Tail(input)]
          /\ replica_offset' = offsets
          /\ check_blocked_wait_clients(offsets)
          /\ to_master' = [to_master EXCEPT ![r] = <<>>]
          /\ to_master[r] # <<>>
          /\ phase' = "dispatch" /\ wake' = Never /\ now' = now
          /\ UNCHANGED <<offset, slave_connections, writes, tickets, open, stream, replica>>
      BY <1>5 DEF handle_replconf, Dispatching
    <2>2. input \in Seq(Nat) /\ input # <<>>
      <3>1. read_buffer[r] \in Seq(Nat) /\ to_master[r] \in Seq(Nat) /\ to_master[r] # <<>>
        BY <2>1 DEF TypeOK
      <3> QED
        BY <3>1, ConcatProperties
    <2> HIDE DEF input
    <2>3. Head(input) \in Nat /\ Tail(input) \in Seq(Nat)
      BY <2>2, HeadTailProperties
    <2>4. /\ read_buffer' \in [Replicas -> Seq(Nat)]
          /\ replica_offset' \in [Replicas -> Nat]
          /\ to_master' \in [Replicas -> Seq(Nat)]
      <3>1. /\ read_buffer \in [Replicas -> Seq(Nat)]
            /\ replica_offset \in [Replicas -> Nat]
            /\ to_master \in [Replicas -> Seq(Nat)]
        BY DEF TypeOK
      <3>2. <<>> \in Seq(Nat)
        OBVIOUS
      <3> QED
        BY <2>1, <2>3, <3>1, <3>2
    <2> HIDE DEF offsets
    <2>5. /\ blocked_wait_clients' = blocked_wait_clients \ done
          /\ write_buffer' = Answer(done)
          /\ armed' = flush({b.client : b \in latest}, Answer(done))
          /\ eclipsed' = eclipsed \cup {b.client : b \in done \ latest}
      BY <2>1 DEF check_blocked_wait_clients
    <2>6. IsFiniteSet(done) /\ done \subseteq blocked_wait_clients
      BY FS_Subset DEF Finite
    <2> HIDE DEF done
    <2>7. write_buffer' \in [Clients -> Nat] /\ armed' \subseteq open \cap Clients
      <3>1. Answer(done) \in [Clients -> Nat]
        BY <2>6, AnswerFacts DEF TypeOK
      <3>2. {b.client : b \in latest} \subseteq Clients
        <4>1. \A b \in latest : b \in BlockedWaitClient
          BY <2>6 DEF TypeOK
        <4> QED
          BY <4>1 DEF BlockedWaitClient
      <3> QED
        BY <2>5, <3>1, <3>2 DEF flush, TypeOK
    <2>8. eclipsed' \subseteq Clients
      BY <2>5, <2>6, SMTT(30) DEF TypeOK, BlockedWaitClient
    <2>9. IsFiniteSet(blocked_wait_clients') /\ blocked_wait_clients' \subseteq BlockedWaitClient
      BY <2>5, FS_Difference DEF TypeOK, Finite
    <2> QED
      BY <1>0, <2>1, <2>4, <2>7, <2>8, <2>9 DEF TypeOK, Finite, replica
  <1>6. ASSUME NEW r \in Replicas, process_commands(r)
        PROVE  TypeOK' /\ Finite'
    <2> DEFINE cmd == stream[r][received[r] + 1]
    <2>1. cmd \in Command
      <3>1. stream[r] \in Seq(Command) /\ received[r] \in Nat /\ received[r] < Len(stream[r])
        BY <1>6 DEF process_commands, TypeOK
      <3>2. received[r] + 1 \in 1 .. Len(stream[r])
        BY <3>1
      <3> QED
        BY <3>1, <3>2
    <2>2. cmd.bytes \in Nat
      BY <2>1 DEF Command
    <2> HIDE DEF cmd
    <2>3. /\ ack' = [ack EXCEPT ![r] =
                       IF cmd.kind = "getack" THEN <<bytes_processed[r]>> ELSE <<>>]
          /\ bytes_processed' = [bytes_processed EXCEPT ![r] = @ + cmd.bytes]
          /\ received' = [received EXCEPT ![r] = @ + 1] /\ received[r] < Len(stream[r])
          /\ UNCHANGED <<master, waiting, write_buffer, open, armed, loop, stream, to_master>>
      BY <1>6 DEF process_commands, cmd
    <2>4. bytes_processed' \in [Replicas -> Nat]
      <3>1. bytes_processed \in [Replicas -> Nat]
        BY DEF TypeOK
      <3> QED
        BY <2>2, <2>3, <3>1
    <2>5. received' \in [Replicas -> Nat] /\ \A q \in Replicas : received'[q] <= Len(stream'[q])
      <3>1. received \in [Replicas -> Nat]
        BY DEF TypeOK
      <3>2. \A q \in Replicas : /\ received[q] \in Nat /\ Len(stream[q]) \in Nat
                                /\ received[q] <= Len(stream[q])
        BY ReplicaTypes
      <3>3. received' \in [Replicas -> Nat]
        BY <2>3, <3>1
      <3>4. ASSUME NEW q \in Replicas
            PROVE  received'[q] <= Len(stream[q])
        BY <2>3, <3>1, <3>2
      <3> QED
        BY <2>3, <3>3, <3>4
    <2>6. ack' \in [Replicas -> Seq(Nat)] /\ \A q \in Replicas : Len(ack'[q]) <= 1
      <3>1. bytes_processed[r] \in Nat
        BY DEF TypeOK
      <3>2. <<bytes_processed[r]>> \in Seq(Nat) /\ <<>> \in Seq(Nat)
        BY <3>1
      <3>3. ack'[r] \in {<<bytes_processed[r]>>, <<>>}
            /\ \A q \in Replicas : q # r => ack'[q] = ack[q]
        BY <2>3 DEF TypeOK
      <3>4. ack' \in [Replicas -> Seq(Nat)]
        <4>1. ack \in [Replicas -> Seq(Nat)]
          BY DEF TypeOK
        <4> QED
          BY <2>3, <3>2, <4>1
      <3>5. ASSUME NEW q \in Replicas
            PROVE  Len(ack'[q]) <= 1
        <4>1. CASE q = r
          <5>1. Len(<<bytes_processed[r]>>) <= 1 /\ Len(<<>>) <= 1
            OBVIOUS
          <5>2. ack'[q] = <<bytes_processed[r]>> \/ ack'[q] = <<>>
            BY <3>3, <4>1
          <5> QED
            BY <5>1, <5>2
        <4>2. CASE q # r
          <5>1. ack'[q] = ack[q]
            BY <3>3, <4>2
          <5> QED
            BY <5>1, ReplicaTypes
        <4> QED
          BY <4>1, <4>2
      <3> QED
        BY <3>4, <3>5
    <2> QED
      BY <2>3, <2>4, <2>5, <2>6 DEF TypeOK, Finite, master, waiting, loop
  <1>7. ASSUME NEW r \in Replicas, MasterConnectionWrite(r)
        PROVE  TypeOK' /\ Finite'
    <2>1. /\ to_master' = [to_master EXCEPT ![r] = @ \o ack[r]]
          /\ ack' = [ack EXCEPT ![r] = <<>>]
          /\ UNCHANGED <<master, waiting, write_buffer, open, armed, loop, stream,
                         received, bytes_processed>>
      BY <1>7 DEF MasterConnectionWrite
    <2>2. to_master[r] \o ack[r] \in Seq(Nat)
      BY ConcatProperties DEF TypeOK
    <2>3. to_master' \in [Replicas -> Seq(Nat)] /\ ack' \in [Replicas -> Seq(Nat)]
          /\ \A q \in Replicas : Len(ack'[q]) <= 1
      BY <2>1, <2>2, SMTT(30) DEF TypeOK
    <2> QED
      BY <2>1, <2>3 DEF TypeOK, Finite, master, waiting, loop
  <1>8. ASSUME NEW x \in Clients \cup Replicas, handleClose(x)
        PROVE  TypeOK' /\ Finite'
    BY <1>0, <1>8 DEF handleClose, Dispatching, TypeOK, Finite, master, waiting, replica
  <1>9. ASSUME LoopTurn
        PROVE  TypeOK' /\ Finite'
    <2> DEFINE expired == {b \in blocked_wait_clients : is_expired(b)}
    <2>1. /\ blocked_wait_clients' = blocked_wait_clients \ expired
          /\ write_buffer' = Answer(expired)
          /\ armed' = flush({b.client : b \in expired}, Answer(expired))
          /\ wake' \in get_next_wait_timeout_ms(blocked_wait_clients')
          /\ phase' = "waiting"
          /\ UNCHANGED <<master, tickets, eclipsed, open, now, stream, replica, to_master>>
      BY <1>9 DEF LoopTurn, check_and_expire_blocked_wait_clients
    <2>2. IsFiniteSet(expired) /\ expired \subseteq blocked_wait_clients
      BY FS_Subset DEF Finite
    <2> HIDE DEF expired
    <2>3. write_buffer' \in [Clients -> Nat] /\ armed' \subseteq open \cap Clients
      <3>1. Answer(expired) \in [Clients -> Nat]
        BY <2>2, AnswerFacts DEF TypeOK
      <3>2. {b.client : b \in expired} \subseteq Clients
        BY <2>2, SMTT(30) DEF TypeOK, BlockedWaitClient
      <3> QED
        BY <2>1, <3>1, <3>2 DEF flush, TypeOK
    <2>4. IsFiniteSet(blocked_wait_clients') /\ blocked_wait_clients' \subseteq BlockedWaitClient
      BY <2>1, FS_Difference DEF TypeOK, Finite
    <2>5. wake' \in 0 .. Never
      BY <1>0, <2>1, <2>4 DEF get_next_wait_timeout_ms, BlockedWaitClient
    <2> QED
      BY <2>1, <2>3, <2>4, <2>5 DEF TypeOK, Finite, master, replica
  <1>10. CASE Tick
    BY <1>10 DEF Tick, TypeOK, Finite, master, waiting, replica
  <1>11. CASE UNCHANGED vars
    BY <1>11 DEF vars, TypeOK, Finite, master, waiting, loop, replica
  <1> QED
    BY <1>1, <1>2, <1>3, <1>4, <1>5, <1>6, <1>7, <1>8, <1>9, <1>10, <1>11
       DEF Next, TimerFires, EventsHandled

-----------------------------------------------------------------------------
(* What a step can do to one replica.                                      *)

\* The ACKs of r on their way, the last one that arrived first.
Acks(r) == ((<<replica_offset[r]>> \o read_buffer[r]) \o to_master[r]) \o ack[r]

\* Only three actions touch the way of r's ACKs.
LEMMA AckPath ==
    ASSUME TypeOK, [Next]_vars, NEW r \in Replicas
    PROVE  \/ /\ replica_offset'[r] = replica_offset[r] /\ read_buffer'[r] = read_buffer[r]
              /\ to_master'[r] = to_master[r] /\ ack'[r] = ack[r]
              /\ bytes_processed'[r] = bytes_processed[r] /\ received'[r] = received[r]
           \/ process_commands(r)
           \/ MasterConnectionWrite(r)
           \/ handle_replconf(r)
  <1> DEFINE Same == /\ replica_offset'[r] = replica_offset[r] /\ read_buffer'[r] = read_buffer[r]
                     /\ to_master'[r] = to_master[r] /\ ack'[r] = ack[r]
                     /\ bytes_processed'[r] = bytes_processed[r] /\ received'[r] = received[r]
  <1>1. ASSUME NEW c \in Clients, NEW w \in Writes, propagateAndNotifySlaves(c, w)
        PROVE  Same
    BY <1>1 DEF propagateAndNotifySlaves, replica
  <1>2. ASSUME NEW c \in Clients, NEW n \in Needs, NEW t \in Timeouts, handle_wait(c, n, t)
        PROVE  Same
    BY <1>2 DEF handle_wait, master, replica
  <1>3. ASSUME NEW c \in Clients, handleWrite(c)
        PROVE  Same
    BY <1>3 DEF handleWrite, master, replica
  <1>4. ASSUME NEW q \in Replicas, handle_psync(q)
        PROVE  Same
    BY <1>4 DEF handle_psync, replica
  <1>5. ASSUME NEW q \in Replicas, handle_replconf(q), q # r
        PROVE  Same
    BY <1>5 DEF handle_replconf, replica, TypeOK
  <1>6. ASSUME NEW q \in Replicas, process_commands(q), q # r
        PROVE  Same
    BY <1>6 DEF process_commands, master, TypeOK
  <1>7. ASSUME NEW q \in Replicas, MasterConnectionWrite(q), q # r
        PROVE  Same
    BY <1>7 DEF MasterConnectionWrite, master, TypeOK
  <1>8. ASSUME NEW x \in Clients \cup Replicas, handleClose(x)
        PROVE  Same
    BY <1>8 DEF handleClose, master, replica
  <1>9. ASSUME LoopTurn
        PROVE  Same
    BY <1>9 DEF LoopTurn, master, replica
  <1>10. ASSUME Tick
         PROVE  Same
    BY <1>10 DEF Tick, master, replica
  <1>11. ASSUME UNCHANGED vars
         PROVE  Same
    BY <1>11 DEF vars, master, replica
  <1> HIDE DEF Same
  <1>12. ASSUME NEW q \in Replicas,
                \/ handle_psync(q) \/ handle_replconf(q)
                \/ process_commands(q) \/ MasterConnectionWrite(q)
         PROVE  Same \/ process_commands(r) \/ MasterConnectionWrite(r) \/ handle_replconf(r)
    <2>1. CASE q = r
      BY <1>4, <1>12, <2>1
    <2>2. CASE q # r
      BY <1>4, <1>5, <1>6, <1>7, <1>12, <2>2
    <2> QED
      BY <2>1, <2>2
  <1>13. Same \/ process_commands(r) \/ MasterConnectionWrite(r) \/ handle_replconf(r)
    BY <1>1, <1>2, <1>3, <1>8, <1>9, <1>10, <1>11, <1>12 DEF Next, TimerFires, EventsHandled
  <1> QED
    BY <1>13 DEF Same

\* A stream stands still or takes one command, and then the offset moves as
\* the command says.
LEMMA StreamPath ==
    ASSUME TypeOK, [Next]_vars, NEW r \in Replicas
    PROVE  \/ stream'[r] = stream[r] /\ offset <= offset'
           \/ /\ r \in slave_connections
              /\ \E cmd \in Command :
                    /\ cmd.kind = "write" => cmd.moved > 0
                    /\ stream'[r] = Append(stream[r], cmd)
                    /\ offset' = offset + cmd.moved
                    /\ cmd.kind = "getack" \/ cmd.kind = "write"
                    /\ UNCHANGED <<received, ack>>
  <1> USE ConstantsAssumption
  <1> DEFINE Still == stream'[r] = stream[r] /\ offset <= offset'
             Grows == /\ r \in slave_connections
                      /\ \E cmd \in Command :
                            /\ cmd.kind = "write" => cmd.moved > 0
                            /\ stream'[r] = Append(stream[r], cmd)
                            /\ offset' = offset + cmd.moved
                            /\ cmd.kind = "getack" \/ cmd.kind = "write"
                            /\ UNCHANGED <<received, ack>>
  <1>0. offset \in Nat
    BY DEF TypeOK
  <1>1. ASSUME NEW c \in Clients, NEW w \in Writes, propagateAndNotifySlaves(c, w)
        PROVE  Still \/ Grows
    <2> DEFINE cmd == [kind |-> "write", bytes |-> w[2], moved |-> w[1]]
    <2>1. w[1] \in Nat \ {0} /\ w[2] \in Nat \ {0}
      OBVIOUS
    <2>2. cmd \in Command /\ cmd.kind = "write" /\ cmd.moved = w[1] /\ cmd.moved > 0
      BY <2>1 DEF Command
    <2>3. UNCHANGED <<received, ack>>
      BY <1>1 DEF propagateAndNotifySlaves, replica
    <2>4. CASE slave_connections = {}
      BY <1>0, <1>1, <2>4 DEF propagateAndNotifySlaves
    <2>5. CASE slave_connections # {}
      <3>1. Queue(cmd) /\ offset' = offset + w[1]
        BY <1>1, <2>5 DEF propagateAndNotifySlaves
      <3> HIDE DEF cmd
      <3>2. CASE r \in slave_connections
        <4>1. stream'[r] = Append(stream[r], cmd)
          BY <2>2, <3>1, <3>2, QueueFacts
        <4> QED
          BY <2>2, <2>3, <3>1, <3>2, <4>1
      <3>3. CASE r \notin slave_connections
        <4>1. stream'[r] = stream[r]
          BY <2>2, <3>1, <3>3, QueueFacts
        <4> QED
          BY <1>0, <2>1, <3>1, <4>1
      <3> QED
        BY <3>2, <3>3
    <2> QED
      BY <2>4, <2>5
  <1>2. ASSUME NEW c \in Clients, NEW n \in Needs, NEW t \in Timeouts, handle_wait(c, n, t)
        PROVE  Still \/ Grows
    <2> DEFINE cmd == [kind |-> "getack", bytes |-> GetackBytes, moved |-> 0]
    <2>1. cmd \in Command /\ cmd.kind = "getack" /\ cmd.moved = 0
      BY DEF Command
    <2>2. UNCHANGED <<received, ack, offset>>
      BY <1>2 DEF handle_wait, master, replica
    <2>3. CASE WaitReplies(c, n)
      BY <1>0, <2>2, <2>3 DEF WaitReplies
    <2>4. CASE WaitBlocks(c, n, t)
      <3>1. Queue(cmd)
        BY <2>4 DEF WaitBlocks
      <3> HIDE DEF cmd
      <3>2. CASE r \in slave_connections
        <4>1. stream'[r] = Append(stream[r], cmd)
          BY <2>1, <3>1, <3>2, QueueFacts
        <4>2. offset' = offset + cmd.moved
          BY <1>0, <2>1, <2>2
        <4>3. cmd.kind = "write" => cmd.moved > 0
          BY <2>1
        <4> QED
          BY <2>1, <2>2, <3>2, <4>1, <4>2, <4>3
      <3>3. CASE r \notin slave_connections
        BY <1>0, <2>1, <2>2, <3>1, <3>3, QueueFacts
      <3> QED
        BY <3>2, <3>3
    <2> QED
      BY <1>2, <2>3, <2>4 DEF handle_wait
  <1>3. ASSUME NEW c \in Clients, handleWrite(c)
        PROVE  Still
    BY <1>0, <1>3 DEF handleWrite, master
  <1>4. ASSUME NEW q \in Replicas,
               \/ handle_psync(q) \/ handle_replconf(q)
               \/ process_commands(q) \/ MasterConnectionWrite(q)
        PROVE  Still
    <2>1. CASE handle_psync(q)
      BY <1>0, <2>1 DEF handle_psync
    <2>2. CASE handle_replconf(q)
      BY <1>0, <2>2 DEF handle_replconf
    <2>3. CASE process_commands(q) \/ MasterConnectionWrite(q)
      <3>1. UNCHANGED <<master, stream>>
        BY <2>3 DEF process_commands, MasterConnectionWrite
      <3> QED
        BY <1>0, <3>1 DEF master
    <2> QED
      BY <1>4, <2>1, <2>2, <2>3
  <1>5. ASSUME NEW x \in Clients \cup Replicas, handleClose(x)
        PROVE  Still
    BY <1>0, <1>5 DEF handleClose, master
  <1>6. ASSUME LoopTurn
        PROVE  Still
    BY <1>0, <1>6 DEF LoopTurn, master
  <1>7. ASSUME Tick \/ UNCHANGED vars
        PROVE  Still
    BY <1>0, <1>7 DEF Tick, vars, master
  <1> HIDE DEF Still, Grows
  <1>8. Still \/ Grows
    BY <1>1, <1>2, <1>3, <1>4, <1>5, <1>6, <1>7 DEF Next, TimerFires, EventsHandled
  <1> QED
    BY <1>8 DEF Still, Grows

\* Where the ACKs of r go: the master reads the one that is due and forgets
\* the one before, the replica makes a new one in place of the one it still
\* holds, or one moves along without changing the order.
LEMMA AcksMove ==
    ASSUME TypeOK, [Next]_vars, NEW r \in Replicas
    PROVE  \/ /\ Acks(r)' = Acks(r) /\ bytes_processed'[r] = bytes_processed[r]
              /\ received'[r] = received[r]
           \/ /\ Acks(r)' # <<>> /\ Acks(r) = <<replica_offset[r]>> \o Acks(r)'
              /\ bytes_processed'[r] = bytes_processed[r] /\ received'[r] = received[r]
           \/ \E P \in Seq(Nat) :
                 /\ Acks(r) = P \o ack[r] /\ Acks(r)' = P \o ack'[r]
                 /\ process_commands(r)
  <1>0. /\ <<replica_offset[r]>> \in Seq(Nat) /\ read_buffer[r] \in Seq(Nat)
        /\ to_master[r] \in Seq(Nat) /\ ack[r] \in Seq(Nat)
    <2>1. replica_offset[r] \in Nat
      BY ReplicaTypes
    <2> QED
      BY <2>1, ReplicaTypes
  <1>a. \A s, t, u \in Seq(Nat) : (s \o t) \o u = s \o (t \o u)
    BY ConcatAssociative, SMTT(30)
  <1>b. \A s \in Seq(Nat) : s \o <<>> = s
    BY ConcatEmptySeq
  <1>1. CASE /\ replica_offset'[r] = replica_offset[r] /\ read_buffer'[r] = read_buffer[r]
             /\ to_master'[r] = to_master[r] /\ ack'[r] = ack[r]
             /\ bytes_processed'[r] = bytes_processed[r] /\ received'[r] = received[r]
    BY <1>1 DEF Acks
  <1>2. CASE process_commands(r)
    <2> DEFINE P == (<<replica_offset[r]>> \o read_buffer[r]) \o to_master[r]
    <2>1. P \in Seq(Nat)
      BY <1>0, ConcatProperties
    <2>2. Acks(r) = P \o ack[r]
      BY DEF Acks
    <2>3. Acks(r)' = P \o ack'[r]
      BY <1>2 DEF Acks, process_commands, master
    <2> HIDE DEF P
    <2> QED
      BY <1>2, <2>1, <2>2, <2>3
  <1>3. CASE MasterConnectionWrite(r)
    <2> DEFINE P == <<replica_offset[r]>> \o read_buffer[r]
    <2>1. P \in Seq(Nat)
      BY <1>0, ConcatProperties
    <2>2. UNCHANGED <<replica_offset, read_buffer, bytes_processed, received>>
      BY <1>3 DEF MasterConnectionWrite, master
    <2>3. to_master'[r] = to_master[r] \o ack[r] /\ ack'[r] = <<>>
      BY <1>3 DEF MasterConnectionWrite, TypeOK
    <2>4. Acks(r)' = (P \o (to_master[r] \o ack[r])) \o <<>>
      BY <2>2, <2>3 DEF Acks
    <2>5. Acks(r) = (P \o to_master[r]) \o ack[r]
      BY DEF Acks
    <2> HIDE DEF P
    <2>6. P \o (to_master[r] \o ack[r]) = (P \o to_master[r]) \o ack[r]
      BY <1>0, <2>1, <1>a
    <2>7. (P \o to_master[r]) \o ack[r] \in Seq(Nat)
      BY <1>0, <2>1, ConcatProperties
    <2>8. Acks(r)' = Acks(r)
      BY <2>4, <2>5, <2>6, <2>7, <1>b
    <2> QED
      BY <2>2, <2>8
  <1>4. CASE handle_replconf(r)
    <2> DEFINE input == read_buffer[r] \o to_master[r]
    <2>1. /\ replica_offset'[r] = Head(input) /\ read_buffer'[r] = Tail(input)
          /\ to_master'[r] = <<>> /\ ack' = ack /\ to_master[r] # <<>>
          /\ UNCHANGED <<bytes_processed, received>>
      BY <1>4 DEF handle_replconf, replica, TypeOK
    <2>2. input \in Seq(Nat) /\ input # <<>>
      BY <1>0, <2>1, ConcatProperties
    <2>3. Acks(r) = (<<replica_offset[r]>> \o input) \o ack[r]
      <3>1. (<<replica_offset[r]>> \o read_buffer[r]) \o to_master[r]
              = <<replica_offset[r]>> \o input
        BY <1>0, <1>a, ZenonT(60)
      <3> HIDE DEF input
      <3> QED
        BY <3>1 DEF Acks
    <2>4. Acks(r)' = ((<<Head(input)>> \o Tail(input)) \o <<>>) \o ack[r]
      BY <2>1 DEF Acks
    <2> HIDE DEF input
    <2>5. <<Head(input)>> \o Tail(input) = input
      BY <2>2, HeadTailProperties, ConcatProperties
    <2>6. Acks(r)' = input \o ack[r]
      BY <2>2, <2>4, <2>5, <1>b
    <2>7. Acks(r) = <<replica_offset[r]>> \o (input \o ack[r])
      BY <1>0, <2>2, <2>3, <1>a
    <2>8. input \o ack[r] # <<>>
      BY <1>0, <2>2, ConcatProperties
    <2> QED
      BY <2>1, <2>6, <2>7, <2>8
  <1> HIDE DEF Acks
  <1> QED
    BY <1>1, <1>2, <1>3, <1>4, AckPath

-----------------------------------------------------------------------------
(* The ACKs come in order.                                                 *)

\* The numbers in s never decrease and top is none the less.
Ascends(s, top) ==
    /\ \A i, j \in 1 .. Len(s) : i <= j => s[i] <= s[j]
    /\ \A i \in 1 .. Len(s) : s[i] <= top

\* The same said of one sequence.
LEMMA AscendsAsWhole ==
    ASSUME NEW s \in Seq(Nat), NEW top \in Nat
    PROVE  Ascends(s, top)
             <=> \A i, j \in DOMAIN (s \o <<top>>) :
                    i <= j => (s \o <<top>>)[i] <= (s \o <<top>>)[j]
  <1> DEFINE w == s \o <<top>>
  <1>1. /\ DOMAIN w = 1 .. Len(s) + 1 /\ w[Len(s) + 1] = top
        /\ \A i \in 1 .. Len(s) : w[i] = s[i] /\ s[i] \in Nat
        /\ Len(s) \in Nat
    OBVIOUS
  <1> HIDE DEF w
  <1>2. ASSUME Ascends(s, top), NEW i \in DOMAIN w, NEW j \in DOMAIN w, i <= j
        PROVE  w[i] <= w[j]
    BY <1>1, <1>2, SMTT(30) DEF Ascends
  <1>3. ASSUME \A i, j \in DOMAIN w : i <= j => w[i] <= w[j]
        PROVE  Ascends(s, top)
    <2>1. ASSUME NEW i \in 1 .. Len(s), NEW j \in 1 .. Len(s), i <= j
          PROVE  s[i] <= s[j]
      <3>1. i \in DOMAIN w /\ j \in DOMAIN w
        BY <1>1
      <3>2. w[i] <= w[j]
        BY <1>3, <2>1, <3>1
      <3> QED
        BY <1>1, <3>2
    <2>2. ASSUME NEW i \in 1 .. Len(s)
          PROVE  s[i] <= top
      <3>1. i \in DOMAIN w /\ Len(s) + 1 \in DOMAIN w /\ i <= Len(s) + 1
        BY <1>1
      <3>2. w[i] <= w[Len(s) + 1]
        BY <1>3, <3>1
      <3> QED
        BY <1>1, <3>2
    <2> QED
      BY <2>1, <2>2 DEF Ascends
  <1>4. Ascends(s, top) <=> \A i, j \in DOMAIN w : i <= j => w[i] <= w[j]
    BY <1>2, <1>3
  <1> QED
    BY <1>4 DEF w

\* Dropping the first number.
LEMMA AscendsRest ==
    ASSUME NEW s \in Seq(Nat), NEW n \in Nat, NEW top \in Nat, Ascends(<<n>> \o s, top)
    PROVE  Ascends(s, top)
  <1> DEFINE w == <<n>> \o s
  <1>1. /\ Len(w) = Len(s) + 1 /\ Len(s) \in Nat
        /\ \A i \in 1 .. Len(s) : w[i + 1] = s[i] /\ i + 1 \in 1 .. Len(w)
    OBVIOUS
  <1>2. Ascends(w, top)
    OBVIOUS
  <1> HIDE DEF w
  <1>3. ASSUME NEW i \in 1 .. Len(s), NEW j \in 1 .. Len(s), i <= j
        PROVE  s[i] <= s[j]
    <2>1. i + 1 <= j + 1
      BY <1>3
    <2>2. w[i + 1] <= w[j + 1]
      BY <1>1, <1>2, <2>1 DEF Ascends
    <2> QED
      BY <1>1, <2>2
  <1>4. ASSUME NEW i \in 1 .. Len(s)
        PROVE  s[i] <= top
    BY <1>1, <1>2 DEF Ascends
  <1> QED
    BY <1>3, <1>4 DEF Ascends

\* Putting the bound, or nothing, in place of what follows P.
LEMMA AscendsReplaced ==
    ASSUME NEW P \in Seq(Nat), NEW a \in Seq(Nat), NEW top \in Nat, NEW higher \in Nat,
           Ascends(P \o a, top), top <= higher
    PROVE  Ascends(P \o <<top>>, higher) /\ Ascends(P \o <<>>, higher)
  <1>1. /\ Len(P \o a) = Len(P) + Len(a) /\ Len(P) \in Nat /\ Len(a) \in Nat
        /\ \A i \in 1 .. Len(P) : (P \o a)[i] = P[i] /\ P[i] \in Nat
    OBVIOUS
  <1>2. \A i \in 1 .. Len(P) : i \in 1 .. Len(P \o a)
    BY <1>1
  <1>3. Ascends(P, top)
    <2>1. ASSUME NEW i \in 1 .. Len(P), NEW j \in 1 .. Len(P), i <= j
          PROVE  P[i] <= P[j]
      <3>1. (P \o a)[i] <= (P \o a)[j]
        BY <1>2, <2>1 DEF Ascends
      <3> QED
        BY <1>1, <3>1
    <2>2. ASSUME NEW i \in 1 .. Len(P)
          PROVE  P[i] <= top
      <3>1. (P \o a)[i] <= top
        BY <1>2 DEF Ascends
      <3> QED
        BY <1>1, <3>1
    <2> QED
      BY <2>1, <2>2 DEF Ascends
  <1>4. P \o <<>> = P
    BY ConcatEmptySeq
  <1>5. Ascends(P, higher)
    BY <1>1, <1>3 DEF Ascends
  <1> DEFINE w == P \o <<top>>
  <1>6. /\ Len(w) = Len(P) + 1 /\ w[Len(P) + 1] = top
        /\ \A i \in 1 .. Len(P) : w[i] = P[i]
    OBVIOUS
  <1> HIDE DEF w
  <1>7. Ascends(w, higher)
    <2>0. \A i \in 1 .. Len(w) : i = Len(P) + 1 \/ (i \in 1 .. Len(P) /\ i < Len(P) + 1)
      BY <1>1, <1>6
    <2>1. ASSUME NEW i \in 1 .. Len(w), NEW j \in 1 .. Len(w), i <= j
          PROVE  w[i] <= w[j]
      <3>1. CASE j = Len(P) + 1
        BY <1>3, <1>6, <2>0, <3>1, SMTT(30) DEF Ascends
      <3>2. CASE j # Len(P) + 1
        <4>1. i \in 1 .. Len(P) /\ j \in 1 .. Len(P)
          BY <1>1, <2>0, <2>1, <3>2
        <4> QED
          BY <1>3, <1>6, <2>1, <4>1 DEF Ascends
      <3> QED
        BY <3>1, <3>2
    <2>2. ASSUME NEW i \in 1 .. Len(w)
          PROVE  w[i] <= higher
      BY <1>5, <1>6, <2>0 DEF Ascends
    <2> QED
      BY <2>1, <2>2 DEF Ascends
  <1> QED
    BY <1>4, <1>5, <1>7 DEF w

\* What is known of the ACKs under way.
LEMMA AcksType ==
    TypeOK => \A r \in Replicas : Acks(r) \in Seq(Nat)
  <1> SUFFICES ASSUME TypeOK, NEW r \in Replicas
               PROVE  Acks(r) \in Seq(Nat)
    OBVIOUS
  <1>1. <<replica_offset[r]>> \in Seq(Nat)
    <2>1. replica_offset[r] \in Nat
      BY ReplicaTypes
    <2> QED
      BY <2>1
  <1>2. \A s, t \in Seq(Nat) : s \o t \in Seq(Nat)
    BY ConcatProperties
  <1> QED
    BY <1>1, <1>2, ReplicaTypes DEF Acks

\* The same after a step.
LEMMA AcksTypeNext ==
    TypeOK' => (\A r \in Replicas : Acks(r) \in Seq(Nat))'
  BY AcksType, PTL

\* AcksOrdered in terms of Ascends.
LEMMA OrderedByAscends ==
    TypeOK => (AcksOrdered <=> \A r \in Replicas : Ascends(Acks(r), bytes_processed[r]))
  <1> SUFFICES ASSUME TypeOK
               PROVE  AcksOrdered <=> \A r \in Replicas : Ascends(Acks(r), bytes_processed[r])
    OBVIOUS
  <1>1. ASSUME NEW r \in Replicas
        PROVE  Ascends(Acks(r), bytes_processed[r])
                 <=> \A i, j \in DOMAIN (Acks(r) \o <<bytes_processed[r]>>) :
                       i <= j => (Acks(r) \o <<bytes_processed[r]>>)[i]
                                   <= (Acks(r) \o <<bytes_processed[r]>>)[j]
    BY AcksType, ReplicaTypes, AscendsAsWhole
  <1> QED
    BY <1>1 DEF AcksOrdered, Acks

\* The command a replica takes next.
LEMMA TakenFacts ==
    ASSUME TypeOK, NEW r \in Replicas, process_commands(r)
    PROVE  /\ received[r] + 1 \in 1 .. Len(stream[r]) /\ stream[r][received[r] + 1] \in Command
           /\ received'[r] = received[r] + 1 /\ stream' = stream
           /\ bytes_processed'[r] = bytes_processed[r] + stream[r][received[r] + 1].bytes
           /\ stream[r][received[r] + 1].bytes \in Nat
           /\ stream[r][received[r] + 1].moved \in Nat
           /\ ack'[r] = IF stream[r][received[r] + 1].kind = "getack"
                        THEN <<bytes_processed[r]>> ELSE <<>>
           /\ UNCHANGED <<offset, slave_connections, replica_offset, blocked_wait_clients>>
  <1>1. received[r] < Len(stream[r])
    BY DEF process_commands
  <1>2. received[r] + 1 \in 1 .. Len(stream[r])
    BY <1>1, ReplicaTypes
  <1>3. stream[r][received[r] + 1] \in Command
    BY <1>2, ReplicaTypes, ElementOfSeq
  <1> QED
    BY <1>2, <1>3 DEF process_commands, TypeOK, Command, master, waiting

\* AcksOrdered is inductive.
LEMMA OrderedInductive ==
    ASSUME TypeOK, TypeOK', AcksOrdered, [Next]_vars
    PROVE  AcksOrdered'
  <1>b. AcksOrdered' <=> (\A r \in Replicas : Ascends(Acks(r), bytes_processed[r]))'
    BY OrderedByAscends, PTL
  <1>1. ASSUME NEW r \in Replicas
        PROVE  Ascends(Acks(r)', bytes_processed'[r])
    <2>1. /\ Ascends(Acks(r), bytes_processed[r]) /\ Acks(r) \in Seq(Nat)
          /\ bytes_processed[r] \in Nat /\ replica_offset[r] \in Nat
          /\ ack[r] \in Seq(Nat)
      BY OrderedByAscends, AcksType, ReplicaTypes
    <2>2. bytes_processed'[r] \in Nat
      BY DEF TypeOK
    <2>3. Acks(r)' \in Seq(Nat)
      BY AcksTypeNext
    <2>4. CASE Acks(r)' = Acks(r) /\ bytes_processed'[r] = bytes_processed[r]
      BY <2>1, <2>4
    <2>5. CASE Acks(r) = <<replica_offset[r]>> \o Acks(r)' /\ bytes_processed'[r] = bytes_processed[r]
      BY <2>1, <2>3, <2>5, AscendsRest
    <2>6. ASSUME NEW P \in Seq(Nat), Acks(r) = P \o ack[r], Acks(r)' = P \o ack'[r],
                 process_commands(r)
          PROVE  Ascends(Acks(r)', bytes_processed'[r])
      <3>1. /\ bytes_processed[r] <= bytes_processed'[r]
            /\ ack'[r] = <<bytes_processed[r]>> \/ ack'[r] = <<>>
        <4>1. PICK n \in Nat : bytes_processed'[r] = bytes_processed[r] + n
          BY <2>6, TakenFacts
        <4>2. ack'[r] = <<bytes_processed[r]>> \/ ack'[r] = <<>>
          BY <2>6, TakenFacts
        <4> QED
          BY <2>1, <4>1, <4>2
      <3>2. /\ Ascends(P \o <<bytes_processed[r]>>, bytes_processed'[r])
            /\ Ascends(P \o <<>>, bytes_processed'[r])
        BY <2>1, <2>2, <2>6, <3>1, AscendsReplaced
      <3> QED
        BY <2>6, <3>1, <3>2
    <2> QED
      BY <2>4, <2>5, <2>6, AcksMove
  <1> QED
    BY <1>1, <1>b

-----------------------------------------------------------------------------
(* The loop and the replies.                                               *)

\* WaitWakesInTime is inductive: only the end of a turn lets the loop sleep.
LEMMA WakesInductive ==
    ASSUME TypeOK, WaitWakesInTime, [Next]_vars
    PROVE  WaitWakesInTime'
  <1>1. ASSUME phase' = "dispatch"
        PROVE  WaitWakesInTime'
    BY <1>1 DEF WaitWakesInTime
  <1>2. ASSUME UNCHANGED <<phase, wake, blocked_wait_clients>>
        PROVE  WaitWakesInTime'
    BY <1>2 DEF WaitWakesInTime
  <1>3. ASSUME NEW c \in Clients, NEW w \in Writes, propagateAndNotifySlaves(c, w)
        PROVE  phase' = "dispatch"
    BY <1>3 DEF propagateAndNotifySlaves, Respond, Dispatching
  <1>4. ASSUME NEW c \in Clients, NEW n \in Needs, NEW t \in Timeouts, handle_wait(c, n, t)
        PROVE  phase' = "dispatch"
    BY <1>4 DEF handle_wait, WaitReplies, WaitBlocks, Respond, Dispatching
  <1>5. ASSUME NEW c \in Clients, handleWrite(c)
        PROVE  phase' = "dispatch"
    BY <1>5 DEF handleWrite, Dispatching
  <1>6. ASSUME NEW r \in Replicas, handle_psync(r) \/ handle_replconf(r)
        PROVE  phase' = "dispatch"
    BY <1>6 DEF handle_psync, handle_replconf, Dispatching
  <1>7. ASSUME NEW r \in Replicas, process_commands(r) \/ MasterConnectionWrite(r)
        PROVE  UNCHANGED <<phase, wake, blocked_wait_clients>>
    BY <1>7 DEF process_commands, MasterConnectionWrite, loop, waiting
  <1>8. ASSUME NEW x \in Clients \cup Replicas, handleClose(x)
        PROVE  phase' = "dispatch"
    BY <1>8 DEF handleClose, Dispatching
  <1>9. ASSUME LoopTurn
        PROVE  WaitWakesInTime'
    <2>1. wake' \in get_next_wait_timeout_ms(blocked_wait_clients')
      BY <1>9 DEF LoopTurn
    <2> QED
      BY <2>1 DEF get_next_wait_timeout_ms, WaitWakesInTime
  <1>10. ASSUME Tick \/ UNCHANGED vars
         PROVE  UNCHANGED <<phase, wake, blocked_wait_clients>>
    BY <1>10 DEF Tick, vars, waiting, loop
  <1> QED
    BY <1>1, <1>2, <1>3, <1>4, <1>5, <1>6, <1>7, <1>8, <1>9, <1>10
       DEF Next, TimerFires, EventsHandled

\* Every client that is answered from a set of blocked WAITs is answered
\* through one of them.
LEMMA AnsweredClients ==
    ASSUME TypeOK, NEW done, IsFiniteSet(done), NEW c \in Clients,
           Answer(done)[c] > 0, UnflushedOnlyIfEclipsed, c \in open
    PROVE  (\E b \in done : b.client = c) \/ c \in armed \cup eclipsed
  BY AnswerFacts DEF UnflushedOnlyIfEclipsed, TypeOK

\* UnflushedOnlyIfEclipsed is inductive.
LEMMA UnflushedInductive ==
    ASSUME TypeOK, Finite, UnflushedOnlyIfEclipsed, [Next]_vars
    PROVE  UnflushedOnlyIfEclipsed'
  <1> USE ConstantsAssumption
  <1>0. ASSUME NEW c \in Clients, Respond(c), open' = open, eclipsed' = eclipsed
        PROVE  UnflushedOnlyIfEclipsed'
    BY <1>0, RespondFacts DEF UnflushedOnlyIfEclipsed
  <1>1. ASSUME NEW c \in Clients, NEW w \in Writes, propagateAndNotifySlaves(c, w)
        PROVE  UnflushedOnlyIfEclipsed'
    BY <1>0, <1>1 DEF propagateAndNotifySlaves, waiting
  <1>2. ASSUME NEW c \in Clients, NEW n \in Needs, NEW t \in Timeouts, handle_wait(c, n, t)
        PROVE  UnflushedOnlyIfEclipsed'
    <2>1. CASE WaitReplies(c, n)
      BY <1>0, <1>2, <2>1 DEF handle_wait, WaitReplies, waiting
    <2>2. CASE WaitBlocks(c, n, t)
      BY <1>2, <2>2 DEF handle_wait, WaitBlocks, UnflushedOnlyIfEclipsed
    <2> QED
      BY <1>2, <2>1, <2>2 DEF handle_wait
  <1>3. ASSUME NEW c \in Clients, handleWrite(c)
        PROVE  UnflushedOnlyIfEclipsed'
    BY <1>3 DEF handleWrite, waiting, UnflushedOnlyIfEclipsed, TypeOK
  <1>4. ASSUME NEW r \in Replicas, handle_psync(r)
        PROVE  UnflushedOnlyIfEclipsed'
    BY <1>4 DEF handle_psync, waiting, UnflushedOnlyIfEclipsed
  <1>5. ASSUME NEW r \in Replicas, handle_replconf(r)
        PROVE  UnflushedOnlyIfEclipsed'
    <2> DEFINE offsets == [replica_offset EXCEPT ![r] = Head(read_buffer[r] \o to_master[r])]
               done == {b \in blocked_wait_clients :
                          Cardinality(Acked(offsets, b.master_offset)) >= b.num_replicas_needed}
               latest == {b \in done : \A d \in done : d.ticket <= b.ticket}
    <2>1. check_blocked_wait_clients(offsets) /\ open' = open
      BY <1>5 DEF handle_replconf
    <2> HIDE DEF offsets
    <2>2. /\ write_buffer' = Answer(done)
          /\ armed' = flush({b.client : b \in latest}, Answer(done))
          /\ eclipsed' = eclipsed \cup {b.client : b \in done \ latest}
      BY <2>1 DEF check_blocked_wait_clients
    <2>3. IsFiniteSet(done)
      BY FS_Subset DEF Finite
    <2> HIDE DEF done
    <2>4. ASSUME NEW c \in open \cap Clients, Answer(done)[c] > 0
          PROVE  c \in armed' \cup eclipsed'
      <3>1. CASE c \in armed \cup eclipsed
        BY <2>2, <3>1 DEF flush
      <3>2. ASSUME NEW b \in done, b.client = c
            PROVE  c \in armed' \cup eclipsed'
        <4>1. CASE b \in latest
          <5>1. c \in {d.client : d \in latest}
            BY <3>2, <4>1
          <5> HIDE DEF latest
          <5> QED
            BY <2>2, <2>4, <5>1 DEF flush
        <4>2. CASE b \notin latest
          <5> HIDE DEF latest
          <5> QED
            BY <2>2, <3>2, <4>2
        <4> QED
          BY <4>1, <4>2
      <3> QED
        BY <2>3, <2>4, <3>1, <3>2, AnsweredClients
    <2> QED
      BY <2>1, <2>2, <2>4 DEF UnflushedOnlyIfEclipsed
  <1>6. ASSUME NEW r \in Replicas, process_commands(r) \/ MasterConnectionWrite(r)
        PROVE  UnflushedOnlyIfEclipsed'
    <2>1. UNCHANGED <<waiting, write_buffer, open, armed>>
      BY <1>6 DEF process_commands, MasterConnectionWrite
    <2> QED
      BY <2>1 DEF waiting, UnflushedOnlyIfEclipsed
  <1>7. ASSUME NEW x \in Clients \cup Replicas, handleClose(x)
        PROVE  UnflushedOnlyIfEclipsed'
    BY <1>7 DEF handleClose, waiting, UnflushedOnlyIfEclipsed
  <1>8. ASSUME LoopTurn
        PROVE  UnflushedOnlyIfEclipsed'
    <2> DEFINE expired == {b \in blocked_wait_clients : is_expired(b)}
    <2>1. /\ write_buffer' = Answer(expired)
          /\ armed' = flush({b.client : b \in expired}, Answer(expired))
          /\ open' = open /\ eclipsed' = eclipsed
      BY <1>8 DEF LoopTurn, check_and_expire_blocked_wait_clients
    <2>2. IsFiniteSet(expired)
      BY FS_Subset DEF Finite
    <2> HIDE DEF expired
    <2>3. ASSUME NEW c \in open \cap Clients, Answer(expired)[c] > 0
          PROVE  c \in armed' \cup eclipsed'
      <3>1. (\E b \in expired : b.client = c) \/ c \in armed \cup eclipsed
        BY <2>2, <2>3, AnsweredClients
      <3> QED
        BY <2>1, <2>3, <3>1 DEF flush
    <2> QED
      BY <2>1, <2>3 DEF UnflushedOnlyIfEclipsed
  <1>9. ASSUME Tick \/ UNCHANGED vars
        PROVE  UnflushedOnlyIfEclipsed'
    BY <1>9 DEF Tick, vars, waiting, UnflushedOnlyIfEclipsed
  <1> QED
    BY <1>1, <1>2, <1>3, <1>4, <1>5, <1>6, <1>7, <1>8, <1>9
       DEF Next, TimerFires, EventsHandled

-----------------------------------------------------------------------------
(* A WAIT is not forgotten.                                                *)

\* Nothing has passed between the master and a replica that did not join.
Unregistered ==
    \A r \in Replicas \ slave_connections :
        /\ replica_offset[r] = 0 /\ stream[r] = <<>>
        /\ read_buffer[r] = <<>> /\ to_master[r] = <<>> /\ ack[r] = <<>>

\* Too few replicas have acknowledged what a blocked WAIT asked for.
StillShort ==
    \A b \in blocked_wait_clients :
        /\ b.master_offset > 0
        /\ Cardinality(Acked(replica_offset, b.master_offset)) < b.num_replicas_needed

\* When the last command a replica took is a GETACK, the last ACK under way
\* is the answer to it.
LastAck ==
    \A r \in Replicas :
        (received[r] > 0 /\ stream[r][received[r]].kind = "getack")
            => Acks(r)[Len(Acks(r))] = bytes_processed[r] - stream[r][received[r]].bytes

\* What a step does to the WAITs and to what is counted for them.
LEMMA WaitPath ==
    ASSUME [Next]_vars
    PROVE  \/ /\ UNCHANGED <<slave_connections, replica_offset>>
              /\ blocked_wait_clients' \subseteq blocked_wait_clients
           \/ /\ UNCHANGED <<slave_connections, replica_offset>> /\ offset # 0
              /\ \E b : /\ blocked_wait_clients' = blocked_wait_clients \cup {b}
                        /\ b.master_offset = offset
                        /\ Cardinality(Acked(replica_offset, offset)) < b.num_replicas_needed
           \/ /\ UNCHANGED <<blocked_wait_clients, replica_offset>>
              /\ \E q \in Replicas \ slave_connections :
                    slave_connections' = slave_connections \cup {q}
           \/ /\ UNCHANGED slave_connections
              /\ blocked_wait_clients' =
                   {b \in blocked_wait_clients :
                      ~(Cardinality(Acked(replica_offset', b.master_offset)) >= b.num_replicas_needed)}
  <1> DEFINE A == /\ UNCHANGED <<slave_connections, replica_offset>>
                  /\ blocked_wait_clients' \subseteq blocked_wait_clients
             B == /\ UNCHANGED <<slave_connections, replica_offset>> /\ offset # 0
                  /\ \E b : /\ blocked_wait_clients' = blocked_wait_clients \cup {b}
                            /\ b.master_offset = offset
                            /\ Cardinality(Acked(replica_offset, offset)) < b.num_replicas_needed
             C == /\ UNCHANGED <<blocked_wait_clients, replica_offset>>
                  /\ \E q \in Replicas \ slave_connections :
                        slave_connections' = slave_connections \cup {q}
             D == /\ UNCHANGED slave_connections
                  /\ blocked_wait_clients' =
                       {b \in blocked_wait_clients :
                          ~(Cardinality(Acked(replica_offset', b.master_offset)) >= b.num_replicas_needed)}
  <1>1. ASSUME NEW c \in Clients, NEW w \in Writes, propagateAndNotifySlaves(c, w)
        PROVE  A
    BY <1>1 DEF propagateAndNotifySlaves, waiting
  <1>2. ASSUME NEW c \in Clients, NEW n \in Needs, NEW t \in Timeouts, handle_wait(c, n, t)
        PROVE  A \/ B
    <2>1. UNCHANGED <<slave_connections, replica_offset>>
      BY <1>2 DEF handle_wait, master
    <2>2. CASE WaitReplies(c, n)
      BY <2>1, <2>2 DEF WaitReplies, waiting
    <2>3. CASE WaitBlocks(c, n, t)
      <3> DEFINE b == [client |-> c, timeout_at |-> IF t = 0 THEN Never ELSE now + t,
                       num_replicas_needed |-> n, master_offset |-> offset,
                       ticket |-> tickets + 1]
      <3>1. /\ blocked_wait_clients' = blocked_wait_clients \cup {b} /\ offset # 0
            /\ Cardinality(Acked(replica_offset, offset)) < n
        BY <2>3 DEF WaitBlocks
      <3>2. b.master_offset = offset /\ b.num_replicas_needed = n
        OBVIOUS
      <3> HIDE DEF b
      <3> QED
        BY <2>1, <3>1, <3>2
    <2> QED
      BY <1>2, <2>2, <2>3 DEF handle_wait
  <1>3. ASSUME NEW c \in Clients, handleWrite(c)
        PROVE  A
    BY <1>3 DEF handleWrite, master, waiting
  <1>4. ASSUME NEW r \in Replicas, handle_psync(r)
        PROVE  C
    BY <1>4 DEF handle_psync, waiting
  <1>5. ASSUME NEW r \in Replicas, handle_replconf(r)
        PROVE  D
    <2>1. check_blocked_wait_clients(replica_offset') /\ UNCHANGED slave_connections
      BY <1>5 DEF handle_replconf
    <2> QED
      BY <2>1 DEF check_blocked_wait_clients
  <1>6. ASSUME NEW r \in Replicas, process_commands(r) \/ MasterConnectionWrite(r)
        PROVE  A
    <2>1. UNCHANGED <<master, waiting>>
      BY <1>6 DEF process_commands, MasterConnectionWrite
    <2> QED
      BY <2>1 DEF master, waiting
  <1>7. ASSUME NEW x \in Clients \cup Replicas, handleClose(x)
        PROVE  A
    BY <1>7 DEF handleClose, master, waiting
  <1>8. ASSUME LoopTurn
        PROVE  A
    BY <1>8 DEF LoopTurn, check_and_expire_blocked_wait_clients, master
  <1>9. ASSUME Tick \/ UNCHANGED vars
        PROVE  A
    BY <1>9 DEF Tick, vars, master, waiting
  <1> HIDE DEF A, B, C, D
  <1>10. A \/ B \/ C \/ D
    BY <1>1, <1>2, <1>3, <1>4, <1>5, <1>6, <1>7, <1>8, <1>9 DEF Next, TimerFires, EventsHandled
  <1> QED
    BY <1>10 DEF A, B, C, D

\* Unregistered is inductive.
LEMMA UnregisteredInductive ==
    ASSUME TypeOK, Unregistered, [Next]_vars
    PROVE  Unregistered'
  <1>1. slave_connections \subseteq slave_connections'
    BY WaitPath
  <1>2. ASSUME NEW r \in Replicas, r \notin slave_connections'
        PROVE  /\ replica_offset'[r] = 0 /\ stream'[r] = <<>>
               /\ read_buffer'[r] = <<>> /\ to_master'[r] = <<>> /\ ack'[r] = <<>>
    <2>1. /\ r \notin slave_connections /\ replica_offset[r] = 0 /\ stream[r] = <<>>
          /\ read_buffer[r] = <<>> /\ to_master[r] = <<>> /\ ack[r] = <<>>
      BY <1>1, <1>2 DEF Unregistered
    <2>2. stream'[r] = <<>>
      BY <2>1, StreamPath
    <2>3. ~process_commands(r)
      <3>1. Len(stream[r]) = 0 /\ received[r] \in Nat
        BY <2>1, ReplicaTypes
      <3> QED
        BY <3>1 DEF process_commands
    <2>4. ~MasterConnectionWrite(r) /\ ~handle_replconf(r)
      BY <2>1 DEF MasterConnectionWrite, handle_replconf
    <2> QED
      BY <2>1, <2>2, <2>3, <2>4, AckPath
  <1> QED
    BY <1>2 DEF Unregistered

\* StillShort is inductive: an ACK answers the WAITs it completes, and a
\* replica that joins has acknowledged nothing.
LEMMA ShortInductive ==
    ASSUME TypeOK, Finite, Unregistered, StillShort, [Next]_vars
    PROVE  StillShort'
  <1>4. \A b \in blocked_wait_clients : b.num_replicas_needed \in Nat /\ b.master_offset \in Nat
    BY DEF TypeOK, BlockedWaitClient
  <1>5. CASE /\ UNCHANGED <<slave_connections, replica_offset>>
             /\ blocked_wait_clients' \subseteq blocked_wait_clients
    BY <1>5 DEF StillShort, Acked
  <1>6. CASE /\ UNCHANGED <<slave_connections, replica_offset>> /\ offset # 0
             /\ \E b : /\ blocked_wait_clients' = blocked_wait_clients \cup {b}
                       /\ b.master_offset = offset
                       /\ Cardinality(Acked(replica_offset, offset)) < b.num_replicas_needed
    <2>1. offset > 0
      BY <1>6 DEF TypeOK
    <2>2. \A goal : Acked(replica_offset, goal)' = Acked(replica_offset, goal)
      BY <1>6 DEF Acked
    <2>3. ASSUME NEW b \in blocked_wait_clients'
          PROVE  /\ b.master_offset > 0
                 /\ Cardinality(Acked(replica_offset, b.master_offset)) < b.num_replicas_needed
      <3>1. CASE b \in blocked_wait_clients
        BY <3>1 DEF StillShort
      <3>2. CASE b \notin blocked_wait_clients
        BY <1>6, <2>1, <3>2
      <3> QED
        BY <3>1, <3>2
    <2> QED
      BY <2>2, <2>3 DEF StillShort
  <1>7. CASE /\ UNCHANGED <<blocked_wait_clients, replica_offset>>
             /\ \E q \in Replicas \ slave_connections :
                   slave_connections' = slave_connections \cup {q}
    <2>1. PICK q \in Replicas \ slave_connections : slave_connections' = slave_connections \cup {q}
      BY <1>7
    <2>2. replica_offset[q] = 0
      BY DEF Unregistered
    <2>3. ASSUME NEW b \in blocked_wait_clients
          PROVE  Acked(replica_offset, b.master_offset)' = Acked(replica_offset, b.master_offset)
      <3>1. ~(replica_offset[q] >= b.master_offset)
        BY <1>4, <2>2 DEF StillShort
      <3> QED
        BY <1>7, <2>1, <3>1 DEF Acked
    <2> QED
      BY <1>7, <2>3 DEF StillShort
  <1>8. CASE /\ UNCHANGED slave_connections
             /\ blocked_wait_clients' =
                  {b \in blocked_wait_clients :
                     ~(Cardinality(Acked(replica_offset', b.master_offset)) >= b.num_replicas_needed)}
    <2>1. ASSUME NEW b \in blocked_wait_clients'
          PROVE  /\ b.master_offset > 0
                 /\ Cardinality(Acked(replica_offset, b.master_offset)') < b.num_replicas_needed
      <3>1. Acked(replica_offset, b.master_offset)' = Acked(replica_offset', b.master_offset)
        BY <1>8 DEF Acked
      <3>2. Cardinality(Acked(replica_offset', b.master_offset)) \in Nat
        <4>1. Acked(replica_offset', b.master_offset) \subseteq slave_connections
          BY DEF Acked
        <4> QED
          BY <4>1, FS_Subset, FS_CardinalityType DEF Finite
      <3>3. /\ b \in blocked_wait_clients /\ b.num_replicas_needed \in Nat
            /\ ~(Cardinality(Acked(replica_offset', b.master_offset)) >= b.num_replicas_needed)
        BY <1>4, <1>8
      <3> QED
        BY <3>1, <3>2, <3>3 DEF StillShort
    <2> QED
      BY <2>1 DEF StillShort
  <1> QED
    BY <1>5, <1>6, <1>7, <1>8, WaitPath

\* What was queued for a replica stays where it is in its stream.
LEMMA StreamKept ==
    ASSUME TypeOK, [Next]_vars, NEW r \in Replicas, NEW i \in 1 .. Len(stream[r])
    PROVE  stream'[r][i] = stream[r][i]
  <1>1. \A cmd \in Command : Append(stream[r], cmd)[i] = stream[r][i]
    BY ReplicaTypes, AppendProperties
  <1> QED
    BY <1>1, StreamPath

\* The last number of a concatenation is the last one of its second part.
LEMMA LastOfConcat ==
    ASSUME NEW s \in Seq(Nat), NEW t \in Seq(Nat), t # <<>>
    PROVE  (s \o t)[Len(s \o t)] = t[Len(t)]
  <1>1. Len(s) \in Nat /\ Len(t) \in Nat /\ Len(t) > 0
    BY EmptySeq
  <1>2. /\ Len(s \o t) = Len(s) + Len(t)
        /\ \A i \in 1 .. Len(s) + Len(t) : (s \o t)[i] = IF i <= Len(s) THEN s[i] ELSE t[i - Len(s)]
    BY ConcatProperties
  <1>3. Len(s) + Len(t) \in 1 .. Len(s) + Len(t) /\ ~(Len(s) + Len(t) <= Len(s))
        /\ Len(s) + Len(t) - Len(s) = Len(t)
    BY <1>1
  <1>4. (s \o t)[Len(s) + Len(t)] = t[Len(s) + Len(t) - Len(s)]
    BY <1>2, <1>3
  <1> QED
    BY <1>2, <1>3, <1>4

\* LastAck is inductive.
LEMMA LastAckInductive ==
    ASSUME TypeOK, TypeOK', LastAck, [Next]_vars
    PROVE  LastAck'
  <1>1. ASSUME NEW r \in Replicas, received'[r] > 0, stream'[r][received'[r]].kind = "getack"
        PROVE  (Acks(r)[Len(Acks(r))])' = bytes_processed'[r] - stream'[r][received'[r]].bytes
    <2>0. /\ Acks(r)' \in Seq(Nat) /\ replica_offset[r] \in Nat
          /\ received[r] \in Nat /\ received[r] <= Len(stream[r]) /\ Len(stream[r]) \in Nat
          /\ bytes_processed[r] \in Nat
      BY ReplicaTypes, AcksTypeNext
    <2>1. ASSUME received'[r] = received[r]
          PROVE  /\ stream'[r][received'[r]] = stream[r][received[r]]
                 /\ Acks(r)[Len(Acks(r))] = bytes_processed[r] - stream[r][received[r]].bytes
      <3>1. received[r] \in 1 .. Len(stream[r])
        BY <1>1, <2>0, <2>1
      <3>2. stream'[r][received[r]] = stream[r][received[r]]
        BY <3>1, StreamKept
      <3> QED
        BY <1>1, <2>1, <3>2 DEF LastAck
    <2>2. CASE /\ Acks(r)' = Acks(r) /\ bytes_processed'[r] = bytes_processed[r]
               /\ received'[r] = received[r]
      BY <2>1, <2>2
    <2>3. CASE /\ Acks(r)' # <<>> /\ Acks(r) = <<replica_offset[r]>> \o Acks(r)'
               /\ bytes_processed'[r] = bytes_processed[r] /\ received'[r] = received[r]
      <3>1. <<replica_offset[r]>> \in Seq(Nat)
        BY <2>0
      <3>2. Acks(r)[Len(Acks(r))] = Acks(r)'[Len(Acks(r)')]
        BY <2>0, <2>3, <3>1, LastOfConcat
      <3> QED
        BY <2>1, <2>3, <3>2
    <2>4. ASSUME NEW P \in Seq(Nat), Acks(r) = P \o ack[r], Acks(r)' = P \o ack'[r],
                 process_commands(r)
          PROVE  (Acks(r)[Len(Acks(r))])' = bytes_processed'[r] - stream'[r][received'[r]].bytes
      <3> DEFINE cmd == stream[r][received[r] + 1]
      <3>1. /\ stream'[r][received'[r]] = cmd /\ cmd.bytes \in Nat
            /\ bytes_processed'[r] = bytes_processed[r] + cmd.bytes
            /\ ack'[r] = IF cmd.kind = "getack" THEN <<bytes_processed[r]>> ELSE <<>>
        BY <2>4, TakenFacts
      <3> HIDE DEF cmd
      <3>2. ack'[r] = <<bytes_processed[r]>>
        BY <1>1, <3>1
      <3>3. <<bytes_processed[r]>> \in Seq(Nat) /\ <<bytes_processed[r]>> # <<>>
            /\ <<bytes_processed[r]>>[Len(<<bytes_processed[r]>>)] = bytes_processed[r]
        BY <2>0
      <3>4. Acks(r)'[Len(Acks(r)')] = bytes_processed[r]
        BY <2>4, <3>2, <3>3, LastOfConcat
      <3>5. bytes_processed'[r] - cmd.bytes = bytes_processed[r]
        BY <2>0, <3>1
      <3> QED
        BY <3>1, <3>4, <3>5
    <2> QED
      BY <2>2, <2>3, <2>4, AcksMove
  <1> QED
    BY <1>1 DEF LastAck

\* A replica that has settled is counted, so WaitNotForgotten follows.
LEMMA ShortIsNotForgotten ==
    ASSUME TypeOK, Finite, StillShort, LastAck
    PROVE  WaitNotForgotten
  <1> SUFFICES ASSUME NEW b \in blocked_wait_clients
               PROVE  Cardinality({r \in slave_connections :
                                     Quiet(r) /\ AnsweredLast(r, b.master_offset)})
                        < b.num_replicas_needed
    BY DEF WaitNotForgotten
  <1> DEFINE settled == {r \in slave_connections : Quiet(r) /\ AnsweredLast(r, b.master_offset)}
             acked == Acked(replica_offset, b.master_offset)
  <1>1. ASSUME NEW r \in slave_connections, Quiet(r), AnsweredLast(r, b.master_offset)
        PROVE  replica_offset[r] >= b.master_offset
    <2>1. r \in Replicas
      BY DEF TypeOK
    <2>2. /\ received[r] = Len(stream[r]) /\ read_buffer[r] = <<>>
          /\ to_master[r] = <<>> /\ ack[r] = <<>>
      BY <1>1 DEF Quiet
    <2>3. <<replica_offset[r]>> \in Seq(Nat)
      <3>1. replica_offset[r] \in Nat
        BY <2>1, ReplicaTypes
      <3> QED
        BY <3>1
    <2>4. \A s \in Seq(Nat) : s \o <<>> = s
      BY ConcatEmptySeq
    <2>5. Acks(r) = <<replica_offset[r]>>
      BY <2>2, <2>3, <2>4 DEF Acks
    <2>6. Acks(r)[Len(Acks(r))] = replica_offset[r]
      BY <2>5
    <2>7. received[r] > 0
      BY <1>1, <2>1, <2>2, ReplicaTypes, EmptySeq DEF AnsweredLast
    <2>8. replica_offset[r] = bytes_processed[r] - stream[r][received[r]].bytes
      BY <1>1, <2>1, <2>2, <2>6, <2>7 DEF AnsweredLast, LastAck
    <2> QED
      BY <1>1, <2>2, <2>8 DEF AnsweredLast
  <1>2. settled \subseteq acked /\ acked \subseteq slave_connections
    BY <1>1 DEF Acked
  <1>3. Cardinality(acked) < b.num_replicas_needed /\ b.num_replicas_needed \in Nat
    BY DEF StillShort, TypeOK, BlockedWaitClient
  <1> HIDE DEF settled, acked
  <1>4. IsFiniteSet(acked)
    BY <1>2, FS_Subset DEF Finite
  <1>5. /\ Cardinality(settled) <= Cardinality(acked)
        /\ Cardinality(settled) \in Nat /\ Cardinality(acked) \in Nat
    BY <1>2, <1>4, FS_Subset, FS_CardinalityType
  <1>6. Cardinality(settled) < b.num_replicas_needed
    BY <1>3, <1>5
  <1> QED
    BY <1>6 DEF settled

-----------------------------------------------------------------------------
(* A replica that lacks a write is counted only when it runs ahead.        *)

\* f says how far the master's offset had moved, since the replica joined,
\* when the commands of its stream were queued.
Timetable(r, f) ==
    /\ f \in [0 .. Len(stream[r]) -> Nat]
    /\ \A i, j \in 0 .. Len(stream[r]) : i < j => f[i] + stream[r][j].moved <= f[j]
    /\ f[Len(stream[r])] <= offset

\* No command that r took counts for more than it moved the offset.
InStep(r) == \A j \in 1 .. received[r] : stream[r][j].bytes <= stream[r][j].moved

\* While r is in step its count keeps to f, and so does every ACK of a
\* replica that does not run ahead.
Covers(r, f) ==
    /\ InStep(r) => bytes_processed[r] <= f[received[r]]
    /\ \A i \in 1 .. Len(Acks(r)) : Acks(r)[i] <= f[received[r]] \/ RunsAhead(r)

Scheduled == \A r \in Replicas : \E f : Timetable(r, f) /\ Covers(r, f)

\* Every write in a stream moved the offset.
WritesMove ==
    \A r \in Replicas : \A i \in 1 .. Len(stream[r]) :
        stream[r][i].kind = "write" => stream[r][i].moved > 0

\* WritesMove is inductive.
LEMMA WritesMoveInductive ==
    ASSUME TypeOK, WritesMove, [Next]_vars
    PROVE  WritesMove'
  <1>1. ASSUME NEW r \in Replicas, NEW i \in 1 .. Len(stream'[r]), stream'[r][i].kind = "write"
        PROVE  stream'[r][i].moved > 0
    <2>0. stream[r] \in Seq(Command) /\ Len(stream[r]) \in Nat
      BY ReplicaTypes
    <2>1. CASE i \in 1 .. Len(stream[r])
      BY <1>1, <2>1, StreamKept DEF WritesMove
    <2>2. CASE i \notin 1 .. Len(stream[r])
      <3>1. stream'[r] # stream[r]
        BY <2>2
      <3>2. PICK cmd \in Command : /\ cmd.kind = "write" => cmd.moved > 0
                                   /\ stream'[r] = Append(stream[r], cmd)
        BY <3>1, StreamPath
      <3>3. /\ Len(stream'[r]) = Len(stream[r]) + 1
            /\ stream'[r][Len(stream[r]) + 1] = cmd
        BY <2>0, <3>2, AppendProperties
      <3>4. i = Len(stream[r]) + 1
        BY <2>0, <2>2, <3>3
      <3> QED
        BY <1>1, <3>2, <3>3, <3>4
    <2> QED
      BY <2>1, <2>2
  <1> QED
    BY <1>1 DEF WritesMove

\* A timetable can be carried on.
LEMMA TimetableGrows ==
    ASSUME TypeOK, TypeOK', [Next]_vars, NEW r \in Replicas, NEW f, Timetable(r, f)
    PROVE  \E g : /\ Timetable(r, g)'
                  /\ \A i \in 0 .. Len(stream[r]) : g[i] = f[i]
  <1> DEFINE n == Len(stream[r])
  <1>0. /\ stream[r] \in Seq(Command) /\ n \in Nat /\ offset \in Nat /\ offset' \in Nat
        /\ n \in 0 .. n
    BY ReplicaTypes DEF TypeOK
  <1>1. /\ f \in [0 .. n -> Nat] /\ f[n] <= offset /\ f[n] \in Nat
        /\ \A i, j \in 0 .. n : i < j => f[i] + stream[r][j].moved <= f[j]
    BY <1>0 DEF Timetable
  <1>2. CASE stream'[r] = stream[r] /\ offset <= offset'
    <2>1. f[n] <= offset'
      BY <1>0, <1>1, <1>2
    <2>2. Timetable(r, f)'
      BY <1>1, <1>2, <2>1 DEF Timetable
    <2> QED
      BY <2>2
  <1>3. ASSUME NEW cmd \in Command, stream'[r] = Append(stream[r], cmd), offset' = offset + cmd.moved
        PROVE  \E g : /\ Timetable(r, g)'
                      /\ \A i \in 0 .. Len(stream[r]) : g[i] = f[i]
    <2>1. /\ Len(stream'[r]) = n + 1 /\ stream'[r][n + 1] = cmd
          /\ \A i \in 1 .. n : stream'[r][i] = stream[r][i]
      BY <1>0, <1>3, AppendProperties
    <2>2. cmd.moved \in Nat
      BY DEF Command
    <2> HIDE DEF n
    <2>3. PICK g : /\ g \in [0 .. n + 1 -> Nat] /\ g[n + 1] = offset'
                   /\ \A i \in 0 .. n : g[i] = f[i]
      <3> DEFINE h == [i \in 0 .. n + 1 |-> IF i = n + 1 THEN offset' ELSE f[i]]
      <3>1. /\ h \in [0 .. n + 1 -> Nat] /\ h[n + 1] = offset'
            /\ \A i \in 0 .. n : h[i] = f[i]
        BY <1>0, <1>1
      <3> HIDE DEF h
      <3> QED
        BY <3>1
    <2>4. ASSUME NEW i \in 0 .. n + 1, NEW j \in 0 .. n + 1, i < j
          PROVE  g[i] + stream'[r][j].moved <= g[j]
      <3>1. CASE j = n + 1
        <4>1. i \in 0 .. n /\ g[i] = f[i] /\ f[i] \in Nat
          BY <1>0, <1>1, <2>3, <2>4, <3>1
        <4>2. f[i] <= f[n]
          <5>1. CASE i = n
            BY <1>1, <5>1
          <5>2. CASE i # n
            <6>1. i < n /\ n \in 1 .. n
              BY <1>0, <4>1, <5>2
            <6>2. stream[r][n] \in Command
              BY <1>0, <6>1, ElementOfSeq DEF n
            <6>3. stream[r][n].moved \in Nat
              BY <6>2 DEF Command
            <6>4. f[i] + stream[r][n].moved <= f[n]
              BY <1>0, <1>1, <4>1, <6>1
            <6> QED
              BY <1>1, <4>1, <6>3, <6>4
          <5> QED
            BY <5>1, <5>2
        <4> QED
          BY <1>0, <1>1, <1>3, <2>1, <2>2, <2>3, <3>1, <4>1, <4>2
      <3>2. CASE j # n + 1
        <4>1. i \in 0 .. n /\ j \in 0 .. n /\ j \in 1 .. n
          BY <1>0, <2>4, <3>2
        <4> QED
          BY <1>1, <2>1, <2>3, <2>4, <4>1
      <3> QED
        BY <3>1, <3>2
    <2>5. g[n + 1] <= offset'
      BY <1>0, <2>3
    <2>6. Timetable(r, g)'
      BY <2>1, <2>3, <2>4, <2>5 DEF Timetable
    <2> QED
      BY <2>3, <2>6 DEF n
  <1> QED
    BY <1>2, <1>3, StreamPath

\* A replica that ran ahead has run ahead for good, and one that is in step
\* has always been.
LEMMA AheadForGood ==
    ASSUME TypeOK, [Next]_vars, NEW r \in Replicas
    PROVE  /\ received'[r] \in {received[r], received[r] + 1}
           /\ received'[r] <= Len(stream[r])
           /\ RunsAhead(r) => RunsAhead(r)'
           /\ InStep(r)' => InStep(r)
  <1>0. received[r] \in Nat /\ received[r] <= Len(stream[r]) /\ Len(stream[r]) \in Nat
    BY ReplicaTypes
  <1>1. received'[r] \in {received[r], received[r] + 1} /\ received'[r] <= Len(stream[r])
    <2>1. CASE process_commands(r)
      <3>1. received[r] + 1 \in 1 .. Len(stream[r]) /\ received'[r] = received[r] + 1
        BY <2>1, TakenFacts
      <3> QED
        BY <1>0, <3>1
    <2>2. CASE received'[r] = received[r]
      BY <1>0, <2>2
    <2> QED
      BY <2>1, <2>2, AcksMove
  <1>2. \A i \in 1 .. received[r] : i \in 1 .. Len(stream[r]) /\ i \in 1 .. received'[r]
                                    /\ stream'[r][i] = stream[r][i]
    <2>1. \A i \in 1 .. received[r] : i \in 1 .. Len(stream[r]) /\ i \in 1 .. received'[r]
      BY <1>0, <1>1
    <2> QED
      BY <2>1, StreamKept
  <1>3. ASSUME RunsAhead(r)
        PROVE  RunsAhead(r)'
    <2>1. PICK i \in 1 .. received[r] :
             /\ stream[r][i].kind = "getack"
             /\ \E j \in 1 .. i - 1 : stream[r][j].bytes > stream[r][j].moved
      BY <1>3 DEF RunsAhead
    <2>2. PICK j \in 1 .. i - 1 : stream[r][j].bytes > stream[r][j].moved
      BY <2>1
    <2>3. j \in 1 .. received[r]
      BY <1>0
    <2>4. i \in 1 .. received'[r] /\ stream'[r][i] = stream[r][i] /\ stream'[r][j] = stream[r][j]
      BY <1>2, <2>3
    <2> QED
      BY <2>1, <2>2, <2>4 DEF RunsAhead
  <1>4. ASSUME InStep(r)'
        PROVE  InStep(r)
    BY <1>2, <1>4 DEF InStep
  <1> QED
    BY <1>1, <1>3, <1>4

\* Covers is kept with the timetable.
LEMMA CoversKept ==
    ASSUME TypeOK, TypeOK', [Next]_vars, NEW r \in Replicas,
           NEW f, Timetable(r, f), Covers(r, f),
           NEW g, \A i \in 0 .. Len(stream[r]) : g[i] = f[i]
    PROVE  Covers(r, g)'
  <1>0. /\ received[r] \in Nat /\ received[r] <= Len(stream[r]) /\ Len(stream[r]) \in Nat
        /\ bytes_processed[r] \in Nat /\ replica_offset[r] \in Nat /\ ack[r] \in Seq(Nat)
        /\ Acks(r) \in Seq(Nat) /\ Acks(r)' \in Seq(Nat)
    BY ReplicaTypes, AcksType, AcksTypeNext
  <1>1. g[received[r]] = f[received[r]] /\ f[received[r]] \in Nat
    <2>1. received[r] \in 0 .. Len(stream[r])
      BY <1>0
    <2> QED
      BY <2>1 DEF Timetable
  <1>2. ASSUME NEW i \in 1 .. Len(Acks(r))
        PROVE  Acks(r)[i] <= f[received[r]] \/ RunsAhead(r)'
    BY AheadForGood DEF Covers
  <1>3. InStep(r)' => bytes_processed[r] <= f[received[r]]
    BY AheadForGood DEF Covers
  <1>4. CASE /\ Acks(r)' = Acks(r) /\ bytes_processed'[r] = bytes_processed[r]
             /\ received'[r] = received[r]
    <2>1. (Len(Acks(r)))' = Len(Acks(r))
      BY <1>4
    <2> QED
      BY <1>1, <1>2, <1>3, <1>4, <2>1 DEF Covers
  <1>5. CASE /\ Acks(r) = <<replica_offset[r]>> \o Acks(r)'
             /\ bytes_processed'[r] = bytes_processed[r] /\ received'[r] = received[r]
    <2>1. ASSUME NEW s \in Seq(Nat), NEW x \in Nat, NEW i \in 1 .. Len(s)
          PROVE  i + 1 \in 1 .. Len(<<x>> \o s) /\ (<<x>> \o s)[i + 1] = s[i]
      OBVIOUS
    <2>2. ASSUME NEW i \in 1 .. Len(Acks(r)')
          PROVE  i + 1 \in 1 .. Len(Acks(r)) /\ Acks(r)[i + 1] = Acks(r)'[i]
      BY <1>0, <1>5, <2>1
    <2>3. ASSUME NEW i \in 1 .. Len(Acks(r)')
          PROVE  Acks(r)'[i] <= g[received'[r]] \/ RunsAhead(r)'
      BY <1>1, <1>2, <1>5, <2>2
    <2> QED
      BY <1>1, <1>3, <1>5, <2>3 DEF Covers
  <1>6. ASSUME NEW P \in Seq(Nat), Acks(r) = P \o ack[r], Acks(r)' = P \o ack'[r],
               process_commands(r)
        PROVE  Covers(r, g)'
    <2> DEFINE n == received[r]
               cmd == stream[r][n + 1]
    <2>1. /\ n + 1 \in 1 .. Len(stream[r]) /\ cmd.bytes \in Nat /\ cmd.moved \in Nat
          /\ received'[r] = n + 1 /\ stream' = stream
          /\ bytes_processed'[r] = bytes_processed[r] + cmd.bytes
          /\ ack'[r] = IF cmd.kind = "getack" THEN <<bytes_processed[r]>> ELSE <<>>
      BY <1>6, TakenFacts
    <2>2. /\ n \in 0 .. Len(stream[r]) /\ n + 1 \in 0 .. Len(stream[r]) /\ n < n + 1
          /\ n \in Nat /\ f[n] \in Nat
      BY <1>0, <1>1, <2>1
    <2>3. /\ f[n] + cmd.moved <= f[n + 1] /\ g[n + 1] = f[n + 1] /\ f[n + 1] \in Nat
      BY <2>2 DEF Timetable
    <2>4. InStep(r)' => cmd.bytes <= cmd.moved
      <3>1. n + 1 \in 1 .. n + 1
        BY <2>2
      <3> HIDE DEF n
      <3> QED
        BY <2>1, <3>1 DEF InStep, n
    <2>5. f[n] <= g[n + 1]
      BY <2>1, <2>2, <2>3
    <2>6. InStep(r)' => bytes_processed'[r] <= g[received'[r]]
      <3> HIDE DEF cmd, n
      <3>1. InStep(r)' => bytes_processed[r] <= f[n]
        BY <1>3 DEF n
      <3>2. ASSUME InStep(r)'
            PROVE  bytes_processed[r] + cmd.bytes <= g[n + 1]
        <4>1. bytes_processed[r] <= f[n] /\ cmd.bytes <= cmd.moved
          BY <2>4, <3>1, <3>2
        <4>2. f[n] + cmd.moved <= g[n + 1] /\ f[n] \in Nat /\ cmd.moved \in Nat
              /\ cmd.bytes \in Nat /\ bytes_processed[r] \in Nat /\ g[n + 1] \in Nat
          BY <1>0, <2>1, <2>2, <2>3
        <4> QED
          BY <4>1, <4>2
      <3> QED
        BY <2>1, <3>2
    <2>7. bytes_processed[r] <= f[n] \/ cmd.kind # "getack" \/ RunsAhead(r)'
      <3> SUFFICES ASSUME ~(bytes_processed[r] <= f[n]), cmd.kind = "getack"
                   PROVE  RunsAhead(r)'
        OBVIOUS
      <3>1. PICK j \in 1 .. n : ~(stream[r][j].bytes <= stream[r][j].moved)
        BY DEF Covers, InStep
      <3>2. j \in 1 .. Len(stream[r])
        BY <1>0
      <3>3. stream[r][j] \in Command
        BY <3>2, ReplicaTypes, ElementOfSeq
      <3>4. stream[r][j].bytes > stream[r][j].moved
        BY <3>1, <3>3 DEF Command
      <3>5. n + 1 \in 1 .. received'[r] /\ j \in 1 .. (n + 1) - 1
        BY <2>1, <2>2
      <3> QED
        BY <2>1, <3>4, <3>5 DEF RunsAhead
    <2> HIDE DEF cmd, n
    <2>8. ASSUME NEW i \in 1 .. Len(Acks(r)')
          PROVE  Acks(r)'[i] <= g[n + 1] \/ RunsAhead(r)'
      <3>0. /\ Len(P) \in Nat /\ Len(ack[r]) \in Nat
            /\ Len(Acks(r)) = Len(P) + Len(ack[r])
            /\ \A k \in 1 .. Len(P) : Acks(r)[k] = P[k] /\ P[k] \in Nat
        BY <1>0, <1>6, SMTT(30)
      <3>1. CASE i \in 1 .. Len(P)
        <4>1. Acks(r)'[i] = P[i] /\ P[i] \in Nat
          <5>1. ack'[r] \in Seq(Nat)
            BY DEF TypeOK
          <5>2. \A t \in Seq(Nat) : (P \o t)[i] = P[i]
            BY <3>1, ConcatProperties
          <5> QED
            BY <1>6, <3>0, <3>1, <5>1, <5>2
        <4>2. i \in 1 .. Len(Acks(r)) /\ Acks(r)[i] = P[i]
          BY <3>0, <3>1
        <4>3. P[i] <= f[n] \/ RunsAhead(r)'
          BY <1>2, <4>2 DEF n
        <4> QED
          BY <2>2, <2>3, <2>5, <4>1, <4>3
      <3>2. CASE i \notin 1 .. Len(P)
        <4>1. cmd.kind = "getack"
          <5>1. SUFFICES ASSUME cmd.kind # "getack" PROVE FALSE
            OBVIOUS
          <5>2. ack'[r] = <<>>
            BY <2>1, <5>1
          <5>3. Acks(r)' = P
            BY <1>6, <5>2, ConcatEmptySeq
          <5> QED
            BY <3>2, <5>3
        <4>2. Acks(r)' = P \o <<bytes_processed[r]>>
          BY <1>6, <2>1, <4>1
        <4>3. /\ Len(P \o <<bytes_processed[r]>>) = Len(P) + 1
              /\ (P \o <<bytes_processed[r]>>)[Len(P) + 1] = bytes_processed[r]
          BY <1>0
        <4>4. Len(Acks(r)') = Len(P) + 1
          BY <4>2, <4>3
        <4>5. i = Len(P) + 1
          BY <3>0, <3>2, <4>4
        <4>6. Acks(r)'[i] = bytes_processed[r]
          BY <4>2, <4>3, <4>5
        <4> QED
          BY <1>0, <2>2, <2>3, <2>5, <2>7, <4>1, <4>6
      <3> QED
        BY <3>1, <3>2
    <2> QED
      BY <2>1, <2>6, <2>8 DEF Covers
  <1> QED
    BY <1>4, <1>5, <1>6, AcksMove

\* The schedule is inductive.
LEMMA ScheduledInductive ==
    ASSUME TypeOK, TypeOK', Scheduled, [Next]_vars
    PROVE  Scheduled'
  <1>1. ASSUME NEW r \in Replicas
        PROVE  \E g : Timetable(r, g)' /\ Covers(r, g)'
    <2>1. PICK f : Timetable(r, f) /\ Covers(r, f)
      BY DEF Scheduled
    <2>2. PICK g : /\ Timetable(r, g)'
                   /\ \A i \in 0 .. Len(stream[r]) : g[i] = f[i]
      BY <2>1, TimetableGrows
    <2>3. Covers(r, g)'
      BY <2>1, <2>2, CoversKept
    <2> QED
      BY <2>2, <2>3
  <1> QED
    BY <1>1 DEF Scheduled

\* CountedUnlessAhead follows: an ACK that reaches the offset without running
\* ahead leaves no room for a write the replica has not taken.
LEMMA ScheduledIsCounted ==
    ASSUME TypeOK, WritesMove, Scheduled
    PROVE  CountedUnlessAhead
  <1> SUFFICES ASSUME NEW r \in Acked(replica_offset, offset), ~RunsAhead(r),
                      NEW i \in DOMAIN stream[r], stream[r][i].kind = "write", ~(i <= received[r])
               PROVE  FALSE
    BY DEF CountedUnlessAhead, HasAllWrites
  <1>1. r \in Replicas /\ replica_offset[r] >= offset /\ offset \in Nat
    BY DEF Acked, TypeOK
  <1> DEFINE n == received[r]
  <1>2. /\ n \in Nat /\ n <= Len(stream[r]) /\ Len(stream[r]) \in Nat
        /\ stream[r] \in Seq(Command) /\ replica_offset[r] \in Nat
        /\ read_buffer[r] \in Seq(Nat) /\ to_master[r] \in Seq(Nat) /\ ack[r] \in Seq(Nat)
    BY <1>1, ReplicaTypes
  <1>3. i \in 1 .. Len(stream[r]) /\ n < i
    BY <1>2
  <1>4. PICK f : Timetable(r, f) /\ Covers(r, f)
    BY <1>1 DEF Scheduled
  <1>5. Acks(r)[1] = replica_offset[r] /\ 1 \in 1 .. Len(Acks(r))
    <2>1. \A s, t \in Seq(Nat) : 1 \in 1 .. Len(s) => /\ s \o t \in Seq(Nat)
                                                      /\ 1 \in 1 .. Len(s \o t)
                                                      /\ (s \o t)[1] = s[1]
      OBVIOUS
    <2>2. /\ <<replica_offset[r]>> \in Seq(Nat) /\ 1 \in 1 .. Len(<<replica_offset[r]>>)
          /\ <<replica_offset[r]>>[1] = replica_offset[r]
      BY <1>2
    <2>3. /\ <<replica_offset[r]>> \o read_buffer[r] \in Seq(Nat)
          /\ 1 \in 1 .. Len(<<replica_offset[r]>> \o read_buffer[r])
          /\ (<<replica_offset[r]>> \o read_buffer[r])[1] = replica_offset[r]
      BY <1>2, <2>1, <2>2
    <2>4. /\ (<<replica_offset[r]>> \o read_buffer[r]) \o to_master[r] \in Seq(Nat)
          /\ 1 \in 1 .. Len((<<replica_offset[r]>> \o read_buffer[r]) \o to_master[r])
          /\ ((<<replica_offset[r]>> \o read_buffer[r]) \o to_master[r])[1] = replica_offset[r]
      BY <1>2, <2>1, <2>3
    <2> QED
      BY <1>2, <2>1, <2>4 DEF Acks
  <1>6. replica_offset[r] <= f[n]
    BY <1>4, <1>5 DEF Covers
  <1>7. /\ n \in 0 .. Len(stream[r]) /\ i \in 0 .. Len(stream[r])
        /\ Len(stream[r]) \in 0 .. Len(stream[r])
    BY <1>2, <1>3
  <1>8. /\ f[n] \in Nat /\ f[i] \in Nat /\ f[Len(stream[r])] \in Nat
        /\ f[n] + stream[r][i].moved <= f[i] /\ f[Len(stream[r])] <= offset
        /\ i < Len(stream[r]) => f[i] + stream[r][Len(stream[r])].moved <= f[Len(stream[r])]
    BY <1>3, <1>4, <1>7 DEF Timetable
  <1>9. stream[r][i].moved \in Nat /\ stream[r][i].moved > 0
    <2>1. stream[r][i] \in Command
      BY <1>2, <1>3, ElementOfSeq
    <2> QED
      BY <1>1, <1>3, <2>1 DEF WritesMove, Command
  <1>10. f[i] <= f[Len(stream[r])]
    <2>1. CASE i = Len(stream[r])
      BY <1>8, <2>1
    <2>2. CASE i < Len(stream[r])
      <3>1. Len(stream[r]) \in 1 .. Len(stream[r])
        BY <1>2, <1>3, <2>2
      <3>2. stream[r][Len(stream[r])] \in Command
        BY <1>2, <3>1, ElementOfSeq
      <3>3. stream[r][Len(stream[r])].moved \in Nat
        BY <3>2 DEF Command
      <3> QED
        BY <1>8, <2>2, <3>3
    <2> QED
      BY <1>2, <1>3, <2>1, <2>2
  <1> HIDE DEF n
  <1> QED
    BY <1>1, <1>2, <1>6, <1>8, <1>9, <1>10, SMTT(30)

-----------------------------------------------------------------------------
(* The inductive invariant and what follows from it.                       *)

IInv ==
    /\ TypeOK
    /\ Finite
    /\ AcksOrdered
    /\ WaitWakesInTime
    /\ UnflushedOnlyIfEclipsed
    /\ Unregistered
    /\ StillShort
    /\ LastAck
    /\ WritesMove
    /\ Scheduled

\* It holds before anything has happened.
LEMMA InitIInv ==
    ASSUME Init
    PROVE  IInv
  <1> USE ConstantsAssumption
  <1>1. TypeOK
    <2>1. MaxTime \in Nat /\ MaxWrites \in Nat /\ MaxWaits \in Nat
      OBVIOUS
    <2>2. \A r \in Replicas : Len(stream[r]) = 0 /\ Len(ack[r]) = 0 /\ received[r] = 0
      BY DEF Init
    <2>3. /\ stream \in [Replicas -> Seq(Command)] /\ read_buffer \in [Replicas -> Seq(Nat)]
          /\ to_master \in [Replicas -> Seq(Nat)] /\ ack \in [Replicas -> Seq(Nat)]
      BY DEF Init
    <2> QED
      BY <2>1, <2>2, <2>3 DEF Init, TypeOK, Never
  <1>2. Finite
    BY FS_EmptySet DEF Init, Finite
  <1>3. ASSUME NEW r \in Replicas
        PROVE  /\ Acks(r) = <<0>> /\ stream[r] = <<>> /\ received[r] = 0 /\ bytes_processed[r] = 0
               /\ Len(Acks(r)) = 1 /\ Acks(r)[1] = 0 /\ Len(stream[r]) = 0
    <2>1. \A s \in Seq(Nat) : s \o <<>> = s
      BY ConcatEmptySeq
    <2>2. <<0>> \in Seq(Nat) /\ Len(<<0>>) = 1 /\ <<0>>[1] = 0
      OBVIOUS
    <2> QED
      BY <2>1, <2>2 DEF Acks, Init
  <1>4. AcksOrdered
    <2>1. \A r \in Replicas : Ascends(Acks(r), bytes_processed[r])
      BY <1>3 DEF Ascends
    <2> QED
      BY <1>1, <2>1, OrderedByAscends
  <1>5. WaitWakesInTime /\ UnflushedOnlyIfEclipsed /\ Unregistered /\ StillShort
    BY DEF Init, WaitWakesInTime, UnflushedOnlyIfEclipsed, Unregistered, StillShort
  <1>6. LastAck /\ WritesMove
    BY <1>3 DEF LastAck, WritesMove
  <1>7. Scheduled
    <2>1. ASSUME NEW r \in Replicas
          PROVE  \E f : Timetable(r, f) /\ Covers(r, f)
      <3> DEFINE f == [i \in 0 .. 0 |-> 0]
      <3>1. f \in [0 .. 0 -> Nat] /\ f[0] = 0
        OBVIOUS
      <3> HIDE DEF f
      <3>2. offset = 0
        BY DEF Init
      <3>3. Timetable(r, f)
        BY <1>3, <3>1, <3>2 DEF Timetable
      <3>4. Covers(r, f)
        BY <1>3, <3>1 DEF Covers
      <3> QED
        BY <3>3, <3>4
    <2> QED
      BY <2>1 DEF Scheduled
  <1> QED
    BY <1>1, <1>2, <1>4, <1>5, <1>6, <1>7 DEF IInv

\* Every step keeps it.
LEMMA NextIInv ==
    ASSUME IInv, [Next]_vars
    PROVE  IInv'
  <1>1. TypeOK' /\ Finite'
    BY TypeInductive DEF IInv
  <1>2. AcksOrdered' /\ LastAck' /\ Scheduled'
    BY <1>1, OrderedInductive, LastAckInductive, ScheduledInductive DEF IInv
  <1>3. WaitWakesInTime' /\ UnflushedOnlyIfEclipsed'
    BY WakesInductive, UnflushedInductive DEF IInv
  <1>4. Unregistered' /\ StillShort' /\ WritesMove'
    BY UnregisteredInductive, ShortInductive, WritesMoveInductive DEF IInv
  <1> QED
    BY <1>1, <1>2, <1>3, <1>4 DEF IInv

\* The invariant of every behaviour of the specification.
LEMMA IInvariant == Spec => []IInv
  BY InitIInv, NextIInv, PTL DEF Spec

\* The state of master and replicas is always well typed (replication.cpp,
\* slave-replication.cpp).
THEOREM TypeCorrect == Spec => []TypeOK
  BY IInvariant, PTL DEF IInv

\* No ACK on its way claims more than its replica has processed, and the
\* master never hears a smaller number after a larger one
\* (process_commands, handle_replconf).
THEOREM AcksComeInOrder == Spec => []AcksOrdered
  BY IInvariant, PTL DEF IInv

\* WAIT counts a replica that lacks a write only if that replica answered a
\* GETACK while it counted some command for more bytes than the master did
\* (handle_wait, handle_propagate, process_commands).
THEOREM CountedReplicasHaveWrites == Spec => []CountedUnlessAhead
  <1>1. IInv => CountedUnlessAhead
    BY ScheduledIsCounted DEF IInv
  <1> QED
    BY <1>1, IInvariant, PTL

\* A blocked WAIT always lacks replicas that have settled
\* (check_blocked_wait_clients looks at every one after every ACK).
THEOREM NoWaitForgotten == Spec => []WaitNotForgotten
  <1>1. IInv => WaitNotForgotten
    BY ShortIsNotForgotten DEF IInv
  <1> QED
    BY <1>1, IInvariant, PTL

\* The loop never sleeps past the deadline of a blocked WAIT
\* (get_next_wait_timeout_ms).
THEOREM LoopWakesInTime == Spec => []WaitWakesInTime
  BY IInvariant, PTL DEF IInv

\* A reply to a live client is left behind without a flush only if one ACK
\* unblocked a later WAIT along with its own (processClientRequest).
THEOREM OnlyEclipsedUnflushed == Spec => []UnflushedOnlyIfEclipsed
  BY IInvariant, PTL DEF IInv
=============================================================================
