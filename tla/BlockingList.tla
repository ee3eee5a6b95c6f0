---------------------------- MODULE BlockingList ----------------------------
(***************************************************************************)
(* The keyspace of strings and lists, the clients blocked in BLPOP, key    *)
(* expiration, and the single-threaded reactor that drives them            *)
(* (server.cpp, connection.cpp, db/db.cpp, db/BLPOP, db/PUSH, db/LPOP,     *)
(* db/SET, db/INCR, db/GET_TYPE).                                          *)
(*                                                                         *)
(* One step is one callback of the reactor run to its end: the command,    *)
(* its replies and the flush calls of Server::processClientRequest.  Time  *)
(* is a tick counter; Never plays time_point::max().  A pushed value is a  *)
(* fresh number, so that its whereabouts can be followed; in a write       *)
(* buffer, 0 stands for a reply (or part of one) that carries no list      *)
(* value.  The DIRTY flag written by mark_watching_clients_dirty is never  *)
(* read by the program and is left out; no replica is attached here        *)
(* (Replication.tla), so propagateAndNotifySlaves returns at once.         *)
(***************************************************************************)
EXTENDS Naturals, Sequences, FiniteSets

CONSTANTS
    Clients,     \* connected clients, named by their descriptors
    Keys,
    Timeouts,    \* timeouts a BLPOP may ask for; 0 asks to wait for ever
    Lifetimes,   \* lifetimes a SET ... EX/PX may ask for
    PushSizes,   \* number of values one RPUSH or LPUSH may carry
    PopCounts,   \* COUNT arguments of LPOP
    MaxTime,     \* bound: last tick of the clock
    MaxValue,    \* bound: values ever pushed
    MaxBlocks,   \* bound: BLPOPs that ever block
    MaxReplies   \* bound: buffered replies above which a client stays quiet

ASSUME ConstantsAssumption ==
    /\ Timeouts \subseteq Nat
    /\ Lifetimes \subseteq Nat
    /\ PushSizes \subseteq Nat \ {0}
    /\ PopCounts \subseteq Nat
    /\ MaxTime \in Nat
    /\ MaxValue \in Nat
    /\ MaxBlocks \in Nat
    /\ MaxReplies \in Nat

VARIABLES
    keyType,       \* store: RedisObject.type, "none" for an absent key
    listPack,      \* store: RedisObject.listPack, empty for any other type
    expiration,    \* the expiration map, Never for a key that has no entry
    blocked_keys,  \* the queue of BlockedClients of each key, in ticket order
    write_buffer,  \* Client::write_buffer of each client
    open,          \* connections still registered with epoll
    armed,         \* connections registered for EPOLLOUT
    phase,         \* in epoll_wait, in a batch of events, or aborted
    wake,          \* when epoll_wait gives up waiting, Never out of it
    now,           \* steady_clock
    tickets,       \* auxiliary: BLPOPs that blocked so far, orders the queues
    values,        \* auxiliary: values pushed so far
    gone,          \* auxiliary: values sent to a client or replaced by SET
    overfed        \* auxiliary: keys where a push had values for two waiters

store == <<keyType, listPack, expiration>>
loop  == <<phase, wake, now>>
aux   == <<tickets, values, gone, overfed>>
vars  == <<store, blocked_keys, write_buffer, open, armed, loop, aux>>

Never == MaxTime + 1

BlockedClient ==
    [client : Clients, timeout_at : 0 .. Never, ticket : 1 .. MaxBlocks]

TypeOK ==
    /\ keyType \in [Keys -> {"none", "string", "list"}]
    /\ listPack \in [Keys -> Seq(1 .. MaxValue)]
    /\ expiration \in [Keys -> 0 .. Never]
    /\ blocked_keys \in [Keys -> SUBSET BlockedClient]
    /\ write_buffer \in [Clients -> Seq(0 .. MaxValue)]
    /\ open \subseteq Clients
    /\ armed \subseteq open
    /\ phase \in {"waiting", "dispatch", "aborted"}
    /\ wake \in 0 .. Never
    /\ now \in 0 .. MaxTime
    /\ tickets \in 0 .. MaxBlocks
    /\ values \in 0 .. MaxValue
    /\ gone \subseteq 1 .. MaxValue
    /\ overfed \subseteq Keys

Init ==
    /\ keyType = [k \in Keys |-> "none"]
    /\ listPack = [k \in Keys |-> <<>>]
    /\ expiration = [k \in Keys |-> Never]
    /\ blocked_keys = [k \in Keys |-> {}]
    /\ write_buffer = [c \in Clients |-> <<>>]
    /\ open = Clients
    /\ armed = {}
    /\ phase = "waiting"
    /\ wake = Never
    /\ now = 0
    /\ tickets = 0
    /\ values = 0
    /\ gone = {}
    /\ overfed = {}

-----------------------------------------------------------------------------
(* Queues of blocked clients.                                              *)

\* Faulty variant of Front: the client that joined last.
FrontIsBack(queue) == {e \in queue : \A f \in queue : f.ticket <= e.ticket}

\* The client at the head of a queue: the one that joined first.
Front(queue) == {e \in queue : \A f \in queue : e.ticket <= f.ticket}

is_expired(e) == e.timeout_at # Never /\ now >= e.timeout_at

\* The elements of a list, as a set.
Elements(list) == {list[i] : i \in DOMAIN list}

-----------------------------------------------------------------------------
(* The reactor around a command.                                           *)

\* epoll_wait has returned, and the events it reported are handled in turn.
Dispatching ==
    /\ phase \in {"waiting", "dispatch"}
    /\ phase' = "dispatch"
    /\ wake' = Never

\* epoll has reported input of c, and c still listens.
Readable(c) ==
    /\ phase \in {"waiting", "dispatch"}
    /\ c \in open
    /\ Len(write_buffer[c]) < MaxReplies

\* Faulty variant of flush: removed descriptors are armed as well.
FlushClosed(S, buffer) == armed \cup {c \in S : buffer[c] # <<>>}

\* TcpConnection::flush on the clients S once buffer is their write buffer:
\* EPOLLOUT is requested for a non-empty buffer; epoll_ctl refuses a
\* descriptor that was removed.
flush(S, buffer) == armed \cup {c \in S \cap open : buffer[c] # <<>>}

\* The end of processClientRequest for the client c whose command was not
\* blocked and put items into its write buffer.
Respond(c, items) ==
    LET buffer == [write_buffer EXCEPT ![c] = @ \o items]
    IN  /\ write_buffer' = buffer
        /\ armed' = flush({c}, buffer)
        /\ Dispatching
        /\ UNCHANGED <<open, now>>

\* assert() fails: the process is gone, and with it all it held.
Abort ==
    /\ phase' = "aborted"
    /\ UNCHANGED <<store, blocked_keys, write_buffer, open, armed, wake, now, aux>>

-----------------------------------------------------------------------------
(* Commands.                                                               *)

\* Faulty variant of HasNoElement: BLPOP blocks on a list with elements.
HasNoString(k) == keyType[k] # "string"

HasNoElement(k) ==
    keyType[k] = "none" \/ (keyType[k] = "list" /\ listPack[k] = <<>>)

\* BLPOP finds nothing: the client joins the queue and its connection is
\* not flushed.
BlpopBlocks(c, k, timeout) ==
    /\ HasNoElement(k)
    /\ tickets < MaxBlocks
    /\ now + timeout <= MaxTime
    /\ tickets' = tickets + 1
    /\ blocked_keys' = [blocked_keys EXCEPT ![k] = @ \cup
           {[client     |-> c,
             timeout_at |-> IF timeout = 0 THEN Never ELSE now + timeout,
             ticket     |-> tickets + 1]}]
    /\ Dispatching
    /\ UNCHANGED <<store, write_buffer, open, armed, now,
                   values, gone, overfed>>

BlpopWrongType(c, k) ==
    /\ keyType[k] = "string"
    /\ Respond(c, <<0>>)
    /\ UNCHANGED <<store, blocked_keys, aux>>

\* Faulty variant of BlpopPops: the element sent stays in the list.
BlpopPeeks(c, k) ==
    /\ keyType[k] = "list"
    /\ listPack[k] # <<>>
    /\ Respond(c, <<Head(listPack[k])>>)
    /\ UNCHANGED <<store, blocked_keys, aux>>

BlpopPops(c, k) ==
    /\ keyType[k] = "list"
    /\ listPack[k] # <<>>
    /\ listPack' = [listPack EXCEPT ![k] = Tail(@)]
    /\ Respond(c, <<Head(listPack[k])>>)
    /\ UNCHANGED <<keyType, expiration, blocked_keys, aux>>

handle_blpop(c, k, timeout) ==
    /\ Readable(c)
    /\ \/ BlpopBlocks(c, k, timeout)
       \/ BlpopWrongType(c, k)
       \/ BlpopPops(c, k)

\* The list of key k once the values lo+1 .. lo+n are pushed one by one.
push_value_to_list(k, lo, n, is_prepend) ==
    IF is_prepend
    THEN [i \in 1 .. n |-> lo + n + 1 - i] \o listPack[k]
    ELSE listPack[k] \o [i \in 1 .. n |-> lo + i]

\* The values lo+1 .. lo+n go to the list of k; with n = 0 no list is made.
StorePushed(k, lo, n, is_prepend) ==
    /\ listPack' = [listPack EXCEPT ![k] = push_value_to_list(k, lo, n, is_prepend)]
    /\ keyType' = [keyType EXCEPT ![k] = IF n = 0 THEN @ ELSE "list"]
    /\ UNCHANGED expiration

\* A client is waiting: the first value goes straight to the head of the
\* queue, whatever the key holds, and only the rest to the list.
PushServes(c, k, n, is_prepend) ==
    /\ n > 1 => keyType[k] # "string"
    /\ \E e \in Front(blocked_keys[k]) :
         LET served == [write_buffer EXCEPT ![e.client] = Append(@, values + 1)]
             buffer == [served EXCEPT ![c] = Append(@, 0)]
         IN  /\ blocked_keys' = [blocked_keys EXCEPT ![k] = @ \ {e}]
             /\ write_buffer' = buffer
             /\ armed' = flush({c, e.client}, buffer)
             /\ overfed' = IF n > 1 /\ blocked_keys[k] # {e}
                           THEN overfed \cup {k} ELSE overfed
    /\ StorePushed(k, values + 1, n - 1, is_prepend)
    /\ Dispatching
    /\ UNCHANGED <<open, now>>

\* Faulty variant of PushStores: a string key is turned into a list.
PushOverwrites(c, k, n, is_prepend) ==
    /\ blocked_keys[k] = {}
    /\ StorePushed(k, values, n, is_prepend)
    /\ Respond(c, <<0>>)
    /\ UNCHANGED <<blocked_keys, overfed>>

\* Nobody is waiting: all the values go to the list.
PushStores(c, k, n, is_prepend) ==
    /\ blocked_keys[k] = {}
    /\ keyType[k] # "string"
    /\ StorePushed(k, values, n, is_prepend)
    /\ Respond(c, <<0>>)
    /\ UNCHANGED <<blocked_keys, overfed>>

\* The assertion of append_to_existing_list: the key holds a string.
PushAborts(c, k, n) ==
    /\ keyType[k] = "string"
    /\ blocked_keys[k] = {} \/ n > 1
    /\ Abort

handle_push(c, k, n, is_prepend) ==
    /\ Readable(c)
    /\ values + n <= MaxValue
    /\ \/ /\ PushServes(c, k, n, is_prepend) \/ PushStores(c, k, n, is_prepend)
          /\ values' = values + n
          /\ UNCHANGED <<tickets, gone>>
       \/ PushAborts(c, k, n)

\* LPOP with a count: an emptied list stays in the store.
handle_lpop(c, k, count) ==
    /\ Readable(c)
    /\ LET list   == listPack[k]
           popped == IF count < Len(list) THEN count ELSE Len(list)
       IN  /\ listPack' = [listPack EXCEPT ![k] = SubSeq(@, popped + 1, Len(@))]
           /\ Respond(c, IF popped = 0 THEN <<0>> ELSE SubSeq(list, 1, popped))
    /\ UNCHANGED <<keyType, expiration, blocked_keys, aux>>

\* SET: replaces whatever the key held; only EX and PX touch expiration.
handle_set(c, k) ==
    /\ Readable(c)
    /\ \/ UNCHANGED expiration
       \/ \E t \in Lifetimes :
             /\ now + t <= MaxTime
             /\ expiration' = [expiration EXCEPT ![k] = now + t]
    /\ keyType' = [keyType EXCEPT ![k] = "string"]
    /\ listPack' = [listPack EXCEPT ![k] = <<>>]
    /\ gone' = gone \cup Elements(listPack[k])
    /\ Respond(c, <<0>>)
    /\ UNCHANGED <<blocked_keys, tickets, values, overfed>>

\* INCR: an absent key becomes a string; any other key keeps its type.
handle_incr(c, k) ==
    /\ Readable(c)
    /\ keyType' = [keyType EXCEPT ![k] = IF @ = "none" THEN "string" ELSE @]
    /\ Respond(c, <<0>>)
    /\ UNCHANGED <<listPack, expiration, blocked_keys, aux>>

KeyExpired(k) == expiration[k] # Never /\ now >= expiration[k]

\* GET and TYPE: the only commands that look at expiration.  The iterator
\* erased is the one find returned, so an expired key must be in the store.
\* For a list nothing is written to the buffer.
handle_get_or_type(c, k) ==
    /\ Readable(c)
    /\ IF KeyExpired(k)
       THEN /\ keyType' = [keyType EXCEPT ![k] = "none"]
            /\ listPack' = [listPack EXCEPT ![k] = <<>>]
            /\ expiration' = [expiration EXCEPT ![k] = Never]
            /\ gone' = gone \cup Elements(listPack[k])
            /\ Respond(c, <<0>>)
       ELSE /\ Respond(c, IF keyType[k] = "list" THEN <<>> ELSE <<0>>)
            /\ UNCHANGED <<store, gone>>
    /\ UNCHANGED <<blocked_keys, tickets, values, overfed>>

-----------------------------------------------------------------------------
(* The reactor.                                                            *)

\* EPOLLOUT: the whole buffer is written and EPOLLOUT given up.
handleWrite(c) ==
    /\ c \in armed
    /\ gone' = gone \cup (Elements(write_buffer[c]) \ {0})
    /\ write_buffer' = [write_buffer EXCEPT ![c] = <<>>]
    /\ armed' = armed \ {c}
    /\ Dispatching
    /\ UNCHANGED <<store, blocked_keys, open, now, tickets, values, overfed>>

\* The peer closed or reset the connection: it leaves epoll, and nothing
\* else forgets it.
handleClose(c) ==
    /\ c \in open
    /\ open' = open \ {c}
    /\ armed' = armed \ {c}
    /\ Dispatching
    /\ UNCHANGED <<store, blocked_keys, write_buffer, now, aux>>

\* The null replies of expired clients: as many as each has expired entries.
\* They carry no list value, so one stands for all.
ExpiryReplies(expired) ==
    [c \in Clients |->
        IF \E e \in expired : e.client = c
        THEN Append(write_buffer[c], 0) ELSE write_buffer[c]]

\* Faulty variant of check_and_expire_blocked_clients: nobody is flushed.
ExpireWithoutFlush ==
    LET expired == UNION {{e \in blocked_keys[k] : is_expired(e)} : k \in Keys}
    IN  /\ blocked_keys' =
             [k \in Keys |-> {e \in blocked_keys[k] : ~is_expired(e)}]
        /\ write_buffer' = ExpiryReplies(expired)
        /\ UNCHANGED armed

check_and_expire_blocked_clients ==
    LET expired == UNION {{e \in blocked_keys[k] : is_expired(e)} : k \in Keys}
        buffer  == ExpiryReplies(expired)
    IN  /\ blocked_keys' =
             [k \in Keys |-> {e \in blocked_keys[k] : ~is_expired(e)}]
        /\ write_buffer' = buffer
        /\ armed' = flush({e.client : e \in expired}, buffer)

\* Faulty variant of get_next_timeout_ms: epoll_wait has no timeout.
NoTimeout(queues) == {Never}

\* The time at which epoll_wait gives up: of each queue only the head is
\* looked at.
get_next_timeout_ms(queues) ==
    LET heads == {e.timeout_at : e \in UNION {Front(queues[k]) : k \in Keys}}
    IN  {t \in heads \cup {Never} : \A h \in heads : t <= h}

\* The rest of the body of Server::run: expire, then compute the next
\* timeout and wait again.
LoopTurn ==
    /\ check_and_expire_blocked_clients
    /\ wake' \in get_next_timeout_ms(blocked_keys')
    /\ phase' = "waiting"
    /\ UNCHANGED <<store, open, now, aux>>

\* epoll_wait times out.
TimerFires == phase = "waiting" /\ wake # Never /\ now >= wake /\ LoopTurn

\* All reported events have been handled.
EventsHandled == phase = "dispatch" /\ LoopTurn

Tick ==
    /\ now < MaxTime
    /\ now' = now + 1
    /\ UNCHANGED <<store, blocked_keys, write_buffer, open, armed, phase, wake, aux>>

Request(c) ==
    \E k \in Keys :
       \/ \E t \in Timeouts : handle_blpop(c, k, t)
       \/ \E n \in PushSizes, is_prepend \in BOOLEAN : handle_push(c, k, n, is_prepend)
       \/ \E n \in PopCounts : handle_lpop(c, k, n)
       \/ handle_set(c, k)
       \/ handle_incr(c, k)
       \/ handle_get_or_type(c, k)

Next ==
    \/ \E c \in Clients : Request(c) \/ handleWrite(c) \/ handleClose(c)
    \/ TimerFires
    \/ EventsHandled
    \/ Tick

Spec == Init /\ [][Next]_vars

\* The clock advances; the loop, woken or done with a batch of at most 64
\* events, comes round.
Fairness ==
    /\ WF_vars(Tick)
    /\ WF_vars(TimerFires)
    /\ WF_vars(EventsHandled)

FairSpec == Spec /\ Fairness

-----------------------------------------------------------------------------
(* Properties.                                                             *)

\* Where v stands in a list or a buffer.
Positions(s, v) == {i \in DOMAIN s : s[i] = v}

\* A pushed value is never copied and never vanishes: it is in exactly one
\* list position, or at one position of one client's write buffer, or was
\* written to a socket, or went with a list that SET replaced
\* (handle_push, handle_blpop, handle_lpop, handle_set, handleWrite).
ExactlyOnce ==
    \A v \in 1 .. values :
        LET inLists   == UNION {{k} \X Positions(listPack[k], v) : k \in Keys}
            inBuffers == UNION {{c} \X Positions(write_buffer[c], v) : c \in Clients}
        IN  Cardinality(inLists) + Cardinality(inBuffers) + Cardinality(gone \cap {v}) = 1

\* Only string keys carry an expiration, so the iterator that GET and TYPE
\* erase (get_type_db.cpp:27) always points into the store and a list never
\* disappears under its users (handle_set, handle_push, handle_get_or_type).
OnlyStringsExpire == \A k \in Keys : expiration[k] # Never => keyType[k] = "string"

\* Whatever sits in the write buffer of a live connection has EPOLLOUT
\* requested: no reply, not even one written by another client's command or
\* by a timeout, is left waiting for a flush that nobody makes
\* (processClientRequest, handle_expired_blocked_clients).
RepliesArmed == \A c \in open : write_buffer[c] # <<>> => c \in armed

\* A client waits on a list that has elements only where one push carried
\* several values while several clients waited: handle_push serves one
\* client per push, and nothing else strands a waiter.
StrandedOnlyIfOverfed ==
    \A k \in Keys : blocked_keys[k] # {} /\ listPack[k] # <<>> => k \in overfed

\* An earlier entry of the same queue times out later than e.
Shadowed(e, queue) ==
    \E f \in queue : f.ticket < e.ticket /\ f.timeout_at > e.timeout_at

\* While the loop sleeps in epoll_wait it will wake up no later than the
\* deadline of any blocked client, except clients queued behind one with a
\* later deadline: get_next_timeout_ms looks at the head of each queue only.
OversleepsOnlyShadowed ==
    phase = "waiting" =>
        \A k \in Keys : \A e \in blocked_keys[k] :
            wake <= e.timeout_at \/ Shadowed(e, blocked_keys[k])

Waiting(t) == \E k \in Keys : \E e \in blocked_keys[k] : e.ticket = t

DueOnTime(t) ==
    \E k \in Keys : \E e \in blocked_keys[k] :
        e.ticket = t /\ e.timeout_at # Never /\ ~Shadowed(e, blocked_keys[k])

\* A client blocked with a finite timeout and not queued behind a later
\* deadline is eventually answered, by a push or by its timeout
\* (check_and_expire_blocked_clients, get_next_timeout_ms).
TimeoutAnswered ==
    \A t \in 1 .. MaxBlocks :
        DueOnTime(t) ~> (~Waiting(t) \/ phase = "aborted")

=============================================================================
