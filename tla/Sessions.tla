------------------------------ MODULE Sessions ------------------------------
(***************************************************************************)
(* What a connection can be in the middle of: a transaction (MULTI), a     *)
(* subscription, a BLPOP; who it is logged in as; and what that does to    *)
(* the data of a replica (DB::execute, DB::call, db/MULTI, db/EXEC,        *)
(* db/DISCARD, db/PUBSUB, db/ACL, acl.cpp, Server::processClientRequest,   *)
(* Server::onNewConnection, ReplicationManager::handle_propagate).         *)
(*                                                                         *)
(* The data are one list, and a value pushed is a fresh number; the other  *)
(* write commands take the same paths as RPUSH and LPOP, except that those *)
(* on sorted sets only answer an error under EXEC.  A handler is an        *)
(* operator on a session record: the state of the database together with   *)
(* the fields of the ClientContext that the handlers set.  Of a write      *)
(* buffer only whether it is empty is kept.  "PING" stands for every       *)
(* command that only answers.  Timeouts of BLPOP are in BlockingList.tla;  *)
(* the flag DIRTY is never read and is left out.  The replica has no       *)
(* clients of its own.  A password stands for its hash; the flags of a     *)
(* user are only shown, never looked at, and are left out.                 *)
(***************************************************************************)
EXTENDS Naturals, Sequences, FiniteSets, SequencesExt

CONSTANTS
    Clients,
    Late,        \* the clients that connect while the server runs
    Users,       \* user names; one of them is "default"
    Passwords,
    Channels,
    Issued,      \* commands that clients send outside a transaction
    Queueable,   \* commands that clients put into a transaction
    MaxValue,    \* bound: values ever pushed
    MaxQueued,   \* bound: commands queued in all transactions together
    MaxSubs,     \* bound: subscriptions of all clients to one channel
    MaxBlocked,  \* bound: length of the queue of blocked clients
    MaxStream    \* bound: commands propagated and not executed

VARIABLES
    list,             \* store: the list
    blocked,          \* blocked_keys: the queue of the list's key
    pubsub_clients,   \* the subscribers of each channel
    flags,            \* Client::flags
    queued_commands,  \* Client::queued_commands, their types
    total,            \* Client::total_subscribed_channels
    pending,          \* clients whose write_buffer is not empty
    open,             \* connections still registered with epoll
    armed,            \* connections registered for EPOLLOUT
    aborted,          \* the process is gone
    waiting,          \* clients that have not connected yet
    users,            \* ACLManager::users
    user,             \* Client::user, the name
    is_authenticated, \* Client::is_authenticated
    attached,         \* the replica is in slave_connections
    stream,           \* commands propagated, not yet executed by the replica
    replica,          \* the data of the replica
    values,           \* auxiliary: values pushed so far
    excused,          \* auxiliary: the replica has a reason to differ
    eclipsed          \* auxiliary: clients whose flush an EXEC lost

database == <<list, blocked, pubsub_clients, flags, total, pending, values>>
network  == <<open, armed, aborted, eclipsed>>
replicas == <<attached, stream, replica, excused>>
access   == <<waiting, users, user, is_authenticated>>
vars     == <<database, queued_commands, network, replicas, access>>

WriteCommands == {"RPUSH", "LPOP", "SETUSER"}
AccessCommands == {"AUTH", "SETUSER"}
ChannelCommands == {"SUBSCRIBE", "PUBLISH"}

\* Every command but EXEC and DISCARD: what MULTI puts into the queue.
Commands == WriteCommands \cup ChannelCommands \cup
                {"BLPOP", "UNSUBSCRIBE", "PING", "MULTI", "WHOAMI", "AUTH"}

NoPassword == "none"

ASSUME ConstantsAssumption ==
    /\ Issued \cup Queueable \subseteq Commands
    /\ Late \subseteq Clients
    /\ "default" \in Users
    /\ NoPassword \notin Passwords
    /\ {MaxValue, MaxQueued, MaxSubs, MaxBlocked, MaxStream} \subseteq Nat

TypeOK ==
    /\ list \in Seq(1 .. MaxValue)
    /\ blocked \in Seq(Clients)
    /\ pubsub_clients \in [Channels -> Seq(Clients)]
    /\ flags \in [Clients -> SUBSET {"MULTI", "PUBSUB"}]
    /\ queued_commands \in [Clients -> Seq(Queueable)]
    /\ total \in [Clients -> Nat]
    /\ pending \subseteq Clients
    /\ open \subseteq Clients
    /\ armed \subseteq open
    /\ aborted \in BOOLEAN
    /\ waiting \subseteq Late
    /\ users \in [Users -> [known : BOOLEAN, nopass : BOOLEAN,
                            password : Passwords \cup {NoPassword}]]
    /\ user \in [Clients -> Users]
    /\ is_authenticated \in [Clients -> BOOLEAN]
    /\ attached \in BOOLEAN
    /\ stream \in Seq([type : WriteCommands, value : 1 .. MaxValue + 1])
    /\ replica \in Seq(1 .. MaxValue)
    /\ values \in 0 .. MaxValue
    /\ excused \in BOOLEAN
    /\ eclipsed \subseteq Clients

Init ==
    /\ list = <<>>
    /\ blocked = <<>>
    /\ pubsub_clients = [ch \in Channels |-> <<>>]
    /\ flags = [c \in Clients |-> {}]
    /\ queued_commands = [c \in Clients |-> <<>>]
    /\ total = [c \in Clients |-> 0]
    /\ pending = {}
    /\ open = Clients \ Late
    /\ armed = {}
    /\ aborted = FALSE
    /\ waiting = Late
    /\ users = [u \in Users |-> [known |-> u = "default", nopass |-> u = "default",
                                 password |-> NoPassword]]
    /\ user = [c \in Clients |-> "default"]
    /\ is_authenticated = [c \in Clients |-> c \notin Late]
    /\ attached = FALSE
    /\ stream = <<>>
    /\ replica = <<>>
    /\ values = 0
    /\ excused = FALSE
    /\ eclipsed = {}

-----------------------------------------------------------------------------
(* The handlers of DB::call, on a session record.                          *)

\* The database as a command of a client finds it, in a fresh ClientContext;
\* served (history) are all the clients the command has unblocked.
Session ==
    [list |-> list, blocked |-> blocked,
     pubsub |-> pubsub_clients, flags |-> flags, total |-> total,
     pending |-> pending, values |-> values,
     isBlocked |-> FALSE, unblocked |-> {}, ready |-> {}, served |-> {}]

Reply(s, c) == [s EXCEPT !.pending = @ \cup {c}]

\* RPUSH of one value.  Only the client unblocked last is remembered.
handle_push(s, c) ==
    LET front == Head(s.blocked)
    IN  IF s.blocked = <<>>
        THEN [Reply(s, c) EXCEPT !.list = Append(@, s.values + 1), !.values = @ + 1]
        ELSE [Reply(Reply(s, front), c) EXCEPT
                 !.blocked = Tail(@), !.values = @ + 1,
                 !.unblocked = {front}, !.served = @ \cup {front}]

handle_lpop(s, c) ==
    [Reply(s, c) EXCEPT !.list = IF @ = <<>> THEN @ ELSE Tail(@)]

handle_blpop(s, c) ==
    IF s.list = <<>>
    THEN [s EXCEPT !.blocked = Append(@, c), !.isBlocked = TRUE]
    ELSE [Reply(s, c) EXCEPT !.list = Tail(@)]

handle_multi(s, c) == [Reply(s, c) EXCEPT !.flags[c] = @ \cup {"MULTI"}]

\* A client that subscribes twice is in the vector twice.
handleSubscribe(s, c, ch) ==
    [Reply(s, c) EXCEPT !.pubsub[ch] = Append(@, c),
                        !.flags[c] = @ \cup {"PUBSUB"},
                        !.total[c] = @ + 1]

\* Faulty variant of handleUnSubscribe: the count goes down in any case.
UnSubscribeAlways(s, c, ch) ==
    LET at == {i \in DOMAIN s.pubsub[ch] : s.pubsub[ch][i] = c}
    IN  [Reply(s, c) EXCEPT
            !.pubsub[ch] = IF at = {} THEN @ ELSE RemoveAt(@, Min(at)),
            !.total[c] = @ - 1]

\* The first entry of the client is removed, and PUBSUB stays set.
handleUnSubscribe(s, c, ch) ==
    LET at == {i \in DOMAIN s.pubsub[ch] : s.pubsub[ch][i] = c}
    IN  IF at = {} THEN Reply(s, c)
        ELSE [Reply(s, c) EXCEPT !.pubsub[ch] = RemoveAt(@, Min(at)),
                                 !.total[c] = @ - 1]

handlePublish(s, c, ch) ==
    LET subscribers == {s.pubsub[ch][i] : i \in DOMAIN s.pubsub[ch]}
    IN  [Reply(s, c) EXCEPT !.pending = @ \cup subscribers,
                            !.ready = @ \cup subscribers]

\* UNSUBSCRIBE, AUTH and ACL SETUSER have no case of their own: the default
\* case answers PONG.
call(s, c, type, ch) ==
    CASE type = "RPUSH"     -> handle_push(s, c)
      [] type = "LPOP"      -> handle_lpop(s, c)
      [] type = "BLPOP"     -> handle_blpop(s, c)
      [] type = "MULTI"     -> handle_multi(s, c)
      [] type = "SUBSCRIBE" -> handleSubscribe(s, c, ch)
      [] type = "PUBLISH"   -> handlePublish(s, c, ch)
      [] OTHER              -> Reply(s, c)

-----------------------------------------------------------------------------
(* The server around a command.                                            *)

Readable(c) == ~aborted /\ c \in open

\* Faulty variant of flush: removed descriptors are armed as well.
FlushClosed(S, buffer) == armed \cup (S \cap buffer)

\* TcpConnection::flush on the clients S; buffer is the new value of pending.
flush(S, buffer) == armed \cup (S \cap open \cap buffer)

\* Faulty variant of Flushed: the unblocked client is forgotten.
FlushedOwn(c, s) == (IF s.isBlocked THEN {} ELSE {c}) \cup s.ready

\* The connections processClientRequest flushes.
Flushed(c, s) == (IF s.isBlocked THEN {} ELSE {c}) \cup s.unblocked \cup s.ready

\* The end of processClientRequest: s is the session the command leaves, lost
\* (history) the clients whose reply it wrote and does not flush.
Finish(c, s, lost) ==
    /\ list' = s.list
    /\ blocked' = s.blocked
    /\ pubsub_clients' = s.pubsub
    /\ flags' = s.flags
    /\ total' = s.total
    /\ pending' = s.pending
    /\ values' = s.values
    /\ armed' = flush(Flushed(c, s), s.pending)
    /\ eclipsed' = (eclipsed \ Flushed(c, s)) \cup lost
    /\ UNCHANGED <<open, aborted>>

\* Faulty variant of is_write_command: LPOP is not propagated.
OnlyPushes(type) == type = "RPUSH"

is_write_command(type) == type \in WriteCommands

\* A command goes to the replica as the client sent it; otherwise (history)
\* says that the master did something else.
handle_propagate(type, otherwise) ==
    /\ stream' = IF attached /\ is_write_command(type)
                 THEN Append(stream, [type |-> type, value |-> values + 1])
                 ELSE stream
    /\ excused' = (excused \/ (attached /\ otherwise))
    /\ UNCHANGED <<attached, replica>>

Bounded(type, ch) ==
    /\ type = "RPUSH" => values < MaxValue
    /\ type = "BLPOP" => Len(blocked) < MaxBlocked
    /\ type = "SUBSCRIBE" => Len(pubsub_clients[ch]) < MaxSubs
    /\ type \in WriteCommands => Len(stream) < MaxStream

SumQueued == Cardinality(UNION {{d} \X DOMAIN queued_commands[d] : d \in Clients})

\* In a transaction: the command is moved into the queue, not propagated.
QueueCommand(c, type) ==
    /\ Readable(c)
    /\ "MULTI" \in flags[c]
    /\ type = "WHOAMI" => is_authenticated[c]
    /\ SumQueued < MaxQueued
    /\ queued_commands' = [queued_commands EXCEPT ![c] = Append(@, type)]
    /\ Finish(c, Reply(Session, c), {})
    /\ UNCHANGED <<replicas, access>>

\* ACL WHOAMI is refused, before anything else, to a client that has not
\* authenticated.  No other command is.
RefuseUnauthenticated(c) ==
    /\ Readable(c)
    /\ ~is_authenticated[c]
    /\ Finish(c, Reply(Session, c), {})
    /\ UNCHANGED <<queued_commands, replicas, access>>

Allowed(c, type) ==
    "PUBSUB" \in flags[c] => type \in {"SUBSCRIBE", "UNSUBSCRIBE", "PING"}

\* Subscribed: an error is the answer, and the command is propagated all the
\* same.
RefuseCommand(c, type, ch) ==
    /\ Readable(c)
    /\ "MULTI" \notin flags[c]
    /\ ~Allowed(c, type)
    /\ type = "WHOAMI" => is_authenticated[c]
    /\ Bounded(type, ch)
    /\ Finish(c, [Reply(Session, c) EXCEPT
                     !.values = IF type = "RPUSH" THEN @ + 1 ELSE @], {})
    /\ handle_propagate(type, type \in {"RPUSH", "LPOP"})
    /\ UNCHANGED <<queued_commands, access>>

\* Subscribed: one of the commands that handlePubSub lets through.
RunSubscribed(c, type, ch) ==
    /\ "PUBSUB" \in flags[c]
    /\ Finish(c, IF type = "UNSUBSCRIBE" THEN handleUnSubscribe(Session, c, ch)
                 ELSE call(Session, c, type, ch), {})
    /\ UNCHANGED <<replicas, access>>

\* BLPOP is not a write command, and a push that served a blocked client
\* leaves the list alone.
PopsUnseen(type) ==
    (type = "BLPOP" /\ list # <<>>) \/ (type = "RPUSH" /\ blocked # <<>>)

RunPlain(c, type, ch) ==
    /\ "PUBSUB" \notin flags[c]
    /\ type \notin AccessCommands
    /\ type = "WHOAMI" => is_authenticated[c]
    /\ Finish(c, call(Session, c, type, ch), {})
    /\ handle_propagate(type, PopsUnseen(type))
    /\ UNCHANGED access

\* Faulty variant of PasswordMatches: as for a new connection, a user without
\* a password needs none.
MatchesIfNone(u, p) == users[u].nopass \/ users[u].password \in {p, NoPassword}

\* AUTH with password p; every user is enabled.
PasswordMatches(u, p) == users[u].nopass \/ users[u].password = p

handle_auth(c, u, p) ==
    /\ IF users[u].known /\ PasswordMatches(u, p)
       THEN /\ user' = [user EXCEPT ![c] = u]
            /\ is_authenticated' = [is_authenticated EXCEPT ![c] = TRUE]
       ELSE UNCHANGED <<user, is_authenticated>>
    /\ UNCHANGED <<waiting, users>>

\* ACL SETUSER, with a password or without one; ACLManager::setUser.
handle_acl_setuser(u, p) ==
    /\ users' = [users EXCEPT ![u] =
                    IF p = NoPassword THEN [@ EXCEPT !.known = TRUE]
                    ELSE [known |-> TRUE, nopass |-> FALSE, password |-> p]]
    /\ UNCHANGED <<waiting, user, is_authenticated>>

\* ACL SETUSER goes to the replica without its arguments.
RunAccess(c, type) ==
    /\ "PUBSUB" \notin flags[c]
    /\ \/ /\ type = "AUTH"
          /\ \E u \in Users, p \in Passwords : handle_auth(c, u, p)
       \/ /\ type = "SETUSER"
          /\ \E u \in Users, p \in Passwords \cup {NoPassword} : handle_acl_setuser(u, p)
    /\ Finish(c, Reply(Session, c), {})
    /\ handle_propagate(type, FALSE)

RunCommand(c, type, ch) ==
    /\ Readable(c)
    /\ "MULTI" \notin flags[c]
    /\ Allowed(c, type)
    /\ Bounded(type, ch)
    /\ RunSubscribed(c, type, ch) \/ RunPlain(c, type, ch) \/ RunAccess(c, type)
    /\ UNCHANGED queued_commands

\* EXEC and DISCARD where they are refused: no transaction, or subscribed.
RefuseEnd(c) ==
    /\ Readable(c)
    /\ "MULTI" \notin flags[c] \/ "PUBSUB" \in flags[c]
    /\ Finish(c, Reply(Session, c), {})
    /\ UNCHANGED <<queued_commands, replicas, access>>

Ends(c) == Readable(c) /\ "MULTI" \in flags[c] /\ "PUBSUB" \notin flags[c]

\* Faulty variant of handle_discard: the queue is kept.
DiscardKeepsQueue(c) ==
    /\ Ends(c)
    /\ Finish(c, [Reply(Session, c) EXCEPT !.flags[c] = {}], {})
    /\ UNCHANGED <<queued_commands, replicas, access>>

handle_discard(c) ==
    /\ Ends(c)
    /\ queued_commands' = [queued_commands EXCEPT ![c] = <<>>]
    /\ Finish(c, [Reply(Session, c) EXCEPT !.flags[c] = {}], {})
    /\ UNCHANGED <<replicas, access>>

\* A queued SUBSCRIBE or PUBLISH casts the EXEC command to its own type and
\* reads past its end.
ReadsGarbage(c) ==
    \E i \in DOMAIN queued_commands[c] : queued_commands[c][i] \in ChannelCommands

\* The queued commands run in order under one ClientContext.
RunQueue(c, ch) ==
    LET queue == queued_commands[c]
        run[k \in 0 .. Len(queue)] == IF k = 0 THEN Reply(Session, c)
                                      ELSE call(run[k - 1], c, queue[k], ch)
    IN  run[Len(queue)]

\* The command of the ClientContext is EXEC: none of the queued ones is
\* propagated.  A garbage channel name is any channel.
handle_exec(c, ch) ==
    LET s == [RunQueue(c, ch) EXCEPT !.flags[c] = {}]
    IN  /\ Ends(c)
        /\ s.values <= MaxValue
        /\ Len(s.pubsub[ch]) <= MaxSubs
        /\ Len(s.blocked) <= MaxBlocked
        /\ queued_commands' = [queued_commands EXCEPT ![c] = <<>>]
        /\ Finish(c, s, ((s.served \cup {c}) \cap open) \ (Flushed(c, s) \cup armed))
        /\ handle_propagate("EXEC", s.list # list)
        /\ UNCHANGED access

ExecAborts(c) ==
    /\ Ends(c)
    /\ ReadsGarbage(c)
    /\ aborted' = TRUE
    /\ UNCHANGED <<database, queued_commands, open, armed, eclipsed, replicas, access>>

handleWrite(c) ==
    /\ ~aborted
    /\ c \in armed
    /\ pending' = pending \ {c}
    /\ armed' = armed \ {c}
    /\ UNCHANGED <<list, blocked, pubsub_clients, flags, total, values,
                   queued_commands, open, aborted, eclipsed, replicas, access>>

handleClose(c) ==
    /\ Readable(c)
    /\ open' = open \ {c}
    /\ armed' = armed \ {c}
    /\ eclipsed' = eclipsed \ {c}
    /\ UNCHANGED <<database, queued_commands, aborted, replicas, access>>

\* The connection is the default user's; it counts as authenticated while
\* that user needs no password or has none.
onNewConnection(c) ==
    /\ ~aborted
    /\ c \in waiting
    /\ waiting' = waiting \ {c}
    /\ open' = open \cup {c}
    /\ user' = [user EXCEPT ![c] = "default"]
    /\ is_authenticated' = [is_authenticated EXCEPT ![c] =
                               users["default"].nopass
                                   \/ users["default"].password = NoPassword]
    /\ UNCHANGED <<database, queued_commands, armed, aborted, eclipsed, replicas, users>>

-----------------------------------------------------------------------------
(* The replica.                                                            *)

\* The replica joins with no data: the RDB it is sent is skipped.
handle_psync ==
    /\ ~aborted
    /\ ~attached
    /\ attached' = TRUE
    /\ excused' = (values > 0)
    /\ UNCHANGED <<database, queued_commands, network, stream, replica, access>>

\* DB::execute of a propagated command.  ACL SETUSER without arguments is an
\* unknown command and changes nothing.
Apply(d, command) ==
    CASE command.type = "RPUSH" -> Append(d, command.value)
      [] command.type = "LPOP" /\ d # <<>> -> Tail(d)
      [] OTHER -> d

process_commands ==
    /\ stream # <<>>
    /\ replica' = Apply(replica, Head(stream))
    /\ stream' = Tail(stream)
    /\ UNCHANGED <<database, queued_commands, network, attached, excused, access>>

-----------------------------------------------------------------------------
Request(c) ==
    \/ \E type \in Queueable : QueueCommand(c, type)
    \/ \E type \in Issued, ch \in Channels :
          RefuseCommand(c, type, ch) \/ RunCommand(c, type, ch)
    \/ \E ch \in Channels : handle_exec(c, ch)
    \/ ExecAborts(c)
    \/ RefuseUnauthenticated(c)
    \/ RefuseEnd(c)
    \/ handle_discard(c)

Next ==
    \/ \E c \in Clients : Request(c) \/ handleWrite(c) \/ handleClose(c) \/ onNewConnection(c)
    \/ handle_psync
    \/ process_commands

Spec == Init /\ [][Next]_vars

-----------------------------------------------------------------------------
(* Properties.                                                             *)

\* The data d once the commands q have been executed.
Replay(d, q) ==
    LET run[k \in 0 .. Len(q)] == IF k = 0 THEN d ELSE Apply(run[k - 1], q[k])
    IN  run[Len(q)]

\* Unless it joined late, or an EXEC changed data, or a blocking pop took an
\* element, or a write was refused to a subscriber, the replica will hold the
\* master's data once it has executed what is under way: nothing else makes
\* the two differ (handle_propagate, is_write_command, process_commands).
ReplicaAgrees ==
    attached /\ ~excused => list = Replay(replica, stream)

\* A reply in the buffer of a live connection has EPOLLOUT requested, be it a
\* value handed to a blocked client or a published message, except where an
\* EXEC unblocked several clients or blocked itself: one ClientContext has
\* one unblocked_client_fd and one isBlocked (processClientRequest,
\* handle_exec, handlePublish).
UnflushedOnlyByExec == pending \cap open \subseteq armed \cup eclipsed

\* Occurrences of c among the subscribers of a channel.
Subscriptions(c, ch) == {i \in DOMAIN pubsub_clients[ch] : pubsub_clients[ch][i] = c}

\* total_subscribed_channels, which every SUBSCRIBE and UNSUBSCRIBE reports,
\* is the number of entries the client has in pubsub_clients, and so never
\* wraps below zero (handleSubscribe, handleUnSubscribe, handle_exec).
SubscriptionsCounted ==
    \A c \in Clients :
        total[c] = Cardinality(UNION {{ch} \X Subscriptions(c, ch) : ch \in Channels})

\* Commands wait in a queue only while the client is in a transaction, so no
\* EXEC runs what an earlier DISCARD threw away; and no client is in a
\* transaction and subscribed at once, where resetFlags would end both
\* (DB::execute, handle_exec, handle_discard, handlePubSub).
QueuesBelongToTransactions ==
    \A c \in Clients :
        /\ queued_commands[c] # <<>> => "MULTI" \in flags[c]
        /\ flags[c] # {"MULTI", "PUBSUB"}

\* A connection that is not the default user's belongs to a user who has a
\* password, and one that still has to authenticate belongs to the default
\* user, who has got a password: in whatever order users are created, given
\* passwords and logged in, and connections made (handle_auth,
\* handle_acl_setuser, onNewConnection).
LoginsNeedPasswords ==
    \A c \in Clients \ waiting :
        /\ user[c] # "default" => is_authenticated[c] /\ users[user[c]].password # NoPassword
        /\ ~is_authenticated[c] => user[c] = "default"
                                     /\ users["default"].password # NoPassword

=============================================================================
