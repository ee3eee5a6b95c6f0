------------------------------ MODULE Requests ------------------------------
(***************************************************************************)
(* One client connection: the bytes a client sends, TcpConnection's        *)
(* handleRead and what processClientRequest makes of the bytes read.       *)
(*                                                                         *)
(* The connection is a byte stream.  A read event takes any prefix of what *)
(* is under way, appends it to read_buffer and parses ONE command from it, *)
(* complete or not; what is left waits for the next read event.  Executing *)
(* a command is the subject of the other modules: here a command parsed is *)
(* a command answered.                                                     *)
(***************************************************************************)
EXTENDS CommandParser, FiniteSets

CONSTANTS
    Proper,       \* requests as their parsers expect them
    Refused,      \* unknown names, too few arguments, numbers that are none
    Spoiling,     \* arguments the parser does not take, or a carriage return
                  \* in a text
    Followers,    \* bound: what a client sends after its first request
    MaxRequests,  \* bound: requests of the client
    Binary        \* the texts with a carriage return in them, and for each the
                  \* bytes from the second character behind it to its end

ASSUME RequestsAssumption ==
    /\ MaxRequests \in Nat
    /\ Followers \subseteq Proper \cup Refused \cup Spoiling
    /\ Proper \cup Refused \cup Spoiling \subseteq [name : STRING, args : Seq(STRING)]

VARIABLES
    sent,         \* client: the requests sent, in order
    hung_up,      \* client: it has closed its end
    wire,         \* the bytes under way
    read_buffer,  \* Client::read_buffer
    open,         \* the connection is registered in the event loop
    answered,     \* the commands executed, one reply each
    torn,         \* auxiliary: a request was parsed before all of it was read
    astray,       \* auxiliary: a request was torn and read_buffer has not begun
                  \* with a text that looks like a header since
    coalesced     \* auxiliary: two requests were in read_buffer at once

aux  == <<torn, astray, coalesced>>
vars == <<sent, hung_up, wire, read_buffer, open, answered, aux>>

Init ==
    /\ sent = <<>>
    /\ hung_up = FALSE
    /\ wire = <<>>
    /\ read_buffer = <<>>
    /\ open = TRUE
    /\ answered = <<>>
    /\ torn = FALSE
    /\ astray = FALSE
    /\ coalesced = FALSE

-----------------------------------------------------------------------------
(* The client                                                              *)

\* A bulk string on the wire.  Parse ends a text at its first carriage return
\* and skips one more character, as it does at the line break: the rest of a
\* binary text, which may be anything, is left where a token is expected.
Bulk(t) == << BulkHeader, LineBreak, Text(t), LineBreak >>
               \o (IF t \in DOMAIN Binary THEN Binary[t] ELSE <<>>)

Encode(request) ==
    LET bulks[i \in 0 .. Len(request.args)] ==
            IF i = 0 THEN Bulk(request.name) ELSE bulks[i - 1] \o Bulk(request.args[i])
    IN  << ArrayHeader(Len(request.args) + 1), LineBreak >> \o bulks[Len(request.args)]

\* The texts of a request.
TextsOf(request) == {request.name} \cup {request.args[i] : i \in DOMAIN request.args}

\* The rest of a binary text is a sequence of pieces, each with a carriage
\* return behind it, the last one that of the line break.
ASSUME BinaryAssumption ==
    /\ Binary \in [DOMAIN Binary -> Seq(Pieces)]
    /\ \A t \in DOMAIN Binary : \A i \in DOMAIN Binary[t] :
          Binary[t][i].kind # "break" =>
              i < Len(Binary[t]) /\ Binary[t][i + 1].kind = "break"
    /\ \A r \in Proper \cup Refused : TextsOf(r) \cap DOMAIN Binary = {}

\* How another request begins.
Following == << ArrayHeader(1), LineBreak >>

\* What makes a request proper: its parser takes all of it and leaves the
\* beginning of the next one alone.
ASSUME ProperAssumption ==
    \A r \in Proper :
        parseCommand(Encode(r) \o Following) = [cmd |-> r, rest |-> Following]

\* A request that is refused leaves nothing behind when it comes alone.
ASSUME RefusedAssumption ==
    \A r \in Refused : parseCommand(Encode(r)) = [cmd |-> UnknowCommand, rest |-> <<>>]

Send(request) ==
    /\ ~hung_up /\ open
    /\ Len(sent) < MaxRequests
    /\ sent # <<>> => request \in Followers
    /\ sent' = Append(sent, request)
    /\ wire' = wire \o Encode(request)
    /\ UNCHANGED <<hung_up, read_buffer, open, answered, aux>>

HangUp ==
    /\ ~hung_up
    /\ hung_up' = TRUE
    /\ UNCHANGED <<sent, wire, read_buffer, open, answered, aux>>

-----------------------------------------------------------------------------
(* The server                                                              *)

\* The requests whose array header is in these bytes; one in the rest of a
\* binary text counts, as it does for the parser.
Headers(bytes) == {i \in 1 .. Len(bytes) : bytes[i].kind = "array"}

\* The request at the start of buffer continues beyond its end.
Incomplete(buffer, under_way) ==
    /\ Cardinality(Headers(buffer)) = 1 /\ Head(buffer).kind = "array"
    /\ under_way # <<>> /\ Head(under_way).kind # "array"

\* From a request parsed in part until read_buffer begins with a text that
\* looks like a header.
StaysAstray(buffer, under_way) ==
    (astray \/ Incomplete(buffer, under_way)) /\ ~Opening(Head(buffer))

\* Mutant: the callback is only made when the buffer was empty before.
ReadFirstOnly(k) ==
    \E buffer \in {read_buffer \o SubSeq(wire, 1, k)} :
        /\ open
        /\ wire' = Drop(wire, k)
        /\ \/ /\ hung_up /\ k = Len(wire)
              /\ open' = FALSE
              /\ read_buffer' = buffer
              /\ UNCHANGED <<answered, aux>>
           \/ /\ ~(hung_up /\ k = Len(wire))
              /\ \E parsed \in {parseCommand(buffer)} :
                    IF read_buffer = <<>>
                    THEN read_buffer' = parsed.rest /\ answered' = Append(answered, parsed.cmd)
                    ELSE read_buffer' = buffer /\ UNCHANGED answered
              /\ torn' = (torn \/ Incomplete(buffer, Drop(wire, k)))
              /\ astray' = StaysAstray(buffer, Drop(wire, k))
              /\ coalesced' = (coalesced \/ Cardinality(Headers(buffer)) > 1)
              /\ UNCHANGED open
        /\ UNCHANGED <<sent, hung_up>>

\* Mutant: a read event starts with an empty buffer, so that what is left of the
\* bytes goes with the command parsed.
ReadOneCommand(k) ==
    \E buffer \in {read_buffer \o SubSeq(wire, 1, k)} :
        /\ open
        /\ wire' = Drop(wire, k)
        /\ \/ /\ hung_up /\ k = Len(wire)
              /\ open' = FALSE
              /\ read_buffer' = buffer
              /\ UNCHANGED <<answered, aux>>
           \/ /\ ~(hung_up /\ k = Len(wire))
              /\ \E parsed \in {parseCommand(buffer)} :
                    /\ read_buffer' = <<>>
                    /\ answered' = Append(answered, parsed.cmd)
              /\ torn' = (torn \/ Incomplete(buffer, Drop(wire, k)))
              /\ astray' = StaysAstray(buffer, Drop(wire, k))
              /\ coalesced' = (coalesced \/ Cardinality(Headers(buffer)) > 1)
              /\ UNCHANGED open
        /\ UNCHANGED <<sent, hung_up>>

\* A read event: k pieces are read and then either read() would block, which
\* makes the callback onMessage, or it returns 0 because the client has closed
\* its end, which makes handleClose: the bytes read before are not parsed.
\* processClientRequest parses one command, executes it and flushes its reply.
handleRead(k) ==
    \E buffer \in {read_buffer \o SubSeq(wire, 1, k)} :
        /\ open
        /\ wire' = Drop(wire, k)
        /\ \/ /\ hung_up /\ k = Len(wire)
              /\ open' = FALSE
              /\ read_buffer' = buffer
              /\ UNCHANGED <<answered, aux>>
           \/ /\ ~(hung_up /\ k = Len(wire))
              /\ \E parsed \in {parseCommand(buffer)} :
                    /\ read_buffer' = parsed.rest
                    /\ answered' = Append(answered, parsed.cmd)
              /\ torn' = (torn \/ Incomplete(buffer, Drop(wire, k)))
              /\ astray' = StaysAstray(buffer, Drop(wire, k))
              /\ coalesced' = (coalesced \/ Cardinality(Headers(buffer)) > 1)
              /\ UNCHANGED open
        /\ UNCHANGED <<sent, hung_up>>

\* Bytes have arrived, or the end of the stream.
Readable ==
    \E k \in 0 .. Len(wire) :
        /\ k > 0 \/ (hung_up /\ wire = <<>>)
        /\ handleRead(k)

Next ==
    \/ \E request \in Proper \cup Refused \cup Spoiling : Send(request)
    \/ HangUp
    \/ Readable

Spec == Init /\ [][Next]_vars /\ WF_vars(Readable)

-----------------------------------------------------------------------------
(* Properties                                                              *)

Sent == {sent[i] : i \in 1 .. Len(sent)}

\* The order of reads is one the code can handle: no command was parsed from
\* a part of its bytes, no request leaves bytes behind, and requests that
\* are refused are not read together with others.
Clean ==
    /\ ~torn
    /\ Sent \cap Spoiling = {}
    /\ coalesced => Sent \subseteq Proper

Meaning(request) == IF request \in Proper THEN request ELSE UnknowCommand

\* The bytes of several requests.
EncodeAll(requests) ==
    LET bytes[i \in 0 .. Len(requests)] ==
            IF i = 0 THEN <<>> ELSE bytes[i - 1] \o Encode(requests[i])
    IN  bytes[Len(requests)]

\* Requests that arrive in clean reads are executed as they were sent, in
\* order, each exactly once, and what is not executed yet is still there in
\* read_buffer or on its way (parseCommand erases what its parser took and
\* nothing else, for each of the parsers).
ExecutesWhatWasSent ==
    Clean /\ open =>
        /\ Len(answered) <= Len(sent)
        /\ \A i \in 1 .. Len(answered) : answered[i] = Meaning(sent[i])
        /\ read_buffer \o wire = EncodeAll(Drop(sent, Len(answered)))

\* The buffer starts with bytes that are not a request.
Wedged == read_buffer # <<>> /\ Head(read_buffer).kind # "array"

\* The first exception: the next bytes to be parsed are a text that looks like
\* a header, as those of KEYS *, XADD key *, REPLCONF GETACK * and XREAD $ do.
TextFirst ==
    LET bytes == read_buffer \o wire IN bytes # <<>> /\ Opening(Head(bytes))

\* The second: a binary text was sent in whose rest a token begins.
TokenInBinary ==
    \E r \in Sent : \E t \in TextsOf(r) \cap DOMAIN Binary : \E i \in DOMAIN Binary[t] :
        Looks(Binary[t][i]).kind \in {"array", "bulk"}

\* A connection does not recover by itself: once a request was parsed from a
\* part of its bytes, or bytes that no parser took stay at the start of
\* read_buffer, no read event executes a command, whatever the client sends,
\* until the bytes to parse begin with a text that looks like a header.  (A
\* "*" is then an array without elements: what follows is executed if it is
\* named like a command, the field GET of XADD key * GET v for one, and else
\* read_buffer is cleared.  A "$" takes what follows for its text, or if
\* nothing does, leaves an empty buffer.)
NeverRecovers ==
    [][(astray \/ Wedged) /\ ~TextFirst /\ ~TokenInBinary =>
          answered' \in {answered, Append(answered, UnknowCommand)}]_vars

\* Every request gets a reply (its own or an earlier one's) unless two
\* requests came in one read or the client hung up: a read event always
\* answers once.
EveryRequestAnswered ==
    \A n \in 1 .. MaxRequests :
        Len(sent) >= n ~> (Len(answered) >= n \/ coalesced \/ hung_up)
=============================================================================
