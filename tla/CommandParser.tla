--------------------------- MODULE CommandParser ----------------------------
(***************************************************************************)
(* The RESP tokenizer (parser.cpp) and the command parsers built on it     *)
(* (command-parser.cpp), as functions from the bytes of a read buffer to   *)
(* the command parsed and the bytes left.                                  *)
(*                                                                         *)
(* The bytes are cut where the parsers can tell a difference: an array     *)
(* header "*n", the header "$n" of a bulk string, its text, and the line   *)
(* break behind each of them, which is a carriage return and whatever      *)
(* character follows it.  The names, options and numbers that the parsers  *)
(* look for are strings, every other text stands for itself.  A text is    *)
(* seldom where a token is expected, but when it is, its own characters    *)
(* count: "*" and "$" look like headers.                                   *)
(***************************************************************************)
EXTENDS Integers, Sequences

CONSTANTS
    Numbers,  \* the texts that the number conversions of utils.h accept
    Opens     \* the texts that look like a header ("*", "$", with or without
              \* digits behind it), and for each the header it looks like

\* The characters of a token that was not found: never a name, an option or
\* a number.
NoText == "?"

Piece(kind, n, text) == [kind |-> kind, n |-> n, text |-> text]

ArrayHeader(n) == Piece("array", n, NoText)
BulkHeader     == Piece("bulk", 0, NoText)
Text(t)        == Piece("text", 0, t)
LineBreak      == Piece("break", 0, "")

\* (Two strings are named because the provers know of no literal that it is in
\* STRING.)
Pieces == [kind : {"array", "bulk", "text", "break"}, n : Int,
           text : STRING \cup {NoText, ""}]

ASSUME OpensAssumption ==
    Opens \in [DOMAIN Opens -> {p \in Pieces : p.kind \in {"array", "bulk"}}]

-----------------------------------------------------------------------------
(* Parser::Parse.  A header at the end of the buffer counts as complete    *)
(* (calculate_length stops there), and so does a text: the position is     *)
(* moved past the end and the token is accepted.  The length of a bulk     *)
(* string is not used: what comes up to the next carriage return is its    *)
(* text, even another header.  A token that is neither array nor bulk      *)
(* string does not move the position (a "*" or "$" with a letter behind it *)
(* moves it by that character, which at the start of the buffer, where     *)
(* such a text can be met, makes no difference: parseCommand gives up).    *)

\* The element of a set that has one.  {f(x) : x \in {e}} is {f(e)}, with e
\* evaluated once by TLC however often f uses it.
TheOne(S) == CHOOSE x \in S : TRUE

Drop(buffer, k) == SubSeq(buffer, k + 1, Len(buffer))

Opening(piece) == piece.kind = "text" /\ piece.text \in DOMAIN Opens

\* What a piece is where a token is expected.
Looks(piece) == IF Opening(piece) THEN Opens[piece.text] ELSE piece

\* The pieces up to the end of the text of a bulk string; it is empty if a
\* carriage return comes at once.
TextEnd(buffer) == IF Len(buffer) > 2 /\ buffer[3].kind = "break" THEN 2 ELSE 3

Token(buffer) ==
    LET head == Looks(Head(buffer))
    IN  CASE buffer # <<>> /\ head.kind = "array" ->
               [type |-> "ARRAY", n |-> head.n, text |-> NoText, rest |-> Drop(buffer, 2)]
          [] buffer # <<>> /\ head.kind = "bulk" ->
               [type |-> "BULK_STRING", n |-> 0,
                text |-> IF Len(buffer) > 2 THEN buffer[3].text ELSE "",
                rest |-> Drop(buffer, TextEnd(buffer) + 1)]
          [] OTHER ->
               [type |-> "UNKNOWN", n |-> 0, text |-> NoText, rest |-> buffer]

Parse(bytes) == TheOne({Token(buffer) : buffer \in {bytes}})

-----------------------------------------------------------------------------
(* The progress of a command parser: the texts it has put into its command *)
(* and the bytes from current_read_position on.  status is "go" while it   *)
(* parses, "stop" after a break of its loop, "unknown" once it returns an  *)
(* UnknowCommand.                                                          *)

Begin(buffer) == [status |-> "go", args |-> <<>>, rest |-> buffer]

\* The next k tokens, which count only if all of them are bulk strings; if
\* not, they are skipped and the parser goes on as "otherwise" says.
TokensTaken(p, k, otherwise) ==
    LET token[i \in 1 .. k] ==
            Parse(IF i = 1 THEN p.rest ELSE token[i - 1].rest)
    IN  IF p.status # "go" THEN p
        ELSE IF \A i \in 1 .. k : token[i].type = "BULK_STRING"
             THEN [p EXCEPT !.args = @ \o [i \in 1 .. k |-> token[i].text],
                            !.rest = token[k].rest]
             ELSE [p EXCEPT !.status = otherwise, !.rest = token[k].rest]

Group(parser, k, otherwise) ==
    TheOne({TokensTaken(p, k, otherwise) : p \in {parser}})

Must(p)  == Group(p, 1, "unknown")  \* return an UnknowCommand without it
Maybe(p) == Group(p, 1, "go")       \* ignored when it is something else
Until(p) == Group(p, 1, "stop")     \* leave the loop at something else

\* A loop that takes k tokens n times.
Repeat(p, n, k, otherwise) ==
    LET done[i \in 0 .. n] == IF i = 0 THEN p ELSE Group(done[i - 1], k, otherwise)
    IN  IF n > 0 THEN done[n] ELSE p

Refuse(p) == [p EXCEPT !.status = "unknown"]

\* The arguments at these places have to be numbers.
NumbersAt(p, places) ==
    IF p.status = "go" /\ \E i \in places : p.args[i] \notin Numbers
    THEN Refuse(p) ELSE p

-----------------------------------------------------------------------------
(* One operator for each parse...Command; n is total_commands, the number  *)
(* of arguments the array header announces.  Only some parsers look at it: *)
(* the others take a fixed number of tokens.                               *)

parsePingCommand(p)    == p
parseMultiCommand(p)   == p
parseExecCommand(p)    == p
parseDiscardCommand(p) == p

parseEchoCommand(p)        == Must(p)
parseGetCommand(p)         == Must(p)
parseTypeCommand(p)        == Must(p)
parseIncrCommand(p)        == Must(p)
parseLlenCommand(p)        == Must(p)
parseZcardCommand(p)       == Must(p)
parseKeysCommand(p)        == Must(p)
parseSubScribeCommand(p)   == Must(p)
parseUnsubscribeCommand(p) == Must(p)
parseInfoCommand(p)        == Must(p)

parseZrankCommand(p)   == Must(Must(p))
parseZscoreCommand(p)  == Must(Must(p))
parseAuthCommand(p)    == Must(Must(p))
parsePublishCommand(p) == Must(Must(p))

\* The type of the second token is not looked at.
parseWaitCommand(p) == Maybe(Must(p))

parseReplConfCommand(p) ==
    LET type == Must(p)
    IN  IF type.status = "go"
             /\ type.args[1] \in {"listening-port", "capa", "GETACK", "ACK"}
        THEN Maybe(type) ELSE type

parseXrangeCommand(p)  == Repeat(p, 3, 1, "unknown")
parseGeoDistCommand(p) == Repeat(p, 3, 1, "unknown")
parseLrangeCommand(p)  == NumbersAt(Repeat(p, 3, 1, "unknown"), {2, 3})
parseZrangeCommand(p)  == NumbersAt(Repeat(p, 3, 1, "unknown"), {2, 3})

\* key FROMLONLAT longitude latitude BYRADIUS radius unit; the words and the
\* unit are not looked at.
parseGeoSearchCommand(p) == NumbersAt(Maybe(Repeat(p, 6, 1, "unknown")), {3, 4, 6})

\* EX or PX with a value after it is kept if the value is a number; any other
\* word is skipped.  left is what is left of total_commands.
SetOptionTaken(p, left) ==
    LET flag  == Until(p)
        word  == flag.args[Len(flag.args)]
        value == Parse(flag.rest)
    IN  IF p.status # "go" \/ left <= 0 THEN [p |-> p, left |-> left]
        ELSE IF flag.status = "stop" THEN [p |-> flag, left |-> left]
        ELSE IF word \in {"EX", "PX"} /\ left > 1
        THEN [p |-> [flag EXCEPT
                        !.args = IF value.type = "BULK_STRING" /\ value.text \in Numbers
                                 THEN @ \o <<value.text>> ELSE p.args,
                        !.rest = value.rest],
              left |-> left - 2]
        ELSE [p |-> [flag EXCEPT !.args = p.args], left |-> left - 1]

SetOption(option) == TheOne({SetOptionTaken(o.p, o.left) : o \in {option}})

parseSetCommand(p, n) ==
    LET kv == [p |-> Must(Must(p)), left |-> n - 2]
        options[i \in 0 .. n - 2] == IF i = 0 THEN kv ELSE SetOption(options[i - 1])
    IN  IF n > 2 THEN options[n - 2].p ELSE kv.p

parseRpushCommand(p, n)  == Repeat(Must(p), n - 1, 1, "go")
parseLpushCommand(p, n)  == Repeat(Must(p), n - 1, 1, "go")
parseZremCommand(p, n)   == Repeat(Must(p), n - 1, 1, "go")
parseGeoPosCommand(p, n) == Repeat(Must(p), n - 1, 1, "go")

parseLpopCommand(p, n)  == IF n > 1 THEN Maybe(Must(p)) ELSE Must(p)
parsePsyncCommand(p, n) == IF n > 1 THEN Must(Must(p)) ELSE Must(p)

\* The keys, then the timeout.
parseBlpopCommand(p, n) == Repeat(p, n, 1, "go")

parseXaddCommand(p, n) ==
    Repeat(Must(Must(p)), (n - 2) \div 2, 2, "go")

parseZaddCommand(p, n) ==
    Repeat(Must(p), (n - 1) \div 2, 2, "stop")

\* Every triple overwrites the position and the member of the one before it.
parseGeoAddCommand(p, n) ==
    LET all == Repeat(Must(p), (n - 1) \div 3, 3, "stop")
    IN  [all EXCEPT !.args = IF Len(@) > 4
                             THEN SubSeq(@, 1, 1) \o SubSeq(@, Len(@) - 2, Len(@)) ELSE @]

\* [BLOCK timeout] STREAMS keys ids.  After BLOCK the two next tokens are
\* taken for the timeout and the word STREAMS whatever they are.
parseXreadCommand(p, n) ==
    LET first == Must(p)
        block == first.args[1] = "BLOCK"
        left  == IF block THEN n - 3 ELSE n - 1
        keys  == IF block THEN Maybe(Maybe(first)) ELSE first
    IN  IF first.status # "go" THEN first
        ELSE IF first.args[1] \notin {"BLOCK", "STREAMS"} THEN Refuse(first)
        ELSE IF left % 2 # 0 THEN Refuse(keys)
        ELSE Repeat(keys, left, 1, "go")

parseGetConfigCommand(p, n) ==
    LET type == Must(p)
    IN  IF type.status = "go" /\ type.args[1] # "GET" THEN Refuse(type)
        ELSE Repeat(type, n - 1, 1, "unknown")

parseACLCommand(p, n) ==
    LET sub == Must(p)
    IN  IF n < 1 THEN Refuse(p)
        ELSE IF sub.status # "go" THEN sub
        ELSE CASE sub.args[1] = "WHOAMI"  -> sub
               [] sub.args[1] = "GETUSER" ->
                    IF n > 2 THEN Refuse(sub) ELSE IF n = 2 THEN Must(sub) ELSE sub
               [] sub.args[1] = "SETUSER" ->
                    IF n < 2 THEN Refuse(sub) ELSE Repeat(Must(sub), n - 2, 1, "stop")
               [] OTHER -> Refuse(sub)

-----------------------------------------------------------------------------
(* CommandParser::parseCommand                                             *)

Names ==
    {"PING", "ECHO", "SET", "GET", "TYPE", "INCR", "RPUSH", "LPUSH", "LRANGE",
     "LLEN", "LPOP", "BLPOP", "XADD", "XRANGE", "XREAD", "MULTI", "EXEC",
     "DISCARD", "INFO", "REPLCONF", "PSYNC", "WAIT", "CONFIG", "KEYS",
     "SUBSCRIBE", "PUBLISH", "UNSUBSCRIBE", "ZADD", "ZRANK", "ZRANGE", "ZCARD",
     "ZSCORE", "ZREM", "GEOADD", "GEOPOS", "GEODIST", "GEOSEARCH", "ACL", "AUTH"}

\* The parser of the command called name, from its first argument on.
Arguments(name, p, n) ==
    CASE name = "PING" -> parsePingCommand(p)
      [] name = "ECHO" -> parseEchoCommand(p)
      [] name = "SET" -> parseSetCommand(p, n)
      [] name = "GET" -> parseGetCommand(p)
      [] name = "TYPE" -> parseTypeCommand(p)
      [] name = "INCR" -> parseIncrCommand(p)
      [] name = "RPUSH" -> parseRpushCommand(p, n)
      [] name = "LPUSH" -> parseLpushCommand(p, n)
      [] name = "LRANGE" -> parseLrangeCommand(p)
      [] name = "LLEN" -> parseLlenCommand(p)
      [] name = "LPOP" -> parseLpopCommand(p, n)
      [] name = "BLPOP" -> parseBlpopCommand(p, n)
      [] name = "XADD" -> parseXaddCommand(p, n)
      [] name = "XRANGE" -> parseXrangeCommand(p)
      [] name = "XREAD" -> parseXreadCommand(p, n)
      [] name = "MULTI" -> parseMultiCommand(p)
      [] name = "EXEC" -> parseExecCommand(p)
      [] name = "DISCARD" -> parseDiscardCommand(p)
      [] name = "INFO" -> parseInfoCommand(p)
      [] name = "REPLCONF" -> parseReplConfCommand(p)
      [] name = "PSYNC" -> parsePsyncCommand(p, n)
      [] name = "WAIT" -> parseWaitCommand(p)
      [] name = "CONFIG" -> parseGetConfigCommand(p, n)
      [] name = "KEYS" -> parseKeysCommand(p)
      [] name = "SUBSCRIBE" -> parseSubScribeCommand(p)
      [] name = "PUBLISH" -> parsePublishCommand(p)
      [] name = "UNSUBSCRIBE" -> parseUnsubscribeCommand(p)
      [] name = "ZADD" -> parseZaddCommand(p, n)
      [] name = "ZRANK" -> parseZrankCommand(p)
      [] name = "ZRANGE" -> parseZrangeCommand(p)
      [] name = "ZCARD" -> parseZcardCommand(p)
      [] name = "ZSCORE" -> parseZscoreCommand(p)
      [] name = "ZREM" -> parseZremCommand(p, n)
      [] name = "GEOADD" -> parseGeoAddCommand(p, n)
      [] name = "GEOPOS" -> parseGeoPosCommand(p, n)
      [] name = "GEODIST" -> parseGeoDistCommand(p)
      [] name = "GEOSEARCH" -> parseGeoSearchCommand(p)
      [] name = "ACL" -> parseACLCommand(p, n)
      [] name = "AUTH" -> parseAuthCommand(p)

Command(name, args) == [name |-> name, args |-> args]

UnknowCommand == Command(NoText, <<>>)

\* Mutant: a buffer that does not start with a token is cleared as well.
ParseClearing(buffer) ==
    LET first == Parse(buffer)
        name  == Parse(first.rest)
        p     == Arguments(name.text, Begin(name.rest), first.n - 1)
    IN  IF first.type # "ARRAY" \/ name.text \notin Names
        THEN [cmd |-> UnknowCommand, rest |-> <<>>]
        ELSE [cmd |-> IF p.status = "unknown" THEN UnknowCommand
                      ELSE Command(name.text, p.args),
              rest |-> p.rest]

\* Returns the command and what is left of the buffer.  A buffer that does not
\* start with a token is left as it is; a bulk string at its start (taken for
\* an RDB file) is erased up to the end of its text and the rest, which starts
\* with a line break or is empty, is left; a name that is not known clears
\* the buffer, and so does a name that is no bulk string (the name is then the
\* first character of the buffer); otherwise the tokens that the parser has
\* taken are erased.
parseCommand(buffer) ==
    LET first == Parse(buffer)
        name  == Parse(first.rest)
        p     == Arguments(name.text, Begin(name.rest), first.n - 1)
    IN  CASE first.type = "UNKNOWN" -> [cmd |-> UnknowCommand, rest |-> buffer]
          [] first.type = "BULK_STRING" -> [cmd |-> UnknowCommand, rest |-> Drop(buffer, TextEnd(buffer))]
          [] first.type = "ARRAY" /\ name.text \notin Names ->
                [cmd |-> UnknowCommand, rest |-> <<>>]
          [] OTHER ->
                [cmd |-> IF p.status = "unknown" THEN UnknowCommand
                         ELSE Command(name.text, p.args),
                 rest |-> p.rest]
=============================================================================
