----------------------------- MODULE MCRequests -----------------------------
(* One request for each command, and some for each way to be refused or to *)
(* leave bytes behind.                                                     *)
EXTENDS Requests

R(name, args) == Command(name, args)

MCNumbers == {"0", "1"}

MCOpens == [t \in {"*", "$"} |-> IF t = "*" THEN ArrayHeader(0) ELSE BulkHeader]

\* A text that ends behind its carriage return, one that goes on with letters,
\* one with a request in it and one with a header of a bulk string.
MCBinary ==
    [t \in {"end", "more", "ping", "bulk"} |->
        CASE t = "end"  -> << LineBreak >>
          [] t = "more" -> << Text("a"), LineBreak >>
          [] t = "ping" -> << ArrayHeader(1), LineBreak,
                              BulkHeader, LineBreak, Text("PING"), LineBreak >>
          [] t = "bulk" -> << BulkHeader, LineBreak >>]

MCProper ==
    {R(name, <<>>) : name \in {"PING", "MULTI", "EXEC", "DISCARD"}}
    \cup {R(name, <<"a">>) : name \in {"ECHO", "GET", "TYPE", "INCR", "LLEN",
            "ZCARD", "SUBSCRIBE", "UNSUBSCRIBE", "INFO", "LPOP", "PSYNC"}}
    \cup {R(name, <<"a", "1">>) : name \in {"ZRANK", "ZSCORE", "AUTH", "PUBLISH",
            "SET", "RPUSH", "LPUSH", "ZREM", "GEOPOS", "BLPOP", "PSYNC"}}
    \cup {R(name, <<"a", "0", "1">>) : name \in {"LRANGE", "ZRANGE", "XRANGE",
            "GEODIST", "RPUSH", "ZADD"}}
    \cup {R("WAIT", <<"1", "0">>), R("LPOP", <<"a", "1">>),
          R("SET", <<"a", "b", "PX", "1">>), R("KEYS", <<"*">>),
          R("XADD", <<"a", "*", "GET", "v">>), R("REPLCONF", <<"GETACK", "*">>),
          R("GEOADD", <<"a", "0", "1", "m">>),
          R("GEOSEARCH", <<"a", "FROMLONLAT", "0", "1", "BYRADIUS", "1", "km">>),
          R("XREAD", <<"STREAMS", "a", "0">>),
          R("XREAD", <<"BLOCK", "1", "STREAMS", "a", "$">>),
          R("XREAD", <<"STREAMS", "a", "b", "$", "0">>),
          R("REPLCONF", <<"ACK", "0">>), R("CONFIG", <<"GET", "dir">>),
          R("ACL", <<"WHOAMI">>), R("ACL", <<"GETUSER", "a">>),
          R("ACL", <<"SETUSER", "a", ">p">>)}

MCRefused ==
    {R("NOSUCH", <<"a">>), R("GET", <<>>), R("SET", <<"a">>),
     R("LRANGE", <<"a", "x", "1">>), R("CONFIG", <<"SET">>), R("ACL", <<"SETUSER">>)}

MCSpoiling ==
    {R("PING", <<"a">>), R("SUBSCRIBE", <<"a", "b">>), R("ZADD", <<"a", "0", "m", "1">>),
     R("XREAD", <<"STREAMS", "a", "b", "0">>), R("ECHO", <<"end">>),
     R("SET", <<"more", "1">>), R("SET", <<"ping", "1">>), R("SET", <<"bulk", "1">>)}

MCFollowers == {R("PING", <<>>)}
=============================================================================
