----------------------------- MODULE MCStreams ------------------------------
(* Streams with XREADs of one key and of two.                              *)
EXTENDS Streams

CONSTANTS a, b

Starts == {Dollar, Zero, [ms |-> 0, seq |-> 1]}

OneOrTwoKeys ==
    {<<[key |-> a, start |-> s]>> : s \in Starts}
        \cup {<<[key |-> a, start |-> Zero], [key |-> b, start |-> s]>> : s \in {Dollar, Zero}}

=============================================================================
