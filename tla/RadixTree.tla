----------------------------- MODULE RadixTree ------------------------------
(***************************************************************************)
(* The radix tree that holds the entries of a stream (radix-tree.cpp).     *)
(*                                                                         *)
(* A key is the fixed-length big-endian form of a stream ID                *)
(* (StreamID::toBinary): here a sequence of Width digits.  Keys come in    *)
(* increasing order, as Stream::insert lets them through.  The data of an  *)
(* entry is left out: a node has it or not.                                *)
(***************************************************************************)
EXTENDS Naturals, Sequences, SequencesExt, FiniteSets

CONSTANTS
    Digits,     \* the bytes of a key
    Width,      \* the length of a key
    MaxEntries  \* bound: keys inserted

ASSUME ConstantsAssumption ==
    /\ Digits \subseteq Nat
    /\ {Width, MaxEntries} \subseteq Nat \ {0}

VARIABLES
    root,  \* RadixTree::root
    keys   \* auxiliary: the keys inserted, in order

vars == <<root, keys>>

Key == [1 .. Width -> Digits]

\* operator< of std::string.
Less(a, b) ==
    \/ IsStrictPrefix(a, b)
    \/ \E i \in DOMAIN a \cap DOMAIN b :
          a[i] < b[i] /\ \A j \in 1 .. i - 1 : a[j] = b[j]

LessEq(a, b) == a = b \/ Less(a, b)

\* RadixTreeNode: children maps edge labels to nodes.
Node(isDataPresent, children) ==
    [isDataPresent |-> isDataPresent, children |-> children]

Leaf == Node(TRUE, <<>>)

NoChildren == <<>>

Init ==
    /\ root = Node(FALSE, NoChildren)
    /\ keys = <<>>

-----------------------------------------------------------------------------
(* Insertion.                                                              *)

matchedLength(new_key, existing_key) ==
    LET common == {i \in DOMAIN new_key \cap DOMAIN existing_key :
                     \A j \in 1 .. i : new_key[j] = existing_key[j]}
    IN  Cardinality(common)

\* children with the edge e leading to n; any old edge e is replaced.
WithEdge(children, e, n) ==
    [f \in DOMAIN children \cup {e} |-> IF f = e THEN n ELSE children[f]]

\* Faulty variant of WithoutEdge: the edge that was split stays.
KeepEdge(children, e) == children

WithoutEdge(children, e) == [f \in DOMAIN children \ {e} |-> children[f]]

\* The node put where the edge old and the key part ways after n digits.
Split(n, key, old, old_child) ==
    LET rest == [f \in {SubSeq(old, n + 1, Len(old))} |-> old_child]
    IN  IF n = Len(key)
        THEN Node(TRUE, rest)
        ELSE Node(FALSE, WithEdge(rest, SubSeq(key, n + 1, Len(key)), Leaf))

RECURSIVE insertImpl(_, _)
insertImpl(node, key) ==
    LET children == node.children
        shared   == {e \in DOMAIN children : matchedLength(key, e) > 0}
    IN  IF key = <<>> THEN Node(TRUE, children)
        ELSE IF shared = {} THEN Node(node.isDataPresent, WithEdge(children, key, Leaf))
        ELSE LET best == CHOOSE e \in shared :
                           \A f \in shared : matchedLength(key, f) <= matchedLength(key, e)
                 n    == matchedLength(key, best)
             IN  IF n = Len(best)
                 THEN Node(node.isDataPresent,
                           WithEdge(children, best,
                                    insertImpl(children[best], SubSeq(key, n + 1, Len(key)))))
                 ELSE Node(node.isDataPresent,
                           WithEdge(WithoutEdge(children, best), SubSeq(key, 1, n),
                                    Split(n, key, best, children[best])))

-----------------------------------------------------------------------------
(* Range search.                                                           *)

\* Faulty variant of Below: prefixes of startKey are not excepted.
BelowOrPrefix(newKey, startKey) == LessEq(newKey, startKey)

\* A node whose path is newKey cannot lead to a key that reaches startKey.
Below(newKey, startKey) ==
    LessEq(newKey, startKey) /\ ~IsPrefix(newKey, startKey)

\* Children are visited in the order of their labels, and the first one
\* beyond endKey ends the visit.
RECURSIVE rangeSearchImpl(_, _, _, _, _)
rangeSearchImpl(startKey, endKey, node, currentKey, isExclusive) ==
    LET here    == IF /\ node.isDataPresent
                      /\ LessEq(startKey, currentKey) /\ LessEq(currentKey, endKey)
                      /\ ~(isExclusive /\ currentKey = startKey)
                   THEN <<currentKey>> ELSE <<>>
        edges   == SetToSortSeq(DOMAIN node.children, Less)
        visited == SelectSeq(edges, LAMBDA e :
                       \A i \in DOMAIN edges :
                           LessEq(edges[i], e) => ~Less(endKey, currentKey \o edges[i]))
        found   == [i \in DOMAIN visited |->
                       IF Below(currentKey \o visited[i], startKey) THEN <<>>
                       ELSE rangeSearchImpl(startKey, endKey, node.children[visited[i]],
                                            currentKey \o visited[i], isExclusive)]
    IN  here \o FlattenSeq(found)

rangeSearch(startKey, endKey, isExclusive) ==
    rangeSearchImpl(startKey, endKey, root, <<>>, isExclusive)

-----------------------------------------------------------------------------
insert(key) ==
    /\ Len(keys) < MaxEntries
    /\ \A i \in DOMAIN keys : Less(keys[i], key)
    /\ root' = insertImpl(root, key)
    /\ keys' = Append(keys, key)

Next == \E key \in Key : insert(key)

Spec == Init /\ [][Next]_vars

-----------------------------------------------------------------------------
(* Properties.                                                             *)

\* A range search returns the keys of the range, all of them, each once and
\* in order, whichever keys were inserted and whether or not the bounds are
\* keys of the tree (insertImpl, rangeSearchImpl).
RangeExact ==
    \A startKey, endKey \in Key, isExclusive \in BOOLEAN :
        rangeSearch(startKey, endKey, isExclusive)
            = SelectSeq(keys, LAMBDA k :
                 /\ IF isExclusive THEN Less(startKey, k) ELSE LessEq(startKey, k)
                 /\ LessEq(k, endKey))

RECURSIVE Nodes(_)
Nodes(node) ==
    {node} \cup UNION {Nodes(node.children[e]) : e \in DOMAIN node.children}

\* The tree stays compact: siblings differ in their first byte, so at most
\* one edge matches a key, and below the root no node without data has a
\* single child (insertImpl, its splits included).
TreeCompact ==
    \A node \in Nodes(root) :
        LET edges == DOMAIN node.children
        IN  /\ \A e, f \in edges : e # f => e[1] # f[1]
            /\ node = root \/ node.isDataPresent \/ Cardinality(edges) > 1

=============================================================================
