----------------------------- MODULE SortedSets -----------------------------
(***************************************************************************)
(* Sorted sets and geospatial sets (sortedset.cpp, the Z* and GEO*         *)
(* handlers, the parsers of ZADD and GEOADD), on one key of a master and   *)
(* of a replica.                                                           *)
(*                                                                         *)
(* A sorted set keeps every member twice, in a hash map from members to    *)
(* scores and in a set of (score, member) pairs in order, and counts them. *)
(* The replica receives each write as Command::to_resp prints it: scores   *)
(* and coordinates with six decimals.  The link delivers in order (module  *)
(* Handshake), so the replica is shown as it is once it has caught up.     *)
(*                                                                         *)
(* Members are numbers, which stand in for the order of strings.  Scores   *)
(* are non-negative integers in thirds of the printed resolution; whole    *)
(* numbers, and so the scores of GEOADD, are multiples of three.           *)
(***************************************************************************)
EXTENDS Geohash, Sequences, SequencesExt

CONSTANTS Members,        \* the members clients name; 0 is the empty string
          ScoreLists,     \* what ZADD carries: sequences of <<score, member>>
          MemberLists,    \* what ZREM carries: sequences of members
          TripleLists     \* what GEOADD carries: sequences of triples

ASSUME MembersAssumption == Members \subseteq Nat \ {0}
ASSUME ListsAssumption ==
  /\ ScoreLists \subseteq Seq(Nat \X (Members \cup {0}))
  /\ MemberLists \subseteq Seq(Nat)
  /\ TripleLists \subseteq Seq(Int \X Int \X (Members \cup {0}))

VARIABLES store,      \* store[s]: the object of the key on server s, or none
          placed,     \* auxiliary: where GEOADD put the members of the master
          drifted     \* auxiliary: a GEOADD was not the same on both servers

vars == <<store, placed, drifted>>

Servers == {"master", "replica"}

NotANumber == 1000000      \* a coordinate std::stod refuses

(***************************************************************************)
(* class SortedSet.                                                        *)
(***************************************************************************)
NoObject == [type |-> "none"]
StringObject == [type |-> "string"]
NewSortedSet ==
  [type |-> "zset", hashMap |-> [m \in {} |-> 0], sets |-> {}, length |-> 0, isGeo |-> FALSE]

Put(f, x, y) == [z \in DOMAIN f \cup {x} |-> IF z = x THEN y ELSE f[z]]
Without(f, x) == [z \in DOMAIN f \ {x} |-> f[z]]

\* Mutant: the pair of the old score stays.
InsertLeavesOld(z, m, s) ==
  [z EXCEPT !.hashMap = Put(@, m, s),
            !.sets = @ \cup {<<s, m>>},
            !.length = IF m \in DOMAIN z.hashMap THEN @ ELSE @ + 1]

insert(z, m, s) ==
  LET known == m \in DOMAIN z.hashMap
      old   == IF known THEN {<<z.hashMap[m], m>>} ELSE {}
  IN [z EXCEPT !.hashMap = Put(@, m, s),
               !.sets = (@ \ old) \cup {<<s, m>>},
               !.length = (IF known THEN @ - 1 ELSE @) + 1]

remove(z, m) ==
  IF m \notin DOMAIN z.hashMap THEN z
  ELSE [z EXCEPT !.hashMap = Without(@, m),
                 !.sets = @ \ {<<z.hashMap[m], m>>},
                 !.length = @ - 1]

\* The order of std::pair<double, std::string>.
Before(p, q) == p[1] < q[1] \/ (p[1] = q[1] /\ p[2] < q[2])

\* What an iterator over the ordered set meets, in this order.
InOrder(pairs) ==
  CHOOSE seq \in [1 .. Cardinality(pairs) -> pairs] :
    \A i, j \in DOMAIN seq : i < j => Before(seq[i], seq[j])

\* The rank, or -1.
rank(z, m) ==
  IF m \notin DOMAIN z.hashMap \/ <<z.hashMap[m], m>> \notin z.sets THEN -1
  ELSE Cardinality({p \in z.sets : Before(p, <<z.hashMap[m], m>>)})

\* Mutant: an index past the end is not cut.
RangeUncut(z, start, stop) ==
  LET sz   == Cardinality(z.sets)
      from == Max({0, IF start < 0 THEN sz + start ELSE start})
      to   == IF stop < 0 THEN sz + stop ELSE Min({stop, sz})
      seq  == InOrder(z.sets)
  IN IF sz = 0 \/ from > to THEN <<>>
     ELSE [k \in 1 .. to - from + 1 |-> IF from + k <= sz THEN seq[from + k][2] ELSE 0]

range(z, start, stop) ==
  LET sz   == Cardinality(z.sets)
      from == Max({0, IF start < 0 THEN sz + start ELSE start})
      to   == Min({sz - 1, IF stop < 0 THEN sz + stop ELSE stop})
      seq  == InOrder(z.sets)
  IN IF sz = 0 \/ from > to THEN <<>>
     ELSE [k \in 1 .. to - from + 1 |-> seq[from + k][2]]

(***************************************************************************)
(* The commands.  A handler on a key of another type changes nothing; on   *)
(* no key, ZADD and GEOADD make one.                                       *)
(***************************************************************************)
IsZset(o) == o.type = "zset"

Opened(o) == IF o = NoObject THEN NewSortedSet ELSE o

\* The object after the pairs are inserted one by one.
InsertAll(o, pairs) ==
  LET z[k \in 0 .. Len(pairs)] ==
        IF k = 0 THEN o ELSE insert(z[k - 1], pairs[k][2], pairs[k][1])
  IN z[Len(pairs)]

handle_zadd(o, pairs) ==
  IF ~IsZset(Opened(o)) THEN o ELSE InsertAll(Opened(o), pairs)

\* The object after the members are removed one by one.
RemoveAll(o, ms) ==
  LET z[k \in 0 .. Len(ms)] == IF k = 0 THEN o ELSE remove(z[k - 1], ms[k])
  IN z[Len(ms)]

handle_zrem(o, ms) == IF ~IsZset(o) THEN o ELSE RemoveAll(o, ms)

\* parseGeoAddCommand reads every triple into the same fields: the last
\* member and coordinates win, one bad pair spoils the command, and without
\* a triple the fields keep their defaults.
ParseStep(cmd, t) ==
  LET lon == IF t[1] = NotANumber THEN cmd.lon ELSE t[1]
      lat == IF t[2] = NotANumber THEN cmd.lat ELSE t[2]
      bad == cmd.bad \/ NotANumber \in {t[1], t[2]} \/ ~Allowed(lon, lat)
  IN [lon |-> lon, lat |-> lat, bad |-> bad, member |-> t[3],
      score |-> IF bad THEN cmd.score ELSE 3 * GeoScore(lon, lat)]

parseGeoAddCommand(triples) ==
  LET cmd[k \in 0 .. Len(triples)] ==
        IF k = 0 THEN [lon |-> 0, lat |-> 0, bad |-> FALSE, member |-> 0, score |-> 0]
        ELSE ParseStep(cmd[k - 1], triples[k])
  IN cmd[Len(triples)]

handle_geoadd(o, cmd) ==
  IF cmd.bad \/ ~IsZset(Opened(o)) THEN o
  ELSE insert([Opened(o) EXCEPT !.isGeo = TRUE], cmd.member, cmd.score)

(***************************************************************************)
(* Command::to_resp: what the replica is sent, and parses again.           *)
(***************************************************************************)
\* Mutant: the last pair is not sent.
ZaddRespShort(pairs) ==
  [k \in 1 .. Len(Front(pairs)) |-> <<Printed(pairs[k][1]), pairs[k][2]>>]

ZaddResp(pairs) == [k \in 1 .. Len(pairs) |-> <<Printed(pairs[k][1]), pairs[k][2]>>]

GeoaddResp(cmd) == <<<<Printed(cmd.lon), Printed(cmd.lat), cmd.member>>>>

(***************************************************************************)
(* The replies of the commands that read; WrongType stands for the error.  *)
(***************************************************************************)
Null == <<>>
WrongType == <<"wrong", "type">>

Reply(o, missing, found) ==
  IF o = NoObject THEN missing ELSE IF ~IsZset(o) THEN WrongType ELSE found

handle_zcard(o) == Reply(o, <<0>>, <<o.length>>)

handle_zrank(o, m) ==
  Reply(o, Null, IF rank(o, m) = -1 THEN Null ELSE <<rank(o, m)>>)

\* A set that GEOADD has touched shows whole numbers only.
handle_zscore(o, m) ==
  Reply(o, Null, IF m \notin DOMAIN o.hashMap THEN Null
                 ELSE IF o.isGeo THEN <<3 * (o.hashMap[m] \div 3)>>
                 ELSE <<o.hashMap[m]>>)

handle_zrange(o, start, stop) == Reply(o, <<>>, range(o, start, stop))

handle_geopos(o, m) ==
  Reply(o, Null, IF m \notin DOMAIN o.hashMap THEN Null
                 ELSE <<geoHashDecode(o.hashMap[m] \div 3)>>)

handle_geodist(o, m, n) ==
  Reply(o, Null, IF {m, n} \subseteq DOMAIN o.hashMap
                 THEN <<calculateDistance(geoHashDecode(o.hashMap[m] \div 3),
                                          geoHashDecode(o.hashMap[n] \div 3))>>
                 ELSE Null)

\* The centre goes through the geohash too; one that geoHashEncode refuses
\* leaves the hash at zero.
handle_geosearch(o, lon, lat, radius) ==
  LET bits   == IF Allowed(lon, lat) THEN Value(geoHashEncode(lon, lat)) ELSE 0
      centre == geoHashDecode(bits)
  IN Reply(o, {}, {m \in DOMAIN o.hashMap :
                     calculateDistance(centre, geoHashDecode(o.hashMap[m] \div 3)) <= radius})

(***************************************************************************)
(* The writes, on the master and, as they are propagated, on the replica.  *)
(***************************************************************************)
Init ==
  /\ store = [s \in Servers |-> NoObject]
  /\ placed = <<>>
  /\ drifted = FALSE

SET ==
  /\ store' = [s \in Servers |-> StringObject]
  /\ placed' = <<>>
  /\ drifted' = FALSE

ZADD ==
  \E pairs \in ScoreLists :
     /\ store' = [master  |-> handle_zadd(store["master"], pairs),
                  replica |-> handle_zadd(store["replica"], ZaddResp(pairs))]
     /\ placed' = IF ~IsZset(store'["master"]) THEN placed
                  ELSE [m \in DOMAIN placed \ {pairs[k][2] : k \in 1 .. Len(pairs)}
                          |-> placed[m]]
     /\ UNCHANGED drifted

ZREM ==
  \E ms \in MemberLists :
     /\ store' = [s \in Servers |-> handle_zrem(store[s], ms)]
     /\ placed' = [m \in DOMAIN placed \ {ms[k] : k \in 1 .. Len(ms)} |-> placed[m]]
     /\ UNCHANGED drifted

\* The write is propagated whether or not the master refused it.
GEOADD ==
  \E triples \in TripleLists :
     LET cmd  == parseGeoAddCommand(triples)
         copy == parseGeoAddCommand(GeoaddResp(cmd))
         there == IsZset(Opened(store["master"]))
     IN /\ store' = [master  |-> handle_geoadd(store["master"], cmd),
                     replica |-> handle_geoadd(store["replica"], copy)]
        /\ placed' = IF cmd.bad \/ ~there THEN placed
                     ELSE IF triples = <<>> THEN Without(placed, cmd.member)
                     ELSE Put(placed, cmd.member, <<cmd.lon, cmd.lat>>)
        /\ drifted' = (drifted \/ (there /\ cmd.bad # copy.bad))

Next == SET \/ ZADD \/ ZREM \/ GEOADD

Spec == Init /\ [][Next]_vars

(***************************************************************************)
(* Properties.                                                             *)
(***************************************************************************)
Zsets == {s \in Servers : IsZset(store[s])}

\* The two indexes of a sorted set and its length say the same after any
\* sequence of insertions, updates and removals, on both servers.
IndexesAgree ==
  \A s \in Zsets :
     LET z == store[s]
     IN /\ z.sets = {<<z.hashMap[m], m>> : m \in DOMAIN z.hashMap}
        /\ z.length = Cardinality(DOMAIN z.hashMap)

\* What the read commands reply fits together: ZCARD counts the members that
\* have a score, ZRANGE of a member's rank is that member, ZRANGE of
\* everything is in the order of the scores, and any other range is a piece
\* of it, whatever the signs of the indexes.
ReadsAgree ==
  \A s \in Zsets :
     LET z   == store[s]
         all == handle_zrange(z, 0, -1)
         n   == Len(all)
         abs(i) == IF i < 0 THEN n + i ELSE i
     IN /\ handle_zcard(z) = <<n>>
        /\ {all[k] : k \in 1 .. n} = {m \in Members \cup {0} : handle_zscore(z, m) # Null}
        /\ \A k \in 1 .. n : /\ handle_zrank(z, all[k]) = <<k - 1>>
                             /\ handle_zrange(z, k - 1, k - 1) = <<all[k]>>
                             /\ k > 1 => z.hashMap[all[k - 1]] <= z.hashMap[all[k]]
        /\ \A i, j \in -(n + 1) .. n + 1 :
              handle_zrange(z, i, j)
                = SubSeq(all, Max({0, abs(i)}) + 1, Min({n, abs(j) + 1}))

\* The replica has the key, its type and the same members as the master,
\* unless a GEOADD close to the edge of the map was refused by one of the
\* two: the rounded coordinates are on the other side of the limit.
ReplicaSameMembers ==
  \/ drifted
  \/ /\ store["replica"].type = store["master"].type
     /\ "master" \in Zsets =>
          DOMAIN store["replica"].hashMap = DOMAIN store["master"].hashMap

\* Two members whose scores are at least the printed resolution apart
\* are in the same order on the replica, as long as no GEOADD touched the set.
ReplicaSameOrder ==
  "master" \in Zsets /\ ~store["master"].isGeo /\ ~drifted =>
    LET m == store["master"].hashMap
        r == store["replica"].hashMap
    IN \A a, b \in DOMAIN m : m[a] + 3 <= m[b] => r[a] < r[b]

\* GEOPOS of a member the client placed is the cell of the coordinates it
\* gave, GEODIST of it to itself is zero and GEOSEARCH around them finds it,
\* except on the greatest longitude, whose score is one bit longer than a
\* double.
GeoRoundTrip ==
  "master" \in Zsets =>
    \A m \in DOMAIN placed :
       LET z   == store["master"]
           lon == placed[m][1]
           lat == placed[m][2]
       IN lon < LonMax => /\ handle_geopos(z, m) = <<CellsOf(lon, lat)>>
                          /\ handle_geodist(z, m, m) = <<0>>
                          /\ m \in handle_geosearch(z, lon, lat, 0)
=============================================================================
