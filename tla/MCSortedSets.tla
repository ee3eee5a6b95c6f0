---------------------------- MODULE MCSortedSets ----------------------------
(* Sorted sets with scores closer than they are printed and coordinates at
   the edges of cells and of the map. *)
EXTENDS SortedSets

MCMembers == {1, 2}
Scores == {0, 1, 2, 4}

Pairs == Scores \X MCMembers
MCScoreLists ==
  {<<>>} \cup {<<p>> : p \in Pairs}
    \cup {<<<<2, 1>>, <<1, 2>>>>, <<<<4, 2>>, <<0, 2>>>>}
MCMemberLists == {<<1>>, <<2>>, <<2, 0>>, <<1, 1, 2>>}

\* Longitudes from -33 to 33 (180 degrees is printed exactly) and latitudes
\* from -32 to 32 (85.05112878 is not).
Lons == {-33, 0, 17, 33, 34}
Lats == {-32, -1, 16, 32}
Triples == {<<lon, lat, m>> : lon \in Lons, lat \in Lats, m \in {1}}
             \cup {<<17, 16, 2>>, <<-17, 15, 2>>, <<NotANumber, 0, 2>>, <<17, 16, 0>>}
MCTripleLists ==
  {<<>>} \cup {<<t>> : t \in Triples}
    \cup {<<<<17, 16, 1>>, <<0, -1, 2>>>>, <<<<34, 0, 1>>, <<0, 0, 2>>>>}
=============================================================================
