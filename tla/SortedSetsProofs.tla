-------------------------- MODULE SortedSetsProofs --------------------------
(* Invariants of SortedSets for any members, scores and coordinates.       *)
EXTENDS SortedSets, Induction, FiniteSetTheorems, SequenceTheorems, TLAPS

-----------------------------------------------------------------------------
(* The inductive invariant.                                                *)

IsSortedSet(z) ==
  \E h, s, n, g : z = [type |-> "zset", hashMap |-> h, sets |-> s, length |-> n, isGeo |-> g]

\* The hash map, the ordered set and the length belong together.
Sound(z) ==
  /\ IsSortedSet(z)
  /\ z.isGeo \in BOOLEAN
  /\ IsFiniteSet(DOMAIN z.hashMap)
  /\ z.sets = {<<z.hashMap[m], m>> : m \in DOMAIN z.hashMap}
  /\ z.length = Cardinality(DOMAIN z.hashMap)

Objects == \A s \in Servers : store[s] = NoObject \/ store[s] = StringObject \/ Sound(store[s])

\* r holds the members of z with the scores as they are printed.
Rounded(z, r) ==
  \A m \in DOMAIN z.hashMap :
     z.hashMap[m] \in Nat /\ r.hashMap[m] = Printed(z.hashMap[m])

\* r is a copy of z, up to the scores if GEOADD was used.
Copy(z, r) ==
  /\ Sound(z) /\ Sound(r)
  /\ DOMAIN r.hashMap = DOMAIN z.hashMap
  /\ ~z.isGeo => Rounded(z, r)

CopyUnlessDrifted ==
  \/ drifted
  \/ store["master"] = NoObject /\ store["replica"] = NoObject
  \/ store["master"] = StringObject /\ store["replica"] = StringObject
  \/ Copy(store["master"], store["replica"])

IInv == drifted \in BOOLEAN /\ Objects /\ CopyUnlessDrifted

-----------------------------------------------------------------------------
(* One insertion and one removal.                                          *)

LEMMA WithoutFacts ==
  ASSUME NEW f, NEW x
  PROVE  /\ DOMAIN Without(f, x) = DOMAIN f \ {x}
         /\ \A z \in DOMAIN f \ {x} : Without(f, x)[z] = f[z]
  BY DEF Without

\* The fields of the result.
LEMMA InsertFields ==
  ASSUME NEW z, IsSortedSet(z), NEW m, NEW s
  PROVE  LET known == m \in DOMAIN z.hashMap
             old   == IF known THEN {<<z.hashMap[m], m>>} ELSE {}
             r     == insert(z, m, s)
         IN  /\ IsSortedSet(r)
             /\ r.hashMap = Put(z.hashMap, m, s)
             /\ r.sets = (z.sets \ old) \cup {<<s, m>>}
             /\ r.length = (IF known THEN z.length - 1 ELSE z.length) + 1
             /\ r.isGeo = z.isGeo
  <1>1. PICK h, t, n, g :
           z = [type |-> "zset", hashMap |-> h, sets |-> t, length |-> n, isGeo |-> g]
    BY DEF IsSortedSet
  <1>2. z.hashMap = h /\ z.sets = t /\ z.length = n /\ z.isGeo = g
    BY <1>1
  <1> DEFINE known == m \in DOMAIN z.hashMap
             old   == IF known THEN {<<z.hashMap[m], m>>} ELSE {}
             a     == Put(z.hashMap, m, s)
             b     == (z.sets \ old) \cup {<<s, m>>}
             c     == (IF known THEN z.length - 1 ELSE z.length) + 1
             r     == insert(z, m, s)
  <1>3. r = [z EXCEPT !.hashMap = a, !.sets = b, !.length = c]
    BY Zenon DEF insert
  <1> HIDE DEF a, b, c, r
  <1>4. r = [type |-> "zset", hashMap |-> a, sets |-> b, length |-> c, isGeo |-> g]
    BY <1>1, <1>3
  <1>5. IsSortedSet(r)
    BY <1>4 DEF IsSortedSet
  <1>6. r.hashMap = a /\ r.sets = b /\ r.length = c /\ r.isGeo = z.isGeo
    BY <1>2, <1>4
  <1> QED
    BY <1>5, <1>6, Zenon DEF a, b, c, r

LEMMA RemoveFields ==
  ASSUME NEW z, IsSortedSet(z), NEW m, m \in DOMAIN z.hashMap
  PROVE  LET r == remove(z, m)
         IN  /\ IsSortedSet(r)
             /\ r.hashMap = Without(z.hashMap, m)
             /\ r.sets = z.sets \ {<<z.hashMap[m], m>>}
             /\ r.length = z.length - 1
             /\ r.isGeo = z.isGeo
  <1>1. PICK h, t, n, g :
           z = [type |-> "zset", hashMap |-> h, sets |-> t, length |-> n, isGeo |-> g]
    BY DEF IsSortedSet
  <1>2. z.hashMap = h /\ z.sets = t /\ z.length = n /\ z.isGeo = g
    BY <1>1
  <1>3. remove(z, m) =
           [type |-> "zset", hashMap |-> Without(h, m), sets |-> t \ {<<h[m], m>>},
            length |-> n - 1, isGeo |-> g]
    BY <1>1, <1>2 DEF remove
  <1>4. IsSortedSet(remove(z, m))
    BY <1>3 DEF IsSortedSet
  <1> QED
    BY <1>2, <1>3, <1>4

LEMMA InsertSound ==
  ASSUME NEW z, Sound(z), NEW m, NEW s
  PROVE  /\ Sound(insert(z, m, s))
         /\ DOMAIN insert(z, m, s).hashMap = DOMAIN z.hashMap \cup {m}
         /\ insert(z, m, s).hashMap[m] = s
         /\ \A x \in DOMAIN z.hashMap : x # m => insert(z, m, s).hashMap[x] = z.hashMap[x]
         /\ insert(z, m, s).isGeo = z.isGeo
  <1> DEFINE r     == insert(z, m, s)
             D     == DOMAIN z.hashMap
             known == m \in D
             old   == IF known THEN {<<z.hashMap[m], m>>} ELSE {}
             h     == Put(z.hashMap, m, s)
  <1>1. /\ IsSortedSet(z) /\ z.isGeo \in BOOLEAN /\ IsFiniteSet(D)
        /\ z.sets = {<<z.hashMap[x], x>> : x \in D} /\ z.length = Cardinality(D)
    BY DEF Sound
  <1>2. /\ IsSortedSet(r) /\ r.hashMap = h
        /\ r.sets = (z.sets \ old) \cup {<<s, m>>}
        /\ r.length = (IF known THEN z.length - 1 ELSE z.length) + 1
        /\ r.isGeo = z.isGeo
    BY <1>1, InsertFields
  <1>3. DOMAIN h = D \cup {m} /\ h[m] = s /\ \A x \in D : x # m => h[x] = z.hashMap[x]
    <2> DEFINE f == z.hashMap
    <2> HIDE DEF f
    <2>1. /\ DOMAIN Put(f, m, s) = DOMAIN f \cup {m} /\ Put(f, m, s)[m] = s
          /\ \A x \in DOMAIN f : x # m => Put(f, m, s)[x] = f[x]
      BY DEF Put
    <2> QED
      BY <2>1 DEF f
  <1> HIDE DEF r, h
  <1>4. r.sets = {<<h[x], x>> : x \in DOMAIN h}
    <2>1. ASSUME NEW p, p \in r.sets
          PROVE  p \in {<<h[x], x>> : x \in DOMAIN h}
      <3>1. CASE p = <<s, m>>
        BY <1>3, <3>1
      <3>2. CASE p \in z.sets /\ p \notin old
        <4>1. PICK x \in D : p = <<z.hashMap[x], x>>
          BY <1>1, <3>2
        <4>2. x # m
          BY <3>2, <4>1
        <4> QED
          BY <1>3, <4>1, <4>2
      <3> QED
        BY <1>2, <2>1, <3>1, <3>2
    <2>2. ASSUME NEW x \in DOMAIN h
          PROVE  <<h[x], x>> \in r.sets
      <3>1. CASE x = m
        BY <1>2, <1>3, <3>1
      <3>2. CASE x # m
        <4>1. x \in D /\ h[x] = z.hashMap[x] /\ <<h[x], x>> \in z.sets
          BY <1>1, <1>3, <3>2
        <4>2. <<h[x], x>> \notin old
          BY <3>2
        <4> QED
          BY <1>2, <4>1, <4>2
      <3> QED
        BY <3>1, <3>2
    <2> QED
      BY <2>1, <2>2
  <1>5. IsFiniteSet(D \cup {m}) /\ Cardinality(D) \in Nat
        /\ Cardinality(D \cup {m}) = IF m \in D THEN Cardinality(D) ELSE Cardinality(D) + 1
    BY <1>1, FS_AddElement, FS_CardinalityType
  <1>6. r.length = Cardinality(DOMAIN h) /\ IsFiniteSet(DOMAIN h)
    BY <1>1, <1>2, <1>3, <1>5
  <1>7. Sound(r)
    BY <1>1, <1>2, <1>4, <1>6 DEF Sound
  <1> QED
    BY <1>2, <1>3, <1>7 DEF r

LEMMA RemoveSound ==
  ASSUME NEW z, Sound(z), NEW m
  PROVE  /\ Sound(remove(z, m))
         /\ DOMAIN remove(z, m).hashMap = DOMAIN z.hashMap \ {m}
         /\ \A x \in DOMAIN z.hashMap \ {m} : remove(z, m).hashMap[x] = z.hashMap[x]
         /\ remove(z, m).isGeo = z.isGeo
  <1> DEFINE r == remove(z, m)
             D == DOMAIN z.hashMap
             h == Without(z.hashMap, m)
  <1>1. /\ IsSortedSet(z) /\ z.isGeo \in BOOLEAN /\ IsFiniteSet(D)
        /\ z.sets = {<<z.hashMap[x], x>> : x \in D} /\ z.length = Cardinality(D)
    BY DEF Sound
  <1>2. CASE m \notin D
    <2>1. r = z
      BY <1>2 DEF remove
    <2>2. D \ {m} = D
      BY <1>2
    <2> QED
      BY <2>1, <2>2
  <1>3. CASE m \in D
    <2>1. /\ IsSortedSet(r) /\ r.hashMap = h /\ r.sets = z.sets \ {<<z.hashMap[m], m>>}
          /\ r.length = z.length - 1 /\ r.isGeo = z.isGeo
      BY <1>1, <1>3, RemoveFields
    <2>2. DOMAIN h = D \ {m} /\ \A x \in D \ {m} : h[x] = z.hashMap[x]
      BY WithoutFacts
    <2> HIDE DEF r, h
    <2>3. r.sets = {<<h[x], x>> : x \in DOMAIN h}
      <3>1. ASSUME NEW p, p \in r.sets
            PROVE  p \in {<<h[x], x>> : x \in DOMAIN h}
        <4>1. PICK x \in D : p = <<z.hashMap[x], x>>
          BY <1>1, <2>1, <3>1
        <4>2. x # m
          BY <2>1, <3>1, <4>1
        <4> QED
          BY <2>2, <4>1, <4>2
      <3>2. ASSUME NEW x \in DOMAIN h
            PROVE  <<h[x], x>> \in r.sets
        <4>1. x \in D /\ x # m /\ h[x] = z.hashMap[x] /\ <<h[x], x>> \in z.sets
          BY <1>1, <2>2
        <4> QED
          BY <2>1, <4>1
      <3> QED
        BY <3>1, <3>2
    <2>4. IsFiniteSet(D \ {m}) /\ Cardinality(D \ {m}) = Cardinality(D) - 1
      BY <1>1, <1>3, FS_RemoveElement
    <2>5. Sound(r)
      BY <1>1, <2>1, <2>2, <2>3, <2>4 DEF Sound
    <2> QED
      BY <2>1, <2>2, <2>5 DEF r
  <1> QED
    BY <1>2, <1>3

\* The same on the replica, with the score printed.
LEMMA InsertCopies ==
  ASSUME NEW z, NEW r, Copy(z, r), NEW m, NEW s \in Nat
  PROVE  Copy(insert(z, m, s), insert(r, m, Printed(s)))
  <1> DEFINE a == insert(z, m, s)
             b == insert(r, m, Printed(s))
  <1>1. /\ Sound(z) /\ Sound(r) /\ DOMAIN r.hashMap = DOMAIN z.hashMap
        /\ ~z.isGeo => Rounded(z, r)
    BY DEF Copy
  <1>2. /\ Sound(a) /\ DOMAIN a.hashMap = DOMAIN z.hashMap \cup {m} /\ a.hashMap[m] = s
        /\ \A x \in DOMAIN z.hashMap : x # m => a.hashMap[x] = z.hashMap[x]
        /\ a.isGeo = z.isGeo
    BY <1>1, InsertSound
  <1>3. /\ Sound(b) /\ DOMAIN b.hashMap = DOMAIN r.hashMap \cup {m} /\ b.hashMap[m] = Printed(s)
        /\ \A x \in DOMAIN r.hashMap : x # m => b.hashMap[x] = r.hashMap[x]
    BY <1>1, InsertSound
  <1> HIDE DEF a, b
  <1>4. ASSUME ~a.isGeo, NEW x \in DOMAIN a.hashMap
        PROVE  a.hashMap[x] \in Nat /\ b.hashMap[x] = Printed(a.hashMap[x])
    <2>1. CASE x = m
      BY <1>2, <1>3, <2>1
    <2>2. CASE x # m
      <3>1. x \in DOMAIN z.hashMap /\ x \in DOMAIN r.hashMap
        BY <1>1, <1>2, <2>2
      <3>2. z.hashMap[x] \in Nat /\ r.hashMap[x] = Printed(z.hashMap[x])
        BY <1>1, <1>2, <1>4, <3>1 DEF Rounded
      <3> QED
        BY <1>2, <1>3, <2>2, <3>1, <3>2
    <2> QED
      BY <2>1, <2>2
  <1>5. Copy(a, b)
    BY <1>1, <1>2, <1>3, <1>4 DEF Copy, Rounded
  <1> QED
    BY <1>5 DEF a, b

LEMMA RemoveCopies ==
  ASSUME NEW z, NEW r, Copy(z, r), NEW m
  PROVE  Copy(remove(z, m), remove(r, m))
  <1> DEFINE a == remove(z, m)
             b == remove(r, m)
  <1>1. /\ Sound(z) /\ Sound(r) /\ DOMAIN r.hashMap = DOMAIN z.hashMap
        /\ ~z.isGeo => Rounded(z, r)
    BY DEF Copy
  <1>2. /\ Sound(a) /\ DOMAIN a.hashMap = DOMAIN z.hashMap \ {m}
        /\ \A x \in DOMAIN z.hashMap \ {m} : a.hashMap[x] = z.hashMap[x]
        /\ a.isGeo = z.isGeo
    BY <1>1, RemoveSound
  <1>3. /\ Sound(b) /\ DOMAIN b.hashMap = DOMAIN r.hashMap \ {m}
        /\ \A x \in DOMAIN r.hashMap \ {m} : b.hashMap[x] = r.hashMap[x]
    BY <1>1, RemoveSound
  <1> HIDE DEF a, b
  <1>4. ASSUME ~a.isGeo, NEW x \in DOMAIN a.hashMap
        PROVE  a.hashMap[x] \in Nat /\ b.hashMap[x] = Printed(a.hashMap[x])
    <2>1. /\ x \in DOMAIN z.hashMap \ {m} /\ x \in DOMAIN r.hashMap \ {m}
      BY <1>1, <1>2
    <2>2. z.hashMap[x] \in Nat /\ r.hashMap[x] = Printed(z.hashMap[x])
      BY <1>1, <1>2, <1>4, <2>1 DEF Rounded
    <2> QED
      BY <1>2, <1>3, <2>1, <2>2
  <1>5. Copy(a, b)
    BY <1>1, <1>2, <1>3, <1>4 DEF Copy, Rounded
  <1> QED
    BY <1>5 DEF a, b

-----------------------------------------------------------------------------
(* A command inserts or removes several members, one after the other.      *)

Inserts(o, pairs, f) ==
  /\ f[0] = o
  /\ \A k \in 1 .. Len(pairs) : f[k] = insert(f[k - 1], pairs[k][2], pairs[k][1])

LEMMA InsertAllSteps ==
  ASSUME NEW o, NEW pairs, Len(pairs) \in Nat
  PROVE  \E f : Inserts(o, pairs, f) /\ InsertAll(o, pairs) = f[Len(pairs)]
  <1> DEFINE N         == Len(pairs)
             Step1(x, k) == insert(x, pairs[k][2], pairs[k][1])
             Good(n, f) == f = [k \in 0 .. n |-> IF k = 0 THEN o ELSE Step1(f[k - 1], k)]
             g         == CHOOSE f : Good(N, f)
  <1>1. InsertAll(o, pairs) = g[N]
    BY DEF InsertAll
  <1>2. N \in Nat
    OBVIOUS
  <1> HIDE DEF N, Step1
  <1> DEFINE S == {n \in 0 .. N : \E f : Good(n, f)}
  <1>3. 0 \in S
    <2>1. Good(0, [k \in 0 .. 0 |-> o])
      OBVIOUS
    <2> HIDE DEF Good
    <2> QED
      BY <1>2, <2>1
  <1>4. \A n \in 0 .. N - 1 : n \in S => n + 1 \in S
    <2> SUFFICES ASSUME NEW n \in 0 .. N - 1, n \in S
                 PROVE  \E h : Good(n + 1, h)
      BY <1>2
    <2>1. PICK f : Good(n, f)
      OBVIOUS
    <2> DEFINE h == [k \in 0 .. n + 1 |-> IF k = n + 1 THEN Step1(f[n], k) ELSE f[k]]
    <2>2. \A k \in 0 .. n : f[k] = IF k = 0 THEN o ELSE Step1(f[k - 1], k)
      BY <2>1
    <2>3. \A k \in 0 .. n + 1 : h[k] = IF k = 0 THEN o ELSE Step1(h[k - 1], k)
      <3> SUFFICES ASSUME NEW k \in 0 .. n + 1
                   PROVE  h[k] = IF k = 0 THEN o ELSE Step1(h[k - 1], k)
        OBVIOUS
      <3>1. CASE k = n + 1
        <4>1. k # 0 /\ k - 1 = n /\ n \in 0 .. n + 1 /\ n # n + 1
          BY <1>2, <3>1
        <4> QED
          BY <3>1, <4>1
      <3>2. CASE k # n + 1
        <4>1. k \in 0 .. n /\ (k # 0 => k - 1 \in 0 .. n + 1 /\ k - 1 # n + 1)
          BY <1>2, <3>2
        <4> QED
          BY <2>2, <3>2, <4>1
      <3> QED
        BY <3>1, <3>2
    <2>4. Good(n + 1, h)
      <3>1. h = [k \in 0 .. n + 1 |-> h[k]]
        OBVIOUS
      <3> HIDE DEF h
      <3> QED
        BY <2>3, <3>1
    <2> HIDE DEF Good, h
    <2> QED
      BY <2>4
  <1>5. \E f : Good(N, f)
    <2> HIDE DEF S
    <2>1. 0 .. N \subseteq S
      BY <1>2, <1>3, <1>4, BoundedInduction
    <2>2. N \in S
      BY <1>2, <2>1
    <2> QED
      BY <2>2 DEF S
  <1>6. Good(N, g)
    <2> HIDE DEF Good
    <2> QED
      BY <1>5
  <1>7. \A k \in 0 .. N : g[k] = IF k = 0 THEN o ELSE Step1(g[k - 1], k)
    <2> HIDE DEF g
    <2> QED
      BY <1>6
  <1> HIDE DEF g
  <1>8. g[0] = o /\ \A k \in 1 .. N : g[k] = Step1(g[k - 1], k)
    BY <1>2, <1>7
  <1>9. Inserts(o, pairs, g)
    BY <1>8 DEF Inserts, N, Step1
  <1> QED
    BY <1>1, <1>9 DEF N

Removes(o, ms, f) ==
  /\ f[0] = o
  /\ \A k \in 1 .. Len(ms) : f[k] = remove(f[k - 1], ms[k])

LEMMA RemoveAllSteps ==
  ASSUME NEW o, NEW ms, Len(ms) \in Nat
  PROVE  \E f : Removes(o, ms, f) /\ RemoveAll(o, ms) = f[Len(ms)]
  <1> DEFINE N         == Len(ms)
             Step1(x, k) == remove(x, ms[k])
             Good(n, f) == f = [k \in 0 .. n |-> IF k = 0 THEN o ELSE Step1(f[k - 1], k)]
             g         == CHOOSE f : Good(N, f)
  <1>1. RemoveAll(o, ms) = g[N]
    BY DEF RemoveAll
  <1>2. N \in Nat
    OBVIOUS
  <1> HIDE DEF N, Step1
  <1> DEFINE S == {n \in 0 .. N : \E f : Good(n, f)}
  <1>3. 0 \in S
    <2>1. Good(0, [k \in 0 .. 0 |-> o])
      OBVIOUS
    <2> HIDE DEF Good
    <2> QED
      BY <1>2, <2>1
  <1>4. \A n \in 0 .. N - 1 : n \in S => n + 1 \in S
    <2> SUFFICES ASSUME NEW n \in 0 .. N - 1, n \in S
                 PROVE  \E h : Good(n + 1, h)
      BY <1>2
    <2>1. PICK f : Good(n, f)
      OBVIOUS
    <2> DEFINE h == [k \in 0 .. n + 1 |-> IF k = n + 1 THEN Step1(f[n], k) ELSE f[k]]
    <2>2. \A k \in 0 .. n : f[k] = IF k = 0 THEN o ELSE Step1(f[k - 1], k)
      BY <2>1
    <2>3. \A k \in 0 .. n + 1 : h[k] = IF k = 0 THEN o ELSE Step1(h[k - 1], k)
      <3> SUFFICES ASSUME NEW k \in 0 .. n + 1
                   PROVE  h[k] = IF k = 0 THEN o ELSE Step1(h[k - 1], k)
        OBVIOUS
      <3>1. CASE k = n + 1
        <4>1. k # 0 /\ k - 1 = n /\ n \in 0 .. n + 1 /\ n # n + 1
          BY <1>2, <3>1
        <4> QED
          BY <3>1, <4>1
      <3>2. CASE k # n + 1
        <4>1. k \in 0 .. n /\ (k # 0 => k - 1 \in 0 .. n + 1 /\ k - 1 # n + 1)
          BY <1>2, <3>2
        <4> QED
          BY <2>2, <3>2, <4>1
      <3> QED
        BY <3>1, <3>2
    <2>4. Good(n + 1, h)
      <3>1. h = [k \in 0 .. n + 1 |-> h[k]]
        OBVIOUS
      <3> HIDE DEF h
      <3> QED
        BY <2>3, <3>1
    <2> HIDE DEF Good, h
    <2> QED
      BY <2>4
  <1>5. \E f : Good(N, f)
    <2> HIDE DEF S
    <2>1. 0 .. N \subseteq S
      BY <1>2, <1>3, <1>4, BoundedInduction
    <2>2. N \in S
      BY <1>2, <2>1
    <2> QED
      BY <2>2 DEF S
  <1>6. Good(N, g)
    <2> HIDE DEF Good
    <2> QED
      BY <1>5
  <1>7. \A k \in 0 .. N : g[k] = IF k = 0 THEN o ELSE Step1(g[k - 1], k)
    <2> HIDE DEF g
    <2> QED
      BY <1>6
  <1> HIDE DEF g
  <1>8. g[0] = o /\ \A k \in 1 .. N : g[k] = Step1(g[k - 1], k)
    BY <1>2, <1>7
  <1>9. Removes(o, ms, g)
    BY <1>8 DEF Removes, N, Step1
  <1> QED
    BY <1>1, <1>9 DEF N

LEMMA InsertAllSound ==
  ASSUME NEW o, Sound(o), NEW pairs, Len(pairs) \in Nat
  PROVE  Sound(InsertAll(o, pairs))
  <1> DEFINE N == Len(pairs)
  <1>1. PICK f : Inserts(o, pairs, f) /\ InsertAll(o, pairs) = f[N]
    BY InsertAllSteps
  <1>2. /\ N \in Nat /\ f[0] = o
        /\ \A k \in 1 .. N : f[k] = insert(f[k - 1], pairs[k][2], pairs[k][1])
    BY <1>1 DEF Inserts
  <1> DEFINE S == {k \in 0 .. N : Sound(f[k])}
  <1> HIDE DEF N
  <1>3. 0 \in S
    BY <1>2
  <1>a. N \in Nat
    BY <1>2
  <1>4. \A k \in 0 .. N - 1 : k \in S => k + 1 \in S
    <2> SUFFICES ASSUME NEW k \in 0 .. N - 1, Sound(f[k]) PROVE Sound(f[k + 1])
      BY <1>a
    <2>1. k + 1 \in 1 .. N /\ (k + 1) - 1 = k
      BY <1>a
    <2>2. f[k + 1] = insert(f[k], pairs[k + 1][2], pairs[k + 1][1])
      BY <1>2, <2>1
    <2> QED
      BY <2>2, InsertSound
  <1>5. N \in S
    <2> HIDE DEF S
    <2>1. 0 .. N \subseteq S
      BY <1>2, <1>3, <1>4, BoundedInduction
    <2> QED
      BY <1>2, <2>1
  <1> QED
    BY <1>1, <1>5

LEMMA RemoveAllSound ==
  ASSUME NEW o, Sound(o), NEW ms, Len(ms) \in Nat
  PROVE  Sound(RemoveAll(o, ms))
  <1> DEFINE N == Len(ms)
  <1>1. PICK f : Removes(o, ms, f) /\ RemoveAll(o, ms) = f[N]
    BY RemoveAllSteps
  <1>2. /\ N \in Nat /\ f[0] = o
        /\ \A k \in 1 .. N : f[k] = remove(f[k - 1], ms[k])
    BY <1>1 DEF Removes
  <1> DEFINE S == {k \in 0 .. N : Sound(f[k])}
  <1> HIDE DEF N
  <1>3. 0 \in S
    BY <1>2
  <1>4. \A k \in 0 .. N - 1 : k \in S => k + 1 \in S
    <2> SUFFICES ASSUME NEW k \in 0 .. N - 1, Sound(f[k]) PROVE Sound(f[k + 1])
      BY <1>2
    <2>1. k + 1 \in 1 .. N /\ (k + 1) - 1 = k
      BY <1>2
    <2>2. f[k + 1] = remove(f[k], ms[k + 1])
      BY <1>2, <2>1
    <2> QED
      BY <2>2, RemoveSound
  <1>5. N \in S
    <2> HIDE DEF S
    <2>1. 0 .. N \subseteq S
      BY <1>2, <1>3, <1>4, BoundedInduction
    <2> QED
      BY <1>2, <2>1
  <1> QED
    BY <1>1, <1>5

\* What to_resp prints has the same members in the same places.
LEMMA ZaddRespFacts ==
  ASSUME NEW pairs \in Seq(Nat \X (Members \cup {0}))
  PROVE  /\ Len(ZaddResp(pairs)) = Len(pairs) /\ Len(pairs) \in Nat
         /\ \A k \in 1 .. Len(pairs) :
               /\ pairs[k][1] \in Nat
               /\ ZaddResp(pairs)[k][1] = Printed(pairs[k][1])
               /\ ZaddResp(pairs)[k][2] = pairs[k][2]
  <1>1. Len(pairs) \in Nat /\ \A k \in 1 .. Len(pairs) : pairs[k] \in Nat \X (Members \cup {0})
    BY ElementOfSeq
  <1>2. \A k \in 1 .. Len(pairs) : pairs[k][1] \in Nat
    BY <1>1
  <1>3. Len(ZaddResp(pairs)) = Len(pairs)
    BY <1>1 DEF ZaddResp
  <1>4. \A k \in 1 .. Len(pairs) : ZaddResp(pairs)[k] = <<Printed(pairs[k][1]), pairs[k][2]>>
    BY <1>1 DEF ZaddResp
  <1> QED
    BY <1>1, <1>2, <1>3, <1>4

LEMMA InsertAllCopies ==
  ASSUME NEW z, NEW r, Copy(z, r), NEW pairs \in Seq(Nat \X (Members \cup {0}))
  PROVE  Copy(InsertAll(z, pairs), InsertAll(r, ZaddResp(pairs)))
  <1> DEFINE N    == Len(pairs)
             resp == ZaddResp(pairs)
  <1>0. /\ Len(resp) = N /\ N \in Nat
        /\ \A k \in 1 .. N : /\ pairs[k][1] \in Nat
                             /\ resp[k][1] = Printed(pairs[k][1])
                             /\ resp[k][2] = pairs[k][2]
    BY ZaddRespFacts
  <1>1. PICK f : Inserts(z, pairs, f) /\ InsertAll(z, pairs) = f[N]
    BY <1>0, InsertAllSteps
  <1> HIDE DEF resp
  <1>2. PICK g : Inserts(r, resp, g) /\ InsertAll(r, resp) = g[Len(resp)]
    BY <1>0, InsertAllSteps
  <1>3. /\ f[0] = z /\ \A k \in 1 .. N : f[k] = insert(f[k - 1], pairs[k][2], pairs[k][1])
    BY <1>1 DEF Inserts
  <1>4. /\ g[0] = r /\ \A k \in 1 .. N : g[k] = insert(g[k - 1], resp[k][2], resp[k][1])
    BY <1>0, <1>2 DEF Inserts
  <1> DEFINE S == {k \in 0 .. N : Copy(f[k], g[k])}
  <1> HIDE DEF N
  <1>5. 0 \in S
    BY <1>0, <1>3, <1>4
  <1>6. \A k \in 0 .. N - 1 : k \in S => k + 1 \in S
    <2> SUFFICES ASSUME NEW k \in 0 .. N - 1, Copy(f[k], g[k]) PROVE Copy(f[k + 1], g[k + 1])
      BY <1>0
    <2>1. k + 1 \in 1 .. N /\ (k + 1) - 1 = k
      BY <1>0
    <2> DEFINE m == pairs[k + 1][2]
               s == pairs[k + 1][1]
    <2>2. s \in Nat /\ f[k + 1] = insert(f[k], m, s) /\ g[k + 1] = insert(g[k], m, Printed(s))
      BY <1>0, <1>3, <1>4, <2>1
    <2> HIDE DEF m, s
    <2> QED
      BY <2>2, InsertCopies
  <1>7. N \in S
    <2> HIDE DEF S
    <2>1. 0 .. N \subseteq S
      BY <1>0, <1>5, <1>6, BoundedInduction
    <2> QED
      BY <1>0, <2>1
  <1>8. Copy(f[N], g[N])
    BY <1>7
  <1> QED
    BY <1>0, <1>1, <1>2, <1>8 DEF resp

LEMMA RemoveAllCopies ==
  ASSUME NEW z, NEW r, Copy(z, r), NEW ms, Len(ms) \in Nat
  PROVE  Copy(RemoveAll(z, ms), RemoveAll(r, ms))
  <1> DEFINE N == Len(ms)
  <1>1. PICK f : Removes(z, ms, f) /\ RemoveAll(z, ms) = f[N]
    BY RemoveAllSteps
  <1>2. PICK g : Removes(r, ms, g) /\ RemoveAll(r, ms) = g[N]
    BY RemoveAllSteps
  <1>3. /\ N \in Nat /\ f[0] = z /\ g[0] = r
        /\ \A k \in 1 .. N : f[k] = remove(f[k - 1], ms[k]) /\ g[k] = remove(g[k - 1], ms[k])
    BY <1>1, <1>2 DEF Removes
  <1> DEFINE S == {k \in 0 .. N : Copy(f[k], g[k])}
  <1> HIDE DEF N
  <1>5. 0 \in S
    BY <1>3
  <1>6. \A k \in 0 .. N - 1 : k \in S => k + 1 \in S
    <2> SUFFICES ASSUME NEW k \in 0 .. N - 1, Copy(f[k], g[k]) PROVE Copy(f[k + 1], g[k + 1])
      BY <1>3
    <2>1. k + 1 \in 1 .. N /\ (k + 1) - 1 = k
      BY <1>3
    <2>2. f[k + 1] = remove(f[k], ms[k + 1]) /\ g[k + 1] = remove(g[k], ms[k + 1])
      BY <1>3, <2>1
    <2> QED
      BY <2>2, RemoveCopies
  <1>7. N \in S
    <2> HIDE DEF S
    <2>1. 0 .. N \subseteq S
      BY <1>3, <1>5, <1>6, BoundedInduction
    <2> QED
      BY <1>3, <2>1
  <1> QED
    BY <1>1, <1>2, <1>7

-----------------------------------------------------------------------------
(* The handlers.                                                           *)

LEMMA NewIsSound == Sound(NewSortedSet) /\ Copy(NewSortedSet, NewSortedSet)
  <1> DEFINE h == [m \in {} |-> 0]
  <1>1. DOMAIN h = {}
    OBVIOUS
  <1> HIDE DEF h
  <1>2. NewSortedSet = [type |-> "zset", hashMap |-> h, sets |-> {}, length |-> 0, isGeo |-> FALSE]
    BY DEF NewSortedSet, h
  <1>3. IsSortedSet(NewSortedSet)
    BY <1>2 DEF IsSortedSet
  <1>4. /\ NewSortedSet.hashMap = h /\ NewSortedSet.sets = {} /\ NewSortedSet.length = 0
        /\ NewSortedSet.isGeo = FALSE
    BY <1>2
  <1>5. IsFiniteSet({}) /\ Cardinality({}) = 0
    BY FS_EmptySet
  <1>6. {} = {<<h[m], m>> : m \in {}}
    OBVIOUS
  <1>7. Sound(NewSortedSet)
    BY <1>1, <1>3, <1>4, <1>5, <1>6 DEF Sound
  <1> QED
    BY <1>1, <1>4, <1>7 DEF Copy, Rounded

LEMMA Types ==
  /\ NoObject.type = "none" /\ StringObject.type = "string"
  /\ \A z : Sound(z) => z.type = "zset"
  BY DEF NoObject, StringObject, Sound, IsSortedSet

\* What opening an object does.
LEMMA OpenedFacts ==
  /\ Opened(NoObject) = NewSortedSet
  /\ Opened(StringObject) = StringObject /\ ~IsZset(StringObject) /\ ~IsZset(NoObject)
  /\ \A z : Sound(z) => Opened(z) = z /\ IsZset(z)
  <1>1. StringObject # NoObject /\ \A z : Sound(z) => z # NoObject
    BY Types
  <1> QED
    BY <1>1, Types DEF Opened, IsZset

LEMMA SameTypes == \A z, r : Copy(z, r) => r.type = z.type
  BY Types DEF Copy

IsObject(o) == o = NoObject \/ o = StringObject \/ Sound(o)

SameObject(o, r) ==
  \/ o = NoObject /\ r = NoObject
  \/ o = StringObject /\ r = StringObject
  \/ Copy(o, r)

LEMMA ZaddSound ==
  ASSUME NEW o, IsObject(o), NEW pairs, Len(pairs) \in Nat
  PROVE  IsObject(handle_zadd(o, pairs))
  BY OpenedFacts, NewIsSound, InsertAllSound DEF IsObject, handle_zadd

LEMMA ZaddCopies ==
  ASSUME NEW o, NEW r, SameObject(o, r), NEW pairs \in Seq(Nat \X (Members \cup {0}))
  PROVE  SameObject(handle_zadd(o, pairs), handle_zadd(r, ZaddResp(pairs)))
  <1>1. CASE o = NoObject /\ r = NoObject
    <2>1. /\ handle_zadd(o, pairs) = InsertAll(NewSortedSet, pairs)
          /\ handle_zadd(r, ZaddResp(pairs)) = InsertAll(NewSortedSet, ZaddResp(pairs))
      BY <1>1, OpenedFacts, NewIsSound DEF handle_zadd
    <2> QED
      BY <2>1, NewIsSound, InsertAllCopies DEF SameObject
  <1>2. CASE o = StringObject /\ r = StringObject
    BY <1>2, OpenedFacts DEF handle_zadd, SameObject
  <1>3. CASE Copy(o, r)
    <2>1. Sound(o) /\ Sound(r)
      BY <1>3 DEF Copy
    <2>2. /\ handle_zadd(o, pairs) = InsertAll(o, pairs)
          /\ handle_zadd(r, ZaddResp(pairs)) = InsertAll(r, ZaddResp(pairs))
      BY <2>1, OpenedFacts DEF handle_zadd
    <2> QED
      BY <1>3, <2>2, InsertAllCopies DEF SameObject
  <1> QED
    BY <1>1, <1>2, <1>3 DEF SameObject

LEMMA ZremSound ==
  ASSUME NEW o, IsObject(o), NEW ms, Len(ms) \in Nat
  PROVE  IsObject(handle_zrem(o, ms))
  BY OpenedFacts, RemoveAllSound DEF IsObject, handle_zrem

LEMMA ZremCopies ==
  ASSUME NEW o, NEW r, SameObject(o, r), NEW ms, Len(ms) \in Nat
  PROVE  SameObject(handle_zrem(o, ms), handle_zrem(r, ms))
  <1>1. CASE Copy(o, r)
    <2>1. Sound(o) /\ Sound(r)
      BY <1>1 DEF Copy
    <2>2. handle_zrem(o, ms) = RemoveAll(o, ms) /\ handle_zrem(r, ms) = RemoveAll(r, ms)
      BY <2>1, OpenedFacts DEF handle_zrem
    <2> QED
      BY <1>1, <2>2, RemoveAllCopies DEF SameObject
  <1>2. CASE ~Copy(o, r)
    BY <1>2, OpenedFacts DEF SameObject, handle_zrem
  <1> QED
    BY <1>1, <1>2

\* GEOADD marks the set, and inserts.
LEMMA MarkedSound ==
  ASSUME NEW z, Sound(z)
  PROVE  /\ Sound([z EXCEPT !.isGeo = TRUE])
         /\ [z EXCEPT !.isGeo = TRUE].hashMap = z.hashMap
         /\ [z EXCEPT !.isGeo = TRUE].isGeo = TRUE
  <1>1. PICK h, t, n, g :
           z = [type |-> "zset", hashMap |-> h, sets |-> t, length |-> n, isGeo |-> g]
    BY DEF Sound, IsSortedSet
  <1> DEFINE yes == TRUE
             r   == [z EXCEPT !.isGeo = yes]
  <1> HIDE DEF yes
  <1>2. r = [type |-> "zset", hashMap |-> h, sets |-> t, length |-> n, isGeo |-> yes]
    BY <1>1
  <1> HIDE DEF r
  <1>3. IsSortedSet(r)
    BY <1>2 DEF IsSortedSet
  <1>4. r.hashMap = z.hashMap /\ r.sets = z.sets /\ r.length = z.length /\ r.isGeo = yes
    BY <1>1, <1>2
  <1>5. Sound(r)
    BY <1>3, <1>4 DEF Sound, yes
  <1> QED
    BY <1>4, <1>5 DEF r, yes

LEMMA GeoaddSound ==
  ASSUME NEW o, IsObject(o), NEW cmd
  PROVE  IsObject(handle_geoadd(o, cmd))
  <1>1. CASE cmd.bad \/ ~IsZset(Opened(o))
    <2>1. handle_geoadd(o, cmd) = o
      BY <1>1 DEF handle_geoadd
    <2> QED
      BY <2>1
  <1>2. CASE ~(cmd.bad \/ ~IsZset(Opened(o)))
    <2> DEFINE z == Opened(o)
               y == [z EXCEPT !.isGeo = TRUE]
    <2>1. handle_geoadd(o, cmd) = insert(y, cmd.member, cmd.score)
      BY <1>2 DEF handle_geoadd
    <2>2. Sound(z)
      BY <1>2, OpenedFacts, NewIsSound DEF IsObject
    <2> HIDE DEF z
    <2>3. Sound(y)
      BY <2>2, MarkedSound
    <2> HIDE DEF y
    <2> QED
      BY <2>1, <2>3, InsertSound DEF IsObject
  <1> QED
    BY <1>1, <1>2

\* Both servers refuse the command, or both insert the same member.
LEMMA GeoaddCopies ==
  ASSUME NEW o, NEW r, SameObject(o, r), NEW cmd, NEW copy, copy.member = cmd.member,
         IsZset(Opened(o)) => cmd.bad = copy.bad
  PROVE  SameObject(handle_geoadd(o, cmd), handle_geoadd(r, copy))
  <1>0. /\ IsZset(Opened(r)) <=> IsZset(Opened(o))
        /\ IsZset(Opened(o)) => Copy(Opened(o), Opened(r))
    BY OpenedFacts, NewIsSound DEF SameObject, Copy
  <1>1. CASE ~IsZset(Opened(o))
    <2>1. handle_geoadd(o, cmd) = o /\ handle_geoadd(r, copy) = r
      BY <1>0, <1>1 DEF handle_geoadd
    <2> QED
      BY <2>1
  <1>2. CASE IsZset(Opened(o)) /\ cmd.bad
    <2>1. handle_geoadd(o, cmd) = o /\ handle_geoadd(r, copy) = r
      BY <1>2 DEF handle_geoadd
    <2> QED
      BY <2>1
  <1>3. CASE IsZset(Opened(o)) /\ ~cmd.bad
    <2> DEFINE z == Opened(o)
               w == Opened(r)
               y == [z EXCEPT !.isGeo = TRUE]
               v == [w EXCEPT !.isGeo = TRUE]
               m == cmd.member
               a == insert(y, m, cmd.score)
               b == insert(v, m, copy.score)
    <2>1. handle_geoadd(o, cmd) = a /\ handle_geoadd(r, copy) = b
      BY <1>0, <1>3 DEF handle_geoadd
    <2>2. Copy(z, w) /\ Sound(z) /\ Sound(w) /\ DOMAIN w.hashMap = DOMAIN z.hashMap
      BY <1>0, <1>3 DEF Copy
    <2> HIDE DEF z, w
    <2>3. /\ Sound(y) /\ y.hashMap = z.hashMap /\ y.isGeo = TRUE
          /\ Sound(v) /\ v.hashMap = w.hashMap
      BY <2>2, MarkedSound
    <2> HIDE DEF y, v, m
    <2>4. /\ Sound(a) /\ DOMAIN a.hashMap = DOMAIN y.hashMap \cup {m} /\ a.isGeo = y.isGeo
          /\ Sound(b) /\ DOMAIN b.hashMap = DOMAIN v.hashMap \cup {m}
      BY <2>3, InsertSound
    <2> HIDE DEF a, b
    <2>5. Copy(a, b)
      BY <2>2, <2>3, <2>4 DEF Copy
    <2> QED
      BY <2>1, <2>5 DEF SameObject
  <1> QED
    BY <1>1, <1>2, <1>3

\* The replica parses one triple: it takes the member from it.
LEMMA ParseOne ==
  ASSUME NEW t
  PROVE  parseGeoAddCommand(<<t>>).member = t[3]
  <1> DEFINE q == <<t>>
             base == [lon |-> 0, lat |-> 0, bad |-> FALSE, member |-> 0, score |-> 0]
             Good(f) == f = [k \in 0 .. 1 |-> IF k = 0 THEN base ELSE ParseStep(f[k - 1], q[k])]
             g == CHOOSE f : Good(f)
  <1>0. Len(q) = 1 /\ q[1] = t
    OBVIOUS
  <1> HIDE DEF q, base
  <1>1. parseGeoAddCommand(q) = g[1]
    BY <1>0 DEF parseGeoAddCommand, base
  <1>2. \E f : Good(f)
    <2> DEFINE h == [k \in 0 .. 1 |-> IF k = 0 THEN base ELSE ParseStep(base, q[k])]
    <2>1. h[0] = base /\ \A k \in 0 .. 1 : k # 0 => k - 1 = 0
      OBVIOUS
    <2>2. \A k \in 0 .. 1 : h[k] = IF k = 0 THEN base ELSE ParseStep(h[k - 1], q[k])
      BY <2>1
    <2>3. h = [k \in 0 .. 1 |-> h[k]]
      OBVIOUS
    <2> HIDE DEF h
    <2>4. Good(h)
      BY <2>2, <2>3
    <2> HIDE DEF Good
    <2> QED
      BY <2>4
  <1>3. Good(g)
    <2> HIDE DEF Good
    <2> QED
      BY <1>2
  <1>4. g[1] = ParseStep(g[0], q[1])
    <2> HIDE DEF g
    <2>1. \A k \in 0 .. 1 : g[k] = IF k = 0 THEN base ELSE ParseStep(g[k - 1], q[k])
      BY <1>3
    <2>2. 1 \in 0 .. 1 /\ 1 # 0 /\ 1 - 1 = 0
      OBVIOUS
    <2> QED
      BY <2>1, <2>2
  <1> HIDE DEF g
  <1>5. \A c : ParseStep(c, t).member = t[3]
    BY DEF ParseStep
  <1> QED
    BY <1>0, <1>1, <1>4, <1>5 DEF q

-----------------------------------------------------------------------------
(* The invariant.                                                          *)

LEMMA InitInv == Init => IInv
  BY DEF Init, IInv, Objects, CopyUnlessDrifted, Servers

LEMMA InvForm ==
  /\ Objects <=> IsObject(store["master"]) /\ IsObject(store["replica"])
  /\ CopyUnlessDrifted <=> drifted \/ SameObject(store["master"], store["replica"])
  BY DEF Objects, IsObject, CopyUnlessDrifted, SameObject, Servers

LEMMA NextInv == IInv /\ [Next]_vars => IInv'
  <1> SUFFICES ASSUME IInv, [Next]_vars PROVE IInv'
    OBVIOUS
  <1> DEFINE o == store["master"]
             r == store["replica"]
  <1>1. drifted \in BOOLEAN /\ IsObject(o) /\ IsObject(r) /\ (drifted \/ SameObject(o, r))
    BY InvForm DEF IInv
  <1>2. ASSUME drifted' \in BOOLEAN, IsObject(o'), IsObject(r'), drifted' \/ SameObject(o', r')
        PROVE  IInv'
    BY <1>2 DEF IInv, Objects, IsObject, CopyUnlessDrifted, SameObject, Servers
  <1>3. CASE SET
    <2>1. o' = StringObject /\ r' = StringObject /\ drifted' = FALSE
      BY <1>3 DEF SET, Servers
    <2> QED
      BY <1>2, <2>1 DEF IsObject, SameObject
  <1>4. CASE ZADD
    <2>1. PICK pairs \in ScoreLists :
             /\ o' = handle_zadd(o, pairs) /\ r' = handle_zadd(r, ZaddResp(pairs))
             /\ drifted' = drifted
      BY <1>4 DEF ZADD
    <2>2. pairs \in Seq(Nat \X (Members \cup {0})) /\ Len(pairs) \in Nat /\ Len(ZaddResp(pairs)) \in Nat
      BY ListsAssumption, ZaddRespFacts
    <2>3. IsObject(o') /\ IsObject(r')
      BY <1>1, <2>1, <2>2, ZaddSound
    <2>4. drifted' \/ SameObject(o', r')
      BY <1>1, <2>1, <2>2, ZaddCopies
    <2> QED
      BY <1>1, <1>2, <2>1, <2>3, <2>4
  <1>5. CASE ZREM
    <2>1. PICK ms \in MemberLists :
             o' = handle_zrem(o, ms) /\ r' = handle_zrem(r, ms) /\ drifted' = drifted
      BY <1>5 DEF ZREM, Servers
    <2>2. Len(ms) \in Nat
      BY ListsAssumption
    <2>3. IsObject(o') /\ IsObject(r')
      BY <1>1, <2>1, <2>2, ZremSound
    <2>4. drifted' \/ SameObject(o', r')
      BY <1>1, <2>1, <2>2, ZremCopies
    <2> QED
      BY <1>1, <1>2, <2>1, <2>3, <2>4
  <1>6. CASE GEOADD
    <2>1. PICK triples \in TripleLists :
             LET cmd  == parseGeoAddCommand(triples)
                 copy == parseGeoAddCommand(GeoaddResp(cmd))
             IN  /\ o' = handle_geoadd(o, cmd) /\ r' = handle_geoadd(r, copy)
                 /\ drifted' = (drifted \/ (IsZset(Opened(o)) /\ cmd.bad # copy.bad))
      BY <1>6 DEF GEOADD
    <2> DEFINE cmd  == parseGeoAddCommand(triples)
               copy == parseGeoAddCommand(GeoaddResp(cmd))
    <2>2. copy.member = cmd.member
      <3> DEFINE t == <<Printed(cmd.lon), Printed(cmd.lat), cmd.member>>
      <3>1. t[3] = cmd.member
        OBVIOUS
      <3>2. copy = parseGeoAddCommand(<<t>>)
        BY DEF GeoaddResp
      <3> HIDE DEF t, copy
      <3> QED
        BY <3>1, <3>2, ParseOne
    <2>3. /\ o' = handle_geoadd(o, cmd) /\ r' = handle_geoadd(r, copy)
          /\ drifted' = (drifted \/ (IsZset(Opened(o)) /\ cmd.bad # copy.bad))
      BY <2>1
    <2> HIDE DEF cmd, copy
    <2>4. IsObject(o') /\ IsObject(r')
      BY <1>1, <2>3, GeoaddSound
    <2>5. drifted' \/ SameObject(o', r')
      <3>1. CASE drifted'
        BY <3>1
      <3>2. CASE ~drifted'
        <4>1. SameObject(o, r) /\ (IsZset(Opened(o)) => cmd.bad = copy.bad)
          BY <1>1, <2>3, <3>2
        <4> QED
          BY <2>2, <2>3, <4>1, GeoaddCopies
      <3> QED
        BY <3>1, <3>2
    <2>6. drifted' \in BOOLEAN
      BY <2>3
    <2> QED
      BY <1>2, <2>4, <2>5, <2>6
  <1>7. CASE UNCHANGED vars
    <2>1. o' = o /\ r' = r /\ drifted' = drifted
      BY <1>7 DEF vars
    <2> QED
      BY <1>1, <1>2, <2>1
  <1> QED
    BY <1>3, <1>4, <1>5, <1>6, <1>7 DEF Next

LEMMA Invariance == Spec => []IInv
  BY InitInv, NextInv, PTL DEF Spec

-----------------------------------------------------------------------------
(* Numbers and words.                                                      *)

\* What RecursionExists gives for natural numbers.
LEMMA NatComputed ==
  ASSUME NEW N \in Nat, NEW base \in Nat, NEW step, NEW f, Computed(Nat, N, base, step, f)
  PROVE  /\ f \in [0 .. N -> Nat] /\ f[0] = base
         /\ \A k \in 1 .. N : f[k - 1] \in Nat /\ f[k] = step[<<f[k - 1], k>>]
  <1>2. f \in [0 .. N -> Nat] /\ f[0] = base /\ \A k \in 1 .. N : f[k] = step[<<f[k - 1], k>>]
    BY DEF Computed
  <1>3. \A k \in 1 .. N : k - 1 \in 0 .. N
    OBVIOUS
  <1>4. \A k \in 1 .. N : f[k - 1] \in Nat
    BY <1>2, <1>3
  <1> QED
    BY <1>2, <1>4

LEMMA Pow2Steps == Pow2[0] = 1 /\ \A n \in 1 .. 63 : Pow2[n] = 2 * Pow2[n - 1]
  <1> DEFINE N == 63
             Good(f) == f = [n \in 0 .. N |-> IF n = 0 THEN 1 ELSE 2 * f[n - 1]]
             step == [p \in Nat \X (1 .. N) |-> 2 * p[1]]
  <1>0. N \in Nat
    OBVIOUS
  <1>1. Pow2 = CHOOSE f : Good(f)
    BY DEF Pow2
  <1> HIDE DEF N
  <1>2. \E f : Good(f)
    <2>1. StepFunction(Nat, N, step) /\ \A x \in Nat, k \in 1 .. N : step[<<x, k>>] = 2 * x
      BY <1>0 DEF StepFunction
    <2> HIDE DEF step
    <2>2. PICK f : Computed(Nat, N, 1, step, f)
      BY <1>0, <2>1, RecursionExists
    <2>a. /\ f \in [0 .. N -> Nat] /\ f[0] = 1
          /\ \A k \in 1 .. N : f[k - 1] \in Nat /\ f[k] = step[<<f[k - 1], k>>]
      BY <1>0, <2>2, NatComputed
    <2>3. /\ f \in [0 .. N -> Nat] /\ f[0] = 1
          /\ \A k \in 1 .. N : f[k] = 2 * f[k - 1]
      BY <2>1, <2>a
    <2>4. Good(f)
      BY <1>0, <2>3
    <2> HIDE DEF Good
    <2> QED
      BY <2>4
  <1>3. Good(Pow2)
    <2> HIDE DEF Good
    <2> QED
      BY <1>1, <1>2
  <1> HIDE DEF Pow2
  <1> QED
    BY <1>0, <1>3 DEF N

LEMMA Pow2Type == \A n \in 0 .. 63 : Pow2[n] \in Nat /\ Pow2[n] >= 1
  <1> DEFINE S == {n \in 0 .. 63 : Pow2[n] \in Nat /\ Pow2[n] >= 1}
  <1>1. 0 \in S
    BY Pow2Steps
  <1>2. \A n \in 0 .. 63 - 1 : n \in S => n + 1 \in S
    BY Pow2Steps
  <1> HIDE DEF S
  <1>3. 0 .. 63 \subseteq S
    BY <1>1, <1>2, BoundedInduction
  <1> QED
    BY <1>3 DEF S

LEMMA Pow2Grows ==
  ASSUME NEW m \in 0 .. 63, NEW n \in m .. 63
  PROVE  Pow2[m] <= Pow2[n]
  <1> DEFINE S == {k \in 0 .. 63 - m : Pow2[m] <= Pow2[m + k]}
  <1>1. 63 - m \in Nat /\ 0 \in S
    BY Pow2Type
  <1>2. \A k \in 0 .. (63 - m) - 1 : k \in S => k + 1 \in S
    <2> SUFFICES ASSUME NEW k \in 0 .. (63 - m) - 1, Pow2[m] <= Pow2[m + k]
                 PROVE  Pow2[m] <= Pow2[m + (k + 1)]
      OBVIOUS
    <2>1. m + (k + 1) \in 1 .. 63 /\ (m + (k + 1)) - 1 = m + k /\ m + k \in 0 .. 63
      OBVIOUS
    <2>2. Pow2[m + (k + 1)] = 2 * Pow2[m + k] /\ Pow2[m] \in Nat /\ Pow2[m + k] \in Nat
      BY <2>1, Pow2Steps, Pow2Type
    <2> QED
      BY <2>2
  <1> HIDE DEF S
  <1>3. 0 .. 63 - m \subseteq S
    BY <1>1, <1>2, BoundedInduction
  <1>4. n - m \in S /\ m + (n - m) = n
    BY <1>3
  <1> QED
    BY <1>4 DEF S

LEMMA Pow2Values ==
  /\ Pow2[0] = 1 /\ Pow2[1] = 2 /\ Pow2[2] = 4 /\ Pow2[3] = 8 /\ Pow2[4] = 16 /\ Pow2[5] = 32
  <1>1. Pow2[0] = 1
    BY Pow2Steps
  <1>2. Pow2[1] = 2
    BY <1>1, Pow2Steps
  <1>3. Pow2[2] = 4
    BY <1>2, Pow2Steps
  <1>4. Pow2[3] = 8
    BY <1>3, Pow2Steps
  <1>5. Pow2[4] = 16
    BY <1>4, Pow2Steps
  <1>6. Pow2[5] = 32
    BY <1>5, Pow2Steps
  <1> QED
    BY <1>1, <1>2, <1>3, <1>4, <1>5, <1>6

LEMMA WidthFacts == Width \in Nat /\ Width <= 64 /\ Step \in Nat /\ 2 * Step + 2 <= Width
                    /\ Step >= 1 /\ Step <= 26
  BY StepAssumption, WidthAssumption

\* The halves of n.
Halves(n, f) == f[0] = n /\ \A b \in 1 .. Width : f[b] = f[b - 1] \div 2

LEMMA WordSteps ==
  ASSUME NEW n \in Nat
  PROVE  \E f \in [0 .. Width -> Nat] :
            Halves(n, f) /\ Word(n) = {b \in Bits : f[b] % 2 = 1}
  <1> DEFINE Good(f) == f = [b \in 0 .. Width |-> IF b = 0 THEN n ELSE f[b - 1] \div 2]
             step == [p \in Nat \X (1 .. Width) |-> p[1] \div 2]
             g == CHOOSE f : Good(f)
  <1>0. Width \in Nat
    BY WidthFacts
  <1>1. Word(n) = {b \in Bits : g[b] % 2 = 1}
    BY DEF Word
  <1>2. \E f : Good(f)
    <2>1. /\ StepFunction(Nat, Width, step)
          /\ \A x \in Nat, k \in 1 .. Width : step[<<x, k>>] = x \div 2
      BY DEF StepFunction
    <2> HIDE DEF step
    <2>2. PICK f : Computed(Nat, Width, n, step, f)
      BY <1>0, <2>1, RecursionExists
    <2>a. /\ f \in [0 .. Width -> Nat] /\ f[0] = n
          /\ \A k \in 1 .. Width : f[k - 1] \in Nat /\ f[k] = step[<<f[k - 1], k>>]
      BY <1>0, <2>2, NatComputed
    <2>3. /\ f \in [0 .. Width -> Nat] /\ f[0] = n
          /\ \A k \in 1 .. Width : f[k] = f[k - 1] \div 2
      BY <2>1, <2>a
    <2>4. Good(f)
      BY <1>0, <2>3
    <2> HIDE DEF Good
    <2> QED
      BY <2>4
  <1>3. Good(g)
    <2> HIDE DEF Good
    <2> QED
      BY <1>2
  <1> HIDE DEF g
  <1>4. g = [b \in 0 .. Width |-> g[b]] /\ g[0] = n /\ \A b \in 1 .. Width : g[b] = g[b - 1] \div 2
    BY <1>0, <1>3, SMTT(30)
  <1> DEFINE S == {b \in 0 .. Width : g[b] \in Nat}
  <1>5. 0 \in S
    BY <1>0, <1>4
  <1>6. \A b \in 0 .. Width - 1 : b \in S => b + 1 \in S
    <2> SUFFICES ASSUME NEW b \in 0 .. Width - 1, g[b] \in Nat
                 PROVE  b + 1 \in 0 .. Width /\ g[b + 1] \in Nat
      OBVIOUS
    <2>1. b + 1 \in 1 .. Width /\ (b + 1) - 1 = b /\ b + 1 \in 0 .. Width
      BY <1>0
    <2>2. g[b + 1] = g[b] \div 2
      BY <1>4, <2>1
    <2> QED
      BY <2>1, <2>2
  <1>7. 0 .. Width \subseteq S
    <2> HIDE DEF S
    <2> QED
      BY <1>0, <1>5, <1>6, BoundedInduction
  <1>8. g \in [0 .. Width -> Nat]
    BY <1>4, <1>7
  <1> QED
    BY <1>1, <1>4, <1>8 DEF Halves

\* The highest k bits of a word, as a number.
Tops(w, f) ==
  /\ f[0] = 0
  /\ \A k \in 1 .. Width : f[k] = 2 * f[k - 1] + (IF Width - k \in w THEN 1 ELSE 0)

LEMMA ValueSteps ==
  ASSUME NEW w
  PROVE  \E f \in [0 .. Width -> Nat] : Tops(w, f) /\ Value(w) = f[Width]
  <1> DEFINE bit(k) == IF Width - k \in w THEN 1 ELSE 0
             Good(f) == f = [k \in 0 .. Width |-> IF k = 0 THEN 0 ELSE 2 * f[k - 1] + bit(k)]
             step == [p \in Nat \X (1 .. Width) |-> 2 * p[1] + bit(p[2])]
             g == CHOOSE f : Good(f)
  <1>0. Width \in Nat
    BY WidthFacts
  <1>1. Value(w) = g[Width]
    BY DEF Value
  <1>b. \A k : bit(k) \in Nat
    OBVIOUS
  <1> HIDE DEF bit
  <1>2. \E f : Good(f)
    <2>1. /\ StepFunction(Nat, Width, step)
          /\ \A x \in Nat, k \in 1 .. Width : step[<<x, k>>] = 2 * x + bit(k)
      BY <1>b DEF StepFunction
    <2> HIDE DEF step
    <2>2. PICK f : Computed(Nat, Width, 0, step, f)
      BY <1>0, <2>1, RecursionExists
    <2>a. /\ f \in [0 .. Width -> Nat] /\ f[0] = 0
          /\ \A k \in 1 .. Width : f[k - 1] \in Nat /\ f[k] = step[<<f[k - 1], k>>]
      BY <1>0, <2>2, NatComputed
    <2>3. /\ f \in [0 .. Width -> Nat] /\ f[0] = 0
          /\ \A k \in 1 .. Width : f[k] = 2 * f[k - 1] + bit(k)
      BY <2>1, <2>a
    <2>4. Good(f)
      BY <1>0, <2>3
    <2> HIDE DEF Good
    <2> QED
      BY <2>4
  <1>3. Good(g)
    <2> HIDE DEF Good
    <2> QED
      BY <1>2
  <1> HIDE DEF g
  <1>4. /\ g = [b \in 0 .. Width |-> g[b]] /\ g[0] = 0
        /\ \A k \in 1 .. Width : g[k] = 2 * g[k - 1] + bit(k)
    <2>1. 0 \in 0 .. Width /\ \A k \in 1 .. Width : k \in 0 .. Width /\ k # 0
      BY <1>0
    <2>2. DOMAIN g = 0 .. Width /\ g = [b \in DOMAIN g |-> g[b]]
      BY <1>3
    <2>3. \A k \in 0 .. Width : g[k] = IF k = 0 THEN 0 ELSE 2 * g[k - 1] + bit(k)
      BY <1>3
    <2> QED
      BY <2>1, <2>2, <2>3
  <1> DEFINE S == {b \in 0 .. Width : g[b] \in Nat}
  <1>5. 0 \in S
    BY <1>0, <1>4
  <1>6. \A b \in 0 .. Width - 1 : b \in S => b + 1 \in S
    <2> SUFFICES ASSUME NEW b \in 0 .. Width - 1, g[b] \in Nat
                 PROVE  b + 1 \in 0 .. Width /\ g[b + 1] \in Nat
      OBVIOUS
    <2>1. b + 1 \in 1 .. Width /\ (b + 1) - 1 = b /\ b + 1 \in 0 .. Width
      BY <1>0
    <2>2. g[b + 1] = 2 * g[b] + bit(b + 1)
      BY <1>4, <2>1
    <2> QED
      BY <1>b, <2>1, <2>2
  <1>7. 0 .. Width \subseteq S
    <2> HIDE DEF S
    <2> QED
      BY <1>0, <1>5, <1>6, BoundedInduction
  <1>8. g \in [0 .. Width -> Nat]
    BY <1>4, <1>7
  <1>9. Tops(w, g)
    BY <1>4 DEF Tops, bit
  <1> QED
    BY <1>1, <1>8, <1>9

\* A word is read back from its value.
LEMMA WordOfValue ==
  ASSUME NEW w, w \subseteq Bits
  PROVE  Value(w) \in Nat /\ Word(Value(w)) = w
  <1>0. Width \in Nat
    BY WidthFacts
  <1>1. PICK t \in [0 .. Width -> Nat] : Tops(w, t) /\ Value(w) = t[Width]
    BY ValueSteps
  <1>2. Value(w) \in Nat /\ t[Width] \in Nat
    BY <1>0, <1>1
  <1> DEFINE v == t[Width]
  <1> HIDE DEF v
  <1>3. PICK f \in [0 .. Width -> Nat] : Halves(v, f) /\ Word(v) = {b \in Bits : f[b] % 2 = 1}
    BY <1>2, WordSteps DEF v
  <1>4. \A k \in 1 .. Width : t[k] = 2 * t[k - 1] + (IF Width - k \in w THEN 1 ELSE 0)
    BY <1>1 DEF Tops
  <1>5. f[0] = v /\ \A b \in 1 .. Width : f[b] = f[b - 1] \div 2
    BY <1>3 DEF Halves
  <1>6. ASSUME NEW b \in Bits
        PROVE  /\ Width - b \in 1 .. Width /\ t[Width - b] \in Nat /\ t[Width - (b + 1)] \in Nat
               /\ t[Width - b] = 2 * t[Width - (b + 1)] + (IF b \in w THEN 1 ELSE 0)
    <2>1. /\ Width - b \in 1 .. Width /\ Width - b \in 0 .. Width /\ Width - (b + 1) \in 0 .. Width
          /\ (Width - b) - 1 = Width - (b + 1) /\ Width - (Width - b) = b
      BY <1>0 DEF Bits
    <2> QED
      BY <1>1, <1>4, <2>1
  <1> DEFINE S == {b \in 0 .. Width : f[b] = t[Width - b]}
  <1>7. 0 \in S
    BY <1>0, <1>5 DEF v
  <1>8. \A b \in 0 .. Width - 1 : b \in S => b + 1 \in S
    <2> SUFFICES ASSUME NEW b \in 0 .. Width - 1, f[b] = t[Width - b]
                 PROVE  b + 1 \in 0 .. Width /\ f[b + 1] = t[Width - (b + 1)]
      OBVIOUS
    <2>1. b \in Bits /\ b + 1 \in 1 .. Width /\ (b + 1) - 1 = b /\ b + 1 \in 0 .. Width
      BY <1>0 DEF Bits
    <2>2. f[b + 1] = t[Width - b] \div 2
      BY <1>5, <2>1
    <2>3. \A x \in Nat, e \in {0, 1} : (2 * x + e) \div 2 = x
      OBVIOUS
    <2>4. t[Width - b] \div 2 = t[Width - (b + 1)]
      BY <1>6, <2>1, <2>3
    <2> QED
      BY <2>1, <2>2, <2>4
  <1>9. 0 .. Width \subseteq S
    <2> HIDE DEF S
    <2> QED
      BY <1>0, <1>7, <1>8, BoundedInduction
  <1>10. ASSUME NEW b \in Bits PROVE f[b] % 2 = 1 <=> b \in w
    <2>1. f[b] = t[Width - b]
      BY <1>0, <1>9 DEF Bits
    <2>2. \A x \in Nat : (2 * x + 1) % 2 = 1 /\ (2 * x + 0) % 2 = 0
      OBVIOUS
    <2> QED
      BY <1>6, <2>1, <2>2
  <1>11. Word(v) = w
    BY <1>3, <1>10
  <1> QED
    BY <1>1, <1>2, <1>11 DEF v

\* What is left of a number of k bits after k halvings.
LEMMA HalvesEnd ==
  ASSUME NEW k \in 0 .. 63, k <= Width, NEW n \in Nat, n < Pow2[k],
         NEW f \in [0 .. Width -> Nat], Halves(n, f)
  PROVE  \A b \in k .. Width : f[b] = 0
  <1>0. Width \in Nat /\ k \in Nat
    BY WidthFacts
  <1>1. f[0] = n /\ \A b \in 1 .. Width : f[b] = f[b - 1] \div 2
    BY DEF Halves
  <1>2. ASSUME NEW b \in 0 .. Width - 1
        PROVE  b + 1 \in 0 .. Width /\ f[b] \in Nat /\ f[b + 1] = f[b] \div 2
    <2>1. b + 1 \in 1 .. Width /\ (b + 1) - 1 = b /\ b \in 0 .. Width /\ b + 1 \in 0 .. Width
      BY <1>0
    <2> QED
      BY <1>1, <2>1
  <1> DEFINE S == {b \in 0 .. k : f[b] < Pow2[k - b]}
  <1>3. 0 \in S
    BY <1>0, <1>1
  <1>4. \A b \in 0 .. k - 1 : b \in S => b + 1 \in S
    <2> SUFFICES ASSUME NEW b \in 0 .. k - 1, f[b] < Pow2[k - b]
                 PROVE  f[b + 1] < Pow2[k - (b + 1)]
      BY <1>0
    <2>1. b \in 0 .. Width - 1 /\ k - b \in 1 .. 63 /\ (k - b) - 1 = k - (b + 1)
          /\ k - (b + 1) \in 0 .. 63
      BY <1>0
    <2>2. f[b] \in Nat /\ f[b + 1] = f[b] \div 2
      BY <1>2, <2>1
    <2>3. Pow2[k - b] = 2 * Pow2[k - (b + 1)] /\ Pow2[k - (b + 1)] \in Nat
      BY <2>1, Pow2Steps, Pow2Type
    <2>4. \A x, p \in Nat : x < 2 * p => x \div 2 < p
      OBVIOUS
    <2> QED
      BY <2>2, <2>3, <2>4
  <1>5. f[k] = 0
    <2>1. 0 .. k \subseteq S
      <3> HIDE DEF S
      <3> QED
        BY <1>0, <1>3, <1>4, BoundedInduction
    <2>2. k \in 0 .. k /\ k \in 0 .. Width /\ k - k = 0
      BY <1>0
    <2>3. f[k] < Pow2[0]
      BY <2>1, <2>2
    <2>4. f[k] \in Nat
      BY <2>2
    <2>5. Pow2[0] = 1
      BY Pow2Values
    <2> QED
      BY <2>3, <2>4, <2>5
  <1> DEFINE R == {i \in 0 .. Width - k : f[k + i] = 0}
  <1>6. Width - k \in Nat /\ 0 \in R
    BY <1>0, <1>5
  <1>7. \A i \in 0 .. (Width - k) - 1 : i \in R => i + 1 \in R
    <2> SUFFICES ASSUME NEW i \in 0 .. (Width - k) - 1, f[k + i] = 0
                 PROVE  f[k + (i + 1)] = 0
      BY <1>0
    <2>1. k + i \in 0 .. Width - 1 /\ (k + i) + 1 = k + (i + 1)
      BY <1>0
    <2>2. f[k + (i + 1)] = f[k + i] \div 2
      BY <1>2, <2>1
    <2> QED
      BY <2>2
  <1>8. 0 .. Width - k \subseteq R
    <2> HIDE DEF R
    <2> QED
      BY <1>6, <1>7, BoundedInduction
  <1>9. ASSUME NEW b \in k .. Width PROVE f[b] = 0
    <2>1. b - k \in 0 .. Width - k /\ k + (b - k) = b
      BY <1>0
    <2> QED
      BY <1>8, <2>1
  <1> QED
    BY <1>9

\* A number of k bits is read back from its word, which has k bits.
LEMMA ValueOfWord ==
  ASSUME NEW k \in 0 .. 63, k <= Width, NEW n \in Nat, n < Pow2[k]
  PROVE  /\ Word(n) \subseteq Bits /\ \A b \in Word(n) : b < k
         /\ Value(Word(n)) = n
  <1>0. Width \in Nat /\ k \in Nat
    BY WidthFacts
  <1>1. PICK f \in [0 .. Width -> Nat] : Halves(n, f) /\ Word(n) = {b \in Bits : f[b] % 2 = 1}
    BY WordSteps
  <1>2. \A b \in k .. Width : f[b] = 0
    BY <1>1, HalvesEnd
  <1>3. Word(n) \subseteq Bits
    BY <1>1
  <1>4. ASSUME NEW b \in Word(n) PROVE b < k
    <2>1. b \in Bits /\ f[b] % 2 = 1
      BY <1>1
    <2>2. b >= k => f[b] = 0
      BY <1>0, <1>2, <2>1 DEF Bits
    <2> QED
      BY <1>0, <2>1, <2>2 DEF Bits
  <1> DEFINE w == Word(n)
  <1>w. \A b \in Bits : b \in w <=> f[b] % 2 = 1
    BY <1>1
  <1> HIDE DEF w
  <1>5. PICK t \in [0 .. Width -> Nat] : Tops(w, t) /\ Value(w) = t[Width]
    BY ValueSteps
  <1>6. /\ t[0] = 0
        /\ \A i \in 1 .. Width : t[i] = 2 * t[i - 1] + (IF Width - i \in w THEN 1 ELSE 0)
    BY <1>5 DEF Tops
  <1>7. f[0] = n /\ \A b \in 1 .. Width : f[b] = f[b - 1] \div 2
    BY <1>1 DEF Halves
  <1> DEFINE S == {i \in 0 .. Width : t[i] = f[Width - i]}
  <1>8. 0 \in S
    <2>1. Width \in k .. Width /\ Width - 0 = Width /\ 0 \in 0 .. Width
      BY <1>0
    <2> QED
      BY <1>2, <1>6, <2>1
  <1>9. \A i \in 0 .. Width - 1 : i \in S => i + 1 \in S
    <2> SUFFICES ASSUME NEW i \in 0 .. Width - 1, t[i] = f[Width - i]
                 PROVE  i + 1 \in 0 .. Width /\ t[i + 1] = f[Width - (i + 1)]
      OBVIOUS
    <2> DEFINE b == Width - (i + 1)
    <2>1. /\ i + 1 \in 1 .. Width /\ (i + 1) - 1 = i /\ i + 1 \in 0 .. Width
          /\ b \in Bits /\ b \in 0 .. Width /\ b + 1 = Width - i /\ b + 1 \in 1 .. Width
          /\ (b + 1) - 1 = b
      BY <1>0 DEF Bits
    <2>2. t[i + 1] = 2 * t[i] + (IF b \in w THEN 1 ELSE 0)
      BY <1>6, <2>1
    <2>3. f[b] \in Nat /\ f[b + 1] = f[b] \div 2
      BY <1>7, <2>1
    <2>4. b \in w <=> f[b] % 2 = 1
      BY <1>w, <2>1
    <2>5. \A x \in Nat : x = 2 * (x \div 2) + (IF x % 2 = 1 THEN 1 ELSE 0)
      OBVIOUS
    <2>6. f[b] = 2 * (f[b] \div 2) + (IF b \in w THEN 1 ELSE 0)
      BY <2>3, <2>4, <2>5
    <2> QED
      BY <2>1, <2>2, <2>3, <2>6
  <1>10. 0 .. Width \subseteq S
    <2> HIDE DEF S
    <2> QED
      BY <1>0, <1>8, <1>9, BoundedInduction
  <1>11. t[Width] = n
    <2>1. Width \in 0 .. Width /\ Width - Width = 0
      BY <1>0
    <2> QED
      BY <1>7, <1>10, <2>1
  <1> QED
    BY <1>3, <1>4, <1>5, <1>11 DEF w

\* A word of k bits has a value of k bits.
LEMMA ValueBound ==
  ASSUME NEW k \in 0 .. 63, k <= Width, NEW w, w \subseteq 0 .. k - 1
  PROVE  Value(w) < Pow2[k]
  <1>0. Width \in Nat /\ k \in Nat
    BY WidthFacts
  <1>1. PICK t \in [0 .. Width -> Nat] : Tops(w, t) /\ Value(w) = t[Width]
    BY ValueSteps
  <1>2. /\ t[0] = 0
        /\ \A i \in 1 .. Width : t[i] = 2 * t[i - 1] + (IF Width - i \in w THEN 1 ELSE 0)
    BY <1>1 DEF Tops
  <1>3. ASSUME NEW i \in 0 .. Width - 1
        PROVE  /\ i \in 0 .. Width /\ t[i] \in Nat
               /\ t[i + 1] = 2 * t[i] + (IF Width - (i + 1) \in w THEN 1 ELSE 0)
    <2>1. i + 1 \in 1 .. Width /\ (i + 1) - 1 = i /\ i \in 0 .. Width
      BY <1>0
    <2> QED
      BY <1>2, <2>1
  <1> DEFINE S == {i \in 0 .. Width - k : t[i] = 0}
             R == {i \in 0 .. k : t[(Width - k) + i] < Pow2[i]}
  <1>4. Width - k \in Nat /\ 0 \in S
    BY <1>0, <1>2
  <1>5. \A i \in 0 .. (Width - k) - 1 : i \in S => i + 1 \in S
    <2> SUFFICES ASSUME NEW i \in 0 .. (Width - k) - 1, t[i] = 0 PROVE t[i + 1] = 0
      BY <1>0
    <2>1. i \in 0 .. Width - 1 /\ Width - (i + 1) \notin 0 .. k - 1
      BY <1>0
    <2>2. Width - (i + 1) \notin w
      BY <2>1
    <2>3. t[i + 1] = 2 * t[i] + 0
      BY <1>3, <2>1, <2>2
    <2> QED
      BY <2>3
  <1>6. t[Width - k] = 0
    <2>1. 0 .. Width - k \subseteq S
      <3> HIDE DEF S
      <3> QED
        BY <1>4, <1>5, BoundedInduction
    <2> QED
      BY <1>4, <2>1
  <1>7. 0 \in R
    <2>1. Pow2[0] = 1 /\ (Width - k) + 0 = Width - k /\ 0 \in 0 .. k
      BY <1>0, Pow2Values
    <2> QED
      BY <1>6, <2>1
  <1>8. \A i \in 0 .. k - 1 : i \in R => i + 1 \in R
    <2> SUFFICES ASSUME NEW i \in 0 .. k - 1, t[(Width - k) + i] < Pow2[i]
                 PROVE  t[(Width - k) + (i + 1)] < Pow2[i + 1]
      BY <1>0
    <2> DEFINE j == (Width - k) + i
    <2>1. /\ j \in 0 .. Width - 1 /\ j + 1 = (Width - k) + (i + 1)
          /\ i \in 0 .. 63 /\ i + 1 \in 1 .. 63 /\ (i + 1) - 1 = i
      BY <1>0
    <2>2. t[j] \in Nat /\ t[j + 1] <= 2 * t[j] + 1 /\ t[j + 1] \in Int
      BY <1>3, <2>1
    <2>3. Pow2[i + 1] = 2 * Pow2[i] /\ Pow2[i] \in Nat
      BY <2>1, Pow2Steps, Pow2Type
    <2>4. t[j] < Pow2[i] /\ t[j + 1] = t[(Width - k) + (i + 1)]
      BY <2>1
    <2> HIDE DEF j
    <2>5. \A x, y, p \in Int : x <= 2 * y + 1 /\ y < p => x < 2 * p
      OBVIOUS
    <2> QED
      BY <2>2, <2>3, <2>4, <2>5
  <1>9. 0 .. k \subseteq R
    <2> HIDE DEF R
    <2> QED
      BY <1>0, <1>7, <1>8, BoundedInduction
  <1>10. k \in 0 .. k /\ (Width - k) + k = Width
    BY <1>0
  <1> QED
    BY <1>1, <1>9, <1>10

-----------------------------------------------------------------------------
(* Interleaving bits.                                                      *)

Image(a, x) == {a[b] : b \in x}

\* A line of interleave64 takes every bit of x from a[b] to c[b]: it stays or
\* moves up, and the mask takes away the other one.
Rises(x, k, a, c) ==
  \A b \in x :
     /\ a[b] \in Bits /\ c[b] \in Mask(k)
     /\ \/ c[b] = a[b] /\ a[b] + Pow2[k] \notin Mask(k)
        \/ c[b] = a[b] + Pow2[k] /\ a[b] \notin Mask(k)

LEMMA SpreadMoves ==
  ASSUME NEW x, NEW k, NEW a, NEW c, Rises(x, k, a, c)
  PROVE  Spread(Image(a, x), k) = Image(c, x)
  <1> USE DEF Image, Rises
  <1> DEFINE w == {a[b] : b \in x}
             p == Pow2[k]
  <1>1. Mask(k) \subseteq Bits
    BY DEF Mask
  <1> HIDE DEF p
  <1>2. ASSUME NEW e \in Spread(w, k) PROVE e \in {c[b] : b \in x}
    <2>1. e \in Mask(k) /\ \E b \in x : e = a[b] \/ e = a[b] + p
      BY DEF Spread, Shl, p
    <2>2. PICK b \in x : e = a[b] \/ e = a[b] + p
      BY <2>1
    <2>3. e = c[b]
      BY <2>1, <2>2 DEF p
    <2> QED
      BY <2>3
  <1>3. ASSUME NEW b \in x PROVE c[b] \in Spread(w, k)
    <2>1. c[b] \in Mask(k) /\ c[b] \in Bits /\ (c[b] = a[b] \/ c[b] = a[b] + p) /\ a[b] \in w
      BY <1>1 DEF p
    <2>2. c[b] \in w \cup {d + p : d \in w}
      BY <2>1
    <2> QED
      BY <2>1, <2>2 DEF Spread, Shl, p
  <1> QED
    BY <1>2, <1>3

\* The same for deinterleave64, down.
Falls(x, k, a, c) ==
  \A b \in x :
     /\ a[b] \in Bits /\ c[b] \in Mask(k)
     /\ \/ c[b] = a[b] /\ a[b] - Pow2[k - 1] \notin Mask(k)
        \/ c[b] = a[b] - Pow2[k - 1] /\ a[b] \notin Mask(k)

LEMMA GatherMoves ==
  ASSUME NEW x, NEW k, NEW a, NEW c, Falls(x, k, a, c)
  PROVE  Gather(Image(a, x), k) = Image(c, x)
  <1> USE DEF Image, Falls
  <1> DEFINE w == {a[b] : b \in x}
             p == Pow2[k - 1]
  <1>1. Mask(k) \subseteq Bits
    BY DEF Mask
  <1> HIDE DEF p
  <1>2. ASSUME NEW e \in Gather(w, k) PROVE e \in {c[b] : b \in x}
    <2>1. e \in Mask(k) /\ \E b \in x : e = a[b] \/ e = a[b] - p
      BY DEF Gather, Shr, p
    <2>2. PICK b \in x : e = a[b] \/ e = a[b] - p
      BY <2>1
    <2>3. e = c[b]
      BY <2>1, <2>2 DEF p
    <2> QED
      BY <2>3
  <1>3. ASSUME NEW b \in x PROVE c[b] \in Gather(w, k)
    <2>1. c[b] \in Mask(k) /\ c[b] \in Bits /\ (c[b] = a[b] \/ c[b] = a[b] - p) /\ a[b] \in w
      BY <1>1 DEF p
    <2>2. c[b] \in w \cup {d - p : d \in w}
      BY <2>1
    <2> QED
      BY <2>1, <2>2 DEF Gather, Shr, p
  <1> QED
    BY <1>2, <1>3

\* Where bit b is when blocks of p bits are still together.
At(p, b) == (b \div p) * (2 * p) + (b % p)

\* The bits of a cell number.
CellBits == 0 .. Step

\* The image of a word of cell bits.
Moved(p, x) == {At(p, b) : b \in x}

LEMMA AtOf ==
  ASSUME NEW b \in 0 .. 31, NEW q \in Int, NEW r \in Int
  PROVE  /\ b \div 1 = q /\ b % 1 = r => At(1, b) = 2 * q + r
         /\ b \div 2 = q /\ b % 2 = r => At(2, b) = 4 * q + r
         /\ b \div 4 = q /\ b % 4 = r => At(4, b) = 8 * q + r
         /\ b \div 8 = q /\ b % 8 = r => At(8, b) = 16 * q + r
         /\ b \div 16 = q /\ b % 16 = r => At(16, b) = 32 * q + r
         /\ b \div 32 = q /\ b % 32 = r => At(32, b) = 64 * q + r
  BY DEF At

LEMMA Digits ==
  ASSUME NEW b \in 0 .. 31
  PROVE  /\ \E q \in 0 .. 31, e \in {0, 1}, r \in 0 .. 0 : b = 2 * q + 1 * e + r
         /\ \E q \in 0 .. 31, e \in {0, 1}, r \in 0 .. 1 : b = 4 * q + 2 * e + r
         /\ \E q \in 0 .. 31, e \in {0, 1}, r \in 0 .. 3 : b = 8 * q + 4 * e + r
         /\ \E q \in 0 .. 31, e \in {0, 1}, r \in 0 .. 7 : b = 16 * q + 8 * e + r
         /\ \E q \in 0 .. 31, e \in {0, 1}, r \in 0 .. 15 : b = 32 * q + 16 * e + r
  <1>1. \E q \in 0 .. 31, e \in {0, 1}, r \in 0 .. 0 : b = 2 * q + 1 * e + r
    <2> DEFINE d == b \div 1
               q == d \div 2
               e == d % 2
               r == b % 1
    <2>1. d \in 0 .. 31 /\ r \in 0 .. 0 /\ b = 1 * d + r
      OBVIOUS
    <2> HIDE DEF d, r
    <2>2. q \in 0 .. 31 /\ e \in {0, 1} /\ d = 2 * q + e
      BY <2>1
    <2> HIDE DEF q, e
    <2>3. b = 2 * q + 1 * e + r
      BY <2>1, <2>2
    <2> QED
      BY <2>1, <2>2, <2>3
  <1>2. \E q \in 0 .. 31, e \in {0, 1}, r \in 0 .. 1 : b = 4 * q + 2 * e + r
    <2> DEFINE d == b \div 2
               q == d \div 2
               e == d % 2
               r == b % 2
    <2>1. d \in 0 .. 31 /\ r \in 0 .. 1 /\ b = 2 * d + r
      OBVIOUS
    <2> HIDE DEF d, r
    <2>2. q \in 0 .. 31 /\ e \in {0, 1} /\ d = 2 * q + e
      BY <2>1
    <2> HIDE DEF q, e
    <2>3. b = 4 * q + 2 * e + r
      BY <2>1, <2>2
    <2> QED
      BY <2>1, <2>2, <2>3
  <1>3. \E q \in 0 .. 31, e \in {0, 1}, r \in 0 .. 3 : b = 8 * q + 4 * e + r
    <2> DEFINE d == b \div 4
               q == d \div 2
               e == d % 2
               r == b % 4
    <2>1. d \in 0 .. 31 /\ r \in 0 .. 3 /\ b = 4 * d + r
      OBVIOUS
    <2> HIDE DEF d, r
    <2>2. q \in 0 .. 31 /\ e \in {0, 1} /\ d = 2 * q + e
      BY <2>1
    <2> HIDE DEF q, e
    <2>3. b = 8 * q + 4 * e + r
      BY <2>1, <2>2
    <2> QED
      BY <2>1, <2>2, <2>3
  <1>4. \E q \in 0 .. 31, e \in {0, 1}, r \in 0 .. 7 : b = 16 * q + 8 * e + r
    <2> DEFINE d == b \div 8
               q == d \div 2
               e == d % 2
               r == b % 8
    <2>1. d \in 0 .. 31 /\ r \in 0 .. 7 /\ b = 8 * d + r
      OBVIOUS
    <2> HIDE DEF d, r
    <2>2. q \in 0 .. 31 /\ e \in {0, 1} /\ d = 2 * q + e
      BY <2>1
    <2> HIDE DEF q, e
    <2>3. b = 16 * q + 8 * e + r
      BY <2>1, <2>2
    <2> QED
      BY <2>1, <2>2, <2>3
  <1>5. \E q \in 0 .. 31, e \in {0, 1}, r \in 0 .. 15 : b = 32 * q + 16 * e + r
    <2> DEFINE d == b \div 16
               q == d \div 2
               e == d % 2
               r == b % 16
    <2>1. d \in 0 .. 31 /\ r \in 0 .. 15 /\ b = 16 * d + r
      OBVIOUS
    <2> HIDE DEF d, r
    <2>2. q \in 0 .. 31 /\ e \in {0, 1} /\ d = 2 * q + e
      BY <2>1
    <2> HIDE DEF q, e
    <2>3. b = 32 * q + 16 * e + r
      BY <2>1, <2>2
    <2> QED
      BY <2>1, <2>2, <2>3
  <1> QED
    BY <1>1, <1>2, <1>3, <1>4, <1>5

LEMMA AtFacts ==
  ASSUME NEW b \in 0 .. 31
  PROVE  /\ At(1, b) = 2 * b /\ At(32, b) = b
         /\ \A p \in {1, 2, 4, 8, 16, 32} : At(p, b) \in 0 .. 2 * b
  <1>1. At(1, b) = 2 * b /\ At(32, b) = b
    <2>1. b \div 1 = b /\ b % 1 = 0 /\ b \div 32 = 0 /\ b % 32 = b
      OBVIOUS
    <2> QED
      BY <2>1, AtOf
  <1>2. At(1, b) \in 0 .. 2 * b
    BY DEF At
  <1>3. At(2, b) \in 0 .. 2 * b
    BY DEF At
  <1>4. At(4, b) \in 0 .. 2 * b
    BY DEF At
  <1>5. At(8, b) \in 0 .. 2 * b
    BY DEF At
  <1>6. At(16, b) \in 0 .. 2 * b
    BY DEF At
  <1>7. At(32, b) \in 0 .. 2 * b
    BY DEF At
  <1> QED
    BY <1>1, <1>2, <1>3, <1>4, <1>5, <1>6, <1>7

LEMMA CellBitsFacts ==
  ASSUME NEW b \in CellBits
  PROVE  /\ b \in 0 .. 31
         /\ \A p \in {1, 2, 4, 8, 16, 32} : At(p, b) \in Bits
         /\ 2 * b \in Bits /\ 2 * b + 1 \in Bits
  <1>1. b \in 0 .. 31 /\ 2 * b + 1 <= Width - 1 /\ Width \in Nat
    BY WidthFacts DEF CellBits
  <1>2. \A p \in {1, 2, 4, 8, 16, 32} : At(p, b) \in 0 .. 2 * b
    BY <1>1, AtFacts
  <1>3. \A c \in 0 .. 2 * b + 1 : c \in Bits
    BY <1>1 DEF Bits
  <1> QED
    BY <1>1, <1>2, <1>3

LEMMA MaskFacts ==
  /\ \A c : c \in Mask(0) <=> c \in Bits /\ (c \div 1) % 2 = 0
  /\ \A c : c \in Mask(1) <=> c \in Bits /\ (c \div 2) % 2 = 0
  /\ \A c : c \in Mask(2) <=> c \in Bits /\ (c \div 4) % 2 = 0
  /\ \A c : c \in Mask(3) <=> c \in Bits /\ (c \div 8) % 2 = 0
  /\ \A c : c \in Mask(4) <=> c \in Bits /\ (c \div 16) % 2 = 0
  /\ \A c : c \in Mask(5) <=> c \in Bits /\ (c \div 32) % 2 = 0
  BY Pow2Values DEF Mask

LEMMA Spread4 ==
  ASSUME NEW x, x \subseteq CellBits
  PROVE  Spread(Moved(32, x), 4) = Moved(16, x)
  <1> DEFINE a == [b \in x |-> At(32, b)]
             c == [b \in x |-> At(16, b)]
  <1>1. ASSUME NEW b \in x
        PROVE  /\ a[b] \in Bits /\ c[b] \in Mask(4)
               /\ \/ c[b] = a[b] /\ a[b] + Pow2[4] \notin Mask(4)
                  \/ c[b] = a[b] + Pow2[4] /\ a[b] \notin Mask(4)
    <2>1. b \in 0 .. 31 /\ At(32, b) \in Bits /\ At(16, b) \in Bits
      BY CellBitsFacts
    <2>2. (At(16, b) \div 16) % 2 = 0
      BY <2>1 DEF At
    <2>c. At(32, b) \in Nat /\ At(16, b) \in Nat
      BY <2>1, AtFacts
    <2>3. \/ At(16, b) = At(32, b) /\ ((At(32, b) + 16) \div 16) % 2 # 0
          \/ At(16, b) = At(32, b) + 16 /\ (At(32, b) \div 16) % 2 # 0
      <3>1. PICK q \in 0 .. 31, e \in {0, 1}, r \in 0 .. 15 : b = 32 * q + 16 * e + r
        BY <2>1, Digits
      <3>2. CASE e = 0
        <4>1. b \div 32 = q /\ b % 32 = r /\ b \div 16 = 2 * q /\ b % 16 = r
          BY <3>1, <3>2
        <4>2. At(32, b) = 64 * q + r /\ At(16, b) = 64 * q + r
          BY <2>1, <4>1, AtOf
        <4>3. (64 * q + r + 16) \div 16 = 4 * q + 1 /\ (4 * q + 1) % 2 = 1
          OBVIOUS
        <4> QED
          BY <4>2, <4>3
      <3>3. CASE e = 1
        <4>1. /\ b \div 32 = q /\ b % 32 = r + 16
              /\ b \div 16 = 2 * q + 1 /\ b % 16 = r
          BY <3>1, <3>3
        <4>2. At(32, b) = 64 * q + r + 16 /\ At(16, b) = 64 * q + r + 32
          BY <2>1, <4>1, AtOf
        <4>3. (64 * q + r + 16) \div 16 = 4 * q + 1 /\ (4 * q + 1) % 2 = 1
          OBVIOUS
        <4> QED
          BY <4>2, <4>3
      <3> QED
        BY <3>2, <3>3
    <2>4. a[b] = At(32, b) /\ c[b] = At(16, b) /\ Pow2[4] = 16
      BY Pow2Values
    <2>5. At(16, b) \in Mask(4)
      BY <2>1, <2>2, MaskFacts
    <2>6. \/ At(16, b) = At(32, b) /\ At(32, b) + 16 \notin Mask(4)
          \/ At(16, b) = At(32, b) + 16 /\ At(32, b) \notin Mask(4)
      BY <2>3, MaskFacts
    <2> HIDE DEF a, c
    <2> QED
      BY <2>1, <2>4, <2>5, <2>6
  <1>2. Image(a, x) = Moved(32, x) /\ Image(c, x) = Moved(16, x)
    BY DEF Moved, Image
  <1> HIDE DEF a, c
  <1>3. Spread(Image(a, x), 4) = Image(c, x)
    BY <1>1, SpreadMoves DEF Rises
  <1> QED
    BY <1>2, <1>3

LEMMA Spread3 ==
  ASSUME NEW x, x \subseteq CellBits
  PROVE  Spread(Moved(16, x), 3) = Moved(8, x)
  <1> DEFINE a == [b \in x |-> At(16, b)]
             c == [b \in x |-> At(8, b)]
  <1>1. ASSUME NEW b \in x
        PROVE  /\ a[b] \in Bits /\ c[b] \in Mask(3)
               /\ \/ c[b] = a[b] /\ a[b] + Pow2[3] \notin Mask(3)
                  \/ c[b] = a[b] + Pow2[3] /\ a[b] \notin Mask(3)
    <2>1. b \in 0 .. 31 /\ At(16, b) \in Bits /\ At(8, b) \in Bits
      BY CellBitsFacts
    <2>2. (At(8, b) \div 8) % 2 = 0
      BY <2>1 DEF At
    <2>c. At(16, b) \in Nat /\ At(8, b) \in Nat
      BY <2>1, AtFacts
    <2>3. \/ At(8, b) = At(16, b) /\ ((At(16, b) + 8) \div 8) % 2 # 0
          \/ At(8, b) = At(16, b) + 8 /\ (At(16, b) \div 8) % 2 # 0
      <3>1. PICK q \in 0 .. 31, e \in {0, 1}, r \in 0 .. 7 : b = 16 * q + 8 * e + r
        BY <2>1, Digits
      <3>2. CASE e = 0
        <4>1. b \div 16 = q /\ b % 16 = r /\ b \div 8 = 2 * q /\ b % 8 = r
          BY <3>1, <3>2
        <4>2. At(16, b) = 32 * q + r /\ At(8, b) = 32 * q + r
          BY <2>1, <4>1, AtOf
        <4>3. (32 * q + r + 8) \div 8 = 4 * q + 1 /\ (4 * q + 1) % 2 = 1
          OBVIOUS
        <4> QED
          BY <4>2, <4>3
      <3>3. CASE e = 1
        <4>1. /\ b \div 16 = q /\ b % 16 = r + 8
              /\ b \div 8 = 2 * q + 1 /\ b % 8 = r
          BY <3>1, <3>3
        <4>2. At(16, b) = 32 * q + r + 8 /\ At(8, b) = 32 * q + r + 16
          BY <2>1, <4>1, AtOf
        <4>3. (32 * q + r + 8) \div 8 = 4 * q + 1 /\ (4 * q + 1) % 2 = 1
          OBVIOUS
        <4> QED
          BY <4>2, <4>3
      <3> QED
        BY <3>2, <3>3
    <2>4. a[b] = At(16, b) /\ c[b] = At(8, b) /\ Pow2[3] = 8
      BY Pow2Values
    <2>5. At(8, b) \in Mask(3)
      BY <2>1, <2>2, MaskFacts
    <2>6. \/ At(8, b) = At(16, b) /\ At(16, b) + 8 \notin Mask(3)
          \/ At(8, b) = At(16, b) + 8 /\ At(16, b) \notin Mask(3)
      BY <2>3, MaskFacts
    <2> HIDE DEF a, c
    <2> QED
      BY <2>1, <2>4, <2>5, <2>6
  <1>2. Image(a, x) = Moved(16, x) /\ Image(c, x) = Moved(8, x)
    BY DEF Moved, Image
  <1> HIDE DEF a, c
  <1>3. Spread(Image(a, x), 3) = Image(c, x)
    BY <1>1, SpreadMoves DEF Rises
  <1> QED
    BY <1>2, <1>3

LEMMA Spread2 ==
  ASSUME NEW x, x \subseteq CellBits
  PROVE  Spread(Moved(8, x), 2) = Moved(4, x)
  <1> DEFINE a == [b \in x |-> At(8, b)]
             c == [b \in x |-> At(4, b)]
  <1>1. ASSUME NEW b \in x
        PROVE  /\ a[b] \in Bits /\ c[b] \in Mask(2)
               /\ \/ c[b] = a[b] /\ a[b] + Pow2[2] \notin Mask(2)
                  \/ c[b] = a[b] + Pow2[2] /\ a[b] \notin Mask(2)
    <2>1. b \in 0 .. 31 /\ At(8, b) \in Bits /\ At(4, b) \in Bits
      BY CellBitsFacts
    <2>2. (At(4, b) \div 4) % 2 = 0
      BY <2>1 DEF At
    <2>c. At(8, b) \in Nat /\ At(4, b) \in Nat
      BY <2>1, AtFacts, SMTT(30)
    <2>3. \/ At(4, b) = At(8, b) /\ ((At(8, b) + 4) \div 4) % 2 # 0
          \/ At(4, b) = At(8, b) + 4 /\ (At(8, b) \div 4) % 2 # 0
      <3>1. PICK q \in 0 .. 31, e \in {0, 1}, r \in 0 .. 3 : b = 8 * q + 4 * e + r
        BY <2>1, Digits
      <3>2. CASE e = 0
        <4>1. b \div 8 = q /\ b % 8 = r /\ b \div 4 = 2 * q /\ b % 4 = r
          BY <3>1, <3>2
        <4>2. At(8, b) = 16 * q + r /\ At(4, b) = 16 * q + r
          BY <2>1, <4>1, AtOf
        <4>3. (16 * q + r + 4) \div 4 = 4 * q + 1 /\ (4 * q + 1) % 2 = 1
          OBVIOUS
        <4> QED
          BY <4>2, <4>3
      <3>3. CASE e = 1
        <4>1. /\ b \div 8 = q /\ b % 8 = r + 4
              /\ b \div 4 = 2 * q + 1 /\ b % 4 = r
          BY <3>1, <3>3
        <4>2. At(8, b) = 16 * q + r + 4 /\ At(4, b) = 16 * q + r + 8
          BY <2>1, <4>1, AtOf
        <4>3. (16 * q + r + 4) \div 4 = 4 * q + 1 /\ (4 * q + 1) % 2 = 1
          OBVIOUS
        <4> QED
          BY <4>2, <4>3
      <3> QED
        BY <3>2, <3>3
    <2>4. a[b] = At(8, b) /\ c[b] = At(4, b) /\ Pow2[2] = 4
      BY Pow2Values
    <2>5. At(4, b) \in Mask(2)
      BY <2>1, <2>2, MaskFacts
    <2>6. \/ At(4, b) = At(8, b) /\ At(8, b) + 4 \notin Mask(2)
          \/ At(4, b) = At(8, b) + 4 /\ At(8, b) \notin Mask(2)
      BY <2>3, MaskFacts
    <2> HIDE DEF a, c
    <2> QED
      BY <2>1, <2>4, <2>5, <2>6
  <1>2. Image(a, x) = Moved(8, x) /\ Image(c, x) = Moved(4, x)
    BY DEF Moved, Image
  <1> HIDE DEF a, c
  <1>3. Spread(Image(a, x), 2) = Image(c, x)
    BY <1>1, SpreadMoves DEF Rises
  <1> QED
    BY <1>2, <1>3

LEMMA Spread1 ==
  ASSUME NEW x, x \subseteq CellBits
  PROVE  Spread(Moved(4, x), 1) = Moved(2, x)
  <1> DEFINE a == [b \in x |-> At(4, b)]
             c == [b \in x |-> At(2, b)]
  <1>1. ASSUME NEW b \in x
        PROVE  /\ a[b] \in Bits /\ c[b] \in Mask(1)
               /\ \/ c[b] = a[b] /\ a[b] + Pow2[1] \notin Mask(1)
                  \/ c[b] = a[b] + Pow2[1] /\ a[b] \notin Mask(1)
    <2>1. b \in 0 .. 31 /\ At(4, b) \in Bits /\ At(2, b) \in Bits
      BY CellBitsFacts
    <2>2. (At(2, b) \div 2) % 2 = 0
      BY <2>1 DEF At
    <2>c. At(4, b) \in Nat /\ At(2, b) \in Nat
      BY <2>1, AtFacts, SMTT(30)
    <2>3. \/ At(2, b) = At(4, b) /\ ((At(4, b) + 2) \div 2) % 2 # 0
          \/ At(2, b) = At(4, b) + 2 /\ (At(4, b) \div 2) % 2 # 0
      <3>1. PICK q \in 0 .. 31, e \in {0, 1}, r \in 0 .. 1 : b = 4 * q + 2 * e + r
        BY <2>1, Digits
      <3>2. CASE e = 0
        <4>1. b \div 4 = q /\ b % 4 = r /\ b \div 2 = 2 * q /\ b % 2 = r
          BY <3>1, <3>2
        <4>2. At(4, b) = 8 * q + r /\ At(2, b) = 8 * q + r
          BY <2>1, <4>1, AtOf
        <4>3. (8 * q + r + 2) \div 2 = 4 * q + 1 /\ (4 * q + 1) % 2 = 1
          OBVIOUS
        <4> QED
          BY <4>2, <4>3
      <3>3. CASE e = 1
        <4>1. /\ b \div 4 = q /\ b % 4 = r + 2
              /\ b \div 2 = 2 * q + 1 /\ b % 2 = r
          BY <3>1, <3>3
        <4>2. At(4, b) = 8 * q + r + 2 /\ At(2, b) = 8 * q + r + 4
          BY <2>1, <4>1, AtOf
        <4>3. (8 * q + r + 2) \div 2 = 4 * q + 1 /\ (4 * q + 1) % 2 = 1
          OBVIOUS
        <4> QED
          BY <4>2, <4>3
      <3> QED
        BY <3>2, <3>3
    <2>4. a[b] = At(4, b) /\ c[b] = At(2, b) /\ Pow2[1] = 2
      BY Pow2Values
    <2>5. At(2, b) \in Mask(1)
      BY <2>1, <2>2, MaskFacts
    <2>6. \/ At(2, b) = At(4, b) /\ At(4, b) + 2 \notin Mask(1)
          \/ At(2, b) = At(4, b) + 2 /\ At(4, b) \notin Mask(1)
      BY <2>3, MaskFacts
    <2> HIDE DEF a, c
    <2> QED
      BY <2>1, <2>4, <2>5, <2>6
  <1>2. Image(a, x) = Moved(4, x) /\ Image(c, x) = Moved(2, x)
    BY DEF Moved, Image
  <1> HIDE DEF a, c
  <1>3. Spread(Image(a, x), 1) = Image(c, x)
    BY <1>1, SpreadMoves DEF Rises
  <1> QED
    BY <1>2, <1>3

LEMMA Spread0 ==
  ASSUME NEW x, x \subseteq CellBits
  PROVE  Spread(Moved(2, x), 0) = Moved(1, x)
  <1> DEFINE a == [b \in x |-> At(2, b)]
             c == [b \in x |-> At(1, b)]
  <1>1. ASSUME NEW b \in x
        PROVE  /\ a[b] \in Bits /\ c[b] \in Mask(0)
               /\ \/ c[b] = a[b] /\ a[b] + Pow2[0] \notin Mask(0)
                  \/ c[b] = a[b] + Pow2[0] /\ a[b] \notin Mask(0)
    <2>1. b \in 0 .. 31 /\ At(2, b) \in Bits /\ At(1, b) \in Bits
      BY CellBitsFacts
    <2>2. (At(1, b) \div 1) % 2 = 0
      BY <2>1 DEF At
    <2>c. At(2, b) \in Nat /\ At(1, b) \in Nat
      BY <2>1, AtFacts
    <2>3. \/ At(1, b) = At(2, b) /\ ((At(2, b) + 1) \div 1) % 2 # 0
          \/ At(1, b) = At(2, b) + 1 /\ (At(2, b) \div 1) % 2 # 0
      <3>1. PICK q \in 0 .. 31, e \in {0, 1}, r \in 0 .. 0 : b = 2 * q + 1 * e + r
        BY <2>1, Digits
      <3>2. CASE e = 0
        <4>1. b \div 2 = q /\ b % 2 = r /\ b \div 1 = 2 * q /\ b % 1 = r
          BY <3>1, <3>2
        <4>2. At(2, b) = 4 * q + r /\ At(1, b) = 4 * q + r
          BY <2>1, <4>1, AtOf
        <4>3. (4 * q + r + 1) \div 1 = 4 * q + 1 /\ (4 * q + 1) % 2 = 1
          OBVIOUS
        <4> QED
          BY <4>2, <4>3
      <3>3. CASE e = 1
        <4>1. /\ b \div 2 = q /\ b % 2 = r + 1
              /\ b \div 1 = 2 * q + 1 /\ b % 1 = r
          BY <3>1, <3>3
        <4>2. At(2, b) = 4 * q + r + 1 /\ At(1, b) = 4 * q + r + 2
          BY <2>1, <4>1, AtOf
        <4>3. (4 * q + r + 1) \div 1 = 4 * q + 1 /\ (4 * q + 1) % 2 = 1
          OBVIOUS
        <4> QED
          BY <4>2, <4>3
      <3> QED
        BY <3>2, <3>3
    <2>4. a[b] = At(2, b) /\ c[b] = At(1, b) /\ Pow2[0] = 1
      BY Pow2Values
    <2>5. At(1, b) \in Mask(0)
      BY <2>1, <2>2, MaskFacts
    <2>6. \/ At(1, b) = At(2, b) /\ At(2, b) + 1 \notin Mask(0)
          \/ At(1, b) = At(2, b) + 1 /\ At(2, b) \notin Mask(0)
      BY <2>3, MaskFacts
    <2> HIDE DEF a, c
    <2> QED
      BY <2>1, <2>4, <2>5, <2>6
  <1>2. Image(a, x) = Moved(2, x) /\ Image(c, x) = Moved(1, x)
    BY DEF Moved, Image
  <1> HIDE DEF a, c
  <1>3. Spread(Image(a, x), 0) = Image(c, x)
    BY <1>1, SpreadMoves DEF Rises
  <1> QED
    BY <1>2, <1>3

LEMMA Gather1 ==
  ASSUME NEW x, x \subseteq CellBits
  PROVE  Gather(Moved(1, x), 1) = Moved(2, x)
  <1> DEFINE a == [b \in x |-> At(1, b)]
             c == [b \in x |-> At(2, b)]
  <1>1. ASSUME NEW b \in x
        PROVE  /\ a[b] \in Bits /\ c[b] \in Mask(1)
               /\ \/ c[b] = a[b] /\ a[b] - Pow2[1 - 1] \notin Mask(1)
                  \/ c[b] = a[b] - Pow2[1 - 1] /\ a[b] \notin Mask(1)
    <2>1. b \in 0 .. 31 /\ At(1, b) \in Bits /\ At(2, b) \in Bits
      BY CellBitsFacts
    <2>2. (At(2, b) \div 2) % 2 = 0
      BY <2>1 DEF At
    <2>3. \/ /\ At(2, b) = At(1, b)
             /\ At(1, b) - 1 >= 0 => ((At(1, b) - 1) \div 2) % 2 # 0
          \/ At(2, b) = At(1, b) - 1 /\ (At(1, b) \div 2) % 2 # 0
      <3>1. PICK q \in 0 .. 31, e \in {0, 1}, r \in 0 .. 0 : b = 2 * q + 1 * e + r
        BY <2>1, Digits
      <3>2. CASE e = 0
        <4>1. b \div 2 = q /\ b % 2 = r /\ b \div 1 = 2 * q /\ b % 1 = r
          BY <3>1, <3>2
        <4>2. At(2, b) = 4 * q + r /\ At(1, b) = 4 * q + r
          BY <2>1, <4>1, AtOf
        <4>3. q # 0 => (4 * q + r - 1) \div 2 = 2 * q - 1 /\ (2 * q - 1) % 2 = 1
          OBVIOUS
        <4>4. q = 0 => 4 * q + r - 1 < 0
          OBVIOUS
        <4> QED
          BY <4>2, <4>3, <4>4
      <3>3. CASE e = 1
        <4>1. /\ b \div 2 = q /\ b % 2 = r + 1
              /\ b \div 1 = 2 * q + 1 /\ b % 1 = r
          BY <3>1, <3>3
        <4>2. At(2, b) = 4 * q + r + 1 /\ At(1, b) = 4 * q + r + 2
          BY <2>1, <4>1, AtOf
        <4>3. (4 * q + r + 2) \div 2 = 2 * q + 1 /\ (2 * q + 1) % 2 = 1
          OBVIOUS
        <4> QED
          BY <4>2, <4>3
      <3> QED
        BY <3>2, <3>3
    <2>4. a[b] = At(1, b) /\ c[b] = At(2, b) /\ Pow2[1 - 1] = 1
      BY Pow2Values
    <2>5. At(2, b) \in Mask(1)
      BY <2>1, <2>2, MaskFacts
    <2>6. \A e \in Bits : e >= 0
      BY WidthFacts DEF Bits
    <2>7. \/ At(2, b) = At(1, b) /\ At(1, b) - 1 \notin Mask(1)
          \/ At(2, b) = At(1, b) - 1 /\ At(1, b) \notin Mask(1)
      BY <2>3, <2>6, MaskFacts
    <2> HIDE DEF a, c
    <2> QED
      BY <2>1, <2>4, <2>5, <2>7
  <1>2. Image(a, x) = Moved(1, x) /\ Image(c, x) = Moved(2, x)
    BY DEF Moved, Image
  <1> HIDE DEF a, c
  <1>3. Gather(Image(a, x), 1) = Image(c, x)
    BY <1>1, GatherMoves DEF Falls
  <1> QED
    BY <1>2, <1>3

LEMMA Gather2 ==
  ASSUME NEW x, x \subseteq CellBits
  PROVE  Gather(Moved(2, x), 2) = Moved(4, x)
  <1> DEFINE a == [b \in x |-> At(2, b)]
             c == [b \in x |-> At(4, b)]
  <1>1. ASSUME NEW b \in x
        PROVE  /\ a[b] \in Bits /\ c[b] \in Mask(2)
               /\ \/ c[b] = a[b] /\ a[b] - Pow2[2 - 1] \notin Mask(2)
                  \/ c[b] = a[b] - Pow2[2 - 1] /\ a[b] \notin Mask(2)
    <2>1. b \in 0 .. 31 /\ At(2, b) \in Bits /\ At(4, b) \in Bits
      BY CellBitsFacts
    <2>2. (At(4, b) \div 4) % 2 = 0
      BY <2>1 DEF At
    <2>3. \/ /\ At(4, b) = At(2, b)
             /\ At(2, b) - 2 >= 0 => ((At(2, b) - 2) \div 4) % 2 # 0
          \/ At(4, b) = At(2, b) - 2 /\ (At(2, b) \div 4) % 2 # 0
      <3>1. PICK q \in 0 .. 31, e \in {0, 1}, r \in 0 .. 1 : b = 4 * q + 2 * e + r
        BY <2>1, Digits
      <3>2. CASE e = 0
        <4>1. b \div 4 = q /\ b % 4 = r /\ b \div 2 = 2 * q /\ b % 2 = r
          BY <3>1, <3>2
        <4>2. At(4, b) = 8 * q + r /\ At(2, b) = 8 * q + r
          BY <2>1, <4>1, AtOf
        <4>3. q # 0 => (8 * q + r - 2) \div 4 = 2 * q - 1 /\ (2 * q - 1) % 2 = 1
          OBVIOUS
        <4>4. q = 0 => 8 * q + r - 2 < 0
          OBVIOUS
        <4> QED
          BY <4>2, <4>3, <4>4
      <3>3. CASE e = 1
        <4>1. /\ b \div 4 = q /\ b % 4 = r + 2
              /\ b \div 2 = 2 * q + 1 /\ b % 2 = r
          BY <3>1, <3>3
        <4>2. At(4, b) = 8 * q + r + 2 /\ At(2, b) = 8 * q + r + 4
          BY <2>1, <4>1, AtOf
        <4>3. (8 * q + r + 4) \div 4 = 2 * q + 1 /\ (2 * q + 1) % 2 = 1
          OBVIOUS
        <4> QED
          BY <4>2, <4>3
      <3> QED
        BY <3>2, <3>3
    <2>4. a[b] = At(2, b) /\ c[b] = At(4, b) /\ Pow2[2 - 1] = 2
      BY Pow2Values
    <2>5. At(4, b) \in Mask(2)
      BY <2>1, <2>2, MaskFacts
    <2>6. \A e \in Bits : e >= 0
      BY WidthFacts DEF Bits
    <2>7. \/ At(4, b) = At(2, b) /\ At(2, b) - 2 \notin Mask(2)
          \/ At(4, b) = At(2, b) - 2 /\ At(2, b) \notin Mask(2)
      BY <2>3, <2>6, MaskFacts
    <2> HIDE DEF a, c
    <2> QED
      BY <2>1, <2>4, <2>5, <2>7
  <1>2. Image(a, x) = Moved(2, x) /\ Image(c, x) = Moved(4, x)
    BY DEF Moved, Image
  <1> HIDE DEF a, c
  <1>3. Gather(Image(a, x), 2) = Image(c, x)
    BY <1>1, GatherMoves DEF Falls
  <1> QED
    BY <1>2, <1>3

LEMMA Gather3 ==
  ASSUME NEW x, x \subseteq CellBits
  PROVE  Gather(Moved(4, x), 3) = Moved(8, x)
  <1> DEFINE a == [b \in x |-> At(4, b)]
             c == [b \in x |-> At(8, b)]
  <1>1. ASSUME NEW b \in x
        PROVE  /\ a[b] \in Bits /\ c[b] \in Mask(3)
               /\ \/ c[b] = a[b] /\ a[b] - Pow2[3 - 1] \notin Mask(3)
                  \/ c[b] = a[b] - Pow2[3 - 1] /\ a[b] \notin Mask(3)
    <2>1. b \in 0 .. 31 /\ At(4, b) \in Bits /\ At(8, b) \in Bits
      BY CellBitsFacts
    <2>2. (At(8, b) \div 8) % 2 = 0
      BY <2>1 DEF At
    <2>3. \/ /\ At(8, b) = At(4, b)
             /\ At(4, b) - 4 >= 0 => ((At(4, b) - 4) \div 8) % 2 # 0
          \/ At(8, b) = At(4, b) - 4 /\ (At(4, b) \div 8) % 2 # 0
      <3>1. PICK q \in 0 .. 31, e \in {0, 1}, r \in 0 .. 3 : b = 8 * q + 4 * e + r
        BY <2>1, Digits
      <3>2. CASE e = 0
        <4>1. b \div 8 = q /\ b % 8 = r /\ b \div 4 = 2 * q /\ b % 4 = r
          BY <3>1, <3>2
        <4>2. At(8, b) = 16 * q + r /\ At(4, b) = 16 * q + r
          BY <2>1, <4>1, AtOf
        <4>3. q # 0 => (16 * q + r - 4) \div 8 = 2 * q - 1 /\ (2 * q - 1) % 2 = 1
          OBVIOUS
        <4>4. q = 0 => 16 * q + r - 4 < 0
          OBVIOUS
        <4> QED
          BY <4>2, <4>3, <4>4
      <3>3. CASE e = 1
        <4>1. /\ b \div 8 = q /\ b % 8 = r + 4
              /\ b \div 4 = 2 * q + 1 /\ b % 4 = r
          BY <3>1, <3>3
        <4>2. At(8, b) = 16 * q + r + 4 /\ At(4, b) = 16 * q + r + 8
          BY <2>1, <4>1, AtOf
        <4>3. (16 * q + r + 8) \div 8 = 2 * q + 1 /\ (2 * q + 1) % 2 = 1
          OBVIOUS
        <4> QED
          BY <4>2, <4>3
      <3> QED
        BY <3>2, <3>3
    <2>4. a[b] = At(4, b) /\ c[b] = At(8, b) /\ Pow2[3 - 1] = 4
      BY Pow2Values
    <2>5. At(8, b) \in Mask(3)
      BY <2>1, <2>2, MaskFacts
    <2>6. \A e \in Bits : e >= 0
      BY WidthFacts DEF Bits
    <2>7. \/ At(8, b) = At(4, b) /\ At(4, b) - 4 \notin Mask(3)
          \/ At(8, b) = At(4, b) - 4 /\ At(4, b) \notin Mask(3)
      BY <2>3, <2>6, MaskFacts
    <2> HIDE DEF a, c
    <2> QED
      BY <2>1, <2>4, <2>5, <2>7
  <1>2. Image(a, x) = Moved(4, x) /\ Image(c, x) = Moved(8, x)
    BY DEF Moved, Image
  <1> HIDE DEF a, c
  <1>3. Gather(Image(a, x), 3) = Image(c, x)
    BY <1>1, GatherMoves DEF Falls
  <1> QED
    BY <1>2, <1>3

LEMMA Gather4 ==
  ASSUME NEW x, x \subseteq CellBits
  PROVE  Gather(Moved(8, x), 4) = Moved(16, x)
  <1> DEFINE a == [b \in x |-> At(8, b)]
             c == [b \in x |-> At(16, b)]
  <1>1. ASSUME NEW b \in x
        PROVE  /\ a[b] \in Bits /\ c[b] \in Mask(4)
               /\ \/ c[b] = a[b] /\ a[b] - Pow2[4 - 1] \notin Mask(4)
                  \/ c[b] = a[b] - Pow2[4 - 1] /\ a[b] \notin Mask(4)
    <2>1. b \in 0 .. 31 /\ At(8, b) \in Bits /\ At(16, b) \in Bits
      BY CellBitsFacts
    <2>2. (At(16, b) \div 16) % 2 = 0
      BY <2>1 DEF At
    <2>3. \/ /\ At(16, b) = At(8, b)
             /\ At(8, b) - 8 >= 0 => ((At(8, b) - 8) \div 16) % 2 # 0
          \/ At(16, b) = At(8, b) - 8 /\ (At(8, b) \div 16) % 2 # 0
      <3>1. PICK q \in 0 .. 31, e \in {0, 1}, r \in 0 .. 7 : b = 16 * q + 8 * e + r
        BY <2>1, Digits
      <3>2. CASE e = 0
        <4>1. b \div 16 = q /\ b % 16 = r /\ b \div 8 = 2 * q /\ b % 8 = r
          BY <3>1, <3>2
        <4>2. At(16, b) = 32 * q + r /\ At(8, b) = 32 * q + r
          BY <2>1, <4>1, AtOf
        <4>3. q # 0 => (32 * q + r - 8) \div 16 = 2 * q - 1 /\ (2 * q - 1) % 2 = 1
          OBVIOUS
        <4>4. q = 0 => 32 * q + r - 8 < 0
          OBVIOUS
        <4> QED
          BY <4>2, <4>3, <4>4
      <3>3. CASE e = 1
        <4>1. /\ b \div 16 = q /\ b % 16 = r + 8
              /\ b \div 8 = 2 * q + 1 /\ b % 8 = r
          BY <3>1, <3>3
        <4>2. At(16, b) = 32 * q + r + 8 /\ At(8, b) = 32 * q + r + 16
          BY <2>1, <4>1, AtOf
        <4>3. (32 * q + r + 16) \div 16 = 2 * q + 1 /\ (2 * q + 1) % 2 = 1
          OBVIOUS
        <4> QED
          BY <4>2, <4>3
      <3> QED
        BY <3>2, <3>3
    <2>4. a[b] = At(8, b) /\ c[b] = At(16, b) /\ Pow2[4 - 1] = 8
      BY Pow2Values
    <2>5. At(16, b) \in Mask(4)
      BY <2>1, <2>2, MaskFacts
    <2>6. \A e \in Bits : e >= 0
      BY WidthFacts DEF Bits
    <2>7. \/ At(16, b) = At(8, b) /\ At(8, b) - 8 \notin Mask(4)
          \/ At(16, b) = At(8, b) - 8 /\ At(8, b) \notin Mask(4)
      BY <2>3, <2>6, MaskFacts
    <2> HIDE DEF a, c
    <2> QED
      BY <2>1, <2>4, <2>5, <2>7
  <1>2. Image(a, x) = Moved(8, x) /\ Image(c, x) = Moved(16, x)
    BY DEF Moved, Image
  <1> HIDE DEF a, c
  <1>3. Gather(Image(a, x), 4) = Image(c, x)
    BY <1>1, GatherMoves DEF Falls
  <1> QED
    BY <1>2, <1>3

LEMMA Gather5 ==
  ASSUME NEW x, x \subseteq CellBits
  PROVE  Gather(Moved(16, x), 5) = Moved(32, x)
  <1> DEFINE a == [b \in x |-> At(16, b)]
             c == [b \in x |-> At(32, b)]
  <1>1. ASSUME NEW b \in x
        PROVE  /\ a[b] \in Bits /\ c[b] \in Mask(5)
               /\ \/ c[b] = a[b] /\ a[b] - Pow2[5 - 1] \notin Mask(5)
                  \/ c[b] = a[b] - Pow2[5 - 1] /\ a[b] \notin Mask(5)
    <2>1. b \in 0 .. 31 /\ At(16, b) \in Bits /\ At(32, b) \in Bits
      BY CellBitsFacts
    <2>2. (At(32, b) \div 32) % 2 = 0
      BY <2>1 DEF At
    <2>3. \/ /\ At(32, b) = At(16, b)
             /\ At(16, b) - 16 >= 0 => ((At(16, b) - 16) \div 32) % 2 # 0
          \/ At(32, b) = At(16, b) - 16 /\ (At(16, b) \div 32) % 2 # 0
      <3>1. PICK q \in 0 .. 31, e \in {0, 1}, r \in 0 .. 15 : b = 32 * q + 16 * e + r
        BY <2>1, Digits
      <3>2. CASE e = 0
        <4>1. b \div 32 = q /\ b % 32 = r /\ b \div 16 = 2 * q /\ b % 16 = r
          BY <3>1, <3>2
        <4>2. At(32, b) = 64 * q + r /\ At(16, b) = 64 * q + r
          BY <2>1, <4>1, AtOf
        <4>3. q # 0 => (64 * q + r - 16) \div 32 = 2 * q - 1 /\ (2 * q - 1) % 2 = 1
          OBVIOUS
        <4>4. q = 0 => 64 * q + r - 16 < 0
          OBVIOUS
        <4> QED
          BY <4>2, <4>3, <4>4
      <3>3. CASE e = 1
        <4>1. /\ b \div 32 = q /\ b % 32 = r + 16
              /\ b \div 16 = 2 * q + 1 /\ b % 16 = r
          BY <3>1, <3>3
        <4>2. At(32, b) = 64 * q + r + 16 /\ At(16, b) = 64 * q + r + 32
          BY <2>1, <4>1, AtOf
        <4>3. (64 * q + r + 32) \div 32 = 2 * q + 1 /\ (2 * q + 1) % 2 = 1
          OBVIOUS
        <4> QED
          BY <4>2, <4>3
      <3> QED
        BY <3>2, <3>3
    <2>4. a[b] = At(16, b) /\ c[b] = At(32, b) /\ Pow2[5 - 1] = 16
      BY Pow2Values
    <2>5. At(32, b) \in Mask(5)
      BY <2>1, <2>2, MaskFacts
    <2>6. \A e \in Bits : e >= 0
      BY WidthFacts DEF Bits
    <2>7. \/ At(32, b) = At(16, b) /\ At(16, b) - 16 \notin Mask(5)
          \/ At(32, b) = At(16, b) - 16 /\ At(16, b) \notin Mask(5)
      BY <2>3, <2>6, MaskFacts
    <2> HIDE DEF a, c
    <2> QED
      BY <2>1, <2>4, <2>5, <2>7
  <1>2. Image(a, x) = Moved(16, x) /\ Image(c, x) = Moved(32, x)
    BY DEF Moved, Image
  <1> HIDE DEF a, c
  <1>3. Gather(Image(a, x), 5) = Image(c, x)
    BY <1>1, GatherMoves DEF Falls
  <1> QED
    BY <1>2, <1>3

LEMMA MovedEnds ==
  ASSUME NEW x, x \subseteq CellBits
  PROVE  Moved(32, x) = x /\ Moved(1, x) = {2 * b : b \in x}
  <1>1. \A b \in x : At(1, b) = 2 * b /\ At(32, b) = b
    BY CellBitsFacts, AtFacts
  <1> QED
    BY <1>1 DEF Moved

\* interleave64 puts the bits of a latitude in the even places and those of a
\* longitude in the odd places.
LEMMA Interleaved ==
  ASSUME NEW x, x \subseteq CellBits, NEW y, y \subseteq CellBits
  PROVE  interleave64(x, y) = {2 * b : b \in x} \cup {2 * b + 1 : b \in y}
  <1> DEFINE spread(w) == Spread(Spread(Spread(Spread(Spread(w, 4), 3), 2), 1), 0)
  <1>1. ASSUME NEW u, u \subseteq CellBits PROVE spread(u) = {2 * b : b \in u}
    <2>1. Moved(32, u) = u /\ Moved(1, u) = {2 * b : b \in u}
      BY <1>1, MovedEnds
    <2>2. Spread(u, 4) = Moved(16, u)
      BY <1>1, <2>1, Spread4
    <2>3. Spread(Moved(16, u), 3) = Moved(8, u)
      BY <1>1, Spread3
    <2>4. Spread(Moved(8, u), 2) = Moved(4, u)
      BY <1>1, Spread2
    <2>5. Spread(Moved(4, u), 1) = Moved(2, u)
      BY <1>1, Spread1
    <2>6. Spread(Moved(2, u), 0) = Moved(1, u)
      BY <1>1, Spread0
    <2> QED
      BY <2>1, <2>2, <2>3, <2>4, <2>5, <2>6
  <1>2. interleave64(x, y) = spread(x) \cup Shl(spread(y), 1)
    BY DEF interleave64
  <1> HIDE DEF spread
  <1>3. spread(x) = {2 * b : b \in x} /\ spread(y) = {2 * b : b \in y}
    BY <1>1
  <1>4. Shl({2 * b : b \in y}, 1) = {2 * b + 1 : b \in y}
    BY CellBitsFacts DEF Shl
  <1> QED
    BY <1>2, <1>3, <1>4

\* deinterleave64 gets both back.
LEMMA Deinterleaved ==
  ASSUME NEW x, x \subseteq CellBits, NEW y, y \subseteq CellBits
  PROVE  deinterleave64(interleave64(x, y)) = [low |-> x, high |-> y]
  <1> DEFINE gather(v) ==
                Gather(Gather(Gather(Gather(Gather(v \cap Mask(0), 1), 2), 3), 4), 5)
             w == interleave64(x, y)
  <1>1. ASSUME NEW u, u \subseteq CellBits, NEW v, v \cap Mask(0) = {2 * b : b \in u}
        PROVE  gather(v) = u
    <2>1. Moved(32, u) = u /\ Moved(1, u) = {2 * b : b \in u}
      BY <1>1, MovedEnds
    <2>2. Gather(v \cap Mask(0), 1) = Moved(2, u)
      BY <1>1, <2>1, Gather1
    <2>3. Gather(Moved(2, u), 2) = Moved(4, u)
      BY <1>1, Gather2
    <2>4. Gather(Moved(4, u), 3) = Moved(8, u)
      BY <1>1, Gather3
    <2>5. Gather(Moved(8, u), 4) = Moved(16, u)
      BY <1>1, Gather4
    <2>6. Gather(Moved(16, u), 5) = Moved(32, u)
      BY <1>1, Gather5
    <2> QED
      BY <2>1, <2>2, <2>3, <2>4, <2>5, <2>6
  <1>2. deinterleave64(w) = [low |-> gather(w), high |-> gather(Shr(w, 1))]
    BY DEF deinterleave64
  <1>3. w = {2 * b : b \in x} \cup {2 * b + 1 : b \in y}
    BY Interleaved
  <1> HIDE DEF w, gather
  <1>4. ASSUME NEW b \in CellBits
        PROVE  /\ b \in Nat /\ 2 * b \in Mask(0) /\ 2 * b + 1 \notin Mask(0)
               /\ 2 * b - 1 \notin Mask(0)
    <2>1. b \in Nat /\ 2 * b \in Bits
      BY CellBitsFacts
    <2>2. ((2 * b) \div 1) % 2 = 0 /\ ((2 * b + 1) \div 1) % 2 = 1
      BY <2>1
    <2>3. ((2 * b - 1) \div 1) % 2 = 1
      BY <2>1
    <2> QED
      BY <2>1, <2>2, <2>3, MaskFacts
  <1>5. w \cap Mask(0) = {2 * b : b \in x}
    BY <1>3, <1>4
  <1>6. Shr(w, 1) \cap Mask(0) = {2 * b : b \in y}
    <2>1. \A b \in y : (2 * b + 1) - 1 = 2 * b /\ 2 * b \in Bits
      BY CellBitsFacts
    <2>2. ASSUME NEW e \in Shr(w, 1) \cap Mask(0) PROVE e \in {2 * b : b \in y}
      <3>1. PICK d \in w : e = d - 1
        BY DEF Shr
      <3>2. CASE d \in {2 * b : b \in x}
        BY <1>4, <3>1, <3>2
      <3>3. CASE d \in {2 * b + 1 : b \in y}
        BY <2>1, <3>1, <3>3
      <3> QED
        BY <1>3, <3>2, <3>3
    <2>3. ASSUME NEW b \in y PROVE 2 * b \in Shr(w, 1) \cap Mask(0)
      <3>1. 2 * b + 1 \in w
        BY <1>3
      <3> QED
        BY <1>4, <2>1, <3>1 DEF Shr
    <2> QED
      BY <2>2, <2>3
  <1>7. gather(w) = x /\ gather(Shr(w, 1)) = y
    BY <1>1, <1>5, <1>6
  <1> QED
    BY <1>2, <1>7 DEF w

-----------------------------------------------------------------------------
(* The geohash of a place.                                                 *)

LEMMA DivBound ==
  ASSUME NEW n \in Nat, NEW d \in Nat, d > 0, NEW p \in Nat
  PROVE  /\ n \div d \in Nat
         /\ n < d * p => n \div d < p
         /\ n <= d * p => n \div d <= p
  <1> DEFINE q == n \div d
  <1>1. q \in Nat /\ d * q <= n
    OBVIOUS
  <1> HIDE DEF q
  <1>2. ASSUME NEW a \in Nat, NEW b \in Nat, a > b PROVE d * a >= d * b + d
    <2>1. a - b >= 1 /\ a - b \in Nat
      BY <1>2
    <2>2. d * (a - b) >= d
      BY <2>1
    <2>3. d * (a - b) = d * a - d * b /\ d * a \in Int /\ d * b \in Int
      BY <2>1
    <2> QED
      BY <2>2, <2>3
  <1>3. d * q \in Int /\ d * p \in Int
    BY <1>1
  <1>4. n < d * p => q < p
    <2> SUFFICES ASSUME n < d * p, q >= p PROVE FALSE
      BY <1>1
    <2>1. d * q >= d * p
      BY <1>1, <1>2, <1>3
    <2> QED
      BY <1>1, <1>3, <2>1
  <1>5. n <= d * p => q <= p
    <2> SUFFICES ASSUME n <= d * p, q > p PROVE FALSE
      BY <1>1
    <2>1. d * q >= d * p + d
      BY <1>1, <1>2
    <2> QED
      BY <1>1, <1>3, <2>1
  <1> QED
    BY <1>1, <1>4, <1>5 DEF q

LEMMA CellBound ==
  ASSUME NEW max \in Nat \ {0}, NEW c \in -max .. max
  PROVE  /\ Cell(c, max) \in Nat /\ Cell(c, max) <= Pow2[Step]
         /\ c < max => Cell(c, max) < Pow2[Step]
  <1> DEFINE p == Pow2[Step]
             e == c + max
             d == 2 * max
             n == e * p
  <1>0. Step \in 0 .. 63
    BY WidthFacts
  <1>1. p \in Nat /\ p >= 1 /\ e \in Nat /\ d \in Nat /\ d > 0 /\ e <= d /\ (c < max => e < d)
    BY <1>0, Pow2Type
  <1>2. Cell(c, max) = n \div d
    BY DEF Cell
  <1> HIDE DEF p, e, d
  <1>3. n \in Nat /\ n <= d * p /\ (e < d => n < d * p)
    <2>1. n \in Nat /\ d * p \in Nat /\ (d - e) * p = d * p - n
      BY <1>1
    <2>2. d - e \in Nat /\ (d - e) * p \in Nat
      BY <1>1
    <2>3. e < d => (d - e) * p >= 1
      BY <1>1, <2>2
    <2> QED
      BY <1>1, <2>1, <2>2, <2>3
  <1> HIDE DEF n
  <1>4. n \div d \in Nat /\ n \div d <= p /\ (e < d => n \div d < p)
    BY <1>1, <1>3, DivBound
  <1> QED
    BY <1>1, <1>2, <1>4 DEF p

\* The halves of a geohash.
LEMMA HalfFacts ==
  ASSUME NEW max \in Nat \ {0}, NEW c \in -max .. max
  PROVE  /\ Word(Cell(c, max)) \subseteq CellBits /\ Value(Word(Cell(c, max))) = Cell(c, max)
         /\ c < max => Word(Cell(c, max)) \subseteq 0 .. Step - 1
  <1> DEFINE n == Cell(c, max)
             k == Step + 1
  <1>1. n \in Nat /\ n <= Pow2[Step] /\ (c < max => n < Pow2[Step])
    BY CellBound
  <1>2. /\ k \in 0 .. 63 /\ k <= Width /\ k \in 1 .. 63 /\ k - 1 = Step /\ Step \in 0 .. 63
        /\ Step <= Width /\ Step \in Nat /\ Width \in Nat
    BY WidthFacts
  <1>3. Pow2[k] = 2 * Pow2[Step] /\ Pow2[Step] \in Nat /\ Pow2[Step] >= 1
    BY <1>2, Pow2Steps, Pow2Type
  <1> HIDE DEF n
  <1>4. n < Pow2[k]
    BY <1>1, <1>3
  <1>5. Word(n) \subseteq Bits /\ (\A b \in Word(n) : b < k) /\ Value(Word(n)) = n
    BY <1>1, <1>2, <1>4, ValueOfWord
  <1>6. Word(n) \subseteq CellBits
    <2>1. \A b \in Bits : b \in Int /\ b >= 0
      BY <1>2 DEF Bits
    <2> QED
      BY <1>2, <1>5, <2>1 DEF CellBits
  <1>7. ASSUME c < max PROVE Word(n) \subseteq 0 .. Step - 1
    <2>1. \A b \in Word(n) : b < Step
      BY <1>1, <1>2, <1>7, ValueOfWord
    <2>2. \A b \in Bits : b \in Int /\ b >= 0
      BY <1>2 DEF Bits
    <2> QED
      BY <1>2, <1>5, <2>1, <2>2
  <1> QED
    BY <1>5, <1>6, <1>7 DEF n

\* Decoding the word of a place gives its cells, and the word fits in a double
\* unless the longitude is the greatest.
LEMMA EncodeFacts ==
  ASSUME NEW lon, NEW lat, Allowed(lon, lat)
  PROVE  LET v == Value(geoHashEncode(lon, lat))
         IN  /\ v \in Nat /\ geoHashDecode(v) = CellsOf(lon, lat)
             /\ lon < LonMax => v < Pow2[2 * Step + 1]
  <1> DEFINE x == Word(Cell(lat, LatMax))
             y == Word(Cell(lon, LonMax))
             w == interleave64(x, y)
             v == Value(w)
  <1>0. /\ LonMax \in Nat \ {0} /\ LatMax \in Nat \ {0}
        /\ lon \in -LonMax .. LonMax /\ lat \in -LatMax .. LatMax
    BY RangeAssumption DEF Allowed
  <1>1. /\ x \subseteq CellBits /\ Value(x) = Cell(lat, LatMax)
        /\ y \subseteq CellBits /\ Value(y) = Cell(lon, LonMax)
        /\ lon < LonMax => y \subseteq 0 .. Step - 1
    BY <1>0, HalfFacts
  <1>2. geoHashEncode(lon, lat) = w
    BY DEF geoHashEncode
  <1> HIDE DEF x, y
  <1>3. w = {2 * b : b \in x} \cup {2 * b + 1 : b \in y}
    BY <1>1, Interleaved
  <1>4. w \subseteq Bits
    BY <1>1, <1>3, CellBitsFacts
  <1>5. v \in Nat /\ Word(v) = w
    BY <1>4, WordOfValue
  <1>6. deinterleave64(w) = [low |-> x, high |-> y]
    BY <1>1, Deinterleaved
  <1>7. geoHashDecode(v) = CellsOf(lon, lat)
    <2>1. deinterleave64(Word(v)).high = y /\ deinterleave64(Word(v)).low = x
      BY <1>5, <1>6
    <2> QED
      BY <1>1, <2>1 DEF geoHashDecode, CellsOf
  <1>8. ASSUME lon < LonMax PROVE v < Pow2[2 * Step + 1]
    <2>1. /\ 2 * Step + 1 \in 0 .. 63 /\ 2 * Step + 1 <= Width /\ Step \in Nat
          /\ (2 * Step + 1) - 1 = 2 * Step
      BY WidthFacts
    <2>2. \A b \in x : 2 * b \in 0 .. 2 * Step
      BY <1>1, <2>1 DEF CellBits
    <2>3. \A b \in y : 2 * b + 1 \in 0 .. 2 * Step
      BY <1>1, <1>8, <2>1
    <2>4. w \subseteq 0 .. (2 * Step + 1) - 1
      BY <1>3, <2>1, <2>2, <2>3
    <2> HIDE DEF w
    <2> QED
      BY <2>1, <2>4, ValueBound
  <1> QED
    BY <1>2, <1>5, <1>7, <1>8

LEMMA AsDoubleFacts ==
  ASSUME NEW n \in Nat
  PROVE  AsDouble(n) \in Nat /\ (n < Pow2[2 * Step + 1] => AsDouble(n) = n)
  <1> DEFINE p == Pow2[2 * Step + 1]
  <1>1. p \in Nat
    BY WidthFacts, Pow2Type
  <1> HIDE DEF p
  <1>2. AsDouble(n) = CASE n < p \/ n % 2 = 0 -> n
                        [] n >= p /\ n % 4 = 1 -> n - 1
                        [] n >= p /\ n % 4 = 3 -> n + 1
    BY DEF AsDouble, p
  <1>3. n % 2 = 0 \/ n % 4 = 1 \/ n % 4 = 3
    OBVIOUS
  <1>4. n % 4 = 1 => n >= 1 /\ n % 2 # 0
    OBVIOUS
  <1>5. n % 4 = 3 => n % 2 # 0
    OBVIOUS
  <1>6. CASE n < p \/ n % 2 = 0
    <2>1. AsDouble(n) = n
      BY <1>1, <1>2, <1>4, <1>5, <1>6
    <2> QED
      BY <2>1 DEF p
  <1>7. CASE n >= p /\ n % 4 = 1
    <2>1. AsDouble(n) = n - 1
      BY <1>1, <1>2, <1>4, <1>5, <1>7
    <2> QED
      BY <1>1, <1>4, <1>7, <2>1 DEF p
  <1>8. CASE n >= p /\ n % 4 = 3
    <2>1. AsDouble(n) = n + 1
      BY <1>1, <1>2, <1>4, <1>5, <1>8
    <2> QED
      BY <1>1, <1>8, <2>1 DEF p
  <1> QED
    BY <1>1, <1>3, <1>6, <1>7, <1>8

\* A place survives its score: the score is a number, and decoded it is the
\* cell of the place unless the longitude is the greatest.
LEMMA ScoreRoundTrip ==
  ASSUME NEW lon, NEW lat, Allowed(lon, lat)
  PROVE  /\ GeoScore(lon, lat) \in Nat
         /\ lon < LonMax => geoHashDecode(GeoScore(lon, lat)) = CellsOf(lon, lat)
  BY EncodeFacts, AsDoubleFacts DEF GeoScore

-----------------------------------------------------------------------------
(* The ordered set.                                                        *)

LEMMA OneToOne ==
  ASSUME NEW S, NEW T, IsFiniteSet(T), NEW f \in [S -> T],
         \A a, b \in S : f[a] = f[b] => a = b
  PROVE  /\ IsFiniteSet(S) /\ Cardinality(S) <= Cardinality(T)
         /\ Cardinality(S) = Cardinality(T) => \A t \in T : \E s \in S : f[s] = t
         /\ (\A t \in T : \E s \in S : f[s] = t) => Cardinality(S) = Cardinality(T)
  <1>1. f \in Injection(S, T)
    BY DEF Injection, IsInjective
  <1>2. /\ IsFiniteSet(S) /\ Cardinality(S) <= Cardinality(T)
        /\ Cardinality(S) = Cardinality(T) <=> f \in Surjection(S, T)
    BY <1>1, FS_Injection
  <1>3. f \in Surjection(S, T) <=> \A t \in T : \E s \in S : f[s] = t
    BY DEF Surjection
  <1> QED
    BY <1>2, <1>3

\* The entries of a sorted set with numbers as scores.
Entries(P) == IsFiniteSet(P) /\ P \subseteq Nat \X Nat

LEMMA BeforeFacts ==
  ASSUME NEW p \in Nat \X Nat, NEW q \in Nat \X Nat
  PROVE  /\ ~Before(p, p)
         /\ p = q \/ Before(p, q) \/ Before(q, p)
         /\ ~(Before(p, q) /\ Before(q, p))
         /\ Before(p, q) => p[1] <= q[1]
         /\ \A r \in Nat \X Nat : Before(p, q) /\ Before(q, r) => Before(p, r)
  <1>1. p[1] \in Nat /\ p[2] \in Nat /\ q[1] \in Nat /\ q[2] \in Nat
    OBVIOUS
  <1>2. p[1] = q[1] /\ p[2] = q[2] => p = q
    OBVIOUS
  <1>3. \A r \in Nat \X Nat : r[1] \in Nat /\ r[2] \in Nat
    OBVIOUS
  <1> QED
    BY <1>1, <1>2, <1>3 DEF Before

Below(P, p) == {q \in P : Before(q, p)}

LEMMA BelowFacts ==
  ASSUME NEW P, Entries(P), NEW p \in P
  PROVE  /\ IsFiniteSet(Below(P, p)) /\ Cardinality(Below(P, p)) \in 0 .. Cardinality(P) - 1
         /\ \A q \in P : Before(p, q) => Cardinality(Below(P, p)) < Cardinality(Below(P, q))
  <1>0. IsFiniteSet(P) /\ (\A q \in P : q \in Nat \X Nat) /\ Cardinality(P) \in Nat
    BY FS_CardinalityType DEF Entries
  <1>1. ASSUME NEW q \in P
        PROVE  /\ IsFiniteSet(Below(P, q)) /\ Cardinality(Below(P, q)) \in Nat
               /\ q \notin Below(P, q)
               /\ IsFiniteSet(Below(P, q) \cup {q})
               /\ Cardinality(Below(P, q) \cup {q}) = Cardinality(Below(P, q)) + 1
    <2>1. Below(P, q) \in SUBSET P
      BY DEF Below
    <2>2. IsFiniteSet(Below(P, q)) /\ Cardinality(Below(P, q)) \in Nat
      BY <1>0, <2>1, FS_Subset, FS_CardinalityType
    <2>3. q \notin Below(P, q)
      BY <1>0, BeforeFacts DEF Below
    <2> QED
      BY <2>2, <2>3, FS_AddElement
  <1>2. Cardinality(Below(P, p)) + 1 <= Cardinality(P)
    <2>1. Below(P, p) \cup {p} \in SUBSET P
      BY DEF Below
    <2>2. Cardinality(Below(P, p) \cup {p}) <= Cardinality(P)
      BY <1>0, <2>1, FS_Subset
    <2>3. Cardinality(Below(P, p) \cup {p}) = Cardinality(Below(P, p)) + 1
      BY <1>1
    <2> QED
      BY <2>2, <2>3
  <1>3. ASSUME NEW q \in P, Before(p, q)
        PROVE  Cardinality(Below(P, p)) < Cardinality(Below(P, q))
    <2>1. Below(P, p) \cup {p} \in SUBSET Below(P, q)
      BY <1>0, <1>3, BeforeFacts DEF Below
    <2>2. Cardinality(Below(P, p) \cup {p}) <= Cardinality(Below(P, q))
      BY <1>1, <2>1, FS_Subset
    <2>3. /\ Cardinality(Below(P, p)) \in Nat /\ Cardinality(Below(P, q)) \in Nat
          /\ Cardinality(Below(P, p) \cup {p}) = Cardinality(Below(P, p)) + 1
      BY <1>1
    <2> QED
      BY <2>2, <2>3
  <1>4. IsFiniteSet(Below(P, p)) /\ Cardinality(Below(P, p)) \in Nat
    BY <1>1
  <1>5. Cardinality(Below(P, p)) \in 0 .. Cardinality(P) - 1
    BY <1>0, <1>2, <1>4
  <1> QED
    BY <1>3, <1>4, <1>5

Ordered(seq) == \A i, j \in DOMAIN seq : i < j => Before(seq[i], seq[j])

\* There is an order to iterate in: by the number of entries before each.
LEMMA InOrderExists ==
  ASSUME NEW P, Entries(P)
  PROVE  \E seq \in [1 .. Cardinality(P) -> P] : Ordered(seq)
  <1> DEFINE n == Cardinality(P)
             r == [p \in P |-> Cardinality(Below(P, p)) + 1]
             seq == [k \in 1 .. n |-> CHOOSE p \in P : r[p] = k]
  <1>0. n \in Nat /\ (\A p \in P : p \in Nat \X Nat) /\ IsFiniteSet(P)
    BY FS_CardinalityType DEF Entries
  <1> HIDE DEF n
  <1>1. r \in [P -> 1 .. n]
    BY <1>0, BelowFacts DEF n
  <1>2. ASSUME NEW p \in P, NEW q \in P, Before(p, q) PROVE r[p] < r[q]
    <2>1. /\ Cardinality(Below(P, p)) \in Int /\ Cardinality(Below(P, q)) \in Int
          /\ Cardinality(Below(P, p)) < Cardinality(Below(P, q))
      BY <1>2, BelowFacts, <1>0 DEF n
    <2> QED
      BY <2>1
  <1> HIDE DEF r
  <1>3. \A p, q \in P : r[p] = r[q] => p = q
    <2> SUFFICES ASSUME NEW p \in P, NEW q \in P, r[p] = r[q], p # q PROVE FALSE
      OBVIOUS
    <2>1. r[p] \in Int /\ r[q] \in Int
      BY <1>1
    <2> QED
      BY <1>0, <1>2, <2>1, BeforeFacts
  <1>4. IsFiniteSet(1 .. n) /\ Cardinality(1 .. n) = n
    BY <1>0, FS_Interval
  <1>5. \A k \in 1 .. n : \E p \in P : r[p] = k
    <2>1. Cardinality(P) = Cardinality(1 .. n)
      BY <1>4 DEF n
    <2> DEFINE T == 1 .. n
    <2>2. r \in [P -> T] /\ IsFiniteSet(T) /\ Cardinality(P) = Cardinality(T)
      BY <1>1, <1>4, <2>1
    <2> HIDE DEF T
    <2>3. \A k \in T : \E p \in P : r[p] = k
      BY <1>3, <2>2, OneToOne
    <2> QED
      BY <2>3 DEF T
  <1>6. \A k \in 1 .. n : seq[k] \in P /\ r[seq[k]] = k
    BY <1>5
  <1>7. seq \in [1 .. n -> P] /\ DOMAIN seq = 1 .. n
    BY <1>6
  <1> HIDE DEF seq
  <1>8. ASSUME NEW i \in 1 .. n, NEW j \in 1 .. n, i < j PROVE Before(seq[i], seq[j])
    <2>1. seq[i] \in P /\ seq[j] \in P /\ r[seq[i]] = i /\ r[seq[j]] = j
      BY <1>6
    <2>2. seq[i] # seq[j] /\ ~Before(seq[j], seq[i])
      BY <1>0, <1>2, <1>8, <2>1
    <2> QED
      BY <1>0, <2>1, <2>2, BeforeFacts
  <1>9. Ordered(seq)
    BY <1>7, <1>8 DEF Ordered
  <1> QED
    BY <1>7, <1>9 DEF n

\* Iterating meets every entry once, in order, each after as many others as
\* there are before it.
LEMMA InOrderFacts ==
  ASSUME NEW P, Entries(P)
  PROVE  LET seq == InOrder(P)
             n   == Cardinality(P)
         IN  /\ seq \in [1 .. n -> P]
             /\ \A i, j \in 1 .. n : i < j => Before(seq[i], seq[j])
             /\ \A p \in P : \E k \in 1 .. n : seq[k] = p
             /\ \A k \in 1 .. n : Cardinality(Below(P, seq[k])) = k - 1
  <1> DEFINE n == Cardinality(P)
             seq == InOrder(P)
  <1>0. n \in Nat /\ (\A p \in P : p \in Nat \X Nat) /\ IsFiniteSet(P)
    BY FS_CardinalityType DEF Entries
  <1>1. seq \in [1 .. n -> P] /\ Ordered(seq)
    <2>1. seq = CHOOSE s \in [1 .. n -> P] : Ordered(s)
      BY DEF InOrder, Ordered
    <2> QED
      BY <2>1, InOrderExists
  <1> HIDE DEF n, seq
  <1>2. \A i, j \in 1 .. n : i < j => Before(seq[i], seq[j])
    BY <1>1 DEF Ordered
  <1>3. \A i, j \in 1 .. n : seq[i] = seq[j] => i = j
    <2> SUFFICES ASSUME NEW i \in 1 .. n, NEW j \in 1 .. n, seq[i] = seq[j], i # j PROVE FALSE
      OBVIOUS
    <2>1. seq[i] \in Nat \X Nat /\ (i < j \/ j < i)
      BY <1>0, <1>1
    <2> QED
      BY <1>2, <2>1, BeforeFacts
  <1>4. IsFiniteSet(1 .. n) /\ Cardinality(1 .. n) = n
    BY <1>0, FS_Interval
  <1>5. \A p \in P : \E k \in 1 .. n : seq[k] = p
    <2>1. Cardinality(1 .. n) = Cardinality(P)
      BY <1>4 DEF n
    <2> QED
      BY <1>0, <1>1, <1>3, <2>1, OneToOne
  <1>6. ASSUME NEW k \in 1 .. n PROVE Cardinality(Below(P, seq[k])) = k - 1
    <2> DEFINE S == 1 .. k - 1
               T == Below(P, seq[k])
               f == [i \in S |-> seq[i]]
    <2>1. k \in Nat /\ \A i \in S : i \in 1 .. n /\ i < k
      BY <1>0
    <2>2. IsFiniteSet(T)
      BY <1>1, BelowFacts
    <2>3. IsFiniteSet(S) /\ Cardinality(S) = k - 1
      BY <1>0, FS_Interval
    <2>4. \A i \in S : seq[i] \in T
      BY <1>1, <1>2, <2>1 DEF Below
    <2>5. \A t \in T : \E i \in S : seq[i] = t
      <3> SUFFICES ASSUME NEW t \in T PROVE \E i \in S : seq[i] = t
        OBVIOUS
      <3>1. t \in P /\ Before(t, seq[k])
        BY DEF Below
      <3>2. PICK i \in 1 .. n : seq[i] = t
        BY <1>5, <3>1
      <3>3. seq[k] \in Nat \X Nat /\ t \in Nat \X Nat
        BY <1>0, <1>1, <3>1
      <3>4. i # k /\ ~(k < i)
        BY <1>2, <3>1, <3>2, <3>3, BeforeFacts
      <3>5. i \in S
        BY <1>0, <3>4
      <3> QED
        BY <3>2, <3>5
    <2> HIDE DEF S, T
    <2>6. f \in [S -> T] /\ (\A i \in S : f[i] = seq[i])
      BY <2>4
    <2>7. \A a, b \in S : f[a] = f[b] => a = b
      BY <1>3, <2>1, <2>6
    <2>8. \A t \in T : \E i \in S : f[i] = t
      BY <2>5, <2>6
    <2> HIDE DEF f
    <2>9. Cardinality(S) = Cardinality(T)
      BY <2>2, <2>6, <2>7, <2>8, OneToOne
    <2> QED
      BY <2>3, <2>9 DEF T
  <1> QED
    BY <1>1, <1>2, <1>5, <1>6 DEF n, seq

\* Members and scores are what clients give.
Scored(z) ==
  /\ DOMAIN z.hashMap \subseteq Members \cup {0}
  /\ \A m \in DOMAIN z.hashMap : z.hashMap[m] \in Nat

\* Looked at by score, a sorted set has as many entries as by member.
LEMMA SetsFacts ==
  ASSUME NEW z, Sound(z), Scored(z)
  PROVE  /\ Entries(z.sets) /\ Cardinality(z.sets) \in Nat /\ z.length = Cardinality(z.sets)
         /\ \A m \in DOMAIN z.hashMap : <<z.hashMap[m], m>> \in z.sets /\ m \in Nat
         /\ \A p \in z.sets : p[2] \in DOMAIN z.hashMap /\ p = <<z.hashMap[p[2]], p[2]>>
  <1> DEFINE h == z.hashMap
             D == DOMAIN h
             f == [m \in D |-> <<h[m], m>>]
  <1>1. /\ IsFiniteSet(D) /\ z.sets = {<<h[m], m>> : m \in D} /\ z.length = Cardinality(D)
        /\ D \subseteq Members \cup {0} /\ \A m \in D : h[m] \in Nat
    BY DEF Sound, Scored
  <1> HIDE DEF h
  <1>a. D \subseteq Members \cup {0}
    BY <1>1
  <1>2. \A m \in D : m \in Nat
    <2> HIDE DEF D
    <2> QED
      BY <1>a, MembersAssumption
  <1>3. /\ \A m \in D : <<h[m], m>> \in z.sets
        /\ \A p \in z.sets : p[2] \in D /\ p = <<h[p[2]], p[2]>>
    BY <1>1
  <1>4. f \in Surjection(D, z.sets)
    BY <1>1 DEF Surjection
  <1>5. f \in Injection(D, z.sets)
    BY <1>1 DEF Injection, IsInjective
  <1>6. IsFiniteSet(z.sets) /\ Cardinality(z.sets) = Cardinality(D)
    BY <1>1, <1>4, <1>5, FS_Surjection
  <1>7. z.sets \subseteq Nat \X Nat
    BY <1>1, <1>2
  <1>8. Cardinality(z.sets) \in Nat
    BY <1>6, FS_CardinalityType
  <1> QED
    BY <1>1, <1>2, <1>3, <1>6, <1>7, <1>8 DEF Entries, h

LEMMA MaxMin ==
  ASSUME NEW x \in Int, NEW y \in Int
  PROVE  /\ Max({x, y}) = IF x < y THEN y ELSE x
         /\ Min({x, y}) = IF x < y THEN x ELSE y
  BY DEF Max, Min

\* The members in order.
InOrderMembers(z) == [k \in 1 .. Cardinality(z.sets) |-> InOrder(z.sets)[k][2]]

Absolute(n, i) == IF i < 0 THEN n + i ELSE i

LEMMA InOrderMembersFacts ==
  ASSUME NEW z, Sound(z), Scored(z)
  PROVE  LET all == InOrderMembers(z)
             n   == Cardinality(z.sets)
         IN  /\ n \in Nat /\ all \in Seq(DOMAIN z.hashMap) /\ Len(all) = n
             /\ \A k \in 1 .. n :
                   /\ all[k] \in DOMAIN z.hashMap /\ all[k] = InOrder(z.sets)[k][2]
                   /\ InOrder(z.sets)[k] = <<z.hashMap[all[k]], all[k]>>
  <1> DEFINE n   == Cardinality(z.sets)
             seq == InOrder(z.sets)
             all == InOrderMembers(z)
             D   == DOMAIN z.hashMap
  <1>1. /\ n \in Nat /\ Entries(z.sets)
        /\ \A p \in z.sets : p[2] \in D /\ p = <<z.hashMap[p[2]], p[2]>>
    BY SetsFacts
  <1>2. seq \in [1 .. n -> z.sets]
    BY <1>1, InOrderFacts
  <1>3. all = [k \in 1 .. n |-> seq[k][2]]
    BY DEF InOrderMembers
  <1> HIDE DEF n, seq, all, D
  <1>4. \A k \in 1 .. n : all[k] \in D /\ all[k] = seq[k][2] /\ seq[k] = <<z.hashMap[all[k]], all[k]>>
    BY <1>1, <1>2, <1>3
  <1>5. all \in Seq(D) /\ Len(all) = n
    BY <1>1, <1>3, <1>4
  <1> QED
    BY <1>1, <1>4, <1>5 DEF n, seq, all, D

\* From index i to index j; negative ones count from the end.
Piece(all, n, i, j) ==
  SubSeq(all, Max({0, Absolute(n, i)}) + 1, Min({n, Absolute(n, j) + 1}))

\* Any range is a piece of the whole.
LEMMA RangeFacts ==
  ASSUME NEW z, Sound(z), Scored(z), NEW i \in Int, NEW j \in Int,
         NEW n, n = Cardinality(z.sets)
  PROVE  range(z, i, j) = Piece(InOrderMembers(z), n, i, j)
  <1> DEFINE seq  == InOrder(z.sets)
             all  == InOrderMembers(z)
             D    == DOMAIN z.hashMap
             from == Max({0, Absolute(n, i)})
             to   == Min({n - 1, Absolute(n, j)})
             end  == Min({n, Absolute(n, j) + 1})
  <1>1. /\ n \in Nat /\ all \in Seq(D) /\ Len(all) = n
        /\ \A k \in 1 .. n : all[k] \in D /\ all[k] = seq[k][2]
    BY InOrderMembersFacts
  <1>2. range(z, i, j) = IF n = 0 \/ from > to THEN <<>>
                         ELSE [k \in 1 .. to - from + 1 |-> seq[from + k][2]]
    BY DEF range, Absolute
  <1> HIDE DEF seq, all, D
  <1>3. Absolute(n, i) \in Int /\ Absolute(n, j) \in Int
    BY <1>1 DEF Absolute
  <1>4. /\ from \in Int /\ to \in Int /\ end \in Int /\ from >= 0 /\ to <= n - 1 /\ end = to + 1
    <2> DEFINE a == Absolute(n, i)
               b == Absolute(n, j)
    <2> HIDE DEF a, b
    <2>1. from = IF 0 < a THEN a ELSE 0
      BY <1>3, MaxMin DEF a
    <2>4. a \in Int /\ b \in Int /\ n - 1 \in Int /\ n \in Int /\ b + 1 \in Int
      BY <1>1, <1>3 DEF a, b
    <2>5. to = Min({n - 1, b}) /\ end = Min({n, b + 1})
      BY DEF b
    <2>2. to = IF n - 1 < b THEN n - 1 ELSE b
      BY <2>4, <2>5, MaxMin
    <2>3. end = IF n < b + 1 THEN n ELSE b + 1
      BY <2>4, <2>5, MaxMin
    <2> HIDE DEF from, to, end
    <2> QED
      BY <1>1, <2>1, <2>2, <2>3, <2>4
  <1> HIDE DEF from, to, end
  <1>5. CASE n = 0 \/ from > to
    <2>1. range(z, i, j) = <<>>
      BY <1>2, <1>5
    <2>2. end < from + 1
      BY <1>1, <1>4, <1>5
    <2>3. SubSeq(all, from + 1, end) = <<>>
      BY <1>4, <2>2, SubSeqEmpty
    <2> QED
      BY <2>1, <2>3 DEF all, from, end, Piece
  <1>6. CASE ~(n = 0 \/ from > to)
    <2>1. range(z, i, j) = [k \in 1 .. to - from + 1 |-> seq[from + k][2]]
      BY <1>2, <1>6
    <2>2. SubSeq(all, from + 1, end) = [k \in 1 .. end - (from + 1) + 1 |-> all[k + (from + 1) - 1]]
      BY <1>1, <1>4
    <2>3. end - (from + 1) + 1 = to - from + 1
      BY <1>4
    <2>4. ASSUME NEW k \in 1 .. to - from + 1
          PROVE  all[k + (from + 1) - 1] = seq[from + k][2]
      <3>1. from + k \in 1 .. n /\ k + (from + 1) - 1 = from + k
        BY <1>1, <1>4
      <3> QED
        BY <1>1, <3>1
    <2>5. range(z, i, j) = SubSeq(all, from + 1, end)
      BY <2>1, <2>2, <2>3, <2>4
    <2> QED
      BY <2>5 DEF all, from, end, Piece
  <1> QED
    BY <1>5, <1>6

\* All members.
LEMMA WholeRange ==
  ASSUME NEW z, Sound(z), Scored(z)
  PROVE  range(z, 0, -1) = InOrderMembers(z)
  <1> DEFINE n   == Cardinality(z.sets)
             all == InOrderMembers(z)
  <1>1. n \in Nat /\ all \in Seq(DOMAIN z.hashMap) /\ Len(all) = n
    BY InOrderMembersFacts
  <1>2. range(z, 0, -1) = Piece(all, n, 0, -1)
    BY RangeFacts
  <1> HIDE DEF n, all
  <1>3. Absolute(n, 0) = 0 /\ Absolute(n, -1) = n - 1
    BY <1>1 DEF Absolute
  <1>4. Max({0, 0}) = 0 /\ Min({n, (n - 1) + 1}) = n
    <2>1. (n - 1) + 1 = n /\ n \in Int
      BY <1>1
    <2> QED
      BY <2>1, MaxMin
  <1>5. range(z, 0, -1) = SubSeq(all, 0 + 1, n)
    BY <1>2, <1>3, <1>4 DEF Piece
  <1>6. SubSeq(all, 1, Len(all)) = all
    BY <1>1, SubSeqFull
  <1> QED
    BY <1>1, <1>5, <1>6 DEF all

\* ZRANK is the place in the order.
LEMMA RankFacts ==
  ASSUME NEW z, Sound(z), Scored(z), NEW k \in 1 .. Cardinality(z.sets)
  PROVE  rank(z, InOrderMembers(z)[k]) = k - 1
  <1> DEFINE n   == Cardinality(z.sets)
             seq == InOrder(z.sets)
             m   == InOrderMembers(z)[k]
  <1>1. m \in DOMAIN z.hashMap /\ seq[k] = <<z.hashMap[m], m>>
    BY InOrderMembersFacts
  <1>2. Entries(z.sets) /\ <<z.hashMap[m], m>> \in z.sets
    BY <1>1, SetsFacts
  <1>3. Cardinality(Below(z.sets, seq[k])) = k - 1
    BY <1>2, InOrderFacts
  <1> HIDE DEF m, seq
  <1>4. rank(z, m) = Cardinality({p \in z.sets : Before(p, <<z.hashMap[m], m>>)})
    BY <1>1, <1>2 DEF rank
  <1>5. rank(z, m) = Cardinality(Below(z.sets, seq[k]))
    BY <1>1, <1>4 DEF Below
  <1> QED
    BY <1>3, <1>5 DEF m

\* What ReadsAgree asks of one sorted set.
ReadsFit(z, all, n) ==
  /\ handle_zcard(z) = <<n>>
  /\ {all[k] : k \in 1 .. n} = {m \in Members \cup {0} : handle_zscore(z, m) # Null}
  /\ \A k \in 1 .. n : /\ handle_zrank(z, all[k]) = <<k - 1>>
                       /\ handle_zrange(z, k - 1, k - 1) = <<all[k]>>
                       /\ k > 1 => z.hashMap[all[k - 1]] <= z.hashMap[all[k]]
  /\ \A i, j \in -(n + 1) .. n + 1 :
        handle_zrange(z, i, j)
          = SubSeq(all, Max({0, IF i < 0 THEN n + i ELSE i}) + 1,
                   Min({n, (IF j < 0 THEN n + j ELSE j) + 1}))

LEMMA ReadsOfSet ==
  ASSUME NEW z, Sound(z), Scored(z)
  PROVE  ReadsFit(z, handle_zrange(z, 0, -1), Len(handle_zrange(z, 0, -1)))
  <1> DEFINE all == InOrderMembers(z)
             seq == InOrder(z.sets)
             n   == Cardinality(z.sets)
             D   == DOMAIN z.hashMap
  <1>0. z # NoObject /\ IsZset(z)
    BY OpenedFacts, Types
  <1>1. /\ n \in Nat /\ all \in Seq(D) /\ Len(all) = n
        /\ \A k \in 1 .. n : all[k] \in D /\ seq[k] = <<z.hashMap[all[k]], all[k]>>
    BY InOrderMembersFacts
  <1>2. \A missing, found : Reply(z, missing, found) = found
    BY <1>0 DEF Reply
  <1>3. \A i, j : handle_zrange(z, i, j) = range(z, i, j)
    BY <1>2 DEF handle_zrange
  <1>4. handle_zrange(z, 0, -1) = all
    BY <1>3, WholeRange
  <1>5. /\ Entries(z.sets) /\ z.length = n /\ \A m \in D : <<z.hashMap[m], m>> \in z.sets
    BY SetsFacts
  <1>6. /\ \A a, b \in 1 .. n : a < b => Before(seq[a], seq[b])
        /\ \A p \in z.sets : \E k \in 1 .. n : seq[k] = p
        /\ seq \in [1 .. n -> z.sets]
    BY <1>5, InOrderFacts
  <1>7. ASSUME NEW i \in Int, NEW j \in Int
        PROVE  handle_zrange(z, i, j) = Piece(all, n, i, j)
    BY <1>3, RangeFacts
  <1>8. ASSUME NEW k \in 1 .. n
        PROVE  rank(z, all[k]) = k - 1
    BY RankFacts
  <1> HIDE DEF all, seq, n
  <1>9. handle_zcard(z) = <<n>>
    BY <1>2, <1>5 DEF handle_zcard
  <1>10. {all[k] : k \in 1 .. n} = {m \in Members \cup {0} : handle_zscore(z, m) # Null}
    <2>1. \A m : handle_zscore(z, m) # Null <=> m \in D
      <3>1. \A m : handle_zscore(z, m) = IF m \notin D THEN Null
                     ELSE IF z.isGeo THEN <<3 * (z.hashMap[m] \div 3)>> ELSE <<z.hashMap[m]>>
        BY <1>2 DEF handle_zscore
      <3>2. \A x : <<x>> # Null
        BY DEF Null
      <3> QED
        BY <3>1, <3>2
    <2>2. D \subseteq Members \cup {0}
      BY DEF Scored
    <2>3. ASSUME NEW m \in D PROVE \E k \in 1 .. n : all[k] = m
      <3>1. PICK k \in 1 .. n : seq[k] = <<z.hashMap[m], m>>
        BY <1>5, <1>6
      <3>2. seq[k] = <<z.hashMap[all[k]], all[k]>>
        BY <1>1
      <3> QED
        BY <3>1, <3>2
    <2> QED
      BY <1>1, <2>1, <2>2, <2>3
  <1>11. ASSUME NEW k \in 1 .. n
         PROVE  /\ handle_zrank(z, all[k]) = <<k - 1>>
                /\ handle_zrange(z, k - 1, k - 1) = <<all[k]>>
                /\ k > 1 => z.hashMap[all[k - 1]] <= z.hashMap[all[k]]
    <2>0. k \in Nat /\ k >= 1 /\ k <= n
      BY <1>1
    <2>1. handle_zrank(z, all[k]) = <<k - 1>>
      <3>1. rank(z, all[k]) = k - 1 /\ k - 1 # -1
        BY <1>8, <2>0
      <3> QED
        BY <1>2, <3>1 DEF handle_zrank
    <2>2. handle_zrange(z, k - 1, k - 1) = <<all[k]>>
      <3>1. k - 1 \in Int /\ Absolute(n, k - 1) = k - 1
        BY <2>0 DEF Absolute
      <3>2. Max({0, k - 1}) = k - 1 /\ Min({n, (k - 1) + 1}) = k
        <4>1. (k - 1) + 1 = k
          BY <2>0
        <4>2. Max({0, k - 1}) = k - 1
          BY <2>0, MaxMin
        <4>3. Min({n, k}) = k
          <5>1. n \in Int /\ k \in Int /\ ~(n < k)
            BY <1>1, <2>0
          <5> QED
            BY <5>1, MaxMin
        <4> QED
          BY <4>1, <4>2, <4>3
      <3>3. handle_zrange(z, k - 1, k - 1) = SubSeq(all, (k - 1) + 1, k)
        BY <1>7, <3>1, <3>2 DEF Piece
      <3>4. (k - 1) + 1 = k
        BY <2>0
      <3>5. SubSeq(all, k, k) = <<all[k]>>
        <4>1. SubSeq(all, k, k) = [i \in 1 .. (k - k + 1) |-> all[i + k - 1]]
          BY <1>1, <2>0
        <4>2. k - k + 1 = 1 /\ 1 + k - 1 = k
          BY <2>0
        <4> DEFINE x == all[k]
        <4>3. SubSeq(all, k, k) = [i \in 1 .. 1 |-> x]
          BY <4>1, <4>2
        <4> HIDE DEF x
        <4>4. <<x>> = [i \in 1 .. 1 |-> x]
          OBVIOUS
        <4> QED
          BY <4>3, <4>4 DEF x
      <3> QED
        BY <3>3, <3>4, <3>5
    <2>3. ASSUME k > 1 PROVE z.hashMap[all[k - 1]] <= z.hashMap[all[k]]
      <3>1. k - 1 \in 1 .. n /\ k - 1 < k
        BY <1>1, <2>0, <2>3
      <3>2. Before(seq[k - 1], seq[k])
        BY <1>6, <3>1
      <3>3. seq[k - 1] \in Nat \X Nat /\ seq[k] \in Nat \X Nat
        BY <1>5, <1>6, <3>1 DEF Entries
      <3>4. seq[k - 1][1] <= seq[k][1]
        BY <3>2, <3>3, BeforeFacts
      <3>5. seq[k - 1][1] = z.hashMap[all[k - 1]] /\ seq[k][1] = z.hashMap[all[k]]
        BY <1>1, <3>1
      <3> QED
        BY <3>4, <3>5
    <2> QED
      BY <2>1, <2>2, <2>3
  <1>12. \A i, j \in -(n + 1) .. n + 1 :
            handle_zrange(z, i, j)
              = SubSeq(all, Max({0, IF i < 0 THEN n + i ELSE i}) + 1,
                       Min({n, (IF j < 0 THEN n + j ELSE j) + 1}))
    <2> SUFFICES ASSUME NEW i \in -(n + 1) .. n + 1, NEW j \in -(n + 1) .. n + 1
                 PROVE  handle_zrange(z, i, j)
                          = SubSeq(all, Max({0, IF i < 0 THEN n + i ELSE i}) + 1,
                                   Min({n, (IF j < 0 THEN n + j ELSE j) + 1}))
      OBVIOUS
    <2>1. i \in Int /\ j \in Int
      BY <1>1
    <2>2. handle_zrange(z, i, j) = Piece(all, n, i, j)
      BY <1>7, <2>1
    <2> QED
      BY <2>2, Zenon DEF Absolute, Piece
  <1>13. ReadsFit(z, all, n)
    BY <1>9, <1>10, <1>11, <1>12 DEF ReadsFit
  <1> QED
    BY <1>1, <1>4, <1>13

-----------------------------------------------------------------------------
(* Scores and places.                                                      *)

\* The hash map has the score of every place that GEOADD was given.
Positioned(z, at) ==
  \A m \in DOMAIN at :
     /\ m \in DOMAIN z.hashMap
     /\ Allowed(at[m][1], at[m][2])
     /\ z.hashMap[m] = 3 * GeoScore(at[m][1], at[m][2])

PlacesKept ==
  IF IsZset(store["master"]) THEN Positioned(store["master"], placed) ELSE DOMAIN placed = {}

ScoresKept == \A s \in Servers : IsZset(store[s]) => Scored(store[s])

PInv == ScoresKept /\ PlacesKept

\* r has the entries of z that S does not name.
Keeps(z, r, S) ==
  \A x \in DOMAIN z.hashMap : x \notin S => x \in DOMAIN r.hashMap /\ r.hashMap[x] = z.hashMap[x]

LEMMA InsertScored ==
  ASSUME NEW z, Sound(z), Scored(z), NEW m \in Members \cup {0}, NEW s \in Nat
  PROVE  Scored(insert(z, m, s))
  <1> DEFINE r == insert(z, m, s)
  <1>1. /\ DOMAIN r.hashMap = DOMAIN z.hashMap \cup {m} /\ r.hashMap[m] = s
        /\ \A x \in DOMAIN z.hashMap : x # m => r.hashMap[x] = z.hashMap[x]
    BY InsertSound
  <1> HIDE DEF r
  <1>2. Scored(r)
    BY <1>1 DEF Scored
  <1> QED
    BY <1>2 DEF r

LEMMA RemoveScored ==
  ASSUME NEW z, Sound(z), Scored(z), NEW m
  PROVE  Scored(remove(z, m))
  <1> DEFINE r == remove(z, m)
  <1>1. /\ DOMAIN r.hashMap = DOMAIN z.hashMap \ {m}
        /\ \A x \in DOMAIN z.hashMap \ {m} : r.hashMap[x] = z.hashMap[x]
    BY RemoveSound
  <1> HIDE DEF r
  <1>2. Scored(r)
    BY <1>1 DEF Scored
  <1> QED
    BY <1>2 DEF r

LEMMA InsertAllKeeps ==
  ASSUME NEW o, Sound(o), Scored(o), NEW pairs, Len(pairs) \in Nat,
         \A k \in 1 .. Len(pairs) : pairs[k][1] \in Nat /\ pairs[k][2] \in Members \cup {0}
  PROVE  /\ Scored(InsertAll(o, pairs))
         /\ Keeps(o, InsertAll(o, pairs), {pairs[k][2] : k \in 1 .. Len(pairs)})
  <1> DEFINE N == Len(pairs)
             M == {pairs[k][2] : k \in 1 .. N}
  <1>1. PICK f : Inserts(o, pairs, f) /\ InsertAll(o, pairs) = f[N]
    BY InsertAllSteps
  <1>2. /\ N \in Nat /\ f[0] = o
        /\ \A k \in 1 .. N : f[k] = insert(f[k - 1], pairs[k][2], pairs[k][1])
    BY <1>1 DEF Inserts
  <1>a. \A k \in 1 .. N : pairs[k][2] \in M /\ pairs[k][1] \in Nat /\ pairs[k][2] \in Members \cup {0}
    OBVIOUS
  <1> DEFINE S == {k \in 0 .. N : Sound(f[k]) /\ Scored(f[k]) /\ Keeps(o, f[k], M)}
  <1> HIDE DEF N, M
  <1>3. 0 \in S
    BY <1>2 DEF Keeps
  <1>4. \A k \in 0 .. N - 1 : k \in S => k + 1 \in S
    <2> SUFFICES ASSUME NEW k \in 0 .. N - 1, k \in S
                 PROVE  k + 1 \in S
      OBVIOUS
    <2>n. N \in Nat
      BY <1>2
    <2>1. k + 1 \in 1 .. N /\ k + 1 \in 0 .. N /\ (k + 1) - 1 = k
      BY <2>n
    <2> DEFINE m == pairs[k + 1][2]
               s == pairs[k + 1][1]
               z == f[k]
    <2>2. f[k + 1] = insert(z, m, s) /\ m \in M /\ s \in Nat /\ m \in Members \cup {0}
      BY <1>2, <1>a, <2>1
    <2>z. Sound(z) /\ Scored(z) /\ Keeps(o, z, M)
      OBVIOUS
    <2> HIDE DEF m, s, z
    <2>a. Scored(insert(z, m, s))
      BY <2>2, <2>z, InsertScored
    <2>3. /\ Sound(insert(z, m, s)) /\ Scored(insert(z, m, s))
          /\ DOMAIN insert(z, m, s).hashMap = DOMAIN z.hashMap \cup {m}
          /\ \A x \in DOMAIN z.hashMap : x # m => insert(z, m, s).hashMap[x] = z.hashMap[x]
      BY <2>z, <2>a, InsertSound
    <2>4. Keeps(o, insert(z, m, s), M)
      BY <2>2, <2>3, <2>z DEF Keeps
    <2> QED
      BY <2>1, <2>2, <2>3, <2>4
  <1>5. N \in S
    <2> HIDE DEF S
    <2>1. 0 .. N \subseteq S
      BY <1>2, <1>3, <1>4, BoundedInduction
    <2> QED
      BY <1>2, <2>1
  <1> QED
    BY <1>1, <1>5 DEF M, N

LEMMA RemoveAllKeeps ==
  ASSUME NEW o, Sound(o), Scored(o), NEW ms, Len(ms) \in Nat
  PROVE  /\ Scored(RemoveAll(o, ms))
         /\ Keeps(o, RemoveAll(o, ms), {ms[k] : k \in 1 .. Len(ms)})
  <1> DEFINE N == Len(ms)
             M == {ms[k] : k \in 1 .. N}
  <1>1. PICK f : Removes(o, ms, f) /\ RemoveAll(o, ms) = f[N]
    BY RemoveAllSteps
  <1>2. /\ N \in Nat /\ f[0] = o
        /\ \A k \in 1 .. N : f[k] = remove(f[k - 1], ms[k])
    BY <1>1 DEF Removes
  <1>a. \A k \in 1 .. N : ms[k] \in M
    OBVIOUS
  <1> DEFINE S == {k \in 0 .. N : Sound(f[k]) /\ Scored(f[k]) /\ Keeps(o, f[k], M)}
  <1> HIDE DEF N, M
  <1>3. 0 \in S
    BY <1>2 DEF Keeps
  <1>4. \A k \in 0 .. N - 1 : k \in S => k + 1 \in S
    <2> SUFFICES ASSUME NEW k \in 0 .. N - 1, Sound(f[k]), Scored(f[k]), Keeps(o, f[k], M)
                 PROVE  Sound(f[k + 1]) /\ Scored(f[k + 1]) /\ Keeps(o, f[k + 1], M)
      BY <1>2
    <2>1. k + 1 \in 1 .. N /\ (k + 1) - 1 = k
      BY <1>2
    <2> DEFINE m == ms[k + 1]
               z == f[k]
    <2>2. f[k + 1] = remove(z, m) /\ m \in M
      BY <1>2, <1>a, <2>1
    <2>z. Sound(z) /\ Scored(z) /\ Keeps(o, z, M)
      OBVIOUS
    <2> HIDE DEF m, z
    <2>3. /\ Sound(remove(z, m)) /\ Scored(remove(z, m))
          /\ DOMAIN remove(z, m).hashMap = DOMAIN z.hashMap \ {m}
          /\ \A x \in DOMAIN z.hashMap \ {m} : remove(z, m).hashMap[x] = z.hashMap[x]
      BY <2>z, RemoveSound, RemoveScored
    <2>4. Keeps(o, remove(z, m), M)
      BY <2>2, <2>3, <2>z DEF Keeps
    <2> QED
      BY <2>2, <2>3, <2>4
  <1>5. N \in S
    <2> HIDE DEF S
    <2>1. 0 .. N \subseteq S
      BY <1>2, <1>3, <1>4, BoundedInduction
    <2> QED
      BY <1>2, <2>1
  <1> QED
    BY <1>1, <1>5 DEF M, N

\* The places of at whose members S does not name.
RestOf(rest, at, S) ==
  DOMAIN rest = DOMAIN at \ S /\ \A m \in DOMAIN rest : rest[m] = at[m]

\* Places survive what leaves their members alone.
LEMMA PlacesSurvive ==
  ASSUME NEW z, NEW r, NEW S, NEW at, Keeps(z, r, S), Positioned(z, at),
         NEW rest, RestOf(rest, at, S)
  PROVE  Positioned(r, rest)
  BY DEF Keeps, Positioned, RestOf

-----------------------------------------------------------------------------
(* What GEOADD parses.                                                     *)

Blank == [lon |-> 0, lat |-> 0, bad |-> FALSE, member |-> 0, score |-> 0]

Parses(triples, f) ==
  /\ f[0] = Blank
  /\ \A k \in 1 .. Len(triples) : f[k] = ParseStep(f[k - 1], triples[k])

LEMMA ParseSteps ==
  ASSUME NEW triples, Len(triples) \in Nat
  PROVE  \E f : Parses(triples, f) /\ parseGeoAddCommand(triples) = f[Len(triples)]
  <1> DEFINE N         == Len(triples)
             o         == Blank
             Step1(x, k) == ParseStep(x, triples[k])
             Good(n, f) == f = [k \in 0 .. n |-> IF k = 0 THEN o ELSE Step1(f[k - 1], k)]
             g         == CHOOSE f : Good(N, f)
  <1>1. parseGeoAddCommand(triples) = g[N]
    BY DEF parseGeoAddCommand, Blank
  <1>2. N \in Nat
    OBVIOUS
  <1> HIDE DEF N, o, Step1
  <1> DEFINE S == {n \in 0 .. N : \E f : Good(n, f)}
  <1>3. 0 \in S
    <2>1. Good(0, [k \in 0 .. 0 |-> o])
      OBVIOUS
    <2> HIDE DEF Good
    <2> QED
      BY <1>2, <2>1
  <1>4. \A n \in 0 .. N - 1 : n \in S => n + 1 \in S
    <2> SUFFICES ASSUME NEW n \in 0 .. N - 1, n \in S
                 PROVE  \E h : Good(n + 1, h)
      BY <1>2
    <2>1. PICK f : Good(n, f)
      OBVIOUS
    <2> DEFINE h == [k \in 0 .. n + 1 |-> IF k = n + 1 THEN Step1(f[n], k) ELSE f[k]]
    <2>2. \A k \in 0 .. n : f[k] = IF k = 0 THEN o ELSE Step1(f[k - 1], k)
      BY <2>1
    <2>3. \A k \in 0 .. n + 1 : h[k] = IF k = 0 THEN o ELSE Step1(h[k - 1], k)
      <3> SUFFICES ASSUME NEW k \in 0 .. n + 1
                   PROVE  h[k] = IF k = 0 THEN o ELSE Step1(h[k - 1], k)
        OBVIOUS
      <3>1. CASE k = n + 1
        <4>1. k # 0 /\ k - 1 = n /\ n \in 0 .. n + 1 /\ n # n + 1
          BY <1>2, <3>1
        <4> QED
          BY <3>1, <4>1
      <3>2. CASE k # n + 1
        <4>1. k \in 0 .. n /\ (k # 0 => k - 1 \in 0 .. n + 1 /\ k - 1 # n + 1)
          BY <1>2, <3>2
        <4> QED
          BY <2>2, <3>2, <4>1
      <3> QED
        BY <3>1, <3>2
    <2>4. Good(n + 1, h)
      <3>1. h = [k \in 0 .. n + 1 |-> h[k]]
        OBVIOUS
      <3> HIDE DEF h
      <3> QED
        BY <2>3, <3>1
    <2> HIDE DEF Good, h
    <2> QED
      BY <2>4
  <1>5. \E f : Good(N, f)
    <2> HIDE DEF S
    <2>1. 0 .. N \subseteq S
      BY <1>2, <1>3, <1>4, BoundedInduction
    <2>2. N \in S
      BY <1>2, <2>1
    <2> QED
      BY <2>2 DEF S
  <1>6. Good(N, g)
    <2> HIDE DEF Good
    <2> QED
      BY <1>5
  <1>7. \A k \in 0 .. N : g[k] = IF k = 0 THEN o ELSE Step1(g[k - 1], k)
    <2> HIDE DEF g
    <2> QED
      BY <1>6
  <1> HIDE DEF g
  <1>8. g[0] = o /\ \A k \in 1 .. N : g[k] = Step1(g[k - 1], k)
    BY <1>2, <1>7
  <1>9. Parses(triples, g)
    BY <1>8 DEF Parses, N, o, Step1
  <1> QED
    BY <1>1, <1>9 DEF N

IsCommand(cmd) ==
  /\ cmd.lon \in Int /\ cmd.lat \in Int /\ cmd.bad \in BOOLEAN
  /\ cmd.member \in Members \cup {0} /\ cmd.score \in Nat

\* The score of a command that is not bad is the one of its coordinates.
Exact(cmd) ==
  ~cmd.bad => Allowed(cmd.lon, cmd.lat) /\ cmd.score = 3 * GeoScore(cmd.lon, cmd.lat)

LEMMA ParseStepFacts ==
  ASSUME NEW cmd, IsCommand(cmd), NEW t \in Int \X Int \X (Members \cup {0})
  PROVE  IsCommand(ParseStep(cmd, t)) /\ Exact(ParseStep(cmd, t))
  <1> DEFINE lon == IF t[1] = NotANumber THEN cmd.lon ELSE t[1]
             lat == IF t[2] = NotANumber THEN cmd.lat ELSE t[2]
             bad == cmd.bad \/ NotANumber \in {t[1], t[2]} \/ ~Allowed(lon, lat)
             score == IF bad THEN cmd.score ELSE 3 * GeoScore(lon, lat)
             r == ParseStep(cmd, t)
  <1>1. lon \in Int /\ lat \in Int /\ bad \in BOOLEAN /\ t[3] \in Members \cup {0}
    BY DEF IsCommand
  <1>2. r = [lon |-> lon, lat |-> lat, bad |-> bad, member |-> t[3], score |-> score]
    BY DEF ParseStep
  <1>3. ~bad => Allowed(lon, lat)
    OBVIOUS
  <1>s. score = IF bad THEN cmd.score ELSE 3 * GeoScore(lon, lat)
    OBVIOUS
  <1> HIDE DEF lon, lat, bad, score, r
  <1>4. ~bad => GeoScore(lon, lat) \in Nat
    BY <1>3, ScoreRoundTrip
  <1>5. score \in Nat
    BY <1>4, <1>s DEF IsCommand
  <1>6. r.lon = lon /\ r.lat = lat /\ r.bad = bad /\ r.member = t[3] /\ r.score = score
    BY <1>2
  <1>7. IsCommand(r)
    BY <1>1, <1>5, <1>6 DEF IsCommand
  <1>8. Exact(r)
    BY <1>3, <1>6, <1>s DEF Exact
  <1> QED
    BY <1>7, <1>8 DEF r

LEMMA ParseFacts ==
  ASSUME NEW triples \in Seq(Int \X Int \X (Members \cup {0}))
  PROVE  /\ IsCommand(parseGeoAddCommand(triples))
         /\ triples # <<>> => Exact(parseGeoAddCommand(triples))
  <1> DEFINE N == Len(triples)
  <1>0. /\ N \in Nat /\ (triples # <<>> => N # 0)
        /\ \A k \in 1 .. N : triples[k] \in Int \X Int \X (Members \cup {0})
    BY ElementOfSeq, EmptySeq
  <1>1. PICK f : Parses(triples, f) /\ parseGeoAddCommand(triples) = f[N]
    BY <1>0, ParseSteps
  <1>2. f[0] = Blank /\ \A k \in 1 .. N : f[k] = ParseStep(f[k - 1], triples[k])
    BY <1>1 DEF Parses
  <1> DEFINE S == {k \in 0 .. N : IsCommand(f[k]) /\ (k # 0 => Exact(f[k]))}
  <1> HIDE DEF N
  <1>3. 0 \in S
    <2>1. IsCommand(Blank)
      BY DEF IsCommand, Blank
    <2> QED
      BY <1>0, <1>2, <2>1
  <1>4. \A k \in 0 .. N - 1 : k \in S => k + 1 \in S
    <2> SUFFICES ASSUME NEW k \in 0 .. N - 1, IsCommand(f[k])
                 PROVE  IsCommand(f[k + 1]) /\ Exact(f[k + 1])
      BY <1>0
    <2>1. k + 1 \in 1 .. N /\ (k + 1) - 1 = k
      BY <1>0
    <2>2. f[k + 1] = ParseStep(f[k], triples[k + 1])
          /\ triples[k + 1] \in Int \X Int \X (Members \cup {0})
      BY <1>0, <1>2, <2>1
    <2> QED
      BY <2>2, ParseStepFacts
  <1>5. N \in S
    <2> HIDE DEF S
    <2>1. 0 .. N \subseteq S
      BY <1>0, <1>3, <1>4, BoundedInduction
    <2> QED
      BY <1>0, <2>1
  <1> QED
    BY <1>0, <1>1, <1>5

\* What the replica is sent has the form of what the master was sent.
LEMMA GeoaddRespFacts ==
  ASSUME NEW cmd, IsCommand(cmd)
  PROVE  GeoaddResp(cmd) \in Seq(Int \X Int \X (Members \cup {0}))
  <1>1. Printed(cmd.lon) \in Int /\ Printed(cmd.lat) \in Int
    BY DEF IsCommand, Printed
  <1> DEFINE t == <<Printed(cmd.lon), Printed(cmd.lat), cmd.member>>
  <1>2. t \in Int \X Int \X (Members \cup {0})
    BY <1>1 DEF IsCommand
  <1>3. GeoaddResp(cmd) = <<t>>
    BY DEF GeoaddResp
  <1> HIDE DEF t
  <1> QED
    BY <1>2, <1>3

-----------------------------------------------------------------------------
(* The second invariant.                                                   *)

LEMMA NewIsScored == Scored(NewSortedSet)
  <1>1. NewSortedSet.hashMap = [m \in {} |-> 0]
    BY DEF NewSortedSet
  <1>2. DOMAIN NewSortedSet.hashMap = {}
    BY <1>1
  <1> QED
    BY <1>2 DEF Scored

ScoredObject(o) == IsObject(o) /\ (IsZset(o) => Scored(o))

LEMMA OpenedScored ==
  ASSUME NEW o, ScoredObject(o), IsZset(Opened(o))
  PROVE  Sound(Opened(o)) /\ Scored(Opened(o))
  BY OpenedFacts, NewIsSound, NewIsScored DEF ScoredObject, IsObject

LEMMA ZaddScored ==
  ASSUME NEW o, ScoredObject(o), NEW pairs, Len(pairs) \in Nat,
         \A k \in 1 .. Len(pairs) : pairs[k][1] \in Nat /\ pairs[k][2] \in Members \cup {0}
  PROVE  /\ IsZset(handle_zadd(o, pairs)) => Scored(handle_zadd(o, pairs))
         /\ IsZset(handle_zadd(o, pairs)) =>
               Keeps(Opened(o), handle_zadd(o, pairs), {pairs[k][2] : k \in 1 .. Len(pairs)})
         /\ IsZset(handle_zadd(o, pairs)) <=> IsZset(Opened(o))
  <1>1. CASE ~IsZset(Opened(o))
    <2>1. handle_zadd(o, pairs) = o /\ ~IsZset(o)
      BY <1>1, OpenedFacts DEF handle_zadd, ScoredObject, IsObject
    <2> QED
      BY <1>1, <2>1
  <1>2. CASE IsZset(Opened(o))
    <2>1. Sound(Opened(o)) /\ Scored(Opened(o))
      BY <1>2, OpenedScored
    <2>2. handle_zadd(o, pairs) = InsertAll(Opened(o), pairs)
      BY <1>2 DEF handle_zadd
    <2>3. IsZset(InsertAll(Opened(o), pairs))
      BY <2>1, InsertAllSound, OpenedFacts
    <2> QED
      BY <1>2, <2>1, <2>2, <2>3, InsertAllKeeps
  <1> QED
    BY <1>1, <1>2

LEMMA ZremScored ==
  ASSUME NEW o, ScoredObject(o), NEW ms, Len(ms) \in Nat
  PROVE  /\ IsZset(handle_zrem(o, ms)) => Scored(handle_zrem(o, ms))
         /\ IsZset(o) => Keeps(o, handle_zrem(o, ms), {ms[k] : k \in 1 .. Len(ms)})
         /\ IsZset(handle_zrem(o, ms)) <=> IsZset(o)
  <1>1. CASE ~IsZset(o)
    BY <1>1 DEF handle_zrem
  <1>2. CASE IsZset(o)
    <2>1. Sound(o) /\ Scored(o)
      BY <1>2, OpenedFacts DEF ScoredObject, IsObject
    <2>2. handle_zrem(o, ms) = RemoveAll(o, ms)
      BY <1>2 DEF handle_zrem
    <2>3. IsZset(RemoveAll(o, ms))
      BY <2>1, RemoveAllSound, OpenedFacts
    <2> QED
      BY <1>2, <2>1, <2>2, <2>3, RemoveAllKeeps
  <1> QED
    BY <1>1, <1>2

LEMMA GeoaddScored ==
  ASSUME NEW o, ScoredObject(o), NEW cmd, IsCommand(cmd), NEW q, q = handle_geoadd(o, cmd)
  PROVE  /\ IsZset(q) => Scored(q)
         /\ cmd.bad \/ ~IsZset(Opened(o)) => q = o
         /\ ~cmd.bad /\ IsZset(Opened(o)) =>
               /\ IsZset(q) /\ Keeps(Opened(o), q, {cmd.member})
               /\ cmd.member \in DOMAIN q.hashMap /\ q.hashMap[cmd.member] = cmd.score
  <1>1. CASE cmd.bad \/ ~IsZset(Opened(o))
    <2>1. handle_geoadd(o, cmd) = o
      BY <1>1 DEF handle_geoadd
    <2> QED
      BY <1>1, <2>1 DEF ScoredObject, IsCommand
  <1>2. CASE ~cmd.bad /\ IsZset(Opened(o))
    <2> DEFINE z == Opened(o)
               y == [z EXCEPT !.isGeo = TRUE]
               m == cmd.member
               s == cmd.score
               r == insert(y, m, s)
    <2>1. handle_geoadd(o, cmd) = r
      BY <1>2 DEF handle_geoadd
    <2>2. Sound(z) /\ Scored(z)
      BY <1>2, OpenedScored
    <2> HIDE DEF z
    <2>3. Sound(y) /\ y.hashMap = z.hashMap
      BY <2>2, MarkedSound
    <2>4. Scored(y)
      BY <2>2, <2>3 DEF Scored
    <2> HIDE DEF y
    <2>5. m \in Members \cup {0} /\ s \in Nat
      BY DEF IsCommand
    <2>6. /\ Sound(r) /\ Scored(r) /\ DOMAIN r.hashMap = DOMAIN y.hashMap \cup {m}
          /\ r.hashMap[m] = s
          /\ \A x \in DOMAIN y.hashMap : x # m => r.hashMap[x] = y.hashMap[x]
      BY <2>3, <2>4, <2>5, InsertSound, InsertScored
    <2> HIDE DEF r
    <2>7. IsZset(r)
      BY <2>6, OpenedFacts
    <2>8. Keeps(z, r, {m})
      BY <2>3, <2>6 DEF Keeps
    <2> QED
      BY <1>2, <2>1, <2>6, <2>7, <2>8 DEF z
  <1> QED
    BY <1>1, <1>2 DEF IsCommand

LEMMA PInvInit == Init => PInv
  <1> SUFFICES ASSUME Init PROVE PInv
    OBVIOUS
  <1>1. /\ store["master"] = NoObject /\ store["replica"] = NoObject /\ DOMAIN placed = {}
    BY DEF Init, Servers
  <1> QED
    BY <1>1, OpenedFacts DEF PInv, ScoresKept, PlacesKept, Servers

LEMMA PInvNext == IInv /\ PInv /\ [Next]_vars => PInv'
  <1> SUFFICES ASSUME IInv, PInv, [Next]_vars PROVE PInv'
    OBVIOUS
  <1> DEFINE o == store["master"]
             r == store["replica"]
  <1>1. ScoredObject(o) /\ ScoredObject(r)
    BY InvForm DEF IInv, PInv, ScoresKept, ScoredObject, Servers
  <1>2. IF IsZset(o) THEN Positioned(o, placed) ELSE DOMAIN placed = {}
    BY DEF PInv, PlacesKept
  <1>3. ASSUME IsZset(o') => Scored(o'), IsZset(r') => Scored(r'),
               IF IsZset(o') THEN Positioned(o', placed') ELSE DOMAIN placed' = {}
        PROVE  PInv'
    BY <1>3 DEF PInv, ScoresKept, PlacesKept, Servers
  <1>o. IsZset(Opened(o)) => Positioned(Opened(o), placed)
    <2>1. CASE o = NoObject
      BY <1>2, <2>1, OpenedFacts DEF Positioned
    <2>2. CASE o # NoObject
      BY <1>2, <2>2 DEF Opened
    <2> QED
      BY <2>1, <2>2
  <1>4. CASE SET
    <2>1. o' = StringObject /\ r' = StringObject /\ DOMAIN placed' = {}
      BY <1>4 DEF SET, Servers
    <2> QED
      BY <1>3, <2>1, OpenedFacts
  <1>5. CASE ZADD
    <2>0. PICK pairs \in ScoreLists :
             /\ store' = [master  |-> handle_zadd(store["master"], pairs),
                          replica |-> handle_zadd(store["replica"], ZaddResp(pairs))]
             /\ placed' = IF ~IsZset(store'["master"]) THEN placed
                          ELSE [m \in DOMAIN placed \ {pairs[k][2] : k \in 1 .. Len(pairs)}
                                  |-> placed[m]]
             /\ UNCHANGED drifted
      BY <1>5, Zenon DEF ZADD
    <2> DEFINE resp == ZaddResp(pairs)
               M    == {pairs[k][2] : k \in 1 .. Len(pairs)}
    <2>1. /\ o' = handle_zadd(o, pairs) /\ r' = handle_zadd(r, ZaddResp(pairs))
          /\ placed' = IF ~IsZset(o') THEN placed ELSE [m \in DOMAIN placed \ M |-> placed[m]]
      <3> HIDE DEF M
      <3>1. placed' = IF ~IsZset(store'["master"]) THEN placed
                      ELSE [m \in DOMAIN placed \ M |-> placed[m]]
        BY <2>0, Zenon DEF M
      <3>2. o' = handle_zadd(o, pairs) /\ r' = handle_zadd(r, ZaddResp(pairs))
        BY <2>0
      <3> QED
        BY <3>1, <3>2, Zenon
    <2>2. pairs \in Seq(Nat \X (Members \cup {0}))
      BY ListsAssumption
    <2>3. /\ Len(pairs) \in Nat
          /\ \A k \in 1 .. Len(pairs) : pairs[k][1] \in Nat /\ pairs[k][2] \in Members \cup {0}
      <3>1. Len(pairs) \in Nat /\ \A k \in 1 .. Len(pairs) : pairs[k] \in Nat \X (Members \cup {0})
        BY <2>2, ElementOfSeq
      <3> QED
        BY <3>1
    <2>4. /\ Len(resp) = Len(pairs)
          /\ \A k \in 1 .. Len(pairs) : resp[k][1] = Printed(pairs[k][1]) /\ resp[k][2] = pairs[k][2]
      BY <2>2, ZaddRespFacts
    <2>5. \A x \in Nat : Printed(x) \in Nat
      BY DEF Printed
    <2> HIDE DEF resp
    <2>6. /\ Len(resp) \in Nat
          /\ \A k \in 1 .. Len(resp) : resp[k][1] \in Nat /\ resp[k][2] \in Members \cup {0}
      BY <2>3, <2>4, <2>5
    <2>7. IsZset(r') => Scored(r')
      BY <1>1, <2>1, <2>6, ZaddScored DEF resp
    <2>8. /\ IsZset(o') => Scored(o')
          /\ IsZset(o') => Keeps(Opened(o), o', M)
          /\ IsZset(o') <=> IsZset(Opened(o))
      BY <1>1, <2>1, <2>3, ZaddScored, ZenonT(60)
    <2> HIDE DEF M
    <2>9. IF IsZset(o') THEN Positioned(o', placed') ELSE DOMAIN placed' = {}
      <3>1. CASE IsZset(o')
        <4>1. placed' = [m \in DOMAIN placed \ M |-> placed[m]]
          BY <2>1, <3>1 DEF M
        <4>2. Keeps(Opened(o), o', M) /\ Positioned(Opened(o), placed)
          BY <1>o, <2>8, <3>1
        <4>a. RestOf(placed', placed, M)
          BY <4>1 DEF RestOf
        <4>3. Positioned(o', placed')
          BY <4>2, <4>a, PlacesSurvive
        <4> QED
          BY <3>1, <4>3
      <3>2. CASE ~IsZset(o')
        <4>1. placed' = placed /\ ~IsZset(Opened(o))
          BY <2>1, <2>8, <3>2
        <4>2. ~IsZset(o)
          BY <1>1, <4>1, OpenedFacts DEF ScoredObject, IsObject
        <4> QED
          BY <1>2, <3>2, <4>1, <4>2
      <3> QED
        BY <3>1, <3>2
    <2> QED
      BY <1>3, <2>7, <2>8, <2>9
  <1>6. CASE ZREM
    <2>1. PICK ms \in MemberLists :
             /\ o' = handle_zrem(o, ms) /\ r' = handle_zrem(r, ms)
             /\ placed' = [m \in DOMAIN placed \ {ms[k] : k \in 1 .. Len(ms)} |-> placed[m]]
      BY <1>6 DEF ZREM, Servers
    <2> DEFINE M == {ms[k] : k \in 1 .. Len(ms)}
    <2>2. Len(ms) \in Nat
      BY ListsAssumption
    <2>3. /\ IsZset(o') => Scored(o') /\ IsZset(o) /\ Keeps(o, o', M)
          /\ IsZset(r') => Scored(r')
      BY <1>1, <2>1, <2>2, ZremScored
    <2>4. IsZset(o) => IsZset(o')
      BY <1>1, <2>1, <2>2, ZremScored
    <2>5. placed' = [m \in DOMAIN placed \ M |-> placed[m]]
      BY <2>1
    <2> HIDE DEF M
    <2>6. IF IsZset(o') THEN Positioned(o', placed') ELSE DOMAIN placed' = {}
      <3>1. CASE IsZset(o')
        <4>1. Keeps(o, o', M) /\ Positioned(o, placed)
          BY <1>2, <2>3, <3>1
        <4>a. RestOf(placed', placed, M)
          BY <2>5 DEF RestOf
        <4>2. Positioned(o', placed')
          BY <4>1, <4>a, PlacesSurvive
        <4> QED
          BY <3>1, <4>2
      <3>2. CASE ~IsZset(o')
        BY <1>2, <2>4, <2>5, <3>2
      <3> QED
        BY <3>1, <3>2
    <2> QED
      BY <1>3, <2>3, <2>6
  <1>7. CASE GEOADD
    <2>1. PICK triples \in TripleLists :
             LET cmd  == parseGeoAddCommand(triples)
                 copy == parseGeoAddCommand(GeoaddResp(cmd))
             IN  /\ o' = handle_geoadd(o, cmd) /\ r' = handle_geoadd(r, copy)
                 /\ placed' = IF cmd.bad \/ ~IsZset(Opened(o)) THEN placed
                              ELSE IF triples = <<>> THEN Without(placed, cmd.member)
                              ELSE Put(placed, cmd.member, <<cmd.lon, cmd.lat>>)
      BY <1>7 DEF GEOADD
    <2> DEFINE cmd  == parseGeoAddCommand(triples)
               copy == parseGeoAddCommand(GeoaddResp(cmd))
    <2>2. triples \in Seq(Int \X Int \X (Members \cup {0}))
      BY ListsAssumption
    <2>3. IsCommand(cmd) /\ (triples # <<>> => Exact(cmd))
      BY <2>2, ParseFacts
    <2> HIDE DEF cmd
    <2>4. GeoaddResp(cmd) \in Seq(Int \X Int \X (Members \cup {0}))
      BY <2>3, GeoaddRespFacts
    <2>5. IsCommand(copy)
      BY <2>4, ParseFacts
    <2> HIDE DEF copy
    <2>6. /\ o' = handle_geoadd(o, cmd) /\ r' = handle_geoadd(r, copy)
          /\ placed' = IF cmd.bad \/ ~IsZset(Opened(o)) THEN placed
                       ELSE IF triples = <<>> THEN Without(placed, cmd.member)
                       ELSE Put(placed, cmd.member, <<cmd.lon, cmd.lat>>)
      BY <2>1 DEF cmd, copy
    <2>7. IsZset(r') => Scored(r')
      BY <1>1, <2>5, <2>6, GeoaddScored
    <2>a. IsCommand(cmd)
      BY <2>3
    <2>b. o' = handle_geoadd(o, cmd)
      BY <2>6
    <2>8. /\ IsZset(o') => Scored(o')
          /\ cmd.bad \/ ~IsZset(Opened(o)) => o' = o
          /\ ~cmd.bad /\ IsZset(Opened(o)) =>
                /\ IsZset(o') /\ Keeps(Opened(o), o', {cmd.member})
                /\ cmd.member \in DOMAIN o'.hashMap /\ o'.hashMap[cmd.member] = cmd.score
      BY <1>1, <2>a, <2>b, GeoaddScored
    <2>9. IF IsZset(o') THEN Positioned(o', placed') ELSE DOMAIN placed' = {}
      <3>1. CASE cmd.bad \/ ~IsZset(Opened(o))
        <4>1. o' = o /\ placed' = placed
          BY <2>6, <2>8, <3>1
        <4> QED
          BY <1>2, <4>1
      <3>2. CASE ~cmd.bad /\ IsZset(Opened(o))
        <4> DEFINE m == cmd.member
                   rest == [x \in DOMAIN placed \ {m} |-> placed[x]]
        <4>1. IsZset(o') /\ Keeps(Opened(o), o', {m}) /\ m \in DOMAIN o'.hashMap
              /\ o'.hashMap[m] = cmd.score
          BY <2>8, <3>2
        <4>2. Positioned(o', rest)
          <5>1. Keeps(Opened(o), o', {m}) /\ Positioned(Opened(o), placed)
            BY <1>o, <3>2, <4>1
          <5>2. RestOf(rest, placed, {m})
            BY DEF RestOf
          <5> HIDE DEF rest, m
          <5> QED
            BY <5>1, <5>2, PlacesSurvive
        <4>3. CASE triples = <<>>
          <5>1. placed' = rest
            BY <2>6, <3>2, <4>3 DEF Without
          <5> QED
            BY <4>1, <4>2, <5>1
        <4>4. CASE triples # <<>>
          <5> DEFINE place == <<cmd.lon, cmd.lat>>
          <5>1. placed' = Put(placed, m, place)
            BY <2>6, <3>2, <4>4
          <5>2. /\ place[1] = cmd.lon /\ place[2] = cmd.lat
                /\ Allowed(cmd.lon, cmd.lat) /\ cmd.score = 3 * GeoScore(cmd.lon, cmd.lat)
            BY <2>3, <3>2, <4>4 DEF Exact
          <5>3. /\ DOMAIN rest = DOMAIN placed \ {m} /\ \A x \in DOMAIN rest : rest[x] = placed[x]
            OBVIOUS
          <5> HIDE DEF m, place, rest
          <5>4. /\ DOMAIN placed' = DOMAIN placed \cup {m} /\ placed'[m] = place
                /\ \A x \in DOMAIN placed : x # m => placed'[x] = placed[x]
            BY <5>1 DEF Put
          <5>5. ASSUME NEW x \in DOMAIN placed'
                PROVE  /\ x \in DOMAIN o'.hashMap
                       /\ Allowed(placed'[x][1], placed'[x][2])
                       /\ o'.hashMap[x] = 3 * GeoScore(placed'[x][1], placed'[x][2])
            <6>1. CASE x = m
              <7>1. placed'[x][1] = cmd.lon /\ placed'[x][2] = cmd.lat
                BY <5>2, <5>4, <6>1
              <7> QED
                BY <4>1, <5>2, <6>1, <7>1
            <6>2. CASE x # m
              <7>1. x \in DOMAIN rest /\ placed'[x] = rest[x]
                BY <5>3, <5>4, <6>2
              <7> QED
                BY <4>2, <7>1 DEF Positioned
            <6> QED
              BY <6>1, <6>2
          <5> QED
            BY <4>1, <5>5 DEF Positioned
        <4> QED
          BY <4>3, <4>4
      <3> QED
        BY <3>1, <3>2 DEF IsCommand
    <2> QED
      BY <1>3, <2>7, <2>8, <2>9
  <1>8. CASE UNCHANGED vars
    <2>1. o' = o /\ r' = r /\ placed' = placed
      BY <1>8 DEF vars
    <2>2. (IsZset(o) => Scored(o)) /\ (IsZset(r) => Scored(r))
      BY <1>1 DEF ScoredObject
    <2> QED
      BY <1>2, <1>3, <2>1, <2>2
  <1> QED
    BY <1>4, <1>5, <1>6, <1>7, <1>8 DEF Next

LEMMA PInvariance == Spec => []PInv
  <1>1. IInv /\ PInv /\ [Next]_vars => (IInv /\ PInv)'
    BY NextInv, PInvNext
  <1> QED
    BY <1>1, InitInv, PInvInit, PTL DEF Spec

-----------------------------------------------------------------------------
(* The theorems.                                                           *)

\* However ZADD, ZREM and GEOADD insert, update and remove members, the hash
\* map, the ordered set and the length of a sorted set agree
\* (SortedSet::insert, SortedSet::remove).
THEOREM IndexesNeverDrift == Spec => []IndexesAgree
  <1>1. IInv => IndexesAgree
    <2> SUFFICES ASSUME IInv, NEW s \in Zsets
                 PROVE  /\ store[s].sets = {<<store[s].hashMap[m], m>> : m \in DOMAIN store[s].hashMap}
                        /\ store[s].length = Cardinality(DOMAIN store[s].hashMap)
      BY DEF IndexesAgree
    <2>1. Sound(store[s])
      BY OpenedFacts DEF IInv, Objects, Zsets
    <2> QED
      BY <2>1 DEF Sound
  <1> QED
    BY Invariance, <1>1, PTL

\* The replica has the type and the members of the master unless a GEOADD
\* was accepted by one of them only (Command::to_resp).
THEOREM ReplicaHasMembers == Spec => []ReplicaSameMembers
  <1>1. IInv => ReplicaSameMembers
    <2> SUFFICES ASSUME IInv, ~drifted
                 PROVE  /\ store["replica"].type = store["master"].type
                        /\ "master" \in Zsets =>
                             DOMAIN store["replica"].hashMap = DOMAIN store["master"].hashMap
      BY DEF ReplicaSameMembers
    <2>1. SameObject(store["master"], store["replica"])
      BY InvForm DEF IInv
    <2>2. store["replica"].type = store["master"].type
      BY <2>1, SameTypes DEF SameObject
    <2>3. "master" \in Zsets => Copy(store["master"], store["replica"])
      BY <2>1, OpenedFacts DEF Zsets, SameObject
    <2> QED
      BY <2>2, <2>3 DEF Copy
  <1> QED
    BY Invariance, <1>1, PTL

\* Scores that differ by the printed resolution or more keep their order
\* when they are printed and parsed again (std::to_string, std::stod).
LEMMA PrintedKeepsOrder ==
  ASSUME NEW x \in Nat, NEW y \in Nat, x + 3 <= y
  PROVE  Printed(x) < Printed(y)
  BY DEF Printed

\* Without GEOADD, rounding never swaps members whose scores differ by the
\* printed resolution or more (ZaddCommand::to_resp).
THEOREM ReplicaKeepsOrder == Spec => []ReplicaSameOrder
  <1>1. IInv => ReplicaSameOrder
    <2> SUFFICES ASSUME IInv, "master" \in Zsets, ~store["master"].isGeo, ~drifted,
                        NEW a \in DOMAIN store["master"].hashMap,
                        NEW b \in DOMAIN store["master"].hashMap,
                        store["master"].hashMap[a] + 3 <= store["master"].hashMap[b]
                 PROVE  store["replica"].hashMap[a] < store["replica"].hashMap[b]
      BY DEF ReplicaSameOrder
    <2>1. SameObject(store["master"], store["replica"])
      BY InvForm DEF IInv
    <2>2. Copy(store["master"], store["replica"])
      BY <2>1, OpenedFacts DEF Zsets, SameObject
    <2>3. Rounded(store["master"], store["replica"])
      BY <2>2 DEF Copy
    <2> QED
      BY <2>3, PrintedKeepsOrder DEF Rounded
  <1> QED
    BY Invariance, <1>1, PTL

\* ZCARD, ZSCORE, ZRANK and ZRANGE tell of the same members in the same order,
\* for every sorted set, every pair of indexes and on both servers
\* (SortedSet::rank, SortedSet::range).
THEOREM ReadsAlwaysAgree == Spec => []ReadsAgree
  <1>1. IInv /\ PInv => ReadsAgree
    <2> SUFFICES ASSUME IInv, PInv PROVE ReadsAgree
      OBVIOUS
    <2>1. ASSUME NEW s \in Zsets
          PROVE  ReadsFit(store[s], handle_zrange(store[s], 0, -1),
                          Len(handle_zrange(store[s], 0, -1)))
      <3>1. Sound(store[s]) /\ Scored(store[s])
        BY OpenedFacts DEF IInv, Objects, PInv, ScoresKept, Zsets
      <3> QED
        BY <3>1, ReadsOfSet
    <2> QED
      BY <2>1 DEF ReadsAgree, ReadsFit
  <1> QED
    BY Invariance, PInvariance, <1>1, PTL

\* A member keeps the cell of the coordinates GEOADD gave it: interleave64 and
\* deinterleave64 undo each other for all 26 bits of a cell number, and the
\* score, a double, holds the geohash unless the longitude is the greatest
\* (geohash.cpp, handle_geopos, handle_geodist, handle_geosearch).
THEOREM PlacesRoundTrip == Spec => []GeoRoundTrip
  <1>1. IInv /\ PInv => GeoRoundTrip
    <2> SUFFICES ASSUME IInv, PInv, "master" \in Zsets, NEW m \in DOMAIN placed,
                        placed[m][1] < LonMax
                 PROVE  LET z   == store["master"]
                            lon == placed[m][1]
                            lat == placed[m][2]
                        IN /\ handle_geopos(z, m) = <<CellsOf(lon, lat)>>
                           /\ handle_geodist(z, m, m) = <<0>>
                           /\ m \in handle_geosearch(z, lon, lat, 0)
      BY DEF GeoRoundTrip
    <2> DEFINE z   == store["master"]
               lon == placed[m][1]
               lat == placed[m][2]
               G   == GeoScore(lon, lat)
               cells == CellsOf(lon, lat)
    <2>1. IsZset(z) /\ Positioned(z, placed)
      BY DEF PInv, PlacesKept, Zsets
    <2>2. z # NoObject
      BY <2>1, OpenedFacts
    <2>3. m \in DOMAIN z.hashMap /\ Allowed(lon, lat) /\ z.hashMap[m] = 3 * G
      BY <2>1 DEF Positioned
    <2>4. lon < LonMax
      OBVIOUS
    <2> HIDE DEF z, lon, lat
    <2>5. G \in Nat /\ geoHashDecode(G) = cells
      BY <2>3, <2>4, ScoreRoundTrip
    <2>6. geoHashDecode(Value(geoHashEncode(lon, lat))) = cells
      BY <2>3, EncodeFacts
    <2>7. calculateDistance(cells, cells) = 0
      <3>1. LonMax \in Nat \ {0} /\ lon \in -LonMax .. LonMax
        BY <2>3, RangeAssumption DEF Allowed
      <3>2. LatMax \in Nat \ {0} /\ lat \in -LatMax .. LatMax
        BY <2>3, RangeAssumption DEF Allowed
      <3>3. cells.lon \in Nat /\ cells.lat \in Nat
        BY <3>1, <3>2, CellBound DEF CellsOf
      <3> HIDE DEF cells
      <3>4. \A x \in Nat : ~(x < x) /\ x - x = 0
        OBVIOUS
      <3> QED
        BY <3>3, <3>4 DEF calculateDistance
    <2> HIDE DEF G, cells
    <2>8. z.hashMap[m] \div 3 = G
      BY <2>3, <2>5
    <2>9. \A missing, found : Reply(z, missing, found) = found
      BY <2>1, <2>2 DEF Reply
    <2>10. handle_geopos(z, m) = <<cells>>
      BY <2>3, <2>5, <2>8, <2>9 DEF handle_geopos
    <2>11. handle_geodist(z, m, m) = <<0>>
      BY <2>3, <2>5, <2>7, <2>8, <2>9 DEF handle_geodist
    <2>12. m \in handle_geosearch(z, lon, lat, 0)
      BY <2>3, <2>5, <2>6, <2>7, <2>8, <2>9 DEF handle_geosearch
    <2> QED
      BY <2>10, <2>11, <2>12 DEF z, lon, lat, cells
  <1> QED
    BY Invariance, PInvariance, <1>1, PTL
=============================================================================
