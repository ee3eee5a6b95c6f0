--------------------------- MODULE SessionsProofs ---------------------------
(* Invariants of Sessions for every value of its constants.                *)
EXTENDS Sessions, Induction, SequenceTheorems, FiniteSetTheorems, TLAPS

-----------------------------------------------------------------------------
(* What the handlers do to a session.                                      *)

\* The clients that have connected.
Present == Clients \ waiting

SessionType ==
    [list : Seq(Nat), blocked : Seq(Present), pubsub : [Channels -> Seq(Present)],
     flags : [Clients -> SUBSET {"MULTI", "PUBSUB"}], total : [Clients -> Nat],
     pending : SUBSET Present, values : Nat, isBlocked : BOOLEAN,
     unblocked : SUBSET Present, ready : SUBSET Present, served : SUBSET Present]

\* What a command of c may leave of the session s.
Follows(s, t, c, ch) ==
    /\ t \in SessionType
    /\ \/ t.list = s.list /\ t.values \in {s.values, s.values + 1}
       \/ s.list # <<>> /\ t.list = Tail(s.list) /\ t.values = s.values
       \/ t.list = Append(s.list, s.values + 1) /\ t.values = s.values + 1
    /\ \A d \in Clients \ {c} : t.flags[d] = s.flags[d]
    /\ s.served \subseteq t.served /\ s.ready \subseteq t.ready
    /\ t.pending \subseteq s.pending \cup {c} \cup t.served \cup t.ready
    /\ t.served \subseteq s.served \cup t.unblocked
    /\ t.isBlocked = s.isBlocked \/ t.pending = s.pending
    /\ \/ t.pubsub = s.pubsub /\ t.total = s.total
       \/ /\ t.pubsub = [s.pubsub EXCEPT ![ch] = Append(@, c)]
          /\ t.total = [s.total EXCEPT ![c] = @ + 1]

\* An answer.
LEMMA ReplyFacts ==
    ASSUME NEW s \in SessionType, NEW c \in Clients, c \in Present
    PROVE  /\ Reply(s, c) \in SessionType
           /\ Reply(s, c).pending = s.pending \cup {c}
           /\ Reply(s, c).list = s.list /\ Reply(s, c).values = s.values
           /\ Reply(s, c).blocked = s.blocked
           /\ Reply(s, c).flags = s.flags /\ Reply(s, c).total = s.total
           /\ Reply(s, c).pubsub = s.pubsub
           /\ Reply(s, c).served = s.served /\ Reply(s, c).ready = s.ready
           /\ Reply(s, c).isBlocked = s.isBlocked /\ Reply(s, c).unblocked = s.unblocked
  BY DEF Reply, SessionType

LEMMA ReplyFollows ==
    ASSUME NEW s \in SessionType, NEW c \in Clients, c \in Present, NEW ch
    PROVE  Follows(s, Reply(s, c), c, ch)
  BY ReplyFacts DEF Follows

\* A command that changes one field besides answering.
LEMMA PushFollows ==
    ASSUME NEW s \in SessionType, NEW c \in Clients, c \in Present, NEW ch
    PROVE  Follows(s, handle_push(s, c), c, ch)
  <1>0. s.values + 1 \in Nat /\ s.list \in Seq(Nat) /\ s.blocked \in Seq(Present)
    BY DEF SessionType
  <1>1. CASE s.blocked = <<>>
    <2> DEFINE r == Reply(s, c)
               t == [r EXCEPT !.list = Append(@, s.values + 1), !.values = @ + 1]
    <2>0. /\ r \in SessionType /\ r.pending = s.pending \cup {c} /\ r.list = s.list
          /\ r.values = s.values /\ r.flags = s.flags
          /\ r.total = s.total /\ r.pubsub = s.pubsub /\ r.served = s.served /\ r.ready = s.ready
          /\ r.isBlocked = s.isBlocked
      BY ReplyFacts
    <2>1. Append(s.list, s.values + 1) \in Seq(Nat)
      BY <1>0
    <2>4. handle_push(s, c) = t
      BY <1>1 DEF handle_push
    <2> HIDE DEF r
    <2>2. t \in SessionType
      BY <1>0, <2>0, <2>1 DEF SessionType
    <2>3. /\ t.list = Append(s.list, s.values + 1) /\ t.values = s.values + 1
          /\ t.flags = s.flags /\ t.served = s.served /\ t.ready = s.ready
          /\ t.isBlocked = s.isBlocked
          /\ t.pending = s.pending \cup {c} /\ t.pubsub = s.pubsub /\ t.total = s.total
      BY <2>0 DEF SessionType
    <2> HIDE DEF t
    <2> QED
      BY <2>2, <2>3, <2>4 DEF Follows
  <1>2. CASE s.blocked # <<>>
    <2> DEFINE front == Head(s.blocked)
               u == Reply(Reply(s, front), c)
               t == [u EXCEPT !.blocked = Tail(@), !.values = @ + 1,
                              !.unblocked = {front}, !.served = @ \cup {front}]
    <2>1. front \in Clients /\ front \in Present /\ Tail(s.blocked) \in Seq(Present)
      BY <1>0, <1>2 DEF Present
    <2>2. handle_push(s, c) = t
      BY <1>2 DEF handle_push
    <2> HIDE DEF front
    <2>3. /\ u \in SessionType /\ u.pending = s.pending \cup {front, c} /\ u.list = s.list
          /\ u.values = s.values /\ u.blocked = s.blocked /\ u.flags = s.flags
          /\ u.total = s.total /\ u.pubsub = s.pubsub /\ u.served = s.served /\ u.ready = s.ready
          /\ u.isBlocked = s.isBlocked
      <3> DEFINE v == Reply(s, front)
      <3>1. /\ v \in SessionType /\ v.pending = s.pending \cup {front} /\ v.list = s.list
            /\ v.values = s.values /\ v.blocked = s.blocked /\ v.flags = s.flags
            /\ v.total = s.total /\ v.pubsub = s.pubsub /\ v.served = s.served /\ v.ready = s.ready
            /\ v.isBlocked = s.isBlocked
        BY <2>1, ReplyFacts
      <3> HIDE DEF v
      <3>2. /\ Reply(v, c) \in SessionType /\ Reply(v, c).pending = v.pending \cup {c}
            /\ Reply(v, c).list = v.list /\ Reply(v, c).values = v.values
            /\ Reply(v, c).blocked = v.blocked /\ Reply(v, c).flags = v.flags
            /\ Reply(v, c).total = v.total /\ Reply(v, c).pubsub = v.pubsub
            /\ Reply(v, c).served = v.served /\ Reply(v, c).ready = v.ready
            /\ Reply(v, c).isBlocked = v.isBlocked
        BY <3>1, ReplyFacts
      <3>3. u = Reply(v, c)
        BY DEF v
      <3> HIDE DEF u
      <3> QED
        BY <3>1, <3>2, <3>3
    <2> HIDE DEF u
    <2>4. t \in SessionType
      BY <1>0, <2>1, <2>3 DEF SessionType
    <2>5. /\ t.list = s.list /\ t.values = s.values + 1 /\ t.flags = s.flags
          /\ t.served = s.served \cup {front} /\ t.unblocked = {front} /\ t.ready = s.ready
          /\ t.isBlocked = s.isBlocked
          /\ t.pending = s.pending \cup {front, c} /\ t.pubsub = s.pubsub /\ t.total = s.total
      BY <2>3 DEF SessionType
    <2> HIDE DEF t
    <2> QED
      BY <2>2, <2>4, <2>5 DEF Follows
  <1> QED
    BY <1>1, <1>2

LEMMA LpopFollows ==
    ASSUME NEW s \in SessionType, NEW c \in Clients, c \in Present, NEW ch
    PROVE  Follows(s, handle_lpop(s, c), c, ch)
  <1> DEFINE rest == IF s.list = <<>> THEN s.list ELSE Tail(s.list)
             r == Reply(s, c)
             t == [r EXCEPT !.list = rest]
  <1>0. s.list \in Seq(Nat)
    BY DEF SessionType
  <1>1. rest \in Seq(Nat)
    BY <1>0
  <1>4. handle_lpop(s, c) = t
    BY ReplyFacts DEF handle_lpop
  <1>5. /\ r \in SessionType /\ r.pending = s.pending \cup {c}
        /\ r.values = s.values /\ r.flags = s.flags
        /\ r.total = s.total /\ r.pubsub = s.pubsub /\ r.served = s.served /\ r.ready = s.ready
        /\ r.isBlocked = s.isBlocked
    BY ReplyFacts
  <1> HIDE DEF r
  <1>2. t \in SessionType
    <2> HIDE DEF rest
    <2> QED
      BY <1>1, <1>5 DEF SessionType
  <1>3. /\ t.list = (IF s.list = <<>> THEN s.list ELSE Tail(s.list)) /\ t.values = s.values
        /\ t.flags = s.flags /\ t.served = s.served /\ t.ready = s.ready
        /\ t.isBlocked = s.isBlocked
        /\ t.pending = s.pending \cup {c} /\ t.pubsub = s.pubsub /\ t.total = s.total
    BY <1>5 DEF SessionType
  <1> HIDE DEF t
  <1> QED
    BY <1>2, <1>3, <1>4 DEF Follows

LEMMA BlpopFollows ==
    ASSUME NEW s \in SessionType, NEW c \in Clients, c \in Present, NEW ch
    PROVE  Follows(s, handle_blpop(s, c), c, ch)
  <1>0. s.list \in Seq(Nat) /\ s.blocked \in Seq(Present)
    BY DEF SessionType
  <1>1. CASE s.list = <<>>
    <2> DEFINE t == [s EXCEPT !.blocked = Append(@, c), !.isBlocked = TRUE]
    <2>1. Append(s.blocked, c) \in Seq(Present)
      BY <1>0
    <2>2. t \in SessionType
      BY <2>1 DEF SessionType
    <2>3. /\ t.list = s.list /\ t.values = s.values
          /\ t.flags = s.flags /\ t.served = s.served /\ t.ready = s.ready
          /\ t.pending = s.pending /\ t.pubsub = s.pubsub /\ t.total = s.total
      BY DEF SessionType
    <2>4. handle_blpop(s, c) = t
      BY <1>1 DEF handle_blpop
    <2> HIDE DEF t
    <2> QED
      BY <2>2, <2>3, <2>4 DEF Follows
  <1>2. CASE s.list # <<>>
    <2> DEFINE t == [Reply(s, c) EXCEPT !.list = Tail(@)]
    <2>1. Tail(s.list) \in Seq(Nat)
      BY <1>0, <1>2
    <2>2. t \in SessionType
      BY <2>1, ReplyFacts, ZenonT(60) DEF SessionType
    <2>3. /\ t.list = Tail(s.list) /\ t.values = s.values
          /\ t.flags = s.flags /\ t.served = s.served /\ t.ready = s.ready
          /\ t.isBlocked = s.isBlocked
          /\ t.pending = s.pending \cup {c} /\ t.pubsub = s.pubsub /\ t.total = s.total
      BY ReplyFacts, ZenonT(60) DEF SessionType
    <2>4. handle_blpop(s, c) = t
      BY <1>2 DEF handle_blpop
    <2> HIDE DEF t
    <2> QED
      BY <1>2, <2>2, <2>3, <2>4 DEF Follows
  <1> QED
    BY <1>1, <1>2

LEMMA MultiFollows ==
    ASSUME NEW s \in SessionType, NEW c \in Clients, c \in Present, NEW ch
    PROVE  Follows(s, handle_multi(s, c), c, ch)
  <1> DEFINE r == Reply(s, c)
             t == [r EXCEPT !.flags[c] = @ \cup {"MULTI"}]
  <1>1. /\ r \in SessionType /\ r.pending = s.pending \cup {c} /\ r.list = s.list
        /\ r.values = s.values /\ r.flags = s.flags
        /\ r.total = s.total /\ r.pubsub = s.pubsub /\ r.served = s.served /\ r.ready = s.ready
        /\ r.isBlocked = s.isBlocked
    BY ReplyFacts
  <1>2. handle_multi(s, c) = t
    BY DEF handle_multi
  <1> HIDE DEF r
  <1>3. t = [r EXCEPT !.flags = [r.flags EXCEPT ![c] = r.flags[c] \cup {"MULTI"}]]
    BY <1>1 DEF SessionType
  <1>4. [r.flags EXCEPT ![c] = r.flags[c] \cup {"MULTI"}] \in [Clients -> SUBSET {"MULTI", "PUBSUB"}]
    BY <1>1 DEF SessionType
  <1>5. t \in SessionType
    BY <1>1, <1>3, <1>4 DEF SessionType
  <1>6. /\ t.list = s.list /\ t.values = s.values /\ t.served = s.served /\ t.ready = s.ready
        /\ t.isBlocked = s.isBlocked
        /\ t.pending = s.pending \cup {c} /\ t.pubsub = s.pubsub /\ t.total = s.total
        /\ \A d \in Clients \ {c} : t.flags[d] = s.flags[d]
    BY <1>1, <1>3 DEF SessionType
  <1> HIDE DEF t
  <1> QED
    BY <1>2, <1>5, <1>6 DEF Follows

LEMMA SubscribeFollows ==
    ASSUME NEW s \in SessionType, NEW c \in Clients, c \in Present, NEW ch \in Channels
    PROVE  Follows(s, handleSubscribe(s, c, ch), c, ch)
  <1> DEFINE r == Reply(s, c)
             subs == [s.pubsub EXCEPT ![ch] = Append(@, c)]
             fl == [s.flags EXCEPT ![c] = @ \cup {"PUBSUB"}]
             tot == [s.total EXCEPT ![c] = @ + 1]
             t == [r EXCEPT !.pubsub = subs, !.flags = fl, !.total = tot]
  <1>1. /\ r \in SessionType /\ r.pending = s.pending \cup {c} /\ r.list = s.list
        /\ r.values = s.values /\ r.flags = s.flags
        /\ r.total = s.total /\ r.pubsub = s.pubsub /\ r.served = s.served /\ r.ready = s.ready
        /\ r.isBlocked = s.isBlocked
    BY ReplyFacts
  <1>2. handleSubscribe(s, c, ch) = t
    <2>1. handleSubscribe(s, c, ch) = [r EXCEPT !.pubsub[ch] = Append(@, c),
                                                !.flags[c] = @ \cup {"PUBSUB"},
                                                !.total[c] = @ + 1]
      BY DEF handleSubscribe
    <2> HIDE DEF r
    <2> QED
      BY <1>1, <2>1 DEF SessionType
  <1>3. /\ s.pubsub \in [Channels -> Seq(Present)] /\ s.total \in [Clients -> Nat]
        /\ s.flags \in [Clients -> SUBSET {"MULTI", "PUBSUB"}]
    BY DEF SessionType
  <1>4. Append(s.pubsub[ch], c) \in Seq(Present)
    BY <1>3, AppendProperties
  <1>5. /\ subs \in [Channels -> Seq(Present)] /\ tot \in [Clients -> Nat]
        /\ fl \in [Clients -> SUBSET {"MULTI", "PUBSUB"}]
        /\ \A d \in Clients \ {c} : fl[d] = s.flags[d]
    BY <1>3, <1>4
  <1> HIDE DEF r, fl
  <1>6. t \in SessionType
    <2> HIDE DEF subs, tot
    <2> QED
      BY <1>1, <1>5 DEF SessionType
  <1>7. /\ t.list = s.list /\ t.values = s.values /\ t.served = s.served /\ t.ready = s.ready
        /\ t.isBlocked = s.isBlocked
        /\ t.pending = s.pending \cup {c} /\ t.pubsub = subs /\ t.total = tot
        /\ t.flags = fl
    <2> HIDE DEF subs, tot
    <2> QED
      BY <1>1 DEF SessionType
  <1> HIDE DEF t
  <1> QED
    BY <1>2, <1>5, <1>6, <1>7 DEF Follows

LEMMA PublishFollows ==
    ASSUME NEW s \in SessionType, NEW c \in Clients, c \in Present, NEW ch \in Channels
    PROVE  Follows(s, handlePublish(s, c, ch), c, ch)
  <1> DEFINE subscribers == {s.pubsub[ch][i] : i \in DOMAIN s.pubsub[ch]}
             r == Reply(s, c)
             t == [r EXCEPT !.pending = @ \cup subscribers, !.ready = @ \cup subscribers]
  <1>1. /\ r \in SessionType /\ r.pending = s.pending \cup {c} /\ r.list = s.list
        /\ r.values = s.values /\ r.flags = s.flags
        /\ r.total = s.total /\ r.pubsub = s.pubsub /\ r.served = s.served /\ r.ready = s.ready
        /\ r.isBlocked = s.isBlocked
    BY ReplyFacts
  <1>2. handlePublish(s, c, ch) = t
    BY DEF handlePublish
  <1>3. subscribers \subseteq Present
    <2>1. s.pubsub[ch] \in Seq(Present)
      BY DEF SessionType
    <2>2. \A i \in DOMAIN s.pubsub[ch] : s.pubsub[ch][i] \in Present
      BY <2>1
    <2> QED
      BY <2>2
  <1> HIDE DEF r, subscribers
  <1>4. t \in SessionType
    BY <1>1, <1>3 DEF SessionType
  <1>5. /\ t.list = s.list /\ t.values = s.values /\ t.served = s.served
        /\ t.ready = s.ready \cup subscribers /\ t.flags = s.flags
        /\ t.pending = s.pending \cup {c} \cup subscribers /\ t.pubsub = s.pubsub /\ t.total = s.total
    BY <1>1 DEF SessionType
  <1>6. t.isBlocked = s.isBlocked
    BY <1>1 DEF SessionType
  <1> HIDE DEF t
  <1> QED
    BY <1>2, <1>4, <1>5, <1>6 DEF Follows

\* Every command of DB::call.
LEMMA CallFollows ==
    ASSUME NEW s \in SessionType, NEW c \in Clients, c \in Present, NEW type, NEW ch \in Channels
    PROVE  Follows(s, call(s, c, type, ch), c, ch)
  <1>1. \/ call(s, c, type, ch) = handle_push(s, c) \/ call(s, c, type, ch) = handle_lpop(s, c)
        \/ call(s, c, type, ch) = handle_blpop(s, c) \/ call(s, c, type, ch) = handle_multi(s, c)
        \/ call(s, c, type, ch) = handleSubscribe(s, c, ch)
        \/ call(s, c, type, ch) = handlePublish(s, c, ch)
        \/ call(s, c, type, ch) = Reply(s, c)
    BY DEF call
  <1> QED
    BY <1>1, PushFollows, LpopFollows, BlpopFollows, MultiFollows, SubscribeFollows,
       PublishFollows, ReplyFollows

-----------------------------------------------------------------------------
(* Counting subscriptions.                                                 *)

\* The entries of client c in the subscriber lists p.
Entries(p, c) ==
    {e \in Channels \X Nat : e[2] \in DOMAIN p[e[1]] /\ p[e[1]][e[2]] = c}

\* tot counts the entries of every client.
Counted(p, tot) ==
    \A c \in Clients : IsFiniteSet(Entries(p, c)) /\ tot[c] = Cardinality(Entries(p, c))

\* SUBSCRIBE adds one entry.
LEMMA SubscribeCounts ==
    ASSUME NEW p \in [Channels -> Seq(Present)], NEW tot \in [Clients -> Nat], Counted(p, tot),
           NEW c \in Clients, NEW ch \in Channels
    PROVE  Counted([p EXCEPT ![ch] = Append(@, c)], [tot EXCEPT ![c] = @ + 1])
  <1> DEFINE q == [p EXCEPT ![ch] = Append(@, c)]
             n == Len(p[ch])
             new == <<ch, n + 1>>
  <1>1. p[ch] \in Seq(Present) /\ n \in Nat /\ DOMAIN p[ch] = 1 .. n
    OBVIOUS
  <1>2. /\ DOMAIN q[ch] = 1 .. n + 1 /\ q[ch][n + 1] = c
        /\ \A i \in 1 .. n : q[ch][i] = p[ch][i]
        /\ \A x \in Channels \ {ch} : q[x] = p[x]
    <2>1. q[ch] = Append(p[ch], c) /\ \A x \in Channels \ {ch} : q[x] = p[x]
      OBVIOUS
    <2> HIDE DEF q
    <2> QED
      BY <1>1, <2>1, AppendProperties
  <1> HIDE DEF q, n
  <1>3. new \in Channels \X Nat /\ new[1] = ch /\ new[2] = n + 1
    BY <1>1
  <1>4. ASSUME NEW e \in Channels \X Nat, e # new
        PROVE  e[1] # ch \/ e[2] # n + 1
    BY <1>4
  <1>5. ASSUME NEW d \in Clients
        PROVE  /\ d # c => Entries(q, d) = Entries(p, d)
               /\ d = c => Entries(q, d) = Entries(p, d) \cup {new}
               /\ new \notin Entries(p, d)
    <2>1. ASSUME NEW e \in Channels \X Nat, e # new
          PROVE  e \in Entries(q, d) <=> e \in Entries(p, d)
      <3>1. CASE e[1] # ch
        <4>1. e[1] \in Channels
          OBVIOUS
        <4>2. q[e[1]] = p[e[1]]
          BY <1>2, <3>1, <4>1
        <4> QED
          BY <4>2 DEF Entries
      <3>2. CASE e[1] = ch
        <4>1. e[2] # n + 1 /\ e[2] \in Nat
          BY <1>4, <2>1, <3>2
        <4>2. e[2] \in DOMAIN q[ch] <=> e[2] \in DOMAIN p[ch]
          BY <1>1, <1>2, <4>1
        <4>3. e[2] \in DOMAIN p[ch] => q[ch][e[2]] = p[ch][e[2]]
          BY <1>1, <1>2
        <4> QED
          BY <3>2, <4>2, <4>3 DEF Entries
      <3> QED
        BY <3>1, <3>2
    <2>2. new \notin Entries(p, d)
      BY <1>1, <1>3 DEF Entries
    <2>3. new \in Entries(q, d) <=> d = c
      <3>1. n + 1 \in DOMAIN q[ch]
        BY <1>1, <1>2
      <3> HIDE DEF new
      <3> QED
        BY <1>2, <1>3, <3>1 DEF Entries
    <2>4. Entries(p, d) \subseteq Channels \X Nat /\ Entries(q, d) \subseteq Channels \X Nat
      BY DEF Entries
    <2> HIDE DEF new
    <2>5. ASSUME d # c
          PROVE  Entries(q, d) = Entries(p, d)
      <3>1. \A e \in Channels \X Nat : e \in Entries(q, d) <=> e \in Entries(p, d)
        BY <2>1, <2>2, <2>3, <2>5
      <3> QED
        BY <2>4, <3>1
    <2>6. ASSUME d = c
          PROVE  Entries(q, d) = Entries(p, d) \cup {new}
      BY <2>1, <2>2, <2>3, <2>4, <2>6
    <2> QED
      BY <2>2, <2>5, <2>6
  <1> HIDE DEF new
  <1> DEFINE tot2 == [tot EXCEPT ![c] = @ + 1]
  <1>6. tot2[c] = tot[c] + 1 /\ \A d \in Clients \ {c} : tot2[d] = tot[d]
    OBVIOUS
  <1> HIDE DEF tot2
  <1>7. ASSUME NEW d \in Clients
        PROVE  IsFiniteSet(Entries(q, d)) /\ tot2[d] = Cardinality(Entries(q, d))
    <2>1. IsFiniteSet(Entries(p, d)) /\ tot[d] = Cardinality(Entries(p, d))
      BY DEF Counted
    <2>2. CASE d # c
      BY <1>5, <1>6, <2>1, <2>2
    <2>3. CASE d = c
      <3>1. Entries(q, d) = Entries(p, d) \cup {new} /\ new \notin Entries(p, d)
        BY <1>5, <2>3
      <3>2. /\ IsFiniteSet(Entries(p, d) \cup {new})
            /\ Cardinality(Entries(p, d) \cup {new}) = Cardinality(Entries(p, d)) + 1
        BY <2>1, <3>1, FS_AddElement
      <3> QED
        BY <1>6, <2>1, <2>3, <3>1, <3>2
    <2> QED
      BY <2>2, <2>3
  <1>8. Counted(q, tot2)
    BY <1>7 DEF Counted
  <1> QED
    BY <1>8 DEF q, tot2

\* Removing an element moves the later ones down.
LEMMA RemoveAtFacts ==
    ASSUME NEW T, NEW s \in Seq(T), NEW m \in 1 .. Len(s)
    PROVE  /\ RemoveAt(s, m) \in Seq(T)
           /\ Len(RemoveAt(s, m)) = Len(s) - 1
           /\ \A i \in 1 .. Len(s) - 1 : RemoveAt(s, m)[i] = IF i < m THEN s[i] ELSE s[i + 1]
  <1> DEFINE a == SubSeq(s, 1, m - 1)
             b == SubSeq(s, m + 1, Len(s))
  <1>0. Len(s) \in Nat /\ m \in Nat /\ m > 0 /\ m <= Len(s) /\ \A i \in 1 .. Len(s) : s[i] \in T
    OBVIOUS
  <1>1. /\ a \in Seq(T) /\ Len(a) = m - 1 /\ \A i \in 1 .. m - 1 : a[i] = s[i]
    <2>1. \A i \in 1 .. m - 1 : s[i] \in T
      BY <1>0
    <2>2. /\ a \in Seq(T) /\ Len(a) = IF 1 <= m - 1 THEN m - 1 - 1 + 1 ELSE 0
          /\ \A i \in 1 .. m - 1 - 1 + 1 : a[i] = s[1 + i - 1]
      BY <1>0, <2>1, SubSeqProperties
    <2> HIDE DEF a
    <2>3. Len(a) = m - 1
      BY <1>0, <2>2
    <2>4. \A i \in 1 .. m - 1 : i \in 1 .. m - 1 - 1 + 1 /\ 1 + i - 1 = i
      BY <1>0
    <2> QED
      BY <2>2, <2>3, <2>4
  <1>2. /\ b \in Seq(T) /\ Len(b) = Len(s) - m /\ \A i \in 1 .. Len(s) - m : b[i] = s[m + i]
    <2>1. \A i \in m + 1 .. Len(s) : s[i] \in T
      BY <1>0
    <2>2. /\ b \in Seq(T) /\ Len(b) = IF m + 1 <= Len(s) THEN Len(s) - (m + 1) + 1 ELSE 0
          /\ \A i \in 1 .. Len(s) - (m + 1) + 1 : b[i] = s[m + 1 + i - 1]
      BY <1>0, <2>1, SubSeqProperties
    <2> HIDE DEF b
    <2>3. Len(b) = Len(s) - m
      BY <1>0, <2>2
    <2>4. \A i \in 1 .. Len(s) - m : i \in 1 .. Len(s) - (m + 1) + 1 /\ m + 1 + i - 1 = m + i
      BY <1>0
    <2> QED
      BY <2>2, <2>3, <2>4
  <1>3. RemoveAt(s, m) = a \o b
    BY DEF RemoveAt
  <1> HIDE DEF a, b
  <1>4. /\ a \o b \in Seq(T) /\ Len(a \o b) = Len(a) + Len(b)
        /\ \A i \in 1 .. Len(a) + Len(b) : (a \o b)[i] = IF i <= Len(a) THEN a[i] ELSE b[i - Len(a)]
    BY <1>1, <1>2, ConcatProperties
  <1>5. Len(a) + Len(b) = Len(s) - 1
    BY <1>0, <1>1, <1>2
  <1>6. ASSUME NEW i \in 1 .. Len(s) - 1
        PROVE  (a \o b)[i] = IF i < m THEN s[i] ELSE s[i + 1]
    <2>1. CASE i < m
      <3>1. i \in 1 .. m - 1 /\ i <= Len(a)
        BY <1>0, <1>1, <2>1
      <3> QED
        BY <1>1, <1>4, <1>5, <2>1, <3>1
    <2>2. CASE ~(i < m)
      <3>1. i - (m - 1) \in 1 .. Len(s) - m /\ ~(i <= Len(a)) /\ m + (i - (m - 1)) = i + 1
        BY <1>0, <1>1, <2>2
      <3>2. (a \o b)[i] = b[i - (m - 1)]
        BY <1>1, <1>4, <1>5, <3>1
      <3>3. b[i - (m - 1)] = s[i + 1]
        BY <1>2, <3>1
      <3> QED
        BY <2>2, <3>2, <3>3
    <2> QED
      BY <2>1, <2>2
  <1> QED
    BY <1>3, <1>4, <1>5, <1>6

\* UNSUBSCRIBE removes one entry; the later ones of the channel move down.
LEMMA UnsubscribeCounts ==
    ASSUME NEW p \in [Channels -> Seq(Present)], NEW tot \in [Clients -> Nat], Counted(p, tot),
           NEW c \in Clients, NEW ch \in Channels, NEW m \in 1 .. Len(p[ch]), p[ch][m] = c
    PROVE  /\ [p EXCEPT ![ch] = RemoveAt(@, m)] \in [Channels -> Seq(Present)]
           /\ [tot EXCEPT ![c] = @ - 1] \in [Clients -> Nat]
           /\ Counted([p EXCEPT ![ch] = RemoveAt(@, m)], [tot EXCEPT ![c] = @ - 1])
  <1> DEFINE q == [p EXCEPT ![ch] = RemoveAt(@, m)]
             n == Len(p[ch])
             old == <<ch, m>>
             tot2 == [tot EXCEPT ![c] = @ - 1]
  <1>1. p[ch] \in Seq(Present) /\ n \in Nat /\ DOMAIN p[ch] = 1 .. n
    OBVIOUS
  <1>2. /\ q[ch] \in Seq(Present) /\ DOMAIN q[ch] = 1 .. n - 1
        /\ \A i \in 1 .. n - 1 : q[ch][i] = IF i < m THEN p[ch][i] ELSE p[ch][i + 1]
        /\ \A x \in Channels \ {ch} : q[x] = p[x]
        /\ q \in [Channels -> Seq(Present)]
    <2>1. /\ RemoveAt(p[ch], m) \in Seq(Present) /\ Len(RemoveAt(p[ch], m)) = n - 1
          /\ \A i \in 1 .. n - 1 : RemoveAt(p[ch], m)[i] = IF i < m THEN p[ch][i] ELSE p[ch][i + 1]
      BY <1>1, RemoveAtFacts
    <2>2. q[ch] = RemoveAt(p[ch], m) /\ \A x \in Channels \ {ch} : q[x] = p[x]
      OBVIOUS
    <2>3. q \in [Channels -> Seq(Present)]
      BY <2>1
    <2> HIDE DEF q, n
    <2>4. DOMAIN q[ch] = 1 .. n - 1
      BY <2>1, <2>2, LenProperties
    <2> QED
      BY <2>1, <2>2, <2>3, <2>4
  <1>3. m \in 1 .. n /\ n \in Nat
    BY <1>1
  <1> HIDE DEF q, n
  <1>4. ASSUME NEW d \in Clients
        PROVE  ExistsBijection(Entries(p, d) \ {old}, Entries(q, d))
    <2> DEFINE E == Entries(p, d) \ {old}
               F == Entries(q, d)
               h == [e \in E |-> IF e[1] = ch /\ e[2] > m THEN <<ch, e[2] - 1>> ELSE e]
    <2>1. ASSUME NEW e \in E
          PROVE  /\ e \in Channels \X Nat /\ e[1] \in Channels /\ e[2] \in Nat
                 /\ e[2] \in DOMAIN p[e[1]] /\ p[e[1]][e[2]] = d
                 /\ e[1] = ch => e[2] # m /\ e[2] \in 1 .. n
      <3>1. e \in Channels \X Nat /\ e[2] \in DOMAIN p[e[1]] /\ p[e[1]][e[2]] = d /\ e # old
        BY DEF Entries
      <3>2. e = <<e[1], e[2]>>
        BY <3>1
      <3> QED
        BY <1>1, <3>1, <3>2
    <2>2. ASSUME NEW e \in Channels \X Nat
          PROVE  e \in F <=> (e[2] \in DOMAIN q[e[1]] /\ q[e[1]][e[2]] = d)
      BY DEF Entries
    <2>3. ASSUME NEW e \in Channels \X Nat, e # old
          PROVE  e \in E <=> (e[2] \in DOMAIN p[e[1]] /\ p[e[1]][e[2]] = d)
      BY <2>3 DEF Entries
    <2>4. F \subseteq Channels \X Nat
      BY DEF Entries
    <2>5. ASSUME NEW e \in E
          PROVE  h[e] \in F
      <3>1. CASE e[1] = ch /\ e[2] > m
        <4>1. h[e] = <<ch, e[2] - 1>>
          BY <3>1
        <4>2. e[2] - 1 \in 1 .. n - 1 /\ ~(e[2] - 1 < m) /\ e[2] - 1 + 1 = e[2] /\ e[2] - 1 \in Nat
          BY <1>3, <2>1, <3>1
        <4>3. q[ch][e[2] - 1] = d
          BY <1>2, <2>1, <3>1, <4>2
        <4>4. <<ch, e[2] - 1>> \in F
          BY <1>2, <2>2, <4>2, <4>3
        <4> QED
          BY <4>1, <4>4
      <3>2. CASE e[1] = ch /\ ~(e[2] > m)
        <4>1. h[e] = e
          BY <3>2
        <4>2. e[2] \in 1 .. n - 1 /\ e[2] < m
          BY <1>3, <2>1, <3>2
        <4>3. q[ch][e[2]] = d
          BY <1>2, <2>1, <3>2, <4>2
        <4> QED
          BY <1>2, <2>1, <2>2, <3>2, <4>1, <4>2, <4>3
      <3>3. CASE e[1] # ch
        <4>1. h[e] = e
          BY <3>3
        <4>2. q[e[1]] = p[e[1]]
          BY <1>2, <2>1, <3>3
        <4> QED
          BY <2>1, <2>2, <4>1, <4>2
      <3> QED
        BY <3>1, <3>2, <3>3
    <2>6. ASSUME NEW e \in E, NEW f \in E, h[e] = h[f]
          PROVE  e = f
      <3>1. /\ e = <<e[1], e[2]>> /\ f = <<f[1], f[2]>>
            /\ e[2] \in Nat /\ f[2] \in Nat
            /\ e[1] = ch => e[2] # m
            /\ f[1] = ch => f[2] # m
        BY <2>1
      <3>2. /\ h[e] = IF e[1] = ch /\ e[2] > m THEN <<ch, e[2] - 1>> ELSE e
            /\ h[f] = IF f[1] = ch /\ f[2] > m THEN <<ch, f[2] - 1>> ELSE f
        OBVIOUS
      <3> HIDE DEF h, E
      <3>3. CASE (e[1] = ch /\ e[2] > m) /\ (f[1] = ch /\ f[2] > m)
        <4>0. <<ch, e[2] - 1>> = <<ch, f[2] - 1>>
          BY <2>6, <3>2, <3>3
        <4>1. e[2] - 1 = f[2] - 1
          BY <4>0
        <4> QED
          BY <3>1, <3>3, <4>1
      <3>4. CASE (e[1] = ch /\ e[2] > m) /\ ~(f[1] = ch /\ f[2] > m)
        <4>1. f = <<ch, e[2] - 1>>
          BY <2>6, <3>2, <3>4
        <4>2. f[1] = ch /\ f[2] = e[2] - 1
          BY <4>1
        <4> QED
          BY <1>3, <3>1, <3>4, <4>2
      <3>5. CASE ~(e[1] = ch /\ e[2] > m) /\ (f[1] = ch /\ f[2] > m)
        <4>1. e = <<ch, f[2] - 1>>
          BY <2>6, <3>2, <3>5
        <4>2. e[1] = ch /\ e[2] = f[2] - 1
          BY <4>1
        <4> QED
          BY <1>3, <3>1, <3>5, <4>2
      <3>6. CASE ~(e[1] = ch /\ e[2] > m) /\ ~(f[1] = ch /\ f[2] > m)
        BY <2>6, <3>2, <3>6
      <3> QED
        BY <3>3, <3>4, <3>5, <3>6
    <2>7. ASSUME NEW f \in F
          PROVE  \E e \in E : h[e] = f
      <3>1. f \in Channels \X Nat /\ f[2] \in DOMAIN q[f[1]] /\ q[f[1]][f[2]] = d
        BY <2>2, <2>4
      <3>2. f = <<f[1], f[2]>> /\ f[1] \in Channels /\ f[2] \in Nat
        BY <3>1
      <3>3. CASE f[1] = ch /\ ~(f[2] < m)
        <4> DEFINE e == <<ch, f[2] + 1>>
        <4>1. e \in Channels \X Nat /\ e[1] = ch /\ e[2] = f[2] + 1 /\ e # old
          BY <1>3, <3>2, <3>3
        <4>2. f[2] \in 1 .. n - 1
          BY <1>2, <3>1, <3>3
        <4>3. p[ch][f[2] + 1] = d /\ f[2] + 1 \in 1 .. n
          BY <1>2, <1>3, <3>1, <3>3, <4>2
        <4>4. e \in E
          BY <1>1, <2>3, <4>1, <4>3 DEF n
        <4>5. e[2] > m /\ e[2] - 1 = f[2]
          BY <1>3, <3>2, <3>3, <4>1
        <4>6. h[e] = <<ch, f[2]>>
          BY <4>1, <4>4, <4>5
        <4> QED
          BY <3>2, <3>3, <4>4, <4>6
      <3>4. CASE f[1] = ch /\ f[2] < m
        <4>1. f[2] \in 1 .. n - 1 /\ f # old
          BY <1>2, <1>3, <3>1, <3>4
        <4>2. p[ch][f[2]] = d /\ f[2] \in 1 .. n
          BY <1>2, <1>3, <3>1, <3>4, <4>1
        <4>3. f \in E
          BY <1>1, <2>3, <3>1, <3>4, <4>1, <4>2 DEF n
        <4>4. ~(f[2] > m)
          BY <1>3, <3>2, <3>4
        <4> QED
          BY <4>3, <4>4
      <3>5. CASE f[1] # ch
        <4>1. q[f[1]] = p[f[1]] /\ f # old
          BY <1>2, <3>2, <3>5
        <4>2. f \in E
          BY <2>3, <3>1, <4>1
        <4> QED
          BY <3>5, <4>2
      <3> QED
        BY <3>3, <3>4, <3>5
    <2>8. h \in [E -> F]
      <3>1. h = [e \in E |-> h[e]]
        OBVIOUS
      <3> HIDE DEF h, E, F
      <3> QED
        BY <2>5, <3>1
    <2> HIDE DEF h, E, F
    <2>9. h \in Bijection(E, F)
      BY <2>6, <2>7, <2>8 DEF Bijection, Injection, Surjection, IsInjective
    <2>10. ExistsBijection(E, F)
      BY <2>9 DEF ExistsBijection
    <2> QED
      BY <2>10 DEF E, F
  <1>5. ASSUME NEW d \in Clients
        PROVE  old \in Entries(p, d) <=> d = c
    <2>1. old \in Channels \X Nat /\ old[1] = ch /\ old[2] = m /\ m \in DOMAIN p[ch]
      BY <1>1
    <2> HIDE DEF old
    <2> QED
      BY <2>1 DEF Entries
  <1> HIDE DEF old
  <1>6. ASSUME NEW d \in Clients
        PROVE  /\ IsFiniteSet(Entries(q, d))
               /\ Cardinality(Entries(q, d)) = IF d = c THEN tot[d] - 1 ELSE tot[d]
               /\ d = c => tot[d] > 0
    <2>1. IsFiniteSet(Entries(p, d)) /\ tot[d] = Cardinality(Entries(p, d)) /\ tot[d] \in Nat
      BY DEF Counted
    <2>2. /\ IsFiniteSet(Entries(p, d) \ {old})
          /\ Cardinality(Entries(p, d) \ {old}) = IF d = c THEN tot[d] - 1 ELSE tot[d]
      BY <1>5, <2>1, FS_RemoveElement
    <2>3. /\ IsFiniteSet(Entries(q, d))
          /\ Cardinality(Entries(q, d)) = Cardinality(Entries(p, d) \ {old})
      BY <1>4, <2>2, FS_Bijection
    <2>4. d = c => tot[d] > 0
      <3>1. d = c => Entries(p, d) # {}
        BY <1>5
      <3>2. Entries(p, d) # {} => tot[d] # 0
        BY <2>1, FS_EmptySet
      <3> QED
        BY <2>1, <3>1, <3>2
    <2> QED
      BY <2>2, <2>3, <2>4
  <1>7. tot2 \in [Clients -> Nat] /\ tot2[c] = tot[c] - 1 /\ \A d \in Clients \ {c} : tot2[d] = tot[d]
    <2>1. tot[c] \in Nat /\ tot[c] > 0
      BY <1>6
    <2>2. tot[c] - 1 \in Nat
      BY <2>1
    <2> QED
      BY <2>2
  <1> HIDE DEF tot2
  <1>8. Counted(q, tot2)
    BY <1>6, <1>7 DEF Counted
  <1> QED
    BY <1>2, <1>7, <1>8 DEF q, tot2

-----------------------------------------------------------------------------
(* The queue of a transaction.                                             *)

\* The elements of the list are numbers handed out already.
Numbered == list \in Seq(1 .. values)

\* A client that has not connected has left no trace.
Fresh ==
    /\ open \subseteq Present /\ pending \subseteq Present
    /\ blocked \in Seq(Present) /\ pubsub_clients \in [Channels -> Seq(Present)]

\* The sessions that commands of c can leave behind.
Reachable(c) ==
    {s \in SessionType :
        /\ s.list \in Seq(1 .. s.values)
        /\ values <= s.values
        /\ Counted(s.pubsub, s.total)
        /\ \A d \in Clients \ {c} : s.flags[d] = flags[d]
        /\ s.pending \subseteq pending \cup {c} \cup s.served \cup s.ready}

\* The session a command starts from.
LEMMA SessionFacts ==
    ASSUME TypeOK, Numbered, Fresh
    PROVE  /\ Session \in SessionType
           /\ Session.list = list /\ Session.blocked = blocked /\ Session.values = values
           /\ Session.pubsub = pubsub_clients /\ Session.flags = flags /\ Session.total = total
           /\ Session.pending = pending /\ Session.isBlocked = FALSE /\ Session.unblocked = {}
           /\ Session.served = {} /\ Session.ready = {}
  <1>1. /\ list \in Seq(Nat) /\ blocked \in Seq(Present)
        /\ pubsub_clients \in [Channels -> Seq(Present)]
        /\ flags \in [Clients -> SUBSET {"MULTI", "PUBSUB"}] /\ total \in [Clients -> Nat]
        /\ pending \subseteq Present /\ values \in Nat
    <2>1. values \in 0 .. MaxValue /\ MaxValue \in Nat
      BY ConstantsAssumption DEF TypeOK
    <2>2. 1 .. values \subseteq Nat
      BY <2>1
    <2>3. list \in Seq(Nat)
      BY <2>2, SeqMonotonic DEF Numbered
    <2> QED
      BY <2>1, <2>3 DEF TypeOK, Fresh
  <1> QED
    BY <1>1 DEF Session, SessionType

\* Following a reachable session leaves a reachable one.
LEMMA ReachableClosed ==
    ASSUME TypeOK, NEW c \in Clients, c \in Present, NEW ch \in Channels, NEW s \in Reachable(c), NEW t,
           Follows(s, t, c, ch)
    PROVE  t \in Reachable(c)
  <1>1. /\ s \in SessionType /\ s.list \in Seq(1 .. s.values) /\ values <= s.values
        /\ Counted(s.pubsub, s.total)
        /\ \A d \in Clients \ {c} : s.flags[d] = flags[d]
        /\ s.pending \subseteq pending \cup {c} \cup s.served \cup s.ready
    BY DEF Reachable
  <1>2. /\ s.values \in Nat /\ t.values \in Nat /\ t \in SessionType /\ values \in Nat
        /\ s.pubsub \in [Channels -> Seq(Present)] /\ s.total \in [Clients -> Nat]
    <2>1. values \in 0 .. MaxValue /\ MaxValue \in Nat
      BY ConstantsAssumption DEF TypeOK
    <2>2. t \in SessionType
      BY DEF Follows
    <2> QED
      BY <1>1, <2>1, <2>2, SMTT(30) DEF SessionType
  <1>3. values <= t.values
    BY <1>1, <1>2 DEF Follows
  <1>4. t.list \in Seq(1 .. t.values)
    <2>1. CASE t.list = s.list /\ t.values \in {s.values, s.values + 1}
      <3>1. 1 .. s.values \subseteq 1 .. t.values
        BY <1>2, <2>1
      <3> QED
        BY <1>1, <2>1, <3>1, SeqMonotonic
    <2>2. CASE s.list # <<>> /\ t.list = Tail(s.list) /\ t.values = s.values
      BY <1>1, <2>2, HeadTailProperties
    <2>3. CASE t.list = Append(s.list, s.values + 1) /\ t.values = s.values + 1
      <3>1. 1 .. s.values \subseteq 1 .. t.values /\ s.values + 1 \in 1 .. t.values
        BY <1>2, <2>3
      <3>2. s.list \in Seq(1 .. t.values)
        BY <1>1, <3>1, SeqMonotonic
      <3> QED
        BY <2>3, <3>1, <3>2, AppendProperties
    <2> QED
      BY <2>1, <2>2, <2>3 DEF Follows
  <1>5. Counted(t.pubsub, t.total)
    <2>1. CASE t.pubsub = s.pubsub /\ t.total = s.total
      BY <1>1, <2>1
    <2>2. CASE /\ t.pubsub = [s.pubsub EXCEPT ![ch] = Append(@, c)]
               /\ t.total = [s.total EXCEPT ![c] = @ + 1]
      <3>1. Counted([s.pubsub EXCEPT ![ch] = Append(@, c)], [s.total EXCEPT ![c] = @ + 1])
        <4> DEFINE p == s.pubsub
                   tot == s.total
        <4>1. /\ p \in [Channels -> Seq(Present)] /\ tot \in [Clients -> Nat] /\ Counted(p, tot)
          BY <1>1, <1>2
        <4> HIDE DEF p, tot
        <4>2. Counted([p EXCEPT ![ch] = Append(@, c)], [tot EXCEPT ![c] = @ + 1])
          BY <4>1, SubscribeCounts
        <4> QED
          BY <4>2 DEF p, tot
      <3> QED
        BY <2>2, <3>1
    <2> QED
      BY <2>1, <2>2 DEF Follows
  <1>6. /\ \A d \in Clients \ {c} : t.flags[d] = flags[d]
        /\ t.pending \subseteq pending \cup {c} \cup t.served \cup t.ready
    BY <1>1 DEF Follows
  <1> QED
    BY <1>2, <1>3, <1>4, <1>5, <1>6 DEF Reachable

\* The session with the answer of its own command in it.
LEMMA FirstReachable ==
    ASSUME TypeOK, Numbered, Fresh, Counted(pubsub_clients, total), NEW c \in Clients, c \in Present
    PROVE  Session \in Reachable(c) /\ Reply(Session, c) \in Reachable(c)
  <1>1. Session \in Reachable(c)
    <2>1. values \in Nat /\ values <= values
      <3>1. values \in 0 .. MaxValue /\ MaxValue \in Nat
        BY ConstantsAssumption DEF TypeOK
      <3> QED
        BY <3>1
    <2> QED
      BY <2>1, SessionFacts DEF Reachable, Numbered
  <1> DEFINE t == Reply(Session, c)
  <1>2. /\ t \in SessionType /\ t.pending = Session.pending \cup {c} /\ t.list = Session.list
        /\ t.values = Session.values /\ t.pubsub = Session.pubsub /\ t.total = Session.total
        /\ t.flags = Session.flags
    BY SessionFacts, ReplyFacts
  <1>3. /\ Session.list \in Seq(1 .. Session.values) /\ values <= Session.values
        /\ Counted(Session.pubsub, Session.total)
        /\ \A d \in Clients \ {c} : Session.flags[d] = flags[d]
        /\ Session.pending = pending
    BY <1>1, SessionFacts DEF Reachable
  <1> HIDE DEF t
  <1>4. t \in Reachable(c)
    BY <1>2, <1>3 DEF Reachable
  <1> QED
    BY <1>1, <1>4 DEF t

\* EXEC leaves a reachable session.
LEMMA QueueReachable ==
    ASSUME TypeOK, Numbered, Fresh, Counted(pubsub_clients, total),
           NEW c \in Clients, c \in Present, NEW ch \in Channels
    PROVE  RunQueue(c, ch) \in Reachable(c)
  <1> DEFINE q == queued_commands[c]
             N == Len(q)
             X == Reachable(c)
             base == Reply(Session, c)
             step == [p \in X \X (1 .. N) |-> call(p[1], c, q[p[2]], ch)]
             Fix(r) == r = [k \in 0 .. N |-> IF k = 0 THEN base ELSE call(r[k - 1], c, q[k], ch)]
             g == CHOOSE r : Fix(r)
  <1>1. N \in Nat /\ base \in X
    BY FirstReachable DEF TypeOK
  <1>2. \A s \in X : \A k : call(s, c, q[k], ch) \in X
    <2>1. ASSUME NEW s \in X, NEW k
          PROVE  call(s, c, q[k], ch) \in X
      <3>1. s \in SessionType
        BY DEF Reachable
      <3>2. Follows(s, call(s, c, q[k], ch), c, ch)
        BY <3>1, CallFollows
      <3> QED
        BY <3>2, ReachableClosed
    <2> QED
      BY <2>1
  <1>3. RunQueue(c, ch) = g[N]
    BY DEF RunQueue
  <1> HIDE DEF q, N, X, base
  <1>4. step \in [X \X (1 .. N) -> X]
    BY <1>2
  <1>5. PICK f \in [0 .. N -> X] : f[0] = base /\ \A k \in 1 .. N : f[k] = step[<<f[k - 1], k>>]
    <2> HIDE DEF step, Fix, g
    <2>1. StepFunction(X, N, step)
      BY <1>4 DEF StepFunction
    <2>2. PICK f : Computed(X, N, base, step, f)
      BY <1>1, <2>1, RecursionExists
    <2> QED
      BY <2>2 DEF Computed
  <1>6. \A k \in 1 .. N : f[k] = call(f[k - 1], c, q[k], ch)
    <2> SUFFICES ASSUME NEW k \in 1 .. N PROVE f[k] = call(f[k - 1], c, q[k], ch)
      OBVIOUS
    <2>1. f[k - 1] \in X
      BY <1>1
    <2>2. step[<<f[k - 1], k>>] = call(f[k - 1], c, q[k], ch)
      BY <2>1
    <2> QED
      BY <1>5, <2>2
  <1>7. Fix(f)
    BY <1>1, <1>5, <1>6
  <1>8. Fix(g)
    <2> HIDE DEF Fix
    <2> QED
      BY <1>7
  <1>9. 0 .. N \subseteq {k \in 0 .. N : g[k] = f[k]}
    <2> DEFINE S == {k \in 0 .. N : g[k] = f[k]}
    <2>1. /\ \A k \in 0 .. N : g[k] = IF k = 0 THEN base ELSE call(g[k - 1], c, q[k], ch)
      <3> HIDE DEF g
      <3> QED
        BY <1>8
    <2> HIDE DEF g
    <2>2. 0 \in S
      BY <1>1, <1>5, <2>1
    <2>3. \A k \in 0 .. N - 1 : k \in S => k + 1 \in S
      <3> SUFFICES ASSUME NEW k \in 0 .. N - 1, k \in S PROVE g[k + 1] = f[k + 1]
        BY <1>1
      <3>1. k + 1 \in 0 .. N /\ k + 1 \in 1 .. N /\ k + 1 # 0 /\ (k + 1) - 1 = k
        BY <1>1
      <3>2. g[k + 1] = call(g[k], c, q[k + 1], ch)
        BY <2>1, <3>1
      <3>3. f[k + 1] = call(f[k], c, q[k + 1], ch)
        BY <1>6, <3>1
      <3> QED
        BY <3>2, <3>3
    <2> HIDE DEF S
    <2>4. 0 .. N \subseteq S
      BY <1>1, <2>2, <2>3, BoundedInduction
    <2> QED
      BY <2>4 DEF S
  <1>10. N \in 0 .. N
    BY <1>1
  <1> HIDE DEF g
  <1>11. g[N] = f[N] /\ f[N] \in X
    BY <1>9, <1>10
  <1> QED
    BY <1>3, <1>11 DEF X

-----------------------------------------------------------------------------
(* What a replica makes of its stream.                                     *)

Propagated == [type : WriteCommands, value : Nat]

\* f gives the data after each of the commands q.
Replays(d, q, f) ==
    /\ f \in [0 .. Len(q) -> Seq(Nat)]
    /\ f[0] = d
    /\ \A k \in 1 .. Len(q) : f[k] = Apply(f[k - 1], q[k])

LEMMA ApplyType ==
    ASSUME NEW d \in Seq(Nat), NEW x \in Propagated
    PROVE  Apply(d, x) \in Seq(Nat)
  <1>1. x.value \in Nat
    BY DEF Propagated
  <1>2. Append(d, x.value) \in Seq(Nat) /\ (d # <<>> => Tail(d) \in Seq(Nat))
    BY <1>1
  <1>3. Apply(d, x) \in {Append(d, x.value), d} \/ (d # <<>> /\ Apply(d, x) = Tail(d))
    BY DEF Apply
  <1> QED
    BY <1>2, <1>3

\* Replay is what any such function ends with, and there is one.
LEMMA ReplayFunction ==
    ASSUME NEW d \in Seq(Nat), NEW q \in Seq(Propagated)
    PROVE  /\ \E f : Replays(d, q, f)
           /\ \A f : Replays(d, q, f) => Replay(d, q) = f[Len(q)]
  <1> DEFINE N == Len(q)
             X == Seq(Nat)
             step == [p \in X \X (1 .. N) |-> Apply(p[1], q[p[2]])]
             Fix(r) == r = [k \in 0 .. N |-> IF k = 0 THEN d ELSE Apply(r[k - 1], q[k])]
             g == CHOOSE r : Fix(r)
  <1>1. N \in Nat /\ d \in X
    OBVIOUS
  <1>2. \A x \in X : \A k \in 1 .. N : Apply(x, q[k]) \in X
    BY ApplyType, ElementOfSeq
  <1>3. Replay(d, q) = g[N]
    BY DEF Replay
  <1> HIDE DEF N, X
  <1>4. \E f : Replays(d, q, f)
    <2>1. step \in [X \X (1 .. N) -> X]
      BY <1>2
    <2>2. StepFunction(X, N, step)
      BY <2>1 DEF StepFunction
    <2>3. PICK f : Computed(X, N, d, step, f)
      <3> HIDE DEF step, Fix, g
      <3> QED
        BY <1>1, <2>2, RecursionExists
    <2>4. ASSUME NEW k \in 1 .. N
          PROVE  f[k] = Apply(f[k - 1], q[k])
      <3>1. f[k] = step[<<f[k - 1], k>>] /\ f[k - 1] \in X
        <4> HIDE DEF step
        <4>1. k - 1 \in 0 .. N
          BY <1>1
        <4> QED
          BY <2>3, <4>1 DEF Computed
      <3> QED
        BY <3>1
    <2> HIDE DEF step, Fix, g
    <2>5. f \in [0 .. N -> X] /\ f[0] = d
      BY <2>3 DEF Computed
    <2> QED
      BY <2>4, <2>5 DEF Replays, N, X
  <1>5. ASSUME NEW f, Replays(d, q, f)
        PROVE  g[N] = f[N]
    <2>0. /\ f \in [0 .. N -> X] /\ f[0] = d
          /\ \A k \in 1 .. N : f[k] = Apply(f[k - 1], q[k])
      BY <1>5 DEF Replays, N, X
    <2>1. Fix(f)
      BY <1>1, <2>0
    <2>2. Fix(g)
      <3> HIDE DEF Fix
      <3> QED
        BY <2>1
    <2> DEFINE S == {k \in 0 .. N : g[k] = f[k]}
    <2>3. /\ \A k \in 0 .. N : g[k] = IF k = 0 THEN d ELSE Apply(g[k - 1], q[k])
      <3> HIDE DEF g
      <3> QED
        BY <2>2
    <2> HIDE DEF g
    <2>4. 0 \in S
      BY <1>1, <2>0, <2>3
    <2>5. \A k \in 0 .. N - 1 : k \in S => k + 1 \in S
      <3> SUFFICES ASSUME NEW k \in 0 .. N - 1, k \in S PROVE g[k + 1] = f[k + 1]
        BY <1>1
      <3>1. k + 1 \in 0 .. N /\ k + 1 \in 1 .. N /\ k + 1 # 0 /\ (k + 1) - 1 = k
        BY <1>1
      <3>2. g[k + 1] = Apply(g[k], q[k + 1])
        BY <2>3, <3>1
      <3>3. f[k + 1] = Apply(f[k], q[k + 1])
        BY <2>0, <3>1
      <3> QED
        BY <3>2, <3>3
    <2>6. N \in 0 .. N
      BY <1>1
    <2> HIDE DEF S
    <2>7. 0 .. N \subseteq S
      BY <1>1, <2>4, <2>5, BoundedInduction
    <2> QED
      BY <2>6, <2>7 DEF S
  <1> HIDE DEF g
  <1> QED
    BY <1>3, <1>4, <1>5 DEF N

\* Nothing to execute.
LEMMA ReplayNothing ==
    ASSUME NEW d \in Seq(Nat)
    PROVE  Replay(d, <<>>) = d
  <1>1. <<>> \in Seq(Propagated) /\ Len(<<>>) = 0
    OBVIOUS
  <1>2. PICK f : Replays(d, <<>>, f)
    BY <1>1, ReplayFunction
  <1>3. Replay(d, <<>>) = f[Len(<<>>)]
    BY <1>1, <1>2, ReplayFunction
  <1> QED
    BY <1>1, <1>2, <1>3 DEF Replays

\* One more command at the end.
LEMMA ReplayAppend ==
    ASSUME NEW d \in Seq(Nat), NEW q \in Seq(Propagated), NEW x \in Propagated
    PROVE  Replay(d, Append(q, x)) = Apply(Replay(d, q), x)
  <1> DEFINE n == Len(q)
             w == Append(q, x)
  <1>1. /\ n \in Nat /\ w \in Seq(Propagated) /\ Len(w) = n + 1 /\ w[n + 1] = x
        /\ \A k \in 1 .. n : w[k] = q[k]
    BY AppendProperties
  <1>2. PICK f : Replays(d, q, f)
    BY ReplayFunction
  <1>3. /\ f \in [0 .. n -> Seq(Nat)] /\ f[0] = d
        /\ \A k \in 1 .. n : f[k] = Apply(f[k - 1], q[k])
        /\ Replay(d, q) = f[n]
    BY <1>2, ReplayFunction, SMTT(40) DEF Replays
  <1> HIDE DEF n, w
  <1> DEFINE g == [k \in 0 .. n + 1 |-> IF k = n + 1 THEN Apply(f[n], x) ELSE f[k]]
  <1>4. n \in 0 .. n /\ f[n] \in Seq(Nat) /\ Apply(f[n], x) \in Seq(Nat)
    <2>1. n \in 0 .. n
      BY <1>1
    <2>2. f[n] \in Seq(Nat)
      BY <1>3, <2>1
    <2> QED
      BY <2>1, <2>2, ApplyType
  <1>5. g \in [0 .. n + 1 -> Seq(Nat)] /\ g[n + 1] = Apply(f[n], x) /\ \A k \in 0 .. n : g[k] = f[k]
    BY <1>1, <1>3, <1>4
  <1> HIDE DEF g
  <1>6. ASSUME NEW k \in 1 .. n + 1
        PROVE  g[k] = Apply(g[k - 1], w[k])
    <2>1. CASE k = n + 1
      <3>1. k - 1 = n
        BY <1>1, <2>1
      <3> QED
        BY <1>1, <1>4, <1>5, <2>1, <3>1
    <2>2. CASE k # n + 1
      <3>1. k \in 1 .. n /\ k \in 0 .. n /\ k - 1 \in 0 .. n
        BY <1>1, <2>2
      <3> QED
        BY <1>1, <1>3, <1>5, <3>1
    <2> QED
      BY <2>1, <2>2
  <1>7. Replays(d, w, g)
    BY <1>1, <1>3, <1>4, <1>5, <1>6 DEF Replays
  <1>8. Replay(d, w) = g[n + 1]
    BY <1>1, <1>7, ReplayFunction
  <1> QED
    BY <1>3, <1>5, <1>8 DEF w

\* The replica executes the first command.
LEMMA ReplayFirst ==
    ASSUME NEW d \in Seq(Nat), NEW q \in Seq(Propagated), q # <<>>
    PROVE  Replay(Apply(d, Head(q)), Tail(q)) = Replay(d, q)
  <1> DEFINE n == Len(q)
             e == Apply(d, Head(q))
             w == Tail(q)
  <1>1. /\ n \in Nat /\ n > 0 /\ w \in Seq(Propagated) /\ Len(w) = n - 1 /\ Head(q) = q[1]
        /\ Head(q) \in Propagated /\ \A k \in 1 .. n - 1 : w[k] = q[k + 1]
    BY HeadTailProperties, EmptySeq
  <1>2. e \in Seq(Nat)
    BY <1>1, ApplyType
  <1>3. PICK f : Replays(d, q, f)
    BY ReplayFunction
  <1>4. /\ f \in [0 .. n -> Seq(Nat)] /\ f[0] = d
        /\ \A k \in 1 .. n : f[k] = Apply(f[k - 1], q[k])
        /\ Replay(d, q) = f[n]
    <2>1. Replay(d, q) = f[n]
      BY <1>3, ReplayFunction
    <2> QED
      BY <1>3, <2>1 DEF Replays
  <1> DEFINE g == [k \in 0 .. n - 1 |-> f[k + 1]]
  <1> HIDE DEF n, w
  <1>5. \A k \in 0 .. n - 1 : k + 1 \in 0 .. n /\ k + 1 \in 1 .. n
    BY <1>1
  <1>6. g \in [0 .. n - 1 -> Seq(Nat)] /\ \A k \in 0 .. n - 1 : g[k] = f[k + 1]
    BY <1>4, <1>5
  <1> HIDE DEF g
  <1>7. g[0] = e
    <2>1. 0 \in 0 .. n - 1 /\ 1 \in 1 .. n /\ 0 + 1 = 1 /\ 1 - 1 = 0
      BY <1>1
    <2>2. f[1] = Apply(f[0], q[1])
      BY <1>4, <2>1
    <2> QED
      BY <1>1, <1>4, <1>6, <2>1, <2>2
  <1> HIDE DEF e
  <1>8. ASSUME NEW k \in 1 .. n - 1
        PROVE  g[k] = Apply(g[k - 1], w[k])
    <2>1. k \in 0 .. n - 1 /\ k - 1 \in 0 .. n - 1 /\ k + 1 \in 1 .. n /\ (k + 1) - 1 = k
          /\ (k - 1) + 1 = k
      BY <1>1
    <2>2. f[k + 1] = Apply(f[k], q[k + 1])
      BY <1>4, <2>1
    <2>3. g[k] = f[k + 1] /\ g[k - 1] = f[k]
      BY <1>6, <2>1
    <2> QED
      BY <1>1, <2>2, <2>3
  <1>9. Replays(e, w, g)
    BY <1>1, <1>6, <1>7, <1>8 DEF Replays
  <1>10. Replay(e, w) = g[n - 1]
    BY <1>1, <1>2, <1>9, ReplayFunction
  <1>11. n - 1 \in 0 .. n - 1 /\ (n - 1) + 1 = n
    BY <1>1
  <1> QED
    BY <1>4, <1>6, <1>10, <1>11 DEF e, w

-----------------------------------------------------------------------------
(* One command.                                                            *)

\* The flag a command sets.
FlagOf(type) == CASE type = "MULTI" -> {"MULTI"} [] type = "SUBSCRIBE" -> {"PUBSUB"} [] OTHER -> {}

\* What each command of DB::call does to the list and to the flags.
LEMMA CallDetails ==
    ASSUME NEW s \in SessionType, NEW c \in Clients, c \in Present, NEW type, NEW ch \in Channels
    PROVE  /\ call(s, c, type, ch).flags[c] = s.flags[c] \cup FlagOf(type)
           /\ type # "RPUSH" => call(s, c, type, ch).values = s.values
           /\ type = "RPUSH" /\ s.blocked = <<>> =>
                 call(s, c, type, ch).list = Append(s.list, s.values + 1)
           /\ type = "LPOP" =>
                 call(s, c, type, ch).list = IF s.list = <<>> THEN s.list ELSE Tail(s.list)
           /\ type = "BLPOP" /\ s.list = <<>> => call(s, c, type, ch).list = s.list
           /\ type \notin {"RPUSH", "LPOP", "BLPOP"} => call(s, c, type, ch).list = s.list
  <1> DEFINE r == Reply(s, c)
             t == call(s, c, type, ch)
  <1>0. /\ r \in SessionType /\ r.list = s.list /\ r.values = s.values /\ r.flags = s.flags
    BY ReplyFacts
  <1>1. CASE type = "RPUSH"
    <2>1. t = handle_push(s, c) /\ FlagOf(type) = {}
      BY <1>1 DEF call, FlagOf
    <2>2. CASE s.blocked = <<>>
      <3>1. t = [r EXCEPT !.list = Append(@, s.values + 1), !.values = @ + 1]
        BY <2>1, <2>2 DEF handle_push
      <3> HIDE DEF r
      <3>2. t.list = Append(s.list, s.values + 1) /\ t.flags = s.flags
        BY <1>0, <3>1 DEF SessionType
      <3> HIDE DEF t
      <3>3. t.flags[c] = s.flags[c] \cup FlagOf(type)
        BY <2>1, <3>2
      <3> QED
        BY <1>1, <3>2, <3>3 DEF t
    <2>3. CASE s.blocked # <<>>
      <3> DEFINE v == Reply(s, Head(s.blocked))
                 u == Reply(v, c)
      <3>1. Head(s.blocked) \in Clients /\ Head(s.blocked) \in Present
        BY <2>3 DEF SessionType, Present
      <3>2. v \in SessionType /\ v.flags = s.flags
        BY <3>1, ReplyFacts
      <3>3. t = [u EXCEPT !.blocked = Tail(@), !.values = @ + 1,
                          !.unblocked = {Head(s.blocked)}, !.served = @ \cup {Head(s.blocked)}]
        BY <2>1, <2>3 DEF handle_push
      <3> HIDE DEF v
      <3>4. u \in SessionType /\ u.flags = s.flags
        BY <3>2, ReplyFacts
      <3> HIDE DEF u
      <3>5. t.flags = s.flags
        BY <3>3, <3>4 DEF SessionType
      <3> HIDE DEF t
      <3>6. t.flags[c] = s.flags[c] \cup FlagOf(type)
        BY <2>1, <3>5
      <3> QED
        BY <1>1, <2>3, <3>6 DEF t
    <2> QED
      BY <2>2, <2>3
  <1>2. CASE type = "LPOP"
    <2>1. t = [r EXCEPT !.list = IF @ = <<>> THEN @ ELSE Tail(@)] /\ FlagOf(type) = {}
      BY <1>2 DEF call, FlagOf, handle_lpop
    <2> HIDE DEF r
    <2>2. t.list = (IF s.list = <<>> THEN s.list ELSE Tail(s.list)) /\ t.flags = s.flags
          /\ t.values = s.values
      BY <1>0, <2>1 DEF SessionType
    <2> HIDE DEF t
    <2>3. t.flags[c] = s.flags[c] \cup FlagOf(type)
      BY <2>1, <2>2
    <2> QED
      BY <1>2, <2>2, <2>3 DEF t
  <1>3. CASE type = "BLPOP"
    <2>1. t = handle_blpop(s, c) /\ FlagOf(type) = {}
      BY <1>3 DEF call, FlagOf
    <2>2. CASE s.list = <<>>
      <3>1. t = [s EXCEPT !.blocked = Append(@, c), !.isBlocked = TRUE]
        BY <2>1, <2>2 DEF handle_blpop
      <3>2. t.list = s.list /\ t.flags = s.flags /\ t.values = s.values
        BY <3>1 DEF SessionType
      <3> HIDE DEF t
      <3>3. t.flags[c] = s.flags[c] \cup FlagOf(type)
        BY <2>1, <3>2
      <3> QED
        BY <1>3, <3>2, <3>3 DEF t
    <2>3. CASE s.list # <<>>
      <3>1. t = [r EXCEPT !.list = Tail(@)]
        BY <2>1, <2>3 DEF handle_blpop
      <3> HIDE DEF r
      <3>2. t.flags = s.flags /\ t.values = s.values
        BY <1>0, <3>1 DEF SessionType
      <3> HIDE DEF t
      <3>3. t.flags[c] = s.flags[c] \cup FlagOf(type)
        BY <2>1, <3>2
      <3> QED
        BY <1>3, <2>3, <3>2, <3>3 DEF t
    <2> QED
      BY <2>2, <2>3
  <1>4. CASE type = "MULTI"
    <2>1. t = [r EXCEPT !.flags[c] = @ \cup {"MULTI"}] /\ FlagOf(type) = {"MULTI"}
      BY <1>4 DEF call, FlagOf, handle_multi
    <2> HIDE DEF r
    <2>2. t.list = s.list /\ t.flags[c] = s.flags[c] \cup {"MULTI"} /\ t.values = s.values
      BY <1>0, <2>1 DEF SessionType
    <2> HIDE DEF t
    <2> QED
      BY <1>4, <2>1, <2>2 DEF t
  <1>5. CASE type = "SUBSCRIBE"
    <2>1. t = [r EXCEPT !.pubsub[ch] = Append(@, c),
                        !.flags[c] = @ \cup {"PUBSUB"},
                        !.total[c] = @ + 1] /\ FlagOf(type) = {"PUBSUB"}
      BY <1>5 DEF call, FlagOf, handleSubscribe
    <2> HIDE DEF r
    <2>2. t.list = s.list /\ t.flags[c] = s.flags[c] \cup {"PUBSUB"} /\ t.values = s.values
      BY <1>0, <2>1 DEF SessionType
    <2> HIDE DEF t
    <2> QED
      BY <1>5, <2>1, <2>2 DEF t
  <1>6. CASE type \notin {"RPUSH", "LPOP", "BLPOP", "MULTI", "SUBSCRIBE"}
    <2>1. FlagOf(type) = {}
      BY <1>6 DEF FlagOf
    <2>2. t = handlePublish(s, c, ch) \/ t = r
      BY <1>6 DEF call
    <2>3. t.list = s.list /\ t.flags = s.flags /\ t.values = s.values
      <3>1. CASE t = handlePublish(s, c, ch)
        <4> DEFINE subscribers == {s.pubsub[ch][i] : i \in DOMAIN s.pubsub[ch]}
        <4>1. t = [r EXCEPT !.pending = @ \cup subscribers, !.ready = @ \cup subscribers]
          BY <3>1 DEF handlePublish
        <4> HIDE DEF subscribers, r
        <4> QED
          BY <1>0, <4>1 DEF SessionType
      <3>2. CASE t = r
        BY <1>0, <3>2
      <3> QED
        BY <2>2, <3>1, <3>2
    <2> HIDE DEF t
    <2>4. t.flags[c] = s.flags[c] \cup FlagOf(type)
      BY <2>1, <2>3
    <2> QED
      BY <1>6, <2>3, <2>4 DEF t
  <1> QED
    BY <1>1, <1>2, <1>3, <1>4, <1>5, <1>6

\* What the end of a request finds: s is the session it has reached, lost the
\* clients whose reply it does not flush.
Leaves(c, s, lost) ==
    /\ s \in SessionType
    /\ s.list \in Seq(1 .. s.values)
    /\ s.values <= MaxValue
    /\ Counted(s.pubsub, s.total)
    /\ \A d \in Clients \ {c} : s.flags[d] = flags[d]
    /\ s.pending \cap open \subseteq pending \cup Flushed(c, s) \cup lost \cup armed
    /\ lost \subseteq Clients

\* A single command loses nothing.
LEMMA CommandLeaves ==
    ASSUME TypeOK, Numbered, Fresh, Counted(pubsub_clients, total),
           NEW c \in Clients, c \in Present, NEW ch \in Channels, NEW s,
           Follows(Session, s, c, ch), s.values <= MaxValue
    PROVE  Leaves(c, s, {})
  <1>1. Session \in Reachable(c) /\ s \in Reachable(c)
    BY FirstReachable, ReachableClosed
  <1>2. s.pending \subseteq pending \cup Flushed(c, s)
    <2>1. /\ s.pending \subseteq pending \cup {c} \cup s.served \cup s.ready
          /\ s.served \subseteq s.unblocked
          /\ s.isBlocked = FALSE \/ s.pending = pending
      BY SessionFacts DEF Follows
    <2> QED
      BY <2>1 DEF Flushed
  <1> QED
    BY <1>1, <1>2 DEF Leaves, Reachable

\* An answer alone.
LEMMA AnswerLeaves ==
    ASSUME TypeOK, Numbered, Fresh, Counted(pubsub_clients, total), NEW c \in Clients, c \in Present
    PROVE  Leaves(c, Reply(Session, c), {}) /\ Reply(Session, c).flags = flags
           /\ Reply(Session, c).list = list
  <1> DEFINE r == Reply(Session, c)
  <1>1. /\ r.values = values /\ r.flags = flags /\ r.list = list /\ r.pending = pending \cup {c}
        /\ r.isBlocked = FALSE /\ r.ready = {} /\ r.unblocked = {} /\ r \in Reachable(c)
    BY SessionFacts, ReplyFacts, FirstReachable
  <1>2. values <= MaxValue
    BY ConstantsAssumption DEF TypeOK
  <1> HIDE DEF r
  <1>3. Leaves(c, r, {})
    BY <1>1, <1>2 DEF Leaves, Reachable, Flushed
  <1> QED
    BY <1>1, <1>3 DEF r

\* Ending a transaction touches nothing but the flags.
LEMMA ResetLeaves ==
    ASSUME NEW c \in Clients, NEW s, NEW lost, Leaves(c, s, lost)
    PROVE  /\ Leaves(c, [s EXCEPT !.flags[c] = {}], lost)
           /\ [s EXCEPT !.flags[c] = {}].flags[c] = {}
           /\ [s EXCEPT !.flags[c] = {}].list = s.list
  <1> DEFINE t == [s EXCEPT !.flags[c] = {}]
  <1>0. s \in SessionType
    BY DEF Leaves
  <1>1. t \in SessionType /\ t.flags = [s.flags EXCEPT ![c] = {}]
    <2> DEFINE fl == [s.flags EXCEPT ![c] = {}]
    <2>1. fl \in [Clients -> SUBSET {"MULTI", "PUBSUB"}]
      BY <1>0 DEF SessionType
    <2>2. t = [s EXCEPT !.flags = fl]
      BY <1>0 DEF SessionType
    <2> HIDE DEF fl
    <2>3. t \in SessionType /\ t.flags = fl
      BY <1>0, <2>1, <2>2 DEF SessionType
    <2> QED
      BY <2>3 DEF fl
  <1>2. t.flags[c] = {} /\ \A d \in Clients \ {c} : t.flags[d] = s.flags[d]
    <2> HIDE DEF t
    <2> QED
      BY <1>0, <1>1 DEF SessionType
  <1>3. /\ t.list = s.list /\ t.values = s.values /\ t.pubsub = s.pubsub /\ t.total = s.total
        /\ t.pending = s.pending /\ t.isBlocked = s.isBlocked /\ t.ready = s.ready
        /\ t.unblocked = s.unblocked
    BY <1>0 DEF SessionType
  <1> HIDE DEF t
  <1>4. Flushed(c, t) = Flushed(c, s)
    BY <1>3 DEF Flushed
  <1>5. Leaves(c, t, lost)
    BY <1>1, <1>2, <1>3, <1>4 DEF Leaves
  <1> QED
    BY <1>2, <1>3, <1>5 DEF t

\* UNSUBSCRIBE.
LEMMA UnSubscribeLeaves ==
    ASSUME TypeOK, Numbered, Fresh, Counted(pubsub_clients, total),
           NEW c \in Clients, c \in Present, NEW ch \in Channels
    PROVE  /\ Leaves(c, handleUnSubscribe(Session, c, ch), {})
           /\ handleUnSubscribe(Session, c, ch).flags = flags
           /\ handleUnSubscribe(Session, c, ch).list = list
  <1> DEFINE r == Reply(Session, c)
             p == pubsub_clients
             at == {i \in DOMAIN p[ch] : p[ch][i] = c}
             t == handleUnSubscribe(Session, c, ch)
             m == Min(at)
  <1>1. /\ r.values = values /\ r.flags = flags /\ r.list = list /\ r.pending = pending \cup {c}
        /\ r.isBlocked = FALSE /\ r.ready = {} /\ r.unblocked = {}
        /\ r \in SessionType /\ r.pubsub = p /\ r.total = total
    BY SessionFacts, ReplyFacts
  <1>2. CASE at = {}
    <2>1. t = r
      BY <1>2, SessionFacts DEF handleUnSubscribe
    <2> QED
      BY <2>1, AnswerLeaves
  <1>3. CASE at # {}
    <2> DEFINE subs == [p EXCEPT ![ch] = RemoveAt(@, m)]
               tot == [total EXCEPT ![c] = @ - 1]
               u == [r EXCEPT !.pubsub = subs, !.total = tot]
    <2>1. t = u
      <3>1. t = [r EXCEPT !.pubsub[ch] = RemoveAt(@, m), !.total[c] = @ - 1]
        BY <1>3, SessionFacts DEF handleUnSubscribe
      <3> HIDE DEF r, t, m, at
      <3> QED
        BY <1>1, <3>1 DEF SessionType
    <2>2. p \in [Channels -> Seq(Present)] /\ total \in [Clients -> Nat]
      BY DEF TypeOK, Fresh
    <2>3. at \subseteq Nat /\ at \subseteq 1 .. Len(p[ch])
      BY <2>2
    <2>4. m \in at
      <3> HIDE DEF at
      <3>1. \E x \in at : \A y \in at : x <= y
        BY <1>3, <2>3, LeastElement
      <3>2. m = CHOOSE x \in at : \A y \in at : x =< y
        BY DEF Min
      <3> QED
        BY <3>1, <3>2
    <2>5. m \in 1 .. Len(p[ch]) /\ p[ch][m] = c
      <3> HIDE DEF m
      <3> QED
        BY <2>3, <2>4
    <2>6. subs \in [Channels -> Seq(Present)] /\ tot \in [Clients -> Nat] /\ Counted(subs, tot)
      <3> HIDE DEF m
      <3> QED
        BY <2>2, <2>5, UnsubscribeCounts
    <2> HIDE DEF r, subs, tot, at, m
    <2>7. u \in SessionType
      BY <1>1, <2>6 DEF SessionType
    <2>8. /\ u.values = values /\ u.flags = flags /\ u.list = list /\ u.pending = pending \cup {c}
          /\ u.isBlocked = FALSE /\ u.ready = {} /\ u.unblocked = {}
          /\ u.pubsub = subs /\ u.total = tot
      BY <1>1 DEF SessionType
    <2>9. values <= MaxValue
      BY ConstantsAssumption DEF TypeOK
    <2> HIDE DEF u
    <2>10. Leaves(c, u, {})
      BY <2>6, <2>7, <2>8, <2>9 DEF Leaves, Flushed, Numbered
    <2> QED
      BY <2>1, <2>8, <2>10 DEF t
  <1> QED
    BY <1>2, <1>3

\* EXEC loses the clients it served before the last, and itself when it blocked.
LEMMA QueueLeaves ==
    ASSUME TypeOK, Numbered, Fresh, Counted(pubsub_clients, total),
           NEW c \in Clients, c \in Present, NEW ch \in Channels, NEW s, s = RunQueue(c, ch),
           s.values <= MaxValue
    PROVE  Leaves(c, s, ((s.served \cup {c}) \cap open) \ (Flushed(c, s) \cup armed))
  <1>1. s \in Reachable(c)
    BY QueueReachable
  <1>2. s \in SessionType
    BY <1>1 DEF Reachable
  <1>3. s.served \subseteq Clients
    BY <1>2 DEF SessionType, Present
  <1> QED
    BY <1>1, <1>3 DEF Leaves, Reachable, Flushed

-----------------------------------------------------------------------------
(* One request.                                                            *)

\* The flags and the queue of the client that sent the request.
FlagStep(c) ==
    /\ \A d \in Clients \ {c} : flags'[d] = flags[d] /\ queued_commands'[d] = queued_commands[d]
    /\ \/ flags'[c] = flags[c] /\ "MULTI" \in flags[c]
       \/ /\ queued_commands'[c] = queued_commands[c]
          /\ \/ flags'[c] = flags[c]
             \/ "MULTI" \notin flags[c] /\ flags'[c] = flags[c] \cup {"PUBSUB"}
             \/ "MULTI" \notin flags[c] /\ "PUBSUB" \notin flags[c] /\ flags'[c] = flags[c] \cup {"MULTI"}
       \/ flags'[c] = {} /\ queued_commands'[c] = <<>>

\* What is propagated of it.
Written == [type : WriteCommands, value : 1 .. MaxValue + 1]

DataStep ==
    /\ attached' = attached /\ replica' = replica
    /\ excused' \in BOOLEAN /\ (excused => excused')
    /\ \/ stream' = stream /\ (attached => list' = list \/ excused')
       \/ \E x \in Written :
             /\ attached /\ stream' = Append(stream, x)
             /\ x.type = "RPUSH" => x.value <= MaxValue
             /\ list' = Apply(list, x) \/ excused'

\* Nothing is propagated.
LEMMA SilentData ==
    ASSUME TypeOK, UNCHANGED replicas, list' = list
    PROVE  DataStep
  BY DEF TypeOK, replicas, DataStep

LEMMA PropagateData ==
    ASSUME TypeOK, NEW type, NEW otherwise \in BOOLEAN, handle_propagate(type, otherwise),
           type = "RPUSH" => values < MaxValue,
           otherwise \/ (IF type \in WriteCommands
                         THEN list' = Apply(list, [type |-> type, value |-> values + 1])
                         ELSE list' = list)
    PROVE  DataStep
  <1> DEFINE x == [type |-> type, value |-> values + 1]
  <1>1. /\ attached' = attached /\ replica' = replica
        /\ stream' = IF attached /\ type \in WriteCommands THEN Append(stream, x) ELSE stream
        /\ excused' = (excused \/ (attached /\ otherwise))
    BY DEF handle_propagate, is_write_command
  <1>2. attached \in BOOLEAN /\ excused \in BOOLEAN /\ values \in 0 .. MaxValue /\ MaxValue \in Nat
    BY ConstantsAssumption DEF TypeOK
  <1>3. excused' \in BOOLEAN /\ (excused => excused') /\ (attached /\ otherwise => excused')
    BY <1>1, <1>2
  <1>4. CASE attached /\ type \in WriteCommands
    <2>1. x \in Written /\ x.type = type /\ x.value = values + 1
      BY <1>2, <1>4 DEF Written
    <2>2. list' = Apply(list, x) \/ excused'
      BY <1>3, <1>4
    <2>3. x.type = "RPUSH" => x.value <= MaxValue
      BY <1>2, <2>1
    <2> HIDE DEF x
    <2> QED
      BY <1>1, <1>3, <1>4, <2>1, <2>2, <2>3 DEF DataStep
  <1>5. CASE ~attached
    BY <1>1, <1>3, <1>5 DEF DataStep
  <1>6. CASE attached /\ type \notin WriteCommands
    BY <1>1, <1>3, <1>6 DEF DataStep
  <1> QED
    BY <1>2, <1>4, <1>5, <1>6

\* An action that only answers.
Answers(c) == \E s, lost : Leaves(c, s, lost) /\ Finish(c, s, lost)

LEMMA AnswerStep ==
    ASSUME TypeOK, Numbered, Fresh, Counted(pubsub_clients, total), NEW c \in Clients, c \in Present,
           Finish(c, Reply(Session, c), {})
    PROVE  Answers(c) /\ flags' = flags /\ list' = list
  <1>1. Leaves(c, Reply(Session, c), {}) /\ Reply(Session, c).flags = flags
        /\ Reply(Session, c).list = list
    BY AnswerLeaves
  <1> QED
    BY <1>1 DEF Answers, Finish

Effect(c) == Answers(c) /\ FlagStep(c) /\ DataStep

\* A write refused to a subscriber.
LEMMA RefuseCommandStep ==
    ASSUME TypeOK, Numbered, Fresh, Counted(pubsub_clients, total),
           NEW c \in Clients, c \in Present, NEW type, NEW ch \in Channels, RefuseCommand(c, type, ch)
    PROVE  Effect(c)
  <1> DEFINE r == Reply(Session, c)
             s == [r EXCEPT !.values = IF type = "RPUSH" THEN @ + 1 ELSE @]
  <1>1. /\ r.values = values /\ r.flags = flags /\ r.list = list /\ r.pending = pending \cup {c}
        /\ r.isBlocked = FALSE /\ r.ready = {} /\ r.served = {}
        /\ r \in SessionType /\ r.pubsub = pubsub_clients /\ r.total = total
    BY SessionFacts, ReplyFacts
  <1>2. /\ type = "RPUSH" => values < MaxValue
        /\ Finish(c, s, {}) /\ handle_propagate(type, type \in {"RPUSH", "LPOP"})
        /\ queued_commands' = queued_commands
    BY DEF RefuseCommand, Bounded
  <1>3. values \in 0 .. MaxValue /\ MaxValue \in Nat
    BY ConstantsAssumption DEF TypeOK
  <1> HIDE DEF r
  <1>4. /\ s \in SessionType /\ s.values \in {values, values + 1} /\ s.values <= MaxValue
        /\ s.flags = flags /\ s.list = list /\ s.pending = pending \cup {c}
        /\ s.isBlocked = FALSE /\ s.ready = {} /\ s.served = {}
        /\ s.pubsub = pubsub_clients /\ s.total = total
    <2>1. CASE type = "RPUSH"
      <3>1. s = [r EXCEPT !.values = values + 1] /\ values + 1 \in Nat /\ values + 1 <= MaxValue
        BY <1>1, <1>2, <1>3, <2>1
      <3> HIDE DEF s
      <3> QED
        BY <1>1, <3>1 DEF SessionType
    <2>2. CASE type # "RPUSH"
      <3>1. s = r
        BY <1>1, <2>2 DEF SessionType
      <3> HIDE DEF s
      <3> QED
        BY <1>1, <1>3, <3>1
    <2> QED
      BY <2>1, <2>2
  <1> HIDE DEF s
  <1>5. Follows(Session, s, c, ch)
    BY <1>4, SessionFacts DEF Follows
  <1>6. Leaves(c, s, {})
    BY <1>4, <1>5, CommandLeaves
  <1>7. flags' = flags /\ list' = list
    BY <1>2, <1>4 DEF Finish
  <1>8. DataStep
    <2>1. (type \in {"RPUSH", "LPOP"}) \in BOOLEAN
      OBVIOUS
    <2>2. type \in WriteCommands => \/ type \in {"RPUSH", "LPOP"}
                                    \/ Apply(list, [type |-> type, value |-> values + 1]) = list
      BY DEF WriteCommands, Apply
    <2> QED
      BY <1>2, <1>7, <2>1, <2>2, PropagateData
  <1>9. Answers(c)
    BY <1>2, <1>6 DEF Answers
  <1> QED
    BY <1>2, <1>7, <1>8, <1>9 DEF Effect, FlagStep

\* A command of DB::call, outside a transaction.
LEMMA CallStep ==
    ASSUME TypeOK, Numbered, Fresh, Counted(pubsub_clients, total),
           NEW c \in Clients, c \in Present, NEW type, NEW ch \in Channels,
           type = "RPUSH" => values < MaxValue, Finish(c, call(Session, c, type, ch), {})
    PROVE  /\ Answers(c)
           /\ \A d \in Clients \ {c} : flags'[d] = flags[d]
           /\ flags'[c] = flags[c] \cup FlagOf(type)
           /\ type = "RPUSH" /\ blocked = <<>> => list' = Append(list, values + 1)
           /\ type = "LPOP" => list' = IF list = <<>> THEN list ELSE Tail(list)
           /\ type = "BLPOP" /\ list = <<>> => list' = list
           /\ type \notin {"RPUSH", "LPOP", "BLPOP"} => list' = list
  <1> DEFINE s == call(Session, c, type, ch)
  <1>1. Session \in SessionType /\ Session.values = values /\ Session.flags = flags
        /\ Session.list = list /\ Session.blocked = blocked
    BY SessionFacts
  <1>2. Follows(Session, s, c, ch)
    BY <1>1, CallFollows
  <1>3. /\ s.flags[c] = flags[c] \cup FlagOf(type)
        /\ type # "RPUSH" => s.values = values
        /\ type = "RPUSH" /\ blocked = <<>> => s.list = Append(list, values + 1)
        /\ type = "LPOP" => s.list = IF list = <<>> THEN list ELSE Tail(list)
        /\ type = "BLPOP" /\ list = <<>> => s.list = list
        /\ type \notin {"RPUSH", "LPOP", "BLPOP"} => s.list = list
    <2> HIDE DEF s
    <2> QED
      BY <1>1, CallDetails DEF s
  <1> HIDE DEF s
  <1>4. s.values <= MaxValue
    <2>1. values \in 0 .. MaxValue /\ MaxValue \in Nat
      BY ConstantsAssumption DEF TypeOK
    <2>2. s.values \in {values, values + 1}
      BY <1>1, <1>2 DEF Follows
    <2> QED
      BY <1>3, <2>1, <2>2
  <1>5. Leaves(c, s, {})
    BY <1>2, <1>4, CommandLeaves
  <1>6. Finish(c, s, {})
    BY DEF s
  <1>7. flags' = s.flags /\ list' = s.list
    BY <1>6 DEF Finish
  <1>8. Answers(c)
    BY <1>5, <1>6 DEF Answers
  <1> QED
    BY <1>3, <1>5, <1>7, <1>8 DEF Leaves

LEMMA RunCommandStep ==
    ASSUME TypeOK, Numbered, Fresh, Counted(pubsub_clients, total),
           NEW c \in Clients, c \in Present, NEW type, NEW ch \in Channels, RunCommand(c, type, ch)
    PROVE  Effect(c)
  <1>1. /\ "MULTI" \notin flags[c] /\ Allowed(c, type) /\ queued_commands' = queued_commands
        /\ type = "RPUSH" => values < MaxValue
    BY DEF RunCommand, Bounded
  <1>2. CASE RunSubscribed(c, type, ch)
    <2>1. "PUBSUB" \in flags[c] /\ type \in {"SUBSCRIBE", "UNSUBSCRIBE", "PING"}
          /\ UNCHANGED replicas
      BY <1>1, <1>2 DEF RunSubscribed, Allowed
    <2>2. CASE type = "UNSUBSCRIBE"
      <3>1. Finish(c, handleUnSubscribe(Session, c, ch), {})
        BY <1>2, <2>2 DEF RunSubscribed
      <3>2. /\ Leaves(c, handleUnSubscribe(Session, c, ch), {})
            /\ handleUnSubscribe(Session, c, ch).flags = flags
            /\ handleUnSubscribe(Session, c, ch).list = list
        BY UnSubscribeLeaves
      <3>3. flags' = flags /\ list' = list
        BY <3>1, <3>2 DEF Finish
      <3>4. Answers(c)
        BY <3>1, <3>2 DEF Answers
      <3> QED
        BY <1>1, <2>1, <3>3, <3>4, SilentData DEF Effect, FlagStep
    <2>3. CASE type # "UNSUBSCRIBE"
      <3>1. Finish(c, call(Session, c, type, ch), {})
        BY <1>2, <2>3 DEF RunSubscribed
      <3>2. /\ Answers(c) /\ list' = list
            /\ \A d \in Clients \ {c} : flags'[d] = flags[d]
            /\ flags'[c] = flags[c] \cup FlagOf(type)
        BY <1>1, <2>1, <3>1, CallStep
      <3>3. FlagOf(type) = {} \/ FlagOf(type) = {"PUBSUB"}
        BY <2>1 DEF FlagOf
      <3>4. FlagStep(c)
        BY <1>1, <3>2, <3>3 DEF FlagStep
      <3> QED
        BY <2>1, <3>2, <3>4, SilentData DEF Effect
    <2> QED
      BY <2>2, <2>3
  <1>3. CASE RunPlain(c, type, ch)
    <2>1. /\ "PUBSUB" \notin flags[c] /\ type \notin AccessCommands
          /\ Finish(c, call(Session, c, type, ch), {})
          /\ handle_propagate(type, PopsUnseen(type))
      BY <1>3 DEF RunPlain
    <2>2. /\ Answers(c)
          /\ \A d \in Clients \ {c} : flags'[d] = flags[d]
          /\ flags'[c] = flags[c] \cup FlagOf(type)
          /\ type = "RPUSH" /\ blocked = <<>> => list' = Append(list, values + 1)
          /\ type = "LPOP" => list' = IF list = <<>> THEN list ELSE Tail(list)
          /\ type = "BLPOP" /\ list = <<>> => list' = list
          /\ type \notin {"RPUSH", "LPOP", "BLPOP"} => list' = list
      BY <1>1, <2>1, CallStep
    <2>3. FlagStep(c)
      <3>1. FlagOf(type) = {} \/ FlagOf(type) = {"PUBSUB"} \/ FlagOf(type) = {"MULTI"}
        BY DEF FlagOf
      <3> QED
        BY <1>1, <2>1, <2>2, <3>1 DEF FlagStep
    <2>4. DataStep
      <3> DEFINE x == [type |-> type, value |-> values + 1]
      <3>1. PopsUnseen(type) \in BOOLEAN
        BY DEF PopsUnseen
      <3>2. CASE PopsUnseen(type)
        BY <1>1, <2>1, <3>1, <3>2, PropagateData
      <3>3. CASE ~PopsUnseen(type)
        <4>1. IF type \in WriteCommands THEN list' = Apply(list, x) ELSE list' = list
          <5>1. CASE type = "RPUSH"
            BY <2>2, <3>3, <5>1 DEF PopsUnseen, Apply, WriteCommands
          <5>2. CASE type = "LPOP"
            BY <2>2, <5>2 DEF Apply, WriteCommands
          <5>3. CASE type = "BLPOP"
            BY <2>2, <3>3, <5>3 DEF PopsUnseen, WriteCommands
          <5>4. CASE type \notin {"RPUSH", "LPOP", "BLPOP"}
            BY <2>1, <2>2, <5>4 DEF WriteCommands, AccessCommands
          <5> QED
            BY <5>1, <5>2, <5>3, <5>4
        <4> QED
          BY <1>1, <2>1, <3>1, <4>1, PropagateData
      <3> QED
        BY <3>2, <3>3
    <2> QED
      BY <2>2, <2>3, <2>4 DEF Effect
  <1>4. CASE RunAccess(c, type)
    <2>1. /\ type \in {"AUTH", "SETUSER"} /\ Finish(c, Reply(Session, c), {})
          /\ handle_propagate(type, FALSE)
      BY <1>4 DEF RunAccess
    <2>2. Answers(c) /\ flags' = flags /\ list' = list
      BY <2>1, AnswerStep
    <2>3. Apply(list, [type |-> type, value |-> values + 1]) = list
      BY <2>1 DEF Apply
    <2>4. DataStep
      BY <1>1, <2>1, <2>2, <2>3, PropagateData
    <2> QED
      BY <1>1, <2>2, <2>4 DEF Effect, FlagStep
  <1> QED
    BY <1>2, <1>3, <1>4 DEF RunCommand

LEMMA ExecStep ==
    ASSUME TypeOK, Numbered, Fresh, Counted(pubsub_clients, total),
           NEW c \in Clients, c \in Present, NEW ch \in Channels, handle_exec(c, ch)
    PROVE  Effect(c)
  <1> DEFINE u == RunQueue(c, ch)
             s == [u EXCEPT !.flags[c] = {}]
             lost == ((s.served \cup {c}) \cap open) \ (Flushed(c, s) \cup armed)
  <1>1. /\ s.values <= MaxValue /\ queued_commands' = [queued_commands EXCEPT ![c] = <<>>]
        /\ Finish(c, s, lost) /\ handle_propagate("EXEC", s.list # list)
    BY DEF handle_exec
  <1>2. u \in SessionType
    BY QueueReachable DEF Reachable
  <1> HIDE DEF u
  <1>3. /\ s.values = u.values /\ s.served = u.served /\ s.isBlocked = u.isBlocked
        /\ s.ready = u.ready /\ s.unblocked = u.unblocked
    BY <1>2 DEF SessionType
  <1>4. Flushed(c, s) = Flushed(c, u)
    BY <1>3 DEF Flushed
  <1>5. Leaves(c, u, lost)
    <2>1. Leaves(c, u, ((u.served \cup {c}) \cap open) \ (Flushed(c, u) \cup armed))
      BY <1>1, <1>3, QueueLeaves DEF u
    <2> QED
      BY <1>3, <1>4, <2>1
  <1> HIDE DEF lost
  <1>6. Leaves(c, s, lost) /\ s.flags[c] = {}
    BY <1>5, ResetLeaves
  <1> HIDE DEF s
  <1>7. list' = s.list /\ flags' = s.flags
    BY <1>1 DEF Finish
  <1>8. Answers(c)
    BY <1>1, <1>6 DEF Answers
  <1>9. FlagStep(c)
    <2>1. queued_commands'[c] = <<>>
          /\ \A d \in Clients \ {c} : queued_commands'[d] = queued_commands[d]
      BY <1>1 DEF TypeOK
    <2>2. flags'[c] = {} /\ \A d \in Clients \ {c} : flags'[d] = flags[d]
      BY <1>6, <1>7 DEF Leaves
    <2> QED
      BY <2>1, <2>2 DEF FlagStep
  <1>10. DataStep
    <2>1. (s.list # list) \in BOOLEAN /\ "EXEC" \notin WriteCommands
      BY DEF WriteCommands
    <2>2. s.list # list \/ list' = list
      BY <1>7
    <2> QED
      BY <1>1, <2>1, <2>2, PropagateData
  <1> QED
    BY <1>8, <1>9, <1>10 DEF Effect

LEMMA DiscardStep ==
    ASSUME TypeOK, Numbered, Fresh, Counted(pubsub_clients, total),
           NEW c \in Clients, c \in Present, handle_discard(c)
    PROVE  Effect(c)
  <1> DEFINE r == Reply(Session, c)
             s == [r EXCEPT !.flags[c] = {}]
  <1>1. /\ queued_commands' = [queued_commands EXCEPT ![c] = <<>>]
        /\ Finish(c, s, {}) /\ UNCHANGED replicas
    BY DEF handle_discard
  <1>2. Leaves(c, r, {}) /\ r.list = list
    BY AnswerLeaves
  <1> HIDE DEF r
  <1>3. Leaves(c, s, {}) /\ s.flags[c] = {} /\ s.list = r.list
    BY <1>2, ResetLeaves
  <1> HIDE DEF s
  <1>4. list' = list /\ flags' = s.flags
    BY <1>1, <1>2, <1>3 DEF Finish
  <1>5. Answers(c)
    BY <1>1, <1>3 DEF Answers
  <1>6. FlagStep(c)
    <2>1. queued_commands'[c] = <<>>
          /\ \A d \in Clients \ {c} : queued_commands'[d] = queued_commands[d]
      BY <1>1 DEF TypeOK
    <2>2. flags'[c] = {} /\ \A d \in Clients \ {c} : flags'[d] = flags[d]
      BY <1>3, <1>4 DEF Leaves
    <2> QED
      BY <2>1, <2>2 DEF FlagStep
  <1> QED
    BY <1>1, <1>4, <1>5, <1>6, SilentData DEF Effect

LEMMA QueueCommandStep ==
    ASSUME TypeOK, Numbered, Fresh, Counted(pubsub_clients, total),
           NEW c \in Clients, c \in Present, NEW type, QueueCommand(c, type)
    PROVE  Effect(c)
  <1>1. /\ "MULTI" \in flags[c] /\ Finish(c, Reply(Session, c), {}) /\ UNCHANGED replicas
        /\ queued_commands' = [queued_commands EXCEPT ![c] = Append(@, type)]
    BY DEF QueueCommand
  <1>2. Answers(c) /\ flags' = flags /\ list' = list
    BY <1>1, AnswerStep
  <1>3. \A d \in Clients \ {c} : queued_commands'[d] = queued_commands[d]
    BY <1>1 DEF TypeOK
  <1>4. FlagStep(c)
    BY <1>1, <1>2, <1>3 DEF FlagStep
  <1> QED
    BY <1>1, <1>2, <1>4, SilentData DEF Effect

\* Every request that does not take the process down.
LEMMA RequestStep ==
    ASSUME TypeOK, Numbered, Fresh, Counted(pubsub_clients, total), NEW c \in Clients, Request(c)
    PROVE  ExecAborts(c) \/ Effect(c)
  <1>0. c \in Present
    BY DEF Request, QueueCommand, RefuseCommand, RunCommand, handle_exec, ExecAborts,
           RefuseUnauthenticated, RefuseEnd, handle_discard, Ends, Readable, Fresh
  <1>1. CASE \E type \in Queueable : QueueCommand(c, type)
    BY <1>0, <1>1, QueueCommandStep
  <1>2. CASE \E type \in Issued, ch \in Channels :
                RefuseCommand(c, type, ch) \/ RunCommand(c, type, ch)
    BY <1>0, <1>2, RefuseCommandStep, RunCommandStep
  <1>3. CASE \E ch \in Channels : handle_exec(c, ch)
    BY <1>0, <1>3, ExecStep
  <1>4. CASE RefuseUnauthenticated(c) \/ RefuseEnd(c)
    <2>1. Finish(c, Reply(Session, c), {}) /\ UNCHANGED <<queued_commands, replicas>>
      BY <1>4 DEF RefuseUnauthenticated, RefuseEnd
    <2>2. Answers(c) /\ flags' = flags /\ list' = list
      BY <1>0, <2>1, AnswerStep
    <2> QED
      BY <2>1, <2>2, SilentData DEF Effect, FlagStep
  <1>5. CASE handle_discard(c)
    BY <1>0, <1>5, DiscardStep
  <1> QED
    BY <1>1, <1>2, <1>3, <1>4, <1>5 DEF Request

-----------------------------------------------------------------------------
(* The inductive invariant.                                                *)

\* TypeOK, by the parts that change together.
ServerType ==
    /\ list \in Seq(1 .. MaxValue) /\ blocked \in Seq(Clients)
    /\ pubsub_clients \in [Channels -> Seq(Clients)]
    /\ flags \in [Clients -> SUBSET {"MULTI", "PUBSUB"}] /\ total \in [Clients -> Nat]
    /\ pending \subseteq Clients /\ open \subseteq Clients /\ armed \subseteq open
    /\ aborted \in BOOLEAN /\ values \in 0 .. MaxValue /\ eclipsed \subseteq Clients

QueueType == queued_commands \in [Clients -> Seq(Queueable)]

AccessType ==
    /\ waiting \subseteq Late
    /\ users \in [Users -> [known : BOOLEAN, nopass : BOOLEAN,
                            password : Passwords \cup {NoPassword}]]
    /\ user \in [Clients -> Users]
    /\ is_authenticated \in [Clients -> BOOLEAN]

ReplicaType ==
    /\ attached \in BOOLEAN /\ excused \in BOOLEAN
    /\ stream \in Seq([type : WriteCommands, value : 1 .. MaxValue + 1])
    /\ replica \in Seq(1 .. MaxValue)

LEMMA TypeParts == TypeOK <=> ServerType /\ QueueType /\ AccessType /\ ReplicaType
  BY DEF TypeOK, ServerType, QueueType, AccessType, ReplicaType

\* Commands under way push values the master has pushed.
Sound == {x \in Written : x.type = "RPUSH" => x.value <= MaxValue}

\* A replica that has not joined has nothing.
Apart == ~attached => stream = <<>> /\ replica = <<>>

\* The server's own part.
ServerInv ==
    ServerType /\ Numbered /\ Fresh /\ Counted(pubsub_clients, total) /\ UnflushedOnlyByExec

\* The part about the replica.
ReplicaInv == ReplicaType /\ stream \in Seq(Sound) /\ Apart /\ ReplicaAgrees

\* Only the default user ever needs no password.
OnlyDefault == \A u \in Users : users[u].nopass => u = "default"

AccessInv == AccessType /\ OnlyDefault /\ LoginsNeedPasswords

IInv == ServerInv /\ QueueType /\ QueuesBelongToTransactions /\ ReplicaInv /\ AccessInv

LEMMA IInvType == IInv => TypeOK
  BY TypeParts DEF IInv, ServerInv, ReplicaInv, AccessInv

LEMMA InitInv == Init => IInv
  <1> SUFFICES ASSUME Init PROVE IInv
    OBVIOUS
  <1> USE ConstantsAssumption
  <1>1. ServerInv
    <2>1. Numbered /\ ServerType
      <3>1. list = <<>> /\ blocked = <<>> /\ pubsub_clients = [ch \in Channels |-> <<>>]
            /\ values = 0 /\ 0 \in 0 .. MaxValue
        BY DEF Init
      <3>2. list \in Seq(1 .. MaxValue) /\ list \in Seq(1 .. values) /\ blocked \in Seq(Clients)
        BY <3>1
      <3>3. pubsub_clients \in [Channels -> Seq(Clients)]
        BY <3>1
      <3>4. flags \in [Clients -> SUBSET {"MULTI", "PUBSUB"}] /\ total \in [Clients -> Nat]
        BY DEF Init
      <3> QED
        BY <3>1, <3>2, <3>3, <3>4 DEF Init, ServerType, Numbered
    <2>2. Counted(pubsub_clients, total)
      <3> SUFFICES ASSUME NEW c \in Clients
                   PROVE  Entries(pubsub_clients, c) = {} /\ total[c] = 0
        BY FS_EmptySet DEF Counted
      <3>1. \A ch \in Channels : DOMAIN pubsub_clients[ch] = {}
        <4>1. \A ch \in Channels : pubsub_clients[ch] = <<>>
          BY DEF Init
        <4>2. DOMAIN <<>> = {}
          OBVIOUS
        <4> QED
          BY <4>1, <4>2
      <3>2. \A e \in Channels \X Nat : e[1] \in Channels
        OBVIOUS
      <3>3. Entries(pubsub_clients, c) = {}
        BY <3>1, <3>2 DEF Entries
      <3> QED
        BY <3>3 DEF Init
    <2> QED
      <3>1. blocked \in Seq(Present) /\ pubsub_clients \in [Channels -> Seq(Present)]
        <4>1. <<>> \in Seq(Present)
          OBVIOUS
        <4> QED
          BY <4>1 DEF Init
      <3>2. open \subseteq Present /\ pending \subseteq Present
        BY DEF Init, Present
      <3> QED
        BY <2>1, <2>2, <3>1, <3>2 DEF ServerInv, UnflushedOnlyByExec, Init, Fresh
  <1>2. QueueType /\ QueuesBelongToTransactions
    <2>1. \A c \in Clients : queued_commands[c] = <<>> /\ flags[c] = {}
      BY DEF Init
    <2>2. queued_commands \in [Clients -> Seq(Queueable)]
      <3>1. <<>> \in Seq(Queueable)
        OBVIOUS
      <3> QED
        BY <3>1 DEF Init
    <2> QED
      BY <2>1, <2>2 DEF QueueType, QueuesBelongToTransactions
  <1>3. ReplicaInv
    <2>1. stream = <<>> /\ replica = <<>> /\ attached = FALSE /\ excused = FALSE
      BY DEF Init
    <2>2. /\ stream \in Seq([type : WriteCommands, value : 1 .. MaxValue + 1])
          /\ replica \in Seq(1 .. MaxValue) /\ stream \in Seq(Sound)
      BY <2>1
    <2> QED
      BY <2>1, <2>2, Zenon DEF ReplicaInv, ReplicaType, Apart, ReplicaAgrees
  <1>4. AccessInv
    <2>1. AccessType
      <3>1. user \in [Clients -> Users] /\ is_authenticated \in [Clients -> BOOLEAN]
            /\ waiting \subseteq Late
        BY DEF Init
      <3>2. users \in [Users -> [known : BOOLEAN, nopass : BOOLEAN,
                                 password : Passwords \cup {NoPassword}]]
        BY DEF Init
      <3> QED
        BY <3>1, <3>2 DEF AccessType
    <2>2. OnlyDefault
      BY DEF Init, OnlyDefault
    <2>3. LoginsNeedPasswords
      <3>1. \A c \in Clients \ waiting : user[c] = "default" /\ is_authenticated[c] = TRUE
        BY DEF Init
      <3> QED
        BY <3>1 DEF LoginsNeedPasswords
    <2> QED
      BY <2>1, <2>2, <2>3 DEF AccessInv
  <1> QED
    BY <1>1, <1>2, <1>3, <1>4 DEF IInv

\* What the end of a request makes of the server.
LEMMA ServerAnswers ==
    ASSUME TypeOK, Fresh, UnflushedOnlyByExec, NEW c \in Clients, Answers(c), waiting' = waiting
    PROVE  ServerInv'
  <1>1. PICK s, lost : Leaves(c, s, lost) /\ Finish(c, s, lost)
    BY DEF Answers
  <1>2. /\ list' = s.list /\ blocked' = s.blocked /\ pubsub_clients' = s.pubsub
        /\ flags' = s.flags /\ total' = s.total /\ pending' = s.pending /\ values' = s.values
        /\ armed' = armed \cup (Flushed(c, s) \cap open \cap s.pending)
        /\ eclipsed' = (eclipsed \ Flushed(c, s)) \cup lost
        /\ open' = open /\ aborted' = aborted
    BY <1>1 DEF Finish, flush
  <1>3. /\ s \in SessionType /\ s.list \in Seq(1 .. s.values) /\ s.values <= MaxValue
        /\ Counted(s.pubsub, s.total) /\ lost \subseteq Clients
        /\ s.pending \cap open \subseteq pending \cup Flushed(c, s) \cup lost \cup armed
    BY <1>1 DEF Leaves
  <1>4. /\ s.blocked \in Seq(Present) /\ s.pubsub \in [Channels -> Seq(Present)]
        /\ s.flags \in [Clients -> SUBSET {"MULTI", "PUBSUB"}] /\ s.total \in [Clients -> Nat]
        /\ s.pending \subseteq Present /\ s.values \in Nat
    BY <1>3 DEF SessionType
  <1>p. Present \subseteq Clients /\ Present' = Present
    BY DEF Present
  <1>q. /\ s.blocked \in Seq(Clients) /\ s.pubsub \in [Channels -> Seq(Clients)]
        /\ s.pending \subseteq Clients
    BY <1>4, <1>p, SeqMonotonic
  <1>5. /\ open \subseteq Clients /\ armed \subseteq open /\ aborted \in BOOLEAN
        /\ eclipsed \subseteq Clients /\ MaxValue \in Nat
    BY ConstantsAssumption DEF TypeOK
  <1>6. s.list \in Seq(1 .. MaxValue)
    <2>1. 1 .. s.values \subseteq 1 .. MaxValue
      BY <1>3, <1>4, <1>5
    <2> QED
      BY <1>3, <2>1, SeqMonotonic
  <1>7. ServerType'
    <2>1. armed' \subseteq open' /\ eclipsed' \subseteq Clients
      BY <1>2, <1>3, <1>5
    <2>2. values' \in 0 .. MaxValue
      BY <1>2, <1>3, <1>4, <1>5
    <2> QED
      BY <1>2, <1>4, <1>q, <1>5, <1>6, <2>1, <2>2 DEF ServerType
  <1>8. Numbered'
    BY <1>2, <1>3 DEF Numbered
  <1>9. Counted(pubsub_clients, total)'
    <2>1. Counted(pubsub_clients', total')
      BY <1>2, <1>3
    <2> QED
      BY <2>1 DEF Counted, Entries
  <1>10. UnflushedOnlyByExec'
    BY <1>2, <1>3 DEF UnflushedOnlyByExec
  <1>11. Fresh'
    BY <1>2, <1>4, <1>p DEF Fresh
  <1> QED
    BY <1>7, <1>8, <1>9, <1>10, <1>11 DEF ServerInv

LEMMA QueuesStep ==
    ASSUME TypeOK, QueuesBelongToTransactions, NEW c \in Clients, FlagStep(c)
    PROVE  QueuesBelongToTransactions'
  <1> SUFFICES ASSUME NEW d \in Clients
               PROVE  /\ queued_commands'[d] # <<>> => "MULTI" \in flags'[d]
                      /\ flags'[d] # {"MULTI", "PUBSUB"}
    BY DEF QueuesBelongToTransactions
  <1>1. /\ queued_commands[d] # <<>> => "MULTI" \in flags[d]
        /\ flags[d] # {"MULTI", "PUBSUB"} /\ flags[d] \subseteq {"MULTI", "PUBSUB"}
    BY DEF QueuesBelongToTransactions, TypeOK
  <1>2. CASE d # c
    BY <1>1, <1>2 DEF FlagStep
  <1>3. CASE d = c
    BY <1>1, <1>3 DEF FlagStep
  <1> QED
    BY <1>2, <1>3

\* A request and the replica.
LEMMA ReplicaStep ==
    ASSUME TypeOK, ReplicaInv, DataStep
    PROVE  ReplicaInv'
  <1>1. /\ attached' = attached /\ replica' = replica /\ excused' \in BOOLEAN /\ (excused => excused')
        /\ attached \in BOOLEAN /\ excused \in BOOLEAN
        /\ stream \in Seq(Written) /\ replica \in Seq(1 .. MaxValue) /\ stream \in Seq(Sound)
        /\ (~attached => stream = <<>> /\ replica = <<>>)
        /\ (attached /\ ~excused => list = Replay(replica, stream))
    BY DEF DataStep, ReplicaInv, ReplicaType, ReplicaAgrees, Apart, Written
  <1>2. stream' \in Seq(Sound) /\ stream' \in Seq(Written)
    <2>1. CASE stream' = stream
      BY <1>1, <2>1
    <2>2. CASE stream' # stream
      <3>1. PICK x \in Written : stream' = Append(stream, x) /\ (x.type = "RPUSH" => x.value <= MaxValue)
        BY <2>2 DEF DataStep
      <3>2. x \in Sound
        BY <3>1 DEF Sound
      <3> QED
        BY <1>1, <3>1, <3>2, AppendProperties
    <2> QED
      BY <2>1, <2>2
  <1>3. Apart'
    BY <1>1 DEF Apart, DataStep
  <1>4. ReplicaAgrees'
    <2> SUFFICES ASSUME attached', ~excused' PROVE list' = Replay(replica', stream')
      BY DEF ReplicaAgrees
    <2>1. list = Replay(replica, stream)
      BY <1>1
    <2>2. CASE stream' = stream /\ list' = list
      BY <1>1, <2>1, <2>2
    <2>3. CASE \E x \in Written : stream' = Append(stream, x) /\ list' = Apply(list, x)
      <3>1. PICK x \in Written : stream' = Append(stream, x) /\ list' = Apply(list, x)
        BY <2>3
      <3>2. MaxValue \in Nat
        BY ConstantsAssumption
      <3>3. Written \subseteq Propagated /\ 1 .. MaxValue \subseteq Nat
        BY <3>2 DEF Written, Propagated
      <3>4. stream \in Seq(Propagated) /\ replica \in Seq(Nat) /\ x \in Propagated
        BY <1>1, <3>3, SeqMonotonic
      <3>5. Replay(replica, Append(stream, x)) = Apply(Replay(replica, stream), x)
        BY <3>4, ReplayAppend
      <3> QED
        BY <1>1, <2>1, <3>1, <3>5
    <2> QED
      BY <1>1, <2>2, <2>3 DEF DataStep
  <1> QED
    BY <1>1, <1>2, <1>3, <1>4 DEF ReplicaInv, ReplicaType, Written

\* Logins, users and connections.
LEMMA AccessStep ==
    ASSUME AccessInv, NEW c \in Clients,
           \/ UNCHANGED access
           \/ \E u \in Users, p \in Passwords : handle_auth(c, u, p)
           \/ \E u \in Users, p \in Passwords \cup {NoPassword} : handle_acl_setuser(u, p)
           \/ onNewConnection(c)
    PROVE  AccessInv'
  <1>0. /\ waiting \subseteq Late
        /\ users \in [Users -> [known : BOOLEAN, nopass : BOOLEAN,
                                password : Passwords \cup {NoPassword}]]
        /\ user \in [Clients -> Users] /\ is_authenticated \in [Clients -> BOOLEAN]
        /\ \A u \in Users : users[u].nopass => u = "default"
        /\ \A d \in Clients \ waiting :
              /\ user[d] # "default" => is_authenticated[d] /\ users[user[d]].password # NoPassword
              /\ ~is_authenticated[d] => user[d] = "default"
                                           /\ users["default"].password # NoPassword
        /\ "default" \in Users /\ NoPassword \notin Passwords
    BY ConstantsAssumption DEF AccessInv, AccessType, OnlyDefault, LoginsNeedPasswords
  <1>1. CASE UNCHANGED access
    BY <1>1 DEF access, AccessInv, AccessType, OnlyDefault, LoginsNeedPasswords
  <1>2. ASSUME NEW u \in Users, NEW p \in Passwords, handle_auth(c, u, p)
        PROVE  AccessInv'
    <2>1. waiting' = waiting /\ users' = users
      BY <1>2 DEF handle_auth
    <2>2. CASE user' = user /\ is_authenticated' = is_authenticated
      BY <2>1, <2>2 DEF AccessInv, AccessType, OnlyDefault, LoginsNeedPasswords
    <2>3. CASE /\ PasswordMatches(u, p) /\ user' = [user EXCEPT ![c] = u]
               /\ is_authenticated' = [is_authenticated EXCEPT ![c] = TRUE]
      <3>1. AccessType'
        BY <1>0, <2>1, <2>3 DEF AccessType
      <3>2. OnlyDefault'
        BY <1>0, <2>1 DEF OnlyDefault
      <3>3. u # "default" => users[u].password # NoPassword
        BY <1>0, <2>3 DEF PasswordMatches
      <3>4. LoginsNeedPasswords'
        <4> SUFFICES ASSUME NEW d \in Clients \ waiting
                     PROVE  /\ user'[d] # "default" => is_authenticated'[d] /\ users[user'[d]].password # NoPassword
                            /\ ~is_authenticated'[d] => user'[d] = "default"
                                                        /\ users["default"].password # NoPassword
          BY <2>1 DEF LoginsNeedPasswords
        <4>1. CASE d = c
          <5>1. user'[d] = u /\ is_authenticated'[d] = TRUE
            BY <1>0, <2>3, <4>1
          <5> QED
            BY <3>3, <5>1
        <4>2. CASE d # c
          <5>1. user'[d] = user[d] /\ is_authenticated'[d] = is_authenticated[d]
            BY <1>0, <2>3, <4>2
          <5> QED
            BY <1>0, <5>1
        <4> QED
          BY <4>1, <4>2
      <3> QED
        BY <3>1, <3>2, <3>4 DEF AccessInv
    <2> QED
      BY <1>2, <2>2, <2>3 DEF handle_auth
  <1>3. ASSUME NEW u \in Users, NEW p \in Passwords \cup {NoPassword}, handle_acl_setuser(u, p)
        PROVE  AccessInv'
    <2>1. waiting' = waiting /\ user' = user /\ is_authenticated' = is_authenticated
      BY <1>3 DEF handle_acl_setuser
    <2> DEFINE new == IF p = NoPassword THEN [users[u] EXCEPT !.known = TRUE]
                      ELSE [known |-> TRUE, nopass |-> FALSE, password |-> p]
    <2>2. users' = [users EXCEPT ![u] = new]
      BY <1>3 DEF handle_acl_setuser
    <2>3. /\ new \in [known : BOOLEAN, nopass : BOOLEAN, password : Passwords \cup {NoPassword}]
          /\ new.nopass => users[u].nopass
          /\ users[u].password # NoPassword => new.password # NoPassword
      BY <1>0
    <2> HIDE DEF new
    <2>4. /\ users' \in [Users -> [known : BOOLEAN, nopass : BOOLEAN,
                                   password : Passwords \cup {NoPassword}]]
          /\ \A w \in Users : /\ users'[w].nopass => users[w].nopass
                              /\ users[w].password # NoPassword => users'[w].password # NoPassword
      BY <1>0, <2>2, <2>3
    <2>5. AccessType' /\ OnlyDefault'
      BY <1>0, <2>1, <2>4 DEF AccessType, OnlyDefault
    <2>6. LoginsNeedPasswords'
      BY <1>0, <2>1, <2>4 DEF LoginsNeedPasswords
    <2> QED
      BY <2>5, <2>6 DEF AccessInv
  <1>4. CASE onNewConnection(c)
    <2> DEFINE free == users["default"].nopass \/ users["default"].password = NoPassword
    <2>1. /\ waiting' = waiting \ {c} /\ users' = users
          /\ user' = [user EXCEPT ![c] = "default"]
          /\ is_authenticated' = [is_authenticated EXCEPT ![c] = free]
      BY <1>4 DEF onNewConnection
    <2>2. free \in BOOLEAN /\ (~free => users["default"].password # NoPassword)
      OBVIOUS
    <2> HIDE DEF free
    <2>3. AccessType' /\ OnlyDefault'
      BY <1>0, <2>1, <2>2 DEF AccessType, OnlyDefault
    <2>4. LoginsNeedPasswords'
      <3> SUFFICES ASSUME NEW d \in Clients \ (waiting \ {c})
                   PROVE  /\ user'[d] # "default" => is_authenticated'[d] /\ users[user'[d]].password # NoPassword
                          /\ ~is_authenticated'[d] => user'[d] = "default"
                                                      /\ users["default"].password # NoPassword
        BY <2>1 DEF LoginsNeedPasswords
      <3>1. CASE d = c
        <4>1. user'[d] = "default" /\ is_authenticated'[d] = free
          BY <1>0, <2>1, <3>1
        <4> QED
          BY <2>2, <4>1
      <3>2. CASE d # c
        <4>1. user'[d] = user[d] /\ is_authenticated'[d] = is_authenticated[d]
          BY <1>0, <2>1, <3>2
        <4> QED
          BY <1>0, <3>2, <4>1
      <3> QED
        BY <3>1, <3>2
    <2> QED
      BY <2>3, <2>4 DEF AccessInv
  <1> QED
    BY <1>1, <1>2, <1>3, <1>4

\* Which users a request may change.
LEMMA RequestAccess ==
    ASSUME NEW c \in Clients, Request(c)
    PROVE  \/ UNCHANGED access
           \/ \E u \in Users, p \in Passwords : handle_auth(c, u, p)
           \/ \E u \in Users, p \in Passwords \cup {NoPassword} : handle_acl_setuser(u, p)
  <1>1. ASSUME NEW type \in Queueable, QueueCommand(c, type)
        PROVE  UNCHANGED access
    BY <1>1 DEF QueueCommand
  <1>2. ASSUME NEW type \in Issued, NEW ch \in Channels, RefuseCommand(c, type, ch)
        PROVE  UNCHANGED access
    BY <1>2 DEF RefuseCommand
  <1>3. ASSUME NEW type \in Issued, NEW ch \in Channels, RunCommand(c, type, ch)
        PROVE  \/ UNCHANGED access
               \/ \E u \in Users, p \in Passwords : handle_auth(c, u, p)
               \/ \E u \in Users, p \in Passwords \cup {NoPassword} : handle_acl_setuser(u, p)
    BY <1>3 DEF RunCommand, RunSubscribed, RunPlain, RunAccess
  <1>4. ASSUME NEW ch \in Channels, handle_exec(c, ch)
        PROVE  UNCHANGED access
    BY <1>4 DEF handle_exec
  <1>5. CASE ExecAborts(c) \/ RefuseUnauthenticated(c) \/ RefuseEnd(c) \/ handle_discard(c)
    BY <1>5 DEF ExecAborts, RefuseUnauthenticated, RefuseEnd, handle_discard
  <1> QED
    BY <1>1, <1>2, <1>3, <1>4, <1>5 DEF Request

LEMMA RequestQueue ==
    ASSUME QueueType, NEW c \in Clients, Request(c)
    PROVE  QueueType'
  <1>0. queued_commands \in [Clients -> Seq(Queueable)]
    BY DEF QueueType
  <1>1. ASSUME NEW type \in Queueable, QueueCommand(c, type)
        PROVE  QueueType'
    <2>1. queued_commands' = [queued_commands EXCEPT ![c] = Append(@, type)]
      BY <1>1 DEF QueueCommand
    <2>2. Append(queued_commands[c], type) \in Seq(Queueable)
      BY <1>0, AppendProperties
    <2> QED
      BY <1>0, <2>1, <2>2 DEF QueueType
  <1>2. ASSUME queued_commands' = [queued_commands EXCEPT ![c] = <<>>]
        PROVE  QueueType'
    <2>1. <<>> \in Seq(Queueable)
      OBVIOUS
    <2> QED
      BY <1>0, <1>2, <2>1 DEF QueueType
  <1>3. ASSUME NEW type \in Issued, NEW ch \in Channels,
               RefuseCommand(c, type, ch) \/ RunCommand(c, type, ch)
        PROVE  queued_commands' = queued_commands
    BY <1>3 DEF RefuseCommand, RunCommand
  <1>4. ASSUME NEW ch \in Channels, handle_exec(c, ch)
        PROVE  queued_commands' = [queued_commands EXCEPT ![c] = <<>>]
    BY <1>4 DEF handle_exec
  <1>5. CASE handle_discard(c)
    BY <1>2, <1>5 DEF handle_discard
  <1>6. CASE ExecAborts(c) \/ RefuseUnauthenticated(c) \/ RefuseEnd(c)
    BY <1>6 DEF ExecAborts, RefuseUnauthenticated, RefuseEnd, QueueType
  <1>7. CASE \E type \in Issued, ch \in Channels :
                RefuseCommand(c, type, ch) \/ RunCommand(c, type, ch)
    BY <1>3, <1>7 DEF QueueType
  <1>8. CASE \E ch \in Channels : handle_exec(c, ch)
    BY <1>2, <1>4, <1>8
  <1> QED
    BY <1>1, <1>5, <1>6, <1>7, <1>8 DEF Request

\* The parts an action leaves alone.
LEMMA ServerKept ==
    ServerInv /\ UNCHANGED <<database, open, armed, eclipsed, waiting>> /\ aborted' \in BOOLEAN => ServerInv'
  BY ZenonT(60) DEF ServerInv, ServerType, Numbered, Fresh, Present, Counted, Entries, UnflushedOnlyByExec, database

LEMMA QueueKept ==
    QueueType /\ QueuesBelongToTransactions /\ UNCHANGED <<queued_commands, flags>> =>
       QueueType' /\ QueuesBelongToTransactions'
  BY DEF QueueType, QueuesBelongToTransactions

LEMMA ReplicaKept ==
    ReplicaInv /\ UNCHANGED <<list, replicas>> => ReplicaInv'
  BY DEF ReplicaInv, ReplicaType, Apart, ReplicaAgrees, replicas

LEMMA AccessKept == AccessInv /\ UNCHANGED access => AccessInv'
  BY DEF access, AccessInv, AccessType, OnlyDefault, LoginsNeedPasswords

LEMMA NextInv == IInv /\ [Next]_vars => IInv'
  <1> SUFFICES ASSUME IInv, [Next]_vars PROVE IInv'
    OBVIOUS
  <1>0. /\ TypeOK /\ ServerInv /\ QueueType /\ QueuesBelongToTransactions /\ ReplicaInv /\ AccessInv
        /\ Numbered /\ Fresh /\ Counted(pubsub_clients, total) /\ UnflushedOnlyByExec /\ aborted \in BOOLEAN
    BY IInvType DEF IInv, ServerInv, ServerType
  <1>1. ASSUME NEW c \in Clients, Request(c)
        PROVE  IInv'
    <2>0. waiting' = waiting
      BY <1>1, RequestAccess DEF access, handle_auth, handle_acl_setuser
    <2>1. AccessInv' /\ QueueType'
      BY <1>0, <1>1, RequestAccess, AccessStep, RequestQueue
    <2>2. CASE ExecAborts(c)
      <3>1. UNCHANGED <<database, queued_commands, open, armed, eclipsed, replicas>> /\ aborted' = TRUE
        BY <2>2 DEF ExecAborts
      <3>2. UNCHANGED <<list, flags>>
        BY <3>1 DEF database
      <3> QED
        BY <1>0, <2>0, <2>1, <3>1, <3>2, ServerKept, QueueKept, ReplicaKept DEF IInv
    <2>3. CASE Effect(c)
      <3>1. ServerInv'
        BY <1>0, <2>0, <2>3, ServerAnswers DEF Effect
      <3>2. QueuesBelongToTransactions'
        BY <1>0, <2>3, QueuesStep DEF Effect
      <3>3. ReplicaInv'
        BY <1>0, <2>3, ReplicaStep DEF Effect
      <3> QED
        BY <2>1, <3>1, <3>2, <3>3 DEF IInv
    <2> QED
      BY <1>0, <1>1, <2>2, <2>3, RequestStep
  <1>2. ASSUME NEW c \in Clients, handleWrite(c)
        PROVE  IInv'
    <2>1. /\ pending' = pending \ {c} /\ armed' = armed \ {c}
          /\ UNCHANGED <<list, blocked, pubsub_clients, flags, total, values,
                         queued_commands, open, aborted, eclipsed, replicas, access>>
      BY <1>2 DEF handleWrite
    <2>w. waiting' = waiting
      BY <2>1 DEF access
    <2>2. ServerInv'
      <3>1. ServerType' /\ Numbered' /\ Counted(pubsub_clients, total)'
        BY <1>0, <2>1 DEF ServerInv, ServerType, Numbered, Counted, Entries
      <3>3. Fresh'
        BY <1>0, <2>1, <2>w DEF Fresh, Present
      <3>2. UnflushedOnlyByExec'
        BY <1>0, <2>1 DEF UnflushedOnlyByExec
      <3> QED
        BY <3>1, <3>2, <3>3 DEF ServerInv
    <2> QED
      BY <1>0, <2>1, <2>2, QueueKept, ReplicaKept, AccessKept DEF IInv
  <1>3. ASSUME NEW c \in Clients, handleClose(c)
        PROVE  IInv'
    <2>1. /\ open' = open \ {c} /\ armed' = armed \ {c} /\ eclipsed' = eclipsed \ {c}
          /\ UNCHANGED <<database, queued_commands, aborted, replicas, access>>
      BY <1>3 DEF handleClose
    <2>w. waiting' = waiting
      BY <2>1 DEF access
    <2>2. UNCHANGED <<list, blocked, pubsub_clients, flags, total, pending, values>>
      BY <2>1 DEF database
    <2>3. ServerInv'
      <3>1. ServerType' /\ Numbered' /\ Counted(pubsub_clients, total)'
        BY <1>0, <2>1, <2>2 DEF ServerInv, ServerType, Numbered, Counted, Entries
      <3>3. Fresh'
        BY <1>0, <2>1, <2>2, <2>w DEF Fresh, Present
      <3>2. UnflushedOnlyByExec'
        BY <1>0, <2>1, <2>2 DEF UnflushedOnlyByExec
      <3> QED
        BY <3>1, <3>2, <3>3 DEF ServerInv
    <2> QED
      BY <1>0, <2>1, <2>2, <2>3, QueueKept, ReplicaKept, AccessKept DEF IInv
  <1>4. ASSUME NEW c \in Clients, onNewConnection(c)
        PROVE  IInv'
    <2>1. /\ open' = open \cup {c}
          /\ UNCHANGED <<database, queued_commands, armed, aborted, eclipsed, replicas>>
      BY <1>4 DEF onNewConnection
    <2>w. c \in waiting /\ waiting' = waiting \ {c}
      BY <1>4 DEF onNewConnection
    <2>2. UNCHANGED <<list, blocked, pubsub_clients, flags, total, pending, values>>
      BY <2>1 DEF database
    <2>3. ServerInv'
      <3>1. ServerType' /\ Numbered' /\ Counted(pubsub_clients, total)'
        BY <1>0, <2>1, <2>2 DEF ServerInv, ServerType, Numbered, Counted, Entries
      <3>3. Fresh'
        <4>1. Present \subseteq Present' /\ c \in Present'
          BY <2>w DEF Present
        <4>2. blocked' \in Seq(Present') /\ pubsub_clients' \in [Channels -> Seq(Present')]
          BY <1>0, <2>2, <4>1, SeqMonotonic DEF Fresh
        <4> QED
          BY <1>0, <2>1, <2>2, <4>1, <4>2 DEF Fresh
      <3>2. UnflushedOnlyByExec'
        <4>1. c \notin pending
          BY <1>0, <2>w DEF Fresh, Present
        <4> QED
          BY <1>0, <2>1, <2>2, <4>1 DEF UnflushedOnlyByExec
      <3> QED
        BY <3>1, <3>2, <3>3 DEF ServerInv
    <2>4. AccessInv'
      BY <1>0, <1>4, AccessStep
    <2> QED
      BY <1>0, <2>1, <2>2, <2>3, <2>4, QueueKept, ReplicaKept DEF IInv
  <1>5. CASE handle_psync
    <2>1. /\ ~attached /\ attached' = TRUE /\ excused' = (values > 0)
          /\ UNCHANGED <<database, queued_commands, network, stream, replica, access>>
      BY <1>5 DEF handle_psync
    <2>2. UNCHANGED <<list, flags, open, armed, eclipsed, aborted, waiting>>
      BY <2>1 DEF database, network, access
    <2>3. ReplicaInv'
      <3>1. stream = <<>> /\ replica = <<>>
        BY <1>0, <2>1 DEF ReplicaInv, Apart
      <3>2. excused' \in BOOLEAN /\ (~excused' => values = 0)
        <4>1. values \in 0 .. MaxValue /\ MaxValue \in Nat
          BY <1>0, ConstantsAssumption DEF TypeOK
        <4>2. (values > 0) \in BOOLEAN /\ (~(values > 0) => values = 0)
          BY <4>1
        <4> QED
          BY <2>1, <4>2
      <3>3. values = 0 => list = <<>>
        <4> SUFFICES ASSUME values = 0 PROVE list = <<>>
          OBVIOUS
        <4>1. list \in Seq(1 .. 0) /\ 1 .. 0 = {}
          BY <1>0 DEF Numbered
        <4>2. \A i \in 1 .. Len(list) : list[i] \in 1 .. 0
          BY <4>1, ElementOfSeq
        <4>3. Len(list) = 0
          <5>1. Len(list) \in Nat
            BY <4>1
          <5>2. Len(list) # 0 => 1 \in 1 .. Len(list)
            BY <5>1
          <5> QED
            BY <4>1, <4>2, <5>2
        <4> QED
          BY <4>1, <4>3, EmptySeq
      <3>4. Replay(<<>>, <<>>) = <<>>
        <4>1. <<>> \in Seq(Nat)
          OBVIOUS
        <4> QED
          BY <4>1, ReplayNothing
      <3>5. ReplicaAgrees'
        BY <2>1, <2>2, <3>1, <3>2, <3>3, <3>4 DEF ReplicaAgrees
      <3>6. attached' \in BOOLEAN /\ Apart'
        BY <2>1 DEF Apart
      <3> QED
        BY <1>0, <2>1, <3>2, <3>5, <3>6 DEF ReplicaInv, ReplicaType
    <2> QED
      BY <1>0, <2>1, <2>2, <2>3, ServerKept, QueueKept, AccessKept DEF IInv
  <1>6. CASE process_commands
    <2>1. /\ stream # <<>> /\ replica' = Apply(replica, Head(stream)) /\ stream' = Tail(stream)
          /\ UNCHANGED <<database, queued_commands, network, attached, excused, access>>
      BY <1>6 DEF process_commands
    <2>2. UNCHANGED <<list, flags, open, armed, eclipsed, aborted, waiting>>
      BY <2>1 DEF database, network, access
    <2>3. ReplicaInv'
      <3>1. /\ stream \in Seq(Written) /\ stream \in Seq(Sound) /\ replica \in Seq(1 .. MaxValue)
            /\ attached \in BOOLEAN /\ excused \in BOOLEAN
            /\ attached /\ (~excused => list = Replay(replica, stream))
        BY <1>0, <2>1 DEF ReplicaInv, ReplicaType, ReplicaAgrees, Apart, Written
      <3>2. MaxValue \in Nat
        BY ConstantsAssumption
      <3>3. Written \subseteq Propagated /\ 1 .. MaxValue \subseteq Nat
        BY <3>2 DEF Written, Propagated
      <3>4. stream \in Seq(Propagated) /\ replica \in Seq(Nat)
        BY <3>1, <3>3, SeqMonotonic
      <3>5. Replay(replica', stream') = Replay(replica, stream)
        BY <2>1, <3>4, ReplayFirst
      <3>6. Tail(stream) \in Seq(Sound) /\ Tail(stream) \in Seq(Written) /\ Head(stream) \in Sound
        BY <2>1, <3>1, HeadTailProperties
      <3>7. replica' \in Seq(1 .. MaxValue)
        <4> DEFINE x == Head(stream)
        <4>1. x \in Written /\ (x.type = "RPUSH" => x.value \in 1 .. MaxValue)
          BY <3>2, <3>6 DEF Sound, Written
        <4> HIDE DEF x
        <4>2. \/ x.type = "RPUSH" /\ Apply(replica, x) = Append(replica, x.value)
              \/ replica # <<>> /\ Apply(replica, x) = Tail(replica)
              \/ Apply(replica, x) = replica
          BY DEF Apply
        <4>3. Apply(replica, x) \in Seq(1 .. MaxValue)
          <5>1. x.type = "RPUSH" => Append(replica, x.value) \in Seq(1 .. MaxValue)
            BY <3>1, <4>1, AppendProperties
          <5>2. replica # <<>> => Tail(replica) \in Seq(1 .. MaxValue)
            BY <3>1, HeadTailProperties
          <5> QED
            BY <3>1, <4>2, <5>1, <5>2
        <4> QED
          BY <2>1, <4>3 DEF x
      <3>8. ReplicaAgrees' /\ Apart'
        BY <2>1, <2>2, <3>1, <3>5 DEF ReplicaAgrees, Apart
      <3> QED
        BY <2>1, <3>1, <3>6, <3>7, <3>8 DEF ReplicaInv, ReplicaType, Written
    <2> QED
      BY <1>0, <2>1, <2>2, <2>3, ServerKept, QueueKept, AccessKept DEF IInv
  <1>7. CASE UNCHANGED vars
    <2>1. UNCHANGED <<database, queued_commands, open, armed, eclipsed, aborted, replicas, access, list, flags, waiting>>
      BY <1>7 DEF vars, network, database, access
    <2> QED
      BY <1>0, <2>1, ServerKept, QueueKept, ReplicaKept, AccessKept DEF IInv
  <1> QED
    BY <1>1, <1>2, <1>3, <1>4, <1>5, <1>6, <1>7 DEF Next

LEMMA Invariance == Spec => []IInv
  BY InitInv, NextInv, PTL DEF Spec

\* The entries of a client, channel by channel.
LEMMA CountedSubscriptions ==
    TypeOK /\ Counted(pubsub_clients, total) => SubscriptionsCounted
  <1> SUFFICES ASSUME TypeOK, Counted(pubsub_clients, total), NEW c \in Clients
               PROVE  Entries(pubsub_clients, c)
                         = UNION {{ch} \X Subscriptions(c, ch) : ch \in Channels}
    BY DEF SubscriptionsCounted, Counted
  <1>1. ASSUME NEW ch \in Channels
        PROVE  DOMAIN pubsub_clients[ch] \subseteq Nat
    <2>1. pubsub_clients[ch] \in Seq(Clients)
      BY DEF TypeOK
    <2> QED
      BY <2>1
  <1>2. \A e : e \in Entries(pubsub_clients, c) <=>
                  \E ch \in Channels : e \in {ch} \X Subscriptions(c, ch)
    <2>1. ASSUME NEW e, e \in Entries(pubsub_clients, c)
          PROVE  \E ch \in Channels : e \in {ch} \X Subscriptions(c, ch)
      BY <2>1 DEF Entries, Subscriptions
    <2>2. ASSUME NEW e, NEW ch \in Channels, e \in {ch} \X Subscriptions(c, ch)
          PROVE  e \in Entries(pubsub_clients, c)
      BY <1>1, <2>2 DEF Entries, Subscriptions
    <2> QED
      BY <2>1, <2>2
  <1> QED
    BY <1>2

-----------------------------------------------------------------------------
(* The theorems.                                                           *)

\* Every variable keeps its type; in particular what a replica executes never
\* pushes a value the bound on the master rules out (handle_propagate,
\* process_commands).
THEOREM TypeCorrect == Spec => []TypeOK
  BY Invariance, IInvType, PTL

\* Unless something excuses it, a replica that executes what is under way
\* holds the master's list (handle_propagate, process_commands).
THEOREM ReplicasAgree == Spec => []ReplicaAgrees
  <1>1. IInv => ReplicaAgrees
    BY DEF IInv, ReplicaInv
  <1> QED
    BY Invariance, <1>1, PTL

\* A buffered reply of a live connection is on its way unless an EXEC lost
\* track of the client (processClientRequest, handle_exec).
THEOREM RepliesFlushed == Spec => []UnflushedOnlyByExec
  <1>1. IInv => UnflushedOnlyByExec
    BY DEF IInv, ServerInv
  <1> QED
    BY Invariance, <1>1, PTL

\* The count that SUBSCRIBE and UNSUBSCRIBE report is the number of entries
\* of the client in pubsub_clients (handleSubscribe, handleUnSubscribe).
THEOREM CountsAreRight == Spec => []SubscriptionsCounted
  <1>1. IInv => SubscriptionsCounted
    BY IInvType, CountedSubscriptions DEF IInv, ServerInv
  <1> QED
    BY Invariance, <1>1, PTL

\* Commands are queued only in a transaction, and no client is in one and
\* subscribed at once (DB::execute, handle_exec, handle_discard).
THEOREM QueuesNeedMulti == Spec => []QueuesBelongToTransactions
  <1>1. IInv => QueuesBelongToTransactions
    BY DEF IInv
  <1> QED
    BY Invariance, <1>1, PTL

\* Nobody but the default user is logged in without a password, and only a
\* default user with one leaves a connection unauthenticated (handle_auth,
\* handle_acl_setuser, onNewConnection).
THEOREM PasswordsNeeded == Spec => []LoginsNeedPasswords
  <1>1. IInv => LoginsNeedPasswords
    BY DEF IInv, AccessInv
  <1> QED
    BY Invariance, <1>1, PTL
=============================================================================
