------------------------- MODULE BlockingListProofs -------------------------
(* Invariants of BlockingList for every value of its constants.            *)
EXTENDS BlockingList, Induction, SequenceTheorems, FiniteSetTheorems, TLAPS

Items == 0 .. MaxValue

\* Sequences of items, and lists as sequences of items.
LEMMA ItemSequences ==
    /\ <<>> \in Seq(Items)
    /\ <<>> \in Seq(1 .. MaxValue)
    /\ \A x \in Items : <<x>> \in Seq(Items)
    /\ <<0>> \in Seq(Items)
    /\ \A s \in Seq(1 .. MaxValue) : s \in Seq(Items) /\ Elements(s) \subseteq 1 .. MaxValue
    /\ \A s \in Seq(Items) : Elements(s) \subseteq Items
  <1>1. 0 \in Items /\ 1 .. MaxValue \subseteq Items
    BY ConstantsAssumption DEF Items
  <1>2. \A x \in Items : <<x>> \in Seq(Items)
    OBVIOUS
  <1>3. \A S : \A s \in Seq(S) : Elements(s) \subseteq S
    BY DEF Elements
  <1>4. \A s \in Seq(1 .. MaxValue) : s \in Seq(Items)
    BY <1>1, SeqMonotonic
  <1>5. <<>> \in Seq(Items) /\ <<>> \in Seq(1 .. MaxValue)
    OBVIOUS
  <1>6. <<0>> \in Seq(Items)
    BY <1>1, <1>2
  <1> QED
    BY <1>2, <1>3, <1>4, <1>5, <1>6

\* What a reply puts into a buffer keeps it a sequence of items.
LEMMA RespondType ==
    ASSUME TypeOK, NEW c \in Clients, NEW items \in Seq(Items), Respond(c, items)
    PROVE  /\ write_buffer' \in [Clients -> Seq(Items)]
           /\ armed' \subseteq open'
           /\ open' \subseteq Clients
           /\ phase' \in {"waiting", "dispatch", "aborted"}
           /\ wake' \in 0 .. Never
           /\ now' \in 0 .. MaxTime
  BY ConstantsAssumption DEF TypeOK, Respond, Dispatching, flush, Items, Never

\* Pushing fresh values yields a list of values.
LEMMA PushedType ==
    ASSUME TypeOK, NEW k \in Keys, NEW lo \in Nat, NEW n \in Nat,
           lo + n <= MaxValue, NEW p \in BOOLEAN
    PROVE  push_value_to_list(k, lo, n, p) \in Seq(1 .. MaxValue)
  <1> DEFINE up == [i \in 1 .. n |-> lo + i]
             down == [i \in 1 .. n |-> lo + n + 1 - i]
  <1>1. up \in Seq(1 .. MaxValue)
    BY ConstantsAssumption
  <1>2. down \in Seq(1 .. MaxValue)
    BY ConstantsAssumption
  <1>3. listPack[k] \in Seq(1 .. MaxValue)
    BY DEF TypeOK
  <1> HIDE DEF up, down
  <1>4. up \in Seq(1 .. MaxValue) /\ down \in Seq(1 .. MaxValue) =>
          /\ down \o listPack[k] \in Seq(1 .. MaxValue)
          /\ listPack[k] \o up \in Seq(1 .. MaxValue)
    BY <1>3
  <1> QED
    BY <1>1, <1>2, <1>4 DEF push_value_to_list, up, down

\* The state stays well typed: one step per handler.
LEMMA TypeInductive ==
    ASSUME TypeOK, [Next]_vars
    PROVE  TypeOK'
  <1> USE ConstantsAssumption
  <1>1. ASSUME NEW c \in Clients, NEW k \in Keys, NEW t \in Timeouts,
               handle_blpop(c, k, t)
        PROVE  TypeOK'
    <2>1. CASE BlpopBlocks(c, k, t)
      BY <2>1, SMTT(30) DEF TypeOK, BlpopBlocks, Dispatching, store, BlockedClient, Never
    <2>2. CASE BlpopWrongType(c, k)
      <3>1. <<0>> \in Seq(Items)
        BY DEF Items
      <3> QED
        BY <2>2, <3>1, RespondType DEF TypeOK, BlpopWrongType, store, aux, Items
    <2>3. CASE BlpopPops(c, k)
      <3>1. listPack[k] \in Seq(1 .. MaxValue) /\ listPack[k] # <<>>
        BY <2>3 DEF TypeOK, BlpopPops
      <3>2. /\ <<Head(listPack[k])>> \in Seq(Items)
            /\ Tail(listPack[k]) \in Seq(1 .. MaxValue)
        <4>1. Head(listPack[k]) \in 1 .. MaxValue /\ Tail(listPack[k]) \in Seq(1 .. MaxValue)
          BY <3>1, HeadTailProperties
        <4> QED
          BY <4>1, ItemSequences DEF Items
      <3> QED
        BY <2>3, <3>2, RespondType DEF TypeOK, BlpopPops, aux, Items
    <2> QED
      BY <1>1, <2>1, <2>2, <2>3 DEF handle_blpop
  <1>2. ASSUME NEW c \in Clients, NEW k \in Keys, NEW n \in PushSizes,
               NEW p \in BOOLEAN, handle_push(c, k, n, p)
        PROVE  TypeOK'
    <2>0. n \in Nat \ {0} /\ values + n <= MaxValue /\ values \in Nat
      BY <1>2 DEF handle_push, TypeOK
    <2>1. ASSUME PushServes(c, k, n, p), values' = values + n,
                 UNCHANGED <<tickets, gone>>
          PROVE  TypeOK'
      <3>1. PICK e \in Front(blocked_keys[k]) :
              LET served == [write_buffer EXCEPT ![e.client] = Append(@, values + 1)]
                  buffer == [served EXCEPT ![c] = Append(@, 0)]
              IN  /\ blocked_keys' = [blocked_keys EXCEPT ![k] = @ \ {e}]
                  /\ write_buffer' = buffer
                  /\ armed' = flush({c, e.client}, buffer)
                  /\ overfed' = IF n > 1 /\ blocked_keys[k] # {e}
                                THEN overfed \cup {k} ELSE overfed
        BY <2>1 DEF PushServes
      <3>2. e \in BlockedClient /\ e.client \in Clients
        BY <3>1 DEF Front, TypeOK, BlockedClient
      <3>3. write_buffer' \in [Clients -> Seq(Items)]
        <4>1. write_buffer \in [Clients -> Seq(Items)]
          BY DEF TypeOK, Items
        <4>2. values + 1 \in Items /\ 0 \in Items
          BY <2>0 DEF Items
        <4> DEFINE served == [write_buffer EXCEPT ![e.client] = Append(@, values + 1)]
        <4>3. served \in [Clients -> Seq(Items)]
          BY <3>2, <4>1, <4>2
        <4>4. write_buffer' = [served EXCEPT ![c] = Append(@, 0)]
          BY <3>1
        <4> HIDE DEF served
        <4> QED
          BY <4>2, <4>3, <4>4
      <3>6. /\ armed' \subseteq open
            /\ blocked_keys' \in [Keys -> SUBSET BlockedClient]
            /\ overfed' \subseteq Keys
        BY <3>1 DEF TypeOK, flush
      <3>7. /\ open' = open /\ now' = now /\ phase' = "dispatch" /\ wake' = Never
        BY <2>1 DEF PushServes, Dispatching
      <3>4. push_value_to_list(k, values + 1, n - 1, p) \in Seq(1 .. MaxValue)
        BY <2>0, PushedType
      <3>5. /\ listPack' \in [Keys -> Seq(1 .. MaxValue)]
            /\ keyType' \in [Keys -> {"none", "string", "list"}]
            /\ expiration' = expiration
        BY <2>1, <3>4 DEF PushServes, StorePushed, TypeOK
      <3> QED
        BY <2>0, <2>1, <3>3, <3>5, <3>6, <3>7 DEF TypeOK, Items, Never
    <2>2. ASSUME PushStores(c, k, n, p), values' = values + n,
                 UNCHANGED <<tickets, gone>>
          PROVE  TypeOK'
      <3>1. push_value_to_list(k, values, n, p) \in Seq(1 .. MaxValue)
        BY <2>0, PushedType
      <3>2. /\ listPack' \in [Keys -> Seq(1 .. MaxValue)]
            /\ keyType' \in [Keys -> {"none", "string", "list"}]
            /\ expiration' = expiration
        BY <2>2, <3>1 DEF PushStores, StorePushed, TypeOK
      <3>3. /\ <<0>> \in Seq(Items) /\ Respond(c, <<0>>)
            /\ UNCHANGED <<blocked_keys, overfed>>
        BY <2>2, ItemSequences DEF PushStores
      <3>4. values' \in 0 .. MaxValue
        BY <2>0, <2>2
      <3> QED
        BY <2>2, <3>2, <3>3, <3>4, RespondType DEF TypeOK, Items
    <2>3. CASE PushAborts(c, k, n)
      BY <2>3 DEF TypeOK, PushAborts, Abort, store, aux
    <2> QED
      BY <1>2, <2>1, <2>2, <2>3 DEF handle_push
  <1>3. ASSUME NEW c \in Clients, NEW k \in Keys, NEW n \in PopCounts,
               handle_lpop(c, k, n)
        PROVE  TypeOK'
    <2> DEFINE popped == IF n < Len(listPack[k]) THEN n ELSE Len(listPack[k])
               items == IF popped = 0 THEN <<0>> ELSE SubSeq(listPack[k], 1, popped)
    <2>1. listPack[k] \in Seq(1 .. MaxValue) /\ n \in Nat
      BY DEF TypeOK
    <2>2. popped \in 0 .. Len(listPack[k])
      BY <2>1
    <2>3. /\ SubSeq(listPack[k], popped + 1, Len(listPack[k])) \in Seq(1 .. MaxValue)
          /\ SubSeq(listPack[k], 1, popped) \in Seq(Items)
      <3> HIDE DEF popped
      <3> QED
        BY <2>1, <2>2, SMTT(30) DEF Items
    <2>4. items \in Seq(Items)
      BY <2>3, ItemSequences
    <2>5. Respond(c, items) /\ UNCHANGED <<keyType, expiration, blocked_keys, aux>>
      BY <1>3 DEF handle_lpop
    <2>6. listPack' = [listPack EXCEPT ![k] = SubSeq(@, popped + 1, Len(@))]
      BY <1>3 DEF handle_lpop
    <2> HIDE DEF items, popped
    <2> QED
      BY <2>3, <2>4, <2>5, <2>6, RespondType DEF TypeOK, aux, Items
  <1>4. ASSUME NEW c \in Clients, NEW k \in Keys, handle_set(c, k)
        PROVE  TypeOK'
    <2>1. /\ <<0>> \in Seq(Items) /\ Respond(c, <<0>>)
          /\ UNCHANGED <<blocked_keys, tickets, values, overfed>>
      BY <1>4, ItemSequences DEF handle_set
    <2>2. expiration' \in [Keys -> 0 .. Never]
      <3>1. CASE UNCHANGED expiration
        BY <3>1 DEF TypeOK
      <3>2. ASSUME NEW t \in Lifetimes, now + t <= MaxTime,
                   expiration' = [expiration EXCEPT ![k] = now + t]
            PROVE  expiration' \in [Keys -> 0 .. Never]
        <4>1. now + t \in 0 .. Never
          BY <3>2 DEF TypeOK, Never
        <4> QED
          BY <3>2, <4>1 DEF TypeOK
      <3> QED
        BY <1>4, <3>1, <3>2 DEF handle_set
    <2>3. gone' \subseteq 1 .. MaxValue
      BY <1>4, ItemSequences DEF handle_set, TypeOK
    <2>4. /\ keyType' \in [Keys -> {"none", "string", "list"}]
          /\ listPack' \in [Keys -> Seq(1 .. MaxValue)]
      BY <1>4, ItemSequences DEF handle_set, TypeOK
    <2> QED
      BY <2>1, <2>2, <2>3, <2>4, RespondType DEF TypeOK, Items
  <1>5. ASSUME NEW c \in Clients, NEW k \in Keys, handle_incr(c, k)
        PROVE  TypeOK'
    <2>1. <<0>> \in Seq(Items) /\ Respond(c, <<0>>)
      BY <1>5 DEF Items, handle_incr
    <2> QED
      BY <1>5, <2>1, RespondType DEF TypeOK, handle_incr, aux, Items
  <1>6. ASSUME NEW c \in Clients, NEW k \in Keys, handle_get_or_type(c, k)
        PROVE  TypeOK'
    <2>1. <<0>> \in Seq(Items) /\ <<>> \in Seq(Items)
      BY DEF Items
    <2>2. gone' \subseteq 1 .. MaxValue
      BY <1>6, ItemSequences DEF handle_get_or_type, TypeOK
    <2>3. \E items \in Seq(Items) : Respond(c, items)
      BY <1>6, <2>1 DEF handle_get_or_type
    <2>4. /\ keyType' \in [Keys -> {"none", "string", "list"}]
          /\ listPack' \in [Keys -> Seq(1 .. MaxValue)]
          /\ expiration' \in [Keys -> 0 .. Never]
      <3>1. CASE KeyExpired(k)
        <4>1. Never \in 0 .. Never
          BY DEF Never
        <4> QED
          BY <1>6, <3>1, <4>1, ItemSequences DEF handle_get_or_type, TypeOK
      <3>2. CASE ~KeyExpired(k)
        BY <1>6, <3>2 DEF handle_get_or_type, TypeOK, store
      <3> QED
        BY <3>1, <3>2
    <2> QED
      BY <1>6, <2>2, <2>3, <2>4, RespondType DEF TypeOK, handle_get_or_type, Items
  <1>7. ASSUME NEW c \in Clients, handleWrite(c)
        PROVE  TypeOK'
    <2>1. write_buffer' \in [Clients -> Seq(0 .. MaxValue)]
      BY <1>7, ItemSequences DEF TypeOK, handleWrite, Items
    <2>2. gone' \subseteq 1 .. MaxValue
      <3>1. Elements(write_buffer[c]) \subseteq 0 .. MaxValue
        BY ItemSequences DEF TypeOK, Items
      <3> QED
        <4>1. \A x \in Elements(write_buffer[c]) \ {0} : x \in 1 .. MaxValue
          BY <3>1
        <4> QED
          BY <1>7, <4>1 DEF TypeOK, handleWrite
    <2> QED
      BY <1>7, <2>1, <2>2 DEF TypeOK, handleWrite, Dispatching, store, Never
  <1>8. ASSUME NEW c \in Clients, handleClose(c)
        PROVE  TypeOK'
    BY <1>8 DEF TypeOK, handleClose, Dispatching, store, aux, Never
  <1>9. ASSUME LoopTurn
        PROVE  TypeOK'
    <2>1. /\ write_buffer' \in [Clients -> Seq(0 .. MaxValue)]
          /\ armed' \subseteq open
          /\ blocked_keys' \in [Keys -> SUBSET BlockedClient]
      <3> DEFINE expired == UNION {{e \in blocked_keys[k] : is_expired(e)} : k \in Keys}
      <3>1. ExpiryReplies(expired) \in [Clients -> Seq(0 .. MaxValue)]
        <4>1. \A c \in Clients : Append(write_buffer[c], 0) \in Seq(0 .. MaxValue)
          BY DEF TypeOK
        <4> QED
          BY <4>1 DEF ExpiryReplies, TypeOK
      <3>2. /\ write_buffer' = ExpiryReplies(expired)
            /\ armed' = flush({e.client : e \in expired}, ExpiryReplies(expired))
            /\ blocked_keys' =
                 [k \in Keys |-> {e \in blocked_keys[k] : ~is_expired(e)}]
        BY <1>9 DEF LoopTurn, check_and_expire_blocked_clients
      <3> HIDE DEF expired
      <3> QED
        BY <3>1, <3>2 DEF flush, TypeOK
    <2>2. wake' \in 0 .. Never
      BY <1>9, <2>1 DEF LoopTurn, get_next_timeout_ms, Front, BlockedClient, Never
    <2> QED
      BY <1>9, <2>1, <2>2 DEF LoopTurn, TypeOK, store, aux
  <1>10. CASE Tick
    BY <1>10 DEF TypeOK, Tick, store, aux
  <1>11. CASE UNCHANGED vars
    BY <1>11 DEF TypeOK, vars, store, loop, aux
  <1> QED
    BY <1>1, <1>2, <1>3, <1>4, <1>5, <1>6, <1>7, <1>8, <1>9, <1>10, <1>11
       DEF Next, Request, TimerFires, EventsHandled

\* Every state of every instance is well typed; in particular only live
\* connections are ever registered for EPOLLOUT.
THEOREM TypeCorrect == Spec => []TypeOK
  <1>1. Init => TypeOK
    BY ConstantsAssumption DEF Init, TypeOK, Never
  <1> QED
    BY <1>1, TypeInductive, PTL DEF Spec

-----------------------------------------------------------------------------
(* The three invariants that hold step by step.                            *)

\* A push makes no list out of a string, and no other command touches the
\* expiration of a key without making it a string.
LEMMA ExpireInductive ==
    ASSUME TypeOK, OnlyStringsExpire, [Next]_vars
    PROVE  OnlyStringsExpire'
  <1> USE DEF OnlyStringsExpire, Never
  <1>1. ASSUME NEW c \in Clients, NEW k \in Keys, NEW t \in Timeouts,
               handle_blpop(c, k, t)
        PROVE  OnlyStringsExpire'
    BY <1>1 DEF handle_blpop, BlpopBlocks, BlpopWrongType, BlpopPops, store
  <1>2. ASSUME NEW c \in Clients, NEW k \in Keys, NEW n \in PushSizes,
               NEW p \in BOOLEAN, handle_push(c, k, n, p)
        PROVE  OnlyStringsExpire'
    <2>1. CASE PushServes(c, k, n, p)
      <3>1. n \in Nat \ {0}
        BY ConstantsAssumption
      <3> QED
        BY <2>1, <3>1 DEF PushServes, StorePushed, TypeOK
    <2>2. CASE PushStores(c, k, n, p)
      BY <2>2 DEF PushStores, StorePushed, TypeOK
    <2>3. CASE PushAborts(c, k, n)
      BY <2>3 DEF PushAborts, Abort, store
    <2> QED
      BY <1>2, <2>1, <2>2, <2>3 DEF handle_push
  <1>3. ASSUME NEW c \in Clients, NEW k \in Keys, NEW n \in PopCounts,
               handle_lpop(c, k, n)
        PROVE  OnlyStringsExpire'
    BY <1>3 DEF handle_lpop
  <1>4. ASSUME NEW c \in Clients, NEW k \in Keys, handle_set(c, k)
        PROVE  OnlyStringsExpire'
    BY <1>4 DEF handle_set, TypeOK
  <1>5. ASSUME NEW c \in Clients, NEW k \in Keys, handle_incr(c, k)
        PROVE  OnlyStringsExpire'
    BY <1>5 DEF handle_incr, TypeOK
  <1>6. ASSUME NEW c \in Clients, NEW k \in Keys, handle_get_or_type(c, k)
        PROVE  OnlyStringsExpire'
    BY <1>6 DEF handle_get_or_type, TypeOK, store
  <1>7. ASSUME NEW c \in Clients, handleWrite(c) \/ handleClose(c)
        PROVE  OnlyStringsExpire'
    BY <1>7 DEF handleWrite, handleClose, store
  <1>8. CASE LoopTurn \/ Tick \/ UNCHANGED vars
    BY <1>8 DEF LoopTurn, Tick, vars, store
  <1> QED
    BY <1>1, <1>2, <1>3, <1>4, <1>5, <1>6, <1>7, <1>8
       DEF Next, Request, TimerFires, EventsHandled

\* A reply to the client of the request arms it; nobody else's buffer moves.
LEMMA RespondArms ==
    ASSUME TypeOK, RepliesArmed, NEW c \in Clients, NEW items, Respond(c, items)
    PROVE  RepliesArmed'
  BY DEF RepliesArmed, Respond, flush, TypeOK

\* Whoever writes into a buffer flushes its owner.
LEMMA ArmedInductive ==
    ASSUME TypeOK, RepliesArmed, [Next]_vars
    PROVE  RepliesArmed'
  <1>1. ASSUME NEW c \in Clients, NEW k \in Keys, NEW t \in Timeouts,
               handle_blpop(c, k, t)
        PROVE  RepliesArmed'
    <2>1. CASE BlpopBlocks(c, k, t)
      BY <2>1 DEF BlpopBlocks, RepliesArmed
    <2>2. CASE BlpopWrongType(c, k) \/ BlpopPops(c, k)
      BY <2>2, RespondArms DEF BlpopWrongType, BlpopPops
    <2> QED
      BY <1>1, <2>1, <2>2 DEF handle_blpop
  <1>2. ASSUME NEW c \in Clients, NEW k \in Keys, NEW n \in PushSizes,
               NEW p \in BOOLEAN, handle_push(c, k, n, p)
        PROVE  RepliesArmed'
    <2>1. CASE PushServes(c, k, n, p)
      <3>1. PICK e \in Front(blocked_keys[k]) :
              LET served == [write_buffer EXCEPT ![e.client] = Append(@, values + 1)]
                  buffer == [served EXCEPT ![c] = Append(@, 0)]
              IN  /\ write_buffer' = buffer
                  /\ armed' = flush({c, e.client}, buffer)
        BY <2>1 DEF PushServes
      <3>2. \A d \in Clients : d \notin {c, e.client} => write_buffer'[d] = write_buffer[d]
        BY <3>1 DEF TypeOK
      <3>3. armed' = armed \cup {d \in {c, e.client} \cap open : write_buffer'[d] # <<>>}
        BY <3>1 DEF flush
      <3>4. open' = open
        BY <2>1 DEF PushServes
      <3> QED
        BY <3>2, <3>3, <3>4 DEF RepliesArmed, TypeOK
    <2>2. CASE PushStores(c, k, n, p)
      BY <2>2, RespondArms DEF PushStores
    <2>3. CASE PushAborts(c, k, n)
      BY <2>3 DEF PushAborts, Abort, RepliesArmed
    <2> QED
      BY <1>2, <2>1, <2>2, <2>3 DEF handle_push
  <1>3. ASSUME NEW c \in Clients, NEW k \in Keys, NEW n \in PopCounts,
               handle_lpop(c, k, n)
        PROVE  RepliesArmed'
    BY <1>3, RespondArms DEF handle_lpop
  <1>4. ASSUME NEW c \in Clients, NEW k \in Keys,
               handle_set(c, k) \/ handle_incr(c, k) \/ handle_get_or_type(c, k)
        PROVE  RepliesArmed'
    <2>1. CASE handle_set(c, k) \/ handle_incr(c, k)
      BY <2>1, RespondArms DEF handle_set, handle_incr
    <2>2. CASE handle_get_or_type(c, k)
      BY <2>2, RespondArms DEF handle_get_or_type
    <2> QED
      BY <1>4, <2>1, <2>2
  <1>5. ASSUME NEW c \in Clients, handleWrite(c) \/ handleClose(c)
        PROVE  RepliesArmed'
    BY <1>5 DEF handleWrite, handleClose, RepliesArmed, TypeOK
  <1>6. CASE LoopTurn
    <2> DEFINE expired == UNION {{e \in blocked_keys[k] : is_expired(e)} : k \in Keys}
               who == {e.client : e \in expired}
    <2>1. /\ write_buffer' = ExpiryReplies(expired)
          /\ armed' = flush(who, ExpiryReplies(expired))
          /\ open' = open
      BY <1>6 DEF LoopTurn, check_and_expire_blocked_clients
    <2> HIDE DEF expired
    <2>2. \A c \in Clients : c \notin who => write_buffer'[c] = write_buffer[c]
      BY <2>1 DEF ExpiryReplies
    <2>3. armed' = armed \cup {d \in who \cap open : write_buffer'[d] # <<>>}
      BY <2>1 DEF flush
    <2> HIDE DEF who
    <2> QED
      BY <2>1, <2>2, <2>3 DEF RepliesArmed, TypeOK
  <1>7. CASE Tick \/ UNCHANGED vars
    BY <1>7 DEF Tick, vars, RepliesArmed
  <1> QED
    BY <1>1, <1>2, <1>3, <1>4, <1>5, <1>6, <1>7
       DEF Next, Request, TimerFires, EventsHandled

\* Pushing no value leaves the list as it is.
LEMMA PushNothing ==
    ASSUME TypeOK, NEW k \in Keys, NEW lo \in Nat, NEW p \in BOOLEAN
    PROVE  push_value_to_list(k, lo, 0, p) = listPack[k]
  <1>1. [i \in 1 .. 0 |-> lo + i] = <<>> /\ [i \in 1 .. 0 |-> lo + 0 + 1 - i] = <<>>
    OBVIOUS
  <1>2. listPack[k] \in Seq(1 .. MaxValue)
    BY DEF TypeOK
  <1>3. listPack[k] \o <<>> = listPack[k] /\ <<>> \o listPack[k] = listPack[k]
    BY <1>2, ConcatEmptySeq
  <1> QED
    BY <1>1, <1>3 DEF push_value_to_list

\* LPOP puts nothing into an empty list.
LEMMA LpopKeepsEmpty ==
    ASSUME TypeOK, NEW c \in Clients, NEW k \in Keys, NEW n \in PopCounts,
           handle_lpop(c, k, n)
    PROVE  \A q \in Keys : listPack[q] = <<>> => listPack'[q] = <<>>
  <1> DEFINE popped == IF n < Len(listPack[k]) THEN n ELSE Len(listPack[k])
  <1>1. n \in Nat /\ listPack[k] \in Seq(1 .. MaxValue)
    BY ConstantsAssumption DEF TypeOK
  <1>2. popped \in Nat
    BY <1>1
  <1>3. listPack' = [listPack EXCEPT ![k] = SubSeq(@, popped + 1, Len(@))]
    BY DEF handle_lpop
  <1> HIDE DEF popped
  <1>4. listPack[k] = <<>> => SubSeq(listPack[k], popped + 1, Len(listPack[k])) = <<>>
    BY <1>1, <1>2
  <1> QED
    BY <1>3, <1>4 DEF TypeOK

\* Only a list has elements.
ListsOnly == \A k \in Keys : keyType[k] # "list" => listPack[k] = <<>>

LEMMA ListsOnlyInductive ==
    ASSUME TypeOK, ListsOnly, [Next]_vars
    PROVE  ListsOnly'
  <1> USE DEF ListsOnly
  <1>1. ASSUME NEW c \in Clients, NEW k \in Keys, NEW t \in Timeouts,
               handle_blpop(c, k, t)
        PROVE  ListsOnly'
    BY <1>1 DEF handle_blpop, BlpopBlocks, BlpopWrongType, BlpopPops, store, TypeOK
  <1>2. ASSUME NEW c \in Clients, NEW k \in Keys, NEW n \in PushSizes,
               NEW p \in BOOLEAN, handle_push(c, k, n, p)
        PROVE  ListsOnly'
    <2>0. n \in Nat \ {0} /\ values + 1 \in Nat
      BY ConstantsAssumption DEF TypeOK
    <2>1. CASE PushServes(c, k, n, p)
      <3>1. CASE n = 1
        <4>1. push_value_to_list(k, values + 1, n - 1, p) = listPack[k]
          BY <2>0, <3>1, PushNothing
        <4> QED
          BY <2>1, <3>1, <4>1 DEF PushServes, StorePushed, TypeOK
      <3>2. CASE n # 1
        BY <2>0, <2>1, <3>2 DEF PushServes, StorePushed, TypeOK
      <3> QED
        BY <3>1, <3>2
    <2>2. CASE PushStores(c, k, n, p)
      BY <2>0, <2>2 DEF PushStores, StorePushed, TypeOK
    <2>3. CASE PushAborts(c, k, n)
      BY <2>3 DEF PushAborts, Abort, store
    <2> QED
      BY <1>2, <2>1, <2>2, <2>3 DEF handle_push
  <1>3. ASSUME NEW c \in Clients, NEW k \in Keys, NEW n \in PopCounts,
               handle_lpop(c, k, n)
        PROVE  ListsOnly'
    BY <1>3, LpopKeepsEmpty DEF handle_lpop
  <1>4. ASSUME NEW c \in Clients, NEW k \in Keys,
               handle_set(c, k) \/ handle_incr(c, k) \/ handle_get_or_type(c, k)
        PROVE  ListsOnly'
    BY <1>4 DEF handle_set, handle_incr, handle_get_or_type, store, TypeOK
  <1>5. ASSUME NEW c \in Clients, handleWrite(c) \/ handleClose(c)
        PROVE  ListsOnly'
    BY <1>5 DEF handleWrite, handleClose, store
  <1>6. CASE LoopTurn \/ Tick \/ UNCHANGED vars
    BY <1>6 DEF LoopTurn, Tick, vars, store
  <1> QED
    BY <1>1, <1>2, <1>3, <1>4, <1>5, <1>6
       DEF Next, Request, TimerFires, EventsHandled

\* A client joins a queue only when the list is empty, and only a push of
\* several values fills a list that somebody waits for.
LEMMA StrandedInductive ==
    ASSUME TypeOK, ListsOnly, StrandedOnlyIfOverfed, [Next]_vars
    PROVE  StrandedOnlyIfOverfed'
  <1> USE DEF StrandedOnlyIfOverfed
  <1>1. ASSUME NEW c \in Clients, NEW k \in Keys, NEW t \in Timeouts,
               handle_blpop(c, k, t)
        PROVE  StrandedOnlyIfOverfed'
    <2>1. CASE BlpopBlocks(c, k, t)
      <3>1. listPack[k] = <<>>
        BY <2>1 DEF BlpopBlocks, HasNoElement, ListsOnly
      <3> QED
        BY <2>1, <3>1 DEF BlpopBlocks, TypeOK, store
    <2>2. CASE BlpopWrongType(c, k)
      BY <2>2 DEF BlpopWrongType, store, aux
    <2>3. CASE BlpopPops(c, k)
      BY <2>3 DEF BlpopPops, TypeOK, aux
    <2> QED
      BY <1>1, <2>1, <2>2, <2>3 DEF handle_blpop
  <1>2. ASSUME NEW c \in Clients, NEW k \in Keys, NEW n \in PushSizes,
               NEW p \in BOOLEAN, handle_push(c, k, n, p)
        PROVE  StrandedOnlyIfOverfed'
    <2>0. n \in Nat \ {0} /\ values + 1 \in Nat
      BY ConstantsAssumption DEF TypeOK
    <2>1. CASE PushServes(c, k, n, p)
      <3>1. PICK e \in Front(blocked_keys[k]) :
              /\ blocked_keys' = [blocked_keys EXCEPT ![k] = @ \ {e}]
              /\ overfed' = IF n > 1 /\ blocked_keys[k] # {e}
                            THEN overfed \cup {k} ELSE overfed
        BY <2>1 DEF PushServes
      <3>2. \A q \in Keys : q # k => /\ blocked_keys'[q] = blocked_keys[q]
                                     /\ listPack'[q] = listPack[q]
        BY <2>1, <3>1 DEF PushServes, StorePushed, TypeOK
      <3>3. overfed \subseteq overfed'
        BY <3>1
      <3>4. blocked_keys'[k] = blocked_keys[k] \ {e} /\ e \in blocked_keys[k]
        BY <3>1 DEF TypeOK, Front
      <3>5. CASE n = 1
        <4>1. push_value_to_list(k, values + 1, n - 1, p) = listPack[k]
          BY <2>0, <3>5, PushNothing
        <4>2. listPack'[k] = listPack[k]
          BY <2>1, <4>1 DEF PushServes, StorePushed, TypeOK
        <4> QED
          BY <3>2, <3>3, <3>4, <4>2
      <3>6. CASE n # 1
        <4>1. blocked_keys'[k] # {} => k \in overfed'
          BY <2>0, <3>1, <3>4, <3>6
        <4> QED
          BY <3>2, <3>3, <4>1
      <3> QED
        BY <3>5, <3>6
    <2>2. CASE PushStores(c, k, n, p)
      BY <2>2 DEF PushStores, StorePushed, TypeOK
    <2>3. CASE PushAborts(c, k, n)
      BY <2>3 DEF PushAborts, Abort, store, aux
    <2> QED
      BY <1>2, <2>1, <2>2, <2>3 DEF handle_push
  <1>3. ASSUME NEW c \in Clients, NEW k \in Keys, NEW n \in PopCounts,
               handle_lpop(c, k, n)
        PROVE  StrandedOnlyIfOverfed'
    BY <1>3, LpopKeepsEmpty DEF handle_lpop, aux
  <1>4. ASSUME NEW c \in Clients, NEW k \in Keys,
               handle_set(c, k) \/ handle_incr(c, k) \/ handle_get_or_type(c, k)
        PROVE  StrandedOnlyIfOverfed'
    BY <1>4 DEF handle_set, handle_incr, handle_get_or_type, store, aux, TypeOK
  <1>5. ASSUME NEW c \in Clients, handleWrite(c) \/ handleClose(c)
        PROVE  StrandedOnlyIfOverfed'
    BY <1>5 DEF handleWrite, handleClose, store, aux
  <1>6. CASE LoopTurn
    BY <1>6 DEF LoopTurn, check_and_expire_blocked_clients, store, aux, TypeOK
  <1>7. CASE Tick \/ UNCHANGED vars
    BY <1>7 DEF Tick, vars, store, aux
  <1> QED
    BY <1>1, <1>2, <1>3, <1>4, <1>5, <1>6, <1>7
       DEF Next, Request, TimerFires, EventsHandled

-----------------------------------------------------------------------------
(* The timeout of the event loop.                                          *)

\* A queue that is not empty has a head.
LEMMA FrontExists ==
    ASSUME NEW queue \in SUBSET BlockedClient, queue # {}
    PROVE  Front(queue) # {}
  <1> DEFINE T == {e.ticket : e \in queue}
  <1>1. T \subseteq Nat /\ T # {}
    BY DEF BlockedClient
  <1>2. PICK x \in T : \A y \in T : x <= y
    BY <1>1, LeastElement
  <1>3. PICK e \in queue : e.ticket = x
    BY <1>2
  <1>4. \A f \in queue : e.ticket <= f.ticket
    BY <1>2, <1>3
  <1> QED
    BY <1>3, <1>4 DEF Front

\* The queues are ordered: no two entries of a queue have the same ticket,
\* and the next BLPOP to block gets a later one than all.
QueuesOrdered ==
    \A k \in Keys : \A e, f \in blocked_keys[k] :
        /\ e.ticket <= tickets
        /\ e.ticket = f.ticket => e = f

\* Entries leave a queue, or one joins with the next ticket.
LEMMA QueuesInductive ==
    ASSUME TypeOK, QueuesOrdered, [Next]_vars
    PROVE  QueuesOrdered'
  <1> USE DEF QueuesOrdered
  <1>1. ASSUME tickets' = tickets,
               \A k \in Keys : blocked_keys'[k] \subseteq blocked_keys[k]
        PROVE  QueuesOrdered'
    BY <1>1
  <1>2. ASSUME NEW c \in Clients, NEW k \in Keys, NEW t \in Timeouts,
               BlpopBlocks(c, k, t)
        PROVE  QueuesOrdered'
    <2> DEFINE e == [client     |-> c,
                     timeout_at |-> IF t = 0 THEN Never ELSE now + t,
                     ticket     |-> tickets + 1]
    <2>1. /\ e.ticket = tickets + 1
          /\ blocked_keys' = [blocked_keys EXCEPT ![k] = @ \cup {e}]
      BY <1>2 DEF BlpopBlocks
    <2> HIDE DEF e
    <2>2. tickets' = tickets + 1 /\ tickets \in Nat
      BY <1>2 DEF BlpopBlocks, TypeOK
    <2>3. \A q \in Keys : blocked_keys[q] \subseteq BlockedClient
      BY DEF TypeOK
    <2>4. \A q \in Keys : \A f \in blocked_keys[q] : f.ticket \in Nat
      BY <2>3 DEF BlockedClient
    <2>5. \A q \in Keys : \A f \in blocked_keys'[q] :
             f = e \/ f \in blocked_keys[q]
      BY <2>1 DEF TypeOK
    <2> QED
      BY <2>1, <2>2, <2>4, <2>5
  <1>3. ASSUME NEW c \in Clients, Request(c)
        PROVE  QueuesOrdered'
    <2>1. CASE \E k \in Keys, t \in Timeouts : handle_blpop(c, k, t)
      BY <2>1, <1>1, <1>2 DEF handle_blpop, BlpopWrongType, BlpopPops, aux
    <2>2. ASSUME NEW k \in Keys, NEW n \in PushSizes, NEW p \in BOOLEAN,
                 handle_push(c, k, n, p)
          PROVE  QueuesOrdered'
      <3>1. CASE PushServes(c, k, n, p) /\ UNCHANGED tickets
        BY <3>1, <1>1 DEF PushServes, TypeOK
      <3>2. CASE PushStores(c, k, n, p) /\ UNCHANGED tickets
        BY <3>2, <1>1 DEF PushStores
      <3>3. CASE PushAborts(c, k, n)
        BY <3>3, <1>1 DEF PushAborts, Abort, aux
      <3> QED
        BY <2>2, <3>1, <3>2, <3>3 DEF handle_push
    <2>3. ASSUME NEW k \in Keys,
                 \/ \E n \in PopCounts : handle_lpop(c, k, n)
                 \/ handle_set(c, k)
                 \/ handle_incr(c, k)
                 \/ handle_get_or_type(c, k)
          PROVE  QueuesOrdered'
      BY <2>3, <1>1 DEF handle_lpop, handle_set, handle_incr, handle_get_or_type, aux
    <2> QED
      BY <1>3, <2>1, <2>2, <2>3 DEF Request
  <1>4. ASSUME NEW c \in Clients, handleWrite(c) \/ handleClose(c)
        PROVE  QueuesOrdered'
    BY <1>4, <1>1 DEF handleWrite, handleClose, aux
  <1>5. CASE LoopTurn
    BY <1>5, <1>1 DEF LoopTurn, check_and_expire_blocked_clients, aux
  <1>6. CASE Tick \/ UNCHANGED vars
    BY <1>6, <1>1 DEF Tick, vars, aux
  <1> QED
    BY <1>3, <1>4, <1>5, <1>6 DEF Next, TimerFires, EventsHandled

\* When the loop goes back to sleep, each queue's head bounds the timeout;
\* an entry the loop would oversleep has a later deadline ahead of it.
LEMMA TurnSetsTimeout ==
    ASSUME TypeOK, TypeOK', QueuesOrdered', LoopTurn
    PROVE  OversleepsOnlyShadowed'
  <1> SUFFICES ASSUME NEW k \in Keys, NEW e \in blocked_keys'[k]
               PROVE  wake' <= e.timeout_at \/ Shadowed(e, blocked_keys'[k])
    BY DEF OversleepsOnlyShadowed
  <1>1. blocked_keys'[k] \in SUBSET BlockedClient /\ wake' \in Nat
    BY DEF TypeOK
  <1>2. PICK f \in Front(blocked_keys'[k]) : TRUE
    BY <1>1, FrontExists
  <1>3. f \in blocked_keys'[k] /\ f.ticket <= e.ticket
    BY <1>2 DEF Front
  <1>4. wake' <= f.timeout_at
    <2> DEFINE heads == {g.timeout_at : g \in UNION {Front(blocked_keys'[q]) : q \in Keys}}
    <2>1. \A h \in heads : wake' <= h
      BY DEF LoopTurn, get_next_timeout_ms
    <2>2. f.timeout_at \in heads
      BY <1>2
    <2> QED
      BY <2>1, <2>2
  <1>5. /\ e.timeout_at \in Nat /\ f.timeout_at \in Nat
        /\ e.ticket \in Nat /\ f.ticket \in Nat
    BY <1>1, <1>3, ConstantsAssumption DEF BlockedClient, Never
  <1>6. f.ticket = e.ticket => f = e
    BY <1>3 DEF QueuesOrdered
  <1>7. CASE f.timeout_at <= e.timeout_at
    BY <1>1, <1>4, <1>5, <1>7
  <1>8. CASE f.timeout_at > e.timeout_at
    <2>1. f.ticket < e.ticket
      BY <1>3, <1>5, <1>6, <1>8
    <2> QED
      BY <1>3, <1>8, <2>1 DEF Shadowed
  <1> QED
    BY <1>5, <1>7, <1>8

\* Between two turns of the loop the queues change only once events are
\* being handled, when nobody sleeps.
LEMMA OversleepInductive ==
    ASSUME TypeOK, TypeOK', QueuesOrdered', OversleepsOnlyShadowed, [Next]_vars
    PROVE  OversleepsOnlyShadowed'
  <1>1. CASE LoopTurn
    BY <1>1, TurnSetsTimeout
  <1>2. CASE phase' # "waiting"
    BY <1>2 DEF OversleepsOnlyShadowed
  <1>3. CASE UNCHANGED <<phase, wake, blocked_keys>>
    BY <1>3 DEF OversleepsOnlyShadowed
  <1>4. ASSUME NEW c \in Clients, Request(c)
        PROVE  phase' # "waiting"
    BY <1>4, ZenonT(60) DEF Request, handle_blpop, BlpopBlocks, BlpopWrongType, BlpopPops,
         handle_push, PushServes, PushStores, PushAborts, Abort, handle_lpop,
         handle_set, handle_incr, handle_get_or_type, Respond, Dispatching
  <1>5. ASSUME NEW c \in Clients, handleWrite(c) \/ handleClose(c)
        PROVE  phase' # "waiting"
    BY <1>5 DEF handleWrite, handleClose, Dispatching
  <1>6. Tick \/ UNCHANGED vars => UNCHANGED <<phase, wake, blocked_keys>>
    BY DEF Tick, vars, loop
  <1> QED
    BY <1>1, <1>2, <1>3, <1>4, <1>5, <1>6 DEF Next, TimerFires, EventsHandled

-----------------------------------------------------------------------------
(* Where the values are.                                                   *)

\* No value stands in s twice.
Once(s) == \A i, j \in DOMAIN s : s[i] = s[j] /\ s[i] # 0 => i = j

\* The values in s.
Held(s) == Elements(s) \ {0}

\* The lists hold L, the buffers B and G is gone: together they are N, and
\* they do not overlap.
Shared(L, B, G, N) ==
    /\ \A k, l \in Keys : k # l => L[k] \cap L[l] = {}
    /\ \A c, d \in Clients : c # d => B[c] \cap B[d] = {}
    /\ \A k \in Keys, c \in Clients : L[k] \cap B[c] = {}
    /\ \A k \in Keys : L[k] \cap G = {}
    /\ \A c \in Clients : B[c] \cap G = {}
    /\ \A x : x \in N <=> x \in G \/ (\E k \in Keys : x \in L[k]) \/ (\E c \in Clients : x \in B[c])

InLists == [k \in Keys |-> Held(listPack[k])]

InBuffers == [c \in Clients |-> Held(write_buffer[c])]

ValuesShared == Shared(InLists, InBuffers, gone, 1 .. values)

NothingTwice ==
    /\ \A k \in Keys : Once(listPack[k])
    /\ \A c \in Clients : Once(write_buffer[c])

\* The four ways in which values move.
HandedOver(L, B, M, C, k, c, X) ==
    /\ X \subseteq L[k]
    /\ M[k] = L[k] \ X /\ \A l \in Keys : l # k => M[l] = L[l]
    /\ C[c] = B[c] \cup X /\ \A d \in Clients : d # c => C[d] = B[d]

LEMMA FromListToBuffer ==
    ASSUME NEW L, NEW B, NEW G, NEW N, Shared(L, B, G, N), NEW k \in Keys, NEW c \in Clients,
           NEW X, NEW M, NEW C, HandedOver(L, B, M, C, k, c, X)
    PROVE  Shared(M, C, G, N)
  <1> USE DEF HandedOver
  <1>1. /\ \A l, m \in Keys : l # m => M[l] \cap M[m] = {}
        /\ \A l \in Keys : M[l] \subseteq L[l] /\ M[l] \cap G = {}
    BY DEF Shared
  <1>2. \A d, f \in Clients : d # f => C[d] \cap C[f] = {}
    BY DEF Shared
  <1>3. \A l \in Keys, d \in Clients : M[l] \cap C[d] = {}
    BY DEF Shared
  <1>4. \A d \in Clients : C[d] \cap G = {}
    BY DEF Shared
  <1>5. \A x : x \in N <=> x \in G \/ (\E l \in Keys : x \in M[l]) \/ (\E d \in Clients : x \in C[d])
    BY DEF Shared
  <1> QED
    BY <1>1, <1>2, <1>3, <1>4, <1>5 DEF Shared

LEMMA NewInList ==
    ASSUME NEW L, NEW B, NEW G, NEW N, Shared(L, B, G, N), NEW k \in Keys,
           NEW X, X \cap N = {}, NEW M,
           M[k] = L[k] \cup X, \A l \in Keys : l # k => M[l] = L[l]
    PROVE  Shared(M, B, G, N \cup X)
  <1>1. \A l, m \in Keys : l # m => M[l] \cap M[m] = {}
    BY DEF Shared
  <1>2. \A l \in Keys, d \in Clients : M[l] \cap B[d] = {}
    BY DEF Shared
  <1>3. \A l \in Keys : M[l] \cap G = {}
    BY DEF Shared
  <1>4. \A x : x \in N \cup X <=>
           x \in G \/ (\E l \in Keys : x \in M[l]) \/ (\E d \in Clients : x \in B[d])
    BY DEF Shared
  <1> QED
    BY <1>1, <1>2, <1>3, <1>4 DEF Shared

LEMMA NewInBuffer ==
    ASSUME NEW L, NEW B, NEW G, NEW N, Shared(L, B, G, N), NEW c \in Clients,
           NEW X, X \cap N = {}, NEW C,
           C[c] = B[c] \cup X, \A d \in Clients : d # c => C[d] = B[d]
    PROVE  Shared(L, C, G, N \cup X)
  <1>1. \A d, f \in Clients : d # f => C[d] \cap C[f] = {}
    BY DEF Shared
  <1>2. \A l \in Keys, d \in Clients : L[l] \cap C[d] = {}
    BY DEF Shared
  <1>3. \A d \in Clients : C[d] \cap G = {}
    BY DEF Shared
  <1>4. \A x : x \in N \cup X <=>
           x \in G \/ (\E l \in Keys : x \in L[l]) \/ (\E d \in Clients : x \in C[d])
    BY DEF Shared
  <1> QED
    BY <1>1, <1>2, <1>3, <1>4 DEF Shared

LEMMA ListGoes ==
    ASSUME NEW L, NEW B, NEW G, NEW N, Shared(L, B, G, N), NEW k \in Keys, NEW M,
           M[k] = {}, \A l \in Keys : l # k => M[l] = L[l]
    PROVE  Shared(M, B, G \cup L[k], N)
  <1>1. \A l, m \in Keys : l # m => M[l] \cap M[m] = {}
    BY DEF Shared
  <1>2. \A l \in Keys, d \in Clients : M[l] \cap B[d] = {}
    BY DEF Shared
  <1>3. \A l \in Keys : M[l] \cap (G \cup L[k]) = {}
    BY DEF Shared
  <1>4. \A d \in Clients : B[d] \cap (G \cup L[k]) = {}
    BY DEF Shared
  <1>5. \A x : x \in N <=>
           x \in G \cup L[k] \/ (\E l \in Keys : x \in M[l]) \/ (\E d \in Clients : x \in B[d])
    BY DEF Shared
  <1> QED
    BY <1>1, <1>2, <1>3, <1>4, <1>5 DEF Shared

LEMMA BufferGoes ==
    ASSUME NEW L, NEW B, NEW G, NEW N, Shared(L, B, G, N), NEW c \in Clients, NEW C,
           C[c] = {}, \A d \in Clients : d # c => C[d] = B[d]
    PROVE  Shared(L, C, G \cup B[c], N)
  <1>1. \A d, f \in Clients : d # f => C[d] \cap C[f] = {}
    BY DEF Shared
  <1>2. \A l \in Keys, d \in Clients : L[l] \cap C[d] = {}
    BY DEF Shared
  <1>3. \A l \in Keys : L[l] \cap (G \cup B[c]) = {}
    BY DEF Shared
  <1>4. \A d \in Clients : C[d] \cap (G \cup B[c]) = {}
    BY DEF Shared
  <1>5. \A x : x \in N <=>
           x \in G \cup B[c] \/ (\E l \in Keys : x \in L[l]) \/ (\E d \in Clients : x \in C[d])
    BY DEF Shared
  <1> QED
    BY <1>1, <1>2, <1>3, <1>4, <1>5 DEF Shared

-----------------------------------------------------------------------------
(* Sequences without repetitions.                                          *)

LEMMA Joined ==
    ASSUME NEW s \in Seq(Items), NEW t \in Seq(Items), Once(s), Once(t), Held(s) \cap Held(t) = {}
    PROVE  Once(s \o t) /\ Held(s \o t) = Held(s) \cup Held(t)
  <1> DEFINE u == s \o t
  <1>0. Len(s) \in Nat /\ Len(t) \in Nat
    OBVIOUS
  <1>1. /\ u \in Seq(Items) /\ Len(u) = Len(s) + Len(t) /\ DOMAIN u = 1 .. Len(s) + Len(t)
        /\ \A i \in 1 .. Len(s) : u[i] = s[i]
        /\ \A i \in 1 .. Len(t) : u[Len(s) + i] = t[i]
    BY ConcatProperties
  <1> HIDE DEF u
  <1>2. DOMAIN s = 1 .. Len(s) /\ DOMAIN t = 1 .. Len(t)
    OBVIOUS
  <1>3. \A i \in DOMAIN u : \/ i \in 1 .. Len(s)
                            \/ i - Len(s) \in 1 .. Len(t) /\ Len(s) + (i - Len(s)) = i
    BY <1>0, <1>1
  <1>4. \A i \in DOMAIN u : \/ i \in DOMAIN s /\ u[i] = s[i]
                            \/ i - Len(s) \in DOMAIN t /\ u[i] = t[i - Len(s)] /\ i \in Int
    BY <1>1, <1>2, <1>3
  <1>5. \A i \in DOMAIN s : i \in DOMAIN u /\ u[i] = s[i]
    BY <1>0, <1>1, <1>2
  <1>6. \A i \in DOMAIN t : Len(s) + i \in DOMAIN u /\ u[Len(s) + i] = t[i]
    BY <1>0, <1>1, <1>2
  <1>7. Elements(u) = Elements(s) \cup Elements(t)
    BY <1>4, <1>5, <1>6 DEF Elements
  <1>8. \A i \in DOMAIN s : s[i] # 0 => s[i] \in Held(s)
    BY DEF Held, Elements
  <1>9. \A i \in DOMAIN t : t[i] # 0 => t[i] \in Held(t)
    BY DEF Held, Elements
  <1>10. Once(u)
    <2> SUFFICES ASSUME NEW i \in DOMAIN u, NEW j \in DOMAIN u, u[i] = u[j], u[i] # 0
                 PROVE  i = j
      BY DEF Once
    <2>1. CASE i \in DOMAIN s /\ u[i] = s[i] /\ j \in DOMAIN s /\ u[j] = s[j]
      BY <2>1 DEF Once
    <2>2. CASE /\ i - Len(s) \in DOMAIN t /\ u[i] = t[i - Len(s)] /\ i \in Int
               /\ j - Len(s) \in DOMAIN t /\ u[j] = t[j - Len(s)] /\ j \in Int
      <3>1. i - Len(s) = j - Len(s)
        BY <2>2 DEF Once
      <3> QED
        BY <1>0, <2>2, <3>1
    <2>3. CASE /\ i \in DOMAIN s /\ u[i] = s[i]
               /\ j - Len(s) \in DOMAIN t /\ u[j] = t[j - Len(s)]
      BY <1>8, <1>9, <2>3
    <2>4. CASE /\ j \in DOMAIN s /\ u[j] = s[j]
               /\ i - Len(s) \in DOMAIN t /\ u[i] = t[i - Len(s)]
      BY <1>8, <1>9, <2>4
    <2> QED
      BY <1>4, <2>1, <2>2, <2>3, <2>4
  <1> QED
    BY <1>7, <1>10 DEF Held, u

\* Both parts of a list cut in two.
LEMMA CutInTwo ==
    ASSUME NEW s \in Seq(1 .. MaxValue), Once(s), NEW p \in 0 .. Len(s)
    PROVE  LET a == SubSeq(s, 1, p)
               b == SubSeq(s, p + 1, Len(s))
           IN  /\ Once(a) /\ Once(b)
               /\ Held(a) \subseteq Held(s)
               /\ Held(b) = Held(s) \ Held(a)
  <1> DEFINE a == SubSeq(s, 1, p)
             b == SubSeq(s, p + 1, Len(s))
  <1>0. Len(s) \in Nat /\ p \in Nat /\ p <= Len(s) /\ DOMAIN s = 1 .. Len(s)
        /\ \A i \in DOMAIN s : s[i] # 0
    BY ConstantsAssumption
  <1>1. DOMAIN a = 1 .. p /\ \A i \in 1 .. p : a[i] = s[i]
    BY <1>0
  <1>2. DOMAIN b = 1 .. Len(s) - p /\ \A i \in 1 .. Len(s) - p : b[i] = s[p + i]
    BY <1>0
  <1> HIDE DEF a, b
  <1>3. \A i \in 1 .. p : i \in DOMAIN s
    BY <1>0
  <1>4. \A i \in 1 .. Len(s) - p : p + i \in DOMAIN s /\ p + i \notin 1 .. p
    BY <1>0
  <1>5. \A i \in DOMAIN s : i \in 1 .. p \/ (i - p \in 1 .. Len(s) - p /\ p + (i - p) = i)
    BY <1>0
  <1>6. Once(a)
    BY <1>1, <1>3 DEF Once
  <1>7. Once(b)
    <2> SUFFICES ASSUME NEW i \in DOMAIN b, NEW j \in DOMAIN b, b[i] = b[j], b[i] # 0
                 PROVE  i = j
      BY DEF Once
    <2>1. p + i = p + j
      BY <1>2, <1>4 DEF Once
    <2> QED
      BY <1>0, <1>2, <2>1
  <1>8. Held(a) \subseteq Held(s)
    BY <1>1, <1>3 DEF Held, Elements
  <1>9. Held(b) \subseteq Held(s)
    BY <1>2, <1>4 DEF Held, Elements
  <1>10. Held(a) \cap Held(b) = {}
    <2> SUFFICES ASSUME NEW i \in DOMAIN a, NEW j \in DOMAIN b, a[i] = b[j]
                 PROVE  FALSE
      BY DEF Held, Elements
    <2>1. /\ i \in 1 .. p /\ i \in DOMAIN s /\ a[i] = s[i]
          /\ p + j \in DOMAIN s /\ p + j \notin 1 .. p /\ b[j] = s[p + j]
      BY <1>1, <1>2, <1>3, <1>4
    <2> QED
      BY <1>0, <2>1 DEF Once
  <1>11. Held(s) \subseteq Held(a) \cup Held(b)
    <2> SUFFICES ASSUME NEW i \in DOMAIN s PROVE s[i] \in Elements(a) \cup Elements(b)
      BY DEF Held, Elements
    <2>1. CASE i \in 1 .. p
      BY <1>1, <2>1 DEF Elements
    <2>2. CASE i - p \in 1 .. Len(s) - p /\ p + (i - p) = i
      BY <1>2, <2>2 DEF Elements
    <2> QED
      BY <1>5, <2>1, <2>2
  <1> QED
    BY <1>6, <1>7, <1>8, <1>9, <1>10, <1>11 DEF a, b

\* A list of fresh values.
LEMMA FreshRun ==
    ASSUME NEW lo \in Nat, NEW n \in Nat, lo + n <= MaxValue, NEW p \in BOOLEAN
    PROVE  LET run == IF p THEN [i \in 1 .. n |-> lo + n + 1 - i] ELSE [i \in 1 .. n |-> lo + i]
           IN  run \in Seq(Items) /\ Once(run) /\ Held(run) = lo + 1 .. lo + n
  <1> DEFINE up == [i \in 1 .. n |-> lo + i]
             down == [i \in 1 .. n |-> lo + n + 1 - i]
  <1>0. \A i \in 1 .. n : lo + i \in Items /\ lo + n + 1 - i \in Items
    BY ConstantsAssumption DEF Items
  <1>1. up \in Seq(Items) /\ down \in Seq(Items) /\ DOMAIN up = 1 .. n /\ DOMAIN down = 1 .. n
    BY <1>0
  <1>2. Once(up) /\ Once(down)
    BY DEF Once
  <1>3. ASSUME NEW x
        PROVE  x \in Held(up) <=> x \in lo + 1 .. lo + n
    <2>1. x \in Held(up) <=> x # 0 /\ \E i \in 1 .. n : x = lo + i
      BY DEF Held, Elements
    <2>2. x \in lo + 1 .. lo + n => x - lo \in 1 .. n /\ x = lo + (x - lo) /\ x # 0
      OBVIOUS
    <2>3. \A i \in 1 .. n : lo + i \in lo + 1 .. lo + n /\ lo + i # 0
      OBVIOUS
    <2> QED
      BY <2>1, <2>2, <2>3
  <1>4. ASSUME NEW x
        PROVE  x \in Held(down) <=> x \in lo + 1 .. lo + n
    <2>1. x \in Held(down) <=> x # 0 /\ \E i \in 1 .. n : x = lo + n + 1 - i
      BY DEF Held, Elements
    <2>2. x \in lo + 1 .. lo + n =>
             lo + n + 1 - x \in 1 .. n /\ x = lo + n + 1 - (lo + n + 1 - x) /\ x # 0
      OBVIOUS
    <2>3. \A i \in 1 .. n : lo + n + 1 - i \in lo + 1 .. lo + n /\ lo + n + 1 - i # 0
      OBVIOUS
    <2> QED
      BY <2>1, <2>2, <2>3
  <1>5. Held(up) = lo + 1 .. lo + n /\ Held(down) = lo + 1 .. lo + n
    BY <1>3, <1>4
  <1> QED
    BY <1>1, <1>2, <1>5

-----------------------------------------------------------------------------
(* Every value is in one place.                                            *)

ValuesInPlace == ValuesShared /\ NothingTwice

\* What a handler puts into the buffer of c.
LEMMA Replied ==
    ASSUME TypeOK, NothingTwice, NEW c \in Clients, NEW items \in Seq(Items), Once(items),
           Held(items) \cap Held(write_buffer[c]) = {},
           write_buffer' = [write_buffer EXCEPT ![c] = @ \o items]
    PROVE  /\ InBuffers'[c] = InBuffers[c] \cup Held(items)
           /\ \A d \in Clients : d # c => InBuffers'[d] = InBuffers[d]
           /\ \A d \in Clients : Once(write_buffer'[d])
  <1>1. write_buffer \in [Clients -> Seq(Items)] /\ Once(write_buffer[c])
    BY DEF TypeOK, Items, NothingTwice
  <1>2. /\ write_buffer'[c] = write_buffer[c] \o items
        /\ \A d \in Clients : d # c => write_buffer'[d] = write_buffer[d]
    BY <1>1
  <1>3. Once(write_buffer[c] \o items)
        /\ Held(write_buffer[c] \o items) = Held(write_buffer[c]) \cup Held(items)
    BY <1>1, Joined
  <1>4. InBuffers'[c] = InBuffers[c] \cup Held(items)
    BY <1>2, <1>3 DEF InBuffers
  <1>5. \A d \in Clients : d # c => InBuffers'[d] = InBuffers[d]
    BY <1>2 DEF InBuffers
  <1> QED
    BY <1>2, <1>3, <1>4, <1>5 DEF NothingTwice

\* Replies without a value.
Plain == {<<0>>, <<>>}

LEMMA PlainItems ==
    /\ <<0>> \in Seq(Items) /\ Once(<<0>>) /\ Held(<<0>>) = {}
    /\ <<>> \in Seq(Items) /\ Once(<<>>) /\ Held(<<>>) = {}
  <1>1. <<0>> \in Seq(Items) /\ <<>> \in Seq(Items)
    BY ItemSequences
  <1> QED
    BY <1>1 DEF Once, Held, Elements

LEMMA PlainReply ==
    ASSUME TypeOK, ValuesInPlace, NEW c \in Clients, NEW items, items \in Plain,
           write_buffer' = [write_buffer EXCEPT ![c] = @ \o items]
    PROVE  InBuffers' = InBuffers /\ \A d \in Clients : Once(write_buffer'[d])
  <1>1. items \in Seq(Items) /\ Once(items) /\ Held(items) = {} /\ NothingTwice
    BY PlainItems DEF ValuesInPlace, Plain
  <1>2. /\ InBuffers'[c] = InBuffers[c] \cup Held(items)
        /\ \A d \in Clients : d # c => InBuffers'[d] = InBuffers[d]
        /\ \A d \in Clients : Once(write_buffer'[d])
    BY <1>1, Replied
  <1>3. \A d \in Clients : InBuffers'[d] = InBuffers[d]
    BY <1>1, <1>2
  <1> QED
    BY <1>2, <1>3 DEF InBuffers

\* The values stay where they are.
LEMMA NothingMoves ==
    ASSUME ValuesInPlace, UNCHANGED <<listPack, gone, values>>, InBuffers' = InBuffers,
           \A d \in Clients : Once(write_buffer'[d])
    PROVE  ValuesInPlace'
  <1>1. InLists' = InLists
    BY DEF InLists
  <1>2. ValuesShared'
    BY <1>1 DEF ValuesInPlace, ValuesShared
  <1>3. NothingTwice'
    BY DEF ValuesInPlace, NothingTwice
  <1> QED
    BY <1>2, <1>3 DEF ValuesInPlace

LEMMA NothingTouched ==
    ASSUME ValuesInPlace, UNCHANGED <<listPack, write_buffer, gone, values>>
    PROVE  ValuesInPlace'
  <1>1. InBuffers' = InBuffers /\ \A d \in Clients : Once(write_buffer'[d])
    BY DEF InBuffers, ValuesInPlace, NothingTwice
  <1> QED
    BY <1>1, NothingMoves

\* The first p elements of the list of k go to c.
LEMMA Popped ==
    ASSUME TypeOK, ValuesInPlace, NEW c \in Clients, NEW k \in Keys,
           NEW p \in 0 .. Len(listPack[k]),
           listPack' = [listPack EXCEPT ![k] = SubSeq(@, p + 1, Len(@))],
           write_buffer' = [write_buffer EXCEPT ![c] = @ \o SubSeq(listPack[k], 1, p)],
           UNCHANGED <<gone, values>>
    PROVE  ValuesInPlace'
  <1> DEFINE a == SubSeq(listPack[k], 1, p)
             b == SubSeq(listPack[k], p + 1, Len(listPack[k]))
  <1>1. listPack \in [Keys -> Seq(1 .. MaxValue)] /\ listPack[k] \in Seq(1 .. MaxValue)
        /\ Once(listPack[k])
    BY DEF TypeOK, ValuesInPlace, NothingTwice
  <1>2. Once(a) /\ Once(b) /\ Held(a) \subseteq Held(listPack[k])
        /\ Held(b) = Held(listPack[k]) \ Held(a)
    BY <1>1, CutInTwo
  <1>3. a \in Seq(Items)
    <2> DEFINE s == listPack[k]
    <2>a. s \in Seq(1 .. MaxValue) /\ p \in 0 .. Len(s) /\ Len(s) \in Nat
      BY <1>1
    <2>0. 1 \in Int /\ p \in Int /\ p \in Nat /\ \A i \in 1 .. p : s[i] \in 1 .. MaxValue
      <3> HIDE DEF s
      <3>1. \A i \in 1 .. p : i \in 1 .. Len(s)
        BY <2>a
      <3>2. \A i \in 1 .. p : s[i] \in 1 .. MaxValue
        BY <2>a, <3>1, ElementOfSeq
      <3> QED
        BY <2>a, <3>2
    <2>1. a \in Seq(1 .. MaxValue)
      BY <2>0, SubSeqProperties
    <2> HIDE DEF a
    <2> QED
      BY <2>1, ItemSequences
  <1>4. /\ listPack'[k] = b /\ \A l \in Keys : l # k => listPack'[l] = listPack[l]
        /\ write_buffer' = [write_buffer EXCEPT ![c] = @ \o a]
    BY <1>1
  <1> HIDE DEF a, b
  <1>5. /\ InLists'[k] = InLists[k] \ Held(a) /\ Held(a) \subseteq InLists[k]
        /\ \A l \in Keys : l # k => InLists'[l] = InLists[l]
    <2>1. \A l \in Keys : InLists[l] = Held(listPack[l]) /\ InLists'[l] = Held(listPack'[l])
      BY DEF InLists
    <2> QED
      BY <1>2, <1>4, <2>1, ZenonT(60)
  <1>6. Held(a) \cap Held(write_buffer[c]) = {}
    <2>1. InLists[k] \cap InBuffers[c] = {}
      BY DEF ValuesInPlace, ValuesShared, Shared
    <2> QED
      BY <1>5, <2>1 DEF InBuffers
  <1>7. /\ InBuffers'[c] = InBuffers[c] \cup Held(a)
        /\ \A d \in Clients : d # c => InBuffers'[d] = InBuffers[d]
        /\ \A d \in Clients : Once(write_buffer'[d])
    <2>1. NothingTwice
      BY DEF ValuesInPlace
    <2> QED
      BY <1>2, <1>3, <1>4, <1>6, <2>1, Replied
  <1>8. Shared(InLists', InBuffers', gone, 1 .. values)
    <2>1. Shared(InLists, InBuffers, gone, 1 .. values)
      BY DEF ValuesInPlace, ValuesShared
    <2> DEFINE X == Held(a)
               M == InLists'
               C == InBuffers'
    <2>2. HandedOver(InLists, InBuffers, M, C, k, c, X)
      BY <1>5, <1>7 DEF HandedOver
    <2> HIDE DEF X, M, C
    <2>3. Shared(M, C, gone, 1 .. values)
      BY <2>1, <2>2, FromListToBuffer
    <2> QED
      BY <2>3 DEF M, C
  <1>9. ValuesShared'
    BY <1>8 DEF ValuesShared
  <1>10. NothingTwice'
    BY <1>2, <1>4, <1>7 DEF NothingTwice, ValuesInPlace
  <1> QED
    BY <1>9, <1>10 DEF ValuesInPlace

\* The list of k is dropped.
LEMMA Dropped ==
    ASSUME TypeOK, ValuesInPlace, NEW c \in Clients, NEW k \in Keys,
           listPack' = [listPack EXCEPT ![k] = <<>>],
           gone' = gone \cup Elements(listPack[k]),
           NEW z \in Plain, write_buffer' = [write_buffer EXCEPT ![c] = @ \o z],
           UNCHANGED values
    PROVE  ValuesInPlace'
  <1>1. listPack \in [Keys -> Seq(1 .. MaxValue)]
    BY DEF TypeOK
  <1>2. Elements(listPack[k]) = InLists[k]
    <2>1. 0 \notin Elements(listPack[k])
      BY <1>1, ItemSequences
    <2> QED
      BY <2>1 DEF InLists, Held
  <1>3. listPack'[k] = <<>> /\ \A l \in Keys : l # k => listPack'[l] = listPack[l]
    BY <1>1
  <1>4. InLists'[k] = {} /\ \A l \in Keys : l # k => InLists'[l] = InLists[l]
    BY <1>3, PlainItems DEF InLists
  <1>5. InBuffers' = InBuffers /\ \A d \in Clients : Once(write_buffer'[d])
    BY PlainReply
  <1>6. Shared(InLists', InBuffers, gone \cup InLists[k], 1 .. values)
    <2>1. Shared(InLists, InBuffers, gone, 1 .. values)
      BY DEF ValuesInPlace, ValuesShared
    <2> QED
      BY <1>4, <2>1, ListGoes
  <1>7. ValuesShared'
    BY <1>2, <1>5, <1>6 DEF ValuesShared
  <1>8. NothingTwice'
    BY <1>3, <1>5, PlainItems DEF NothingTwice, ValuesInPlace
  <1> QED
    BY <1>7, <1>8 DEF ValuesInPlace

\* Fresh values go to the list of k.
LEMMA Pushed ==
    ASSUME TypeOK, ValuesInPlace, NEW k \in Keys, NEW lo \in Nat, NEW n \in Nat,
           lo + n <= MaxValue, lo >= values, NEW p \in BOOLEAN,
           listPack' = [listPack EXCEPT ![k] = push_value_to_list(k, lo, n, p)]
    PROVE  /\ InLists'[k] = InLists[k] \cup (lo + 1 .. lo + n)
           /\ \A l \in Keys : l # k => InLists'[l] = InLists[l]
           /\ \A l \in Keys : Once(listPack'[l])
  <1> DEFINE run == IF p THEN [i \in 1 .. n |-> lo + n + 1 - i] ELSE [i \in 1 .. n |-> lo + i]
  <1>1. run \in Seq(Items) /\ Once(run) /\ Held(run) = lo + 1 .. lo + n
    BY FreshRun
  <1>2. push_value_to_list(k, lo, n, p) = IF p THEN run \o listPack[k] ELSE listPack[k] \o run
    BY DEF push_value_to_list
  <1> HIDE DEF run
  <1>3. /\ listPack \in [Keys -> Seq(1 .. MaxValue)] /\ listPack[k] \in Seq(Items)
        /\ Once(listPack[k]) /\ values \in Nat
    BY ItemSequences DEF TypeOK, ValuesInPlace, NothingTwice
  <1>4. Held(listPack[k]) \subseteq 1 .. values
    BY DEF ValuesInPlace, ValuesShared, Shared, InLists
  <1>5. Held(run) \cap Held(listPack[k]) = {}
    <2>1. (lo + 1 .. lo + n) \cap (1 .. values) = {}
      BY <1>3
    <2> QED
      BY <1>1, <1>4, <2>1
  <1>6. /\ Once(run \o listPack[k]) /\ Held(run \o listPack[k]) = Held(run) \cup Held(listPack[k])
        /\ Once(listPack[k] \o run) /\ Held(listPack[k] \o run) = Held(listPack[k]) \cup Held(run)
    BY <1>1, <1>3, <1>5, Joined
  <1>7. /\ Once(listPack'[k]) /\ Held(listPack'[k]) = Held(listPack[k]) \cup Held(run)
        /\ \A l \in Keys : l # k => listPack'[l] = listPack[l]
    BY <1>2, <1>3, <1>6
  <1> QED
    BY <1>1, <1>7 DEF InLists, ValuesInPlace, NothingTwice

LEMMA ServesInPlace ==
    ASSUME TypeOK, ValuesInPlace, NEW c \in Clients, NEW k \in Keys, NEW n \in PushSizes,
           NEW p \in BOOLEAN, PushServes(c, k, n, p), values + n <= MaxValue,
           values' = values + n, UNCHANGED gone
    PROVE  ValuesInPlace'
  <1> DEFINE x == values + 1
  <1>0. n \in Nat \ {0} /\ values \in Nat /\ x \in Nat /\ n - 1 \in Nat
        /\ x + (n - 1) = values + n /\ x # 0 /\ x \in Items /\ MaxValue \in Nat
    BY ConstantsAssumption DEF TypeOK, Items
  <1>1. PICK e \in Front(blocked_keys[k]) :
          write_buffer' = [[write_buffer EXCEPT ![e.client] = Append(@, x)]
                             EXCEPT ![c] = Append(@, 0)]
    BY DEF PushServes
  <1>2. e.client \in Clients
    BY <1>1 DEF Front, TypeOK, BlockedClient
  <1> DEFINE d == e.client
             served == [write_buffer EXCEPT ![d] = Append(@, x)]
  <1>3. listPack' = [listPack EXCEPT ![k] = push_value_to_list(k, x, n - 1, p)]
    BY DEF PushServes, StorePushed
  <1>4. /\ InLists'[k] = InLists[k] \cup (x + 1 .. x + (n - 1))
        /\ \A l \in Keys : l # k => InLists'[l] = InLists[l]
        /\ \A l \in Keys : Once(listPack'[l])
    <2>1. x + (n - 1) <= MaxValue /\ x >= values
      BY <1>0
    <2> HIDE DEF x
    <2> QED
      BY <1>0, <1>3, <2>1, Pushed
  <1> HIDE DEF x
  <1>5. write_buffer \in [Clients -> Seq(Items)] /\ NothingTwice /\ d \in Clients
    BY <1>2 DEF TypeOK, Items, ValuesInPlace
  <1>6. <<x>> \in Seq(Items) /\ Once(<<x>>) /\ Held(<<x>>) = {x}
    BY <1>0 DEF Once, Held, Elements
  <1>7. Held(write_buffer[d]) \cap {x} = {}
    <2>1. Held(write_buffer[d]) \subseteq 1 .. values
      BY <1>5 DEF ValuesInPlace, ValuesShared, Shared, InBuffers
    <2>2. x \notin 1 .. values
      BY <1>0 DEF x
    <2> QED
      BY <2>1, <2>2
  <1>8. Append(write_buffer[d], x) = write_buffer[d] \o <<x>>
    BY <1>0, <1>5, AppendIsConcat
  <1>9. Once(write_buffer[d] \o <<x>>)
        /\ Held(write_buffer[d] \o <<x>>) = Held(write_buffer[d]) \cup {x}
    BY <1>5, <1>6, <1>7, Joined DEF NothingTwice
  <1>10. /\ served \in [Clients -> Seq(Items)] /\ served[d] = write_buffer[d] \o <<x>>
         /\ \A f \in Clients : f # d => served[f] = write_buffer[f]
    BY <1>0, <1>5, <1>8
  <1>11. /\ \A f \in Clients : Once(served[f])
         /\ Held(served[d]) = Held(write_buffer[d]) \cup {x}
         /\ \A f \in Clients : f # d => Held(served[f]) = Held(write_buffer[f])
    BY <1>5, <1>9, <1>10 DEF NothingTwice
  <1>12. write_buffer' = [served EXCEPT ![c] = Append(@, 0)]
    BY <1>1
  <1> HIDE DEF served, d
  <1>13. /\ Once(Append(served[c], 0)) /\ Held(Append(served[c], 0)) = Held(served[c])
    <2>1. Append(served[c], 0) = served[c] \o <<0>>
      BY <1>10, ItemSequences, ConstantsAssumption, AppendIsConcat, SMTT(30) DEF Items
    <2>2. served[c] \in Seq(Items) /\ Once(served[c])
      BY <1>10, <1>11
    <2>3. Held(served[c]) \cap Held(<<0>>) = {}
      BY PlainItems
    <2>4. Once(served[c] \o <<0>>)
          /\ Held(served[c] \o <<0>>) = Held(served[c]) \cup Held(<<0>>)
      <3> DEFINE z == <<0>>
      <3>1. z \in Seq(Items) /\ Once(z) /\ Held(served[c]) \cap Held(z) = {}
        BY <2>3, PlainItems
      <3> HIDE DEF z
      <3>2. Once(served[c] \o z) /\ Held(served[c] \o z) = Held(served[c]) \cup Held(z)
        BY <2>2, <3>1, Joined
      <3> QED
        BY <3>2 DEF z
    <2> QED
      BY <2>1, <2>4, PlainItems
  <1>14. \A f \in Clients : Once(write_buffer'[f]) /\ Held(write_buffer'[f]) = Held(served[f])
    BY <1>10, <1>11, <1>12, <1>13
  <1>15. /\ InBuffers'[d] = InBuffers[d] \cup {x}
         /\ \A f \in Clients : f # d => InBuffers'[f] = InBuffers[f]
    BY <1>5, <1>11, <1>14 DEF InBuffers
  <1>16. Shared(InLists, InBuffers', gone, (1 .. values) \cup {x})
    <2>1. Shared(InLists, InBuffers, gone, 1 .. values)
      BY DEF ValuesInPlace, ValuesShared
    <2>2. {x} \cap (1 .. values) = {}
      BY <1>0 DEF x
    <2> QED
      BY <1>5, <1>15, <2>1, <2>2, NewInBuffer
  <1>17. Shared(InLists', InBuffers', gone,
                ((1 .. values) \cup {x}) \cup (x + 1 .. x + (n - 1)))
    <2>1. (x + 1 .. x + (n - 1)) \cap ((1 .. values) \cup {x}) = {}
      BY <1>0 DEF x
    <2> QED
      BY <1>4, <1>16, <2>1, NewInList
  <1>18. ((1 .. values) \cup {x}) \cup (x + 1 .. x + (n - 1)) = 1 .. values + n
    BY <1>0 DEF x
  <1>19. ValuesShared'
    BY <1>17, <1>18 DEF ValuesShared
  <1>20. NothingTwice'
    BY <1>4, <1>14 DEF NothingTwice
  <1> QED
    BY <1>19, <1>20 DEF ValuesInPlace

LEMMA StoresInPlace ==
    ASSUME TypeOK, ValuesInPlace, NEW c \in Clients, NEW k \in Keys, NEW n \in PushSizes,
           NEW p \in BOOLEAN, PushStores(c, k, n, p), values + n <= MaxValue,
           values' = values + n, UNCHANGED gone
    PROVE  ValuesInPlace'
  <1>0. n \in Nat /\ values \in Nat /\ values >= values
    BY ConstantsAssumption DEF TypeOK
  <1>1. /\ listPack' = [listPack EXCEPT ![k] = push_value_to_list(k, values, n, p)]
        /\ write_buffer' = [write_buffer EXCEPT ![c] = @ \o <<0>>]
    BY DEF PushStores, StorePushed, Respond
  <1>2. /\ InLists'[k] = InLists[k] \cup (values + 1 .. values + n)
        /\ \A l \in Keys : l # k => InLists'[l] = InLists[l]
        /\ \A l \in Keys : Once(listPack'[l])
    BY <1>0, <1>1, Pushed
  <1>3. InBuffers' = InBuffers /\ \A d \in Clients : Once(write_buffer'[d])
    <2>1. <<0>> \in Plain
      BY DEF Plain
    <2> QED
      BY <1>1, <2>1, PlainReply
  <1>4. Shared(InLists', InBuffers, gone, (1 .. values) \cup (values + 1 .. values + n))
    <2>1. Shared(InLists, InBuffers, gone, 1 .. values)
      BY DEF ValuesInPlace, ValuesShared
    <2>2. (values + 1 .. values + n) \cap (1 .. values) = {}
      BY <1>0
    <2> QED
      BY <1>2, <2>1, <2>2, NewInList
  <1>5. (1 .. values) \cup (values + 1 .. values + n) = 1 .. values + n
    BY <1>0
  <1>6. ValuesShared'
    BY <1>3, <1>4, <1>5 DEF ValuesShared
  <1>7. NothingTwice'
    BY <1>2, <1>3 DEF NothingTwice
  <1> QED
    BY <1>6, <1>7 DEF ValuesInPlace

LEMMA ExpiryInPlace ==
    ASSUME TypeOK, ValuesInPlace, check_and_expire_blocked_clients,
           UNCHANGED <<listPack, gone, values>>
    PROVE  ValuesInPlace'
  <1> DEFINE expired == UNION {{e \in blocked_keys[k] : is_expired(e)} : k \in Keys}
  <1>1. write_buffer' = ExpiryReplies(expired)
    BY DEF check_and_expire_blocked_clients
  <1> HIDE DEF expired
  <1>2. ASSUME NEW c \in Clients
        PROVE  Once(write_buffer'[c]) /\ Held(write_buffer'[c]) = Held(write_buffer[c])
    <2>1. write_buffer'[c] = Append(write_buffer[c], 0) \/ write_buffer'[c] = write_buffer[c]
      BY <1>1 DEF ExpiryReplies
    <2>2. write_buffer[c] \in Seq(Items) /\ Once(write_buffer[c]) /\ 0 \in Items
      BY ConstantsAssumption DEF TypeOK, ValuesInPlace, NothingTwice, Items
    <2> DEFINE z == <<0>>
    <2>3. Append(write_buffer[c], 0) = write_buffer[c] \o z
      BY <2>2, AppendIsConcat
    <2>4. z \in Seq(Items) /\ Once(z) /\ Held(z) = {} /\ Held(write_buffer[c]) \cap Held(z) = {}
      BY PlainItems
    <2> HIDE DEF z
    <2>5. Once(write_buffer[c] \o z) /\ Held(write_buffer[c] \o z) = Held(write_buffer[c]) \cup Held(z)
      BY <2>2, <2>4, Joined
    <2> QED
      BY <2>1, <2>2, <2>3, <2>4, <2>5
  <1>3. InBuffers' = InBuffers
    BY <1>2 DEF InBuffers
  <1> QED
    BY <1>2, <1>3, NothingMoves

LEMMA WriteInPlace ==
    ASSUME TypeOK, ValuesInPlace, NEW c \in Clients, handleWrite(c)
    PROVE  ValuesInPlace'
  <1>1. /\ write_buffer \in [Clients -> Seq(Items)]
        /\ write_buffer' = [write_buffer EXCEPT ![c] = <<>>]
        /\ gone' = gone \cup InBuffers[c]
        /\ UNCHANGED <<listPack, values>>
    BY DEF TypeOK, Items, handleWrite, InBuffers, Held, store
  <1>2. write_buffer'[c] = <<>> /\ \A d \in Clients : d # c => write_buffer'[d] = write_buffer[d]
    BY <1>1
  <1>3. InBuffers'[c] = {} /\ \A d \in Clients : d # c => InBuffers'[d] = InBuffers[d]
    BY <1>2, PlainItems DEF InBuffers
  <1>4. Shared(InLists, InBuffers', gone \cup InBuffers[c], 1 .. values)
    <2>1. Shared(InLists, InBuffers, gone, 1 .. values)
      BY DEF ValuesInPlace, ValuesShared
    <2> QED
      BY <1>3, <2>1, BufferGoes
  <1>5. InLists' = InLists
    BY <1>1 DEF InLists
  <1>6. ValuesShared'
    BY <1>1, <1>4, <1>5 DEF ValuesShared
  <1>7. NothingTwice'
    BY <1>1, <1>2, PlainItems DEF NothingTwice, ValuesInPlace
  <1> QED
    BY <1>6, <1>7 DEF ValuesInPlace

\* One step per handler.
LEMMA PlaceInductive ==
    ASSUME TypeOK, ValuesInPlace, [Next]_vars
    PROVE  ValuesInPlace'
  <1>0. <<0>> \in Plain /\ <<>> \in Plain
    BY DEF Plain
  <1>1. ASSUME NEW c \in Clients, NEW k \in Keys, NEW t \in Timeouts,
               handle_blpop(c, k, t)
        PROVE  ValuesInPlace'
    <2>1. CASE BlpopBlocks(c, k, t)
      <3>1. UNCHANGED <<listPack, write_buffer, gone, values>>
        BY <2>1 DEF BlpopBlocks, store
      <3> QED
        BY <3>1, NothingTouched
    <2>2. CASE BlpopWrongType(c, k)
      <3>1. /\ write_buffer' = [write_buffer EXCEPT ![c] = @ \o <<0>>]
            /\ UNCHANGED <<listPack, gone, values>>
        BY <2>2 DEF BlpopWrongType, Respond, store, aux
      <3>2. InBuffers' = InBuffers /\ \A d \in Clients : Once(write_buffer'[d])
        BY <1>0, <3>1, PlainReply
      <3> QED
        BY <3>1, <3>2, NothingMoves
    <2>3. CASE BlpopPops(c, k)
      <3> DEFINE s == listPack[k]
      <3>1. s \in Seq(1 .. MaxValue) /\ s # <<>>
        BY <2>3 DEF TypeOK, BlpopPops
      <3>2. /\ listPack' = [listPack EXCEPT ![k] = Tail(s)]
            /\ write_buffer' = [write_buffer EXCEPT ![c] = @ \o <<Head(s)>>]
            /\ UNCHANGED <<gone, values>>
        BY <2>3 DEF BlpopPops, Respond, aux
      <3> HIDE DEF s
      <3>3. Len(s) \in Nat /\ Len(s) >= 1 /\ 1 \in 0 .. Len(s)
        BY <3>1, EmptySeq
      <3>4. Tail(s) = SubSeq(s, 1 + 1, Len(s))
        BY <3>1, <3>3
      <3>5. <<Head(s)>> = SubSeq(s, 1, 1)
        BY <3>1, <3>3
      <3>6. /\ listPack' = [listPack EXCEPT ![k] = SubSeq(listPack[k], 1 + 1, Len(listPack[k]))]
            /\ write_buffer' = [write_buffer EXCEPT ![c] = @ \o SubSeq(listPack[k], 1, 1)]
            /\ 1 \in 0 .. Len(listPack[k])
        BY <3>2, <3>3, <3>4, <3>5 DEF s
      <3> QED
        BY <3>2, <3>6, Popped
    <2> QED
      BY <1>1, <2>1, <2>2, <2>3 DEF handle_blpop
  <1>2. ASSUME NEW c \in Clients, NEW k \in Keys, NEW n \in PushSizes,
               NEW p \in BOOLEAN, handle_push(c, k, n, p)
        PROVE  ValuesInPlace'
    <2>1. CASE PushServes(c, k, n, p) /\ values' = values + n /\ UNCHANGED <<tickets, gone>>
      BY <1>2, <2>1, ServesInPlace DEF handle_push
    <2>2. CASE PushStores(c, k, n, p) /\ values' = values + n /\ UNCHANGED <<tickets, gone>>
      BY <1>2, <2>2, StoresInPlace DEF handle_push
    <2>3. CASE PushAborts(c, k, n)
      <3>1. UNCHANGED <<listPack, write_buffer, gone, values>>
        BY <2>3 DEF PushAborts, Abort, store, aux
      <3> QED
        BY <3>1, NothingTouched
    <2> QED
      BY <1>2, <2>1, <2>2, <2>3 DEF handle_push
  <1>3. ASSUME NEW c \in Clients, NEW k \in Keys, NEW n \in PopCounts,
               handle_lpop(c, k, n)
        PROVE  ValuesInPlace'
    <2> DEFINE p == IF n < Len(listPack[k]) THEN n ELSE Len(listPack[k])
    <2>1. /\ listPack' = [listPack EXCEPT ![k] = SubSeq(@, p + 1, Len(@))]
          /\ write_buffer' = [write_buffer EXCEPT
                                ![c] = @ \o IF p = 0 THEN <<0>> ELSE SubSeq(listPack[k], 1, p)]
          /\ UNCHANGED <<gone, values>>
      BY <1>3 DEF handle_lpop, Respond, aux
    <2>2. p \in 0 .. Len(listPack[k]) /\ listPack[k] \in Seq(1 .. MaxValue)
          /\ listPack \in [Keys -> Seq(1 .. MaxValue)]
      BY ConstantsAssumption DEF TypeOK
    <2> HIDE DEF p
    <2>3. CASE p = 0
      <3>1. SubSeq(listPack[k], 1, Len(listPack[k])) = listPack[k]
        BY <2>2, SubSeqFull
      <3>2. listPack' = listPack /\ write_buffer' = [write_buffer EXCEPT ![c] = @ \o <<0>>]
        BY <2>1, <2>2, <2>3, <3>1
      <3>3. InBuffers' = InBuffers /\ \A d \in Clients : Once(write_buffer'[d])
        BY <1>0, <3>2, PlainReply
      <3> QED
        BY <2>1, <3>2, <3>3, NothingMoves
    <2>4. CASE p # 0
      <3>1. write_buffer' = [write_buffer EXCEPT ![c] = @ \o SubSeq(listPack[k], 1, p)]
        BY <2>1, <2>4
      <3> QED
        BY <2>1, <2>2, <3>1, Popped
    <2> QED
      BY <2>3, <2>4
  <1>4. ASSUME NEW c \in Clients, NEW k \in Keys, handle_set(c, k)
        PROVE  ValuesInPlace'
    BY <1>0, <1>4, Dropped DEF handle_set, Respond
  <1>5. ASSUME NEW c \in Clients, NEW k \in Keys, handle_incr(c, k)
        PROVE  ValuesInPlace'
    <2>1. /\ write_buffer' = [write_buffer EXCEPT ![c] = @ \o <<0>>]
          /\ UNCHANGED <<listPack, gone, values>>
      BY <1>5 DEF handle_incr, Respond, aux
    <2>2. InBuffers' = InBuffers /\ \A d \in Clients : Once(write_buffer'[d])
      BY <1>0, <2>1, PlainReply
    <2> QED
      BY <2>1, <2>2, NothingMoves
  <1>6. ASSUME NEW c \in Clients, NEW k \in Keys, handle_get_or_type(c, k)
        PROVE  ValuesInPlace'
    <2>1. CASE KeyExpired(k)
      BY <1>0, <1>6, <2>1, Dropped DEF handle_get_or_type, Respond
    <2>2. CASE ~KeyExpired(k)
      <3> DEFINE items == IF keyType[k] = "list" THEN <<>> ELSE <<0>>
      <3>1. /\ write_buffer' = [write_buffer EXCEPT ![c] = @ \o items]
            /\ UNCHANGED <<listPack, gone, values>>
        BY <1>6, <2>2 DEF handle_get_or_type, Respond, store
      <3>2. items \in Plain
        BY DEF Plain
      <3> HIDE DEF items
      <3>3. InBuffers' = InBuffers /\ \A d \in Clients : Once(write_buffer'[d])
        BY <3>1, <3>2, PlainReply
      <3> QED
        BY <3>1, <3>3, NothingMoves
    <2> QED
      BY <2>1, <2>2
  <1>7. ASSUME NEW c \in Clients, handleClose(c)
        PROVE  ValuesInPlace'
    <2>1. UNCHANGED <<listPack, write_buffer, gone, values>>
      BY <1>7 DEF handleClose, store, aux
    <2> QED
      BY <2>1, NothingTouched
  <1>8. CASE LoopTurn
    <2>1. check_and_expire_blocked_clients /\ UNCHANGED <<listPack, gone, values>>
      BY <1>8 DEF LoopTurn, store, aux
    <2> QED
      BY <2>1, ExpiryInPlace
  <1>9. CASE Tick \/ UNCHANGED vars
    <2>1. UNCHANGED <<listPack, write_buffer, gone, values>>
      BY <1>9 DEF Tick, vars, store, aux
    <2> QED
      BY <2>1, NothingTouched
  <1> QED
    BY <1>1, <1>2, <1>3, <1>4, <1>5, <1>6, <1>7, <1>8, <1>9, WriteInPlace
       DEF Next, Request, TimerFires, EventsHandled

LEMMA InitInPlace == Init => ValuesInPlace
  <1> SUFFICES ASSUME Init PROVE ValuesInPlace
    OBVIOUS
  <1>1. \A k \in Keys : Once(listPack[k]) /\ InLists[k] = {}
    BY PlainItems DEF Init, InLists
  <1>2. \A c \in Clients : Once(write_buffer[c]) /\ InBuffers[c] = {}
    BY PlainItems DEF Init, InBuffers
  <1>3. gone = {} /\ 1 .. values = {}
    BY DEF Init
  <1>4. Shared(InLists, InBuffers, gone, 1 .. values)
    BY <1>1, <1>2, <1>3 DEF Shared
  <1> QED
    BY <1>1, <1>2, <1>4 DEF ValuesInPlace, ValuesShared, NothingTwice

\* One place means one position.
LEMMA PlacedOnce ==
    ASSUME TypeOK, ValuesInPlace
    PROVE  ExactlyOnce
  <1> SUFFICES ASSUME NEW v \in 1 .. values
               PROVE  LET inLists   == UNION {{k} \X Positions(listPack[k], v) : k \in Keys}
                          inBuffers == UNION {{c} \X Positions(write_buffer[c], v) : c \in Clients}
                      IN  Cardinality(inLists) + Cardinality(inBuffers)
                            + Cardinality(gone \cap {v}) = 1
    BY DEF ExactlyOnce
  <1> DEFINE inLists   == UNION {{k} \X Positions(listPack[k], v) : k \in Keys}
             inBuffers == UNION {{c} \X Positions(write_buffer[c], v) : c \in Clients}
  <1>0. v # 0
    BY DEF TypeOK
  <1>1. \A k \in Keys : Positions(listPack[k], v) # {} <=> v \in InLists[k]
    BY <1>0 DEF Positions, InLists, Held, Elements
  <1>2. \A c \in Clients : Positions(write_buffer[c], v) # {} <=> v \in InBuffers[c]
    BY <1>0 DEF Positions, InBuffers, Held, Elements
  <1>3. /\ \A k \in Keys : \A i, j \in Positions(listPack[k], v) : i = j
        /\ \A c \in Clients : \A i, j \in Positions(write_buffer[c], v) : i = j
    BY <1>0 DEF Positions, ValuesInPlace, NothingTwice, Once
  <1>a. \A x : x \in inLists <=> \E k \in Keys : \E i \in Positions(listPack[k], v) : x = <<k, i>>
    OBVIOUS
  <1>b. \A x : x \in inBuffers <=>
               \E c \in Clients : \E i \in Positions(write_buffer[c], v) : x = <<c, i>>
    OBVIOUS
  <1> HIDE DEF inLists, inBuffers
  <1>4. Shared(InLists, InBuffers, gone, 1 .. values)
    BY DEF ValuesInPlace, ValuesShared
  <1>5. Cardinality({}) = 0 /\ \A x : Cardinality({x}) = 1
    BY FS_EmptySet, FS_Singleton
  <1>6. CASE v \in gone
    <2>1. (\A k \in Keys : v \notin InLists[k]) /\ (\A c \in Clients : v \notin InBuffers[c])
      BY <1>4, <1>6 DEF Shared
    <2>2. inLists = {} /\ inBuffers = {}
      BY <1>a, <1>b, <1>1, <1>2, <2>1
    <2>3. gone \cap {v} = {v}
      BY <1>6
    <2>4. Cardinality(inLists) = 0 /\ Cardinality(inBuffers) = 0 /\ Cardinality(gone \cap {v}) = 1
      BY <1>5, <2>2, <2>3, Zenon
    <2>5. Cardinality(inLists) + Cardinality(inBuffers) + Cardinality(gone \cap {v}) = 1
      BY <2>4
    <2> QED
      BY <2>5 DEF inLists, inBuffers
  <1>7. ASSUME NEW k \in Keys, v \in InLists[k]
        PROVE  Cardinality(inLists) + Cardinality(inBuffers) + Cardinality(gone \cap {v}) = 1
    <2>1. /\ \A l \in Keys : l # k => v \notin InLists[l]
          /\ \A c \in Clients : v \notin InBuffers[c]
          /\ v \notin gone
      BY <1>4, <1>7 DEF Shared
    <2>2. PICK i : i \in Positions(listPack[k], v)
      BY <1>1, <1>7
    <2>3. Positions(listPack[k], v) = {i} /\ \A l \in Keys : l # k => Positions(listPack[l], v) = {}
      BY <1>1, <1>3, <2>1, <2>2
    <2>4. inLists = {<<k, i>>}
      BY <1>a, <2>3
    <2>5. inBuffers = {} /\ gone \cap {v} = {}
      BY <1>b, <1>2, <2>1
    <2>6. Cardinality(inLists) = 1 /\ Cardinality(inBuffers) = 0 /\ Cardinality(gone \cap {v}) = 0
      BY <1>5, <2>4, <2>5, Zenon
    <2> QED
      BY <2>6
  <1>8. ASSUME NEW c \in Clients, v \in InBuffers[c]
        PROVE  Cardinality(inLists) + Cardinality(inBuffers) + Cardinality(gone \cap {v}) = 1
    <2>1. /\ \A d \in Clients : d # c => v \notin InBuffers[d]
          /\ \A k \in Keys : v \notin InLists[k]
          /\ v \notin gone
      BY <1>4, <1>8 DEF Shared
    <2>2. PICK i : i \in Positions(write_buffer[c], v)
      BY <1>2, <1>8
    <2>3. /\ Positions(write_buffer[c], v) = {i}
          /\ \A d \in Clients : d # c => Positions(write_buffer[d], v) = {}
      BY <1>2, <1>3, <2>1, <2>2
    <2>4. inBuffers = {<<c, i>>}
      BY <1>b, <2>3
    <2>5. inLists = {} /\ gone \cap {v} = {}
      BY <1>a, <1>1, <2>1
    <2>6. Cardinality(inLists) = 0 /\ Cardinality(inBuffers) = 1 /\ Cardinality(gone \cap {v}) = 0
      BY <1>5, <2>4, <2>5, Zenon
    <2> QED
      BY <2>6
  <1> QED
    BY <1>4, <1>6, <1>7, <1>8 DEF Shared, inLists, inBuffers

-----------------------------------------------------------------------------
(* The theorems.                                                           *)

\* The inductive invariant behind the theorems below.
IInv ==
    /\ TypeOK
    /\ ListsOnly
    /\ QueuesOrdered
    /\ OnlyStringsExpire
    /\ RepliesArmed
    /\ StrandedOnlyIfOverfed
    /\ OversleepsOnlyShadowed
    /\ ValuesInPlace

LEMMA IInvariant == Spec => []IInv
  <1>1. Init => IInv
    <2>1. Init => TypeOK
      BY ConstantsAssumption DEF Init, TypeOK, Never
    <2> QED
      BY <2>1, InitInPlace DEF Init, IInv, ListsOnly, QueuesOrdered, OnlyStringsExpire,
         RepliesArmed, StrandedOnlyIfOverfed, OversleepsOnlyShadowed
  <1>2. IInv /\ [Next]_vars => IInv'
    BY TypeInductive, ListsOnlyInductive, QueuesInductive, ExpireInductive,
       ArmedInductive, StrandedInductive, OversleepInductive, PlaceInductive DEF IInv
  <1> QED
    BY <1>1, <1>2, PTL DEF Spec

\* No GET or TYPE ever erases an iterator that find did not return: whatever
\* the keys and lifetimes, only keys of the store carry an expiration, and
\* they hold strings.
THEOREM ExpirationSound == Spec => []OnlyStringsExpire
  BY IInvariant, PTL DEF IInv

\* No reply is ever stuck in the buffer of a live connection for want of a
\* flush, for any number of clients, keys and blocked clients.
THEOREM EveryReplyArmed == Spec => []RepliesArmed
  BY IInvariant, PTL DEF IInv

\* A blocked client faces a non-empty list only after a push that carried
\* several values met several waiting clients.
THEOREM StrandingCharacterised == Spec => []StrandedOnlyIfOverfed
  BY IInvariant, PTL DEF IInv

\* The loop sleeps past a deadline only for a client queued behind a later
\* deadline on the same key.
THEOREM SleepBounded == Spec => []OversleepsOnlyShadowed
  BY IInvariant, PTL DEF IInv

\* No pushed value is ever lost or delivered twice: it is in one position of
\* one list or of one buffer, or it is gone (handle_push, handle_blpop,
\* handle_lpop, handle_set, handleWrite).
THEOREM DeliveredOnce == Spec => []ExactlyOnce
  <1>1. IInv => ExactlyOnce
    BY PlacedOnce DEF IInv
  <1> QED
    BY <1>1, IInvariant, PTL

=============================================================================
