----------------------------- MODULE Induction ------------------------------
(***************************************************************************)
(* Induction on natural numbers, stated for sets, so that it can be cited  *)
(* like any other fact, and what follows from it for functions defined by  *)
(* recursion on the positions of a sequence.                               *)
(***************************************************************************)
EXTENDS Integers, Sequences, WellFoundedInduction, TLAPS

\* A non-empty set of natural numbers has a least element.
LEMMA LeastElement ==
    ASSUME NEW T, T \subseteq Nat, T # {}
    PROVE  \E x \in T : \A y \in T : x <= y
  <1>1. PICK x \in T : \A y \in T : ~(<<y, x>> \in OpToRel(<, Nat))
    BY NatLessThanWellFounded, WFMin
  <1>2. \A y \in T : ~(y < x)
    BY <1>1 DEF OpToRel
  <1> QED
    BY <1>2

\* A set that contains 0 and the successors of its members contains Nat.
LEMMA SetInduction ==
    ASSUME NEW S, 0 \in S, \A n \in Nat : n \in S => n + 1 \in S
    PROVE  Nat \subseteq S
  <1> DEFINE T == Nat \ S
  <1>1. SUFFICES ASSUME T # {} PROVE FALSE
    OBVIOUS
  <1>2. PICK x \in T : \A y \in T : x <= y
    <2>1. T \subseteq Nat
      OBVIOUS
    <2> HIDE DEF T
    <2> QED
      BY <1>1, <2>1, LeastElement
  <1>3. x # 0 /\ x \in Nat
    OBVIOUS
  <1>4. x - 1 \in S
    BY <1>2, <1>3
  <1> QED
    BY <1>3, <1>4

\* The same up to a bound.
LEMMA BoundedInduction ==
    ASSUME NEW N \in Nat, NEW S, 0 \in S,
           \A n \in 0 .. N - 1 : n \in S => n + 1 \in S
    PROVE  0 .. N \subseteq S
  <1> DEFINE T == {n \in Nat : n <= N => n \in S}
  <1>1. 0 \in T
    OBVIOUS
  <1>2. \A n \in Nat : n \in T => n + 1 \in T
    OBVIOUS
  <1>3. Nat \subseteq T
    <2> HIDE DEF T
    <2> QED
      BY <1>1, <1>2, SetInduction
  <1> QED
    BY <1>3

\* step takes a result and a position in 1 .. N to the next result.
StepFunction(X, N, step) == step \in [X \X (1 .. N) -> X]

\* f is computed from base with step.
Computed(X, N, base, step, f) ==
    /\ f \in [0 .. N -> X]
    /\ f[0] = base
    /\ \A k \in 1 .. N : f[k] = step[<<f[k - 1], k>>]

\* Recursion on 1 .. N with a step function has a solution.
LEMMA RecursionExists ==
    ASSUME NEW X, NEW N \in Nat, NEW base \in X, NEW step, StepFunction(X, N, step)
    PROVE  \E f : Computed(X, N, base, step, f)
  <1> USE DEF StepFunction
  <1> DEFINE Good(n, f) == f[0] = base /\ \A k \in 1 .. n : f[k] = step[<<f[k - 1], k>>]
             S == {n \in 0 .. N : \E f \in [0 .. n -> X] : Good(n, f)}
  <1>1. 0 \in S
    <2>1. [i \in 0 .. 0 |-> base] \in [0 .. 0 -> X]
      OBVIOUS
    <2>2. Good(0, [i \in 0 .. 0 |-> base])
      OBVIOUS
    <2>3. 0 \in 0 .. N
      OBVIOUS
    <2> HIDE DEF Good
    <2> QED
      BY <2>1, <2>2, <2>3
  <1>2. \A n \in 0 .. N - 1 : n \in S => n + 1 \in S
    <2> SUFFICES ASSUME NEW n \in 0 .. N - 1, n \in S
                 PROVE  \E g \in [0 .. n + 1 -> X] : Good(n + 1, g)
      OBVIOUS
    <2>1. PICK f \in [0 .. n -> X] : Good(n, f)
      OBVIOUS
    <2> DEFINE g == [k \in 0 .. n + 1 |-> IF k = n + 1 THEN step[<<f[n], n + 1>>] ELSE f[k]]
    <2>2. step[<<f[n], n + 1>>] \in X
      OBVIOUS
    <2>3. g \in [0 .. n + 1 -> X]
      BY <2>2
    <2>4. Good(n + 1, g)
      <3>1. \A k \in 0 .. n : g[k] = f[k]
        OBVIOUS
      <3>2. g[n + 1] = step[<<f[n], n + 1>>]
        OBVIOUS
      <3>3. \A k \in 1 .. n + 1 : k # n + 1 => k \in 1 .. n /\ k \in 0 .. n /\ k - 1 \in 0 .. n
        OBVIOUS
      <3>4. n + 1 - 1 = n /\ n \in 0 .. n /\ 0 \in 0 .. n
        OBVIOUS
      <3> HIDE DEF g
      <3>5. g[0] = base
        BY <2>1, <3>1, <3>4
      <3>6. ASSUME NEW k \in 1 .. n + 1
            PROVE  g[k] = step[<<g[k - 1], k>>]
        <4>1. CASE k = n + 1
          <5>1. g[k] = step[<<f[n], k>>] /\ k - 1 = n
            BY <3>2, <3>4, <4>1
          <5>2. g[n] = f[n]
            BY <3>1, <3>4
          <5> QED
            BY <5>1, <5>2
        <4>2. CASE k # n + 1
          <5>1. k \in 1 .. n /\ g[k] = f[k] /\ g[k - 1] = f[k - 1]
            BY <3>1, <3>3, <4>2
          <5> QED
            BY <2>1, <5>1
        <4> QED
          BY <4>1, <4>2
      <3> QED
        BY <3>5, <3>6
    <2> HIDE DEF g
    <2> QED
      BY <2>3, <2>4
  <1>3. N \in S
    <2> HIDE DEF S
    <2> QED
      BY <1>1, <1>2, BoundedInduction
  <1>4. PICK f \in [0 .. N -> X] : Good(N, f)
    BY <1>3
  <1>5. Computed(X, N, base, step, f)
    BY <1>4 DEF Computed
  <1> QED
    BY <1>5
=============================================================================
