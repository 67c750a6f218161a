------------------------------- MODULE Induction -------------------------------
(***************************************************************************)
(* Induction over the natural numbers and recursion on an interval, stated *)
(* with sets and functions in place of operator parameters, so that a      *)
(* proof can cite them by name.                                            *)
(***************************************************************************)
EXTENDS Integers, Sequences, WellFoundedInduction, TLAPS

-----------------------------------------------------------------------------
LEMMA LeastNat ==
  ASSUME NEW T \in SUBSET Nat, T # {}
  PROVE  \E x \in T : \A y \in T : x <= y
<1> DEFINE R == OpToRel(<, Nat)
<1>1. PICK x \in T : \A y \in T : <<y, x>> \notin R
  <2>1. IsWellFoundedOn(R, Nat)
    BY NatLessThanWellFounded
  <2> HIDE DEF R
  <2>2. QED
    BY <2>1, WFMin
<1>2. \A y \in T : ~(y < x)
  BY <1>1 DEF OpToRel
<1>3. QED
  BY <1>2

\* A set that has 0 and, with a number, the next one up to N, has all numbers up to N.
LEMMA CountUp ==
  ASSUME NEW N \in Nat, NEW T, 0 \in T,
         \A n \in 0 .. N - 1 : n \in T => n + 1 \in T
  PROVE  \A n \in 0 .. N : n \in T
<1> SUFFICES ASSUME \E n \in 0 .. N : n \notin T
             PROVE  FALSE
  OBVIOUS
<1> DEFINE Out == {n \in 0 .. N : n \notin T}
<1>1. Out \in SUBSET Nat /\ Out # {}
  OBVIOUS
<1>2. PICK x \in Out : \A y \in Out : x <= y
  <2> HIDE DEF Out
  <2>1. QED
    BY <1>1, LeastNat
<1>3. x # 0 /\ x \in 1 .. N /\ x \notin T
  BY <1>2
<1>4. x - 1 \notin Out /\ x - 1 \in 0 .. N - 1
  BY <1>2, <1>3
<1>5. x - 1 \in T
  BY <1>4
<1>6. (x - 1) + 1 \in T /\ (x - 1) + 1 = x
  BY <1>3, <1>4, <1>5
<1>7. QED
  BY <1>3, <1>6

\* The same for all numbers.
LEMMA AllNat ==
  ASSUME NEW T, 0 \in T, \A n \in Nat : n \in T => n + 1 \in T
  PROVE  \A n \in Nat : n \in T
<1> SUFFICES ASSUME NEW N \in Nat
             PROVE  N \in T
  OBVIOUS
<1>1. \A n \in 0 .. N - 1 : n \in T => n + 1 \in T
  OBVIOUS
<1>2. \A n \in 0 .. N : n \in T
  BY <1>1, CountUp
<1>3. QED
  BY <1>2

-----------------------------------------------------------------------------
\* f starts at base and takes step n from f[n - 1] to f[n].
StepsBy(f, N, base, step) ==
  f[0] = base /\ \A n \in 1 .. N : f[n] = step[<<n, f[n - 1]>>]

LEMMA RunExists ==
  ASSUME NEW N \in Nat, NEW S, NEW base \in S, NEW step \in [(1 .. N) \X S -> S]
  PROVE  \E f \in [0 .. N -> S] : StepsBy(f, N, base, step)
<1> DEFINE T == {k \in Nat : \E f \in [0 .. k -> S] : StepsBy(f, k, base, step)}
<1>1. 0 \in T
  <2>1. [n \in 0 .. 0 |-> base] \in [0 .. 0 -> S]
    OBVIOUS
  <2>2. StepsBy([n \in 0 .. 0 |-> base], 0, base, step)
    BY DEF StepsBy
  <2>3. QED
    BY <2>1, <2>2
<1>2. ASSUME NEW k \in 0 .. N - 1, k \in T
      PROVE  k + 1 \in T
  <2>1. PICK f \in [0 .. k -> S] : StepsBy(f, k, base, step)
    BY <1>2
  <2> DEFINE next == step[<<k + 1, f[k]>>]
             g == [n \in 0 .. k + 1 |-> IF n = k + 1 THEN next ELSE f[n]]
  <2>2. f[k] \in S /\ next \in S
    OBVIOUS
  <2>3. g = [n \in 0 .. k + 1 |-> g[n]] /\ g[k + 1] = next /\ \A n \in 0 .. k : g[n] = f[n]
    <3> HIDE DEF next
    <3>1. QED
      OBVIOUS
  <2> HIDE DEF g
  <2>4. g \in [0 .. k + 1 -> S] /\ StepsBy(g, k + 1, base, step)
    <3>1. \A n \in 0 .. k + 1 : n = k + 1 \/ n \in 0 .. k
      OBVIOUS
    <3>2. \A n \in 0 .. k + 1 : g[n] \in S
      BY <2>2, <2>3, <3>1
    <3>4. g[0] = base
      <4>1. 0 \in 0 .. k
        OBVIOUS
      <4>2. QED
        BY <2>1, <2>3, <4>1 DEF StepsBy
    <3>5. \A n \in 1 .. k : n \in 0 .. k /\ n - 1 \in 0 .. k
      OBVIOUS
    <3>6. \A n \in 1 .. k : g[n] = step[<<n, g[n - 1]>>]
      BY <2>1, <2>3, <3>5 DEF StepsBy
    <3>7. (k + 1) - 1 = k /\ k \in 0 .. k
      OBVIOUS
    <3>8. g[k + 1] = step[<<k + 1, g[(k + 1) - 1]>>]
      BY <2>3, <3>7
    <3>9. \A n \in 1 .. k + 1 : n = k + 1 \/ n \in 1 .. k
      OBVIOUS
    <3>10. QED
      BY <2>3, <3>2, <3>4, <3>6, <3>8, <3>9 DEF StepsBy
  <2>5. QED
    BY <2>4
<1>3. \A n \in 0 .. N : n \in T
  <2> HIDE DEF T
  <2>1. QED
    BY <1>1, <1>2, CountUp
<1>4. QED
  BY <1>3

\* What takes these steps stays where they lead.
LEMMA RunTyped ==
  ASSUME NEW N \in Nat, NEW S, NEW base \in S, NEW step \in [(1 .. N) \X S -> S],
         NEW f, StepsBy(f, N, base, step)
  PROVE  \A n \in 0 .. N : f[n] \in S
<1> DEFINE T == {n \in Nat : f[n] \in S}
<1>1. 0 \in T
  BY DEF StepsBy
<1>2. ASSUME NEW n \in 0 .. N - 1, f[n] \in S
      PROVE  f[n + 1] \in S
  <2>1. n + 1 \in 1 .. N /\ (n + 1) - 1 = n
    OBVIOUS
  <2>2. f[n + 1] = step[<<n + 1, f[n]>>]
    BY <2>1 DEF StepsBy
  <2>3. <<n + 1, f[n]>> \in (1 .. N) \X S
    BY <1>2, <2>1
  <2>4. QED
    BY <2>2, <2>3
<1>3. \A n \in 0 .. N - 1 : n \in T => n + 1 \in T
  BY <1>2
<1>4. \A n \in 0 .. N : n \in T
  <2> HIDE DEF T
  <2>1. QED
    BY <1>1, <1>3, CountUp
<1>5. QED
  BY <1>4
=============================================================================
