------------------------------ MODULE NatInduction ------------------------------
(***************************************************************************)
(* Induction over the numbers of an interval, and the existence of what a  *)
(* recursion over one defines.  The sets and the steps of the recursion    *)
(* are values here, a predicate P being given as {n \in a..b : P(n)}: the  *)
(* facts follow from the least element of a set of numbers, and none of    *)
(* them has an operator for a parameter.                                   *)
(***************************************************************************)
EXTENDS Integers, WellFoundedInduction, TLAPS

\* A set of natural numbers has a least one.
LEMMA NatMin ==
  ASSUME NEW T, T \subseteq Nat, T # {}
  PROVE  \E m \in T : \A n \in T : m <= n
<1> DEFINE R == OpToRel(<, Nat)
<1>1. IsWellFoundedOn(R, Nat)
  BY NatLessThanWellFounded
<1>2. \A x, y \in Nat : x < y => <<x, y>> \in R
  BY DEF OpToRel
<1> HIDE DEF R
<1>3. PICK m \in T : \A y \in T : ~ (<<y, m>> \in R)
  BY <1>1, WFMin
<1>4. \A n \in T : n \in Nat /\ ~ (n < m)
  BY <1>2, <1>3
<1>5. m \in Nat
  OBVIOUS
<1>6. \A n \in T : m <= n
  BY <1>4, <1>5
<1> QED
  BY <1>6

\* Induction from the first number of an interval to its last.
LEMMA UpFrom ==
  ASSUME NEW a \in Int, NEW b \in Int, NEW T,
         a \in T, \A n \in a..(b - 1) : n \in T => n + 1 \in T
  PROVE  a..b \subseteq T
<1> DEFINE Missing == {n \in Nat : a + n <= b /\ a + n \notin T}
<1> SUFFICES ASSUME Missing # {}
             PROVE  FALSE
  <2> SUFFICES ASSUME NEW x \in a..b, x \notin T
               PROVE  Missing # {}
    OBVIOUS
  <2>1. x - a \in Nat /\ a + (x - a) = x /\ x <= b
    OBVIOUS
  <2>2. x - a \in Missing
    BY <2>1
  <2> QED BY <2>2
<1>1. Missing \subseteq Nat
  OBVIOUS
<1> HIDE DEF Missing
<1>2. PICK m \in Missing : \A n \in Missing : m <= n
  BY <1>1, NatMin
<1>3. m \in Nat /\ a + m <= b /\ a + m \notin T
  BY DEF Missing
<1>4. m # 0
  BY <1>3
<1>5. m - 1 \in Nat /\ ~ (m <= m - 1) /\ a + (m - 1) <= b
  BY <1>3, <1>4
<1>6. a + (m - 1) \in T
  BY <1>2, <1>5 DEF Missing
<1>7. a + (m - 1) \in a..(b - 1) /\ a + (m - 1) + 1 = a + m
  BY <1>3, <1>5
<1> QED
  BY <1>3, <1>6, <1>7

\* Induction on the length of an interval: what holds of a number when it
\* holds of all the smaller ones holds of all.
LEMMA Descent ==
  ASSUME NEW T, \A n \in Nat : (\A m \in Nat : m < n => m \in T) => n \in T
  PROVE  Nat \subseteq T
<1> DEFINE Missing == Nat \ T
<1> SUFFICES ASSUME Missing # {}
             PROVE  FALSE
  OBVIOUS
<1>1. Missing \subseteq Nat
  OBVIOUS
<1> HIDE DEF Missing
<1>2. PICK m \in Missing : \A n \in Missing : m <= n
  BY <1>1, NatMin
<1>3. m \in Nat /\ m \notin T
  BY DEF Missing
<1>4. \A n \in Nat : n < m => n \in T
  BY <1>2, <1>3 DEF Missing
<1> QED
  BY <1>3, <1>4

\* The recursion over 0..N whose step n is the function step[n].
Steps(N, S) == [1..N -> [S -> S]]

Solves(f, N, S, base, step) ==
  /\ f \in [0..N -> S]
  /\ f[0] = base
  /\ \A n \in 1..N : f[n] = step[n][f[n - 1]]

LEMMA RecursionExists ==
  ASSUME NEW N \in Nat, NEW S, NEW base \in S, NEW step \in Steps(N, S)
  PROVE  \E f : Solves(f, N, S, base, step)
<1> DEFINE T == {k \in 0..N : \E f : Solves(f, k, S, base, step)}
<1> USE DEF Steps, Solves
<1>1. 0 \in T
  <2> DEFINE f == [n \in 0..0 |-> base]
  <2>1. f \in [0..0 -> S] /\ f[0] = base
    OBVIOUS
  <2> HIDE DEF f
  <2>2. Solves(f, 0, S, base, step)
    BY <2>1
  <2> QED BY <2>2
<1>2. ASSUME NEW k \in 0..(N - 1), k \in T
      PROVE  k + 1 \in T
  <2> SUFFICES \E f : Solves(f, k + 1, S, base, step)
    OBVIOUS
  <2>0. PICK g : Solves(g, k, S, base, step)
    BY <1>2
  <2> DEFINE f == [n \in 0..(k + 1) |-> IF n = k + 1 THEN step[k + 1][g[k]] ELSE g[n]]
  <2>1. k + 1 \in 1..N /\ g[k] \in S /\ step[k + 1] \in [S -> S]
    BY <2>0
  <2>2. step[k + 1][g[k]] \in S
    BY <2>1
  <2>3. f \in [0..(k + 1) -> S]
    BY <2>0, <2>2
  <2>4. f[k + 1] = step[k + 1][g[k]] /\ \A n \in 0..k : f[n] = g[n]
    OBVIOUS
  <2> HIDE DEF f
  <2>5. ASSUME NEW n \in 1..(k + 1)
        PROVE  f[n] = step[n][f[n - 1]]
    <3>1. CASE n = k + 1
      BY <2>4, <3>1
    <3>2. CASE n # k + 1
      <4>1. n \in 1..k /\ n - 1 \in 0..k /\ n \in 0..k
        BY <3>2
      <4> QED BY <2>0, <2>4, <4>1
    <3> QED BY <3>1, <3>2
  <2>6. Solves(f, k + 1, S, base, step)
    BY <2>0, <2>3, <2>4, <2>5
  <2> QED BY <2>6
<1> HIDE DEF T
<1>3. 0..N \subseteq T
  BY <1>1, <1>2, UpFrom
<1>4. N \in T
  BY <1>3
<1> QED
  BY <1>4 DEF T
=============================================================================
