------------------------------ MODULE Induction ------------------------------
(***************************************************************************)
(* Induction over numbers without an operator parameter: a set of numbers  *)
(* that is not empty has a least element.  Applied to the counterexamples  *)
(* of a statement it is the induction principle, and it gives the          *)
(* functions that are defined by recursion on a number.                    *)
(***************************************************************************)
EXTENDS Integers, WellFoundedInduction, TLAPS

\* The numbers are well founded.
LEMMA LeastNumber ==
    ASSUME NEW S, S \subseteq Nat, S # {}
    PROVE  \E least \in S : \A n \in S : least <= n
  <1>1. PICK least \in S : \A n \in S : <<n, least>> \notin OpToRel(<, Nat)
    BY NatLessThanWellFounded, WFMin
  <1>2. \A n \in S : <<n, least>> \in Nat \X Nat /\ <<n, least>>[1] = n /\ <<n, least>>[2] = least
    OBVIOUS
  <1>3. ASSUME NEW n \in S PROVE ~(n < least)
    BY <1>1, <1>2, Zenon DEF OpToRel
  <1>4. \A n \in S : least <= n  BY <1>3
  <1> QED  BY <1>4

\* Induction on the sets of numbers.
LEMMA NumberInduction ==
    ASSUME NEW S, 0 \in S, \A n \in Nat : n \in S => n + 1 \in S
    PROVE  Nat \subseteq S
  <1> SUFFICES ASSUME Nat \ S # {} PROVE FALSE
    OBVIOUS
  <1>1. PICK least \in Nat \ S : \A n \in Nat \ S : least <= n
    <2> DEFINE T == Nat \ S
    <2>1. T \subseteq Nat /\ T # {}  OBVIOUS
    <2> HIDE DEF T
    <2>2. \E least \in T : \A n \in T : least <= n  BY <2>1, LeastNumber
    <2> QED  BY <2>2 DEF T
  <1>2. least - 1 \in Nat /\ least - 1 \in S  BY <1>1
  <1>3. (least - 1) + 1 = least  BY <1>1
  <1> QED  BY <1>1, <1>2, <1>3

\* f is defined on 0 .. N by recursion: from base, by the i-th step.
IsRecursive(f, N, V, base, step) ==
    f \in [0 .. N -> V] /\ f[0] = base /\ \A i \in 1 .. N : f[i] = step[i][f[i - 1]]

StaysIn(step, N, V) == \A i \in 1 .. N : \A v \in V : step[i][v] \in V

\* Such a function exists.
LEMMA RecursionExists ==
    ASSUME NEW N \in Nat, NEW V, NEW base \in V, NEW step, StaysIn(step, N, V)
    PROVE  \E f : IsRecursive(f, N, V, base, step)
  <1> DEFINE UpTo(n) == \E f \in [0 .. n -> V] :
                            f[0] = base /\ \A i \in 1 .. n : f[i] = step[i][f[i - 1]]
             S == {n \in Nat : n <= N => UpTo(n)}
  <1>1. 0 \in S
    <2>1. UpTo(0)
      <3> DEFINE f == [i \in 0 .. 0 |-> base]
      <3>1. f \in [0 .. 0 -> V] /\ f[0] = base /\ 1 .. 0 = {}  OBVIOUS
      <3> HIDE DEF f
      <3> QED  BY <3>1
    <2> QED  BY <2>1
  <1>2. ASSUME NEW n \in Nat, n \in S PROVE n + 1 \in S
    <2>1. CASE n + 1 <= N
      <3>1. PICK f \in [0 .. n -> V] : f[0] = base /\ \A i \in 1 .. n : f[i] = step[i][f[i - 1]]
        BY <1>2, <2>1
      <3> DEFINE g == [i \in 0 .. n + 1 |-> IF i <= n THEN f[i] ELSE step[i][f[i - 1]]]
      <3>2. f[n] \in V  OBVIOUS
      <3>3. step[n + 1][f[n]] \in V  BY <2>1, <3>2 DEF StaysIn
      <3>4. ASSUME NEW i \in 0 .. n + 1 PROVE g[i] \in V
        BY <3>3
      <3>5. g \in [0 .. n + 1 -> V]  BY <3>4
      <3>6. g[0] = base  BY <3>1
      <3>7. ASSUME NEW i \in 1 .. n + 1 PROVE g[i] = step[i][g[i - 1]]
        <4>1. g[i - 1] = f[i - 1]  OBVIOUS
        <4> QED  BY <3>1, <4>1
      <3> HIDE DEF g
      <3>8. UpTo(n + 1)  BY <3>5, <3>6, <3>7
      <3> QED  BY <3>8
    <2>2. CASE ~(n + 1 <= N)  BY <2>2
    <2> QED  BY <2>1, <2>2
  <1> HIDE DEF S
  <1>3. N \in S  BY <1>1, <1>2, NumberInduction
  <1> QED  BY <1>3 DEF S, IsRecursive

=============================================================================
