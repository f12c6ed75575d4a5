------------------------------ MODULE Induction ------------------------------
(***************************************************************************)
(* Induction over the natural numbers for the functions that the models    *)
(* define by recursion.  A predicate to be proved by induction is given as *)
(* the set of the numbers it holds of, and what one step of a recursion    *)
(* computes as a function.                                                 *)
(***************************************************************************)
EXTENDS Naturals, Sequences, WellFoundedInduction, TLAPS

\* A set of natural numbers that is not empty has a smallest element.
LEMMA Smallest ==
  ASSUME NEW T, T \subseteq Nat, T # {}
  PROVE  \E n \in T : \A m \in T : n <= m
  <1> DEFINE Less == {ss \in Nat \X Nat : ss[1] < ss[2]}
  <1>1. IsWellFoundedOn(OpToRel(<, Nat), Nat)
    BY NatLessThanWellFounded
  <1>2. OpToRel(<, Nat) = Less
    BY DEF OpToRel
  <1>3. IsWellFoundedOn(Less, Nat)
    BY <1>1, <1>2
  <1> HIDE DEF Less
  <1>4. PICK n \in T : \A m \in T : ~(<<m, n>> \in Less)
    BY <1>3, WFMin
  <1>5. ASSUME NEW m \in T PROVE n <= m
    <2>1. n \in Nat /\ m \in Nat
      OBVIOUS
    <2>2. <<m, n>> \in Nat \X Nat /\ <<m, n>>[1] = m /\ <<m, n>>[2] = n
      BY <2>1
    <2>3. ~(<<m, n>>[1] < <<m, n>>[2])
      BY <1>4, <2>2 DEF Less
    <2> QED
      BY <2>1, <2>2, <2>3
  <1> QED
    BY <1>5

\* A set with 0 and the successor of each of its numbers has all numbers.
LEMMA AllNumbers ==
  ASSUME NEW T, 0 \in T, \A n \in Nat : n \in T => n + 1 \in T
  PROVE  Nat \subseteq T
  <1> SUFFICES ASSUME Nat \ T # {} PROVE FALSE
    OBVIOUS
  <1>1. PICK n \in Nat \ T : \A m \in Nat \ T : n <= m
    BY Smallest
  <1>2. n - 1 \in Nat /\ (n - 1) + 1 = n /\ ~(n <= n - 1)
    OBVIOUS
  <1>3. n - 1 \in T
    BY <1>1, <1>2
  <1> QED
    BY <1>2, <1>3

\* The same for the numbers up to n.
LEMMA NumbersUpTo ==
  ASSUME NEW n \in Nat, NEW T, 0 \in T,
         \A i \in 1 .. n : i - 1 \in T => i \in T
  PROVE  0 .. n \subseteq T
  <1> SUFFICES ASSUME (0 .. n) \ T # {} PROVE FALSE
    OBVIOUS
  <1>1. PICK i \in (0 .. n) \ T : \A m \in (0 .. n) \ T : i <= m
    <2>1. (0 .. n) \ T \subseteq Nat
      OBVIOUS
    <2> QED
      BY <2>1, Smallest
  <1>2. i \in 1 .. n /\ i - 1 \in 0 .. n /\ ~(i <= i - 1)
    OBVIOUS
  <1>3. i - 1 \in T
    BY <1>1, <1>2
  <1> QED
    BY <1>2, <1>3

\* f has the value base at 0, and step[i] makes its value at i out of the one
\* before.
Solves(f, n, V, base, step) ==
  /\ f \in [0 .. n -> V]
  /\ f[0] = base
  /\ \A i \in 1 .. n : f[i] = step[i][f[i - 1]]

\* A recursion over 0 .. n whose steps take values of V to values of V has a
\* solution.
LEMMA Recursion ==
  ASSUME NEW n \in Nat, NEW V, NEW base \in V,
         NEW step \in [1 .. n -> [V -> V]]
  PROVE  \E f : Solves(f, n, V, base, step)
  <1> DEFINE Solved == {k \in 0 .. n : \E f : Solves(f, k, V, base, step)}
  <1>1. 0 \in Solved
    <2> DEFINE f == [k \in 0 .. 0 |-> base]
    <2>1. Solves(f, 0, V, base, step)
      BY DEF Solves
    <2> HIDE DEF f
    <2> QED
      BY <2>1
  <1>2. ASSUME NEW k \in 1 .. n, k - 1 \in Solved PROVE k \in Solved
    <2>1. PICK g : Solves(g, k - 1, V, base, step)
      BY <1>2
    <2> DEFINE f == [i \in 0 .. k |-> IF i = k THEN step[k][g[k - 1]] ELSE g[i]]
    <2>2. k - 1 \in 0 .. k - 1 /\ g \in [0 .. k - 1 -> V] /\ step[k] \in [V -> V]
      BY <2>1 DEF Solves
    <2>3. f \in [0 .. k -> V]
      BY <2>2
    <2>4. f[0] = base
      BY <2>1 DEF Solves
    <2>5. ASSUME NEW i \in 1 .. k PROVE f[i] = step[i][f[i - 1]]
      <3>1. i - 1 \in 0 .. k /\ i - 1 # k /\ f[i - 1] = g[i - 1]
        OBVIOUS
      <3>2. CASE i = k
        BY <3>1, <3>2
      <3>3. CASE i # k
        BY <2>1, <3>1, <3>3 DEF Solves
      <3> QED
        BY <3>2, <3>3
    <2> HIDE DEF f
    <2>6. Solves(f, k, V, base, step)
      BY <2>3, <2>4, <2>5 DEF Solves
    <2> QED
      BY <2>6
  <1>3. n \in Solved
    <2> HIDE DEF Solved
    <2>1. 0 .. n \subseteq Solved
      BY <1>1, <1>2, NumbersUpTo
    <2> QED
      BY <2>1
  <1> QED
    BY <1>3

\* What a recursion over 0 .. n begins with and each of its steps keeps.
LEMMA StaysIn ==
  ASSUME NEW n \in Nat, NEW V, NEW u, u[0] \in V,
         \A i \in 1 .. n : u[i - 1] \in V => u[i] \in V
  PROVE  \A i \in 0 .. n : u[i] \in V
  <1> DEFINE T == {i \in 0 .. n : u[i] \in V}
  <1>1. 0 \in T
    OBVIOUS
  <1>2. ASSUME NEW i \in 1 .. n, i - 1 \in T PROVE i \in T
    BY <1>2
  <1> HIDE DEF T
  <1>3. 0 .. n \subseteq T
    BY <1>1, <1>2, NumbersUpTo
  <1> QED
    BY <1>3 DEF T
=============================================================================
