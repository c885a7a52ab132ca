--------------------------------- MODULE Loops ---------------------------------
(***************************************************************************)
(* What a loop of the code keeps, by induction.  Such a loop is modelled   *)
(* by a recursive function f over the number of turns, f[0] where it       *)
(* starts.  P[n] is the set of what may be the case after n turns.         *)
(***************************************************************************)
EXTENDS Integers, WellFoundedInduction, TLAPS

LEMMA LeastExists ==
    ASSUME NEW T, T \subseteq Nat, T # {}
    PROVE  \E x \in T : \A y \in T : x <= y
<1> DEFINE R == {ss \in Nat \X Nat : ss[1] < ss[2]}
<1>1. IsWellFoundedOn(R, Nat)
  BY NatLessThanWellFounded DEF OpToRel
<1>2. PICK x \in T : \A y \in T : ~(<<y, x>> \in R)
  <2> HIDE DEF R
  <2> QED
    BY <1>1, WFMin, Zenon
<1>3. \A y \in T : x <= y
  <2> TAKE y \in T
  <2>1. x \in Nat /\ y \in Nat /\ ~(<<y, x>> \in R)
    BY <1>2
  <2>2. ~(y < x)
    BY <2>1
  <2> QED
    BY <2>1, <2>2
<1> QED
  BY <1>3

\* Induction over the natural numbers, for a set: of all that are not in it,
\* one would be the least
LEMMA SetInduction ==
    ASSUME NEW S, 0 \in S, \A n \in Nat : n \in S => n + 1 \in S
    PROVE  Nat \subseteq S
<1> DEFINE T == Nat \ S
<1> SUFFICES ASSUME T # {} PROVE FALSE
  OBVIOUS
<1>1. PICK x \in T : \A y \in T : x <= y
  <2> HIDE DEF T
  <2>1. T \subseteq Nat
    BY DEF T
  <2> QED
    BY <2>1, LeastExists
<1>2. x \in Nat /\ x # 0 /\ x - 1 \in Nat
  OBVIOUS
<1>3. x - 1 \in S
  BY <1>1, <1>2
<1> QED
  BY <1>2, <1>3

\* A loop that takes what is in P[n - 1] to what is in P[n] ends in the last
LEMMA LoopKeeps ==
    ASSUME NEW N \in Nat, NEW P, NEW f, f[0] \in P[0],
           \A n \in 1 .. N : f[n - 1] \in P[n - 1] => f[n] \in P[n]
    PROVE  f[N] \in P[N]
<1> DEFINE S == {n \in Nat : n <= N => f[n] \in P[n]}
<1>1. 0 \in S
  OBVIOUS
<1>2. ASSUME NEW n \in Nat, n \in S PROVE n + 1 \in S
  <2>1. CASE n + 1 <= N
    <3>1. n <= N /\ n + 1 \in 1 .. N /\ (n + 1) - 1 = n
      BY <2>1
    <3>2. f[n] \in P[n]
      BY <1>2, <3>1
    <3>3. f[n + 1] \in P[n + 1]
      BY <3>1, <3>2
    <3> QED
      BY <3>3
  <2> QED
    BY <2>1
<1> HIDE DEF S
<1>3. Nat \subseteq S
  BY <1>1, <1>2, SetInduction
<1> QED
  BY <1>3 DEF S

\* F[n] takes what is in P[n - 1] to what is in P[n]; g holds what a loop of
\* these computes from a
StepsTo(N, U, P, F) ==
    /\ P \in [0 .. N -> SUBSET U]
    /\ \A n \in 1 .. N : \A x \in P[n - 1] : F[n][x] \in P[n]
Computes(N, P, F, a, g) ==
    /\ g[0] = a
    /\ \A n \in 1 .. N : g[n] = F[n][g[n - 1]]
    /\ \A n \in 0 .. N : g[n] \in P[n]

\* There is such a loop: what it computes is defined
LEMMA LoopExists ==
    ASSUME NEW N \in Nat, NEW U, NEW P, NEW F, NEW a, a \in P[0], StepsTo(N, U, P, F)
    PROVE  \E g \in [0 .. N -> U] : Computes(N, P, F, a, g)
<1> DEFINE Loop(n, g) == /\ g \in [0 .. n -> U] /\ g[0] = a
                         /\ \A i \in 1 .. n : g[i] = F[i][g[i - 1]]
                         /\ \A i \in 0 .. n : g[i] \in P[i]
           S == {n \in Nat : n <= N => \E g \in [0 .. n -> U] : Loop(n, g)}
<1>1. /\ P \in [0 .. N -> SUBSET U]
      /\ \A n \in 1 .. N : \A x \in P[n - 1] : F[n][x] \in P[n]
  BY DEF StepsTo
<1>2. 0 \in S
  <2> DEFINE g == [i \in 0 .. 0 |-> a]
  <2>1. g \in [0 .. 0 -> U] /\ Loop(0, g)
    BY <1>1
  <2> QED
    BY <2>1
<1>3. ASSUME NEW n \in Nat, n \in S PROVE n + 1 \in S
  <2> SUFFICES ASSUME n + 1 <= N
               PROVE  \E g \in [0 .. n + 1 -> U] : Loop(n + 1, g)
    OBVIOUS
  <2>1. n <= N /\ n + 1 \in 1 .. N /\ (n + 1) - 1 = n
    OBVIOUS
  <2>2. PICK g \in [0 .. n -> U] : Loop(n, g)
    BY <1>3, <2>1
  <2> DEFINE k == [i \in 0 .. n + 1 |-> IF i = n + 1 THEN F[n + 1][g[n]] ELSE g[i]]
  <2>3. g[n] \in P[n]
    BY <2>2
  <2>4. F[n + 1][g[n]] \in P[n + 1]
    BY <1>1, <2>1, <2>3
  <2>5. F[n + 1][g[n]] \in U
    BY <1>1, <2>1, <2>4
  <2>6. \A i \in 0 .. n : i \in 0 .. n + 1 /\ i # n + 1 /\ k[i] = g[i]
    OBVIOUS
  <2>7. k[n + 1] = F[n + 1][g[n]]
    OBVIOUS
  <2>8. k \in [0 .. n + 1 -> U]
    BY <2>5
  <2> HIDE DEF k
  <2>9. k[0] = a
    BY <2>2, <2>6
  <2>10. \A i \in 1 .. n + 1 : k[i] = F[i][k[i - 1]]
    <3> TAKE i \in 1 .. n + 1
    <3>1. CASE i = n + 1
      BY <2>1, <2>6, <2>7, <3>1
    <3>2. CASE i # n + 1
      <4>1. i \in 1 .. n /\ i \in 0 .. n /\ i - 1 \in 0 .. n
        BY <3>2
      <4> QED
        BY <2>2, <2>6, <4>1
    <3> QED
      BY <3>1, <3>2
  <2>11. \A i \in 0 .. n + 1 : k[i] \in P[i]
    <3> TAKE i \in 0 .. n + 1
    <3>1. CASE i = n + 1
      BY <2>4, <2>7, <3>1
    <3>2. CASE i # n + 1
      <4>1. i \in 0 .. n
        BY <3>2
      <4> QED
        BY <2>2, <2>6, <4>1
    <3> QED
      BY <3>1, <3>2
  <2> QED
    BY <2>8, <2>9, <2>10, <2>11
<1> HIDE DEF S
<1>4. Nat \subseteq S
  BY <1>2, <1>3, SetInduction
<1>5. \E g \in [0 .. N -> U] : Loop(N, g)
  <2>1. N \in S /\ N <= N
    BY <1>4
  <2> HIDE DEF Loop
  <2> QED
    BY <2>1, Zenon DEF S
<1> QED
  BY <1>5 DEF Computes

\* The same where P does not change from turn to turn
LEMMA LoopStays ==
    ASSUME NEW N \in Nat, NEW P, NEW f, f[0] \in P,
           \A n \in 1 .. N : f[n - 1] \in P => f[n] \in P
    PROVE  f[N] \in P
<1> DEFINE Q == [n \in 0 .. N |-> P]
<1>1. f[0] \in Q[0] /\ Q[N] = P
  OBVIOUS
<1>2. \A n \in 1 .. N : Q[n - 1] = P /\ Q[n] = P
  OBVIOUS
<1> HIDE DEF Q
<1>3. f[N] \in Q[N]
  BY <1>1, <1>2, LoopKeeps
<1> QED
  BY <1>1, <1>3

Stays(N, P, F) == \A n \in 1 .. N : \A x \in P : F[n][x] \in P
Repeats(N, F, a, g) == g[0] = a /\ \A n \in 1 .. N : g[n] = F[n][g[n - 1]]

LEMMA RepeatExists ==
    ASSUME NEW N \in Nat, NEW P, NEW F, NEW a \in P, Stays(N, P, F)
    PROVE  \E g \in [0 .. N -> P] : Repeats(N, F, a, g)
<1> DEFINE Q == [n \in 0 .. N |-> P]
<1>1. a \in Q[0] /\ Q \in [0 .. N -> SUBSET P]
  OBVIOUS
<1>2. \A n \in 1 .. N : Q[n - 1] = P /\ Q[n] = P
  OBVIOUS
<1> HIDE DEF Q
<1>3. StepsTo(N, P, Q, F)
  BY <1>1, <1>2 DEF StepsTo, Stays
<1>4. PICK g \in [0 .. N -> P] : Computes(N, Q, F, a, g)
  BY <1>1, <1>3, LoopExists
<1> QED
  BY <1>4 DEF Computes, Repeats

=============================================================================
