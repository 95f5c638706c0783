----------------------------- MODULE Induction -----------------------------
(***************************************************************************)
(* Induction over the natural numbers, and functions defined by recursion, *)
(* in a form the provers can use: about sets and functions, where the      *)
(* library's theorems are about operators.                                 *)
(***************************************************************************)
EXTENDS Integers, WellFoundedInduction, TLAPS

\* Numbers are well-founded: every set of them that is not empty has a least
\* member.
LEMMA Least ==
    ASSUME NEW T, T \subseteq Nat, T # {}
    PROVE  \E x \in T : \A y \in T : x <= y
<1> DEFINE R == OpToRel(<, Nat)
<1>1. IsWellFoundedOn(R, Nat)
  BY NatLessThanWellFounded
<1>2. \A x, y \in Nat : x < y => <<x, y>> \in R
  BY DEF OpToRel
<1> HIDE DEF R
<1>3. PICK x \in T : \A y \in T : ~ (<<y, x>> \in R)
  BY <1>1, WFMin
<1>4. ASSUME NEW y \in T PROVE x <= y
  <2>1. x \in Nat /\ y \in Nat
    OBVIOUS
  <2>2. ~ (y < x)
    BY <1>2, <1>3, <2>1
  <2> QED
    BY <2>1, <2>2
<1> QED
  BY <1>4

\* A set of numbers that is bounded has a greatest member.
LEMMA Greatest ==
    ASSUME NEW T, T \subseteq Nat, T # {}, NEW n \in Nat, \A x \in T : x <= n
    PROVE  \E x \in T : \A y \in T : x >= y
<1> DEFINE U == {n - x : x \in T}
<1>1. U \subseteq Nat /\ U # {}
  <2>1. \A x \in T : n - x \in Nat
    OBVIOUS
  <2> QED
    BY <2>1
<1>2. PICK u \in U : \A v \in U : u <= v
  <2> HIDE DEF U
  <2> QED
    BY <1>1, Least
<1>3. PICK x \in T : u = n - x
  OBVIOUS
<1>4. ASSUME NEW y \in T PROVE x >= y
  <2>1. n - y \in U
    OBVIOUS
  <2>2. n - x <= n - y /\ x \in Nat /\ y \in Nat
    BY <1>2, <1>3, <2>1
  <2> QED
    BY <2>2
<1> QED
  BY <1>4

\* What holds of 0, and of n + 1 when it holds of n, holds of all numbers up
\* to any bound.
LEMMA Induct ==
    ASSUME NEW N \in Nat, NEW S, 0 \in S,
           \A n \in 0 .. N - 1 : n \in S => n + 1 \in S
    PROVE  0 .. N \subseteq S
<1> DEFINE T == {n \in 0 .. N : n \notin S}
<1>1. SUFFICES ASSUME T # {} PROVE FALSE
  OBVIOUS
<1>2. T \subseteq Nat
  OBVIOUS
<1>3. PICK x \in T : \A y \in T : x <= y
  <2> HIDE DEF T
  <2> QED
    BY <1>1, <1>2, Least
<1>4. x \in 0 .. N /\ x # 0 /\ x \notin S
  OBVIOUS
<1>5. x - 1 \in 0 .. N - 1 /\ x - 1 \notin T
  BY <1>3, <1>4
<1>6. x - 1 \in S
  BY <1>5
<1>7. x - 1 + 1 \in S
  BY <1>5, <1>6
<1> QED
  BY <1>4, <1>7

\* A function whose next value is computed from the one before.
Steps(step, N, S)      == step \in [1 .. N -> [S -> S]]
Runs(f, N, base, step) == /\ f[0] = base
                          /\ \A k \in 1 .. N : f[k] = step[k][f[k - 1]]

\* It exists.
LEMMA Recursion ==
    ASSUME NEW N \in Nat, NEW S, NEW base \in S, NEW step, Steps(step, N, S)
    PROVE  \E f \in [0 .. N -> S] : Runs(f, N, base, step)
<1> DEFINE Good(n, f) == /\ f \in [0 .. n -> S] /\ f[0] = base
                         /\ \A k \in 1 .. n : f[k] = step[k][f[k - 1]]
           G == {n \in 0 .. N : \E f \in [0 .. n -> S] : Good(n, f)}
<1>0. step \in [1 .. N -> [S -> S]]
  BY DEF Steps
<1>1. 0 \in G
  <2> DEFINE f == [k \in 0 .. 0 |-> base]
  <2>1. Good(0, f)
    OBVIOUS
  <2>2. f \in [0 .. 0 -> S] /\ 0 \in 0 .. N
    OBVIOUS
  <2> HIDE DEF f, Good
  <2> QED
    BY <2>1, <2>2
<1>2. ASSUME NEW n \in 0 .. N - 1, n \in G PROVE n + 1 \in G
  <2>1. PICK f \in [0 .. n -> S] : Good(n, f)
    BY <1>2
  <2> DEFINE x == step[n + 1][f[n]]
             g == [k \in 0 .. n + 1 |-> IF k = n + 1 THEN x ELSE f[k]]
  <2>2. x \in S
    BY <1>0
  <2>3. g \in [0 .. n + 1 -> S] /\ g[0] = base
    BY <2>1, <2>2
  <2>4. ASSUME NEW k \in 1 .. n + 1 PROVE g[k] = step[k][g[k - 1]]
    <3>1. k - 1 \in 0 .. n /\ g[k - 1] = f[k - 1]
      OBVIOUS
    <3>2. CASE k = n + 1
      BY <3>1, <3>2
    <3>3. CASE k # n + 1
      BY <2>1, <3>1, <3>3
    <3> QED
      BY <3>2, <3>3
  <2> HIDE DEF g
  <2>5. Good(n + 1, g)
    BY <2>3, <2>4
  <2>6. n + 1 \in 0 .. N
    OBVIOUS
  <2> QED
    BY <2>3, <2>5, <2>6
<1>3. N \in G
  <2> HIDE DEF G
  <2>1. \A n \in 0 .. N - 1 : n \in G => n + 1 \in G
    BY <1>2
  <2>2. 0 .. N \subseteq G
    BY <1>1, <2>1, Induct
  <2> QED
    BY <2>2
<1> QED
  BY <1>3 DEF Runs

\* Two runs that begin alike are alike as far as their steps are.
LEMMA RunsAgree ==
    ASSUME NEW N \in Nat, NEW M \in Nat, NEW K \in Nat, K <= N, K <= M,
           NEW f, NEW g, NEW base, NEW s, NEW t,
           Runs(f, N, base, s), Runs(g, M, base, t),
           \A k \in 1 .. K : s[k] = t[k]
    PROVE  f[K] = g[K]
<1> DEFINE G == {k \in 0 .. K : f[k] = g[k]}
<1>1. 0 \in G
  BY DEF Runs
<1>2. ASSUME NEW n \in 0 .. K - 1, n \in G PROVE n + 1 \in G
  <2>1. n + 1 \in 1 .. N /\ n + 1 \in 1 .. M /\ n + 1 \in 1 .. K /\ n + 1 - 1 = n
    OBVIOUS
  <2>2. f[n + 1] = s[n + 1][f[n]] /\ g[n + 1] = t[n + 1][g[n]]
    BY <2>1 DEF Runs
  <2>3. s[n + 1] = t[n + 1] /\ f[n] = g[n]
    BY <1>2, <2>1
  <2>4. n + 1 \in 0 .. K
    BY <2>1
  <2> QED
    BY <2>2, <2>3, <2>4
<1>3. 0 .. K \subseteq G
  <2> HIDE DEF G
  <2> QED
    BY <1>1, <1>2, Induct
<1> QED
  BY <1>3

\* A run goes on from its first step as the run of the steps that remain.
Shifts(f, N, g, M, K, base, s, t) ==
    /\ K < N /\ Runs(f, N, base, s)
    /\ K <= M /\ Runs(g, M, s[1][base], t)
    /\ \A k \in 1 .. K : t[k] = s[k + 1]

\* So the value after K steps of the shorter run is that after K + 1 of the longer.
LEMMA RunsShift ==
    ASSUME NEW N \in Nat, NEW M \in Nat, NEW K \in Nat, NEW f, NEW g, NEW base,
           NEW s, NEW t, Shifts(f, N, g, M, K, base, s, t)
    PROVE  g[K] = f[K + 1]
<1>0. /\ K < N /\ Runs(f, N, base, s)
      /\ K <= M /\ Runs(g, M, s[1][base], t)
      /\ \A k \in 1 .. K : t[k] = s[k + 1]
  BY DEF Shifts
<1> DEFINE G == {k \in 0 .. K : g[k] = f[k + 1]}
<1>1. 0 \in G
  <2>1. 1 \in 1 .. N /\ 1 - 1 = 0 /\ 0 + 1 = 1 /\ 0 \in 0 .. K
    BY <1>0
  <2>2. f[1] = s[1][f[0]] /\ f[0] = base /\ g[0] = s[1][base]
    BY <1>0, <2>1 DEF Runs
  <2> QED
    BY <2>1, <2>2
<1>2. ASSUME NEW n \in 0 .. K - 1, n \in G PROVE n + 1 \in G
  <2>1. /\ n + 1 \in 1 .. M /\ n + 1 \in 1 .. K /\ n + 1 - 1 = n
        /\ n + 1 + 1 \in 1 .. N /\ n + 1 + 1 - 1 = n + 1
    BY <1>0
  <2>2. g[n + 1] = t[n + 1][g[n]] /\ f[n + 1 + 1] = s[n + 1 + 1][f[n + 1]]
    BY <1>0, <2>1 DEF Runs
  <2>3. t[n + 1] = s[n + 1 + 1] /\ g[n] = f[n + 1]
    BY <1>0, <1>2, <2>1
  <2>4. n + 1 \in 0 .. K
    BY <2>1
  <2> QED
    BY <2>2, <2>3, <2>4
<1>3. 0 .. K \subseteq G
  <2> HIDE DEF G
  <2> QED
    BY <1>1, <1>2, Induct
<1>4. K \in G
  BY <1>3
<1> QED
  BY <1>4
=============================================================================
