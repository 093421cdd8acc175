-------------------------------- MODULE Descent --------------------------------
(***************************************************************************)
(* Induction without a predicate for a parameter: a set of numbers has a   *)
(* smallest, and one that has 0 and with each number the next has all.     *)
(* From this come the recursive functions over 0 .. m: they exist, and two *)
(* of them that start and go on alike are equal as far as both go.         *)
(***************************************************************************)
EXTENDS Integers, WellFoundedInduction, TLAPS

Below == {ss \in Nat \X Nat : ss[1] < ss[2]}

LEMMA BelowWellFounded == IsWellFoundedOn(Below, Nat)
<1>1. Below = OpToRel(<, Nat)
  BY DEF Below, OpToRel
<1> QED BY <1>1, NatLessThanWellFounded

LEMMA Smallest == ASSUME NEW T, T \subseteq Nat, T # {} PROVE \E x \in T : \A y \in T : x <= y
<1>1. PICK x \in T : \A y \in T : ~ (<<y, x>> \in Below)
  BY BelowWellFounded, WFMin
<1>2. ASSUME NEW y \in T PROVE x <= y
  <2>1. x \in Nat /\ y \in Nat
    OBVIOUS
  <2>2. y < x => <<y, x>> \in Below
    BY <2>1 DEF Below
  <2> QED BY <1>1, <2>1, <2>2, SMT
<1> QED BY <1>2

LEMMA Largest == ASSUME NEW k \in Nat, NEW T, T \subseteq 1 .. k, T # {} PROVE \E x \in T : \A y \in T : y <= x
<1> DEFINE U == {k - x : x \in T}
<1>1. U \subseteq Nat
  BY SMT
<1>2. U # {}
  OBVIOUS
<1>3. PICK u \in U : \A w \in U : u <= w
  BY <1>1, <1>2, Smallest
<1>4. PICK x \in T : u = k - x
  BY <1>3
<1>5. ASSUME NEW y \in T PROVE y <= x
  <2>1. k - y \in U
    OBVIOUS
  <2> QED BY <2>1, <1>3, <1>4, SMT
<1> QED BY <1>5

LEMMA AllNumbers == ASSUME NEW T, 0 \in T, \A k \in Nat : k \in T => k + 1 \in T PROVE \A k \in Nat : k \in T
<1> DEFINE U == Nat \ T
<1>1. ASSUME U # {} PROVE FALSE
  <2>1. PICK x \in U : \A y \in U : x <= y
    BY <1>1, Smallest
  <2>2. x \in Nat /\ x # 0 /\ x \notin T
    OBVIOUS
  <2>3. x - 1 \in Nat /\ x - 1 + 1 = x /\ ~ (x <= x - 1)
    BY <2>2, SMT
  <2>4. x - 1 \in T
    BY <2>1, <2>3
  <2> QED BY <2>2, <2>3, <2>4
<1> QED BY <1>1
-----------------------------------------------------------------------------
\* f starts with a and goes on as step says.
Row(f, m, a, step) == f = [k \in 0 .. m |-> IF k = 0 THEN a ELSE step[<<k, f[k - 1]>>]]

LEMMA RowSteps ==
  ASSUME NEW m \in Nat, NEW a, NEW step, NEW f, Row(f, m, a, step)
  PROVE  f[0] = a /\ \A k \in 1 .. m : f[k] = step[<<k, f[k - 1]>>]
<1>1. 0 \in 0 .. m /\ \A k \in 1 .. m : k \in 0 .. m /\ k # 0
  BY SMT
<1> DEFINE g == [k \in 0 .. m |-> IF k = 0 THEN a ELSE step[<<k, f[k - 1]>>]]
<1>2. f = g
  BY DEF Row
<1>3. g[0] = a /\ \A k \in 1 .. m : g[k] = step[<<k, f[k - 1]>>]
  BY <1>1
<1> HIDE DEF g
<1> QED BY <1>2, <1>3

LEMMA RowsAgree ==
  ASSUME NEW m \in Nat, NEW n \in Nat, NEW a, NEW step, NEW f, NEW g, Row(f, m, a, step), Row(g, n, a, step)
  PROVE  \A k \in Nat : k <= m /\ k <= n => f[k] = g[k]
<1> DEFINE T == {k \in Nat : k <= m /\ k <= n => f[k] = g[k]}
<1>1. 0 \in T
  BY RowSteps
<1>2. ASSUME NEW k \in Nat, k \in T PROVE k + 1 \in T
  <2>1. SUFFICES ASSUME k + 1 <= m, k + 1 <= n PROVE f[k + 1] = g[k + 1]
    OBVIOUS
  <2>2. k + 1 \in 1 .. m /\ k + 1 \in 1 .. n /\ k + 1 - 1 = k /\ k <= m /\ k <= n
    BY <2>1, SMT
  <2>3. f[k] = g[k]
    BY <1>2, <2>2
  <2>4. f[k + 1] = step[<<k + 1, f[k + 1 - 1]>>] /\ g[k + 1] = step[<<k + 1, g[k + 1 - 1]>>]
    BY <2>2, RowSteps
  <2> QED BY <2>2, <2>3, <2>4
<1> HIDE DEF T
<1>3. \A k \in Nat : k \in T
  BY <1>1, <1>2, AllNumbers
<1> QED BY <1>3 DEF T

LEMMA RowExists == ASSUME NEW a, NEW step PROVE \A m \in Nat : \E f : Row(f, m, a, step)
<1> DEFINE T == {m \in Nat : \E f : Row(f, m, a, step)}
<1>1. 0 \in T
  <2> DEFINE f == [k \in 0 .. 0 |-> a]
  <2>1. \A k \in 0 .. 0 : k = 0
    BY SMT
  <2>2. Row(f, 0, a, step)
    BY <2>1 DEF Row
  <2> QED BY <2>2
<1>2. ASSUME NEW m \in Nat, m \in T PROVE m + 1 \in T
  <2>1. PICK f : Row(f, m, a, step)
    BY <1>2
  <2> DEFINE g == [k \in 0 .. m + 1 |-> IF k = m + 1 THEN step[<<m + 1, f[m]>>] ELSE f[k]]
             h == [k \in 0 .. m + 1 |-> IF k = 0 THEN a ELSE step[<<k, g[k - 1]>>]]
  <2>2. ASSUME NEW k \in 0 .. m + 1 PROVE g[k] = h[k]
    <3>1. CASE k = 0
      <4>1. g[0] = f[0]
        BY SMT
      <4> QED BY <2>1, <3>1, <4>1, RowSteps
    <3>2. CASE k = m + 1
      <4>1. k # 0 /\ k - 1 = m /\ m \in 0 .. m + 1 /\ m # m + 1
        BY <3>2, SMT
      <4> QED BY <3>2, <4>1
    <3>3. CASE k # 0 /\ k # m + 1
      <4>1. k \in 1 .. m /\ k - 1 \in 0 .. m + 1 /\ k - 1 # m + 1
        BY <3>3, SMT
      <4>2. f[k] = step[<<k, f[k - 1]>>]
        BY <2>1, <4>1, RowSteps
      <4> QED BY <3>3, <4>1, <4>2
    <3> QED BY <3>1, <3>2, <3>3
  <2>3. g = h
    BY <2>2
  <2> HIDE DEF g
  <2>4. Row(g, m + 1, a, step)
    BY <2>3 DEF Row
  <2> QED BY <2>4
<1> HIDE DEF T
<1>3. \A m \in Nat : m \in T
  BY <1>1, <1>2, AllNumbers
<1> QED BY <1>3 DEF T
=============================================================================
