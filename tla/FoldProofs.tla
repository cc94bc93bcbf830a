----------------------------- MODULE FoldProofs -----------------------------
(***************************************************************************)
(* What FoldLeft of SequencesExt computes, for any operator Op: the last   *)
(* value of a run that takes the elements one by one.  A module that folds *)
(* with an operator of its own takes these facts by INSTANCE.  Induction   *)
(* over the numbers is stated for sets of them (Induction), from which     *)
(* what an operator computes for every sequence can be proved.             *)
(***************************************************************************)
EXTENDS Integers, SequencesExt, WellFoundedInduction, TLAPS

CONSTANT Op(_, _)

Fold(w, s) == FoldLeft(Op, w, s)

Closed(W, J) == \A w \in W, j \in J : Op(w, j) \in W

\* r[k] is what the first k elements of s make of w, up to the n-th.
IsRun(r, n, w, s) == r[0] = w /\ \A k \in 1..n : r[k] = Op(r[k - 1], s[k])

Alike(n, s, t) == \A k \in 1..n : s[k] = t[k]
-----------------------------------------------------------------------------
LEMMA Least ==
    ASSUME NEW S \in SUBSET Nat, S # {}
    PROVE  \E m \in S : \A k \in S : m <= k
<1>1. IsWellFoundedOn(OpToRel(<, Nat), Nat)
  BY NatLessThanWellFounded
<1>2. PICK x \in S : \A y \in S : <<y, x>> \notin OpToRel(<, Nat)
  BY <1>1, WFMin
<1>3. \A y \in S : y \in Nat /\ x \in Nat
  OBVIOUS
<1>4. \A y \in S : ~(y < x)
  BY <1>2, <1>3 DEF OpToRel
<1>. QED
  BY <1>3, <1>4

LEMMA Induction ==
    ASSUME NEW S \in SUBSET Nat, 0 \in S, \A n \in S : n + 1 \in S
    PROVE  S = Nat
<1>. SUFFICES ASSUME S # Nat PROVE FALSE
  OBVIOUS
<1>1. PICK m \in Nat \ S : \A k \in Nat \ S : m <= k
  BY Least
<1>2. m # 0 /\ m - 1 \in Nat
  BY <1>1
<1>3. m - 1 \in S
  BY <1>1, <1>2
<1>. QED
  BY <1>1, <1>3

\* The numbers up to n.
LEMMA InductionUpTo ==
    ASSUME NEW n \in Nat, NEW S, 0 \in S, \A k \in 0..(n - 1) : k \in S => k + 1 \in S
    PROVE  \A k \in 0..n : k \in S
<1>. DEFINE T == {k \in Nat : k <= n => k \in S}
<1>1. T \in SUBSET Nat /\ 0 \in T
  OBVIOUS
<1>2. ASSUME NEW k \in T PROVE k + 1 \in T
  <2>. SUFFICES ASSUME k + 1 <= n PROVE k + 1 \in S
    OBVIOUS
  <2>1. k \in S /\ k \in 0..(n - 1)
    OBVIOUS
  <2>. QED
    BY <2>1
<1>. HIDE DEF T
<1>3. T = Nat
  BY <1>1, <1>2, Induction
<1>. QED
  BY <1>3 DEF T
-----------------------------------------------------------------------------
(* The largest element of a set of positions.                              *)
LEMMA MaxIs ==
    ASSUME NEW m \in Nat, NEW s \in SUBSET (1..m), m \in s
    PROVE  Max(s) = m
<1>1. \A y \in s : m >= y
  OBVIOUS
<1>2. \A x \in s : (\A y \in s : x >= y) => x = m
  <2>. TAKE x \in s
  <2>1. x \in Int /\ m \in Int /\ x <= m
    OBVIOUS
  <2>. QED
    BY <2>1
<1>. QED
  BY <1>1, <1>2 DEF Max

LEMMA MaxIn ==
    ASSUME NEW n \in Nat, NEW s \in SUBSET (1..n), s # {}
    PROVE  Max(s) \in s
<1>. DEFINE S == {n - k : k \in s}
<1>0. \A k \in s : k \in Int /\ n - k \in Nat
  OBVIOUS
<1>1. S \in SUBSET Nat /\ S # {}
  BY <1>0
<1>2. PICK m \in S : \A k \in S : m <= k
  BY <1>1, Least
<1>3. PICK x \in s : m = n - x
  BY <1>2
<1>4. \A y \in s : n - y \in S
  OBVIOUS
<1>5. \A y \in s : n - x <= n - y
  BY <1>2, <1>3, <1>4
<1>6. \A y \in s : x >= y
  BY <1>5
<1>. QED
  BY <1>6 DEF Max
-----------------------------------------------------------------------------
(* FoldLeft is defined by recursion over the sets of positions: that there *)
(* is a function with this definition.                                     *)
IsFold(g, n, w, s) ==
    \A p \in SUBSET (1..n) :
        g[p] = IF p = {} THEN w ELSE Op(g[p \ {Max(p)}], s[Max(p)])

Foldable(n, W, w, s) == \E g \in [SUBSET (1..n) -> W] : IsFold(g, n, w, s)

LEMMA FoldExists ==
    ASSUME NEW J, NEW s \in Seq(J), NEW W, NEW w \in W, Closed(W, J)
    PROVE  Foldable(Len(s), W, w, s)
<1>. DEFINE S == {m \in Nat : Foldable(m, W, w, s)}
<1>n. Len(s) \in Nat
  OBVIOUS
<1>1. 0 \in S
  <2>1. SUBSET (1..0) = {{}}
    OBVIOUS
  <2>. DEFINE g == [p \in SUBSET (1..0) |-> w]
  <2>2. g \in [SUBSET (1..0) -> W] /\ IsFold(g, 0, w, s)
    BY <2>1 DEF IsFold
  <2>. QED
    BY <2>2 DEF Foldable
<1>2. ASSUME NEW m \in 0..(Len(s) - 1), m \in S PROVE m + 1 \in S
  <2>. SUFFICES Foldable(m + 1, W, w, s)
    BY <1>n
  <2>1. PICK f \in [SUBSET (1..m) -> W] : IsFold(f, m, w, s)
    <3>1. Foldable(m, W, w, s)
      BY <1>2
    <3>. QED
      BY <3>1 DEF Foldable
  <2>. DEFINE g == [p \in SUBSET (1..(m + 1)) |->
                       IF m + 1 \in p THEN Op(f[p \ {m + 1}], s[m + 1]) ELSE f[p]]
  <2>m. m \in Nat /\ s[m + 1] \in J
    BY <1>n
  <2>2. \A p \in SUBSET (1..(m + 1)) : p \ {m + 1} \in SUBSET (1..m)
    BY <2>m
  <2>3. \A p \in SUBSET (1..(m + 1)) : m + 1 \notin p => p \in SUBSET (1..m)
    BY <2>2
  <2>4. ASSUME NEW p \in SUBSET (1..(m + 1)) PROVE g[p] \in W
    <3>1. CASE m + 1 \in p
      <4>1. f[p \ {m + 1}] \in W
        BY <2>2, <2>1
      <4>2. Op(f[p \ {m + 1}], s[m + 1]) \in W
        BY <4>1, <2>m DEF Closed
      <4>. QED
        BY <4>2, <3>1
    <3>2. CASE m + 1 \notin p
      BY <3>2, <2>3, <2>1
    <3>. QED
      BY <3>1, <3>2
  <2>5. g \in [SUBSET (1..(m + 1)) -> W]
    BY <2>4
  <2>6. \A p \in SUBSET (1..m) : g[p] = f[p]
    <3>. TAKE p \in SUBSET (1..m)
    <3>1. m + 1 \notin p /\ p \in SUBSET (1..(m + 1))
      BY <2>m
    <3>. QED
      BY <3>1
  <2>7. ASSUME NEW p \in SUBSET (1..(m + 1))
        PROVE  g[p] = IF p = {} THEN w ELSE Op(g[p \ {Max(p)}], s[Max(p)])
    <3>1. CASE m + 1 \in p
      <4>1. Max(p) = m + 1 /\ p # {}
        BY <3>1, MaxIs, <2>m
      <4>2. g[p] = Op(f[p \ {m + 1}], s[m + 1])
        BY <3>1
      <4>3. g[p \ {m + 1}] = f[p \ {m + 1}]
        BY <2>2, <2>6
      <4>. HIDE DEF g
      <4>. QED
        BY <4>1, <4>2, <4>3
    <3>2. CASE m + 1 \notin p
      <4>1. p \in SUBSET (1..m)
        BY <3>2, <2>3
      <4>2. p \ {Max(p)} \in SUBSET (1..m)
        BY <4>1
      <4>3. g[p] = f[p] /\ g[p \ {Max(p)}] = f[p \ {Max(p)}]
        BY <4>1, <4>2, <2>6
      <4>. HIDE DEF g
      <4>. QED
        BY <4>1, <4>3, <2>1 DEF IsFold
    <3>. QED
      BY <3>1, <3>2
  <2>. HIDE DEF g
  <2>8. IsFold(g, m + 1, w, s)
    BY <2>7 DEF IsFold
  <2>. QED
    BY <2>5, <2>8 DEF Foldable
<1>. HIDE DEF S
<1>3. \A m \in 0..(Len(s) - 1) : m \in S => m + 1 \in S
  BY <1>2
<1>4. \A m \in 0..Len(s) : m \in S
  BY <1>n, <1>1, <1>3, InductionUpTo
<1>. QED
  BY <1>n, <1>4 DEF S
-----------------------------------------------------------------------------
\* FoldLeft gives the last value of a run, and every value is of the set W that
\* Op does not leave.
HasRun(W, w, s) ==
    \E r \in [0..Len(s) -> W] : IsRun(r, Len(s), w, s) /\ Fold(w, s) = r[Len(s)]

LEMMA FoldRun ==
    ASSUME NEW J, NEW s \in Seq(J), NEW W, NEW w \in W, Closed(W, J)
    PROVE  HasRun(W, w, s)
<1>. DEFINE n == Len(s)
            D == DOMAIN s
            Iter(g) == g = [p \in SUBSET D |-> IF p = {} THEN w
                              ELSE Op(g[p \ {Max(p)}], s[Max(p)])]
            iter == CHOOSE g : Iter(g)
<1>0. D = 1..n /\ n \in Nat
  OBVIOUS
<1>1. Iter(iter)
  <2>1. PICK g \in [SUBSET (1..n) -> W] : IsFold(g, n, w, s)
    BY FoldExists DEF Foldable
  <2>. HIDE DEF D
  <2>2. Iter(g)
    BY <2>1, <1>0 DEF IsFold
  <2>. QED
    BY <2>2
<1>2. Fold(w, s) = iter[D]
  BY DEF Fold, FoldLeft, MapThenFoldSet
<1>. HIDE DEF iter, D, n
<1>3. iter[{}] = w
  BY <1>1
<1>4. ASSUME NEW k \in 1..n PROVE iter[1..k] = Op(iter[1..(k - 1)], s[k])
  <2>1. 1..k \in SUBSET D /\ k \in 1..k
    BY <1>0
  <2>2. Max(1..k) = k
    BY <1>0, MaxIs
  <2>3. (1..k) \ {k} = 1..(k - 1)
    <3>1. \A x : x \in (1..k) \ {k} <=> x \in 1..(k - 1)
      BY <1>0
    <3>. QED
      BY <3>1
  <2>. QED
    BY <1>1, <2>1, <2>2, <2>3
<1>. DEFINE S == {k \in Nat : iter[1..k] \in W}
<1>5. \A k \in 0..n : k \in S
  <2>1. 0 \in S
    <3>1. 1..0 = {}
      OBVIOUS
    <3>. QED
      BY <1>3, <3>1
  <2>2. ASSUME NEW k \in 0..(n - 1), k \in S PROVE k + 1 \in S
    <3>1. k + 1 \in 1..n /\ (k + 1) - 1 = k /\ k + 1 \in Nat
      BY <1>0
    <3>2. s[k + 1] \in J
      BY <3>1 DEF n
    <3>3. iter[1..(k + 1)] = Op(iter[1..k], s[k + 1])
      BY <3>1, <1>4
    <3>4. iter[1..(k + 1)] \in W
      BY <2>2, <3>2, <3>3 DEF Closed
    <3>. QED
      BY <3>1, <3>4
  <2>. HIDE DEF S
  <2>. QED
    BY <1>0, <2>1, <2>2, InductionUpTo
<1>6. PICK r : r = [k \in 0..n |-> iter[1..k]]
  OBVIOUS
<1>7. r \in [0..n -> W]
  BY <1>5, <1>6
<1>8. r[0] = w
  <2>1. 1..0 = {} /\ 0 \in 0..n
    BY <1>0
  <2>. QED
    BY <1>3, <1>6, <2>1
<1>9. \A k \in 1..n : r[k] = Op(r[k - 1], s[k])
  <2>. TAKE k \in 1..n
  <2>1. k \in 0..n /\ k - 1 \in 0..n
    BY <1>0
  <2>. QED
    BY <1>4, <1>6, <2>1
<1>10. Fold(w, s) = r[n]
  BY <1>0, <1>2, <1>6
<1>. QED
  BY <1>7, <1>8, <1>9, <1>10 DEF HasRun, IsRun, n

\* Op does not leave W, and neither does the fold.
LEMMA FoldIn ==
    ASSUME NEW J, NEW s \in Seq(J), NEW W, NEW w \in W, Closed(W, J)
    PROVE  Fold(w, s) \in W
<1>1. PICK r \in [0..Len(s) -> W] : Fold(w, s) = r[Len(s)]
  BY FoldRun DEF HasRun
<1>2. Len(s) \in 0..Len(s)
  OBVIOUS
<1>. QED
  BY <1>1, <1>2

LEMMA FoldEmpty ==
    ASSUME NEW w PROVE Fold(w, <<>>) = w
<1>1. Closed({w}, {}) /\ <<>> \in Seq({}) /\ w \in {w} /\ Len(<<>>) = 0
  BY DEF Closed
<1>2. PICK r \in [0..0 -> {w}] : Fold(w, <<>>) = r[0]
  BY <1>1, FoldRun DEF HasRun
<1>. QED
  BY <1>2

\* Runs over sequences that begin alike are alike.
LEMMA SameRun ==
    ASSUME NEW n \in Nat, NEW w, NEW s, NEW t, Alike(n, s, t),
           NEW r, NEW q, IsRun(r, n, w, s), IsRun(q, n, w, t)
    PROVE  r[n] = q[n]
<1>. DEFINE S == {k \in Nat : r[k] = q[k]}
<1>1. 0 \in S
  BY DEF IsRun
<1>2. ASSUME NEW k \in 0..(n - 1), k \in S PROVE k + 1 \in S
  <2>1. k + 1 \in 1..n /\ (k + 1) - 1 = k /\ k + 1 \in Nat
    OBVIOUS
  <2>2. r[k] = q[k]
    BY <1>2
  <2>3. r[k + 1] = Op(r[k], s[k + 1]) /\ q[k + 1] = Op(q[k], t[k + 1]) /\ s[k + 1] = t[k + 1]
    BY <2>1 DEF IsRun, Alike
  <2>. QED
    BY <2>1, <2>2, <2>3
<1>. HIDE DEF S
<1>3. \A k \in 0..(n - 1) : k \in S => k + 1 \in S
  BY <1>2
<1>4. \A k \in 0..n : k \in S
  BY <1>1, <1>3, InductionUpTo
<1>. QED
  BY <1>4 DEF S

LEMMA FoldAppend ==
    ASSUME NEW J, NEW s \in Seq(J), NEW j \in J, NEW W, NEW w \in W, Closed(W, J)
    PROVE  Fold(w, Append(s, j)) = Op(Fold(w, s), j)
<1>. DEFINE n == Len(s)
<1>1. PICK t : t = Append(s, j)
  OBVIOUS
<1>2. /\ t \in Seq(J) /\ Len(t) = n + 1 /\ t[n + 1] = j /\ n \in Nat
      /\ Alike(n, t, s)
  BY <1>1 DEF Alike
<1>. HIDE DEF n
<1>3. PICK r \in [0..n -> W] : IsRun(r, n, w, s) /\ Fold(w, s) = r[n]
  BY FoldRun DEF n, HasRun
<1>4. PICK q \in [0..Len(t) -> W] : IsRun(q, Len(t), w, t) /\ Fold(w, t) = q[Len(t)]
  <2>1. HasRun(W, w, t)
    BY <1>2, FoldRun
  <2>. QED
    BY <2>1 DEF HasRun
<1>5. IsRun(q, n, w, t) /\ q[n + 1] = Op(q[n], j)
  BY <1>2, <1>4 DEF IsRun
<1>6. q[n] = r[n]
  BY <1>2, <1>3, <1>5, SameRun
<1>. QED
  BY <1>1, <1>2, <1>3, <1>4, <1>5, <1>6

LEMMA FoldConcat ==
    ASSUME NEW J, NEW s \in Seq(J), NEW t \in Seq(J), NEW W, NEW w \in W, Closed(W, J)
    PROVE  Fold(w, s \o t) = Fold(Fold(w, s), t)
<1>. DEFINE n == Len(s)
            m == Len(t)
<1>1. PICK u : u = s \o t
  OBVIOUS
<1>2. /\ u \in Seq(J) /\ Len(u) = n + m /\ n \in Nat /\ m \in Nat
      /\ Alike(n, u, s)
      /\ \A k \in 1..m : t[k] = u[n + k]
  BY <1>1 DEF Alike
<1>. HIDE DEF n, m
<1>3. PICK r \in [0..n -> W] : IsRun(r, n, w, s) /\ Fold(w, s) = r[n]
  BY FoldRun DEF n, HasRun
<1>4. PICK x \in W : x = r[n]
  BY <1>2, <1>3
<1>5. PICK q \in [0..m -> W] : IsRun(q, m, x, t) /\ Fold(x, t) = q[m]
  BY FoldRun DEF m, HasRun
<1>6. PICK v \in [0..Len(u) -> W] : IsRun(v, Len(u), w, u) /\ Fold(w, u) = v[Len(u)]
  <2>1. HasRun(W, w, u)
    BY <1>2, FoldRun
  <2>. QED
    BY <2>1 DEF HasRun
<1>7. v[n] = x
  <2>1. IsRun(v, n, w, u)
    BY <1>2, <1>6 DEF IsRun
  <2>. QED
    BY <1>2, <1>3, <1>4, <2>1, SameRun
<1>8. PICK y : y = [k \in 0..m |-> v[n + k]]
  OBVIOUS
<1>9. IsRun(y, m, x, t)
  <2>1. y[0] = x
    <3>1. y[0] = v[n + 0] /\ n + 0 = n
      BY <1>2, <1>8
    <3>. QED
      BY <3>1, <1>7
  <2>2. ASSUME NEW k \in 1..m PROVE y[k] = Op(y[k - 1], t[k])
    <3>1. /\ n + k \in 1..Len(u) /\ (n + k) - 1 = n + (k - 1)
          /\ k \in 0..m /\ k - 1 \in 0..m
      BY <1>2
    <3>2. v[n + k] = Op(v[(n + k) - 1], u[n + k])
      BY <3>1, <1>6 DEF IsRun
    <3>. QED
      BY <3>1, <3>2, <1>2, <1>8
  <2>. QED
    BY <2>1, <2>2 DEF IsRun
<1>10. y[m] = q[m]
  <2>1. Alike(m, t, t)
    BY DEF Alike
  <2>. QED
    BY <1>2, <1>5, <1>9, <2>1, SameRun
<1>11. y[m] = v[Len(u)]
  BY <1>2, <1>8
<1>. QED
  BY <1>1, <1>3, <1>4, <1>5, <1>6, <1>10, <1>11
=============================================================================
