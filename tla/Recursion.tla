----------------------------- MODULE Recursion -----------------------------
(***************************************************************************)
(* Induction over the natural numbers, stated of sets, and what follows    *)
(* for functions that are defined by recursion: one that gives k a value   *)
(* made of k and its own value at a smaller number D[k] exists, and any    *)
(* two of them agree.  It is what the proofs about the conversions and the *)
(* powers of ZKCrypto and about the callbacks of EntryList rest on.        *)
(***************************************************************************)
EXTENDS Naturals, WellFoundedInduction, TLAPS

Less == {p \in Nat \X Nat : p[1] < p[2]}
Positive == Nat \ {0}

LEMMA LessWellFounded == IsWellFoundedOn(Less, Nat)
<1>1. IsWellFoundedOn({p \in Nat \X Nat : p[1] < p[2]}, Nat)
  BY NatLessThanWellFounded DEF OpToRel
<1> QED
  BY <1>1 DEF Less

(* A set of numbers that holds 0 and the successor of each member is Nat.  *)
LEMMA SetInduction ==
  ASSUME NEW T \in SUBSET Nat, 0 \in T, \A n \in T : n + 1 \in T
  PROVE  T = Nat
<1>1. SUFFICES ASSUME Nat \ T # {} PROVE FALSE
  OBVIOUS
<1>2. PICK x \in Nat \ T : \A y \in Nat \ T : <<y, x>> \notin Less
  BY <1>1, LessWellFounded, WFMin
<1>3. x # 0 /\ x - 1 \in Nat
  OBVIOUS
<1>4. <<x - 1, x>> \in Less
  BY <1>2, <1>3 DEF Less
<1>5. x - 1 \in T
  BY <1>2, <1>3, <1>4
<1> QED
  BY <1>2, <1>3, <1>5

(* A set that holds every number below which it holds all is Nat.          *)
LEMMA SetStrongInduction ==
  ASSUME NEW T \in SUBSET Nat,
         \A n \in Nat : (\A m \in Nat : m < n => m \in T) => n \in T
  PROVE  T = Nat
<1>1. SUFFICES ASSUME Nat \ T # {} PROVE FALSE
  OBVIOUS
<1>2. PICK x \in Nat \ T : \A y \in Nat \ T : <<y, x>> \notin Less
  BY <1>1, LessWellFounded, WFMin
<1>3. \A m \in Nat : m < x => m \in T
  BY <1>2 DEF Less
<1> QED
  BY <1>2, <1>3

-----------------------------------------------------------------------------
\* f takes base at 0, and at k what G makes of k and of f at D[k].
Recursive(f, S, base, D, G) ==
    /\ f \in [Nat -> S]
    /\ f[0] = base
    /\ \A k \in Positive : f[k] = G[k][f[D[k]]]

\* The same of a function on 0..n.
Follows(f, n, base, D, G) == f[0] = base /\ \A k \in 1..n : f[k] = G[k][f[D[k]]]
RecursiveTo(f, n, S, base, D, G) == f \in [0..n -> S] /\ Follows(f, n, base, D, G)

LEMMA RecursiveToExists ==
  ASSUME NEW S, NEW base \in S, NEW D \in [Positive -> Nat],
         \A k \in Positive : D[k] < k,
         NEW G \in [Positive -> [S -> S]]
  PROVE  \A n \in Nat : \E f : RecursiveTo(f, n, S, base, D, G)
<1> DEFINE T == {n \in Nat : \E f : RecursiveTo(f, n, S, base, D, G)}
<1>1. 0 \in T
  <2>1. RecursiveTo([i \in 0..0 |-> base], 0, S, base, D, G)
    BY DEF RecursiveTo, Follows
  <2> QED
    BY <2>1
<1>2. \A n \in T : n + 1 \in T
  <2> SUFFICES ASSUME NEW n \in Nat, NEW f, RecursiveTo(f, n, S, base, D, G)
               PROVE  \E h : RecursiveTo(h, n + 1, S, base, D, G)
    OBVIOUS
  <2> DEFINE last == G[n + 1][f[D[n + 1]]]
             h == [i \in 0..(n + 1) |-> IF i = n + 1 THEN last ELSE f[i]]
  <2>1. D[n + 1] \in 0..n
    BY DEF Positive
  <2>2. last \in S
    BY <2>1 DEF RecursiveTo, Follows, Positive
  <2>3. \A i \in 0..n : h[i] = f[i]
    OBVIOUS
  <2>4. h[n + 1] = last
    OBVIOUS
  <2>5. h \in [0..(n + 1) -> S]
    <3>1. \A i \in 0..(n + 1) : i = n + 1 \/ i \in 0..n
      OBVIOUS
    <3> QED
      BY <2>2, <3>1 DEF RecursiveTo, Follows
  <2> HIDE DEF h, last
  <2>6. ASSUME NEW k \in 1..(n + 1) PROVE h[k] = G[k][h[D[k]]]
    <3>1. CASE k = n + 1
      BY <2>1, <2>3, <2>4, <3>1 DEF last
    <3>2. CASE k # n + 1
      <4>1. k \in 1..n /\ D[k] \in 0..n
        BY <3>2 DEF Positive
      <4> QED
        BY <2>3, <4>1 DEF RecursiveTo, Follows
    <3> QED
      BY <3>1, <3>2
  <2>7. h[0] = base
    BY <2>3 DEF RecursiveTo, Follows
  <2> QED
    BY <2>5, <2>6, <2>7 DEF RecursiveTo, Follows
<1> HIDE DEF T
<1>3. T = Nat
  <2>1. T \in SUBSET Nat
    BY DEF T
  <2> QED
    BY <1>1, <1>2, <2>1, SetInduction
<1> QED
  BY <1>3 DEF T

LEMMA FollowersAgree ==
  ASSUME NEW base, NEW D \in [Positive -> Nat],
         \A k \in Positive : D[k] < k,
         NEW G, NEW m \in Nat, NEW n \in Nat, NEW f, NEW h,
         Follows(f, m, base, D, G), Follows(h, n, base, D, G)
  PROVE  \A k \in Nat : k <= m /\ k <= n => f[k] = h[k]
<1> DEFINE T == {k \in Nat : k <= m /\ k <= n => f[k] = h[k]}
<1>1. ASSUME NEW k \in Nat, \A i \in Nat : i < k => i \in T PROVE k \in T
  <2>1. CASE k = 0
    BY <2>1 DEF Follows
  <2>2. CASE k # 0 /\ k <= m /\ k <= n
    <3>1. k \in 1..m /\ k \in 1..n /\ k \in Positive
      BY <2>2 DEF Positive
    <3>2. D[k] \in Nat /\ D[k] < k
      BY <3>1
    <3>3. f[D[k]] = h[D[k]]
      BY <1>1, <2>2, <3>2
    <3> QED
      BY <3>1, <3>3 DEF Follows
  <2>3. CASE ~(k <= m /\ k <= n)
    BY <2>3
  <2> QED
    BY <2>1, <2>2, <2>3
<1> HIDE DEF T
<1>2. T = Nat
  <2>1. T \in SUBSET Nat
    BY DEF T
  <2> QED
    BY <1>1, <2>1, SetStrongInduction
<1> QED
  BY <1>2 DEF T

(* The function that a definition by recursion means.                      *)
LEMMA RecursiveExists ==
  ASSUME NEW S, NEW base \in S, NEW D \in [Positive -> Nat],
         \A k \in Positive : D[k] < k,
         NEW G \in [Positive -> [S -> S]]
  PROVE  \E f : Recursive(f, S, base, D, G)
<1> DEFINE Part(n) == CHOOSE h : RecursiveTo(h, n, S, base, D, G)
           f == [n \in Nat |-> Part(n)[n]]
<1>1. \A n \in Nat : RecursiveTo(Part(n), n, S, base, D, G)
  BY RecursiveToExists
<1> HIDE DEF Part
<1>2. \A n \in Nat : Part(n)[n] \in S
  BY <1>1 DEF RecursiveTo, Follows
<1>3. f \in [Nat -> S] /\ f[0] = base
  BY <1>1, <1>2 DEF RecursiveTo, Follows
<1>4. ASSUME NEW k \in Positive PROVE f[k] = G[k][f[D[k]]]
  <2>1. k \in Nat /\ k \in 1..k /\ D[k] \in Nat /\ D[k] < k
    BY DEF Positive
  <2>2. f[k] = G[k][Part(k)[D[k]]]
    BY <1>1, <2>1 DEF RecursiveTo, Follows
  <2>3. Part(k)[D[k]] = Part(D[k])[D[k]]
    <3> DEFINE p == Part(k)
               q == Part(D[k])
               m == D[k]
    <3>1. Follows(p, k, base, D, G)
      BY <1>1, <2>1 DEF RecursiveTo
    <3>2. m \in Nat /\ Follows(q, m, base, D, G)
      BY <1>1, <2>1 DEF RecursiveTo
    <3> HIDE DEF p, q, m
    <3>3. \A i \in Nat : i <= k /\ i <= m => p[i] = q[i]
      BY <2>1, <3>1, <3>2, FollowersAgree
    <3> QED
      BY <2>1, <3>3 DEF p, q, m
  <2> QED
    BY <2>1, <2>2, <2>3
<1>5. Recursive(f, S, base, D, G)
  <2> HIDE DEF f
  <2> QED
    BY <1>3, <1>4 DEF Recursive
<1> QED
  BY <1>5

\* Every value is made of the one before.
Stepwise(f, S, base, G) ==
    /\ f \in [Nat -> S]
    /\ f[0] = base
    /\ \A k \in Positive : f[k] = G[k][f[k - 1]]

(* The same for them.                                                      *)
LEMMA StepwiseExists ==
  ASSUME NEW S, NEW base \in S, NEW G \in [Positive -> [S -> S]]
  PROVE  \E f : Stepwise(f, S, base, G)
<1> DEFINE D == [k \in Positive |-> k - 1]
<1>1. D \in [Positive -> Nat] /\ \A k \in Positive : D[k] = k - 1 /\ D[k] < k
  BY DEF Positive
<1> HIDE DEF D
<1>2. PICK f : Recursive(f, S, base, D, G)
  BY <1>1, RecursiveExists
<1> QED
  BY <1>1, <1>2 DEF Recursive, Stepwise

=============================================================================
