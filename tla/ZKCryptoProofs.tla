--------------------------- MODULE ZKCryptoProofs ---------------------------
(***************************************************************************)
(* What the numbers of the protocol and their texts are, for every prime,  *)
(* generator, password and secret: a text read in the radix it was printed *)
(* in is the number printed, dec2hex keeps the number, and the page and    *)
(* the server compute the same power.                                      *)
(***************************************************************************)
EXTENDS ZKCrypto, Recursion

LEMMA DivMod ==
  ASSUME NEW n \in Positive, NEW a \in Nat
  PROVE  /\ a \div n \in Nat /\ a % n \in 0..(n - 1)
         /\ a = n * (a \div n) + (a % n)
<1>1. n \in Nat \ {0}
  BY DEF Positive
<1>2. a % n \in 0..(n - 1)
  BY <1>1
<1>3. a = n * (a \div n) + (a % n)
  BY <1>1
<1>4. a \div n \in Nat
  BY <1>1
<1> QED
  BY <1>2, <1>3, <1>4

LEMMA ModUnique ==
  ASSUME NEW n \in Positive, NEW q \in Nat, NEW r \in 0..(n - 1)
  PROVE  (n * q + r) % n = r /\ (n * q + r) \div n = q
BY DEF Positive

(* Reducing a factor does not change the product's remainder.              *)
LEMMA ModFactor ==
  ASSUME NEW n \in Positive, NEW a \in Nat, NEW c \in Nat
  PROVE  (a * (c % n)) % n = (a * c) % n
<1> DEFINE q == c \div n
           r == c % n
           p == (a * r) \div n
           m == (a * r) % n
<1>1. q \in Nat /\ r \in Nat /\ c = n * q + r
  BY DivMod
<1>2. a * r \in Nat
  BY <1>1
<1>3. p \in Nat /\ m \in 0..(n - 1) /\ a * r = n * p + m
  BY <1>2, DivMod
<1> HIDE DEF q, r
<1> HIDE DEF p, m
<1>4. a * c = n * (a * q + p) + m
  <2>1. a * c = n * (a * q) + a * r
    BY <1>1 DEF Positive
  <2>2. n * (a * q + p) = n * (a * q) + n * p
    BY <1>1, <1>3 DEF Positive
  <2> QED
    BY <1>1, <1>3, <2>1, <2>2 DEF Positive
<1>5. a * q + p \in Nat
  BY <1>1, <1>3
<1>6. (a * c) % n = m
  BY <1>3, <1>4, <1>5, ModUnique
<1> QED
  BY <1>6 DEF m, r

-----------------------------------------------------------------------------
(* modPow multiplies e times.                                              *)
LEMMA Power ==
  ASSUME NEW b \in Nat
  PROVE  /\ modPow(b, 0) = 1
         /\ \A e \in Nat : /\ modPow(b, e) \in 0..(N - 1)
                           /\ modPow(b, e + 1) = (b * modPow(b, e)) % N
<1> DEFINE S == 0..(N - 1)
           G == [k \in Positive |-> [v \in S |-> (b * v) % N]]
<1>1. N \in Positive /\ 1 \in S /\ S \subseteq Nat
  BY GroupAssumption DEF Positive
<1>2. \A v \in S : (b * v) % N \in S
  BY <1>1, DivMod
<1>3. G \in [Positive -> [S -> S]]
  BY <1>2
<1>4. \A k \in Positive : \A v \in S : G[k][v] = (b * v) % N
  OBVIOUS
<1> HIDE DEF S, G
<1>0. PICK f : Stepwise(f, S, 1, G)
  BY <1>1, <1>3, StepwiseExists
<1>5. /\ f \in [Nat -> S] /\ f[0] = 1
      /\ \A k \in Positive : f[k] = G[k][f[k - 1]]
  BY <1>0 DEF Stepwise
<1>6. \A k \in Positive : k - 1 \in Nat /\ f[k] = (b * f[k - 1]) % N
  BY <1>4, <1>5 DEF Positive
<1>7. ASSUME NEW e \in Nat PROVE modPow(b, e) = f[e]
  <2> DEFINE P(p) == p = [k \in 0..e |-> IF k = 0 THEN 1 ELSE (b * p[k - 1]) % N]
             power == CHOOSE p : P(p)
             r == [k \in 0..e |-> f[k]]
  <2>1. P(r)
    <3>1. \A k \in 0..e : k # 0 => r[k] = (b * r[k - 1]) % N
      BY <1>6 DEF Positive
    <3>2. r[0] = 1
      BY <1>5
    <3> QED
      BY <3>1, <3>2
  <2>2. P(power)
    <3> HIDE DEF P, r
    <3> QED
      BY <2>1
  <2>3. modPow(b, e) = power[e]
    BY DEF modPow
  <2> HIDE DEF power, r
  <2> DEFINE T == {k \in Nat : k <= e => power[k] = f[k]}
  <2>4. 0 \in T
    BY <1>5, <2>2
  <2>5. ASSUME NEW k \in T PROVE k + 1 \in T
    <3>1. SUFFICES ASSUME k + 1 <= e PROVE power[k + 1] = f[k + 1]
      OBVIOUS
    <3>2. power[k + 1] = (b * power[k]) % N
      BY <2>2, <3>1
    <3>3. f[k + 1] = (b * f[k]) % N
      BY <1>6 DEF Positive
    <3> QED
      BY <3>1, <3>2, <3>3
  <2>6. T \in SUBSET Nat
    OBVIOUS
  <2> HIDE DEF T
  <2>7. T = Nat
    BY <2>4, <2>5, <2>6, SetInduction
  <2> QED
    BY <2>3, <2>7 DEF T
<1>8. \A e \in Nat : f[e + 1] = (b * f[e]) % N
  BY <1>6 DEF Positive
<1> QED
  BY <1>5, <1>7, <1>8 DEF S

LEMMA PowerOfSum ==
  ASSUME NEW b \in Nat, NEW e \in Nat, NEW f \in Nat
  PROVE  modPow(b, e + f) = (modPow(b, e) * modPow(b, f)) % N
<1> DEFINE M(k) == modPow(b, k)
           T == {k \in Nat : M(e + k) = (M(e) * M(k)) % N}
<1>1. N \in Positive
  BY GroupAssumption DEF Positive
<1>2. /\ M(0) = 1
      /\ \A k \in Nat : M(k) \in Nat /\ M(k) < N /\ M(k + 1) = (b * M(k)) % N
  BY <1>1, Power DEF Positive
<1> HIDE DEF M
<1>3. 0 \in T
  <2>1. M(e) \in 0..(N - 1) /\ M(e) = N * 0 + M(e)
    BY <1>1, <1>2 DEF Positive
  <2>2. M(e) % N = M(e)
    BY <1>1, <2>1, ModUnique
  <2> QED
    BY <1>2, <2>2
<1>4. ASSUME NEW k \in T PROVE k + 1 \in T
  <2>1. M(e + (k + 1)) = (b * M(e + k)) % N
    BY <1>2
  <2>2. (b * ((M(e) * M(k)) % N)) % N = (b * (M(e) * M(k))) % N
    BY <1>1, <1>2, ModFactor
  <2>3. (M(e) * ((b * M(k)) % N)) % N = (M(e) * (b * M(k))) % N
    BY <1>1, <1>2, ModFactor
  <2>4. b * (M(e) * M(k)) = M(e) * (b * M(k))
    BY <1>2
  <2> QED
    BY <1>2, <2>1, <2>2, <2>3, <2>4
<1> HIDE DEF T
<1>5. T = Nat
  <2>1. T \in SUBSET Nat
    BY DEF T
  <2> QED
    BY <1>3, <1>4, <2>1, SetInduction
<1> QED
  BY <1>5 DEF T, M

LEMMA PowerOfPower ==
  ASSUME NEW b \in Nat, NEW e \in Nat, NEW f \in Nat
  PROVE  modPow(modPow(b, e), f) = modPow(b, e * f)
<1> DEFINE M(k) == modPow(b, k)
           m == M(e)
           T == {k \in Nat : modPow(m, k) = M(e * k)}
<1>1. N \in Positive
  BY GroupAssumption DEF Positive
<1>2. \A k \in Nat : M(k) \in Nat
  BY <1>1, Power DEF Positive
<1>3. M(0) = 1 /\ m \in Nat
  BY <1>2, Power
<1>4. \A i, k \in Nat : M(i + k) = (M(i) * M(k)) % N
  BY PowerOfSum
<1>5. modPow(m, 0) = 1 /\ \A k \in Nat : modPow(m, k + 1) = (m * modPow(m, k)) % N
  BY <1>3, Power
<1>6. 0 \in T
  BY <1>3, <1>5
<1>7. ASSUME NEW k \in T PROVE k + 1 \in T
  <2>1. modPow(m, k + 1) = (m * M(e * k)) % N
    BY <1>5
  <2>2. e * k \in Nat /\ e * (k + 1) = e + e * k
    OBVIOUS
  <2>3. M(e + e * k) = (m * M(e * k)) % N
    BY <1>4, <2>2
  <2> QED
    BY <2>1, <2>2, <2>3
<1> HIDE DEF T
<1>8. T = Nat
  <2>1. T \in SUBSET Nat
    BY DEF T
  <2> QED
    BY <1>6, <1>7, <2>1, SetInduction
<1> QED
  BY <1>8 DEF T

(* The page raises the server's number to the password, the server raises  *)
(* the user's number to the secret: both get the same number.              *)
THEOREM SameNumber ==
  ASSUME NEW x \in Nat, NEW s \in Nat
  PROVE  modPow(modPow(g, s), x) = modPow(modPow(g, x), s)
<1>1. g \in Nat
  BY GroupAssumption
<1>2. s * x = x * s
  OBVIOUS
<1> QED
  BY <1>1, <1>2, PowerOfPower

-----------------------------------------------------------------------------
\* f gives the number read from each prefix of a text.
Reads(f, text, radix) ==
    /\ f \in [0..Len(text) -> Nat]
    /\ f[0] = 0
    /\ \A i \in 1..Len(text) : f[i] = f[i - 1] * radix + text[i]

LEMMA ReadExists ==
  ASSUME NEW text \in Seq(Nat), NEW radix \in Nat
  PROVE  \E f : Reads(f, text, radix)
<1> DEFINE n == Len(text)
           G == [k \in Positive |-> [v \in Nat |-> v * radix + (IF k \in 1..n THEN text[k] ELSE 0)]]
<1>1. G \in [Positive -> [Nat -> Nat]]
  <2>1. \A k \in Positive : (IF k \in 1..n THEN text[k] ELSE 0) \in Nat
    OBVIOUS
  <2> QED
    BY <2>1
<1>5. n \in Nat
  OBVIOUS
<1>9. \A k \in 1..n : k \in Positive /\ k \in 0..n /\ k - 1 \in 0..n /\ k - 1 \in Nat
  <2> HIDE DEF n
  <2> QED
    BY <1>5 DEF Positive
<1>2. \A k \in 1..n : \A v \in Nat : G[k][v] = v * radix + text[k]
  BY <1>9
<1> HIDE DEF G
<1>3. PICK h : Stepwise(h, Nat, 0, G)
  BY <1>1, StepwiseExists
<1>4. h \in [Nat -> Nat] /\ h[0] = 0
  BY <1>3 DEF Stepwise
<1>8. ASSUME NEW k \in 1..n PROVE h[k] = h[k - 1] * radix + text[k]
  <2>1. k \in Positive /\ h[k - 1] \in Nat
    BY <1>4, <1>9
  <2>2. h[k] = G[k][h[k - 1]]
    BY <1>3, <2>1 DEF Stepwise
  <2> QED
    BY <1>2, <2>1, <2>2
<1> DEFINE f == [i \in 0..n |-> h[i]]
<1>6. f \in [0..n -> Nat] /\ f[0] = 0 /\ \A k \in 0..n : f[k] = h[k]
  BY <1>4, <1>5
<1> HIDE DEF f
<1>7. Reads(f, text, radix)
  <2>1. \A k \in 1..n : f[k] = f[k - 1] * radix + text[k]
    BY <1>6, <1>8, <1>9
  <2> QED
    BY <1>6, <2>1 DEF Reads
<1> QED
  BY <1>7

(* bigInt is the number read from the whole text.                          *)
LEMMA ReadText ==
  ASSUME NEW text \in Seq(Nat), NEW radix \in Nat, NEW f, Reads(f, text, radix)
  PROVE  bigInt(text, radix) = f[Len(text)] /\ bigInt(text, radix) \in Nat
<1> DEFINE n == Len(text)
           P(v) == v = [i \in 0..n |-> IF i = 0 THEN 0 ELSE v[i - 1] * radix + text[i]]
           value == CHOOSE v : P(v)
<1>1. /\ n \in Nat /\ f \in [0..n -> Nat] /\ f[0] = 0
      /\ \A i \in 1..n : f[i] = f[i - 1] * radix + text[i]
  BY DEF Reads
<1>2. P(f)
  BY <1>1
<1>3. P(value)
  <2> HIDE DEF P
  <2> QED
    BY <1>2
<1>4. bigInt(text, radix) = value[n]
  BY DEF bigInt
<1> HIDE DEF value
<1> DEFINE T == {k \in Nat : k <= n => value[k] = f[k]}
<1>5. 0 \in T
  BY <1>1, <1>3
<1>6. ASSUME NEW k \in T PROVE k + 1 \in T
  <2>1. SUFFICES ASSUME k + 1 <= n PROVE value[k + 1] = f[k + 1]
    OBVIOUS
  <2>2. value[k + 1] = value[k] * radix + text[k + 1]
    BY <1>3, <2>1
  <2>3. f[k + 1] = f[k] * radix + text[k + 1]
    BY <1>1, <2>1
  <2> QED
    BY <2>1, <2>2, <2>3
<1>7. T \in SUBSET Nat
  OBVIOUS
<1> HIDE DEF T
<1>8. T = Nat
  BY <1>5, <1>6, <1>7, SetInduction
<1>9. value[n] = f[n]
  BY <1>1, <1>8 DEF T
<1> QED
  BY <1>1, <1>4, <1>9

(* One more digit multiplies by the radix and adds the digit.              *)
LEMMA ReadDigit ==
  ASSUME NEW text \in Seq(Nat), NEW radix \in Nat, NEW d \in Nat
  PROVE  bigInt(Append(text, d), radix) = bigInt(text, radix) * radix + d
<1> DEFINE n == Len(text)
           longer == Append(text, d)
<1>1. PICK f : Reads(f, text, radix)
  BY ReadExists
<1>2. /\ n \in Nat /\ f \in [0..n -> Nat] /\ f[0] = 0
      /\ \A i \in 1..n : f[i] = f[i - 1] * radix + text[i]
  BY <1>1 DEF Reads
<1>3. /\ longer \in Seq(Nat) /\ Len(longer) = n + 1 /\ longer[n + 1] = d
      /\ \A i \in 1..n : longer[i] = text[i]
  OBVIOUS
<1> DEFINE v == f[n] * radix + d
           h == [i \in 0..(n + 1) |-> IF i = n + 1 THEN v ELSE f[i]]
<1>4. v \in Nat
  BY <1>2
<1>5. h[n + 1] = v /\ \A i \in 0..n : h[i] = f[i]
  BY <1>2
<1>6. h \in [0..(n + 1) -> Nat]
  <2>1. \A i \in 0..(n + 1) : i = n + 1 \/ i \in 0..n
    BY <1>2
  <2> HIDE DEF v
  <2> QED
    BY <1>2, <1>4, <2>1
<1> HIDE DEF longer, h
<1>7. Reads(h, longer, radix)
  <2>1. ASSUME NEW i \in 1..(n + 1) PROVE h[i] = h[i - 1] * radix + longer[i]
    <3>1. CASE i = n + 1
      BY <1>2, <1>3, <1>5, <3>1
    <3>2. CASE i \in 1..n
      <4>1. i \in 0..n /\ i - 1 \in 0..n
        BY <1>2, <3>2
      <4>2. h[i] = f[i] /\ h[i - 1] = f[i - 1] /\ longer[i] = text[i]
        BY <1>3, <1>5, <3>2, <4>1
      <4> QED
        BY <1>2, <3>2, <4>2
    <3> QED
      BY <1>2, <3>1, <3>2
  <2>2. h[0] = 0
    BY <1>2, <1>5
  <2> QED
    BY <1>3, <1>6, <2>1, <2>2 DEF Reads
<1>8. bigInt(longer, radix) = h[n + 1] /\ bigInt(text, radix) = f[n]
  BY <1>1, <1>3, <1>7, ReadText
<1> QED
  BY <1>5, <1>8 DEF longer

-----------------------------------------------------------------------------
(* A number printed and read in one radix is the number.                   *)
THEOREM PrintedRead ==
  ASSUME NEW radix \in Nat, radix > 1, NEW n \in Nat
  PROVE  toString(n, radix) \in Seq(Nat) /\ bigInt(toString(n, radix), radix) = n
<1> DEFINE S == Seq(Nat)
           D == [k \in Positive |-> k \div radix]
           G == [k \in Positive |-> [v \in S |-> IF k < radix THEN <<k>> ELSE Append(v, k % radix)]]
<1>1. radix \in Positive
  BY DEF Positive
<1>2. ASSUME NEW k \in Nat
      PROVE  /\ k \div radix \in Nat /\ k % radix \in Nat
             /\ k = (k \div radix) * radix + (k % radix)
             /\ k # 0 => k \div radix < k
  <2> DEFINE q == k \div radix
             r == k % radix
  <2>1. q \in Nat /\ r \in Nat /\ k = radix * q + r
    BY <1>1, DivMod
  <2> HIDE DEF q, r
  <2>2. k # 0 => q < k
    <3>1. CASE q = 0
      BY <3>1
    <3>2. CASE q # 0
      <4>1. radix * q >= 2 * q
        BY <2>1
      <4> QED
        BY <2>1, <3>2, <4>1
    <3> QED
      BY <3>1, <3>2
  <2>3. k = q * radix + r
    BY <2>1
  <2> QED
    BY <2>1, <2>2, <2>3 DEF q, r
<1>3. /\ D \in [Positive -> Nat]
      /\ \A k \in Positive : D[k] = k \div radix /\ D[k] < k
  BY <1>2 DEF Positive
<1>4. G \in [Positive -> [S -> S]]
  <2>1. ASSUME NEW k \in Positive, NEW v \in S
        PROVE  (IF k < radix THEN <<k>> ELSE Append(v, k % radix)) \in S
    <3>1. k \in Nat /\ k % radix \in Nat
      BY <1>2 DEF Positive
    <3> QED
      BY <3>1
  <2> QED
    BY <2>1
<1>5. \A k \in Positive : \A v \in S : G[k][v] = IF k < radix THEN <<k>> ELSE Append(v, k % radix)
  OBVIOUS
<1>6. <<0>> \in S
  OBVIOUS
<1> HIDE DEF S, D, G
<1>7. PICK f : Recursive(f, S, <<0>>, D, G)
  BY <1>3, <1>4, <1>6, RecursiveExists
<1>8. f \in [Nat -> S] /\ f[0] = <<0>>
  BY <1>7 DEF Recursive
<1>9. ASSUME NEW k \in Nat
      PROVE  f[k] = IF k < radix THEN <<k>> ELSE Append(f[k \div radix], k % radix)
  <2>1. CASE k = 0
    <3>1. 0 < radix /\ f[0] = <<0>>
      BY <1>8
    <3>2. f[0] = IF 0 < radix THEN <<0>> ELSE Append(f[0 \div radix], 0 % radix)
      BY <3>1, Zenon
    <3> QED
      BY <2>1, <3>2, Zenon
  <2>2. CASE k \in Positive
    <3> DEFINE q == k \div radix
    <3>1. q \in Nat /\ D[k] = q
      BY <1>2, <1>3, <2>2
    <3> HIDE DEF q
    <3>2. f[k] = G[k][f[q]]
      BY <1>7, <2>2, <3>1 DEF Recursive
    <3>3. f[q] \in S
      BY <1>8, <3>1
    <3>4. f[k] = IF k < radix THEN <<k>> ELSE Append(f[q], k % radix)
      BY <1>5, <2>2, <3>2, <3>3
    <3> QED
      BY <3>4 DEF q
  <2> QED
    BY <2>1, <2>2 DEF Positive
<1>10. toString(n, radix) = f[n]
  <2> DEFINE P(t) == t = [k \in 0..n |-> IF k < radix THEN <<k>> ELSE Append(t[k \div radix], k % radix)]
             text == CHOOSE t : P(t)
             h == [k \in 0..n |-> f[k]]
  <2>1. \A k \in 0..n : k >= radix => k \div radix \in 0..n /\ k \div radix < k
    <3>1. ASSUME NEW k \in 0..n, k >= radix PROVE k \div radix \in 0..n /\ k \div radix < k
      BY <1>2, <3>1
    <3> QED
      BY <3>1
  <2>2. P(h)
    <3>1. ASSUME NEW k \in 0..n
          PROVE  h[k] = IF k < radix THEN <<k>> ELSE Append(h[k \div radix], k % radix)
      <4> DEFINE q == k \div radix
      <4>1. h[k] = f[k]
        OBVIOUS
      <4>2. k >= radix => q \in 0..n /\ h[q] = f[q]
        BY <2>1
      <4>3. f[k] = IF k < radix THEN <<k>> ELSE Append(f[q], k % radix)
        BY <1>9
      <4> HIDE DEF q, h
      <4>4. h[k] = IF k < radix THEN <<k>> ELSE Append(h[q], k % radix)
        BY <4>1, <4>2, <4>3
      <4> QED
        BY <4>4 DEF q
    <3> QED
      BY <3>1
  <2>3. P(text)
    <3> HIDE DEF P, h
    <3> QED
      BY <2>2
  <2>4. toString(n, radix) = text[n]
    BY DEF toString
  <2> HIDE DEF text
  <2> DEFINE T == {k \in Nat : k <= n => text[k] = f[k]}
  <2>5. ASSUME NEW k \in Nat, \A i \in Nat : i < k => i \in T PROVE k \in T
    <3>1. SUFFICES ASSUME k <= n PROVE text[k] = f[k]
      OBVIOUS
    <3>2. k \in 0..n
      BY <3>1
    <3>3. text[k] = IF k < radix THEN <<k>> ELSE Append(text[k \div radix], k % radix)
      BY <2>3, <3>2
    <3>4. k >= radix => text[k \div radix] = f[k \div radix]
      BY <2>1, <2>5, <3>2
    <3>5. f[k] = IF k < radix THEN <<k>> ELSE Append(f[k \div radix], k % radix)
      BY <1>9
    <3> DEFINE q == k \div radix
    <3> HIDE DEF q, P, T, h
    <3>6. text[k] = IF k < radix THEN <<k>> ELSE Append(text[q], k % radix)
      BY <3>3 DEF q
    <3>7. f[k] = IF k < radix THEN <<k>> ELSE Append(f[q], k % radix)
      BY <3>5 DEF q
    <3>8. k >= radix => text[q] = f[q]
      BY <3>4 DEF q
    <3> QED
      BY <3>6, <3>7, <3>8
  <2>6. T \in SUBSET Nat
    OBVIOUS
  <2> HIDE DEF T
  <2>7. T = Nat
    BY <2>5, <2>6, SetStrongInduction
  <2> QED
    BY <2>4, <2>7 DEF T
<1> DEFINE R == {k \in Nat : bigInt(f[k], radix) = k}
<1>11. ASSUME NEW k \in Nat, \A i \in Nat : i < k => i \in R PROVE k \in R
  <2>1. CASE k < radix
    <3>1. f[k] = <<k>>
      BY <1>9, <2>1, Zenon
    <3>5. <<k>> = Append(<<>>, k)
      OBVIOUS
    <3>2. <<>> \in Seq(Nat) /\ Reads([i \in 0..0 |-> 0], <<>>, radix)
      BY DEF Reads
    <3>3. bigInt(<<>>, radix) = 0
      BY <3>2, ReadText
    <3> DEFINE empty == <<>>
    <3>4. empty \in Seq(Nat) /\ bigInt(empty, radix) = 0 /\ f[k] = Append(empty, k)
      BY <3>1, <3>2, <3>3, <3>5
    <3> HIDE DEF empty
    <3>6. bigInt(Append(empty, k), radix) = bigInt(empty, radix) * radix + k
      BY <3>4, ReadDigit
    <3>7. 0 * radix + k = k
      OBVIOUS
    <3>8. bigInt(f[k], radix) = k
      BY <3>4, <3>6, <3>7, Zenon
    <3> QED
      BY <3>8
  <2>2. CASE ~(k < radix)
    <3> DEFINE q == k \div radix
               r == k % radix
    <3>1. q \in Nat /\ r \in Nat /\ k = q * radix + r /\ q < k
      BY <1>2, <2>2
    <3>2. f[k] = Append(f[q], r) /\ f[q] \in Seq(Nat)
      BY <1>8, <1>9, <2>2, <3>1 DEF S
    <3> HIDE DEF q, r
    <3>3. bigInt(f[k], radix) = bigInt(f[q], radix) * radix + r
      BY <3>1, <3>2, ReadDigit
    <3>4. bigInt(f[q], radix) = q
      BY <1>11, <3>1
    <3> QED
      BY <3>1, <3>3, <3>4
  <2> QED
    BY <2>1, <2>2
<1>12. R \in SUBSET Nat
  OBVIOUS
<1> HIDE DEF R
<1>13. R = Nat
  BY <1>11, <1>12, SetStrongInduction
<1> QED
  BY <1>8, <1>10, <1>13 DEF R, S

-----------------------------------------------------------------------------
(* The carries of one step of dec2hex.                                     *)
LEMMA CarriedSteps ==
  ASSUME NEW sum \in Seq(Nat), NEW digit \in Nat
  PROVE  LET c == Carried(sum, digit) IN
         /\ c \in [0..Len(sum) -> Nat]
         /\ c[0] = digit
         /\ \A i \in 1..Len(sum) : c[i] = (c[i - 1] + sum[i] * 10) \div 16
<1> DEFINE n == Len(sum)
           G == [k \in Positive |-> [v \in Nat |-> IF k \in 1..n THEN (v + sum[k] * 10) \div 16 ELSE v]]
           P(c) == c = [i \in 0..n |-> IF i = 0 THEN digit ELSE (c[i - 1] + sum[i] * 10) \div 16]
           carry == CHOOSE c : P(c)
<1>1. n \in Nat /\ \A k \in 1..n : sum[k] \in Nat
  OBVIOUS
<1>2. \A k \in 1..n : k \in Positive /\ k \in 0..n /\ k - 1 \in 0..n /\ k - 1 \in Nat
  <2> HIDE DEF n
  <2> QED
    BY <1>1 DEF Positive
<1>3. \A v \in Nat : v \div 16 \in Nat
  BY DivMod DEF Positive
<1>4. G \in [Positive -> [Nat -> Nat]]
  <2>1. ASSUME NEW k \in Positive, NEW v \in Nat
        PROVE  (IF k \in 1..n THEN (v + sum[k] * 10) \div 16 ELSE v) \in Nat
    <3>1. CASE k \in 1..n
      <4>1. v + sum[k] * 10 \in Nat
        BY <1>1, <3>1
      <4> QED
        BY <1>3, <3>1, <4>1
    <3> QED
      BY <3>1
  <2> QED
    BY <2>1
<1>5. \A k \in 1..n : \A v \in Nat : G[k][v] = (v + sum[k] * 10) \div 16
  BY <1>2
<1> HIDE DEF G
<1>6. PICK f : Stepwise(f, Nat, digit, G)
  BY <1>4, StepwiseExists
<1>7. f \in [Nat -> Nat] /\ f[0] = digit
  BY <1>6 DEF Stepwise
<1>8. \A k \in 1..n : f[k] = (f[k - 1] + sum[k] * 10) \div 16
  <2>1. ASSUME NEW k \in 1..n PROVE f[k] = (f[k - 1] + sum[k] * 10) \div 16
    <3>1. f[k] = G[k][f[k - 1]] /\ f[k - 1] \in Nat
      BY <1>2, <1>6, <1>7 DEF Stepwise
    <3> QED
      BY <1>5, <3>1
  <2> QED
    BY <2>1
<1> DEFINE r == [i \in 0..n |-> f[i]]
<1>9. /\ r \in [0..n -> Nat] /\ r[0] = digit
      /\ \A k \in 1..n : r[k] = (r[k - 1] + sum[k] * 10) \div 16
  <2>1. r \in [0..n -> Nat] /\ r[0] = digit
    BY <1>1, <1>7
  <2>2. \A k \in 0..n : r[k] = f[k]
    OBVIOUS
  <2> HIDE DEF r
  <2> QED
    BY <1>2, <1>8, <2>1, <2>2
<1> HIDE DEF r
<1>10. P(r)
  <2>1. \A k \in 0..n : r[k] = IF k = 0 THEN digit ELSE (r[k - 1] + sum[k] * 10) \div 16
    <3>1. \A k \in 0..n : k = 0 \/ k \in 1..n
      OBVIOUS
    <3> QED
      BY <1>9, <3>1
  <2> QED
    BY <1>9, <2>1
<1>11. P(carry)
  <2> HIDE DEF P
  <2> QED
    BY <1>10
<1>12. Carried(sum, digit) = carry
  BY DEF Carried
<1> HIDE DEF carry
<1> DEFINE T == {k \in Nat : k <= n => carry[k] = r[k]}
<1>13. 0 \in T
  BY <1>1, <1>9, <1>11
<1>14. ASSUME NEW k \in T PROVE k + 1 \in T
  <2>1. SUFFICES ASSUME k + 1 <= n PROVE carry[k + 1] = r[k + 1]
    OBVIOUS
  <2>2. k + 1 \in 1..n /\ (k + 1) - 1 = k /\ k + 1 # 0
    BY <2>1
  <2>3. carry[k + 1] = (carry[k] + sum[k + 1] * 10) \div 16
    BY <1>11, <2>2
  <2>4. r[k + 1] = (r[k] + sum[k + 1] * 10) \div 16
    BY <1>9, <2>2
  <2>5. carry[k] = r[k]
    BY <2>1
  <2> QED
    BY <2>3, <2>4, <2>5
<1>15. T \in SUBSET Nat
  OBVIOUS
<1> HIDE DEF T
<1>16. T = Nat
  BY <1>13, <1>14, <1>15, SetInduction
<1>17. \A k \in 0..n : carry[k] = r[k]
  BY <1>16 DEF T
<1>18. carry = r
  <2>1. DOMAIN carry = 0..n /\ DOMAIN r = 0..n /\ carry = [i \in 0..n |-> carry[i]] /\ r = [i \in 0..n |-> r[i]]
    BY <1>9, <1>11
  <2> HIDE DEF P, n
  <2> QED
    BY <1>17, <2>1
<1> QED
  BY <1>9, <1>12, <1>18

LEMMA Columns ==
  ASSUME NEW a \in Nat
  PROVE  a \div 16 \in Nat /\ a % 16 \in Nat /\ (a \div 16) * 16 + (a % 16) = a
OBVIOUS

LEMMA Reversed ==
  ASSUME NEW s \in Seq(Nat)
  PROVE  /\ Reverse(s) \in Seq(Nat) /\ Len(Reverse(s)) = Len(s)
         /\ \A j \in 1..Len(s) : Reverse(s)[j] = s[Len(s) - j + 1]
BY DEF Reverse

LEMMA ReversedAppend ==
  ASSUME NEW s \in Seq(Nat), NEW d \in Nat
  PROVE  /\ Reverse(Append(s, d)) \in Seq(Nat)
         /\ Len(Reverse(Append(s, d))) = Len(s) + 1
         /\ Reverse(Append(s, d))[1] = d
         /\ \A j \in 1..Len(s) : Reverse(Append(s, d))[j + 1] = s[Len(s) - j + 1]
<1> DEFINE t == Append(s, d)
           n == Len(s)
<1>1. t \in Seq(Nat) /\ Len(t) = n + 1 /\ t[n + 1] = d /\ \A j \in 1..n : t[j] = s[j]
  OBVIOUS
<1>2. n \in Nat
  OBVIOUS
<1> HIDE DEF t, n
<1>3. /\ Reverse(t) \in Seq(Nat) /\ Len(Reverse(t)) = Len(t)
      /\ \A j \in 1..Len(t) : Reverse(t)[j] = t[Len(t) - j + 1]
  BY <1>1, Reversed
<1>4. Reverse(t)[1] = d
  BY <1>1, <1>2, <1>3
<1>5. ASSUME NEW j \in 1..n PROVE Reverse(t)[j + 1] = s[n - j + 1]
  <2>1. j + 1 \in 1..Len(t) /\ Len(t) - (j + 1) + 1 = n - j + 1 /\ n - j + 1 \in 1..n
    BY <1>1, <1>2
  <2>2. Reverse(t)[j + 1] = t[Len(t) - (j + 1) + 1]
    BY <1>3, <2>1
  <2>3. t[n - j + 1] = s[n - j + 1]
    BY <1>1, <2>1
  <2> QED
    BY <2>1, <2>2, <2>3
<1> QED
  BY <1>1, <1>3, <1>4, <1>5 DEF t, n

(* One step of dec2hex multiplies by ten and adds the digit.               *)
LEMMA TimesTen ==
  ASSUME NEW sum \in Seq(Nat), NEW digit \in Nat
  PROVE  /\ TimesTenPlus(sum, digit) \in Seq(Nat)
         /\ bigInt(Reverse(TimesTenPlus(sum, digit)), 16)
                = bigInt(Reverse(sum), 16) * 10 + digit
<1> DEFINE n == Len(sum)
           c == Carried(sum, digit)
           col == [i \in 1..n |-> (c[i - 1] + sum[i] * 10) % 16]
           last == c[n]
           top == IF last = 0 THEN <<>> ELSE <<last>>
           after == TimesTenPlus(sum, digit)
<1>1. n \in Nat /\ \A i \in 1..n : sum[i] \in Nat
  OBVIOUS
<1>2. /\ c \in [0..n -> Nat] /\ c[0] = digit
      /\ \A i \in 1..n : c[i] = (c[i - 1] + sum[i] * 10) \div 16
  BY CarriedSteps
<1>3. after = col \o top
  BY DEF TimesTenPlus
<1> HIDE DEF c, after
<1>4. \A i \in 1..n : i - 1 \in 0..n /\ i \in 0..n
  <2> HIDE DEF n
  <2> QED
    BY <1>1
<1>5. ASSUME NEW i \in 1..n
      PROVE  col[i] \in Nat /\ c[i] * 16 + col[i] = c[i - 1] + sum[i] * 10
  <2> DEFINE a == c[i - 1] + sum[i] * 10
  <2>4. c[i - 1] \in Nat /\ sum[i] \in Nat
    <3> HIDE DEF n
    <3> QED
      BY <1>1, <1>2, <1>4
  <2>1. a \in Nat
    BY <2>4
  <2>2. col[i] = a % 16 /\ c[i] = a \div 16
    BY <1>2
  <2> HIDE DEF a, col
  <2>3. a \div 16 \in Nat /\ a % 16 \in Nat /\ (a \div 16) * 16 + (a % 16) = a
    BY <2>1, Columns
  <2>5. c[i] * 16 + col[i] = a
    BY <2>2, <2>3
  <2> QED
    BY <2>2, <2>3, <2>5 DEF a
<1>6. last \in Nat
  <2> HIDE DEF n
  <2> QED
    BY <1>1, <1>2
<1>7. col \in Seq(Nat) /\ Len(col) = n
  <2>1. col \in [1..n -> Nat]
    BY <1>5
  <2> HIDE DEF n
  <2> QED
    BY <1>1, <2>1
<1>8. top \in Seq(Nat)
  BY <1>6
<1>9. after \in Seq(Nat)
  BY <1>3, <1>7, <1>8
<1>10. PICK V : Reads(V, Reverse(sum), 16)
  <2>1. Reverse(sum) \in Seq(Nat)
    BY Reversed
  <2> QED
    BY <2>1, ReadExists
<1>11. /\ V \in [0..n -> Nat] /\ V[0] = 0
       /\ \A j \in 1..n : V[j] = V[j - 1] * 16 + sum[n - j + 1]
       /\ bigInt(Reverse(sum), 16) = V[n]
  <2> DEFINE rev == Reverse(sum)
  <2>1. rev \in Seq(Nat) /\ Len(rev) = n /\ \A j \in 1..n : rev[j] = sum[n - j + 1]
    BY Reversed
  <2>2. Reads(V, rev, 16)
    BY <1>10
  <2> HIDE DEF n, rev
  <2>3. bigInt(rev, 16) = V[n]
    BY <2>1, <2>2, ReadText
  <2>4. /\ V \in [0..n -> Nat] /\ V[0] = 0
        /\ \A j \in 1..n : V[j] = V[j - 1] * 16 + sum[n - j + 1]
    BY <2>1, <2>2 DEF Reads
  <2> QED
    BY <2>3, <2>4 DEF rev
<1> DEFINE W == [j \in 0..n |-> V[j] * 10 + c[n - j]]
<1>12. /\ W \in [0..n -> Nat] /\ W[0] = last /\ W[n] = V[n] * 10 + digit
       /\ \A j \in 1..n : W[j] = W[j - 1] * 16 + col[n - j + 1]
  <2>1. \A j \in 0..n : n - j \in 0..n
    BY <1>1
  <2>2. W \in [0..n -> Nat]
    BY <1>2, <1>11, <2>1
  <2>3. W[0] = last /\ W[n] = V[n] * 10 + digit
    BY <1>1, <1>2, <1>6, <1>11
  <2>4. ASSUME NEW j \in 1..n PROVE W[j] = W[j - 1] * 16 + col[n - j + 1]
    <3> DEFINE i == n - j + 1
    <3>1. i \in 1..n /\ i - 1 = n - j /\ n - (j - 1) = i /\ j - 1 \in 0..n /\ j \in 0..n
      BY <1>1
    <3>2. W[j] = V[j] * 10 + c[i - 1] /\ W[j - 1] = V[j - 1] * 10 + c[i]
      BY <3>1
    <3>3. V[j] = V[j - 1] * 16 + sum[i]
      BY <1>11
    <3>4. c[i] * 16 + col[i] = c[i - 1] + sum[i] * 10 /\ col[i] \in Nat
      BY <1>5, <3>1
    <3>5. V[j - 1] \in Nat /\ c[i] \in Nat /\ c[i - 1] \in Nat /\ sum[i] \in Nat
      BY <1>1, <1>2, <1>4, <1>11, <3>1
    <3> HIDE DEF W, i, col
    <3>6. W[j] = (V[j - 1] * 10 + c[i]) * 16 + col[i]
      <4> DEFINE v == V[j - 1]
                 a == sum[i]
                 low == c[i - 1]
                 high == c[i]
                 d == col[i]
      <4>1. W[j] = (v * 16 + a) * 10 + low
        BY <3>2, <3>3
      <4>2. high * 16 + d = low + a * 10 /\ d \in Nat /\ v \in Nat /\ high \in Nat /\ low \in Nat /\ a \in Nat
        BY <3>4, <3>5
      <4> HIDE DEF v, a, low, high, d
      <4>3. (v * 16 + a) * 10 + low = (v * 10 + high) * 16 + d
        BY <4>2
      <4> QED
        BY <4>1, <4>3 DEF v, high, d
    <3> QED
      BY <3>2, <3>6 DEF i
  <2> QED
    BY <2>2, <2>3, <2>4
<1> HIDE DEF W
<1>13. bigInt(Reverse(after), 16) = W[n]
  <2>1. CASE last = 0
    <3>1. after = col
      BY <1>3, <1>7, <2>1
    <3>2. /\ Reverse(after) \in Seq(Nat) /\ Len(Reverse(after)) = n
          /\ \A j \in 1..n : Reverse(after)[j] = col[n - j + 1]
      <4> HIDE DEF col
      <4> QED
        BY <1>7, <3>1 DEF Reverse
    <3> HIDE DEF n, col
    <3>3. Reads(W, Reverse(after), 16)
      BY <1>12, <2>1, <3>2 DEF Reads
    <3> QED
      BY <3>2, <3>3, ReadText
  <2>2. CASE last # 0
    <3>1. after = Append(col, last)
      <4> HIDE DEF col, last
      <4> QED
        BY <1>3, <1>6, <1>7, <2>2
    <3>2. /\ Reverse(after) \in Seq(Nat) /\ Len(Reverse(after)) = n + 1
          /\ Reverse(after)[1] = last
          /\ \A j \in 1..n : Reverse(after)[j + 1] = col[n - j + 1]
      <4> HIDE DEF col, last
      <4> HIDE DEF n
      <4>1. /\ Reverse(after) \in Seq(Nat) /\ Len(Reverse(after)) = Len(col) + 1
            /\ Reverse(after)[1] = last
            /\ \A j \in 1..Len(col) : Reverse(after)[j + 1] = col[Len(col) - j + 1]
        BY <1>6, <1>7, <3>1, ReversedAppend
      <4> QED
        BY <1>7, <4>1
    <3> DEFINE Z == [j \in 0..(n + 1) |-> IF j = 0 THEN 0 ELSE W[j - 1]]
    <3>3. /\ Z[0] = 0 /\ Z[n + 1] = W[n] /\ Z \in [0..(n + 1) -> Nat]
          /\ \A j \in 1..(n + 1) : Z[j] = W[j - 1]
      <4> HIDE DEF n
      <4> QED
        BY <1>1, <1>12
    <3> HIDE DEF Z
    <3>4. ASSUME NEW k \in 1..(n + 1)
          PROVE  Z[k] = Z[k - 1] * 16 + Reverse(after)[k]
      <4> HIDE DEF n, col, last
      <4>1. CASE k = 1
        BY <1>1, <1>6, <1>12, <3>2, <3>3, <4>1
      <4>2. CASE k # 1
        <5> DEFINE j == k - 1
        <5>1. j \in 1..n /\ k = j + 1 /\ j \in 1..(n + 1)
          BY <1>1, <4>2
        <5> HIDE DEF j
        <5>2. Z[j + 1] = W[j] /\ Z[j] = W[j - 1]
          BY <1>1, <3>3, <5>1
        <5>3. W[j] = W[j - 1] * 16 + Reverse(after)[j + 1]
          BY <1>12, <3>2, <5>1
        <5>4. k - 1 = j
          BY <1>1, <5>1
        <5> QED
          BY <5>1, <5>2, <5>3, <5>4
      <4> QED
        BY <4>1, <4>2
    <3>5. Reads(Z, Reverse(after), 16)
      BY <3>2, <3>3, <3>4 DEF Reads
    <3> QED
      BY <3>2, <3>3, <3>5, ReadText
  <2> QED
    BY <2>1, <2>2
<1> QED
  BY <1>9, <1>11, <1>12, <1>13 DEF after

LEMMA EmptyText == <<>> \in Seq(Nat) /\ \A radix \in Nat : bigInt(<<>>, radix) = 0
<1>1. \A radix \in Nat : Reads([i \in 0..0 |-> 0], <<>>, radix)
  BY DEF Reads
<1>2. <<>> \in Seq(Nat)
  OBVIOUS
<1> DEFINE empty == <<>>
           f == [i \in 0..0 |-> 0]
<1>3. empty \in Seq(Nat) /\ Len(empty) = 0 /\ f[0] = 0 /\ \A radix \in Nat : Reads(f, empty, radix)
  BY <1>1
<1> HIDE DEF empty, f
<1>4. \A radix \in Nat : bigInt(empty, radix) = 0
  BY <1>3, ReadText
<1> QED
  BY <1>3, <1>4 DEF empty

(* The page's conversion from decimal to hexadecimal keeps the number, of  *)
(* whatever length.                                                        *)
THEOREM ConversionKeeps ==
  ASSUME NEW str \in Seq(Nat)
  PROVE  dec2hex(str) \in Seq(Nat) /\ bigInt(dec2hex(str), 16) = bigInt(str, 10)
<1> DEFINE n == Len(str)
           S == Seq(Nat)
           G == [k \in Positive |-> [s \in S |-> IF k \in 1..n THEN TimesTenPlus(s, str[k]) ELSE s]]
           P(sum) == sum = [i \in 0..n |-> IF i = 0 THEN <<>> ELSE TimesTenPlus(sum[i - 1], str[i])]
           chosen == CHOOSE sum : P(sum)
<1>1. n \in Nat /\ \A k \in 1..n : str[k] \in Nat
  OBVIOUS
<1>2. \A k \in 1..n : k \in Positive /\ k \in 0..n /\ k - 1 \in 0..n /\ k - 1 \in Nat
  <2> HIDE DEF n
  <2> QED
    BY <1>1 DEF Positive
<1>3. G \in [Positive -> [S -> S]]
  <2>1. ASSUME NEW k \in Positive, NEW s \in S
        PROVE  (IF k \in 1..n THEN TimesTenPlus(s, str[k]) ELSE s) \in S
    BY <1>1, TimesTen
  <2> QED
    BY <2>1
<1>4. \A k \in 1..n : \A s \in S : G[k][s] = TimesTenPlus(s, str[k])
  BY <1>2
<1>5. <<>> \in S
  OBVIOUS
<1> HIDE DEF G, S
<1>6. PICK f : Stepwise(f, S, <<>>, G)
  BY <1>3, <1>5, StepwiseExists
<1>7. f \in [Nat -> S] /\ f[0] = <<>>
  BY <1>6 DEF Stepwise
<1>8. ASSUME NEW k \in 1..n PROVE f[k - 1] \in S /\ f[k] = TimesTenPlus(f[k - 1], str[k])
  <2>1. f[k] = G[k][f[k - 1]] /\ f[k - 1] \in S
    BY <1>2, <1>6, <1>7 DEF Stepwise
  <2> QED
    BY <1>4, <2>1
<1> DEFINE r == [i \in 0..n |-> f[i]]
<1>9. \A k \in 0..n : r[k] = f[k]
  OBVIOUS
<1>10. P(r)
  <2>1. ASSUME NEW k \in 0..n
        PROVE  r[k] = IF k = 0 THEN <<>> ELSE TimesTenPlus(r[k - 1], str[k])
    <3> HIDE DEF r, n
    <3>1. CASE k = 0
      BY <1>7, <1>9, <3>1
    <3>2. CASE k \in 1..n
      BY <1>2, <1>8, <1>9, <3>2
    <3> QED
      BY <1>1, <3>1, <3>2
  <2> QED
    BY <2>1
<1>11. P(chosen)
  <2> HIDE DEF P, r
  <2> QED
    BY <1>10
<1>12. dec2hex(str) = Reverse(chosen[n])
  BY DEF dec2hex
<1>13. PICK V : Reads(V, str, 10)
  BY ReadExists
<1>14. /\ V \in [0..n -> Nat] /\ V[0] = 0 /\ bigInt(str, 10) = V[n]
       /\ \A k \in 1..n : V[k] = V[k - 1] * 10 + str[k]
  BY <1>13, ReadText DEF Reads
<1> HIDE DEF chosen, r
<1> DEFINE T == {k \in Nat : k <= n => /\ chosen[k] \in S
                                       /\ bigInt(Reverse(chosen[k]), 16) = V[k]}
<1>15. 0 \in T
  <2>1. chosen[0] = <<>>
    BY <1>1, <1>11
  <2>2. Reverse(<<>>) = <<>>
    BY DEF Reverse
  <2>3. <<>> \in S /\ bigInt(<<>>, 16) = 0
    BY EmptyText DEF S
  <2> HIDE DEF n, P
  <2> QED
    BY <1>14, <2>1, <2>2, <2>3
<1>16. ASSUME NEW k \in T PROVE k + 1 \in T
  <2>1. SUFFICES ASSUME k + 1 <= n
                 PROVE  /\ chosen[k + 1] \in S
                        /\ bigInt(Reverse(chosen[k + 1]), 16) = V[k + 1]
    OBVIOUS
  <2>2. k + 1 \in 1..n /\ (k + 1) - 1 = k /\ k + 1 # 0 /\ k <= n /\ k + 1 \in 0..n
    BY <1>1, <2>1
  <2>3. chosen[k + 1] = TimesTenPlus(chosen[k], str[k + 1])
    BY <1>11, <2>2
  <2>4. V[k + 1] = V[k] * 10 + str[k + 1]
    BY <1>14, <2>2
  <2>5. chosen[k] \in Seq(Nat) /\ bigInt(Reverse(chosen[k]), 16) = V[k] /\ str[k + 1] \in Nat
    BY <1>1, <2>2 DEF S
  <2> HIDE DEF n, P, T
  <2> QED
    BY <2>3, <2>4, <2>5, TimesTen DEF S
<1>17. T \in SUBSET Nat
  OBVIOUS
<1> HIDE DEF T
<1>18. T = Nat
  BY <1>15, <1>16, <1>17, SetInduction
<1>19. chosen[n] \in Seq(Nat) /\ bigInt(Reverse(chosen[n]), 16) = V[n]
  BY <1>1, <1>18 DEF T, S
<1> QED
  BY <1>12, <1>14, <1>19, Reversed

-----------------------------------------------------------------------------
(* The server reads from a user's passwordless the power it was made of.   *)
THEOREM PasswordlessRead ==
  ASSUME NEW x \in Nat
  PROVE  Passwordless(x) \in Seq(Nat) /\ bigInt(Passwordless(x), 16) = modPow(g, x)
<1>1. g \in Nat /\ N \in Nat
  BY GroupAssumption
<1> DEFINE p == modPow(g, x)
<1>2. p \in Nat
  BY <1>1, Power
<1> HIDE DEF p
<1>3. toString(p, 10) \in Seq(Nat) /\ bigInt(toString(p, 10), 10) = p
  BY <1>2, PrintedRead
<1>4. /\ dec2hex(toString(p, 10)) \in Seq(Nat)
      /\ bigInt(dec2hex(toString(p, 10)), 16) = bigInt(toString(p, 10), 10)
  BY <1>3, ConversionKeeps
<1> QED
  BY <1>3, <1>4 DEF Passwordless, p

(* The token of a page that knows the password is the one the server       *)
(* expects, whichever of the two radixes the challenge travelled in.       *)
THEOREM TokenExpected ==
  ASSUME NEW x \in Nat, NEW s \in Nat, NEW radix \in {10, 16}
  PROVE  equals(Expected(Passwordless(x), s),
                Answer(bigInt(toString(Challenge(s), radix), radix), x))
<1>1. g \in Nat /\ N \in Nat
  BY GroupAssumption
<1>2. modPow(g, s) \in Nat
  BY <1>1, Power
<1>3. bigInt(toString(Challenge(s), radix), radix) = modPow(g, s)
  BY <1>2, PrintedRead DEF Challenge
<1>4. Expected(Passwordless(x), s) = Answer(modPow(g, s), x)
  BY PasswordlessRead, SameNumber DEF Expected, Answer
<1> QED
  BY <1>3, <1>4 DEF equals
=============================================================================
