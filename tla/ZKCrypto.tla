------------------------------ MODULE ZKCrypto ------------------------------
(***************************************************************************)
(* The arithmetic of the zero-knowledge proof, and the texts it travels    *)
(* as.  A text of digits is the sequence of the digits' values, most       *)
(* significant first: passwordless is hexadecimal, the challenge of a 401  *)
(* and the ZKAuth-Token header are decimal, the challenge published to     *)
(* Kafka is hexadecimal.  BigInteger and big-integer print and read these  *)
(* texts alike; dec2hex is the page's own conversion between them.         *)
(***************************************************************************)
EXTENDS Naturals, Sequences, SequencesExt

CONSTANTS
    N,  \* the prime of both sides' settings
    g   \* the generator

ASSUME GroupAssumption == N \in Nat \ {0, 1} /\ g \in 1..(N - 1)

modPow(b, e) ==
    LET power[k \in 0..e] == IF k = 0 THEN 1 ELSE (b * power[k - 1]) % N
    IN  power[e]

toString(n, radix) ==
    LET text[k \in 0..n] == IF k < radix
                            THEN <<k>>
                            ELSE Append(text[k \div radix], k % radix)
    IN  text[n]

bigInt(text, radix) ==
    LET value[i \in 0..Len(text)] == IF i = 0 THEN 0 ELSE value[i - 1] * radix + text[i]
    IN  value[Len(text)]

(***************************************************************************)
(* dec2hex keeps the sixteens' digits in sum, least significant first.     *)
(* Each decimal digit s multiplies them by ten and adds itself: column i   *)
(* keeps s % 16 and carries the rest; what is carried out of the last      *)
(* column becomes a column of its own, unless it is zero.                  *)
(***************************************************************************)
Carried(sum, digit) ==
    LET carry[i \in 0..Len(sum)] ==
            IF i = 0 THEN digit ELSE (carry[i - 1] + sum[i] * 10) \div 16
    IN  carry

TimesTenPlus(sum, digit) ==
    LET carry == Carried(sum, digit)
        last  == carry[Len(sum)]
    IN  [i \in 1..Len(sum) |-> (carry[i - 1] + sum[i] * 10) % 16]
            \o IF last = 0 THEN <<>> ELSE <<last>>

dec2hex(str) ==
    LET sum[i \in 0..Len(str)] == IF i = 0 THEN <<>> ELSE TimesTenPlus(sum[i - 1], str[i])
    IN  Reverse(sum[Len(str)])

\* Mutant: the number is sent in decimal.
PasswordlessDecimal(x) == toString(modPow(g, x), 10)

\* What the page sends as passwordless when a user registers: g^x, x the password.
Passwordless(x) == dec2hex(toString(modPow(g, x), 10))

\* The page's answer, a token, to a challenge it was given as a number.
Answer(challenge, x) == toString(modPow(challenge, x), 10)

\* The server's number to be raised to x, and the token it expects.
Challenge(secret) == modPow(g, secret)
Expected(passwordless, secret) == toString(modPow(bigInt(passwordless, 16), secret), 10)

\* UserServiceImpl.equals reads both texts to the end whatever it meets.
equals(a, b) == Len(a) = Len(b) /\ \A i \in 1..Len(a) : a[i] = b[i]
=============================================================================
