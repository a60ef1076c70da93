------------------------------ MODULE Counters ------------------------------
(***************************************************************************)
(* Arithmetic of counters that wrap around and of the rings they index:    *)
(* the pipe's nread and nwrite, the indexes of the virtio rings, r, w and  *)
(* e of the console and r and w of the uart.                               *)
(***************************************************************************)
EXTENDS Integers, TLAPS

\* A positive multiple is at least the number itself.
LEMMA Positive == ASSUME NEW b \in Nat \ {0}, NEW d \in Int, d >= 1 PROVE b * d >= b
BY SMT, Z3

\* Multiplication distributes over sum and difference.
LEMMA Distributes ==
  ASSUME NEW b \in Int, NEW q \in Int, NEW s \in Int
  PROVE  b * (q + s) = b * q + b * s /\ b * (q - s) = b * q - b * s
BY SMT, Z3

\* Quotient and remainder are unique.
LEMMA ModUnique ==
  ASSUME NEW b \in Nat \ {0}, NEW q \in Int, NEW r \in 0..b-1
  PROVE  (b * q + r) % b = r
<1> DEFINE a == b * q + r
<1>1. PICK s \in Int, t \in 0..b-1 : a = b * s + t /\ a % b = t
  <2>1. a \in Int /\ a \div b \in Int /\ a % b \in 0..b-1 /\ a = b * (a \div b) + (a % b)
    BY SMT, Z3
  <2> QED
    BY <2>1, Zenon
<1>2. b * (q - s) = t - r
  BY <1>1, SMT, Z3
<1>3. q - s < 1
  BY <1>1, <1>2, Positive, SMT, Z3
<1>4. b * (s - q) = r - t
  BY <1>1, SMT, Z3
<1>5. s - q < 1
  BY <1>4, <1>1, Positive, SMT, Z3
<1> QED
  BY <1>1, <1>3, <1>5, SMT, Z3

\* A counter modulo m wraps to 0 after m - 1.
LEMMA ModNext == ASSUME NEW m \in Nat \ {0}, NEW x \in 0..m-1
  PROVE (x + 1) % m = IF x + 1 = m THEN 0 ELSE x + 1
<1>1. CASE x + 1 = m
  <2>1. (m * 1 + 0) % m = 0
    BY ModUnique, SMT, Z3
  <2> QED
    BY <1>1, <2>1, SMT, Z3
<1>2. CASE x + 1 # m
  <2>1. x + 1 \in 0..m-1
    BY <1>2, SMT, Z3
  <2>2. (m * 0 + (x + 1)) % m = x + 1
    BY <2>1, ModUnique, SMT, Z3
  <2> QED
    BY <1>2, <2>2, SMT, Z3
<1> QED
  BY <1>1, <1>2, Zenon

\* The distance from y to x of two counters modulo m.
LEMMA ModDiff == ASSUME NEW m \in Nat \ {0}, NEW x \in 0..m-1, NEW y \in 0..m-1
  PROVE (x - y) % m = IF x >= y THEN x - y ELSE x - y + m
<1>1. CASE x >= y
  <2>1. x - y \in 0..m-1
    BY <1>1, SMT, Z3
  <2>2. (m * 0 + (x - y)) % m = x - y
    BY <2>1, ModUnique, SMT, Z3
  <2> QED
    BY <1>1, <2>2, SMT, Z3
<1>2. CASE x < y
  <2>1. x - y + m \in 0..m-1
    BY <1>2, SMT, Z3
  <2>2. (m * (-1) + (x - y + m)) % m = x - y + m
    BY <2>1, ModUnique, SMT, Z3
  <2> QED
    BY <1>2, <2>2, SMT, Z3
<1> QED
  BY <1>1, <1>2, SMT, Z3

\* Multiples of b do not change a remainder modulo b.
LEMMA ModMultiple ==
  ASSUME NEW b \in Nat \ {0}, NEW q \in Int, NEW s \in Int, NEW r \in 0..b-1
  PROVE  (b * q + r + b * s) % b = r /\ (b * q + r - b * s) % b = r
<1>1. b * q + r + b * s = b * (q + s) + r /\ b * q + r - b * s = b * (q - s) + r
  BY Distributes, SMT, Z3
<1>2. (b * (q + s) + r) % b = r /\ (b * (q - s) + r) % b = r
  BY ModUnique, SMT, Z3
<1> QED
  BY <1>1, <1>2, Zenon

\* A ring index does not see the wrap of a counter whose modulus is a multiple of
\* the ring's size.
LEMMA ModShift ==
  ASSUME NEW b \in Nat \ {0}, NEW m \in Nat, m % b = 0, NEW a \in Int
  PROVE  (a + m) % b = a % b /\ (a - m) % b = a % b
<1>1. a = b * (a \div b) + (a % b) /\ a \div b \in Int /\ a % b \in 0..b-1
  BY SMT, Z3
<1>2. m = b * (m \div b) /\ m \div b \in Int
  BY SMT, Z3
<1>3. PICK q \in Int, r \in 0..b-1, s \in Int : a = b * q + r /\ m = b * s /\ r = a % b
  BY <1>1, <1>2, Zenon
<1>4. (b * q + r + b * s) % b = r /\ (b * q + r - b * s) % b = r
  BY ModMultiple, Zenon
<1> QED
  BY <1>3, <1>4, SMTT(30), Z3T(30)

\* Less than b positions apart, two indexes of a ring of size b differ.
LEMMA ModApart == ASSUME NEW b \in Nat \ {0}, NEW a \in Int, NEW d \in 1..b-1
  PROVE (a + d) % b # a % b
<1>1. a = b * (a \div b) + (a % b) /\ a \div b \in Int /\ a % b \in 0..b-1
  BY SMT, Z3
<1>3. PICK q \in Int, r \in 0..b-1 : a = b * q + r /\ r = a % b
  BY <1>1, Zenon
<1>4. CASE r + d < b
  <2>1. a + d = b * q + (r + d) /\ r + d \in 0..b-1
    BY <1>3, <1>4, SMT, Z3
  <2>2. (b * q + (r + d)) % b = r + d
    BY <2>1, ModUnique, Zenon
  <2> QED
    BY <1>3, <2>1, <2>2, SMT, Z3
<1>5. CASE r + d >= b
  <2>1. PICK u \in 0..b-1 : u = r + d - b
    BY <1>5, SMT, Z3
  <2>2. PICK p \in Int : p = q + 1
    BY SMT, Z3
  <2>3. b * p = b * q + b
    BY <2>2, Distributes, SMT, Z3
  <2>4. a + d = b * p + u
    BY <1>3, <2>1, <2>3, SMT, Z3
  <2>5. (b * p + u) % b = u
    BY ModUnique, Zenon
  <2> QED
    BY <1>3, <2>1, <2>4, <2>5, SMT, Z3
<1> QED
  BY <1>4, <1>5, SMT, Z3
=============================================================================
