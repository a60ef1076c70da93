----------------------------- MODULE DevProofs ------------------------------
(***************************************************************************)
(* Proofs about module Dev for every set of processes and workloads, every *)
(* size of the console's and the uart's buffers and every width of their   *)
(* counters and of ticks.                                                  *)
(***************************************************************************)
EXTENDS Dev, Counters

PCs == {"user", "ret", "read", "rhold", "rdoze", "rasleep", "write", "put", "wasleep",
        "start", "sleep", "tdoze", "tasleep"}

Types ==
  /\ TypeOK /\ load \in Workloads /\ pc \in [Procs -> PCs]
  /\ call \in [Procs -> [left: Int, any: BOOLEAN, ticks0: 0..UINT-1]]
  /\ slept \in [Procs -> 0..UINT-1]

\* All but the last: what consoleintr leaves of the line after ^H.
Front(q) == SubSeq(q, 1, Len(q) - 1)

\* A ring of size bytes holds q from index a up to b.
Holds(buf, a, b, size, q) ==
  /\ Minus(b, a) = Len(q) /\ Len(q) <= size
  /\ \A k \in 1..Len(q) : buf[(a + (k - 1)) % size] = q[k]

\* The console's buffer holds the committed lines and then the line being edited,
\* which never contains a newline; a full buffer is committed.  One process at a
\* time has cons.lock, and no reader sleeps, or is about to, while there is input.
Input ==
  /\ cons \in [buf: [0..INPUT_BUF_SIZE-1 -> Keys], r: 0..UINT-1, w: 0..UINT-1, e: 0..UINT-1]
  /\ ready \in Seq(Keys) /\ line \in Seq({"x"})
  /\ Holds(cons.buf, cons.r, cons.e, INPUT_BUF_SIZE, ready \o line)
  /\ Minus(cons.w, cons.r) = Len(ready)
  /\ Len(ready \o line) = INPUT_BUF_SIZE => line = << >>
  /\ \A p \in Procs : pc[p] \in {"rdoze", "rasleep"} => cons.r = cons.w
  /\ \A p, q \in Procs : pc[p] \in {"rhold", "rdoze"} /\ pc[q] \in {"rhold", "rdoze"} => p = q

\* Where the bytes not yet sent start: between the update of uart_tx_r and the
\* write to THR the first of them is one place before.
Base == IF tx.at = "send" THEN Minus(uart.r, 1) ELSE uart.r

\* The transmit buffer holds the bytes not yet sent; uart_tx_lock is held by who
\* runs uartstart; and a byte is sent to a FIFO that is empty but for an echo.
Output ==
  /\ uart \in [buf: [0..UART_TX_BUF_SIZE-1 -> Procs \cup {"none"}], r: 0..UINT-1, w: 0..UINT-1]
  /\ outq \in Seq(Procs)
  /\ Holds(uart.buf, Base, uart.w, UART_TX_BUF_SIZE, outq)
  /\ \A p \in Procs : pc[p] = "start" <=> tx.owner = p
  /\ handler = "start" <=> tx.owner = "intr"
  /\ tx.at = "send" => ~TxFree /\ fifo <= 1 /\ outq # << >>

\* slept counts the ticks since the sleep was called, also across a wrap of ticks.
Sleep ==
  /\ \A p \in Procs : Sleeping(p) => Minus(ticks, call[p].ticks0) = slept[p]
  /\ \A p \in Procs : pc[p] \notin {"sleep", "tdoze", "tasleep", "ret"} => slept[p] = 0

IInv == Types /\ Input /\ Output /\ Sleep
-----------------------------------------------------------------------------
\* Counters of UINT values and rings whose size divides UINT.

RingSize(size) == size \in Nat \ {0} /\ UINT \in Nat /\ UINT > size /\ UINT % size = 0

\* From a it is d steps to b.
Dist(a, b, d) == a + d = b \/ a + d = b + UINT

\* Both buffers have such a size.
LEMMA Sizes == RingSize(INPUT_BUF_SIZE) /\ RingSize(UART_TX_BUF_SIZE)
BY DevAssumption, SMT, Z3 DEF RingSize

\* The counters of console.c, uart.c and trap.c have at least two values.
LEMMA UintType == UINT \in Nat /\ UINT > 1
BY DevAssumption, SMT, Z3

\* A difference of counters is the distance.
LEMMA MinusDist ==
  ASSUME NEW a \in 0..UINT-1, NEW b \in 0..UINT-1
  PROVE  /\ Minus(b, a) \in 0..UINT-1
         /\ Dist(a, b, Minus(b, a))
         /\ \A d \in 0..UINT-1 : Dist(a, b, d) => Minus(b, a) = d
<1>1. UINT \in Nat \ {0}
  BY UintType, SMT, Z3
<1>2. (b - a) % UINT = IF b >= a THEN b - a ELSE b - a + UINT
  BY <1>1, ModDiff, Zenon
<1>3. PICK m \in Int : m = (b - a) % UINT /\ m = IF b >= a THEN b - a ELSE b - a + UINT
  BY <1>1, <1>2, SMT, Z3
<1>4. m \in 0..UINT-1 /\ (a + m = b \/ a + m = b + UINT)
  BY <1>1, <1>3, SMT, Z3
<1>5. ASSUME NEW d \in 0..UINT-1, a + d = b \/ a + d = b + UINT PROVE m = d
  BY <1>1, <1>4, <1>5, SMT, Z3
<1> QED
  BY <1>3, <1>4, <1>5, Zenon DEF Minus, Dist

\* Counting up and down.
LEMMA Around ==
  ASSUME NEW a \in 0..UINT-1
  PROVE  /\ Plus(a, 1) \in 0..UINT-1 /\ Minus(a, 1) \in 0..UINT-1
         /\ Dist(a, Plus(a, 1), 1) /\ Dist(Minus(a, 1), a, 1)
         /\ Plus(Minus(a, 1), 1) = a /\ Minus(Plus(a, 1), 1) = a
<1>1. UINT \in Nat \ {0} /\ UINT > 1 /\ 1 \in 0..UINT-1
  BY UintType, SMT, Z3
<1>2. PICK u \in 0..UINT-1 : u = Plus(a, 1) /\ u = IF a + 1 = UINT THEN 0 ELSE a + 1
  <2>1. Plus(a, 1) = IF a + 1 = UINT THEN 0 ELSE a + 1
    BY <1>1, ModNext, Zenon DEF Plus
  <2> QED
    BY <1>1, <2>1, SMT, Z3
<1>3. PICK v \in 0..UINT-1 : v = Minus(a, 1) /\ v = IF a >= 1 THEN a - 1 ELSE a - 1 + UINT
  <2>1. Minus(a, 1) = IF a >= 1 THEN a - 1 ELSE a - 1 + UINT
    BY <1>1, ModDiff, Zenon DEF Minus
  <2> QED
    BY <1>1, <2>1, SMT, Z3
<1>4. Plus(v, 1) = a
  <2>1. Plus(v, 1) = IF v + 1 = UINT THEN 0 ELSE v + 1
    BY <1>1, ModNext, Zenon DEF Plus
  <2> QED
    BY <1>1, <1>3, <2>1, SMT, Z3
<1>5. Minus(u, 1) = a
  <2>1. Minus(u, 1) = IF u >= 1 THEN u - 1 ELSE u - 1 + UINT
    BY <1>1, ModDiff, Zenon DEF Minus
  <2> QED
    BY <1>1, <1>2, <2>1, SMT, Z3
<1>6. (a + 1 = u \/ a + 1 = u + UINT) /\ (v + 1 = a \/ v + 1 = a + UINT)
  BY <1>1, <1>2, <1>3, SMT, Z3
<1> QED
  BY <1>2, <1>3, <1>4, <1>5, <1>6, Zenon DEF Dist

\* Adding the distance leads there.
LEMMA PlusDist ==
  ASSUME NEW a \in 0..UINT-1, NEW b \in 0..UINT-1, NEW d \in Nat, Dist(a, b, d)
  PROVE  Plus(a, d) = b
<1>1. UINT \in Nat \ {0} /\ 0 \in Int /\ 1 \in Int
  BY UintType, SMT, Z3
<1>2. a + d = UINT * 0 + b \/ a + d = UINT * 1 + b
  BY <1>1, SMT, Z3 DEF Dist
<1>3. (UINT * 0 + b) % UINT = b /\ (UINT * 1 + b) % UINT = b
  BY <1>1, ModUnique, Zenon
<1> QED
  BY <1>2, <1>3, Zenon DEF Plus

\* A ring index does not see a wrap: the place is the same, counted from a or from b.
LEMMA SameSlot ==
  ASSUME NEW size, RingSize(size), NEW a \in 0..UINT-1, NEW b \in 0..UINT-1,
         NEW d \in Int, Dist(a, b, d), NEW k \in Int
  PROVE  (b + k) % size = (a + (d + k)) % size
<1>1. size \in Nat \ {0} /\ UINT \in Nat /\ UINT % size = 0
  BY Zenon DEF RingSize
<1>2. PICK m \in Int : m = b + k
  BY <1>1, SMT, Z3
<1>3. (m + UINT) % size = m % size
  BY <1>1, ModShift, Zenon
<1>4. a + (d + k) = m \/ a + (d + k) = m + UINT
  BY <1>1, <1>2, SMT, Z3 DEF Dist
<1> QED
  BY <1>2, <1>3, <1>4, Zenon

\* The place of b, counted from a.
LEMMA SlotAt ==
  ASSUME NEW size, RingSize(size), NEW a \in 0..UINT-1, NEW b \in 0..UINT-1,
         NEW d \in Int, Dist(a, b, d)
  PROVE  b % size = (a + d) % size
<1>1. 0 \in Int /\ b + 0 = b /\ d + 0 = d
  BY SMT, Z3
<1>2. (b + 0) % size = (a + (d + 0)) % size
  BY <1>1, SameSlot, ZenonT(30)
<1> QED
  BY <1>1, <1>2, Zenon

\* Less than size apart, two places of a ring differ.
LEMMA OtherSlot ==
  ASSUME NEW size, RingSize(size), NEW a \in Int, NEW j \in Int, NEW k \in Int,
         j < k, k - j < size
  PROVE  (a + j) % size # (a + k) % size
<1>1. size \in Nat \ {0}
  BY Zenon DEF RingSize
<1>2. PICK m \in Int, d \in 1..size-1 : m = a + j /\ d = k - j /\ a + k = m + d
  BY <1>1, SMT, Z3
<1>3. (m + d) % size # m % size
  BY <1>1, ModApart, Zenon
<1> QED
  BY <1>2, <1>3, Zenon

\* The places of a ring are its indexes.
LEMMA SlotType ==
  ASSUME NEW size, RingSize(size), NEW a \in Int
  PROVE  a % size \in 0..size-1
BY SMT, Z3 DEF RingSize
-----------------------------------------------------------------------------
\* What a ring holds.

\* Holds, with the number of bytes named.
LEMMA Holding ==
  ASSUME NEW size, RingSize(size), NEW S, NEW q \in Seq(S), NEW buf,
         NEW a \in 0..UINT-1, NEW b \in 0..UINT-1, Holds(buf, a, b, size, q)
  PROVE  \E n \in Nat : /\ n = Len(q) /\ n <= size /\ Minus(b, a) = n /\ Dist(a, b, n)
                        /\ size \in Nat /\ UINT \in Nat /\ UINT > size
<1>1. Len(q) \in Nat
  BY SMT, Z3
<1>2. size \in Nat /\ UINT \in Nat /\ UINT > size
  BY Zenon DEF RingSize
<1>3. Minus(b, a) = Len(q) /\ Len(q) <= size
  BY Zenon DEF Holds
<1>4. Dist(a, b, Minus(b, a))
  BY MinusDist, Zenon
<1> QED
  BY <1>1, <1>2, <1>3, <1>4, Zenon

\* One step more, and one step less.
LEMMA DistStep ==
  ASSUME NEW a \in 0..UINT-1, NEW b \in 0..UINT-1, NEW u \in 0..UINT-1, NEW n \in Nat, Dist(a, b, n)
  PROVE  /\ Dist(b, u, 1) /\ n + 1 < UINT => Dist(a, u, n + 1)
         /\ Dist(u, b, 1) /\ n >= 1 => Dist(a, u, n - 1)
<1>1. UINT \in Nat /\ a \in Nat /\ b \in Nat /\ u \in Nat /\ a < UINT /\ b < UINT /\ u < UINT
  BY UintType, SMT, Z3
<1>2. ASSUME b + 1 = u \/ b + 1 = u + UINT, n + 1 < UINT PROVE a + (n + 1) = u \/ a + (n + 1) = u + UINT
  BY <1>1, <1>2, SMT, Z3 DEF Dist
<1>3. ASSUME u + 1 = b \/ u + 1 = b + UINT, n >= 1 PROVE a + (n - 1) = u \/ a + (n - 1) = u + UINT
  BY <1>1, <1>3, SMT, Z3 DEF Dist
<1> QED
  BY <1>2, <1>3, Zenon DEF Dist

\* Advancing the end of a ring that is not full adds a byte and overwrites none.
LEMMA Push ==
  ASSUME NEW size, RingSize(size), NEW S, NEW buf \in [0..size-1 -> S], NEW c \in S,
         NEW a \in 0..UINT-1, NEW b \in 0..UINT-1, NEW q \in Seq(S),
         Holds(buf, a, b, size, q), Len(q) < size
  PROVE  Holds([buf EXCEPT ![b % size] = c], a, Plus(b, 1), size, Append(q, c))
<1> DEFINE new == [buf EXCEPT ![b % size] = c]
<1>1. PICK n \in Nat : /\ n = Len(q) /\ n <= size /\ Minus(b, a) = n /\ Dist(a, b, n)
                       /\ size \in Nat /\ UINT \in Nat /\ UINT > size
  BY Holding, Zenon
<1>2. n < size /\ a \in Int /\ b \in Int /\ n \in Int /\ 0 \in Int
  BY <1>1, SMT, Z3
<1>3. Minus(Plus(b, 1), a) = n + 1
  <2>1. PICK u \in 0..UINT-1 : u = Plus(b, 1) /\ Dist(b, u, 1)
    BY Around, Zenon
  <2>2. n + 1 \in 0..UINT-1 /\ n + 1 < UINT
    BY <1>1, <1>2, SMT, Z3
  <2>3. Dist(a, u, n + 1)
    BY <1>1, <2>1, <2>2, DistStep, Zenon
  <2> QED
    BY <2>1, <2>2, <2>3, MinusDist, Zenon
<1>4. b % size = (a + n) % size
  BY <1>1, <1>2, SlotAt, ZenonT(30)
<1>5. ASSUME NEW k \in 1..n PROVE new[(a + (k - 1)) % size] = q[k]
  <2>1. PICK j \in Int : j = k - 1 /\ j < n /\ n - j < size + 1 /\ a + j \in Int
    BY <1>1, <1>2, SMT, Z3
  <2>2. n - j < size
    BY <1>1, <1>2, <2>1, SMT, Z3
  <2>3. (a + j) % size # (a + n) % size
    BY <1>2, <2>1, <2>2, OtherSlot, Zenon
  <2>4. (a + j) % size \in 0..size-1
    BY <2>1, SlotType, Zenon
  <2> QED
    BY <1>1, <1>4, <2>1, <2>3, <2>4, Zenon DEF Holds
<1>6. new[(a + n) % size] = c
  <2>1. b % size \in 0..size-1
    BY <1>2, SlotType, Zenon
  <2> QED
    BY <1>4, <2>1, Zenon
<1>7. /\ Len(Append(q, c)) = n + 1 /\ Append(q, c)[n + 1] = c
      /\ \A k \in 1..n : Append(q, c)[k] = q[k]
  BY <1>1, SMT, Z3
<1>8. ASSUME NEW k \in 1..n+1 PROVE new[(a + (k - 1)) % size] = Append(q, c)[k]
  <2>1. CASE k \in 1..n
    BY <1>5, <1>7, <2>1, Zenon
  <2>2. CASE k = n + 1
    <3>1. k - 1 = n
      BY <1>2, <2>2, SMT, Z3
    <3> QED
      BY <1>6, <1>7, <2>2, <3>1, Zenon
  <2> QED
    BY <1>1, <2>1, <2>2, SMT, Z3
<1>9. n + 1 <= size
  BY <1>1, <1>2, SMT, Z3
<1> QED
  BY <1>3, <1>7, <1>8, <1>9, Zenon DEF Holds

\* Advancing the start takes the first byte; its place may be overwritten.
LEMMA Pop ==
  ASSUME NEW size, RingSize(size), NEW S, NEW buf \in [0..size-1 -> S], NEW c,
         NEW a \in 0..UINT-1, NEW b \in 0..UINT-1, NEW q \in Seq(S),
         Holds(buf, a, b, size, q), q # << >>
  PROVE  /\ buf[a % size] = Head(q)
         /\ Holds(buf, Plus(a, 1), b, size, Tail(q))
         /\ Holds([buf EXCEPT ![a % size] = c], Plus(a, 1), b, size, Tail(q))
<1> DEFINE new == [buf EXCEPT ![a % size] = c]
<1>1. PICK n \in Nat : /\ n = Len(q) /\ n <= size /\ Minus(b, a) = n /\ Dist(a, b, n)
                       /\ size \in Nat /\ UINT \in Nat /\ UINT > size
  BY Holding, Zenon
<1>2. n >= 1 /\ a \in Int /\ b \in Int /\ 1 \in Int /\ 0 \in Int
  BY <1>1, SMT, Z3
<1>3. PICK u \in 0..UINT-1 : u = Plus(a, 1) /\ Dist(a, u, 1)
  BY Around, Zenon
<1>4. Minus(b, u) = n - 1
  <2>1. Dist(u, b, n - 1) /\ n - 1 \in 0..UINT-1
    BY <1>1, <1>2, <1>3, SMTT(30), Z3T(30) DEF Dist
  <2> QED
    BY <2>1, MinusDist, Zenon
<1>5. Len(Tail(q)) = n - 1 /\ \A k \in 1..n-1 : Tail(q)[k] = q[k + 1]
  BY <1>1, <1>2, SMT, Z3
<1>6. ASSUME NEW k \in 1..n-1
      PROVE  /\ buf[(u + (k - 1)) % size] = Tail(q)[k]
             /\ new[(u + (k - 1)) % size] = Tail(q)[k]
  <2>1. PICK j \in Int : /\ j = k - 1 /\ 1 + j = k /\ k \in Int /\ 0 < k /\ k - 0 < size
                         /\ (k + 1) - 1 = k /\ k + 1 \in 1..n /\ u + j \in Int /\ a + 0 = a
    BY <1>1, <1>2, SMT, Z3
  <2>2. (u + j) % size = (a + k) % size
    <3>0. Dist(a, u, 1) /\ 1 \in Int
      BY <1>2, <1>3, Zenon
    <3>1. (u + j) % size = (a + (1 + j)) % size
      BY <3>0, SameSlot, ZenonT(30)
    <3> QED
      BY <2>1, <3>1, Zenon
  <2>3. buf[(a + k) % size] = q[k + 1]
    BY <1>1, <2>1, Zenon DEF Holds
  <2>4. (a + 0) % size # (a + k) % size
    BY <1>2, <2>1, OtherSlot, Zenon
  <2>5. (u + j) % size \in 0..size-1
    BY <2>1, SlotType, Zenon
  <2> QED
    BY <1>5, <2>1, <2>2, <2>3, <2>4, <2>5, Zenon
<1>7. buf[a % size] = Head(q)
  <2>1. 1 \in 1..n /\ a + (1 - 1) = a /\ Head(q) = q[1]
    BY <1>1, <1>2, SMT, Z3
  <2> QED
    BY <1>1, <2>1, Zenon DEF Holds
<1>8. n - 1 <= size
  BY <1>1, SMT, Z3
<1> QED
  BY <1>3, <1>4, <1>5, <1>6, <1>7, <1>8, Zenon DEF Holds

\* Taking back the end takes the last byte.
LEMMA Unpush ==
  ASSUME NEW size, RingSize(size), NEW S, NEW buf, NEW a \in 0..UINT-1, NEW b \in 0..UINT-1,
         NEW q \in Seq(S), Holds(buf, a, b, size, q), q # << >>
  PROVE  Holds(buf, a, Minus(b, 1), size, Front(q))
<1>1. PICK n \in Nat : /\ n = Len(q) /\ n <= size /\ Minus(b, a) = n /\ Dist(a, b, n)
                       /\ size \in Nat /\ UINT \in Nat /\ UINT > size
  BY Holding, Zenon
<1>2. n >= 1 /\ n - 1 <= size
  BY <1>1, SMT, Z3
<1>3. PICK v \in 0..UINT-1 : v = Minus(b, 1) /\ Dist(v, b, 1)
  BY Around, Zenon
<1>4. Minus(v, a) = n - 1
  <2>1. n - 1 \in 0..UINT-1
    BY <1>1, <1>2, SMT, Z3
  <2>2. Dist(a, v, n - 1)
    BY <1>1, <1>2, <1>3, DistStep, Zenon
  <2> QED
    BY <2>1, <2>2, MinusDist, Zenon
<1>5. Len(Front(q)) = n - 1 /\ \A k \in 1..n-1 : Front(q)[k] = q[k] /\ k \in 1..n
  BY <1>1, <1>2, SMT, Z3 DEF Front
<1> QED
  BY <1>1, <1>2, <1>3, <1>4, <1>5, Zenon DEF Holds

\* A ring that holds two pieces, one behind the other.
LEMMA Split ==
  ASSUME NEW size, RingSize(size), NEW S, NEW buf, NEW a \in 0..UINT-1, NEW b \in 0..UINT-1,
         NEW c \in 0..UINT-1, NEW p \in Seq(S), NEW q \in Seq(S),
         Holds(buf, a, c, size, p \o q), Minus(b, a) = Len(p)
  PROVE  Holds(buf, a, b, size, p) /\ Holds(buf, b, c, size, q)
<1>0. p \o q \in Seq(S)
  BY SMT, Z3
<1>1. PICK n \in Nat : /\ n = Len(p \o q) /\ n <= size /\ Minus(c, a) = n /\ Dist(a, c, n)
                       /\ size \in Nat /\ UINT \in Nat /\ UINT > size
  BY <1>0, Holding, Zenon
<1>2. PICK m \in Nat, l \in Nat : m = Len(p) /\ l = Len(q)
  BY SMT, Z3
<1>3. /\ n = m + l /\ m <= size /\ l <= size /\ m \in Int
      /\ \A k \in 1..m : (p \o q)[k] = p[k] /\ k \in 1..n
      /\ \A k \in 1..l : (p \o q)[m + k] = q[k] /\ m + k \in 1..n
  BY <1>1, <1>2, SMTT(30), Z3T(30)
<1>4. Dist(a, b, m)
  <2>1. Dist(a, b, Minus(b, a))
    BY MinusDist, Zenon
  <2> QED
    BY <1>2, <2>1, Zenon
<1>5. Minus(c, b) = l
  <2>1. Dist(b, c, l) /\ l \in 0..UINT-1
    BY <1>1, <1>3, <1>4, SMT, Z3 DEF Dist
  <2> QED
    BY <2>1, MinusDist, Zenon
<1>6. ASSUME NEW k \in 1..l PROVE buf[(b + (k - 1)) % size] = q[k]
  <2>1. PICK j \in Int : j = k - 1 /\ m + j = (m + k) - 1
    BY <1>2, SMT, Z3
  <2>2. (b + j) % size = (a + (m + j)) % size
    BY <1>3, <1>4, SameSlot, ZenonT(30)
  <2> QED
    BY <1>1, <1>3, <2>1, <2>2, ZenonT(30) DEF Holds
<1> QED
  BY <1>1, <1>2, <1>3, <1>5, <1>6, Zenon DEF Holds

\* Slots are what the ring holds.
LEMMA HoldsSlots ==
  ASSUME NEW size, RingSize(size), NEW S, NEW buf, NEW a \in 0..UINT-1, NEW b \in 0..UINT-1,
         NEW q \in Seq(S), Holds(buf, a, b, size, q)
  PROVE  Slots(buf, a, b, size) = q
<1>1. PICK n \in Nat : /\ n = Len(q) /\ n <= size /\ Minus(b, a) = n /\ Dist(a, b, n)
                       /\ size \in Nat /\ UINT \in Nat /\ UINT > size
  BY Holding, Zenon
<1>2. ASSUME NEW k \in 1..n PROVE buf[Plus(a, k - 1) % size] = q[k]
  <2>1. PICK m \in Int : m = a + (k - 1) /\ m \in 0..UINT+UINT-1 /\ UINT \in Nat \ {0}
    BY <1>1, SMT, Z3
  <2>2. PICK u \in 0..UINT-1 : u = m % UINT /\ (u = m \/ u + UINT = m)
    <3>1. CASE m < UINT
      <4>1. m \in 0..UINT-1 /\ UINT * 0 + m = m /\ 0 \in Int
        BY <2>1, <3>1, SMT, Z3
      <4>2. (UINT * 0 + m) % UINT = m
        BY <2>1, <4>1, ModUnique, Zenon
      <4> QED
        BY <4>1, <4>2, Zenon
    <3>2. CASE m >= UINT
      <4>1. PICK r \in 0..UINT-1 : r = m - UINT /\ m = UINT * 1 + r
        BY <2>1, <3>2, SMT, Z3
      <4>2. (UINT * 1 + r) % UINT = r
        BY <2>1, ModUnique, SMT, Z3
      <4> QED
        BY <2>1, <4>1, <4>2, SMT, Z3
    <3> QED
      BY <2>1, <3>1, <3>2, SMT, Z3
  <2>3. (u + UINT) % size = u % size
    <3>1. size \in Nat \ {0} /\ UINT \in Nat /\ UINT % size = 0 /\ u \in Int
      BY <1>1, SMT, Z3 DEF RingSize
    <3> QED
      BY <3>1, ModShift, Zenon
  <2>4. buf[m % size] = q[k]
    BY <1>1, <2>1, Zenon DEF Holds
  <2> QED
    BY <2>1, <2>2, <2>3, <2>4, Zenon DEF Plus
<1>3. Slots(buf, a, b, size) = [k \in 1..n |-> q[k]]
  BY <1>1, <1>2, Zenon DEF Slots
<1>4. q = [k \in 1..n |-> q[k]]
  BY <1>1, SMT, Z3
<1> QED
  BY <1>3, <1>4, Zenon

\* Sequences with the same elements are the same.
LEMMA SameSeq ==
  ASSUME NEW S, NEW p \in Seq(S), NEW q \in Seq(S), Len(p) = Len(q),
         \A k \in 1..Len(p) : p[k] = q[k]
  PROVE  p = q
BY SMT, Z3

\* The tail of two pieces is the tail of the first and the second.
LEMMA TailConcat ==
  ASSUME NEW S, NEW p \in Seq(S), NEW q \in Seq(S), p # << >>
  PROVE  /\ p \o q \in Seq(S) /\ p \o q # << >>
         /\ Tail(p) \in Seq(S) /\ Tail(p \o q) = Tail(p) \o q
         /\ Len(Tail(p)) = Len(p) - 1 /\ Len(p) \in Nat /\ Len(p) >= 1
<1>2. Len(p) \in Nat /\ Len(p) >= 1 /\ Len(Tail(p)) = Len(p) - 1 /\ Tail(p) \in Seq(S)
  BY SMT, Z3
<1>3. p \o q \in Seq(S) /\ Len(p \o q) = Len(p) + Len(q) /\ Len(q) \in Nat
  BY SMT, Z3
<1>4. p \o q # << >>
  BY <1>2, <1>3, SMT, Z3
<1>5. Tail(p \o q) = Tail(p) \o q
  <2>1. Len(Tail(p \o q)) = Len(Tail(p) \o q)
    BY <1>2, <1>3, <1>4, SMT, Z3
  <2>2. \A k \in 1..Len(Tail(p \o q)) : Tail(p \o q)[k] = (Tail(p) \o q)[k]
    BY <1>2, <1>3, <1>4, SMTT(30), Z3T(30)
  <2>3. Tail(p \o q) \in Seq(S) /\ Tail(p) \o q \in Seq(S)
    BY <1>2, <1>3, <1>4, SMT, Z3
  <2> QED
    BY <2>1, <2>2, <2>3, SameSeq, SMT, Z3
<1> QED
  BY <1>2, <1>3, <1>4, <1>5, Zenon

\* Appending to the second piece is appending to both.
LEMMA AppendConcat ==
  ASSUME NEW S, NEW p \in Seq(S), NEW q \in Seq(S), NEW c \in S
  PROVE  /\ p \o Append(q, c) = Append(p \o q, c) /\ Append(q, c) \in Seq(S)
         /\ p \o Append(q, c) \in Seq(S) /\ Append(q, c) # << >>
         /\ Len(p) + Len(Append(q, c)) = Len(p \o q) + 1
         /\ Len(p \o Append(q, c)) = Len(p \o q) + 1 /\ Len(p \o q) \in Nat
         /\ p \o Append(q, c) \o << >> = p \o Append(q, c)
<1>1. /\ Append(q, c) \in Seq(S) /\ Append(q, c) # << >> /\ Len(Append(q, c)) = Len(q) + 1
      /\ p \o q \in Seq(S) /\ Len(p \o q) = Len(p) + Len(q) /\ Len(p) \in Nat /\ Len(q) \in Nat
  BY SMT, Z3
<1>2. /\ p \o Append(q, c) \in Seq(S) /\ Len(p \o Append(q, c)) = Len(p) + Len(q) + 1
      /\ Append(p \o q, c) \in Seq(S) /\ Len(Append(p \o q, c)) = Len(p) + Len(q) + 1
  BY <1>1, SMT, Z3
<1>3. \A k \in 1..Len(p)+Len(q)+1 : (p \o Append(q, c))[k] = Append(p \o q, c)[k]
  BY <1>1, <1>2, SMT, Z3
<1>4. p \o Append(q, c) = Append(p \o q, c)
  BY <1>2, <1>3, SameSeq, SMT, Z3
<1>5. p \o Append(q, c) \o << >> = p \o Append(q, c)
  BY <1>2, SMT, Z3
<1> QED
  BY <1>1, <1>2, <1>4, <1>5, SMT, Z3

\* The front of a sequence.
LEMMA FrontIs ==
  ASSUME NEW S, NEW q \in Seq(S), q # << >>
  PROVE  /\ Front(q) \in Seq(S) /\ Len(Front(q)) = Len(q) - 1
         /\ \A k \in 1..Len(q)-1 : Front(q)[k] = q[k]
<1>1. PICK n \in Int : n = Len(q) - 1 /\ n >= 0
  BY SMT, Z3
<1>2. 1 \in Int /\ \A k \in 1..n : q[k] \in S
  BY <1>1, SMT, Z3
<1>3. /\ SubSeq(q, 1, n) \in Seq(S)
      /\ Len(SubSeq(q, 1, n)) = IF 1 <= n THEN n - 1 + 1 ELSE 0
      /\ \A k \in 1..n-1+1 : SubSeq(q, 1, n)[k] = q[1 + k - 1]
  BY <1>1, <1>2, SMT, Z3
<1>4. Len(SubSeq(q, 1, n)) = n /\ \A k \in 1..n : SubSeq(q, 1, n)[k] = q[k]
  BY <1>1, <1>3, SMT, Z3
<1> QED
  BY <1>1, <1>3, <1>4, Zenon DEF Front

\* The front of two pieces is the first and the front of the second.
LEMMA FrontConcat ==
  ASSUME NEW S, NEW p \in Seq(S), NEW q \in Seq(S), q # << >>
  PROVE  /\ p \o Front(q) = Front(p \o q) /\ p \o q \in Seq(S) /\ p \o q # << >>
         /\ Len(p \o Front(q)) = Len(p \o q) - 1 /\ Len(p \o q) \in Nat
<1>1. /\ Len(q) >= 1 /\ Len(p) \in Nat /\ Len(q) \in Nat
      /\ p \o q \in Seq(S) /\ Len(p \o q) = Len(p) + Len(q)
  BY SMT, Z3
<1>2. p \o q # << >>
  BY <1>1, SMT, Z3
<1>3. /\ Front(q) \in Seq(S) /\ Len(Front(q)) = Len(q) - 1
      /\ \A k \in 1..Len(q)-1 : Front(q)[k] = q[k]
  BY FrontIs, Zenon
<1>4. /\ Front(p \o q) \in Seq(S) /\ Len(Front(p \o q)) = Len(p \o q) - 1
      /\ \A k \in 1..Len(p \o q)-1 : Front(p \o q)[k] = (p \o q)[k]
  <2>1. p \o q \in Seq(S)
    BY <1>1, Zenon
  <2> QED
    BY <1>2, <2>1, FrontIs, Zenon
<1>5. PICK f \in Seq(S) : f = Front(q)
  BY <1>3, Zenon
<1>6. Len(f) = Len(q) - 1 /\ \A k \in 1..Len(q)-1 : f[k] = q[k]
  BY <1>3, <1>5, Zenon
<1>7. PICK g \in Seq(S) : g = Front(p \o q)
  BY <1>4, Zenon
<1>8. Len(g) = Len(p \o q) - 1 /\ \A k \in 1..Len(p \o q)-1 : g[k] = (p \o q)[k]
  BY <1>4, <1>7, Zenon
<1>9. p \o f \in Seq(S) /\ Len(p \o f) = Len(p) + Len(f)
  BY SMT, Z3
<1>10. Len(p \o f) = Len(p \o q) - 1
  BY <1>1, <1>6, <1>9, SMT, Z3
<1>11. ASSUME NEW k \in 1..Len(p \o f) PROVE (p \o f)[k] = g[k]
  <2>1. k \in 1..Len(p \o q)-1 /\ k \in 1..Len(p)+Len(f)
    BY <1>1, <1>9, <1>10, SMT, Z3
  <2>2. (p \o f)[k] = IF k <= Len(p) THEN p[k] ELSE f[k - Len(p)]
    BY <2>1, SMT, Z3
  <2>3. (p \o q)[k] = IF k <= Len(p) THEN p[k] ELSE q[k - Len(p)]
    BY <1>1, <2>1, SMT, Z3
  <2>4. ~(k <= Len(p)) => k - Len(p) \in 1..Len(q)-1
    BY <1>1, <1>6, <2>1, SMT, Z3
  <2> QED
    BY <1>6, <1>8, <2>1, <2>2, <2>3, <2>4, Zenon
<1>12. p \o f = g
  BY <1>8, <1>9, <1>10, <1>11, SameSeq, Zenon
<1>13. p \o Front(q) = Front(p \o q)
  BY <1>5, <1>7, <1>12, SMT, Z3
<1>14. Len(p \o Front(q)) = Len(p \o q) - 1
  BY <1>5, <1>10, SMT, Z3
<1>15. Len(p \o q) \in Nat
  BY <1>1, SMT, Z3
<1> QED
  BY <1>1, <1>2, <1>13, <1>14, <1>15, Zenon
-----------------------------------------------------------------------------
\* An empty ring holds nothing.
LEMMA HoldsNothing ==
  ASSUME NEW size, RingSize(size), NEW buf, NEW a \in 0..UINT-1
  PROVE  Holds(buf, a, a, size, << >>)
<1>1. UINT \in Nat \ {0} /\ size \in Nat /\ a + 0 = a /\ 0 \in 0..UINT-1 /\ 0 <= size
  BY SMT, Z3 DEF RingSize
<1>2. Dist(a, a, 0)
  BY <1>1, Zenon DEF Dist
<1>3. Minus(a, a) = 0
  BY <1>1, <1>2, MinusDist, Zenon
<1>4. Len(<< >>) = 0 /\ 1..0 = {}
  BY SMT, Z3
<1> QED
  BY <1>1, <1>3, <1>4, Zenon DEF Holds

\* consoleinit and uartinit: empty buffers, and every process in user space.
LEMMA InitIInv == Init => IInv
<1> SUFFICES ASSUME Init PROVE IInv
  BY Zenon
<1>0. 0 \in 0..UINT-1 /\ 0 \in Int /\ 0 \in 0..2 /\ Procs \cap {"intr", "none"} = {}
  BY DevAssumption, SMT, Z3
<1>1. Types
  <2>1. TypeOK
    <3>1. tx \in [owner: Procs \cup {"intr", "none"}, at: {"check", "send"}]
      BY SMT, Z3 DEF Init
    <3> QED
      BY <1>0, <3>1, Zenon DEF Init, TypeOK
  <2>2. pc \in [Procs -> PCs] /\ slept \in [Procs -> 0..UINT-1]
    BY <1>0, Zenon DEF Init, PCs
  <2>3. NoCall \in [left: Int, any: BOOLEAN, ticks0: 0..UINT-1]
    BY <1>0, SMT, Z3 DEF NoCall
  <2> QED
    BY <2>1, <2>2, <2>3, Zenon DEF Init, Types
<1>2. Input
  <2>1. cons \in [buf: [0..INPUT_BUF_SIZE-1 -> Keys], r: 0..UINT-1, w: 0..UINT-1, e: 0..UINT-1]
        /\ cons.r = 0 /\ cons.w = 0 /\ cons.e = 0
    BY <1>0, SMT, Z3 DEF Init, Keys
  <2>2. ready \o line = << >> /\ Len(ready) = 0 /\ ready \in Seq(Keys) /\ line \in Seq({"x"})
    BY SMT, Z3 DEF Init
  <2>3. Holds(cons.buf, 0, 0, INPUT_BUF_SIZE, << >>)
    BY <1>0, HoldsNothing, Sizes, Zenon
  <2>4. Minus(0, 0) = 0
    <3>1. Len(<< >>) = 0
      BY SMT, Z3
    <3> QED
      BY <2>3, <3>1, Zenon DEF Holds
  <2>5. \A p \in Procs : pc[p] = "user"
    BY Zenon DEF Init
  <2>6. line = << >>
    BY Zenon DEF Init
  <2> QED
    BY <2>1, <2>2, <2>3, <2>4, <2>5, <2>6, Zenon DEF Input
<1>3. Output
  <2>1. uart \in [buf: [0..UART_TX_BUF_SIZE-1 -> Procs \cup {"none"}], r: 0..UINT-1, w: 0..UINT-1]
        /\ uart.r = 0 /\ uart.w = 0 /\ outq \in Seq(Procs)
    BY <1>0, SMT, Z3 DEF Init
  <2>2. tx.owner = "none" /\ tx.at = "check" /\ handler = "idle"
    BY SMT, Z3 DEF Init
  <2>3. Holds(uart.buf, 0, 0, UART_TX_BUF_SIZE, << >>)
    BY <1>0, HoldsNothing, Sizes, Zenon
  <2>4. \A p \in Procs : pc[p] = "user" /\ p # "none"
    BY <1>0, Zenon DEF Init
  <2>5. Base = 0 /\ outq = << >>
    BY <2>1, <2>2, Zenon DEF Base, Init
  <2> QED
    BY <2>1, <2>2, <2>3, <2>4, <2>5, Zenon DEF Output
<1>4. Sleep
  BY Zenon DEF Init, Sleep, Sleeping
<1> QED
  BY <1>1, <1>2, <1>3, <1>4, Zenon DEF IInv

\* A step that leaves the console's buffer alone and no process in consoleread.
LEMMA InputQuiet ==
  ASSUME Input, UNCHANGED <<cons, line, ready>>,
         \A p \in Procs : pc'[p] \in {"rhold", "rdoze", "rasleep"} => pc'[p] = pc[p]
  PROVE  Input'
<1>1. \A p \in Procs : pc'[p] \in {"rdoze", "rasleep"} => cons.r = cons.w
  BY Zenon DEF Input
<1>2. \A p, q \in Procs : pc'[p] \in {"rhold", "rdoze"} /\ pc'[q] \in {"rhold", "rdoze"} => p = q
  BY Zenon DEF Input
<1> QED
  BY <1>1, <1>2, Zenon DEF Input

\* A step that leaves the transmit buffer alone.
LEMMA OutputQuiet ==
  ASSUME Output, UNCHANGED <<uart, tx, outq>>, handler' = "start" <=> handler = "start",
         \A p \in Procs : pc'[p] = "start" <=> pc[p] = "start",
         tx.at = "send" => fifo' <= 1
  PROVE  Output'
<1>1. Base' = Base /\ (TxFree' <=> TxFree)
  BY Zenon DEF Base, TxFree, Minus
<1> QED
  BY <1>1, Zenon DEF Output

\* A step that leaves the clock alone and starts no sleep.
LEMMA SleepQuiet ==
  ASSUME Sleep, ticks' = ticks,
         \A p \in Procs : /\ Sleeping(p)' => /\ Sleeping(p) /\ slept'[p] = slept[p]
                                             /\ call'[p].ticks0 = call[p].ticks0
                          /\ pc'[p] \notin {"sleep", "tdoze", "tasleep", "ret"} => slept'[p] = 0
  PROVE  Sleep'
BY Zenon DEF Sleep, Minus

\* A step that changes at most killed.
LEMMA Quiet ==
  ASSUME IInv, UNCHANGED <<load, uart, tx, fifo, thri, handler, cons, rx, ticks, pc, call,
                           line, ready, outq, slept>>
  PROVE  IInv'
BY ZenonT(30) DEF IInv, Types, TypeOK, Input, Output, Base, TxFree, Sleep, Sleeping, Holds, Minus

\* A process goes from one place of a system call to another.
Moves(p, to) == /\ pc' = [pc EXCEPT ![p] = to]
                /\ UNCHANGED <<load, dev, cons, rx, ticks, call, hist>>

\* Such a move keeps the invariant if its new place asks nothing that does not hold.
LEMMA MoveStep ==
  ASSUME IInv, NEW p \in Procs, NEW to \in PCs, Moves(p, to), pc[p] # "start", to # "start",
         to \in {"rdoze", "rasleep"} => cons.r = cons.w,
         to \in {"rhold", "rdoze"} => ConsFree \/ pc[p] \in {"rhold", "rdoze"},
         to \in {"sleep", "tdoze", "tasleep"} => Sleeping(p),
         to \notin {"sleep", "tdoze", "tasleep", "ret"} => slept[p] = 0
  PROVE  IInv'
<1>1. pc \in [Procs -> PCs] /\ Types /\ Input /\ Output /\ Sleep
  BY Zenon DEF IInv, Types
<1>2. pc'[p] = to /\ \A q \in Procs : q # p => pc'[q] = pc[q]
  BY <1>1, Zenon DEF Moves
<1>3. UNCHANGED <<load, uart, tx, fifo, thri, handler, cons, rx, ticks, call, line, ready, outq, slept>>
  BY Zenon DEF Moves, dev, hist
<1>4. Types'
  <2>1. pc' \in [Procs -> PCs]
    BY <1>1, Zenon DEF Moves
  <2> QED
    BY <1>1, <1>3, <2>1, Zenon DEF Types, TypeOK
<1>5. Input'
  <2>1. \A q \in Procs : pc'[q] \in {"rdoze", "rasleep"} => cons.r = cons.w
    BY <1>1, <1>2, Zenon DEF Input
  <2>2. \A q \in Procs : q # p /\ pc'[q] \in {"rhold", "rdoze"} => pc'[p] \notin {"rhold", "rdoze"}
    BY <1>1, <1>2, Zenon DEF Input, ConsFree
  <2>3. \A q, r \in Procs : pc'[q] \in {"rhold", "rdoze"} /\ pc'[r] \in {"rhold", "rdoze"} => q = r
    BY <1>1, <1>2, <2>2, Zenon DEF Input
  <2> QED
    BY <1>1, <1>3, <2>1, <2>3, Zenon DEF Input
<1>6. Output'
  BY <1>1, <1>2, <1>3, OutputQuiet, Zenon DEF Output
<1>7. Sleep'
  <2>1. \A q \in Procs : Sleeping(q)' => Sleeping(q)
    BY <1>2, Zenon DEF Sleeping
  <2>2. \A q \in Procs : pc'[q] \notin {"sleep", "tdoze", "tasleep", "ret"} => slept'[q] = 0
    BY <1>1, <1>2, <1>3, Zenon DEF Sleep
  <2> QED
    BY <1>1, <1>3, <2>1, <2>2, SleepQuiet, Zenon
<1> QED
  BY <1>4, <1>5, <1>6, <1>7, Zenon DEF IInv

\* Nothing is committed just when r has reached w.
LEMMA EmptyReady == ASSUME Input PROVE cons.r = cons.w <=> ready = << >>
<1>1. cons.r \in 0..UINT-1 /\ cons.w \in 0..UINT-1 /\ ready \in Seq(Keys)
  BY SMT, Z3 DEF Input
<1>2. Minus(cons.w, cons.r) = Len(ready) /\ Dist(cons.r, cons.w, Minus(cons.w, cons.r))
  BY <1>1, MinusDist, Zenon DEF Input
<1>3. PICK n \in Nat : n = Len(ready) /\ Dist(cons.r, cons.w, n) /\ n \in 0..UINT-1
  BY <1>1, <1>2, MinusDist, SMTT(30), Z3T(30)
<1>4. n = 0 <=> cons.r = cons.w
  BY <1>1, <1>3, UintType, SMTT(30), Z3T(30) DEF Dist
<1> QED
  BY <1>1, <1>3, <1>4, SMT, Z3
-----------------------------------------------------------------------------
\* The steps of consoleread, consolewrite, uartputc and sys_sleep that only move
\* their process, and kill.
LEMMA MovesStep ==
  ASSUME IInv, NEW p \in Procs,
         \/ ReadLock(p) \/ ReadEmpty(p) \/ ReadDoze(p) \/ CopyIn(p) \/ PutSleep(p)
         \/ SleepCheck(p) \/ SleepDoze(p) \/ Kill(p)
  PROVE  IInv'
<1>0. /\ \A l \in {"user", "read", "rhold", "rdoze", "write", "put"} : pc[p] = l => slept[p] = 0
      /\ pc[p] \in {"rdoze", "rasleep"} => cons.r = cons.w
      /\ pc[p] \in PCs /\ pc \in [Procs -> PCs]
  BY Zenon DEF IInv, Sleep, Input, Types
<1>1. CASE ReadLock(p)
  <2>1. Moves(p, "rhold") /\ pc[p] = "read" /\ ConsFree
    BY <1>1, Zenon DEF ReadLock, Goto, Moves
  <2> QED
    BY <1>0, <2>1, MoveStep, SMT, Z3 DEF PCs
<1>2. CASE ReadEmpty(p)
  <2>1. PICK to \in {"ret", "rdoze"} : Moves(p, to) /\ pc[p] = "rhold" /\ cons.r = cons.w
    BY <1>2, Zenon DEF ReadEmpty, Goto, Moves
  <2> QED
    BY <1>0, <2>1, MoveStep, SMT, Z3 DEF PCs
<1>3. CASE ReadDoze(p)
  <2>1. Moves(p, "rasleep") /\ pc[p] = "rdoze"
    BY <1>3, Zenon DEF ReadDoze, Goto, Moves
  <2> QED
    BY <1>0, <2>1, MoveStep, SMT, Z3 DEF PCs
<1>4. CASE CopyIn(p)
  <2>1. PICK to \in {"put", "ret"} : Moves(p, to) /\ pc[p] = "write"
    BY <1>4, Zenon DEF CopyIn, Goto, Moves
  <2> QED
    BY <1>0, <2>1, MoveStep, SMT, Z3 DEF PCs
<1>5. CASE PutSleep(p)
  <2>1. Moves(p, "wasleep") /\ pc[p] = "put"
    BY <1>5, Zenon DEF PutSleep, Goto, Moves
  <2> QED
    BY <1>0, <2>1, MoveStep, SMT, Z3 DEF PCs
<1>6. CASE SleepCheck(p)
  <2>1. PICK to \in {"ret", "tdoze"} : Moves(p, to) /\ pc[p] = "sleep"
    BY <1>6, Zenon DEF SleepCheck, Goto, Moves
  <2> QED
    BY <1>0, <2>1, MoveStep, SMT, Z3 DEF PCs, Sleeping
<1>7. CASE SleepDoze(p)
  <2>1. Moves(p, "tasleep") /\ pc[p] = "tdoze"
    BY <1>7, Zenon DEF SleepDoze, Goto, Moves
  <2> QED
    BY <1>0, <2>1, MoveStep, SMT, Z3 DEF PCs, Sleeping
<1>8. CASE Kill(p)
  <2>1. UNCHANGED <<load, dev, cons, rx, ticks, call, hist>>
    BY <1>8, Zenon DEF Kill
  <2>2. CASE pc[p] \in {"rasleep", "wasleep", "tasleep"}
    <3>1. \/ pc[p] = "rasleep" /\ Moves(p, "read")
          \/ pc[p] = "wasleep" /\ Moves(p, "put")
          \/ pc[p] = "tasleep" /\ Moves(p, "sleep")
      <4>1. PICK l \in PCs : l = pc[p] /\ l \in {"rasleep", "wasleep", "tasleep"}
        BY <1>0, <2>2, Zenon
      <4>2. pc' = [pc EXCEPT ![p] = CASE l = "rasleep" -> "read" [] l = "wasleep" -> "put"
                                      [] l = "tasleep" -> "sleep" [] OTHER -> l]
        BY <1>8, <4>1, Zenon DEF Kill
      <4>3. \/ l = "rasleep" /\ pc' = [pc EXCEPT ![p] = "read"]
            \/ l = "wasleep" /\ pc' = [pc EXCEPT ![p] = "put"]
            \/ l = "tasleep" /\ pc' = [pc EXCEPT ![p] = "sleep"]
        BY <4>1, <4>2, Zenon
      <4> QED
        BY <2>1, <4>1, <4>3, Zenon DEF Moves
    <3>2. pc[p] \in {"rasleep", "wasleep"} => slept[p] = 0
      BY Zenon DEF IInv, Sleep
    <3> QED
      BY <3>1, <3>2, MoveStep, SMT, Z3 DEF PCs, Sleeping
  <2>3. CASE pc[p] \notin {"rasleep", "wasleep", "tasleep"}
    <3>1. pc' = pc
      BY <1>0, <1>8, <2>3, SMT, Z3 DEF Kill
    <3>2. UNCHANGED <<load, uart, tx, fifo, thri, handler, cons, rx, ticks, call, line, ready, outq, slept>>
      BY <2>1, Zenon DEF dev, hist
    <3> QED
      BY <3>1, <3>2, Quiet, Zenon
  <2> QED
    BY <2>2, <2>3, Zenon
<1> QED
  BY <1>1, <1>2, <1>3, <1>4, <1>5, <1>6, <1>7, <1>8, Zenon

\* usertrap starts a call.
LEMMA CallStep == ASSUME IInv, NEW p \in Procs, Call(p) PROVE IInv'
<1>1. PICK c \in load.calls[p], n \in load.n :
        /\ pc[p] = "user" /\ pc' = [pc EXCEPT ![p] = c]
        /\ call' = [call EXCEPT ![p] = [left |-> n, any |-> FALSE,
                                        ticks0 |-> IF c = "sleep" THEN ticks ELSE 0]]
  BY Zenon DEF Call, Goto
<1>2. c \in {"read", "write", "sleep"} /\ n \in Int
  <2>1. load \in Workloads
    BY Zenon DEF IInv, Types
  <2>2. load.n \subseteq 1..UINT-2 /\ load.calls[p] \subseteq {"read", "write", "sleep"}
    BY <2>1, DevAssumption, Zenon
  <2> QED
    BY <2>2, SMT, Z3
<1>3. /\ UNCHANGED <<load, uart, tx, fifo, thri, handler, cons, rx, ticks, line, ready, outq, slept>>
      /\ pc \in [Procs -> PCs] /\ Types /\ Input /\ Output /\ Sleep
      /\ ticks \in 0..UINT-1 /\ call \in [Procs -> [left: Int, any: BOOLEAN, ticks0: 0..UINT-1]]
  BY Zenon DEF Call, dev, hist, IInv, Types, TypeOK
<1>4. pc'[p] = c /\ \A q \in Procs : q # p => pc'[q] = pc[q] /\ call'[q] = call[q]
  BY <1>1, <1>3, Zenon
<1>5. Types'
  <2>1. pc' \in [Procs -> PCs]
    BY <1>1, <1>2, <1>3, SMT, Z3 DEF PCs
  <2>2. [left |-> n, any |-> FALSE, ticks0 |-> IF c = "sleep" THEN ticks ELSE 0]
          \in [left: Int, any: BOOLEAN, ticks0: 0..UINT-1]
    BY <1>2, <1>3, UintType, SMT, Z3
  <2>3. call' \in [Procs -> [left: Int, any: BOOLEAN, ticks0: 0..UINT-1]]
    BY <1>1, <1>3, <2>2, Zenon
  <2> QED
    BY <1>3, <2>1, <2>3, Zenon DEF Types, TypeOK
<1>6. Input'
  BY <1>2, <1>3, <1>4, InputQuiet, Zenon
<1>7. Output'
  BY <1>1, <1>2, <1>3, <1>4, OutputQuiet, Zenon DEF Output
<1>8. Sleep'
  <2>1. c = "sleep" => call'[p].ticks0 = ticks
    BY <1>1, <1>3, SMT, Z3
  <2>2. Minus(ticks, ticks) = 0 /\ slept[p] = 0
    BY <1>1, <1>3, HoldsNothing, Sizes, Zenon DEF Sleep, Holds
  <2> QED
    BY <1>2, <1>3, <1>4, <2>1, <2>2, Zenon DEF Sleep, Sleeping, Minus
<1> QED
  BY <1>5, <1>6, <1>7, <1>8, Zenon DEF IInv

\* usertrap returns to user space, or a killed process exits.
LEMMA LeftStep == ASSUME IInv, NEW p \in Procs, Exit(p) \/ Return(p) PROVE IInv'
<1>1. /\ pc[p] \in {"user", "ret"} /\ pc' = [pc EXCEPT ![p] = "user"]
      /\ call' = [call EXCEPT ![p] = NoCall] /\ slept' = [slept EXCEPT ![p] = 0]
      /\ UNCHANGED <<load, uart, tx, fifo, thri, handler, cons, rx, ticks, line, ready, outq>>
  BY Zenon DEF Exit, Return, Left, dev
<1>2. /\ pc \in [Procs -> PCs] /\ Types /\ Input /\ Output /\ Sleep
      /\ call \in [Procs -> [left: Int, any: BOOLEAN, ticks0: 0..UINT-1]]
      /\ slept \in [Procs -> 0..UINT-1]
  BY Zenon DEF IInv, Types
<1>3. /\ pc'[p] = "user" /\ slept'[p] = 0
      /\ \A q \in Procs : q # p => pc'[q] = pc[q] /\ call'[q] = call[q] /\ slept'[q] = slept[q]
  BY <1>1, <1>2, Zenon
<1>4. Types'
  <2>1. pc' \in [Procs -> PCs]
    BY <1>1, <1>2, Zenon DEF PCs
  <2>2. NoCall \in [left: Int, any: BOOLEAN, ticks0: 0..UINT-1] /\ 0 \in 0..UINT-1
    BY UintType, SMT, Z3 DEF NoCall
  <2> QED
    BY <1>1, <1>2, <2>1, <2>2, Zenon DEF Types, TypeOK
<1>5. Input'
  BY <1>1, <1>2, <1>3, InputQuiet, Zenon
<1>6. Output'
  BY <1>1, <1>2, <1>3, OutputQuiet, Zenon DEF Output
<1>7. Sleep'
  BY <1>1, <1>2, <1>3, SleepQuiet, ZenonT(30) DEF Sleep, Sleeping
<1> QED
  BY <1>4, <1>5, <1>6, <1>7, Zenon DEF IInv
-----------------------------------------------------------------------------
\* consoleread takes a byte.
LEMMA ReadCharStep == ASSUME IInv, NEW p \in Procs, ReadChar(p) PROVE IInv'
<1>1. PICK to \in {"ret", "rhold"}, putback \in BOOLEAN :
        /\ cons.r # cons.w /\ pc[p] = "rhold" /\ pc' = [pc EXCEPT ![p] = to]
        /\ cons' = IF putback THEN cons
                   ELSE [cons EXCEPT !.r = Plus(@, 1), !.buf[cons.r % INPUT_BUF_SIZE] = "x"]
        /\ ready' = IF putback THEN ready ELSE Tail(ready)
  BY Zenon DEF ReadChar, Goto
<1>2. /\ call' = [call EXCEPT ![p].left = @ - 1, ![p].any = TRUE]
      /\ UNCHANGED <<load, uart, tx, fifo, thri, handler, rx, ticks, killed, line, outq, slept>>
  BY Zenon DEF ReadChar, dev
<1>3. /\ pc \in [Procs -> PCs] /\ Types /\ Input /\ Output /\ Sleep
      /\ call \in [Procs -> [left: Int, any: BOOLEAN, ticks0: 0..UINT-1]]
  BY Zenon DEF IInv, Types
<1>4. /\ pc'[p] = to /\ \A q \in Procs : q # p => pc'[q] = pc[q]
  BY <1>1, <1>3, Zenon
<1>5. Types' /\ \A q \in Procs : call'[q].ticks0 = call[q].ticks0
  <2>1. pc' \in [Procs -> PCs]
    BY <1>1, <1>3, Zenon DEF PCs
  <2>2. /\ call' \in [Procs -> [left: Int, any: BOOLEAN, ticks0: 0..UINT-1]]
        /\ \A q \in Procs : call'[q].ticks0 = call[q].ticks0
    <3>1. PICK c \in [left: Int, any: BOOLEAN, ticks0: 0..UINT-1] : c = call[p]
      BY <1>3, Zenon
    <3>2. PICK d \in [left: Int, any: BOOLEAN, ticks0: 0..UINT-1] :
            d = [c EXCEPT !.left = @ - 1, !.any = TRUE] /\ d.ticks0 = c.ticks0
      <4>1. PICK b \in [left: Int, any: BOOLEAN, ticks0: 0..UINT-1] :
              b = [c EXCEPT !.left = @ - 1] /\ b.ticks0 = c.ticks0
        <5>1. [c EXCEPT !.left = @ - 1] \in [left: Int, any: BOOLEAN, ticks0: 0..UINT-1]
              /\ [c EXCEPT !.left = @ - 1].ticks0 = c.ticks0
          BY SMT, Z3
        <5> QED
          BY <5>1, Zenon
      <4>2. [b EXCEPT !.any = TRUE] \in [left: Int, any: BOOLEAN, ticks0: 0..UINT-1]
            /\ [b EXCEPT !.any = TRUE].ticks0 = b.ticks0
        BY Zenon
      <4>3. [c EXCEPT !.left = @ - 1, !.any = TRUE] = [b EXCEPT !.any = TRUE]
        BY <4>1, Zenon
      <4> QED
        BY <4>1, <4>2, <4>3, Zenon
    <3>3. call' = [call EXCEPT ![p] = d]
      BY <1>2, <1>3, <3>1, <3>2, Zenon
    <3> QED
      BY <1>3, <3>1, <3>2, <3>3, SMT, Z3
  <2> QED
    BY <1>2, <1>3, <2>1, <2>2, Zenon DEF Types, TypeOK
<1>6. /\ cons'.w = cons.w /\ cons'.e = cons.e
      /\ putback => cons'.r = cons.r /\ cons'.buf = cons.buf
      /\ ~putback => /\ cons'.r = Plus(cons.r, 1)
                     /\ cons'.buf = [cons.buf EXCEPT ![cons.r % INPUT_BUF_SIZE] = "x"]
      /\ cons' \in [buf: [0..INPUT_BUF_SIZE-1 -> Keys], r: 0..UINT-1, w: 0..UINT-1, e: 0..UINT-1]
  <2>1. cons \in [buf: [0..INPUT_BUF_SIZE-1 -> Keys], r: 0..UINT-1, w: 0..UINT-1, e: 0..UINT-1]
    BY <1>3, Zenon DEF Input
  <2>2. Plus(cons.r, 1) \in 0..UINT-1
    BY <2>1, Around, SMT, Z3
  <2> QED
    BY <1>1, <2>1, <2>2, Zenon DEF Keys
<1>7. ready # << >>
  BY <1>1, <1>3, EmptyReady, Zenon
<1>8. Input'
  <2>1. \A q \in Procs : pc'[q] \notin {"rdoze", "rasleep"}
    BY <1>1, <1>3, <1>4, Zenon DEF Input
  <2>2. \A q, r \in Procs : pc'[q] \in {"rhold", "rdoze"} /\ pc'[r] \in {"rhold", "rdoze"} => q = r
    BY <1>1, <1>3, <1>4, Zenon DEF Input
  <2>3. CASE putback
    BY <1>1, <1>2, <1>3, <1>6, <2>1, <2>2, <2>3, Zenon DEF Input, Holds, Minus
  <2>4. CASE ~putback
    <3>1. ready' = Tail(ready) /\ line' = line
      BY <1>1, <1>2, <2>4, Zenon
    <3>2. /\ ready \in Seq(Keys) /\ line \in Seq({"x"}) /\ line \in Seq(Keys)
          /\ ready \o line \in Seq(Keys) /\ ready \o line # << >>
          /\ Tail(ready) \in Seq(Keys) /\ Tail(ready \o line) = Tail(ready) \o line
          /\ Len(Tail(ready)) = Len(ready) - 1 /\ Len(ready) \in Nat /\ Len(ready) >= 1
      <4>1. ready \in Seq(Keys) /\ line \in Seq({"x"})
        BY <1>3, Zenon DEF Input
      <4>2. line \in Seq(Keys)
        BY <4>1, SMT, Z3 DEF Keys
      <4>3. /\ ready \o line \in Seq(Keys) /\ ready \o line # << >>
            /\ Tail(ready) \in Seq(Keys) /\ Tail(ready \o line) = Tail(ready) \o line
            /\ Len(Tail(ready)) = Len(ready) - 1 /\ Len(ready) \in Nat /\ Len(ready) >= 1
        BY <1>7, <4>1, <4>2, TailConcat, Zenon
      <4> QED
        BY <4>1, <4>2, <4>3, Zenon
    <3>3. /\ cons.buf \in [0..INPUT_BUF_SIZE-1 -> Keys] /\ cons.r \in 0..UINT-1
          /\ cons.e \in 0..UINT-1 /\ cons.w \in 0..UINT-1
      BY <1>3, SMT, Z3 DEF Input
    <3>4. Holds(cons'.buf, cons'.r, cons'.e, INPUT_BUF_SIZE, Tail(ready) \o line)
      <4>1. Holds([cons.buf EXCEPT ![cons.r % INPUT_BUF_SIZE] = "x"], Plus(cons.r, 1), cons.e,
                  INPUT_BUF_SIZE, Tail(ready \o line))
        BY <1>3, <3>2, <3>3, Pop, Sizes, Zenon DEF Input
      <4> QED
        BY <1>6, <2>4, <3>2, <4>1, Zenon
    <3>5. Minus(cons'.w, cons'.r) = Len(Tail(ready))
      <4>1. Holds(cons.buf, cons.r, cons.w, INPUT_BUF_SIZE, ready)
        BY <1>3, <3>2, <3>3, Split, Sizes, ZenonT(30) DEF Input
      <4>2. Holds(cons.buf, Plus(cons.r, 1), cons.w, INPUT_BUF_SIZE, Tail(ready))
        BY <1>7, <3>2, <3>3, <4>1, Pop, Sizes, Zenon
      <4> QED
        BY <1>6, <2>4, <4>2, Zenon DEF Holds
    <3>6. Len(Tail(ready) \o line) # INPUT_BUF_SIZE
      <4>1. Len(ready \o line) <= INPUT_BUF_SIZE /\ INPUT_BUF_SIZE \in Nat
        BY <1>3, Sizes, Zenon DEF Input, Holds, RingSize
      <4>2. Len(Tail(ready) \o line) = Len(ready \o line) - 1 /\ Len(ready \o line) \in Nat
        BY <3>2, SMT, Z3
      <4> QED
        BY <4>1, <4>2, SMT, Z3
    <3> QED
      BY <1>6, <2>1, <2>2, <3>1, <3>2, <3>4, <3>5, <3>6, Zenon DEF Input
  <2> QED
    BY <2>3, <2>4, Zenon
<1>9. Output'
  BY <1>1, <1>2, <1>3, <1>4, OutputQuiet, Zenon DEF Output
<1>10. Sleep'
  BY <1>1, <1>2, <1>3, <1>4, <1>5, SleepQuiet, Zenon DEF Sleep, Sleeping
<1> QED
  BY <1>5, <1>8, <1>9, <1>10, Zenon DEF IInv
-----------------------------------------------------------------------------
\* The places and bytes of the transmit buffer.
LEMMA TxTypes ==
  ASSUME Types, Output
  PROVE  /\ uart.buf \in [0..UART_TX_BUF_SIZE-1 -> Procs \cup {"none"}]
         /\ uart.r \in 0..UINT-1 /\ uart.w \in 0..UINT-1 /\ Base \in 0..UINT-1
         /\ outq \in Seq(Procs) /\ outq \in Seq(Procs \cup {"none"})
         /\ tx.at \in {"check", "send"} /\ tx.owner \in Procs \cup {"intr", "none"}
         /\ fifo \in 0..2 /\ \A p \in Procs : p # "intr" /\ p # "none"
<1>1. /\ uart.buf \in [0..UART_TX_BUF_SIZE-1 -> Procs \cup {"none"}]
      /\ uart.r \in 0..UINT-1 /\ uart.w \in 0..UINT-1
  BY SMT, Z3 DEF Output
<1>2. Base \in 0..UINT-1
  BY <1>1, Around, Zenon DEF Base
<1>3. outq \in Seq(Procs)
  BY Zenon DEF Output
<1>4. outq \in Seq(Procs \cup {"none"})
  BY <1>3, SMT, Z3
<1>5. tx.at \in {"check", "send"} /\ tx.owner \in Procs \cup {"intr", "none"} /\ fifo \in 0..2
  BY SMT, Z3 DEF Types, TypeOK
<1>6. \A p \in Procs : p # "intr" /\ p # "none"
  BY DevAssumption, Zenon
<1> QED
  BY <1>1, <1>2, <1>3, <1>4, <1>5, <1>6, Zenon

\* uartputc stores a byte.
LEMMA PutStep == ASSUME IInv, NEW p \in Procs, Put(p) PROVE IInv'
<1>1. /\ tx.owner = "none" /\ ~Full /\ pc[p] = "put" /\ pc' = [pc EXCEPT ![p] = "start"]
      /\ uart' = [uart EXCEPT !.buf[uart.w % UART_TX_BUF_SIZE] = p, !.w = Plus(@, 1)]
      /\ outq' = Append(outq, p) /\ tx' = [owner |-> p, at |-> "check"]
      /\ UNCHANGED <<load, cons, fifo, thri, rx, handler, ticks, call, line, ready, slept>>
  BY Zenon DEF Put, Goto, TxFree
<1>2. pc \in [Procs -> PCs] /\ Types /\ Input /\ Output /\ Sleep
  BY Zenon DEF IInv, Types
<1>3. pc'[p] = "start" /\ \A q \in Procs : q # p => pc'[q] = pc[q]
  BY <1>1, <1>2, Zenon
<1>4. tx'.owner = p /\ tx'.at = "check" /\ tx' \in [owner: Procs \cup {"intr", "none"}, at: {"check", "send"}]
  BY <1>1, SMT, Z3
<1>5. Types'
  <2>1. pc' \in [Procs -> PCs]
    BY <1>1, <1>2, Zenon DEF PCs
  <2> QED
    BY <1>1, <1>2, <1>4, <2>1, Zenon DEF Types, TypeOK
<1>6. Output'
  <2>0. /\ uart.buf \in [0..UART_TX_BUF_SIZE-1 -> Procs \cup {"none"}]
        /\ uart.r \in 0..UINT-1 /\ uart.w \in 0..UINT-1
        /\ outq \in Seq(Procs) /\ outq \in Seq(Procs \cup {"none"})
        /\ tx.at \in {"check", "send"} /\ \A q \in Procs : q # "intr" /\ q # "none"
    BY <1>2, TxTypes, Zenon
  <2>1. tx.at = "check" /\ Base = uart.r
    BY <1>1, <1>2, <2>0, Zenon DEF Output, TxFree, Base
  <2>2. Holds(uart.buf, uart.r, uart.w, UART_TX_BUF_SIZE, outq)
    BY <1>2, <2>1, Zenon DEF Output
  <2>3. Len(outq) < UART_TX_BUF_SIZE
    <3>1. PICK n \in Nat : /\ n = Len(outq) /\ n <= UART_TX_BUF_SIZE /\ Dist(uart.r, uart.w, n)
                           /\ UART_TX_BUF_SIZE \in Nat /\ UINT \in Nat /\ UINT > UART_TX_BUF_SIZE
      BY <2>0, <2>2, Holding, Sizes, ZenonT(30)
    <3>2. ASSUME n = UART_TX_BUF_SIZE PROVE FALSE
      <4>1. Plus(uart.r, n) = uart.w
        BY <2>0, <3>1, PlusDist, Zenon
      <4> QED
        BY <1>1, <3>2, <4>1, Zenon DEF Full
    <3> QED
      BY <3>1, <3>2, SMT, Z3
  <2>4. /\ uart'.r = uart.r /\ uart'.w = Plus(uart.w, 1)
        /\ uart'.buf = [uart.buf EXCEPT ![uart.w % UART_TX_BUF_SIZE] = p]
        /\ uart' \in [buf: [0..UART_TX_BUF_SIZE-1 -> Procs \cup {"none"}], r: 0..UINT-1, w: 0..UINT-1]
    <3>1. Plus(uart.w, 1) \in 0..UINT-1
      BY <2>0, Around, Zenon
    <3>2. uart \in [buf: [0..UART_TX_BUF_SIZE-1 -> Procs \cup {"none"}], r: 0..UINT-1, w: 0..UINT-1]
      BY <1>2, Zenon DEF Output
    <3> QED
      BY <1>1, <3>1, <3>2, Zenon
  <2>5. Holds(uart'.buf, uart'.r, uart'.w, UART_TX_BUF_SIZE, outq')
    <3>1. p \in Procs \cup {"none"}
      BY Zenon
    <3>2. Holds([uart.buf EXCEPT ![uart.w % UART_TX_BUF_SIZE] = p], uart.r, Plus(uart.w, 1),
                UART_TX_BUF_SIZE, Append(outq, p))
      BY <2>0, <2>2, <2>3, <3>1, Push, Sizes, Zenon
    <3> QED
      BY <1>1, <2>4, <3>2, Zenon
  <2>6. Base' = uart'.r /\ outq' \in Seq(Procs)
    <3>1. outq' \in Seq(Procs)
      BY <1>1, <2>0, SMT, Z3
    <3> QED
      BY <1>4, <3>1, Zenon DEF Base
  <2>7. \A q \in Procs : pc'[q] = "start" <=> tx'.owner = q
    <3>1. \A q \in Procs : pc[q] # "start"
      BY <1>1, <1>2, <2>0, Zenon DEF Output
    <3> QED
      BY <1>3, <1>4, <3>1, Zenon
  <2>8. (handler' = "start" <=> tx'.owner = "intr") /\ tx'.at # "send"
    BY <1>1, <1>2, <1>4, <2>0, Zenon DEF Output
  <2> QED
    BY <2>4, <2>5, <2>6, <2>7, <2>8, Zenon DEF Output
<1>7. Input'
  BY <1>1, <1>2, <1>3, InputQuiet, Zenon
<1>8. Sleep'
  BY <1>1, <1>2, <1>3, SleepQuiet, Zenon DEF Sleep, Sleeping
<1> QED
  BY <1>5, <1>6, <1>7, <1>8, Zenon DEF IInv

\* uartstart ends.
LEMMA StartEndStep == ASSUME IInv, StartEnd PROVE IInv'
<1>1. /\ tx.owner # "none" /\ tx.at = "check" /\ tx' = [tx EXCEPT !.owner = "none"]
      /\ thri' = IF uart.r = uart.w THEN thri /\ rx ELSE thri
      /\ IF tx.owner = "intr" THEN handler' = "complete" /\ UNCHANGED <<pc, call>>
         ELSE /\ call' = [call EXCEPT ![tx.owner].left = @ - 1]
              /\ Goto(tx.owner, "start", IF call[tx.owner].left = 1 THEN "ret" ELSE "write")
              /\ UNCHANGED handler
      /\ UNCHANGED <<load, cons, uart, fifo, rx, ticks, line, ready, outq, slept>>
  BY Zenon DEF StartEnd, TxFree, hist
<1>2. /\ pc \in [Procs -> PCs] /\ Types /\ Input /\ Output /\ Sleep
      /\ call \in [Procs -> [left: Int, any: BOOLEAN, ticks0: 0..UINT-1]]
      /\ handler \in {"idle", "rx", "start", "complete"} /\ thri \in BOOLEAN /\ rx \in BOOLEAN
  BY Zenon DEF IInv, Types, TypeOK
<1>3. /\ tx.owner \in Procs \cup {"intr", "none"}
      /\ \A q \in Procs : q # "intr" /\ q # "none"
  BY <1>2, TxTypes, Zenon
<1>4. /\ tx'.owner = "none" /\ tx'.at = "check"
      /\ tx' \in [owner: Procs \cup {"intr", "none"}, at: {"check", "send"}]
  <2>1. tx \in [owner: Procs \cup {"intr", "none"}, at: {"check", "send"}]
    BY <1>2, Zenon DEF Types, TypeOK
  <2> QED
    BY <1>1, <2>1, SMT, Z3
<1>5. /\ pc' \in [Procs -> PCs] /\ \A q \in Procs : \/ pc'[q] = pc[q] /\ pc[q] # "start"
                                                    \/ pc[q] = "start" /\ pc'[q] \in {"ret", "write"}
      /\ call' \in [Procs -> [left: Int, any: BOOLEAN, ticks0: 0..UINT-1]]
      /\ \A q \in Procs : call'[q].ticks0 = call[q].ticks0
      /\ handler' \in {"idle", "rx", "start", "complete"} /\ handler' # "start"
  <2>1. CASE tx.owner = "intr"
    <3>1. \A q \in Procs : pc[q] # "start"
      BY <1>2, <1>3, <2>1, Zenon DEF Output
    <3> QED
      BY <1>1, <1>2, <2>1, <3>1, Zenon
  <2>2. CASE tx.owner # "intr"
    <3>1. PICK p \in Procs : p = tx.owner
      BY <1>1, <1>3, <2>2, Zenon
    <3>2. PICK to \in {"ret", "write"} :
            pc[p] = "start" /\ pc' = [pc EXCEPT ![p] = to]
            /\ call' = [call EXCEPT ![p].left = @ - 1] /\ handler' = handler
      BY <1>1, <2>2, <3>1, Zenon DEF Goto
    <3>3. /\ call' \in [Procs -> [left: Int, any: BOOLEAN, ticks0: 0..UINT-1]]
          /\ \A q \in Procs : call'[q].ticks0 = call[q].ticks0
      BY <1>2, <3>2, SMT, Z3
    <3>4. pc' \in [Procs -> PCs] /\ pc'[p] = to /\ \A q \in Procs : q # p => pc'[q] = pc[q]
      BY <1>2, <3>2, Zenon DEF PCs
    <3>5. \A q \in Procs : q # p => pc[q] # "start"
      BY <1>2, <3>1, Zenon DEF Output
    <3>6. handler # "start"
      BY <1>2, <2>2, Zenon DEF Output
    <3> QED
      BY <1>2, <3>2, <3>3, <3>4, <3>5, <3>6, Zenon
  <2> QED
    BY <2>1, <2>2, Zenon
<1>6. Types'
  <2>1. thri' \in BOOLEAN
    BY <1>1, <1>2, Zenon
  <2> QED
    BY <1>1, <1>2, <1>4, <1>5, <2>1, Zenon DEF Types, TypeOK
<1>7. Output'
  <2>1. Base' = Base
    BY <1>1, <1>4, Zenon DEF Base
  <2>2. \A q \in Procs : pc'[q] = "start" <=> tx'.owner = q
    BY <1>3, <1>4, <1>5, ZenonT(30)
  <2> QED
    BY <1>1, <1>2, <1>4, <1>5, <2>1, <2>2, Zenon DEF Output
<1>8. Input'
  BY <1>1, <1>2, <1>5, InputQuiet, Zenon
<1>9. Sleep'
  <2>1. \A q \in Procs : Sleeping(q)' => Sleeping(q)
    BY <1>5, Zenon DEF Sleeping
  <2>2. \A q \in Procs : pc'[q] \notin {"sleep", "tdoze", "tasleep", "ret"} => slept'[q] = 0
    BY <1>1, <1>2, <1>5, Zenon DEF Sleep
  <2> QED
    BY <1>1, <1>2, <1>5, <2>1, <2>2, SleepQuiet, Zenon
<1> QED
  BY <1>6, <1>7, <1>8, <1>9, Zenon DEF IInv

\* A step that wakes sleepers: they go on at to.
LEMMA WokenEffect ==
  ASSUME pc \in [Procs -> PCs], NEW from \in PCs, NEW to \in PCs, pc' = Woken(from, to)
  PROVE  /\ pc' \in [Procs -> PCs]
         /\ \A q \in Procs : IF pc[q] = from THEN pc'[q] = to ELSE pc'[q] = pc[q]
BY Zenon DEF Woken

\* uartstart takes a byte from the buffer and wakes the writers.
LEMMA StartTakeStep == ASSUME IInv, StartTake PROVE IInv'
<1>1. /\ tx.owner # "none" /\ tx.at = "check" /\ uart.r # uart.w /\ fifo = 0
      /\ uart' = [uart EXCEPT !.r = Plus(@, 1)] /\ pc' = Woken("wasleep", "put")
      /\ tx' = [tx EXCEPT !.at = "send"]
      /\ UNCHANGED <<load, cons, fifo, thri, rx, handler, ticks, call, line, ready, outq, slept>>
  BY Zenon DEF StartTake, TxFree, hist
<1>2. pc \in [Procs -> PCs] /\ Types /\ Input /\ Output /\ Sleep
  BY Zenon DEF IInv, Types
<1>3. /\ pc' \in [Procs -> PCs]
      /\ \A q \in Procs : IF pc[q] = "wasleep" THEN pc'[q] = "put" ELSE pc'[q] = pc[q]
  <2>1. "wasleep" \in PCs /\ "put" \in PCs
    BY Zenon DEF PCs
  <2> QED
    BY <1>1, <1>2, <2>1, WokenEffect, ZenonT(30)
<1>4. /\ tx'.owner = tx.owner /\ tx'.at = "send"
      /\ tx' \in [owner: Procs \cup {"intr", "none"}, at: {"check", "send"}]
  <2>1. tx \in [owner: Procs \cup {"intr", "none"}, at: {"check", "send"}]
    BY <1>2, Zenon DEF Types, TypeOK
  <2> QED
    BY <1>1, <2>1, SMT, Z3
<1>5. Types'
  BY <1>1, <1>2, <1>3, <1>4, Zenon DEF Types, TypeOK
<1>6. Output'
  <2>0. /\ uart.r \in 0..UINT-1 /\ uart.w \in 0..UINT-1
        /\ outq \in Seq(Procs) /\ outq \in Seq(Procs \cup {"none"})
    BY <1>2, TxTypes, Zenon
  <2>1. Plus(uart.r, 1) \in 0..UINT-1 /\ Minus(Plus(uart.r, 1), 1) = uart.r
    BY <2>0, Around, Zenon
  <2>2. /\ uart'.r = Plus(uart.r, 1) /\ uart'.w = uart.w /\ uart'.buf = uart.buf
        /\ uart' \in [buf: [0..UART_TX_BUF_SIZE-1 -> Procs \cup {"none"}], r: 0..UINT-1, w: 0..UINT-1]
    <3>1. uart \in [buf: [0..UART_TX_BUF_SIZE-1 -> Procs \cup {"none"}], r: 0..UINT-1, w: 0..UINT-1]
      BY <1>2, Zenon DEF Output
    <3> QED
      BY <1>1, <2>1, <3>1, SMT, Z3
  <2>3. Base = uart.r /\ Base' = uart.r
    <3>1. Base' = (Minus(uart.r, 1))'
      BY <1>4, Zenon DEF Base
    <3> QED
      BY <1>1, <2>1, <2>2, <3>1, Zenon DEF Base, Minus
  <2>4. Holds(uart.buf, uart.r, uart.w, UART_TX_BUF_SIZE, outq)
    BY <1>2, <2>3, Zenon DEF Output
  <2>5. outq # << >>
    <3>1. PICK n \in Nat : n = Len(outq) /\ Dist(uart.r, uart.w, n)
      BY <2>0, <2>4, Holding, Sizes, Zenon
    <3>2. n # 0
      BY <1>1, <2>0, <3>1, UintType, SMT, Z3 DEF Dist
    <3> QED
      BY <3>1, <3>2, SMT, Z3
  <2>6. fifo' <= 1 /\ ~TxFree'
    BY <1>1, <1>4, SMT, Z3 DEF TxFree
  <2>7. Holds(uart'.buf, Base', uart'.w, UART_TX_BUF_SIZE, outq')
    BY <1>1, <2>2, <2>3, <2>4, Zenon
  <2>8. \A q \in Procs : pc'[q] = "start" <=> tx'.owner = q
    BY <1>2, <1>3, <1>4, ZenonT(30) DEF Output
  <2> QED
    BY <1>1, <1>2, <1>4, <2>2, <2>5, <2>6, <2>7, <2>8, Zenon DEF Output
<1>7. Input'
  <2>1. \A q \in Procs : pc'[q] \in {"rhold", "rdoze", "rasleep"} => pc'[q] = pc[q]
    BY <1>3, Zenon
  <2> QED
    BY <1>1, <1>2, <2>1, InputQuiet, Zenon
<1>8. Sleep'
  <2>1. \A q \in Procs : Sleeping(q)' => Sleeping(q)
    BY <1>3, Zenon DEF Sleeping
  <2>2. \A q \in Procs : pc'[q] \notin {"sleep", "tdoze", "tasleep", "ret"} => slept'[q] = 0
    BY <1>1, <1>2, <1>3, Zenon DEF Sleep
  <2> QED
    BY <1>1, <1>2, <2>1, <2>2, SleepQuiet, Zenon
<1> QED
  BY <1>5, <1>6, <1>7, <1>8, Zenon DEF IInv

\* uartstart writes the byte to THR.
LEMMA StartSendStep == ASSUME IInv, StartSend PROVE IInv'
<1>1. /\ tx.owner # "none" /\ tx.at = "send" /\ fifo' = fifo + 1 /\ thri' = FALSE
      /\ outq' = Tail(outq) /\ tx' = [tx EXCEPT !.at = "check"]
      /\ uart' = [uart EXCEPT !.buf[Minus(uart.r, 1) % UART_TX_BUF_SIZE] = "none"]
      /\ UNCHANGED <<load, cons, rx, handler, ticks, pc, call, line, ready, slept>>
  BY Zenon DEF StartSend, TxFree
<1>2. Types /\ Input /\ Output /\ Sleep /\ fifo <= 1 /\ fifo \in 0..2 /\ outq # << >>
  BY <1>1, Zenon DEF IInv, Types, TypeOK, Output
<1>3. /\ tx'.owner = tx.owner /\ tx'.at = "check"
      /\ tx' \in [owner: Procs \cup {"intr", "none"}, at: {"check", "send"}]
  <2>1. tx \in [owner: Procs \cup {"intr", "none"}, at: {"check", "send"}]
    BY <1>2, Zenon DEF Types, TypeOK
  <2> QED
    BY <1>1, <2>1, SMT, Z3
<1>4. Types'
  <2>1. fifo' \in 0..2
    BY <1>1, <1>2, SMT, Z3
  <2> QED
    BY <1>1, <1>2, <1>3, <2>1, Zenon DEF Types, TypeOK
<1>5. Output'
  <2>0. /\ uart.buf \in [0..UART_TX_BUF_SIZE-1 -> Procs \cup {"none"}]
        /\ uart.r \in 0..UINT-1 /\ uart.w \in 0..UINT-1
        /\ outq \in Seq(Procs) /\ outq \in Seq(Procs \cup {"none"})
    BY <1>2, TxTypes, Zenon
  <2>1. PICK v \in 0..UINT-1 : v = Minus(uart.r, 1) /\ Plus(v, 1) = uart.r
    BY <2>0, Around, Zenon
  <2>2. /\ uart'.r = uart.r /\ uart'.w = uart.w
        /\ uart'.buf = [uart.buf EXCEPT ![v % UART_TX_BUF_SIZE] = "none"]
        /\ uart' \in [buf: [0..UART_TX_BUF_SIZE-1 -> Procs \cup {"none"}], r: 0..UINT-1, w: 0..UINT-1]
    <3>1. uart \in [buf: [0..UART_TX_BUF_SIZE-1 -> Procs \cup {"none"}], r: 0..UINT-1, w: 0..UINT-1]
      BY <1>2, Zenon DEF Output
    <3> QED
      BY <1>1, <2>1, <3>1, Zenon
  <2>3. Holds(uart.buf, v, uart.w, UART_TX_BUF_SIZE, outq)
    BY <1>1, <1>2, <2>1, Zenon DEF Output, Base
  <2>4. Holds([uart.buf EXCEPT ![v % UART_TX_BUF_SIZE] = "none"], Plus(v, 1), uart.w,
              UART_TX_BUF_SIZE, Tail(outq))
    BY <1>2, <2>0, <2>3, Pop, Sizes, Zenon
  <2>5. Holds(uart'.buf, Base', uart'.w, UART_TX_BUF_SIZE, outq')
    <3>1. Base' = uart'.r
      BY <1>3, Zenon DEF Base
    <3> QED
      BY <1>1, <2>1, <2>2, <2>4, <3>1, Zenon
  <2>6. outq' \in Seq(Procs)
    BY <1>1, <1>2, <2>0, SMT, Z3
  <2> QED
    BY <1>1, <1>2, <1>3, <2>2, <2>5, <2>6, Zenon DEF Output
<1>6. Input' /\ Sleep'
  BY <1>1, <1>2, Zenon DEF Input, Sleep, Sleeping, Holds, Minus
<1> QED
  BY <1>4, <1>5, <1>6, Zenon DEF IInv

\* devintr claims and completes an interrupt, a key arrives, a byte goes out.
LEMMA LineStep == ASSUME IInv, Claim \/ Complete \/ Transmit \/ Key PROVE IInv'
<1>1. /\ UNCHANGED <<load, cons, uart, tx, ticks, pc, call, line, ready, outq, slept>>
      /\ Types /\ Input /\ Output /\ Sleep
      /\ fifo \in 0..2 /\ rx \in BOOLEAN /\ thri \in BOOLEAN
      /\ handler \in {"idle", "rx", "start", "complete"}
  BY Zenon DEF Claim, Complete, Transmit, Key, hist, IInv, Types, TypeOK
<1>2. /\ fifo' \in 0..2 /\ fifo' <= fifo
      /\ handler' \in {"idle", "rx", "start", "complete"} /\ (handler' = "start" <=> handler = "start")
  BY <1>1, SMT, Z3 DEF Claim, Complete, Transmit, Key
<1>3. rx' \in BOOLEAN /\ thri' \in BOOLEAN
  BY <1>1, Zenon DEF Claim, Complete, Transmit, Key
<1>4. Types'
  BY <1>1, <1>2, <1>3, Zenon DEF Types, TypeOK
<1>5. Output'
  <2>1. tx.at = "send" => fifo' <= 1
    <3>1. tx.at = "send" => fifo <= 1
      BY <1>1, Zenon DEF Output
    <3> QED
      BY <1>1, <1>2, <3>1, SMT, Z3
  <2> QED
    BY <1>1, <1>2, <2>1, OutputQuiet, Zenon
<1>6. Input' /\ Sleep'
  BY <1>1, Zenon DEF Input, Sleep, Sleeping, Holds, Minus
<1> QED
  BY <1>4, <1>5, <1>6, Zenon DEF IInv

\* uartintr takes uart_tx_lock for uartstart.
LEMMA IntrStartStep == ASSUME IInv, IntrStart PROVE IInv'
<1>1. /\ tx.owner = "none" /\ handler' = "start" /\ tx' = [owner |-> "intr", at |-> "check"]
      /\ UNCHANGED <<load, cons, uart, fifo, thri, rx, ticks, pc, call, line, ready, outq, slept>>
      /\ Types /\ Input /\ Output /\ Sleep
  BY Zenon DEF IntrStart, TxFree, hist, IInv
<1>2. /\ tx'.owner = "intr" /\ tx'.at = "check"
      /\ tx' \in [owner: Procs \cup {"intr", "none"}, at: {"check", "send"}]
  BY <1>1, SMT, Z3
<1>3. Types'
  BY <1>1, <1>2, Zenon DEF Types, TypeOK
<1>4. Output'
  <2>1. tx.at = "check" /\ \A p \in Procs : p # "intr" /\ p # "none"
    BY <1>1, TxTypes, Zenon DEF Output, TxFree
  <2>2. Base' = Base
    BY <1>1, <1>2, <2>1, Zenon DEF Base
  <2>3. \A p \in Procs : pc'[p] = "start" <=> tx'.owner = p
    BY <1>1, <1>2, <2>1, ZenonT(30) DEF Output
  <2> QED
    BY <1>1, <1>2, <2>2, <2>3, Zenon DEF Output
<1>5. Input' /\ Sleep'
  BY <1>1, Zenon DEF Input, Sleep, Sleeping, Holds, Minus
<1> QED
  BY <1>3, <1>4, <1>5, Zenon DEF IInv

\* clockintr: ticks and the sleepers' counts go up together.
LEMMA ClockStep == ASSUME IInv, Clockintr PROVE IInv'
<1>1. /\ \A p \in Procs : Sleeping(p) => slept[p] < UINT - 1
      /\ ticks' = Plus(ticks, 1) /\ pc' = Woken("tasleep", "sleep")
      /\ slept' = [p \in Procs |-> IF Sleeping(p) THEN slept[p] + 1 ELSE slept[p]]
      /\ UNCHANGED <<load, uart, tx, fifo, thri, handler, cons, rx, call, line, ready, outq>>
  BY Zenon DEF Clockintr, dev
<1>2. /\ pc \in [Procs -> PCs] /\ Types /\ Input /\ Output /\ Sleep
      /\ ticks \in 0..UINT-1 /\ slept \in [Procs -> 0..UINT-1]
      /\ call \in [Procs -> [left: Int, any: BOOLEAN, ticks0: 0..UINT-1]]
  BY Zenon DEF IInv, Types, TypeOK
<1>3. /\ pc' \in [Procs -> PCs]
      /\ \A q \in Procs : IF pc[q] = "tasleep" THEN pc'[q] = "sleep" ELSE pc'[q] = pc[q]
  <2>1. "tasleep" \in PCs /\ "sleep" \in PCs
    BY Zenon DEF PCs
  <2> QED
    BY <1>1, <1>2, <2>1, WokenEffect, Zenon
<1>4. \A q \in Procs : /\ Sleeping(q)' <=> Sleeping(q)
                       /\ slept'[q] = IF Sleeping(q) THEN slept[q] + 1 ELSE slept[q]
  BY <1>1, <1>3, Zenon DEF Sleeping
<1>5. Types'
  <2>1. ticks' \in 0..UINT-1
    BY <1>1, <1>2, Around, Zenon
  <2>2. \A q \in Procs : slept[q] \in 0..UINT-1 /\ (Sleeping(q) => slept[q] + 1 \in 0..UINT-1)
    BY <1>1, <1>2, UintType, SMT, Z3
  <2>3. slept' \in [Procs -> 0..UINT-1]
    BY <1>1, <2>2, Zenon
  <2> QED
    BY <1>1, <1>2, <1>3, <2>1, <2>3, Zenon DEF Types, TypeOK
<1>6. Input'
  <2>1. \A q \in Procs : pc'[q] \in {"rhold", "rdoze", "rasleep"} => pc'[q] = pc[q]
    BY <1>3, Zenon
  <2> QED
    BY <1>1, <1>2, <2>1, InputQuiet, Zenon
<1>7. Output'
  <2>1. \A q \in Procs : pc'[q] = "start" <=> pc[q] = "start"
    BY <1>3, Zenon
  <2>2. tx.at = "send" => fifo' <= 1
    BY <1>1, <1>2, Zenon DEF Output
  <2> QED
    BY <1>1, <1>2, <2>1, <2>2, OutputQuiet, Zenon
<1>8. Sleep'
  <2>1. ASSUME NEW q \in Procs, Sleeping(q)'
        PROVE  Minus(ticks', call'[q].ticks0) = slept'[q]
    <3>1. PICK t0 \in 0..UINT-1, s \in 0..UINT-1, u \in 0..UINT-1 :
            /\ t0 = call[q].ticks0 /\ s = slept[q] /\ u = Plus(ticks, 1) /\ Dist(ticks, u, 1)
      <4>1. call[q].ticks0 \in 0..UINT-1 /\ slept[q] \in 0..UINT-1
        BY <1>2, SMT, Z3
      <4> QED
        BY <1>2, <4>1, Around, Zenon
    <3>2. s < UINT - 1 /\ Minus(ticks, t0) = s /\ slept'[q] = s + 1
      BY <1>1, <1>2, <1>4, <2>1, <3>1, Zenon DEF Sleep
    <3>3. Dist(t0, ticks, s)
      BY <1>2, <3>2, MinusDist, Zenon
    <3>4. Dist(t0, u, s + 1) /\ s + 1 \in 0..UINT-1
      <4>1. ticks \in 0..UINT-1 /\ s < UINT - 1
        BY <1>2, <3>2, Zenon
      <4>2. (ticks + 1 = u \/ ticks + 1 = u + UINT) /\ (t0 + s = ticks \/ t0 + s = ticks + UINT)
        BY <3>1, <3>3, Zenon DEF Dist
      <4>3. (t0 + (s + 1) = u \/ t0 + (s + 1) = u + UINT) /\ s + 1 \in 0..UINT-1
        BY <4>1, <4>2, UintType, SMT, Z3
      <4> QED
        BY <4>3, Zenon DEF Dist
    <3>5. Minus(u, t0) = s + 1
      BY <3>4, MinusDist, Zenon
    <3> QED
      BY <1>1, <3>1, <3>2, <3>5, Zenon
  <2>2. \A q \in Procs : pc'[q] \notin {"sleep", "tdoze", "tasleep", "ret"} => slept'[q] = 0
    BY <1>2, <1>3, <1>4, Zenon DEF Sleep, Sleeping
  <2> QED
    BY <2>1, <2>2, Zenon DEF Sleep
<1> QED
  BY <1>5, <1>6, <1>7, <1>8, Zenon DEF IInv
-----------------------------------------------------------------------------
\* ^U takes back the whole line being edited, for it contains no newline.
LEMMA KillLine == ASSUME Input PROVE KilledTo = cons.w
<1> DEFINE M == Minus(cons.e, cons.w)
           from(i) == \A j \in 0..i-1 : cons.buf[Minus(cons.e, j + 1) % INPUT_BUF_SIZE] # "nl"
           n == CHOOSE i \in 0..M : from(i) /\ (i = M \/ ~from(i + 1))
<1>0. /\ cons.r \in 0..UINT-1 /\ cons.w \in 0..UINT-1 /\ cons.e \in 0..UINT-1
      /\ ready \in Seq(Keys) /\ line \in Seq({"x"}) /\ line \in Seq(Keys)
  BY SMT, Z3 DEF Input, Keys
<1>1. Holds(cons.buf, cons.w, cons.e, INPUT_BUF_SIZE, line)
  BY <1>0, Split, Sizes, Zenon DEF Input
<1>2. PICK l \in Nat : /\ l = Len(line) /\ l <= INPUT_BUF_SIZE /\ M = l
                       /\ Dist(cons.w, cons.e, l) /\ INPUT_BUF_SIZE \in Nat /\ UINT \in Nat
                       /\ UINT > INPUT_BUF_SIZE
  BY <1>0, <1>1, Holding, Sizes, ZenonT(30)
<1>3. ASSUME NEW j \in 0..l-1
      PROVE  cons.buf[Minus(cons.e, j + 1) % INPUT_BUF_SIZE] # "nl"
  <2>1. PICK a \in 0..UINT-1, k \in 1..l, d \in Int :
          a = j + 1 /\ k = l - j /\ d = k - 1 /\ a + d = l
    <3>1. j + 1 \in 0..UINT-1 /\ l - j \in 1..l /\ l - j - 1 \in Int /\ (j + 1) + (l - j - 1) = l
      BY <1>2, SMT, Z3
    <3> QED
      BY <3>1, Zenon
  <2>2. PICK v \in 0..UINT-1, w \in 0..UINT-1, e \in 0..UINT-1 :
          v = Minus(cons.e, a) /\ Dist(a, e, v) /\ w = cons.w /\ e = cons.e
    BY <1>0, <2>1, MinusDist, Zenon
  <2>3. Dist(w, v, d)
    <3>1. /\ a + v = e \/ a + v = e + UINT
          /\ w + l = e \/ w + l = e + UINT
      BY <1>2, <2>2, Zenon DEF Dist
    <3>2. UINT \in Nat /\ a + d = l /\ d >= 0 /\ l < UINT
      BY <1>2, <2>1, SMT, Z3
    <3>3. w + d = v \/ w + d = v + UINT
      BY <3>1, <3>2, SMT, Z3
    <3> QED
      BY <3>3, Zenon DEF Dist
  <2>4. v % INPUT_BUF_SIZE = (cons.w + d) % INPUT_BUF_SIZE
    <3>1. RingSize(INPUT_BUF_SIZE)
      BY Sizes, Zenon
    <3>2. v % INPUT_BUF_SIZE = (w + d) % INPUT_BUF_SIZE
      BY <2>3, <3>1, SlotAt, Zenon
    <3> QED
      BY <2>2, <3>2, Zenon
  <2>5. cons.buf[(cons.w + d) % INPUT_BUF_SIZE] = line[k]
    BY <1>1, <1>2, <2>1, Zenon DEF Holds
  <2>6. line[k] = "x"
    BY <1>0, <1>2, <2>1, SMT, Z3
  <2> QED
    BY <2>1, <2>2, <2>4, <2>5, <2>6, SMT, Z3
<1>4. \A i \in 0..l : from(i)
  <2>1. \A i \in 0..l : \A j \in 0..i-1 : j \in 0..l-1
    BY <1>2, SMT, Z3
  <2> QED
    BY <1>3, <2>1, Zenon
<1>5. n = l
  <2>1. l \in 0..M /\ from(l) /\ l = M
    BY <1>2, <1>4, SMT, Z3
  <2>2. n \in 0..M /\ (n = M \/ ~from(n + 1))
    BY <2>1, Zenon
  <2>3. ASSUME n # l PROVE FALSE
    <3>1. PICK m \in 0..l : m = n /\ m # l /\ ~from(m + 1)
      BY <1>2, <2>2, <2>3, Zenon
    <3>2. m # l
      BY <3>1, Zenon
    <3>3. m + 1 \in 0..l
      BY <3>2, SMT, Z3
    <3> QED
      BY <1>4, <3>1, <3>3, Zenon
  <2> QED
    BY <2>3, Zenon
<1>6. Minus(cons.e, l) = cons.w
  <2>1. l \in 0..UINT-1 /\ Dist(l, cons.e, cons.w)
    BY <1>0, <1>2, SMTT(30), Z3T(30) DEF Dist
  <2> QED
    BY <1>0, <2>1, MinusDist, Zenon
<1>7. KilledTo = Minus(cons.e, n)
  BY Zenon DEF KilledTo
<1> QED
  BY <1>5, <1>6, <1>7, Zenon

\* What Consoleintr sees of the console's buffer.
LEMMA ConsTypes ==
  ASSUME Input
  PROVE  /\ cons \in [buf: [0..INPUT_BUF_SIZE-1 -> Keys], r: 0..UINT-1, w: 0..UINT-1, e: 0..UINT-1]
         /\ cons.buf \in [0..INPUT_BUF_SIZE-1 -> Keys]
         /\ cons.r \in 0..UINT-1 /\ cons.w \in 0..UINT-1 /\ cons.e \in 0..UINT-1
         /\ ready \in Seq(Keys) /\ line \in Seq({"x"}) /\ line \in Seq(Keys)
         /\ ready \o line \in Seq(Keys) /\ Minus(cons.e, cons.r) = Len(ready \o line)
         /\ Len(ready \o line) \in Nat /\ INPUT_BUF_SIZE \in Nat
         /\ Len(ready \o line) <= INPUT_BUF_SIZE
<1>1. /\ cons \in [buf: [0..INPUT_BUF_SIZE-1 -> Keys], r: 0..UINT-1, w: 0..UINT-1, e: 0..UINT-1]
      /\ ready \in Seq(Keys) /\ line \in Seq({"x"})
      /\ Minus(cons.e, cons.r) = Len(ready \o line) /\ Len(ready \o line) <= INPUT_BUF_SIZE
  BY Zenon DEF Input, Holds
<1>2. /\ cons.buf \in [0..INPUT_BUF_SIZE-1 -> Keys]
      /\ cons.r \in 0..UINT-1 /\ cons.w \in 0..UINT-1 /\ cons.e \in 0..UINT-1
  BY <1>1, SMT, Z3
<1>3. line \in Seq(Keys)
  BY <1>1, SMT, Z3 DEF Keys
<1>4. ready \o line \in Seq(Keys) /\ Len(ready \o line) \in Nat
  BY <1>1, <1>3, SMT, Z3
<1>5. INPUT_BUF_SIZE \in Nat
  BY DevAssumption, SMT, Z3
<1> QED
  BY <1>1, <1>2, <1>3, <1>4, <1>5, Zenon

\* A key is stored; newline, ^D and the last place commit the line and wake the readers.
LEMMA KeepInput ==
  ASSUME Input, pc \in [Procs -> PCs], NEW c \in Keys, c \notin {"U", "H"}, HasRoom, ConsFree,
         NEW commit \in BOOLEAN, commit <=> Commits(c, Plus(cons.e, 1)),
         cons' = [cons EXCEPT !.buf[cons.e % INPUT_BUF_SIZE] = c, !.e = Plus(cons.e, 1),
                              !.w = IF commit THEN Plus(cons.e, 1) ELSE @],
         pc' = (IF commit THEN Woken("rasleep", "read") ELSE pc), Typed(c)
  PROVE  Input'
<1> DEFINE q == ready \o line
           e1 == Plus(cons.e, 1)
<1>0. /\ cons \in [buf: [0..INPUT_BUF_SIZE-1 -> Keys], r: 0..UINT-1, w: 0..UINT-1, e: 0..UINT-1]
      /\ cons.buf \in [0..INPUT_BUF_SIZE-1 -> Keys]
      /\ cons.r \in 0..UINT-1 /\ cons.w \in 0..UINT-1 /\ cons.e \in 0..UINT-1
      /\ ready \in Seq(Keys) /\ line \in Seq({"x"}) /\ line \in Seq(Keys)
      /\ q \in Seq(Keys) /\ Minus(cons.e, cons.r) = Len(q)
      /\ Len(q) \in Nat /\ INPUT_BUF_SIZE \in Nat
  BY ConsTypes, Zenon
<1>1. Len(q) < INPUT_BUF_SIZE /\ e1 \in 0..UINT-1
  BY <1>0, Around, Zenon DEF HasRoom
<1>2. /\ ready \o Append(line, c) = Append(q, c) /\ Append(line, c) \in Seq(Keys)
      /\ ready \o Append(line, c) \in Seq(Keys)
      /\ Len(ready) + Len(Append(line, c)) = Len(q) + 1
      /\ Len(ready \o Append(line, c)) = Len(q) + 1
      /\ ready \o Append(line, c) \o << >> = ready \o Append(line, c)
  <2>1. ready \in Seq(Keys) /\ line \in Seq(Keys)
    BY <1>0, Zenon
  <2>2. /\ ready \o Append(line, c) = Append(ready \o line, c) /\ Append(line, c) \in Seq(Keys)
        /\ ready \o Append(line, c) \in Seq(Keys) /\ Append(line, c) # << >>
        /\ Len(ready) + Len(Append(line, c)) = Len(ready \o line) + 1
        /\ Len(ready \o Append(line, c)) = Len(ready \o line) + 1 /\ Len(ready \o line) \in Nat
        /\ ready \o Append(line, c) \o << >> = ready \o Append(line, c)
    BY ONLY c \in Keys, <2>1, AppendConcat, SMTT(30), Z3T(30)
  <2> QED
    BY <2>2, Zenon
<1>3. Holds([cons.buf EXCEPT ![cons.e % INPUT_BUF_SIZE] = c], cons.r, e1, INPUT_BUF_SIZE, Append(q, c))
  BY <1>0, <1>1, Push, Sizes, Zenon DEF Input
<1>4. Minus(e1, cons.r) = Len(q) + 1
  BY <1>2, <1>3, Zenon DEF Holds
<1>5. /\ cons' \in [buf: [0..INPUT_BUF_SIZE-1 -> Keys], r: 0..UINT-1, w: 0..UINT-1, e: 0..UINT-1]
      /\ cons'.buf = [cons.buf EXCEPT ![cons.e % INPUT_BUF_SIZE] = c]
      /\ cons'.r = cons.r /\ cons'.e = e1 /\ cons'.w = IF commit THEN e1 ELSE cons.w
  BY <1>0, <1>1, Zenon
<1>6. commit <=> c # "x" \/ Len(q) + 1 = INPUT_BUF_SIZE
  BY <1>4, Zenon DEF Commits, Keys
<1>7. ~(Len(ready) + Len(Append(line, c)) > INPUT_BUF_SIZE)
  BY <1>0, <1>1, <1>2, SMT, Z3
<1>8. IF commit THEN line' = << >> /\ ready' = ready \o Append(line, c)
      ELSE line' = Append(line, c) /\ ready' = ready
  BY <1>2, <1>6, <1>7, Zenon DEF Typed
<1>9. ready' \o line' = Append(q, c) /\ ready' \in Seq(Keys) /\ line' \in Seq({"x"})
  <2>1. CASE commit
    <3>1. << >> \in Seq({"x"})
      BY SMT, Z3
    <3> QED
      BY <1>2, <1>8, <2>1, <3>1, Zenon
  <2>2. CASE ~commit
    <3>1. Append(line, "x") \in Seq({"x"})
      BY <1>0, SMT, Z3
    <3> QED
      BY <1>0, <1>2, <1>6, <1>8, <2>2, <3>1, Zenon
  <2> QED
    BY <2>1, <2>2, Zenon
<1>10. Holds(cons'.buf, cons'.r, cons'.e, INPUT_BUF_SIZE, ready' \o line')
  BY <1>3, <1>5, <1>9, Zenon
<1>11. Minus(cons'.w, cons'.r) = Len(ready')
  BY <1>2, <1>4, <1>5, <1>8, Zenon DEF Input
<1>12. Len(ready' \o line') = INPUT_BUF_SIZE => line' = << >>
  BY <1>2, <1>6, <1>8, <1>9, Zenon
<1>13. /\ \A p \in Procs : pc'[p] \in {"rdoze", "rasleep"} => cons'.r = cons'.w
       /\ \A p, r \in Procs : pc'[p] \in {"rhold", "rdoze"} /\ pc'[r] \in {"rhold", "rdoze"} => p = r
  <2>1. CASE commit
    <3>1. \A p \in Procs : IF pc[p] = "rasleep" THEN pc'[p] = "read" ELSE pc'[p] = pc[p]
      BY <2>1, Zenon DEF Woken
    <3> QED
      BY <3>1, Zenon DEF ConsFree
  <2>2. CASE ~commit
    BY <1>5, <2>2, Zenon DEF Input
  <2> QED
    BY <2>1, <2>2, Zenon
<1> QED
  BY <1>5, <1>9, <1>10, <1>11, <1>12, <1>13, Zenon DEF Input

\* The two pieces of the console's buffer; the second is empty just when e is at w.
LEMMA Pieces ==
  ASSUME Input
  PROVE  /\ Holds(cons.buf, cons.r, cons.w, INPUT_BUF_SIZE, ready)
         /\ Holds(cons.buf, cons.w, cons.e, INPUT_BUF_SIZE, line)
         /\ cons.e = cons.w <=> line = << >>
<1>1. /\ cons.r \in 0..UINT-1 /\ cons.w \in 0..UINT-1 /\ cons.e \in 0..UINT-1
      /\ ready \in Seq(Keys) /\ line \in Seq(Keys)
  BY ConsTypes, Zenon
<1>2. /\ Holds(cons.buf, cons.r, cons.w, INPUT_BUF_SIZE, ready)
      /\ Holds(cons.buf, cons.w, cons.e, INPUT_BUF_SIZE, line)
  BY <1>1, Split, Sizes, Zenon DEF Input
<1>3. PICK n \in Nat : n = Len(line) /\ n <= INPUT_BUF_SIZE /\ Dist(cons.w, cons.e, n)
  BY <1>1, <1>2, Holding, Sizes, Zenon
<1>4. n = 0 <=> cons.e = cons.w
  <2>1. INPUT_BUF_SIZE \in Nat /\ UINT \in Nat /\ UINT > INPUT_BUF_SIZE
    BY DevAssumption, SMT, Z3
  <2> QED
    BY <1>1, <1>3, <2>1, SMTT(30), Z3T(30) DEF Dist
<1>5. n = 0 <=> line = << >>
  BY <1>1, <1>3, SMT, Z3
<1> QED
  BY <1>2, <1>4, <1>5, Zenon

\* The end of the line moves back and what is left of the line is still there.
LEMMA EraseInput ==
  ASSUME Input, NEW e \in 0..UINT-1, NEW l \in Seq({"x"}),
         Holds(cons.buf, cons.r, e, INPUT_BUF_SIZE, ready \o l),
         Len(ready \o l) = INPUT_BUF_SIZE => l = << >>,
         cons' = [cons EXCEPT !.e = e], line' = l, ready' = ready, pc' = pc
  PROVE  Input'
<1>1. /\ cons \in [buf: [0..INPUT_BUF_SIZE-1 -> Keys], r: 0..UINT-1, w: 0..UINT-1, e: 0..UINT-1]
      /\ ready \in Seq(Keys)
  BY ConsTypes, Zenon
<1>2. /\ cons' \in [buf: [0..INPUT_BUF_SIZE-1 -> Keys], r: 0..UINT-1, w: 0..UINT-1, e: 0..UINT-1]
      /\ cons'.buf = cons.buf /\ cons'.r = cons.r /\ cons'.e = e /\ cons'.w = cons.w
  BY <1>1, SMTT(30), Z3T(30)
<1>3. ready' \o line' = ready \o l
  BY Zenon
<1>4. Holds(cons'.buf, cons'.r, cons'.e, INPUT_BUF_SIZE, ready' \o line')
  BY <1>2, <1>3, Zenon
<1>5. Minus(cons'.w, cons'.r) = Len(ready')
  BY <1>2, Zenon DEF Input
<1>6. Len(ready' \o line') = INPUT_BUF_SIZE => line' = << >>
  BY <1>3, Zenon
<1>7. /\ \A p \in Procs : pc'[p] \in {"rdoze", "rasleep"} => cons'.r = cons'.w
      /\ \A p, r \in Procs : pc'[p] \in {"rhold", "rdoze"} /\ pc'[r] \in {"rhold", "rdoze"} => p = r
  BY <1>2, Zenon DEF Input
<1> QED
  BY <1>1, <1>2, <1>4, <1>5, <1>6, <1>7, Zenon DEF Input

\* ^U
LEMMA KillInput ==
  ASSUME Input, cons' = [cons EXCEPT !.e = KilledTo], Typed("U"), pc' = pc
  PROVE  Input'
<1>1. /\ line' = << >> /\ ready' = ready /\ KilledTo = cons.w
  BY KillLine, Zenon DEF Typed
<1>2. cons.w \in 0..UINT-1 /\ ready \in Seq(Keys)
  BY ConsTypes, Zenon
<1>3. << >> \in Seq({"x"}) /\ ready \o << >> = ready
  BY <1>2, SMT, Z3
<1>4. Holds(cons.buf, cons.r, cons.w, INPUT_BUF_SIZE, ready \o << >>)
  BY <1>3, Pieces, Zenon
<1>5. cons' = [cons EXCEPT !.e = cons.w]
  BY <1>1, Zenon
<1> QED
  BY <1>1, <1>2, <1>3, <1>4, <1>5, EraseInput, Zenon

\* ^H
LEMMA BackInput ==
  ASSUME Input, Typed("H"), pc' = pc,
         cons' = [cons EXCEPT !.e = IF cons.e # cons.w THEN Minus(cons.e, 1) ELSE cons.e]
  PROVE  Input'
<1>1. line' = (IF line = << >> THEN line ELSE Front(line)) /\ ready' = ready
  BY Zenon DEF Typed, Front
<1>2. /\ cons.r \in 0..UINT-1 /\ cons.e \in 0..UINT-1
      /\ ready \in Seq(Keys) /\ line \in Seq({"x"}) /\ line \in Seq(Keys)
      /\ Len(ready \o line) <= INPUT_BUF_SIZE /\ INPUT_BUF_SIZE \in Nat
      /\ Holds(cons.buf, cons.r, cons.e, INPUT_BUF_SIZE, ready \o line)
      /\ Len(ready \o line) = INPUT_BUF_SIZE => line = << >>
  BY ConsTypes, Zenon DEF Input
<1>3. CASE line = << >>
  <2>1. cons' = [cons EXCEPT !.e = cons.e] /\ line' = line
    BY <1>1, <1>3, Pieces, Zenon
  <2> QED
    BY <1>1, <1>2, <2>1, EraseInput, Zenon
<1>4. CASE line # << >>
  <2>1. cons' = [cons EXCEPT !.e = Minus(cons.e, 1)] /\ line' = Front(line)
    BY <1>1, <1>4, Pieces, Zenon
  <2>2. Front(line) \in Seq({"x"})
    BY <1>2, <1>4, FrontIs, Zenon
  <2>3. /\ ready \o Front(line) = Front(ready \o line)
        /\ ready \o line \in Seq(Keys) /\ ready \o line # << >>
        /\ Len(ready \o Front(line)) = Len(ready \o line) - 1 /\ Len(ready \o line) \in Nat
    <3>1. ready \in Seq(Keys) /\ line \in Seq(Keys) /\ line # << >>
      BY <1>2, <1>4, Zenon
    <3> QED
      BY ONLY <3>1, FrontConcat, ZenonT(30)
  <2>4. Minus(cons.e, 1) \in 0..UINT-1
    BY <1>2, Around, Zenon
  <2>5. Holds(cons.buf, cons.r, Minus(cons.e, 1), INPUT_BUF_SIZE, Front(ready \o line))
    BY <1>2, <2>3, Unpush, Sizes, Zenon
  <2>6. Holds(cons.buf, cons.r, Minus(cons.e, 1), INPUT_BUF_SIZE, ready \o Front(line))
    BY <2>3, <2>5, Zenon
  <2>7. Len(ready \o Front(line)) # INPUT_BUF_SIZE
    BY <1>2, <2>3, SMT, Z3
  <2> QED
    BY <1>1, <2>1, <2>2, <2>4, <2>6, <2>7, EraseInput, Zenon
<1> QED
  BY <1>3, <1>4, Zenon

\* A key without room is dropped.
LEMMA DropInput ==
  ASSUME Input, NEW c \in Keys, c \notin {"U", "H"}, ~HasRoom,
         Typed(c), UNCHANGED <<cons, pc>>
  PROVE  Input'
<1>1. /\ ready \in Seq(Keys) /\ line \in Seq(Keys)
      /\ Minus(cons.e, cons.r) = Len(ready \o line)
      /\ Len(ready \o line) \in Nat /\ INPUT_BUF_SIZE \in Nat
  BY ConsTypes, Zenon
<1>2. PICK m \in Nat : m = Len(ready) + Len(Append(line, c)) /\ m = Len(ready \o line) + 1
  BY <1>1, SMT, Z3
<1>3. m > INPUT_BUF_SIZE
  <2>1. ~(Len(ready \o line) < INPUT_BUF_SIZE)
    BY <1>1, Zenon DEF HasRoom
  <2> QED
    BY <1>1, <1>2, <2>1, SMT, Z3
<1>4. UNCHANGED <<line, ready>>
  BY <1>2, <1>3, Zenon DEF Typed
<1> QED
  BY <1>4, InputQuiet, Zenon

\* consoleintr handles a key.
LEMMA ConsoleintrStep == ASSUME IInv, NEW c \in load.keys, Consoleintr(c) PROVE IInv'
<1>1. /\ Types /\ Input /\ Output /\ Sleep /\ load \in Workloads /\ pc \in [Procs -> PCs]
      /\ fifo \in 0..2 /\ thri \in BOOLEAN
  BY Zenon DEF IInv, Types, TypeOK
<1>2. c \in Keys
  BY <1>1, DevAssumption, Zenon
<1> DEFINE e1 == Plus(cons.e, 1)
           keep == c \notin {"U", "H"} /\ HasRoom
           commit == keep /\ Commits(c, e1)
           erase == IF c = "U" THEN KilledTo ELSE IF cons.e # cons.w THEN Minus(cons.e, 1) ELSE cons.e
           echo == keep \/ (c \in {"U", "H"} /\ erase # cons.e)
<1>3. /\ ConsFree /\ rx' = FALSE
      /\ cons' = IF keep THEN [cons EXCEPT !.buf[cons.e % INPUT_BUF_SIZE] = c, !.e = e1,
                                           !.w = IF commit THEN e1 ELSE @]
                 ELSE IF c \in {"U", "H"} THEN [cons EXCEPT !.e = erase] ELSE cons
      /\ pc' = IF commit THEN Woken("rasleep", "read") ELSE pc
      /\ Echoed(echo) /\ Typed(c)
      /\ UNCHANGED <<load, uart, tx, handler, ticks, call, outq, slept>>
  BY Zenon DEF Consoleintr
<1>4. Input'
  <2>1. CASE keep
    <3>1. PICK b \in BOOLEAN : (b <=> commit) /\ (b <=> Commits(c, Plus(cons.e, 1)))
      BY <2>1, Zenon
    <3>2. /\ cons' = [cons EXCEPT !.buf[cons.e % INPUT_BUF_SIZE] = c, !.e = Plus(cons.e, 1),
                                  !.w = IF b THEN Plus(cons.e, 1) ELSE @]
          /\ pc' = (IF b THEN Woken("rasleep", "read") ELSE pc)
      <4>1. CASE b
        BY <1>3, <2>1, <3>1, <4>1, Zenon
      <4>2. CASE ~b
        BY <1>3, <2>1, <3>1, <4>2, Zenon
      <4> QED
        BY <4>1, <4>2, Zenon
    <3>3. c \notin {"U", "H"} /\ HasRoom
      BY <2>1, Zenon
    <3> HIDE DEF keep, commit, erase, echo, e1
    <3> QED
      BY <1>1, <1>2, <1>3, <3>1, <3>2, <3>3, KeepInput, Zenon
  <2>2. CASE c = "U"
    <3>1. cons' = [cons EXCEPT !.e = KilledTo] /\ pc' = pc /\ Typed("U")
      BY <1>3, <2>2, Zenon
    <3> QED
      BY <1>1, <3>1, KillInput, Zenon
  <2>3. CASE c = "H"
    <3>1. /\ cons' = [cons EXCEPT !.e = IF cons.e # cons.w THEN Minus(cons.e, 1) ELSE cons.e]
          /\ pc' = pc /\ Typed("H")
      BY <1>3, <2>3, Zenon
    <3> QED
      BY <1>1, <3>1, BackInput, Zenon
  <2>4. CASE c \notin {"U", "H"} /\ ~HasRoom
    <3>1. UNCHANGED <<cons, pc>> /\ Typed(c)
      BY <1>3, <2>4, Zenon
    <3> QED
      BY <1>1, <1>2, <2>4, <3>1, DropInput, Zenon
  <2> QED
    BY <2>1, <2>2, <2>3, <2>4, Zenon
<1>5. /\ pc' \in [Procs -> PCs]
      /\ \A q \in Procs : pc'[q] = pc[q] \/ (pc'[q] = "read" /\ pc[q] = "rasleep")
  <2>1. CASE commit
    <3>1. "rasleep" \in PCs /\ "read" \in PCs /\ pc' = Woken("rasleep", "read")
      BY <1>3, <2>1, Zenon DEF PCs
    <3> HIDE DEF keep, commit, erase, echo, e1
    <3> QED
      BY <1>1, <3>1, WokenEffect, Zenon
  <2>2. CASE ~commit
    BY <1>1, <1>3, <2>2, Zenon
  <2> QED
    BY <2>1, <2>2, Zenon
<1> HIDE DEF keep, commit, erase, echo, e1
<1>6. fifo' \in 0..2 /\ (fifo' = fifo \/ fifo' = 1) /\ thri' \in BOOLEAN
  <2>1. (fifo' = fifo \/ fifo' = 1) /\ thri' \in BOOLEAN
    BY <1>1, <1>3, Zenon DEF Echoed
  <2> QED
    BY <1>1, <2>1, SMT, Z3
<1>7. Types'
  BY <1>1, <1>3, <1>5, <1>6, Zenon DEF Types, TypeOK
<1>8. Output'
  <2>1. tx.at = "send" => fifo' <= 1
    <3>1. tx.at = "send" => fifo <= 1
      BY <1>1, Zenon DEF Output
    <3> QED
      BY <1>1, <1>6, <3>1, SMT, Z3
  <2>2. \A p \in Procs : pc'[p] = "start" <=> pc[p] = "start"
    BY <1>5, Zenon
  <2> QED
    BY <1>1, <1>3, <2>1, <2>2, OutputQuiet, Zenon
<1>9. Sleep'
  <2>1. \A p \in Procs : /\ Sleeping(p)' => /\ Sleeping(p) /\ slept'[p] = slept[p]
                                            /\ call'[p].ticks0 = call[p].ticks0
                         /\ pc'[p] \notin {"sleep", "tdoze", "tasleep", "ret"} => slept'[p] = 0
    BY <1>1, <1>3, <1>5, Zenon DEF Sleep, Sleeping
  <2> QED
    BY <1>1, <1>3, <2>1, SleepQuiet, Zenon
<1> QED
  BY <1>4, <1>7, <1>8, <1>9, Zenon DEF IInv
-----------------------------------------------------------------------------
\* Every step of the processes, of the interrupt handler, of the uart and of the
\* clock keeps the invariant.
LEMMA NextIInv == ASSUME IInv, [Next]_vars PROVE IInv'
<1>1. CASE UNCHANGED vars
  BY <1>1, Quiet, Zenon DEF vars
<1>2. ASSUME NEW p \in Procs, Step(p) \/ Call(p) \/ Kill(p) PROVE IInv'
  <2>1. CASE \/ ReadLock(p) \/ ReadEmpty(p) \/ ReadDoze(p) \/ CopyIn(p) \/ PutSleep(p)
             \/ SleepCheck(p) \/ SleepDoze(p) \/ Kill(p)
    BY <1>2, <2>1, MovesStep, Zenon
  <2>2. CASE Exit(p) \/ Return(p)
    BY <1>2, <2>2, LeftStep, Zenon
  <2>3. CASE ReadChar(p)
    BY <1>2, <2>3, ReadCharStep, Zenon
  <2>4. CASE Put(p)
    BY <1>2, <2>4, PutStep, Zenon
  <2>5. CASE Call(p)
    BY <1>2, <2>5, CallStep, Zenon
  <2> QED
    BY <1>2, <2>1, <2>2, <2>3, <2>4, <2>5, Zenon DEF Step
<1>3. CASE Start
  BY <1>3, StartEndStep, StartTakeStep, StartSendStep, Zenon DEF Start
<1>4. CASE Intr
  BY <1>4, LineStep, IntrStartStep, ConsoleintrStep, Zenon DEF Intr
<1>5. CASE Transmit \/ Key \/ Clockintr
  BY <1>5, LineStep, ClockStep, Zenon
<1> QED
  BY <1>1, <1>2, <1>3, <1>4, <1>5, Zenon DEF Next

\* What the invariant says of the console, the uart and the sleepers holds in every
\* behaviour of the interrupt handlers and the processes.
THEOREM DevInvariance == Spec => []IInv
<1>1. Init => IInv
  BY InitIInv, Zenon
<1>2. IInv /\ [Next]_vars => IInv'
  BY NextIInv, Zenon
<1> QED
  BY <1>1, <1>2, PTL DEF Spec

\* console.c: whatever the wrap of r, w and e, the buffer holds the lines committed
\* and the line being edited, no key overwrites one that is unread, a full buffer can
\* be read, and no reader sleeps while there is input.
THEOREM InputKept == Spec => []InputIntact
<1>1. ASSUME IInv PROVE InputIntact
  <2>1. TypeOK /\ Input
    BY <1>1, Zenon DEF IInv, Types
  <2>2. /\ cons.r \in 0..UINT-1 /\ cons.w \in 0..UINT-1 /\ cons.e \in 0..UINT-1
        /\ ready \in Seq(Keys) /\ line \in Seq(Keys)
    BY <2>1, ConsTypes, Zenon
  <2>3. Slots(cons.buf, cons.r, cons.w, INPUT_BUF_SIZE) = ready
    <3>1. Holds(cons.buf, cons.r, cons.w, INPUT_BUF_SIZE, ready)
      BY <2>1, Pieces, Zenon
    <3> QED
      BY <2>2, <3>1, HoldsSlots, Sizes, Zenon
  <2>4. Slots(cons.buf, cons.w, cons.e, INPUT_BUF_SIZE) = line
    <3>1. Holds(cons.buf, cons.w, cons.e, INPUT_BUF_SIZE, line)
      BY <2>1, Pieces, Zenon
    <3> QED
      BY <2>2, <3>1, HoldsSlots, Sizes, Zenon
  <2>5. Minus(cons.e, cons.r) = INPUT_BUF_SIZE => line = << >>
    BY <2>1, Zenon DEF Input, Holds
  <2>6. \A p \in Procs : pc[p] = "rasleep" => cons.r = cons.w
    BY <2>1, Zenon DEF Input
  <2> QED
    BY <2>1, <2>3, <2>4, <2>5, <2>6, Zenon DEF InputIntact
<1> QED
  BY <1>1, DevInvariance, PTL

\* uart.c: bytes are sent in the order in which uartputc took them, none is
\* overwritten, and the FIFO never has more than uartstart's byte and one echo.
THEOREM OutputKept == Spec => []OutputIntact
<1>1. ASSUME IInv PROVE OutputIntact
  <2>1. Types /\ Output /\ fifo \in 0..2
    BY <1>1, Zenon DEF IInv, Types, TypeOK
  <2>2. /\ uart \in [buf: [0..UART_TX_BUF_SIZE-1 -> Procs \cup {"none"}], r: 0..UINT-1, w: 0..UINT-1]
        /\ outq \in Seq(Procs) /\ Holds(uart.buf, Base, uart.w, UART_TX_BUF_SIZE, outq)
        /\ tx.at = "send" => ~TxFree /\ outq # << >>
    BY <2>1, Zenon DEF Output
  <2>3. /\ uart.buf \in [0..UART_TX_BUF_SIZE-1 -> Procs \cup {"none"}]
        /\ uart.r \in 0..UINT-1 /\ uart.w \in 0..UINT-1 /\ outq \in Seq(Procs \cup {"none"})
    BY <2>2, SMT, Z3
  <2>4. outq = (IF ~TxFree /\ tx.at = "send" THEN <<uart.buf[Minus(uart.r, 1) % UART_TX_BUF_SIZE]>> ELSE <<>>)
               \o Slots(uart.buf, uart.r, uart.w, UART_TX_BUF_SIZE)
    <3>1. CASE tx.at = "send"
      <4>1. PICK v \in 0..UINT-1 : v = Minus(uart.r, 1) /\ Plus(v, 1) = uart.r
        BY <2>3, Around, Zenon
      <4>2. Holds(uart.buf, v, uart.w, UART_TX_BUF_SIZE, outq) /\ outq # << >>
        BY <2>2, <3>1, <4>1, Zenon DEF Base
      <4>3. /\ uart.buf[v % UART_TX_BUF_SIZE] = Head(outq)
            /\ Holds(uart.buf, Plus(v, 1), uart.w, UART_TX_BUF_SIZE, Tail(outq))
            /\ Holds([uart.buf EXCEPT ![v % UART_TX_BUF_SIZE] = "none"], Plus(v, 1), uart.w,
                     UART_TX_BUF_SIZE, Tail(outq))
        BY <2>3, <4>2, Pop, Sizes, Zenon
      <4>4. Tail(outq) \in Seq(Procs \cup {"none"}) /\ outq = <<Head(outq)>> \o Tail(outq)
        BY <2>3, <4>2, SMT, Z3
      <4>5. Holds(uart.buf, uart.r, uart.w, UART_TX_BUF_SIZE, Tail(outq))
        BY <4>1, <4>3, Zenon
      <4>6. Slots(uart.buf, uart.r, uart.w, UART_TX_BUF_SIZE) = Tail(outq)
        BY <2>3, <4>4, <4>5, HoldsSlots, Sizes, Zenon
      <4> QED
        BY <2>2, <3>1, <4>1, <4>3, <4>4, <4>6, Zenon
    <3>2. CASE tx.at # "send"
      <4>1. Holds(uart.buf, uart.r, uart.w, UART_TX_BUF_SIZE, outq)
        BY <2>2, <3>2, Zenon DEF Base
      <4>2. Slots(uart.buf, uart.r, uart.w, UART_TX_BUF_SIZE) = outq
        BY <2>3, <4>1, HoldsSlots, Sizes, Zenon
      <4>3. << >> \o outq = outq
        BY <2>3, SMT, Z3
      <4> QED
        BY <3>2, <4>2, <4>3, Zenon
    <3> QED
      BY <3>1, <3>2, Zenon
  <2>5. fifo <= 2
    BY <2>1, SMT, Z3
  <2> QED
    BY <2>4, <2>5, Zenon DEF OutputIntact
<1> QED
  BY <1>1, DevInvariance, PTL

\* Only sys_sleep's test ends a sleep.
LEMMA OnlyCheck ==
  ASSUME pc \in [Procs -> PCs], Next, NEW p \in Procs, pc[p] = "sleep", pc'[p] = "ret"
  PROVE  SleepCheck(p)
<1>1. ASSUME NEW q \in Procs, Step(q) \/ Call(q) \/ Kill(q) PROVE SleepCheck(p)
  <2>1. PICK t : pc' = [pc EXCEPT ![q] = t]
    BY <1>1, Zenon DEF Step, Call, Kill, Exit, Return, Left, ReadLock, ReadEmpty, ReadDoze, ReadChar,
       CopyIn, PutSleep, Put, SleepCheck, SleepDoze, Goto
  <2>2. q = p
    BY <2>1, Zenon
  <2>3. CASE Kill(q)
    <3>1. pc'[p] = pc[p]
      BY <2>2, <2>3, Zenon DEF Kill
    <3> QED
      BY <3>1, Zenon
  <2>4. CASE Call(q)
    BY <2>2, <2>4, Zenon DEF Call, Goto
  <2>5. CASE Step(q)
    BY <2>2, <2>5, Zenon DEF Step, Exit, Return, Left, ReadLock, ReadEmpty, ReadDoze, ReadChar,
       CopyIn, PutSleep, Put, SleepDoze, Goto
  <2> QED
    BY <1>1, <2>3, <2>4, <2>5, Zenon
<1>2. ~Start
  <2>1. ~StartEnd
    BY Zenon DEF StartEnd, Goto
  <2>2. ~StartTake /\ ~StartSend
    BY Zenon DEF StartTake, StartSend, Woken
  <2> QED
    BY <2>1, <2>2, Zenon DEF Start
<1>3. ~Intr
  <2>1. ~Claim /\ ~IntrStart /\ ~Complete
    BY Zenon DEF Claim, IntrStart, Complete
  <2>2. ASSUME NEW c \in load.keys, Consoleintr(c) PROVE FALSE
    <3>1. pc' = pc \/ pc' = Woken("rasleep", "read")
      BY <2>2, Zenon DEF Consoleintr
    <3> QED
      BY <3>1, Zenon DEF Woken
  <2> QED
    BY <2>1, <2>2, Zenon DEF Intr
<1>4. ~Transmit /\ ~Key /\ ~Clockintr
  BY Zenon DEF Transmit, Key, Clockintr, Woken
<1> QED
  BY <1>1, <1>2, <1>3, <1>4, Zenon DEF Next

\* sys_sleep returns no earlier than asked, unless its process was killed, also when
\* ticks wraps during the sleep.
THEOREM SleepsKept == Spec => SleepNotEarly
<1>1. ASSUME IInv, [Next]_vars
      PROVE  [\A p \in Procs : pc[p] = "sleep" /\ pc'[p] = "ret"
                => killed[p] \/ slept[p] >= call[p].left]_vars
  <2>1. SUFFICES ASSUME Next, NEW p \in Procs, pc[p] = "sleep", pc'[p] = "ret", ~killed[p]
                 PROVE  slept[p] >= call[p].left
    BY <1>1, Zenon
  <2>2. /\ pc \in [Procs -> PCs] /\ Minus(ticks, call[p].ticks0) = slept[p]
        /\ call \in [Procs -> [left: Int, any: BOOLEAN, ticks0: 0..UINT-1]]
        /\ slept \in [Procs -> 0..UINT-1]
    BY <1>1, <2>1, Zenon DEF IInv, Types, Sleep, Sleeping
  <2>3. ~Waiting(p)
    <3>1. SleepCheck(p)
      BY <2>1, <2>2, OnlyCheck, Zenon
    <3>2. pc' = [pc EXCEPT ![p] = IF ~Waiting(p) \/ killed[p] THEN "ret" ELSE "tdoze"]
      BY <3>1, Zenon DEF SleepCheck, Goto
    <3> QED
      BY <2>1, <2>2, <3>2, Zenon
  <2>4. ~(slept[p] < call[p].left)
    BY <2>2, <2>3, Zenon DEF Waiting
  <2>5. slept[p] \in Int /\ call[p].left \in Int
    BY <2>2, SMT, Z3
  <2> QED
    BY <2>4, <2>5, SMT, Z3
<1> QED
  BY <1>1, DevInvariance, PTL DEF Spec, SleepNotEarly
=============================================================================
