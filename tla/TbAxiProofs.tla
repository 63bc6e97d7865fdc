---------------------------- MODULE TbAxiProofs ----------------------------
(***************************************************************************)
(* Proofs about TbAxi, for every address space, every set of calls and a    *)
(* memory that takes as long as it likes: the responses are those the       *)
(* driver asserts, it keeps to the protocol of AXI, it holds its requests   *)
(* on the port, and its calls are those of a memory of bytes.               *)
(***************************************************************************)
EXTENDS TbAxi, SequenceTheorems, WellFoundedInduction, TLAPS

------------------------------------------------------------------------------
\* Induction: a set of naturals with 0 and the successor of each of its elements
\* is all of them.

LEMMA LeastElement ==
  ASSUME NEW S \in SUBSET Nat, S # {}
  PROVE  \E x \in S : \A y \in S : x =< y
<1>1. IsWellFoundedOn(OpToRel(<, Nat), Nat)
  BY NatLessThanWellFounded
<1> DEFINE R == OpToRel(<, Nat)
<1>2. \A x, y \in Nat : <<x, y>> \in R <=> x < y
  BY DEF OpToRel
<1> HIDE DEF R
<1>3. PICK x \in S : \A y \in S : ~(<<y, x>> \in R)
  BY <1>1, WFMin DEF R
<1>4. \A y \in S : x =< y
  <2> TAKE y \in S
  <2>1. ~(<<y, x>> \in R) /\ x \in Nat /\ y \in Nat
    BY <1>3
  <2>2. ~(y < x)
    BY <1>2, <2>1, Zenon
  <2> QED BY <2>1, <2>2
<1> QED BY <1>4

LEMMA Inductive ==
  ASSUME NEW S, 0 \in S, \A n \in Nat : n \in S => n + 1 \in S
  PROVE  \A n \in Nat : n \in S
<1> DEFINE T == {n \in Nat : n \notin S}
<1> SUFFICES ASSUME T # {} PROVE FALSE
  OBVIOUS
<1>1. PICK x \in T : \A y \in T : x =< y
  BY LeastElement
<1>2. x # 0 /\ x - 1 \in Nat /\ x - 1 \notin T
  BY <1>1
<1>3. x - 1 \in S /\ x \in S
  BY <1>2
<1> QED BY <1>1, <1>3

\* The least and the greatest of a set.
LEMMA MinOf ==
  ASSUME NEW S \in SUBSET Nat, S # {}
  PROVE  Min(S) \in S /\ \A y \in S : Min(S) =< y
BY LeastElement DEF Min

LEMMA MinOfTwo ==
  ASSUME NEW a \in Nat, NEW b \in Nat
  PROVE  Min({a, b}) = IF a =< b THEN a ELSE b
<1> DEFINE S == {a, b}
<1>1. S \in SUBSET Nat /\ S # {}
  OBVIOUS
<1>2. Min(S) \in S /\ \A y \in S : Min(S) =< y
  BY <1>1, MinOf, Zenon
<1>3. Min(S) \in {a, b} /\ Min(S) =< a /\ Min(S) =< b
  BY <1>2
<1> HIDE DEF S
<1>4. Min(S) = IF a =< b THEN a ELSE b
  BY <1>3
<1> QED BY <1>4 DEF S

------------------------------------------------------------------------------
\* The words of a block.

\* How many words the block of a call lies in, and the offset in the block that
\* the first i of them reach.
WordsIn(c) == ((c.addr % 4) + Len(c.data) + 3) \div 4
Upto(c, i) == IF i = 0 THEN 0 ELSE IF i = WordsIn(c) THEN Len(c.data) ELSE 4 * i - (c.addr % 4)
SizeIn(c, i) == Upto(c, i) - Upto(c, i - 1)

\* The i-th of them in the memory, and the place of its first byte in the block.
WordNo(c, i)  == (WordOf(c.addr) + i - 1) % NumWords
PlaceIn(c, i) == (c.addr + Upto(c, i - 1)) % AddrSpace

\* The properties of a block that the arithmetic needs.
IsBlock(c) == c.addr \in Addrs /\ Len(c.data) \in 1 .. AddrSpace

LEMMA Division ==
  ASSUME NEW n \in Nat \ {0}
  PROVE  /\ \A a \in Int : a % n \in 0 .. n - 1
         /\ \A a \in Nat : a \div n \in Nat /\ a = n * (a \div n) + (a % n)
         /\ \A q \in Int, r \in 0 .. n - 1 : (n * q + r) \div n = q /\ (n * q + r) % n = r
OBVIOUS

LEMMA Remainder ==
  ASSUME NEW n \in Nat \ {0}, NEW q \in Int, NEW r \in 0 .. n - 1
  PROVE  (n * q + r) \div n = q /\ (n * q + r) % n = r
BY Division

LEMMA Space ==
  /\ AddrSpace \in Nat \ {0} /\ NumWords \in Nat \ {0} /\ AddrSpace = 4 * NumWords
  /\ \A a \in Addrs : a % 4 \in 0 .. 3 /\ WordOf(a) \in 0 .. NumWords - 1 /\ a = 4 * WordOf(a) + (a % 4)
<1>1. AddrSpace \in Nat \ {0} /\ AddrSpace % 4 = 0
  <2>1. AddrSpace \in Nat \ {0} /\ AddrSpace % 64 = 0
    BY AddrSpaceAssumption
  <2>2. AddrSpace = 64 * (AddrSpace \div 64) /\ AddrSpace \div 64 \in Nat
    BY <2>1, Division
  <2>3. AddrSpace = 4 * (16 * (AddrSpace \div 64)) + 0 /\ 16 * (AddrSpace \div 64) \in Int
    BY <2>2
  <2> QED BY <2>1, <2>3
<1>2. NumWords \in Nat \ {0} /\ AddrSpace = 4 * NumWords
  BY <1>1 DEF NumWords
<1> QED BY <1>1, <1>2 DEF Addrs, WordOf

\* A sum of two that is at most one time around.
LEMMA Around ==
  ASSUME NEW n \in Nat \ {0}, NEW s \in 0 .. n - 1, NEW i \in 0 .. n
  PROVE  (s + i) % n = IF s + i < n THEN s + i ELSE s + i - n
<1>1. ASSUME NEW r \in 0 .. n - 1 PROVE r % n = r /\ (r + n) % n = r
  <2>1. r = n * 0 + r /\ r + n = n * 1 + r
    OBVIOUS
  <2> QED BY <2>1
<1>2. CASE s + i < n
  <2>1. s + i \in 0 .. n - 1
    BY <1>2
  <2> QED BY <1>1, <1>2, <2>1
<1>3. CASE ~(s + i < n)
  <2>1. s + i - n \in 0 .. n - 1 /\ (s + i - n) + n = s + i
    BY <1>3
  <2>2. ((s + i - n) + n) % n = s + i - n
    BY <1>1, <2>1
  <2> QED BY <1>3, <2>1, <2>2
<1> QED BY <1>2, <1>3

\* The number that comes after another, around the same circle.
LEMMA NextAround ==
  ASSUME NEW n \in Nat \ {0}, NEW a \in Nat
  PROVE  (a + 1) % n = ((a % n) + 1) % n
<1>1. a = n * (a \div n) + (a % n) /\ a \div n \in Nat /\ a % n \in 0 .. n - 1
  OBVIOUS
<1> DEFINE q == a \div n
           r == a % n
<1> HIDE DEF q, r
<1>2. a + 1 = n * q + (r + 1) /\ q \in Nat /\ r \in 0 .. n - 1
  BY <1>1 DEF q, r
<1>3. CASE r + 1 < n
  <2>1. r + 1 \in 0 .. n - 1 /\ r + 1 = n * 0 + (r + 1)
    BY <1>2, <1>3
  <2>2. (n * q + (r + 1)) % n = r + 1 /\ (n * 0 + (r + 1)) % n = r + 1
    <3> DEFINE t == r + 1
    <3>1. t \in 0 .. n - 1 /\ q \in Int /\ 0 \in Int
      BY <1>2, <2>1
    <3> HIDE DEF t
    <3>2. (n * q + t) % n = t /\ (n * 0 + t) % n = t
      BY ONLY <3>1, n \in Nat \ {0}, Remainder
    <3> QED BY <3>2 DEF t
  <2> QED BY <1>2, <2>1, <2>2 DEF r
<1>4. CASE ~(r + 1 < n)
  <2>1. r + 1 = n /\ n * q + n = n * (q + 1) + 0 /\ n = n * 1 + 0 /\ q + 1 \in Nat
    BY <1>2, <1>4
  <2>2. (n * (q + 1) + 0) % n = 0 /\ (n * 1 + 0) % n = 0
    BY <2>1, Remainder
  <2> QED BY <1>2, <2>1, <2>2 DEF r
<1> QED BY <1>3, <1>4

LEMMA UpToFour ==
  ASSUME NEW x \in Nat
  PROVE  LET q == (x + 3) \div 4 IN q \in Nat /\ 4 * q =< x + 3 /\ x =< 4 * q
OBVIOUS

\* The words cover the block: each but the first starts at a multiple of four,
\* each but the last ends there.
LEMMA WordsOfBlock ==
  ASSUME NEW c, IsBlock(c)
  PROVE  /\ WordsIn(c) \in Nat \ {0} /\ WordsIn(c) \in 1 .. NumWords + 1
         /\ Upto(c, 0) = 0 /\ Upto(c, WordsIn(c)) = Len(c.data)
         /\ \A i \in 0 .. WordsIn(c) : Upto(c, i) \in 0 .. Len(c.data)
         /\ \A i \in 1 .. WordsIn(c) : SizeIn(c, i) \in 1 .. 4 /\ Upto(c, i - 1) \in 0 .. Len(c.data) - 1
         /\ \A i \in 1 .. WordsIn(c) - 1 : Upto(c, i) = 4 * i - (c.addr % 4)
         /\ 4 * WordsIn(c) >= (c.addr % 4) + Len(c.data)
         /\ 4 * (WordsIn(c) - 1) < (c.addr % 4) + Len(c.data)
<1> DEFINE W == WordsIn(c)
           L == Len(c.data)
           o == c.addr % 4
<1>1. L \in Nat \ {0} /\ o \in 0 .. 3 /\ L =< 4 * NumWords /\ NumWords \in Nat \ {0}
  BY Space DEF IsBlock
<1>2. W = (o + L + 3) \div 4
  BY DEF WordsIn
<1>4. \A i : Upto(c, i) = IF i = 0 THEN 0 ELSE IF i = W THEN L ELSE 4 * i - o
  BY DEF Upto
<1>5. \A i : SizeIn(c, i) = Upto(c, i) - Upto(c, i - 1)
  BY DEF SizeIn
<1> HIDE DEF W, L, o
<1>3. W \in Nat /\ 4 * W =< o + L + 3 /\ o + L =< 4 * W
  <2>1. o + L \in Nat
    BY <1>1
  <2> DEFINE x == o + L
  <2>2. x \in Nat /\ W = (x + 3) \div 4
    BY <1>2, <2>1
  <2> HIDE DEF x
  <2>3. W \in Nat /\ 4 * W =< x + 3 /\ x =< 4 * W
    BY <2>2, UpToFour
  <2> QED BY <2>3, <2>1 DEF x
<1>6. W \in 1 .. NumWords + 1 /\ 4 * W >= o + L /\ 4 * (W - 1) < o + L
  BY <1>1, <1>3
<1>7. \A i \in 0 .. W : Upto(c, i) \in 0 .. L
  BY <1>1, <1>4, <1>6
<1>8. ASSUME NEW i \in 1 .. W PROVE SizeIn(c, i) \in 1 .. 4 /\ Upto(c, i - 1) \in 0 .. L - 1
  <2>1. Upto(c, i) = IF i = W THEN L ELSE 4 * i - o
    BY <1>4
  <2>2. Upto(c, i - 1) = IF i = 1 THEN 0 ELSE 4 * (i - 1) - o
    BY <1>4, <1>6
  <2>3. SizeIn(c, i) = Upto(c, i) - Upto(c, i - 1)
    BY <1>5
  <2> QED BY <1>1, <1>6, <2>1, <2>2, <2>3
<1>9. \A i \in 1 .. W - 1 : Upto(c, i) = 4 * i - o
  BY <1>4, <1>6
<1>10. Upto(c, 0) = 0 /\ Upto(c, W) = L /\ W \in Nat \ {0}
  BY <1>4, <1>6
<1> QED BY <1>6, <1>7, <1>8, <1>9, <1>10 DEF W, L, o

\* Each of them is a word of the memory, whichever is the one before.
LEMMA PlaceOfWord ==
  ASSUME NEW c, IsBlock(c), NEW i \in 1 .. WordsIn(c)
  PROVE  /\ WordNo(c, i) \in 0 .. NumWords - 1
         /\ PlaceIn(c, i) \in Addrs
         /\ WordOf(PlaceIn(c, i)) = WordNo(c, i)
         /\ PlaceIn(c, i) % 4 = IF i = 1 THEN c.addr % 4 ELSE 0
         /\ (PlaceIn(c, i) % 4) + SizeIn(c, i) =< 4
         /\ Aligned(PlaceIn(c, i)) = 4 * WordNo(c, i)
         /\ 4 * WordNo(c, i) \in Addrs /\ (4 * WordNo(c, i)) % 4 = 0
         /\ WordOf(4 * WordNo(c, i)) = WordNo(c, i)
         /\ AddrPlus4(4 * WordNo(c, i)) = 4 * WordNo(c, i + 1)
<1> DEFINE N == NumWords
           q == WordOf(c.addr)
           o == c.addr % 4
           u == Upto(c, i - 1)
           p == PlaceIn(c, i)
           W == WordsIn(c)
           L == Len(c.data)
           v == WordNo(c, i)
<1>1. N \in Nat \ {0} /\ q \in 0 .. N - 1 /\ o \in 0 .. 3 /\ c.addr = 4 * q + o /\ AddrSpace = 4 * N
  BY Space DEF IsBlock
<1>2. W \in 1 .. N + 1 /\ i \in 1 .. W /\ 4 * W >= o + L /\ L \in Nat \ {0} /\ L =< 4 * N
  <2>1. W \in 1 .. N + 1 /\ 4 * W >= o + L
    BY WordsOfBlock
  <2> QED BY <1>1, <2>1 DEF IsBlock
<1>3. u = IF i = 1 THEN 0 ELSE 4 * (i - 1) - o
  <2>1. Upto(c, 0) = 0 /\ \A j \in 1 .. WordsIn(c) - 1 : Upto(c, j) = 4 * j - (c.addr % 4)
    BY WordsOfBlock
  <2>2. i # 1 => i - 1 \in 1 .. WordsIn(c) - 1
    BY <1>2
  <2> QED BY <2>1, <2>2
<1>4. v = (q + (i - 1)) % N /\ WordNo(c, i + 1) = (q + i) % N
  BY <1>1, <1>2 DEF WordNo
<1>5. p = (c.addr + u) % AddrSpace
  BY DEF PlaceIn
<1>6. AddrPlus4(4 * v) = (4 * v + 4) % AddrSpace
  BY DEF AddrPlus4
<1>7. SizeIn(c, i) =< 4 - (IF i = 1 THEN o ELSE 0)
  <2>1. SizeIn(c, i) = Upto(c, i) - u
    BY DEF SizeIn
  <2>2. Upto(c, i) = IF i = W THEN L ELSE 4 * i - o
    BY <1>2 DEF Upto
  <2> HIDE DEF u, o, W, L
  <2> QED BY <1>1, <1>2, <1>3, <2>1, <2>2
<1>w. SizeIn(c, i) \in 1 .. 4
  BY WordsOfBlock
<1> HIDE DEF N, q, o, u, p, W, L, v
<1>8. v = (IF q + (i - 1) < N THEN q + (i - 1) ELSE q + (i - 1) - N) /\ v \in 0 .. N - 1
  <2>1. i - 1 \in 0 .. N
    BY <1>1, <1>2
  <2>2. (q + (i - 1)) % N = IF q + (i - 1) < N THEN q + (i - 1) ELSE q + (i - 1) - N
    BY <1>1, <2>1, Around
  <2> QED BY <1>1, <1>2, <1>4, <2>1, <2>2
<1> DEFINE r == IF i = 1 THEN o ELSE 0
<1>r. r \in 0 .. 3
  BY <1>1
<1>9. p = 4 * v + r
  <2>1. c.addr + u = 4 * (q + (i - 1)) + r
    BY <1>1, <1>2, <1>3
  <2> HIDE DEF r
  <2>3. 4 * v + r \in 0 .. AddrSpace - 1
    BY <1>1, <1>8, <1>r
  <2>4. \/ c.addr + u = AddrSpace * 0 + (4 * v + r)
        \/ c.addr + u = AddrSpace * 1 + (4 * v + r)
    BY <1>1, <1>2, <1>8, <2>1, <1>r
  <2>5. AddrSpace \in Nat \ {0}
    BY Space
  <2> DEFINE z == 4 * v + r
  <2>6. (AddrSpace * 0 + z) % AddrSpace = z /\ (AddrSpace * 1 + z) % AddrSpace = z
    <3>1. z \in 0 .. AddrSpace - 1
      BY <2>3
    <3> HIDE DEF z
    <3> QED BY <2>5, <3>1
  <2> QED BY <1>5, <2>4, <2>6 DEF z
<1> HIDE DEF r
<1>10. v \in 0 .. N - 1 /\ p \in 0 .. 4 * N - 1
  BY <1>1, <1>8, <1>9, <1>r
<1>11. p \div 4 = v /\ p % 4 = r /\ p - r = 4 * v
  <2>1. (4 * v + r) \div 4 = v /\ (4 * v + r) % 4 = r
    BY <1>r, <1>10
  <2>2. p - r = 4 * v
    BY <1>r, <1>9, <1>10
  <2> QED BY <1>9, <2>1, <2>2
<1>12. (4 * v) % 4 = 0 /\ (4 * v) \div 4 = v /\ 4 * v \in 0 .. AddrSpace - 1
  BY <1>1, <1>10
<1>13. (4 * v + 4) % AddrSpace = 4 * WordNo(c, i + 1)
  <2>1. WordNo(c, i + 1) = (v + 1) % N
    <3>1. q + (i - 1) \in Nat /\ q + (i - 1) + 1 = q + i
      BY <1>1, <1>2
    <3> DEFINE a == q + (i - 1)
    <3>2. v = a % N /\ WordNo(c, i + 1) = (a + 1) % N /\ a \in Nat
      BY <1>4, <3>1
    <3> HIDE DEF a
    <3> QED BY <1>1, <3>2, NextAround
  <2>2. CASE v + 1 < N
    <3>1. v + 1 \in 0 .. N - 1 /\ v + 1 \in 0 .. N
      BY <1>1, <1>10, <2>2
    <3>2. (v + 1) % N = v + 1
      BY <1>1, <3>1
    <3>3. 4 * v + 4 \in 0 .. AddrSpace - 1 /\ AddrSpace \in Nat \ {0}
      BY <1>1, <1>10, <2>2
    <3>4. (4 * v + 4) % AddrSpace = 4 * v + 4
      <4> DEFINE z == 4 * v + 4
      <4>1. z \in 0 .. AddrSpace - 1
        BY <3>3
      <4> HIDE DEF z
      <4>2. z % AddrSpace = z
        BY <3>3, <4>1
      <4> QED BY <4>2 DEF z
    <3> QED BY <2>1, <3>2, <3>4, <1>10
  <2>3. CASE v + 1 = N
    <3>1. 4 * v + 4 = AddrSpace /\ AddrSpace \in Nat \ {0}
      BY <1>1, <1>10, <2>3
    <3>2. AddrSpace % AddrSpace = 0 /\ N % N = 0
      BY <1>1, <3>1
    <3> QED BY <2>1, <2>3, <3>1, <3>2
  <2> QED BY <1>1, <1>10, <2>2, <2>3
<1>14. Aligned(p) = 4 * v
  BY <1>11 DEF Aligned
<1>15. p % 4 = IF i = 1 THEN o ELSE 0
  BY <1>11 DEF r
<1>16. (p % 4) + SizeIn(c, i) =< 4
  <2>1. r + SizeIn(c, i) =< 4
    BY <1>7, <1>r, <1>w DEF r
  <2> QED BY <1>11, <2>1
<1>17. p \in Addrs /\ WordOf(p) = v /\ 4 * v \in Addrs /\ WordOf(4 * v) = v
  BY <1>1, <1>10, <1>11, <1>12 DEF Addrs, WordOf
<1> QED BY <1>6, <1>10, <1>12, <1>13, <1>14, <1>15, <1>16, <1>17 DEF N, v, p, o

------------------------------------------------------------------------------
\* The pieces of a block.

LEMMA Largest ==
  ASSUME NEW S \in SUBSET {4, 8, 16, 32}
  PROVE  LargestOr1(S) \in S \union {1} /\ (LargestOr1(S) = 1 => S = {})
<1>1. CASE S = {}
  BY <1>1 DEF LargestOr1
<1>2. CASE S # {}
  <2>1. \E m \in S : \A y \in S : m >= y
    <3>1. CASE 32 \in S
      BY <3>1
    <3>2. CASE 32 \notin S /\ 16 \in S
      BY <3>2
    <3>3. CASE 32 \notin S /\ 16 \notin S /\ 8 \in S
      BY <3>3
    <3>4. CASE 32 \notin S /\ 16 \notin S /\ 8 \notin S
      <4>1. S = {4}
        BY <1>2, <3>4
      <4> QED BY <4>1
    <3> QED BY <3>1, <3>2, <3>3, <3>4
  <2>2. Max(S) \in S
    BY <2>1 DEF Max
  <2> QED BY <1>2, <2>2 DEF LargestOr1
<1> QED BY <1>1, <1>2

Chunks == {1, 4, 8, 16, 32}

\* The words of a piece.
BeatsIn(p) == IF p.chunk = 1 THEN 1 ELSE p.chunk \div 4

LEMMA PieceFields ==
  ASSUME NEW c, IsBlock(c), NEW k \in 0 .. Len(c.data) - 1
  PROVE  LET p == PieceAt(c, k)
         IN /\ p.from = k /\ p.addr = (c.addr + k) % AddrSpace
            /\ p.chunk \in Chunks
            /\ p.chunk = 1 => p.size = PieceSize(p.addr, Len(c.data) - k, 1)
            /\ p.chunk # 1 => /\ p.size = p.chunk
                              /\ p.addr % p.chunk = 0
                              /\ p.chunk =< Len(c.data) - k
                              /\ c.op = "write" /\ p.chunk = 4 => Len(c.data) - k > 4
<1> DEFINE addr   == (c.addr + k) % AddrSpace
           length == Len(c.data) - k
           chunk  == IF ~m_enable_bursts THEN 1
                     ELSE IF c.op = "write" THEN WriteChunk(addr, length) ELSE ReadChunk(addr, length)
           S == {n \in {4, 8, 16, 32} : BURSTABLE(addr, length, n) /\ (n = 4 => length > 4)}
           T == {n \in {4, 8, 16, 32} : BURSTABLE(addr, length, n)}
<1>1. PieceAt(c, k) = [from |-> k, addr |-> addr, chunk |-> chunk, size |-> PieceSize(addr, length, chunk)]
  BY DEF PieceAt
<1>2. WriteChunk(addr, length) \in S \union {1}
  <2>1. S \in SUBSET {4, 8, 16, 32} /\ WriteChunk(addr, length) = LargestOr1(S)
    BY DEF WriteChunk
  <2> HIDE DEF S
  <2>2. LargestOr1(S) \in S \union {1}
    BY <2>1, Largest
  <2> QED BY <2>1, <2>2
<1>3. ReadChunk(addr, length) \in T \union {1}
  <2>1. T \in SUBSET {4, 8, 16, 32} /\ ReadChunk(addr, length) = LargestOr1(T)
    BY DEF ReadChunk
  <2> HIDE DEF T
  <2>2. LargestOr1(T) \in T \union {1}
    BY <2>1, Largest
  <2> QED BY <2>1, <2>2
<1>4. chunk \in T \union {1} /\ (c.op = "write" => chunk \in S \union {1})
  BY <1>2, <1>3
<1> HIDE DEF chunk, addr, length
<1>5. chunk \in Chunks
  BY <1>4 DEF Chunks
<1>6. ASSUME chunk # 1
      PROVE  /\ PieceSize(addr, length, chunk) = chunk
             /\ addr % chunk = 0
             /\ chunk =< length
             /\ c.op = "write" /\ chunk = 4 => length > 4
  <2>1. chunk \in T /\ (c.op = "write" => chunk \in S) /\ length \in Int
    BY <1>4, <1>6 DEF IsBlock, length
  <2>2. BURSTABLE(addr, length, chunk) /\ (c.op = "write" /\ chunk = 4 => length > 4) /\ chunk \in Int
    BY <2>1
  <2>3. PieceSize(addr, length, chunk) = chunk
    BY <1>6 DEF PieceSize
  <2> QED BY <2>1, <2>2, <2>3 DEF BURSTABLE
<1> QED BY <1>1, <1>5, <1>6 DEF length, addr

\* Where the word of a piece that starts at offset k begins: k is the first byte
\* of the block or of a word.
WordAt(c, k) == IF k = Len(c.data) THEN WordsIn(c) + 1 ELSE (((c.addr % 4) + k) \div 4) + 1
IsCut(c, k)  == k = Upto(c, WordAt(c, k) - 1)

LEMMA CutAt ==
  ASSUME NEW c, IsBlock(c), NEW k \in 0 .. Len(c.data) - 1, IsCut(c, k)
  PROVE  /\ WordAt(c, k) \in 1 .. WordsIn(c)
         /\ (k = 0 /\ WordAt(c, k) = 1) \/ (c.addr % 4) + k = 4 * (WordAt(c, k) - 1)
         /\ k = 0 <=> WordAt(c, k) = 1
<1> DEFINE W == WordsIn(c)
           L == Len(c.data)
           o == c.addr % 4
           i == WordAt(c, k)
<1>1. L \in Nat \ {0} /\ o \in 0 .. 3 /\ k \in 0 .. L - 1
  BY Space DEF IsBlock
<1>2. W \in Nat \ {0} /\ 4 * W >= o + L /\ Upto(c, 0) = 0 /\ Upto(c, W) = L
      /\ \A j \in 1 .. W - 1 : Upto(c, j) = 4 * j - o
  BY WordsOfBlock
<1>3. i = ((o + k) \div 4) + 1
  BY <1>1 DEF WordAt
<1>4. k = Upto(c, i - 1)
  BY DEF IsCut
<1> HIDE DEF W, L, o, i
<1>5. i \in Nat \ {0} /\ 4 * (i - 1) =< o + k /\ o + k < 4 * i
  <2> DEFINE x == o + k
  <2>1. x \in Nat
    BY <1>1
  <2> HIDE DEF x
  <2>2. x \div 4 \in Nat /\ 4 * (x \div 4) =< x /\ x < 4 * (x \div 4) + 4
    BY <2>1
  <2>3. i = (x \div 4) + 1
    BY <1>3 DEF x
  <2>4. i \in Nat \ {0} /\ 4 * (i - 1) =< x /\ x < 4 * i
    BY <2>2, <2>3
  <2> QED BY <2>4 DEF x
<1>6. i \in 1 .. W
  BY <1>1, <1>2, <1>5
<1>7. CASE i = 1
  BY <1>2, <1>4, <1>5, <1>6, <1>7, <1>1 DEF i, o, W
<1>8. CASE i # 1
  <2>1. i - 1 \in 1 .. W - 1
    BY <1>6, <1>8, <1>2
  <2>2. k = 4 * (i - 1) - o
    BY <1>2, <1>4, <2>1
  <2>3. o + k = 4 * (i - 1) /\ k # 0
    BY <1>1, <1>6, <1>8, <2>2, <1>2
  <2> QED BY <1>6, <1>8, <2>3 DEF i, o, W
<1> QED BY <1>7, <1>8

\* The address of a piece is that of the word it begins with.
LEMMA PieceAddr ==
  ASSUME NEW c, IsBlock(c), NEW k \in 0 .. Len(c.data) - 1, IsCut(c, k)
  PROVE  /\ PieceAt(c, k).addr = PlaceIn(c, WordAt(c, k))
         /\ PieceAt(c, k).addr \in Addrs
         /\ PieceAt(c, k).addr % 4 = IF k = 0 THEN c.addr % 4 ELSE 0
         /\ Aligned(PieceAt(c, k).addr) = 4 * WordNo(c, WordAt(c, k))
<1> DEFINE i == WordAt(c, k)
<1>1. i \in 1 .. WordsIn(c) /\ (k = 0 <=> i = 1)
  BY CutAt
<1>2. k = Upto(c, i - 1)
  BY DEF IsCut
<1>3. PieceAt(c, k).addr = (c.addr + k) % AddrSpace
  BY PieceFields
<1>4. PieceAt(c, k).addr = PlaceIn(c, i)
  BY <1>2, <1>3 DEF PlaceIn
<1>5. /\ PlaceIn(c, i) \in Addrs /\ PlaceIn(c, i) % 4 = IF i = 1 THEN c.addr % 4 ELSE 0
      /\ Aligned(PlaceIn(c, i)) = 4 * WordNo(c, i)
  BY <1>1, PlaceOfWord
<1> HIDE DEF i
<1> QED BY <1>1, <1>4, <1>5 DEF i

\* A multiple of a burst's size is a multiple of four.
LEMMA BurstAligned ==
  ASSUME NEW a \in Nat, NEW n \in {4, 8, 16, 32}, a % n = 0
  PROVE  a % 4 = 0
<1>1. CASE n = 4
  BY <1>1
<1>2. CASE n = 8
  BY <1>2
<1>3. CASE n = 16
  BY <1>3
<1>4. CASE n = 32
  BY <1>4
<1> QED BY <1>1, <1>2, <1>3, <1>4

\* A piece is so many whole words, or what the block has of one.
LEMMA NextCut ==
  ASSUME NEW c, IsBlock(c), NEW k \in 0 .. Len(c.data) - 1, IsCut(c, k)
  PROVE  LET p == PieceAt(c, k)
         IN /\ p.size \in 1 .. Len(c.data) - k
            /\ k + p.size \in 1 .. Len(c.data)
            /\ IsCut(c, k + p.size)
            /\ WordAt(c, k + p.size) = WordAt(c, k) + BeatsIn(p)
            /\ BeatsIn(p) \in {1, 2, 4, 8}
            /\ p.chunk # 1 => p.addr % 4 = 0 /\ p.chunk = 4 * BeatsIn(p)
<1> DEFINE W == WordsIn(c)
           L == Len(c.data)
           o == c.addr % 4
           i == WordAt(c, k)
           p == PieceAt(c, k)
           s == p.size
           b == BeatsIn(p)
           a == p.addr
<1>1. L \in Nat \ {0} /\ o \in 0 .. 3 /\ k \in 0 .. L - 1
  BY Space DEF IsBlock
<1>2. W \in Nat \ {0} /\ 4 * W >= o + L /\ 4 * (W - 1) < o + L /\ Upto(c, 0) = 0 /\ Upto(c, W) = L
      /\ \A j \in 1 .. W - 1 : Upto(c, j) = 4 * j - o
  BY WordsOfBlock
<1>3. /\ i \in 1 .. W
      /\ (k = 0 /\ i = 1) \/ o + k = 4 * (i - 1)
      /\ k = 0 <=> i = 1
  BY CutAt
<1>4. a % 4 = (IF k = 0 THEN o ELSE 0) /\ a \in Nat
  <2>1. a % 4 = (IF k = 0 THEN o ELSE 0) /\ a \in Addrs
    BY PieceAddr
  <2>2. a \in Nat
    BY <2>1, Space DEF Addrs
  <2> QED BY <2>1, <2>2
<1>5. /\ p.chunk \in Chunks
      /\ p.chunk = 1 => s = PieceSize(a, L - k, 1)
      /\ p.chunk # 1 => s = p.chunk /\ a % p.chunk = 0 /\ p.chunk =< L - k
  BY PieceFields
<1>6. b = IF p.chunk = 1 THEN 1 ELSE p.chunk \div 4
  BY DEF BeatsIn
<1>7. WordAt(c, k + s) = IF k + s = L THEN W + 1 ELSE ((o + (k + s)) \div 4) + 1
  BY DEF WordAt
<1> HIDE DEF W, L, o, i, p, s, b, a
<1>9. b \in {1, 2, 4, 8} /\ (p.chunk # 1 => p.chunk = 4 * b /\ a % 4 = 0)
  <2>1. b \in {1, 2, 4, 8} /\ (p.chunk # 1 => p.chunk = 4 * b)
    BY <1>5, <1>6 DEF Chunks
  <2>2. p.chunk # 1 => a % 4 = 0
    BY <1>4, <1>5, BurstAligned DEF Chunks
  <2> QED BY <2>1, <2>2
<1>10. s \in 1 .. L - k /\ (k + s = L \/ o + (k + s) = 4 * (i - 1 + b))
       /\ 4 * (i - 1 + b) >= o + k + s /\ 4 * (i - 2 + b) < o + k + s
  <2>1. CASE p.chunk = 1
    <3>1. 4 - (a % 4) \in 1 .. 4 /\ L - k \in Nat \ {0}
      BY <1>1, <1>4
    <3>2. s = IF 4 - (a % 4) =< L - k THEN 4 - (a % 4) ELSE L - k
      <4> DEFINE x == 4 - (a % 4)
               y == L - k
    <4>1. s = Min({x, y})
      BY <1>5, <2>1 DEF PieceSize
    <4>2. x \in Nat /\ y \in Nat
      BY <3>1
    <4> HIDE DEF x, y
    <4>3. s = IF x =< y THEN x ELSE y
      BY <4>1, <4>2, MinOfTwo
    <4> QED BY <4>3 DEF x, y
    <3> QED BY <1>1, <1>3, <1>4, <1>6, <2>1, <3>2
  <2>2. CASE p.chunk # 1
    <3>1. s = 4 * b /\ s =< L - k /\ (k = 0 => o = 0)
      BY <1>4, <1>5, <1>9, <2>2
    <3> QED BY <1>1, <1>3, <1>9, <3>1
  <2> QED BY <2>1, <2>2
<1>11. k + s \in 1 .. L
  BY <1>1, <1>10
<1>12. WordAt(c, k + s) = i + b
  <2>1. CASE k + s = L
    <3>1. W = i - 1 + b
      BY <1>1, <1>2, <1>3, <1>9, <1>10, <2>1
    <3> QED BY <1>2, <1>3, <1>7, <1>9, <2>1, <3>1
  <2>2. CASE k + s # L
    <3>1. o + (k + s) = 4 * (i - 1 + b) /\ i - 1 + b \in Nat
      BY <1>3, <1>9, <1>10, <2>2
    <3>2. (4 * (i - 1 + b)) \div 4 = i - 1 + b
      BY <3>1
    <3>3. WordAt(c, k + s) = ((o + (k + s)) \div 4) + 1
      BY <1>7, <2>2
    <3>4. WordAt(c, k + s) = (i - 1 + b) + 1
      BY <3>1, <3>2, <3>3
    <3>5. i \in Int /\ b \in Int
      BY <1>2, <1>3, <1>9
    <3> QED BY <3>4, <3>5
  <2> QED BY <2>1, <2>2
<1>13. k + s = Upto(c, i + b - 1)
  <2>1. CASE k + s = L
    <3>1. W = i + b - 1
      BY <1>1, <1>2, <1>3, <1>9, <1>10, <2>1
    <3> QED BY <1>2, <2>1, <3>1
  <2>2. CASE k + s # L
    <3>1. o + (k + s) = 4 * (i - 1 + b) /\ i + b - 1 \in 1 .. W - 1
      BY <1>1, <1>2, <1>3, <1>9, <1>10, <2>2
    <3>2. Upto(c, i + b - 1) = 4 * (i + b - 1) - o
      BY <1>2, <3>1
    <3>3. k + s = 4 * (i + b - 1) - o
      BY <1>1, <1>3, <1>9, <1>10, <3>1
    <3> QED BY <3>2, <3>3
  <2> QED BY <2>1, <2>2
<1>14. IsCut(c, k + s)
  <2>1. WordAt(c, k + s) - 1 = i + b - 1
    BY <1>2, <1>3, <1>9, <1>12
  <2>2. k + s = Upto(c, WordAt(c, k + s) - 1)
    BY <1>13, <2>1, Zenon
  <2> QED BY <2>2, Zenon DEF IsCut
<1> QED BY <1>9, <1>10, <1>11, <1>12, <1>14 DEF W, L, o, i, p, s, b, a

------------------------------------------------------------------------------
\* The pieces one after another.

LEMMA PieceProgress ==
  ASSUME NEW c, IsBlock(c), NEW k \in 0 .. Len(c.data) - 1
  PROVE  k + PieceAt(c, k).size \in k + 1 .. Len(c.data)
<1> DEFINE L == Len(c.data)
           p == PieceAt(c, k)
           x == 4 - (p.addr % 4)
           y == L - k
<1>1. L \in Nat /\ k \in 0 .. L - 1 /\ c.addr + k \in Nat /\ AddrSpace \in Nat \ {0}
  <2>1. AddrSpace \in Nat \ {0}
    BY Space
  <2> QED BY <2>1 DEF IsBlock, Addrs
<1>2. /\ p.addr = (c.addr + k) % AddrSpace /\ p.chunk \in Chunks
      /\ p.chunk = 1 => p.size = PieceSize(p.addr, y, 1)
      /\ p.chunk # 1 => p.size = p.chunk /\ p.chunk =< y
  BY PieceFields
<1>3. p.addr \in Nat
  BY <1>1, <1>2
<1>4. x \in 1 .. 4 /\ y \in Nat \ {0}
  BY <1>1, <1>3
<1>5. p.chunk = 1 => p.size = Min({x, y})
  BY <1>2 DEF PieceSize
<1> HIDE DEF x, y, p
<1>6. Min({x, y}) = IF x =< y THEN x ELSE y
  BY <1>4, MinOfTwo
<1>7. p.size \in 1 .. y
  BY <1>2, <1>4, <1>5, <1>6 DEF Chunks
<1>8. k + p.size \in k + 1 .. L
  BY <1>1, <1>7 DEF y
<1> QED BY <1>8 DEF p

\* What the recursion in Cut is defined by.
Rest(c, f) == [k \in 0 .. Len(c.data) |->
  IF k = Len(c.data) THEN <<>> ELSE <<PieceAt(c, k)>> \o f[k + PieceAt(c, k).size]]

LEMMA CutIsRest ==
  ASSUME NEW c, NEW f, f = Rest(c, f)
  PROVE  \E g : g = Rest(c, g) /\ Cut(c) = g[0]
<1> DEFINE g == CHOOSE r : r = Rest(c, r)
<1>1. g = Rest(c, g)
  BY Zenon
<1>2. Cut(c) = g[0]
  BY Zenon DEF Cut, Rest
<1> QED BY <1>1, <1>2, Zenon

\* There is such a function: what it is from offset k on is told by what it is
\* behind the piece that starts there.
LEMMA RestExists == ASSUME NEW c, IsBlock(c) PROVE \E f : f = Rest(c, f)
<1> DEFINE L == Len(c.data)
           to(k) == k + PieceAt(c, k).size
           val(f, k) == IF k = L THEN <<>> ELSE <<PieceAt(c, k)>> \o f[to(k)]
           part(f, m) == \A k \in L - m .. L : f[k] = val(f, k)
           S == {m \in Nat : m =< L => \E f : part(f, m)}
<1>1. L \in Nat /\ \A k \in 0 .. L - 1 : to(k) \in k + 1 .. L
  BY PieceProgress DEF IsBlock
<1> HIDE DEF L, to
<1>2. 0 \in S
  <2> DEFINE f == [k \in L .. L |-> <<>>]
  <2>1. part(f, 0)
    BY <1>1
  <2> QED BY <2>1
<1>3. \A m \in Nat : m \in S => m + 1 \in S
  <2> HIDE DEF part
  <2> SUFFICES ASSUME NEW m \in Nat, m \in S, m + 1 =< L PROVE \E f : part(f, m + 1)
    OBVIOUS
  <2>1. PICK f : part(f, m)
    BY <1>1
  <2> USE DEF part
  <2> DEFINE b == L - (m + 1)
             g == [k \in b .. L |-> IF k = b THEN val(f, b) ELSE f[k]]
  <2>2. b \in 0 .. L - 1 /\ to(b) \in b + 1 .. L /\ b + 1 = L - m
    BY <1>1
  <2>3. ASSUME NEW k \in b .. L PROVE g[k] = val(g, k)
    <3>1. CASE k = b
      <4>1. g[to(b)] = f[to(b)] /\ g[b] = val(f, b)
        BY <1>1, <2>2
      <4> QED BY <3>1, <4>1
    <3>2. CASE k # b
      <4>1. k \in L - m .. L /\ g[k] = f[k] /\ f[k] = val(f, k)
        <5>1. k \in L - m .. L
          BY <1>1, <2>2, <3>2
        <5>2. f[k] = val(f, k)
          BY <2>1, <5>1
        <5> QED BY <3>2, <5>1, <5>2
      <4>2. k # L => k \in 0 .. L - 1 /\ to(k) \in b .. L /\ to(k) # b /\ g[to(k)] = f[to(k)]
        <5> SUFFICES ASSUME k # L
                     PROVE  k \in 0 .. L - 1 /\ to(k) \in b .. L /\ to(k) # b /\ g[to(k)] = f[to(k)]
          OBVIOUS
        <5>1. k \in 0 .. L - 1 /\ b \in Int /\ b =< k
          BY <1>1, <2>2, <4>1
        <5>2. to(k) \in k + 1 .. L
          BY <1>1, <5>1
        <5>3. to(k) \in b .. L /\ to(k) # b
          BY <5>1, <5>2, <1>1
        <5>4. g[to(k)] = f[to(k)]
          <6> HIDE DEF b, val
          <6> QED BY <5>3
        <5> QED BY <5>1, <5>3, <5>4
      <4> QED BY <4>1, <4>2
    <3> QED BY <3>1, <3>2
  <2>4. part(g, m + 1)
    BY <2>3
  <2> QED BY <2>4
<1>4. L \in S
  <2> HIDE DEF S
  <2>1. \A m \in Nat : m \in S
    BY <1>2, <1>3, Inductive
  <2> QED BY <1>1, <2>1
<1>5. PICK g : part(g, L)
  BY <1>1, <1>4
<1> DEFINE f == [k \in 0 .. L |-> g[k]]
<1>6. ASSUME NEW k \in 0 .. L PROVE f[k] = val(f, k)
  <2>1. k \in L - L .. L /\ g[k] = val(g, k) /\ f[k] = g[k]
    BY <1>1, <1>5
  <2>2. k # L => k \in 0 .. L - 1 /\ to(k) \in 0 .. L /\ f[to(k)] = g[to(k)]
    BY <1>1
  <2> QED BY <2>1, <2>2
<1>7. f = [k \in 0 .. L |-> val(f, k)]
  <2> HIDE DEF val
  <2>1. f = [k \in 0 .. L |-> f[k]]
    OBVIOUS
  <2> HIDE DEF f
  <2> QED BY <1>6, <2>1
<1>8. f = Rest(c, f)
  BY <1>7, Zenon DEF Rest, L, to
<1> QED BY <1>8

\* From a cut at offset k on, the pieces follow each other up to the end of the
\* block, each from a cut.
Chain(c, s, k) ==
  /\ s = [x \in 1 .. Len(s) |-> PieceAt(c, s[x].from)] /\ Len(s) \in Nat
  /\ Len(s) = 0 <=> k = Len(c.data)
  /\ Len(s) > 0 => s[1].from = k
  /\ \A x \in 1 .. Len(s) :
       /\ s[x].from \in 0 .. Len(c.data) - 1
       /\ IsCut(c, s[x].from)
       /\ s[x].from + s[x].size = IF x = Len(s) THEN Len(c.data) ELSE s[x + 1].from

LEMMA ChainGrows ==
  ASSUME NEW c, IsBlock(c), NEW k \in 0 .. Len(c.data) - 1, IsCut(c, k),
         NEW s, Chain(c, s, k + PieceAt(c, k).size)
  PROVE  Chain(c, <<PieceAt(c, k)>> \o s, k)
<1> DEFINE p == PieceAt(c, k)
           n == Len(s)
           t == <<p>> \o s
           L == Len(c.data)
<1>1. s = [x \in 1 .. n |-> PieceAt(c, s[x].from)] /\ n \in Nat
  BY DEF Chain
<1> DEFINE R == {PieceAt(c, s[x].from) : x \in 1 .. n} \union {p}
<1>2. s \in Seq(R) /\ <<p>> \in Seq(R)
  <2>1. \A x \in 1 .. n : s[x] \in R
    BY <1>1
  <2>2. p \in R
    OBVIOUS
  <2> HIDE DEF R
  <2>3. s = [x \in 1 .. n |-> s[x]]
    BY <1>1, Zenon
  <2>4. s \in Seq(R)
    BY <1>1, <2>1, <2>3
  <2> QED BY <2>2, <2>4
<1>3. /\ t \in Seq(R) /\ Len(t) = n + 1 /\ t[1] = p
      /\ \A x \in 2 .. n + 1 : t[x] = s[x - 1]
  <2> HIDE DEF R, p
  <2>1. Len(<<p>>) = 1 /\ <<p>>[1] = p
    OBVIOUS
  <2>2. t \in Seq(R) /\ Len(t) = 1 + n /\ \A x \in 1 .. 1 + n : t[x] = IF x =< 1 THEN <<p>>[x] ELSE s[x - 1]
    BY <1>1, <1>2, <2>1, ConcatProperties
  <2> QED BY <1>1, <2>1, <2>2
<1>4. p.from = k /\ k + p.size \in 1 .. L /\ L \in Nat
  BY PieceFields, NextCut DEF IsBlock
<1>5. /\ n = 0 <=> k + p.size = L
      /\ n > 0 => s[1].from = k + p.size
      /\ \A x \in 1 .. n : /\ s[x].from \in 0 .. L - 1
                           /\ IsCut(c, s[x].from)
                           /\ s[x].from + s[x].size = IF x = n THEN L ELSE s[x + 1].from
                           /\ s[x] = PieceAt(c, s[x].from)
  BY <1>1 DEF Chain
<1> HIDE DEF t, R, L, n
<1>6. ASSUME NEW x \in 1 .. n + 1
      PROVE  /\ t[x].from \in 0 .. L - 1 /\ IsCut(c, t[x].from) /\ t[x] = PieceAt(c, t[x].from)
             /\ t[x].from + t[x].size = IF x = n + 1 THEN L ELSE t[x + 1].from
  <2>1. CASE x = 1
    <3>1. t[x] = p /\ t[x].from = k /\ t[x] = PieceAt(c, t[x].from)
      BY <1>3, <1>4, <2>1
    <3>2. n > 0 => t[2] = s[1] /\ t[2].from = k + p.size
      BY <1>1, <1>3, <1>5
    <3> HIDE DEF p
    <3>3. k + p.size = IF x = n + 1 THEN L ELSE t[x + 1].from
      BY <1>1, <1>4, <1>5, <2>1, <3>2
    <3> QED BY <3>1, <3>3 DEF L
  <2>2. CASE x # 1
    <3>1. x \in 2 .. n + 1 /\ x - 1 \in 1 .. n /\ t[x] = s[x - 1]
      <4>1. x \in 2 .. n + 1 /\ x - 1 \in 1 .. n
        BY <1>1, <2>2
      <4> QED BY <1>3, <4>1
    <3>2. x # n + 1 => t[x + 1] = s[(x - 1) + 1] /\ x - 1 # n
      BY <1>1, <1>3, <3>1
    <3>3. x = n + 1 => x - 1 = n
      BY <1>1
    <3> QED BY <1>5, <3>1, <3>2, <3>3
  <2> QED BY <2>1, <2>2
<1>7. t = [x \in 1 .. n + 1 |-> PieceAt(c, t[x].from)]
  <2>1. t = [x \in 1 .. n + 1 |-> t[x]]
    BY <1>3
  <2> QED BY <1>6, <2>1
<1>8. Chain(c, t, k)
  <2>1. n + 1 \in Nat /\ n + 1 # 0 /\ n + 1 > 0 /\ k # L
    BY <1>1, <1>4 DEF L
  <2> QED BY <1>3, <1>4, <1>6, <1>7, <2>1 DEF Chain, L
<1> QED BY <1>8 DEF t

LEMMA CutIsChain == ASSUME NEW c, IsBlock(c) PROVE Chain(c, Cut(c), 0)
<1> DEFINE L == Len(c.data)
<1>1. PICK f : f = Rest(c, f) /\ Cut(c) = f[0]
  BY RestExists, CutIsRest
<1>2. ASSUME NEW k \in 0 .. L
      PROVE  f[k] = IF k = L THEN <<>> ELSE <<PieceAt(c, k)>> \o f[k + PieceAt(c, k).size]
  <2> DEFINE r == Rest(c, f)
  <2>1. r[k] = IF k = L THEN <<>> ELSE <<PieceAt(c, k)>> \o f[k + PieceAt(c, k).size]
    BY DEF Rest
  <2>2. r = f
    BY <1>1
  <2> HIDE DEF r
  <2> QED BY <2>1, <2>2
<1> DEFINE good(k) == IsCut(c, k) => Chain(c, f[k], k)
           S == {m \in Nat : \A j \in 0 .. m : j =< L => good(L - j)}
<1>3. L \in Nat
  BY DEF IsBlock
<1>4. good(L)
  <2>1. Chain(c, <<>>, L)
    BY <1>3 DEF Chain
  <2>2. L \in 0 .. L
    BY <1>3
  <2>3. f[L] = <<>>
    BY <1>2, <2>2
  <2> QED BY <2>1, <2>3
<1>5. ASSUME NEW k \in 0 .. L - 1, \A j \in k + 1 .. L : good(j) PROVE good(k)
  <2> SUFFICES ASSUME IsCut(c, k) PROVE Chain(c, f[k], k)
    OBVIOUS
  <2>1. k + PieceAt(c, k).size \in k + 1 .. L /\ IsCut(c, k + PieceAt(c, k).size)
    BY PieceProgress, NextCut
  <2>2. Chain(c, f[k + PieceAt(c, k).size], k + PieceAt(c, k).size)
    BY <1>5, <2>1
  <2>3. f[k] = <<PieceAt(c, k)>> \o f[k + PieceAt(c, k).size]
    <3>1. k \in 0 .. L /\ k # L
      BY <1>3
    <3> QED BY <1>2, <3>1
  <2>4. Chain(c, <<PieceAt(c, k)>> \o f[k + PieceAt(c, k).size], k)
    BY <2>2, ChainGrows
  <2> QED BY <2>3, <2>4
<1> HIDE DEF good, L
<1>6. 0 \in S
  <2>1. \A j \in 0 .. 0 : L - j = L
    BY <1>3
  <2> QED BY <1>4, <2>1
<1>7. \A m \in Nat : m \in S => m + 1 \in S
  <2> SUFFICES ASSUME NEW m \in Nat, m \in S, NEW i \in 0 .. m + 1, i =< L PROVE good(L - i)
    OBVIOUS
  <2>1. CASE i =< m
    BY <2>1
  <2>2. CASE i = m + 1
    <3>1. L - i \in 0 .. L - 1
      BY <1>3, <2>2
    <3>2. ASSUME NEW k \in (L - i) + 1 .. L PROVE good(k)
      <4>1. L - k \in 0 .. m /\ L - k =< L /\ L - (L - k) = k
        BY <1>3, <2>2
      <4>2. good(L - (L - k))
        BY <4>1
      <4> QED BY <4>1, <4>2
    <3> QED BY <1>5, <3>1, <3>2
  <2> QED BY <2>1, <2>2
<1>8. L \in S
  <2> HIDE DEF S
  <2>1. \A m \in Nat : m \in S
    BY <1>6, <1>7, Inductive
  <2> QED BY <1>3, <2>1
<1>9. good(0)
  <2>1. L \in 0 .. L /\ L - L = 0 /\ L =< L
    BY <1>3
  <2>2. good(L - L)
    BY <1>8, <2>1
  <2> QED BY <2>1, <2>2
<1>10. IsCut(c, 0)
  <2>1. c.addr % 4 \in 0 .. 3 /\ L # 0 /\ Upto(c, 0) = 0
    BY Space, WordsOfBlock DEF IsBlock, L
  <2>2. WordAt(c, 0) = 1
    <3>1. ((c.addr % 4) + 0) \div 4 = 0
      BY <2>1
    <3> QED BY <2>1, <3>1 DEF WordAt, L
  <2> QED BY <2>1, <2>2 DEF IsCut
<1> QED BY <1>1, <1>9, <1>10 DEF good

\* The pieces of a block are bursts of its words: the k-th begins with word
\* First(c, k), and PieceNo(c, i) is the one word i is in.
NumPieces(c) == Len(Cut(c))
First(c, k) == IF k = 0 THEN 0
               ELSE IF k > NumPieces(c) THEN WordsIn(c) + 1 ELSE WordAt(c, Cut(c)[k].from)
PieceNo(c, i) == CHOOSE k \in 1 .. NumPieces(c) : First(c, k) =< i /\ i < First(c, k + 1)

LEMMA Pieces ==
  ASSUME NEW c, IsBlock(c)
  PROVE  /\ NumPieces(c) \in Nat \ {0}
         /\ First(c, 0) = 0 /\ First(c, 1) = 1 /\ First(c, NumPieces(c) + 1) = WordsIn(c) + 1
         /\ \A k \in 1 .. NumPieces(c) :
              LET p == Cut(c)[k]
              IN /\ p = PieceAt(c, p.from) /\ p.from \in 0 .. Len(c.data) - 1 /\ IsCut(c, p.from)
                 /\ First(c, k) = WordAt(c, p.from)
                 /\ First(c, k) \in 1 .. WordsIn(c)
                 /\ BeatsIn(p) \in {1, 2, 4, 8}
                 /\ First(c, k + 1) = First(c, k) + BeatsIn(p)
<1> DEFINE K == NumPieces(c)
           L == Len(c.data)
           W == WordsIn(c)
           P == Cut(c)
<1>1. L \in Nat \ {0} /\ W \in Nat \ {0}
  BY WordsOfBlock DEF IsBlock
<1>2. /\ P = [x \in 1 .. K |-> PieceAt(c, P[x].from)] /\ K \in Nat
      /\ K = 0 <=> L = 0
      /\ K > 0 => P[1].from = 0
      /\ \A x \in 1 .. K :
           /\ P[x].from \in 0 .. L - 1
           /\ IsCut(c, P[x].from)
           /\ P[x].from + P[x].size = IF x = K THEN L ELSE P[x + 1].from
  <2>1. Chain(c, P, 0)
    BY CutIsChain
  <2> QED BY <2>1, <1>1 DEF Chain, NumPieces
<1>3. K \in Nat \ {0} /\ P[1].from = 0
  BY <1>1, <1>2
<1>4. First(c, 0) = 0 /\ First(c, K + 1) = W + 1 /\ \A k \in 1 .. K : First(c, k) = WordAt(c, P[k].from)
  BY <1>3 DEF First
<1>5. \A x \in 1 .. K : P[x] = PieceAt(c, P[x].from)
  <2> TAKE x \in 1 .. K
  <2> HIDE DEF P
  <2> QED BY <1>2
<1> HIDE DEF K, L, W, P
<1>6. First(c, 1) = 1
  <2>1. First(c, 1) = WordAt(c, 0)
    BY <1>3, <1>4
  <2>2. c.addr % 4 \in 0 .. 3 /\ L # 0
    BY Space, <1>1 DEF IsBlock
  <2>3. ((c.addr % 4) + 0) \div 4 = 0
    BY <2>2
  <2> QED BY <2>1, <2>2, <2>3 DEF WordAt, L
<1>7. ASSUME NEW k \in 1 .. K
      PROVE  /\ First(c, k) \in 1 .. W
             /\ BeatsIn(P[k]) \in {1, 2, 4, 8}
             /\ First(c, k + 1) = First(c, k) + BeatsIn(P[k])
  <2> DEFINE f == P[k].from
  <2>1. f \in 0 .. L - 1 /\ IsCut(c, f) /\ P[k] = PieceAt(c, f) /\ First(c, k) = WordAt(c, f)
    BY <1>2, <1>4, <1>5
  <2>2. /\ f + P[k].size \in 1 .. L
        /\ WordAt(c, f + P[k].size) = First(c, k) + BeatsIn(P[k])
        /\ BeatsIn(P[k]) \in {1, 2, 4, 8}
        /\ First(c, k) \in 1 .. W
    BY <2>1, NextCut, CutAt DEF L, W
  <2>3. First(c, k + 1) = WordAt(c, f + P[k].size)
    <3>1. CASE k = K
      <4>1. f + P[k].size = L
        BY <1>2, <3>1
      <4>2. WordAt(c, L) = W + 1
        BY DEF WordAt, L, W
      <4> QED BY <1>4, <3>1, <4>1, <4>2
    <3>2. CASE k # K
      <4>1. k + 1 \in 1 .. K
        BY <1>3, <3>2
      <4>2. f + P[k].size = P[k + 1].from
        BY <1>2, <3>2
      <4> QED BY <1>4, <4>1, <4>2
    <3> QED BY <3>1, <3>2
  <2> QED BY <2>2, <2>3
<1> QED BY <1>2, <1>3, <1>4, <1>5, <1>6, <1>7 DEF K, L, W, P

LEMMA Ordered ==
  ASSUME NEW c, IsBlock(c)
  PROVE  /\ \A k \in 0 .. NumPieces(c) + 1 : First(c, k) \in 0 .. WordsIn(c) + 1
         /\ \A j, k \in 0 .. NumPieces(c) + 1 : j < k => First(c, j) < First(c, k)
<1> DEFINE K == NumPieces(c)
           W == WordsIn(c)
           F(k) == First(c, k)
<1>1. /\ K \in Nat \ {0} /\ W \in Nat \ {0} /\ F(0) = 0 /\ F(1) = 1 /\ F(K + 1) = W + 1
      /\ \A k \in 1 .. K : F(k) \in 1 .. W
  BY Pieces, WordsOfBlock
<1>2. \A k \in 1 .. K : F(k) < F(k + 1)
  <2> TAKE k \in 1 .. K
  <2>1. F(k) \in 1 .. W /\ BeatsIn(Cut(c)[k]) \in {1, 2, 4, 8} /\ F(k + 1) = F(k) + BeatsIn(Cut(c)[k])
    BY Pieces
  <2> QED BY <2>1
<1> HIDE DEF K, W, F
<1>3. \A k \in 0 .. K + 1 : F(k) \in 0 .. W + 1
  <2> TAKE k \in 0 .. K + 1
  <2>1. k = 0 \/ k \in 1 .. K \/ k = K + 1
    BY <1>1
  <2> QED BY <1>1, <2>1
<1>4. \A k \in 0 .. K : F(k) < F(k + 1)
  <2> TAKE k \in 0 .. K
  <2>1. k = 0 \/ k \in 1 .. K
    BY <1>1
  <2> QED BY <1>1, <1>2, <2>1
<1> DEFINE S == {k \in Nat : k =< K + 1 => \A j \in 0 .. k - 1 : F(j) < F(k)}
<1>5. 0 \in S
  OBVIOUS
<1>6. \A k \in Nat : k \in S => k + 1 \in S
  <2> SUFFICES ASSUME NEW k \in Nat, k \in S, k + 1 =< K + 1, NEW j \in 0 .. k + 1 - 1
               PROVE  F(j) < F(k + 1)
    OBVIOUS
  <2>1. k \in 0 .. K /\ j \in 0 .. k /\ F(k) < F(k + 1)
    BY <1>1, <1>4
  <2>2. F(j) \in Int /\ F(k) \in Int /\ F(k + 1) \in Int
    <3>1. j \in 0 .. K + 1 /\ k \in 0 .. K + 1 /\ k + 1 \in 0 .. K + 1
      BY <1>1, <2>1
    <3> QED BY <1>1, <1>3, <3>1
  <2>3. CASE j = k
    BY <2>1, <2>3
  <2>4. CASE j # k
    <3>1. F(j) < F(k)
      BY <1>1, <2>1, <2>4
    <3> QED BY <2>1, <2>2, <3>1
  <2> QED BY <2>3, <2>4
<1>7. \A k \in Nat : k \in S
  <2> HIDE DEF S
  <2> QED BY <1>5, <1>6, Inductive
<1>8. ASSUME NEW j \in 0 .. K + 1, NEW k \in 0 .. K + 1, j < k PROVE F(j) < F(k)
  <2>1. k \in S /\ k =< K + 1 /\ j \in 0 .. k - 1
    BY <1>1, <1>7, <1>8
  <2> QED BY <2>1
<1> QED BY <1>3, <1>8 DEF K, W, F

\* Every word is in one piece.
LEMMA WordInPiece ==
  ASSUME NEW c, IsBlock(c), NEW i \in 1 .. WordsIn(c)
  PROVE  /\ PieceNo(c, i) \in 1 .. NumPieces(c)
         /\ First(c, PieceNo(c, i)) =< i /\ i < First(c, PieceNo(c, i) + 1)
<1> DEFINE K == NumPieces(c)
           W == WordsIn(c)
           F(k) == First(c, k)
           S == {k \in Nat : k =< K => (i < F(k + 1) => \E j \in 1 .. k : F(j) =< i /\ i < F(j + 1))}
<1>1. /\ K \in Nat \ {0} /\ W \in Nat \ {0} /\ i \in 1 .. W /\ F(1) = 1 /\ F(K + 1) = W + 1
      /\ \A k \in 0 .. K + 1 : F(k) \in Int
  BY Pieces, WordsOfBlock, Ordered
<1> HIDE DEF K, W, F
<1>2. 0 \in S
  BY <1>1
<1>3. \A k \in Nat : k \in S => k + 1 \in S
  <2> SUFFICES ASSUME NEW k \in Nat, k \in S, k + 1 =< K, i < F(k + 1 + 1)
               PROVE  \E j \in 1 .. k + 1 : F(j) =< i /\ i < F(j + 1)
    OBVIOUS
  <2>1. F(k + 1) \in Int
    BY <1>1
  <2>2. CASE i < F(k + 1)
    <3>1. PICK j \in 1 .. k : F(j) =< i /\ i < F(j + 1)
      BY <1>1, <2>2
    <3>2. j \in 1 .. k + 1
      OBVIOUS
    <3> QED BY <3>1, <3>2
  <2>3. CASE F(k + 1) =< i
    <3>1. k + 1 \in 1 .. k + 1
      OBVIOUS
    <3> QED BY <2>3, <3>1
  <2> QED BY <1>1, <2>1, <2>2, <2>3
<1>4. K \in S
  <2> HIDE DEF S
  <2>1. \A k \in Nat : k \in S
    BY <1>2, <1>3, Inductive
  <2> QED BY <1>1, <2>1
<1>5. \E j \in 1 .. K : F(j) =< i /\ i < F(j + 1)
  BY <1>1, <1>4
<1>6. PieceNo(c, i) = CHOOSE j \in 1 .. K : F(j) =< i /\ i < F(j + 1)
  BY Zenon DEF PieceNo, K, F
<1>7. PieceNo(c, i) \in 1 .. K /\ F(PieceNo(c, i)) =< i /\ i < F(PieceNo(c, i) + 1)
  BY <1>5, <1>6
<1> QED BY <1>7 DEF K, F

LEMMA PieceIsOne ==
  ASSUME NEW c, IsBlock(c), NEW k \in 1 .. NumPieces(c), NEW i \in First(c, k) .. First(c, k + 1) - 1
  PROVE  i \in 1 .. WordsIn(c) /\ PieceNo(c, i) = k
<1> DEFINE K == NumPieces(c)
           W == WordsIn(c)
           F(j) == First(c, j)
           n == PieceNo(c, i)
<1>1. /\ K \in Nat \ {0} /\ W \in Nat \ {0} /\ F(k) \in 1 .. W
      /\ \A j \in 0 .. K + 1 : F(j) \in 0 .. W + 1
      /\ \A a, b \in 0 .. K + 1 : a < b => F(a) < F(b)
  BY Pieces, WordsOfBlock, Ordered
<1>2. k + 1 \in 0 .. K + 1
  BY <1>1
<1>3. i \in 1 .. W /\ F(k) =< i /\ i < F(k + 1)
  <2>1. F(k + 1) \in 0 .. W + 1
    BY <1>1, <1>2
  <2> HIDE DEF F, W
  <2>2. i \in F(k) .. F(k + 1) - 1
    BY DEF F
  <2> QED BY <1>1, <2>1, <2>2
<1>4. n \in 1 .. K /\ F(n) =< i /\ i < F(n + 1)
  BY <1>3, WordInPiece
<1> HIDE DEF K, W, F, n
<1>5. n + 1 \in 0 .. K + 1 /\ n \in 0 .. K + 1 /\ k \in 0 .. K + 1
  BY <1>1, <1>4 DEF K
<1>6. F(n) \in Int /\ F(n + 1) \in Int /\ F(k) \in Int /\ F(k + 1) \in Int
  BY <1>1, <1>2, <1>5
<1>7. ~(n + 1 < k) /\ n + 1 # k
  <2>1. F(k) < F(n + 1)
    BY <1>3, <1>4, <1>6
  <2>2. ~(F(n + 1) < F(k)) /\ F(n + 1) # F(k)
    BY <1>6, <2>1
  <2> QED BY <1>1, <1>5, <2>2
<1>8. ~(k + 1 < n) /\ k + 1 # n
  <2>1. F(n) < F(k + 1)
    BY <1>3, <1>4, <1>6
  <2>2. ~(F(k + 1) < F(n)) /\ F(k + 1) # F(n)
    BY <1>6, <2>1
  <2> QED BY <1>1, <1>2, <1>5, <2>2
<1>9. n = k
  BY <1>1, <1>4, <1>5, <1>7, <1>8
<1> QED BY <1>3, <1>9 DEF n, W

------------------------------------------------------------------------------
\* The words of a piece.

LEMMA WordOfSingle ==
  ASSUME NEW c, IsBlock(c), NEW k \in 0 .. Len(c.data) - 1, IsCut(c, k), PieceAt(c, k).chunk = 1
  PROVE  LET p == PieceAt(c, k)
             i == WordAt(c, k)
         IN /\ Upto(c, i - 1) = p.from /\ p.from = k /\ SizeIn(c, i) = p.size
            /\ PlaceIn(c, i) = p.addr
<1> DEFINE p == PieceAt(c, k)
           i == WordAt(c, k)
<1>1. p.from = k /\ Upto(c, i - 1) = k /\ PlaceIn(c, i) = p.addr
  BY PieceFields, PieceAddr DEF IsCut
<1>2. IsCut(c, k + p.size) /\ WordAt(c, k + p.size) = i + BeatsIn(p) /\ p.size \in Nat /\ i \in Nat
  <2>1. i \in 1 .. WordsIn(c) /\ WordsIn(c) \in Nat
    BY CutAt, WordsOfBlock
  <2>2. p.size \in 1 .. Len(c.data) - k /\ IsCut(c, k + p.size) /\ WordAt(c, k + p.size) = i + BeatsIn(p)
    BY NextCut
  <2> HIDE DEF p, i
  <2> QED BY <2>1, <2>2
<1>3. BeatsIn(p) = 1
  BY DEF BeatsIn
<1>4. k + p.size = Upto(c, i)
  <2>1. k + p.size = Upto(c, WordAt(c, k + p.size) - 1)
    BY <1>2 DEF IsCut
  <2> HIDE DEF p, i
  <2>2. WordAt(c, k + p.size) - 1 = i
    BY <1>2, <1>3
  <2> QED BY <2>1, <2>2
<1>5. SizeIn(c, i) = p.size
  <2>1. SizeIn(c, i) = Upto(c, i) - Upto(c, i - 1)
    BY DEF SizeIn
  <2> HIDE DEF p, i
  <2> QED BY <1>1, <1>2, <1>4, <2>1
<1> QED BY <1>1, <1>5

\* A burst does not reach the end of the address space.
LEMMA BurstFits ==
  ASSUME NEW a \in Addrs, NEW n \in {4, 8, 16, 32}, a % n = 0
  PROVE  a + n =< AddrSpace
<1>1. AddrSpace \in Nat \ {0} /\ AddrSpace % 64 = 0 /\ a \in 0 .. AddrSpace - 1
  BY AddrSpaceAssumption DEF Addrs
<1>2. CASE n = 4
  BY <1>1, <1>2
<1>3. CASE n = 8
  BY <1>1, <1>3
<1>4. CASE n = 16
  BY <1>1, <1>4
<1>5. CASE n = 32
  BY <1>1, <1>5
<1> QED BY <1>2, <1>3, <1>4, <1>5

LEMMA WordOfBurst ==
  ASSUME NEW c, IsBlock(c), NEW k \in 0 .. Len(c.data) - 1, IsCut(c, k), PieceAt(c, k).chunk # 1,
         NEW x \in 0 .. BeatsIn(PieceAt(c, k)) - 1
  PROVE  LET p == PieceAt(c, k)
             i == WordAt(c, k) + x
         IN /\ p.from = k
            /\ Upto(c, i - 1) = k + 4 * x /\ SizeIn(c, i) = 4
            /\ PlaceIn(c, i) = p.addr + 4 * x /\ PlaceIn(c, i) % 4 = 0 /\ p.addr % 4 = 0
<1> DEFINE p == PieceAt(c, k)
           h == WordAt(c, k)
           b == BeatsIn(p)
           W == WordsIn(c)
           L == Len(c.data)
           o == c.addr % 4
           a == p.addr
<1>1. /\ p.from = k /\ p.size = p.chunk /\ a % p.chunk = 0 /\ p.chunk \in Chunks
      /\ p.addr = (c.addr + k) % AddrSpace
  BY PieceFields
<1>2. /\ k + p.size \in 1 .. L /\ IsCut(c, k + p.size) /\ WordAt(c, k + p.size) = h + b
      /\ b \in {1, 2, 4, 8} /\ a % 4 = 0 /\ p.chunk = 4 * b
  BY NextCut
<1>3. /\ h \in 1 .. W /\ ((k = 0 /\ h = 1) \/ o + k = 4 * (h - 1)) /\ (k = 0 <=> h = 1)
      /\ a \in Addrs /\ a % 4 = IF k = 0 THEN o ELSE 0
  BY CutAt, PieceAddr
<1>4. /\ W \in Nat \ {0} /\ L \in Nat \ {0} /\ o \in 0 .. 3 /\ Upto(c, 0) = 0
      /\ \A j \in 1 .. W - 1 : Upto(c, j) = 4 * j - o
      /\ AddrSpace \in Nat \ {0} /\ c.addr \in Nat
  <2>1. W \in Nat \ {0} /\ Upto(c, 0) = 0 /\ (\A j \in 1 .. W - 1 : Upto(c, j) = 4 * j - o)
    BY WordsOfBlock
  <2>2. L \in Nat \ {0} /\ o \in 0 .. 3 /\ AddrSpace \in Nat \ {0}
    BY Space DEF IsBlock
  <2>3. c.addr \in Nat
    BY <2>2 DEF IsBlock, Addrs
  <2> QED BY <2>1, <2>2, <2>3
<1>5. k + p.size = Upto(c, h + b - 1) /\ h + b - 1 =< W
  <2>1. k + p.size = Upto(c, WordAt(c, k + p.size) - 1)
    BY <1>2 DEF IsCut
  <2> HIDE DEF p, h, b, W
  <2>2. WordAt(c, k + p.size) - 1 = h + b - 1
    BY <1>2, <1>3, <1>4
  <2>3. h + b =< W + 1
    <3>1. CASE k + p.size = L
      BY <1>2, <1>3, <1>4, <3>1 DEF WordAt, W, L
    <3>2. CASE k + p.size # L
      <4>1. k + p.size \in 0 .. L - 1
        BY <1>2, <1>4, <3>2
      <4>2. WordAt(c, k + p.size) \in 1 .. W
        BY <1>2, <4>1, CutAt DEF L, W
      <4> QED BY <1>2, <1>4, <4>2
    <3> QED BY <3>1, <3>2
  <2> QED BY <1>2, <1>3, <1>4, <2>1, <2>2, <2>3
<1>6. a + p.chunk =< AddrSpace
  BY <1>1, <1>3, BurstFits DEF Chunks
<1>x. x \in 0 .. b - 1
  OBVIOUS
<1>p. a \in Nat
  BY <1>3, <1>4 DEF Addrs
<1>s. \A j : SizeIn(c, j) = Upto(c, j) - Upto(c, j - 1) /\ PlaceIn(c, j) = (c.addr + Upto(c, j - 1)) % AddrSpace
  BY DEF SizeIn, PlaceIn
<1>k. k \in Nat /\ x \in Nat /\ h \in Nat /\ k + 4 * x \in Nat
  <2>1. k \in Nat /\ x \in Nat /\ h \in Nat
    <3> HIDE DEF p, h, b, W, L, o, a
    <3> QED BY <1>2, <1>3, <1>4, <1>x DEF L
  <2> QED BY <2>1
<1> HIDE DEF p, h, b, W, L, o, a
<1>7. o + k = 4 * (h - 1)
  BY <1>2, <1>3, <1>4
<1>8. \A y \in 0 .. b : Upto(c, (h + y) - 1) = k + 4 * y
  <2> TAKE y \in 0 .. b
  <2>1. CASE y = b
    <3>1. (h + b) - 1 = h + b - 1
      BY <1>2, <1>k
    <3> QED BY <1>1, <1>2, <1>5, <2>1, <3>1
  <2>2. CASE y # b /\ h + y = 1
    BY <1>2, <1>3, <1>4, <2>2
  <2>3. CASE y # b /\ h + y # 1
    <3>1. (h + y) - 1 \in 1 .. W - 1
      BY <1>2, <1>3, <1>4, <1>5, <2>3
    <3>2. Upto(c, (h + y) - 1) = 4 * ((h + y) - 1) - o
      BY <1>4, <3>1
    <3> QED BY <1>2, <1>3, <1>4, <1>7, <3>2
  <2> QED BY <2>1, <2>2, <2>3
<1>9. Upto(c, (h + x) - 1) = k + 4 * x /\ Upto(c, h + x) = k + 4 * x + 4
  <2>1. x \in 0 .. b /\ x + 1 \in 0 .. b /\ (h + (x + 1)) - 1 = h + x /\ 4 * (x + 1) = 4 * x + 4
    BY <1>2, <1>3, <1>4, <1>x
  <2>2. Upto(c, (h + (x + 1)) - 1) = k + 4 * (x + 1)
    BY <1>8, <2>1
  <2>3. Upto(c, (h + x) - 1) = k + 4 * x
    BY <1>8, <2>1
  <2> QED BY <2>1, <2>2, <2>3
<1>10. SizeIn(c, h + x) = 4
  <2>1. SizeIn(c, h + x) = Upto(c, h + x) - Upto(c, (h + x) - 1)
    BY <1>s, Zenon
  <2> QED BY <1>9, <1>k, <2>1
<1>11. PlaceIn(c, h + x) = a + 4 * x
  <2>1. PlaceIn(c, h + x) = (c.addr + k + 4 * x) % AddrSpace
    <3>1. PlaceIn(c, h + x) = (c.addr + Upto(c, (h + x) - 1)) % AddrSpace
      BY <1>s, Zenon
    <3>2. c.addr + (k + 4 * x) = c.addr + k + 4 * x
      BY <1>4, <1>k
    <3> QED BY <1>9, <3>1, <3>2
  <2>2. a = (c.addr + k) % AddrSpace
    BY <1>1 DEF a
  <2>3. a + 4 * x \in 0 .. AddrSpace - 1
    BY <1>2, <1>4, <1>6, <1>p, <1>x
  <2> DEFINE s == c.addr + k
             z == 4 * x
  <2>4. s \in Nat /\ z \in Nat /\ a = s % AddrSpace /\ a + z \in 0 .. AddrSpace - 1
        /\ PlaceIn(c, h + x) = (s + z) % AddrSpace
    <3>1. s \in Nat /\ z \in Nat
      BY <1>4, <1>k
    <3> QED BY <2>1, <2>2, <2>3, <3>1, Zenon
  <2> HIDE DEF s, z
  <2>5. s = AddrSpace * (s \div AddrSpace) + (s % AddrSpace) /\ s \div AddrSpace \in Nat
    BY <1>4, <2>4, Division
  <2> DEFINE q == s \div AddrSpace
  <2>6. q \in Int /\ s + z = AddrSpace * q + (a + z)
    <3>1. s = AddrSpace * q + a /\ q \in Nat
      BY <2>4, <2>5
    <3>2. AddrSpace * q \in Nat
      BY <1>4, <3>1
    <3> HIDE DEF q
    <3> QED BY <1>p, <2>4, <3>1, <3>2
  <2> HIDE DEF q
  <2> DEFINE m == a + z
  <2>7. m \in 0 .. AddrSpace - 1 /\ s + z = AddrSpace * q + m
    BY <2>4, <2>6
  <2> HIDE DEF m
  <2>8. (s + z) % AddrSpace = m
    BY <1>4, <2>6, <2>7, Remainder
  <2> QED BY <2>4, <2>8 DEF m, z
<1>12. (a + 4 * x) % 4 = 0
  BY <1>2, <1>p, <1>x
<1>13. PlaceIn(c, h + x) % 4 = 0
  BY <1>11, <1>12
<1> QED BY <1>1, <1>2, <1>9, <1>10, <1>11, <1>13, Zenon DEF p, h, a

------------------------------------------------------------------------------
\* The requests and the responses of a call, by the words of its block.

Starts(c, i) == First(c, PieceNo(c, i)) = i
Ends(c, i)   == First(c, PieceNo(c, i) + 1) = i + 1

BurstOf(c, k, id) ==
  [addr |-> 4 * WordNo(c, First(c, k)), type |-> IF Cut(c)[k].chunk = 1 THEN FIXED ELSE INCR,
   len |-> First(c, k + 1) - First(c, k) - 1, id |-> id[k]]

\* What is written to the word of a block that has size bytes of it from lane
\* off on, the first of them at offset from.
DataOf(c, from, off, size) ==
  [l \in Lanes |-> IF \E x \in 0 .. size - 1 : off + x = l THEN c.data[from + (l - off) + 1] ELSE 0]
StrbOf(c, off, size) == {off + x : x \in (0 .. size - 1) \intersect InitialMask(c)}

BeatOf(c, i) ==
  [data |-> DataOf(c, Upto(c, i - 1), PlaceIn(c, i) % 4, SizeIn(c, i)),
   strb |-> StrbOf(c, PlaceIn(c, i) % 4, SizeIn(c, i)), last |-> Ends(c, i)]

WriteRequest32(aw, w, bready) == [Quiet EXCEPT !.aw = aw, !.w = w, !.bready = bready]
WriteRequestOf(c, i, id) ==
  WriteRequest32(IF Starts(c, i) THEN {BurstOf(c, PieceNo(c, i), id)} ELSE {}, {BeatOf(c, i)}, Starts(c, i))

ReadRequestOf(c, k, id) == [Quiet EXCEPT !.ar = {BurstOf(c, k, id)}]
ResponseOf(c, i, id) ==
  [addr |-> PlaceIn(c, i), size |-> SizeIn(c, i), id |-> id[PieceNo(c, i)], last |-> Ends(c, i)]

WriteRequestsOf(c, id)  == [i \in 1 .. WordsIn(c) |-> WriteRequestOf(c, i, id)]
WriteResponsesOf(c, id) == [k \in 1 .. NumPieces(c) |-> [id |-> id[k]]]
ReadRequestsOf(c, id)   == [k \in 1 .. NumPieces(c) |-> ReadRequestOf(c, k, id)]
ReadResponsesOf(c, id)  == [i \in 1 .. WordsIn(c) |-> ResponseOf(c, i, id)]

LEMMA CallsAreBlocks ==
  ASSUME NEW c \in Calls
  PROVE  IsBlock(c) /\ c # NoCall /\ c.op \in {"write", "read"} /\ c.data \in Seq(ByteValues)
BY CallsAssumption DEF IsBlock, NoCall

\* The place of the x-th word of a piece.
LEMMA PlaceInPiece ==
  ASSUME NEW c, IsBlock(c), NEW k \in 1 .. NumPieces(c), NEW x \in 1 .. BeatsIn(Cut(c)[k])
  PROVE  LET i == First(c, k) + (x - 1)
         IN /\ i \in 1 .. WordsIn(c) /\ PieceNo(c, i) = k
            /\ Starts(c, i) <=> x = 1
            /\ Ends(c, i) <=> x = BeatsIn(Cut(c)[k])
<1> DEFINE f == First(c, k)
           n == First(c, k + 1)
           b == BeatsIn(Cut(c)[k])
           i == f + (x - 1)
<1>1. f \in 1 .. WordsIn(c) /\ b \in {1, 2, 4, 8} /\ n = f + b /\ WordsIn(c) \in Nat
  BY Pieces, WordsOfBlock
<1> HIDE DEF b
<1>2. i \in f .. n - 1
  <2>1. x \in 1 .. b
    BY DEF b
  <2> HIDE DEF f, n
  <2> QED BY <1>1, <2>1
<1>3. i \in 1 .. WordsIn(c) /\ PieceNo(c, i) = k
  BY <1>2, PieceIsOne
<1>4. (Starts(c, i) <=> f = i) /\ (Ends(c, i) <=> n = i + 1)
  BY <1>3 DEF Starts, Ends
<1>5. x \in 1 .. b
  BY DEF b
<1> HIDE DEF f, n
<1>6. (f = i <=> x = 1) /\ (n = i + 1 <=> x = b)
  BY <1>1, <1>5
<1> QED BY <1>3, <1>4, <1>6 DEF f, b

\* A burst has no mask.
LEMMA BurstUnmasked ==
  ASSUME NEW c \in Calls, c.op = "write", NEW k \in 0 .. Len(c.data) - 1, PieceAt(c, k).chunk # 1
  PROVE  InitialMask(c) = Lanes
<1>1. IsBlock(c) /\ Len(c.data) \in Nat
  BY CallsAreBlocks DEF IsBlock
<1>2. /\ PieceAt(c, k).chunk \in Chunks /\ PieceAt(c, k).chunk =< Len(c.data) - k
      /\ PieceAt(c, k).chunk = 4 => Len(c.data) - k > 4
  BY <1>1, PieceFields
<1>3. Len(c.data) # 4
  <2> DEFINE n == PieceAt(c, k).chunk
             y == Len(c.data)
  <2>1. n \in {4, 8, 16, 32} /\ n =< y - k /\ (n = 4 => y - k > 4) /\ y \in Nat /\ k \in 0 .. y - 1
    BY <1>1, <1>2 DEF Chunks
  <2> HIDE DEF n, y
  <2>2. y # 4
    BY <2>1
  <2> QED BY <2>2 DEF y
<1>4. c.mask = 0 .. Len(c.data) - 1
  BY <1>3, CallsAssumption
<1> QED BY <1>4 DEF InitialMask

LEMMA WriteRequestsOfPiece ==
  ASSUME NEW c \in Calls, c.op = "write", NEW id, NEW k \in 1 .. NumPieces(c)
  PROVE  LET p == Cut(c)[k]
             r == WriteRequests(c, p, id[k])
         IN /\ r \in Seq({WriteRequestOf(c, i, id) : i \in 1 .. WordsIn(c)})
            /\ Len(r) = BeatsIn(p)
            /\ \A x \in 1 .. BeatsIn(p) : r[x] = WriteRequestOf(c, First(c, k) + (x - 1), id)
<1> DEFINE p == Cut(c)[k]
           f == First(c, k)
           b == BeatsIn(p)
           o == p.from
           R == {WriteRequestOf(c, i, id) : i \in 1 .. WordsIn(c)}
<1>1. IsBlock(c)
  BY CallsAreBlocks
<1>2. /\ p = PieceAt(c, o) /\ o \in 0 .. Len(c.data) - 1 /\ IsCut(c, o)
      /\ f = WordAt(c, o) /\ f \in 1 .. WordsIn(c) /\ b \in {1, 2, 4, 8} /\ First(c, k + 1) = f + b
      /\ WordsIn(c) \in Nat
  BY <1>1, Pieces, WordsOfBlock
<1>3. ASSUME NEW x \in 1 .. b
      PROVE  LET i == f + (x - 1)
             IN /\ i \in 1 .. WordsIn(c) /\ PieceNo(c, i) = k
                /\ Starts(c, i) <=> x = 1
                /\ Ends(c, i) <=> x = b
  BY <1>1, PlaceInPiece
<1>4. CASE p.chunk = 1
  <2>1. b = 1 /\ f + (1 - 1) = f
    BY <1>2, <1>4 DEF BeatsIn
  <2>2. PieceNo(c, f) = k /\ Starts(c, f) /\ Ends(c, f)
    <3>1. 1 \in 1 .. b
      BY <2>1
    <3> QED BY <1>3, <2>1, <3>1
  <2>3. /\ Upto(c, f - 1) = o /\ SizeIn(c, f) = p.size /\ PlaceIn(c, f) = p.addr
        /\ Aligned(p.addr) = 4 * WordNo(c, f)
    BY <1>1, <1>2, <1>4, WordOfSingle, PieceAddr
  <2> DEFINE a == [addr |-> Aligned(p.addr), type |-> FIXED, len |-> 0, id |-> id[k]]
             w == [data |-> DataOf(c, o, p.addr % 4, p.size), strb |-> StrbOf(c, p.addr % 4, p.size), last |-> TRUE]
  <2>4. WriteRequests(c, p, id[k]) = <<WriteRequest32({a}, {w}, TRUE)>>
    BY <1>4, Zenon DEF WriteRequests, SingleWrite, WriteRequest32, DataOf, StrbOf
  <2>5. a = BurstOf(c, k, id)
    <3>1. First(c, k + 1) - First(c, k) - 1 = 0
      BY <1>2, <2>1
    <3> QED BY <1>4, <2>3, <3>1 DEF BurstOf
  <2>6. w = BeatOf(c, f)
    <3>1. Ends(c, f) = TRUE
      BY <2>2 DEF Ends
    <3> QED BY <2>3, <3>1, Zenon DEF BeatOf
  <2>7. WriteRequestOf(c, f, id) = WriteRequest32({a}, {w}, TRUE)
    <3>1. Starts(c, f) = TRUE
      BY <2>2 DEF Starts
    <3> HIDE DEF a, w
    <3> QED BY <2>2, <2>5, <2>6, <3>1 DEF WriteRequestOf
  <2>8. WriteRequestOf(c, f, id) \in R
    BY <1>2
  <2> DEFINE q == WriteRequestOf(c, f, id)
             r == WriteRequests(c, p, id[k])
  <2>9. r = <<q>> /\ q \in R
    BY <2>4, <2>7, <2>8
  <2> HIDE DEF q, r, R
  <2>10. r \in Seq(R) /\ Len(r) = 1 /\ r[1] = q
    BY <2>9
  <2> HIDE DEF p, f, b
  <2>11. \A x \in 1 .. b : r[x] = WriteRequestOf(c, f + (x - 1), id)
    <3> TAKE x \in 1 .. b
    <3>1. x = 1
      BY <2>1
    <3> QED BY <2>1, <2>10, <3>1 DEF q
  <2> QED BY <2>1, <2>10, <2>11 DEF r, p, f, b, R
<1>5. CASE p.chunk # 1
  <2>0. b = p.chunk \div 4 /\ InitialMask(c) = Lanes
    BY <1>2, <1>5, BurstUnmasked DEF BeatsIn
  <2> DEFINE a == [addr |-> p.addr, type |-> INCR, len |-> b - 1, id |-> id[k]]
             w(x) == [data |-> [l \in Lanes |-> c.data[o + 4 * (x - 1) + l + 1]], strb |-> Lanes, last |-> x = b]
             r == WriteRequests(c, p, id[k])
  <2>1. r = [x \in 1 .. b |-> WriteRequest32(IF x = 1 THEN {a} ELSE {}, {w(x)}, x = 1)]
    BY <1>5, <2>0, Zenon DEF WriteRequests, BurstWrite, WriteRequest32
  <2>2. a = BurstOf(c, k, id)
    <3>1. First(c, k + 1) - First(c, k) - 1 = b - 1
      <4> HIDE DEF b, f
      <4> QED BY <1>2 DEF f
    <3>2. p.addr = 4 * WordNo(c, f)
      <4>1. 0 \in 0 .. b - 1
        BY <1>2
      <4>2. p.addr % 4 = 0
        <5> DEFINE q == PieceAt(c, o)
        <5>1. q.chunk # 1 /\ 0 \in 0 .. BeatsIn(q) - 1 /\ p.addr = q.addr
          BY <1>2, <1>5, <4>1
        <5>2. q.addr % 4 = 0
          BY <1>1, <1>2, <5>1, WordOfBurst
        <5> HIDE DEF p, q
        <5> QED BY <5>1, <5>2
      <4>3. Aligned(p.addr) = 4 * WordNo(c, f) /\ p.addr \in Addrs
        BY <1>1, <1>2, PieceAddr
      <4>4. p.addr \in Nat
        BY <4>3, Space DEF Addrs
      <4> HIDE DEF p
      <4>5. Aligned(p.addr) = p.addr
        BY <4>2, <4>4 DEF Aligned
      <4> QED BY <4>3, <4>5
    <3> HIDE DEF b
    <3> QED BY <1>5, <3>1, <3>2 DEF BurstOf
  <2>3. ASSUME NEW x \in 1 .. b
        PROVE  r[x] = WriteRequestOf(c, f + (x - 1), id)
    <3> DEFINE i == f + (x - 1)
    <3>1. i \in 1 .. WordsIn(c) /\ PieceNo(c, i) = k /\ (Starts(c, i) <=> x = 1) /\ (Ends(c, i) <=> x = b)
      BY <1>3
    <3>2. x - 1 \in 0 .. b - 1 /\ x \in Nat
      BY <1>2
    <3>3. Upto(c, i - 1) = o + 4 * (x - 1) /\ SizeIn(c, i) = 4 /\ PlaceIn(c, i) % 4 = 0
      <4> HIDE DEF p, f, b, o, R, a, r, w
      <4>1. o \in 0 .. Len(c.data) - 1 /\ IsCut(c, o) /\ PieceAt(c, o).chunk # 1
        BY <1>2, <1>5
      <4>2. x - 1 \in 0 .. BeatsIn(PieceAt(c, o)) - 1
        BY <1>2, <3>2 DEF b
      <4>3. WordAt(c, o) = f
        BY <1>2
      <4> QED BY <1>1, <4>1, <4>2, <4>3, WordOfBurst
    <3>4. StrbOf(c, 0, 4) = Lanes
      BY <2>0 DEF StrbOf, Lanes
    <3>5. DataOf(c, o + 4 * (x - 1), 0, 4) = [l \in Lanes |-> c.data[o + 4 * (x - 1) + l + 1]]
      <4>1. ASSUME NEW l \in Lanes
            PROVE  (IF \E y \in 0 .. 4 - 1 : 0 + y = l THEN c.data[o + 4 * (x - 1) + (l - 0) + 1] ELSE 0)
                     = c.data[o + 4 * (x - 1) + l + 1]
        <5>1. \E y \in 0 .. 4 - 1 : 0 + y = l
          BY DEF Lanes
        <5>2. l - 0 = l
          BY DEF Lanes
        <5> QED BY <5>1, <5>2
      <4> QED BY <4>1 DEF DataOf
    <3>6. w(x) = BeatOf(c, i)
      <4>1. Ends(c, i) = (x = b)
        BY <3>1 DEF Ends
      <4> HIDE DEF b, i
      <4> QED BY <3>3, <3>4, <3>5, <4>1, Zenon DEF BeatOf
    <3>7. WriteRequestOf(c, i, id) = WriteRequest32(IF x = 1 THEN {a} ELSE {}, {w(x)}, x = 1)
      <4>1. Starts(c, i) = (x = 1)
        BY <3>1 DEF Starts
      <4> HIDE DEF a, w, i
      <4> QED BY <2>2, <3>1, <3>6, <4>1, Zenon DEF WriteRequestOf
    <3> HIDE DEF a, w
    <3> QED BY <2>1, <3>7
  <2>4. \A x \in 1 .. b : r[x] \in R
    <3> TAKE x \in 1 .. b
    <3>1. f + (x - 1) \in 1 .. WordsIn(c)
      BY <1>3
    <3> QED BY <2>3, <3>1
  <2>5. r \in Seq(R) /\ Len(r) = b
    <3> HIDE DEF a, w, R
    <3>1. r = [x \in 1 .. b |-> r[x]]
      BY <2>1
    <3> HIDE DEF r, b
    <3>2. b \in Nat
      BY <1>2
    <3> QED BY <2>4, <3>1, <3>2
  <2> HIDE DEF R
  <2> QED BY <2>3, <2>5 DEF R
<1> QED BY <1>4, <1>5

LEMMA ReadResponsesOfPiece ==
  ASSUME NEW c \in Calls, c.op = "read", NEW id, NEW k \in 1 .. NumPieces(c)
  PROVE  LET p == Cut(c)[k]
             r == ReadResponses(p, id[k])
         IN /\ r \in Seq({ResponseOf(c, i, id) : i \in 1 .. WordsIn(c)})
            /\ Len(r) = BeatsIn(p)
            /\ \A x \in 1 .. BeatsIn(p) : r[x] = ResponseOf(c, First(c, k) + (x - 1), id)
<1> DEFINE p == Cut(c)[k]
           f == First(c, k)
           b == BeatsIn(p)
           o == p.from
           R == {ResponseOf(c, i, id) : i \in 1 .. WordsIn(c)}
           r == ReadResponses(p, id[k])
<1>1. IsBlock(c)
  BY CallsAreBlocks
<1>2. /\ p = PieceAt(c, o) /\ o \in 0 .. Len(c.data) - 1 /\ IsCut(c, o)
      /\ f = WordAt(c, o) /\ f \in 1 .. WordsIn(c) /\ b \in {1, 2, 4, 8}
      /\ WordsIn(c) \in Nat
  BY <1>1, Pieces, WordsOfBlock
<1>3. ASSUME NEW x \in 1 .. b
      PROVE  LET i == f + (x - 1)
             IN /\ i \in 1 .. WordsIn(c) /\ PieceNo(c, i) = k
                /\ Ends(c, i) <=> x = b
  BY <1>1, PlaceInPiece
<1>4. ASSUME NEW x \in 1 .. b
      PROVE  LET i == f + (x - 1)
             IN r[x] = ResponseOf(c, i, id)
  <2> DEFINE i == f + (x - 1)
  <2>1. PieceNo(c, i) = k /\ (Ends(c, i) <=> x = b)
    BY <1>3
  <2>2. Ends(c, i) = (x = b)
    BY <2>1 DEF Ends
  <2>3. r[x] = [addr |-> PlaceIn(c, i), size |-> SizeIn(c, i), id |-> id[k], last |-> x = b]
    <3>1. CASE p.chunk = 1
      <4>1. b = 1 /\ x = 1 /\ i = f
        <5>1. b = 1
          BY <3>1 DEF BeatsIn
        <5>2. x = 1
          <6> HIDE DEF b
          <6> QED BY <5>1
        <5>3. f + (1 - 1) = f
          BY <1>2
        <5> QED BY <5>1, <5>2, <5>3
      <4>2. SizeIn(c, i) = p.size /\ PlaceIn(c, i) = p.addr
        BY <1>1, <1>2, <3>1, <4>1, WordOfSingle
      <4>3. r = <<[addr |-> p.addr, size |-> p.size, id |-> id[k], last |-> TRUE]>>
        BY <3>1, Zenon DEF ReadResponses
      <4>4. (x = b) = TRUE
        BY <4>1
      <4> HIDE DEF p, i, b, r
      <4> QED BY <4>1, <4>2, <4>3, <4>4
    <3>2. CASE p.chunk # 1
      <4>1. x - 1 \in 0 .. b - 1 /\ b = p.chunk \div 4
        BY <1>2, <3>2 DEF BeatsIn
      <4>2. SizeIn(c, i) = 4 /\ PlaceIn(c, i) = p.addr + 4 * (x - 1)
        <5> DEFINE y == x - 1
                   q == PieceAt(c, o)
        <5>1. q.chunk # 1 /\ y \in 0 .. BeatsIn(q) - 1 /\ p.addr = q.addr /\ i = WordAt(c, o) + y
          BY <1>2, <3>2, <4>1
        <5> HIDE DEF y
        <5>2. SizeIn(c, WordAt(c, o) + y) = 4 /\ PlaceIn(c, WordAt(c, o) + y) = q.addr + 4 * y
          <6>1. o \in 0 .. Len(c.data) - 1 /\ IsCut(c, o)
            BY <1>2
          <6> HIDE DEF o, i, p, f, b, r
          <6> QED BY <1>1, <5>1, <6>1, WordOfBurst DEF q
        <5> HIDE DEF q, i
        <5> QED BY <5>1, <5>2 DEF y
      <4>3. r = [y \in 1 .. b |-> [addr |-> p.addr + 4 * (y - 1), size |-> 4, id |-> id[k], last |-> y = b]]
        BY <3>2, <4>1, Zenon DEF ReadResponses
      <4> HIDE DEF p, i, b, r
      <4>4. r[x] = [addr |-> p.addr + 4 * (x - 1), size |-> 4, id |-> id[k], last |-> x = b]
        BY <4>3 DEF b
      <4> QED BY <4>2, <4>4
    <3> QED BY <3>1, <3>2
  <2> HIDE DEF i, r, b
  <2> QED BY <2>1, <2>2, <2>3, Zenon DEF ResponseOf, i
<1>5. \A x \in 1 .. b : r[x] \in R
  <2> TAKE x \in 1 .. b
  <2>1. f + (x - 1) \in 1 .. WordsIn(c)
    BY <1>3
  <2> HIDE DEF r
  <2> QED BY <1>4, <2>1
<1>6. Len(r) = b /\ r \in Seq(R)
  <2>1. CASE p.chunk = 1
    <3> DEFINE q == [addr |-> p.addr, size |-> p.size, id |-> id[k], last |-> TRUE]
    <3>1. r = <<q>>
      BY <2>1, Zenon DEF ReadResponses
    <3>2. b = 1
      BY <2>1 DEF BeatsIn
    <3> HIDE DEF q, r, R, b
    <3>3. Len(r) = 1 /\ r[1] = q /\ 1 \in 1 .. b
      BY <3>1, <3>2
    <3>4. q \in R
      BY <1>5, <3>3 DEF b
    <3> QED BY <3>1, <3>2, <3>3, <3>4
  <2>2. CASE p.chunk # 1
    <3>1. b = p.chunk \div 4
      BY <2>2 DEF BeatsIn
    <3>2. r = [y \in 1 .. b |-> [addr |-> p.addr + 4 * (y - 1), size |-> 4, id |-> id[k], last |-> y = b]]
      BY <2>2, <3>1, Zenon DEF ReadResponses
    <3> HIDE DEF R
    <3>3. r = [x \in 1 .. b |-> r[x]]
      BY <3>2
    <3> HIDE DEF r, b
    <3>4. b \in Nat
      BY <1>2
    <3> QED BY <1>5, <3>3, <3>4 DEF b
  <2> QED BY <2>1, <2>2
<1> HIDE DEF r, R, b
<1> QED BY <1>4, <1>6 DEF r, R, b

------------------------------------------------------------------------------
\* Lists end to end: where the k-th of them starts is where it lies in the whole.

LEMMA ListIn ==
  ASSUME NEW m \in Nat, NEW U, NEW d, d = [i \in 1 .. m |-> d[i]], \A i \in 1 .. m : d[i] \in U
  PROVE  d \in Seq(U) /\ Len(d) = m
OBVIOUS

LEMMA Shifted ==
  ASSUME NEW m \in Nat, NEW z \in Nat, NEW i \in 1 .. m + z, ~(i =< m)
  PROVE  i - m \in 1 .. z /\ (m + 1) + ((i - m) - 1) = i
OBVIOUS

Joined(s, g) == [k \in 0 .. Len(s) |-> IF k = 0 THEN <<>> ELSE g[k - 1] \o s[k]]

LEMMA ConcatIsJoined ==
  ASSUME NEW s, NEW f, f = Joined(s, f)
  PROVE  \E g : g = Joined(s, g) /\ Concat(s) = g[Len(s)]
<1> DEFINE g == CHOOSE r : r = Joined(s, r)
<1>1. g = Joined(s, g)
  BY Zenon
<1>2. Concat(s) = g[Len(s)]
  BY Zenon DEF Concat, Joined
<1> QED BY <1>1, <1>2, Zenon

\* The lists of s lie in the list T, the k-th of them from F[k] on.
Lies(n, R, s, F, T) ==
  /\ n \in Nat /\ F[1] = 1 /\ \A k \in 1 .. n + 1 : F[k] \in Nat \ {0}
  /\ s = [k \in 1 .. n |-> s[k]] /\ T = [i \in 1 .. F[n + 1] - 1 |-> T[i]]
  /\ \A k \in 1 .. n : /\ s[k] \in Seq(R)
                        /\ F[k + 1] = F[k] + Len(s[k])
                        /\ \A x \in 1 .. Len(s[k]) : s[k][x] = T[F[k] + (x - 1)]

LEMMA ConcatIs ==
  ASSUME NEW n, NEW R, NEW s, NEW F, NEW T, Lies(n, R, s, F, T)
  PROVE  Concat(s) = T
<1> n \in Nat /\ s = [k \in 1 .. n |-> s[k]] /\ F[1] = 1 /\ \A k \in 1 .. n + 1 : F[k] \in Nat \ {0}
  BY DEF Lies
<1> T = [i \in 1 .. F[n + 1] - 1 |-> T[i]]
  BY DEF Lies
<1> \A k \in 1 .. n : /\ s[k] \in Seq(R)
                      /\ F[k + 1] = F[k] + Len(s[k])
                      /\ \A x \in 1 .. Len(s[k]) : s[k][x] = T[F[k] + (x - 1)]
  BY Zenon DEF Lies
<1> DEFINE t(k) == [i \in 1 .. F[k + 1] - 1 |-> T[i]]
<1>1. Len(s) = n
  OBVIOUS
<1>2. t(0) = <<>>
  <2>1. F[0 + 1] - 1 = 0
    OBVIOUS
  <2> QED BY <2>1
<1> DEFINE U == {T[i] : i \in Nat}
<1>3. ASSUME NEW k \in 0 .. n PROVE t(k) \in Seq(U) /\ Len(t(k)) = F[k + 1] - 1
  <2>1. F[k + 1] \in Nat \ {0}
    <3>1. k + 1 \in 1 .. n + 1
      OBVIOUS
    <3> QED BY <3>1
  <2> DEFINE m == F[k + 1] - 1
  <2>2. m \in Nat
    BY <2>1
  <2> HIDE DEF m
  <2>3. \A i \in 1 .. m : T[i] \in U
    BY <2>2
  <2> HIDE DEF U
  <2> DEFINE d == [i \in 1 .. m |-> T[i]]
  <2>d. d = [i \in 1 .. m |-> d[i]] /\ \A i \in 1 .. m : d[i] \in U
    BY <2>3
  <2> HIDE DEF d
  <2>4. d \in Seq(U) /\ Len(d) = m
    BY <2>2, <2>d, ListIn, Zenon
  <2> QED BY <2>4 DEF m, d
<1>4. ASSUME NEW k \in 1 .. n PROVE t(k) = t(k - 1) \o s[k]
  <2> DEFINE a == t(k - 1)
             b == s[k]
             V == U \union R
             m == F[k] - 1
             z == Len(b)
  <2>1. k - 1 \in 0 .. n /\ k \in 0 .. n /\ (k - 1) + 1 = k
    OBVIOUS
  <2>2. b \in Seq(R) /\ F[k + 1] = F[k] + z /\ z \in Nat /\ F[k] \in Nat \ {0}
        /\ \A x \in 1 .. z : b[x] = T[F[k] + (x - 1)]
    <3>1. k \in 1 .. n + 1
      OBVIOUS
    <3> QED BY <3>1, LenProperties
  <2>3. a \in Seq(V) /\ b \in Seq(V) /\ Len(a) = m
    <3>1. a \in Seq(U) /\ Len(a) = F[(k - 1) + 1] - 1
      BY <1>3, <2>1
    <3> HIDE DEF a, U
    <3> QED BY <2>1, <2>2, <3>1
  <2>a. \A i \in 1 .. m : a[i] = T[i]
    BY <2>1
  <2>5. t(k) = [i \in 1 .. m + z |-> T[i]]
    <3>1. F[k + 1] - 1 = m + z
      BY <2>2
    <3> QED BY <3>1
  <2>0. m \in Nat /\ z \in Nat /\ F[k] = m + 1
    BY <2>2
  <2> HIDE DEF a, V, t, b, z, m, U
  <2>4. a \o b \in Seq(V) /\ Len(a \o b) = m + z
        /\ \A i \in 1 .. m + z : (a \o b)[i] = IF i =< m THEN a[i] ELSE b[i - m]
    <3>1. Len(b) = z
      BY DEF z
    <3> QED BY <2>0, <2>3, <3>1, ConcatProperties
  <2>6. ASSUME NEW i \in 1 .. m + z PROVE (a \o b)[i] = T[i]
    <3>1. CASE i =< m
      <4>1. i \in 1 .. m
        BY <2>0, <3>1
      <4> QED BY <2>4, <2>a, <3>1, <4>1
    <3>2. CASE ~(i =< m)
      <4>1. i - m \in 1 .. z /\ F[k] + ((i - m) - 1) = i
        <5>1. i - m \in 1 .. z /\ (m + 1) + ((i - m) - 1) = i
          BY <2>0, <3>2, Shifted
        <5> QED BY <2>0, <5>1
      <4>2. b[i - m] = T[F[k] + ((i - m) - 1)]
        BY <2>2, <4>1
      <4> QED BY <2>4, <3>2, <4>1, <4>2
    <3> QED BY <3>1, <3>2
  <2>7. a \o b = [i \in 1 .. m + z |-> T[i]]
    <3> DEFINE d == a \o b
    <3>1. d \in Seq(V) /\ Len(d) = m + z
      BY <2>4
    <3> HIDE DEF d
    <3>2. d = [i \in 1 .. m + z |-> d[i]]
      BY <3>1, <2>0
    <3> QED BY <2>6, <3>2 DEF d
  <2> QED BY <2>5, <2>7 DEF a, b
<1> DEFINE f == [k \in 0 .. n |-> t(k)]
<1>5. f = Joined(s, f)
  <2>1. ASSUME NEW k \in 0 .. n PROVE f[k] = IF k = 0 THEN <<>> ELSE f[k - 1] \o s[k]
    <3> HIDE DEF t
    <3>1. k # 0 => k \in 1 .. n /\ k - 1 \in 0 .. n
      OBVIOUS
    <3>2. k # 0 => f[k] = t(k - 1) \o s[k] /\ f[k - 1] = t(k - 1)
      BY <1>4, <3>1
    <3> QED BY <1>2, <3>2
  <2>2. f = [k \in 0 .. n |-> f[k]]
    OBVIOUS
  <2> HIDE DEF f
  <2>3. f = [k \in 0 .. n |-> IF k = 0 THEN <<>> ELSE f[k - 1] \o s[k]]
    BY <2>1, <2>2
  <2> QED BY <1>1, <2>3 DEF Joined
<1>6. PICK g : g = Joined(s, g) /\ Concat(s) = g[Len(s)]
  BY <1>5, ConcatIsJoined
<1> DEFINE S == {k \in Nat : k =< n => g[k] = t(k)}
<1>7. ASSUME NEW k \in 0 .. n PROVE g[k] = IF k = 0 THEN <<>> ELSE g[k - 1] \o s[k]
  <2> DEFINE j == Joined(s, g)
  <2>1. j[k] = IF k = 0 THEN <<>> ELSE g[k - 1] \o s[k]
    BY <1>1 DEF Joined
  <2>2. j = g
    BY <1>6
  <2> HIDE DEF j
  <2> QED BY <2>1, <2>2
<1> HIDE DEF t
<1>8. 0 \in S
  <2>1. 0 \in 0 .. n
    OBVIOUS
  <2>2. g[0] = <<>>
    BY <1>7, <2>1
  <2> QED BY <1>2, <2>2
<1>9. \A k \in Nat : k \in S => k + 1 \in S
  <2> SUFFICES ASSUME NEW k \in Nat, k \in S, k + 1 =< n PROVE g[k + 1] = t(k + 1)
    OBVIOUS
  <2>1. k + 1 \in 1 .. n /\ k + 1 \in 0 .. n /\ (k + 1) - 1 = k /\ k + 1 # 0 /\ g[k] = t(k)
    OBVIOUS
  <2>2. g[k + 1] = g[k] \o s[k + 1]
    BY <1>7, <2>1
  <2>3. t(k + 1) = t(k) \o s[k + 1]
    BY <1>4, <2>1
  <2> QED BY <2>1, <2>2, <2>3
<1>10. g[n] = t(n)
  <2> HIDE DEF S
  <2>1. \A k \in Nat : k \in S
    BY <1>8, <1>9, Inductive
  <2> QED BY <2>1 DEF S
<1>11. t(n) = T
  BY Zenon DEF t
<1> QED BY <1>1, <1>6, <1>10, <1>11

------------------------------------------------------------------------------
\* The inductive invariant.

\* The n elements of a list behind the a-th.
Slice(list, a, n) == [j \in 1 .. n |-> list[a + j]]

BeatsOf(c) == [i \in 1 .. WordsIn(c) |-> BeatOf(c, i)]

IsMaster(o) ==
  /\ o = [ar |-> o.ar, aw |-> o.aw, w |-> o.w, rready |-> o.rready, bready |-> o.bready]
  /\ o.rready \in BOOLEAN /\ o.bready \in BOOLEAN

\* The driver of a write: the beats of the first i words are out of the queue,
\* and the addresses of the first a bursts are out.  The address of a burst
\* leaves with its first beat, or just before it.
Driven(c, id, o, sp, i, a) ==
  /\ i \in 0 .. WordsIn(c) /\ a \in 0 .. NumPieces(c) /\ sp \in BOOLEAN
  /\ o.w = {} \/ (i > 0 /\ o.w = {BeatOf(c, i)})
  /\ o.aw = {} \/ (a > 0 /\ o.aw = {BurstOf(c, a, id)} /\ First(c, a) = i + One(sp))
  /\ First(c, a) =< i + One(sp) /\ i + One(sp) < First(c, a + 1)
  /\ sp => First(c, a) = i + 1 /\ o.w = {}

\* The front end in a write: the first r bursts have been answered, the first s
\* words stored, and n beats wait to be.
Writing(c, id, r, s, n) ==
  /\ r \in 0 .. NumPieces(c) /\ s \in 0 .. WordsIn(c) /\ n \in 0 .. QUEUE_DEPTH
  /\ wDataQueue = Slice(BeatsOf(c), s, n)
  /\ wState \in {"wIdle", "wBurst", "wResp"}
  /\ wState = "wIdle" => s + 1 = First(c, r + 1)
  /\ wState # "wIdle" =>
       /\ r + 1 =< NumPieces(c)
       /\ wId = id[r + 1]
       /\ wAsked = {BurstOf(c, r + 1, id)}
       /\ wBurst = [type |-> BurstOf(c, r + 1, id).type, len |-> BurstOf(c, r + 1, id).len]
       /\ wAllReqsSent \in BOOLEAN
       /\ wState = "wResp" => wAllReqsSent
       /\ wAllReqsSent => s + 1 = First(c, r + 2)
       /\ ~wAllReqsSent => /\ First(c, r + 1) =< s + 1
                           /\ wReqCnt = First(c, r + 2) - s - 2 /\ wReqCnt >= 0
                           /\ wAddr = 4 * WordNo(c, s + 1)

ReadsQuiet ==
  /\ rState = "rIdle" /\ rDataQ = <<>> /\ rAckPending = 0 /\ rOutstanding = 0 /\ out.ar = {}

WriteState(id, i, a, r, s, n) ==
  /\ reqQ = Slice(WriteRequestsOf(call, id), i, WordsIn(call) - i)
  /\ respQ = Slice(WriteResponsesOf(call, id), r, NumPieces(call) - r)
  /\ Driven(call, id, out, split, i, a)
  /\ Writing(call, id, r, s, n)
  /\ i = s + n + One(out.w # {})
  /\ a = r + One(wState # "wIdle") + One(out.aw # {})
  /\ ReadsQuiet
  /\ due = [j \in 1 .. Len(due) |-> {}] /\ answer \in {{}, {EmptyWord}}
  /\ wAckPending = Len(due) + One(answer # {})
  /\ wState # "wBurst" => wAckPending = 0
  /\ respPending = One(wState # "wIdle")
  /\ done = Upto(call, s)

\* The words of a block as they are stored.
WordsStored(c) == [i \in 1 .. WordsIn(c) |-> store[WordNo(c, i)]]
Singles(list)  == [i \in DOMAIN list |-> {list[i]}]

\* The front end in a read: burst g is under way or the last to have been, the
\* first p words have been returned, m more are in the queue and the memory owes
\* d and the one it answers with.
Reading(c, id, g, p, m, d) ==
  /\ g \in 0 .. NumPieces(c) /\ p \in 0 .. WordsIn(c) /\ m \in 0 .. QUEUE_DEPTH /\ d \in 0 .. QUEUE_DEPTH
  /\ rDataQ = Slice(WordsStored(c), p, m)
  /\ answer = {} \/ answer = {WordsStored(c)[p + m + 1]}
  /\ due = Slice(Singles(WordsStored(c)), p + m + One(answer # {}), d)
  /\ rAckPending = d + One(answer # {})
  /\ rOutstanding = rAckPending + m /\ rOutstanding =< QUEUE_DEPTH
  /\ rState \in {"rIdle", "rBurst"}
  /\ rState = "rIdle" => p + 1 = First(c, g + 1) /\ rOutstanding = 0
  /\ rState = "rBurst" =>
       /\ g > 0
       /\ rId = id[g]
       /\ rAsked = {BurstOf(c, g, id)}
       /\ rBurst = [type |-> BurstOf(c, g, id).type, len |-> BurstOf(c, g, id).len]
       /\ First(c, g) =< p + 1
       /\ rRespCnt = First(c, g + 1) - p - 2 /\ rRespCnt >= 0
       /\ rAllReqsSent \in BOOLEAN
       /\ rAllReqsSent => p + rOutstanding + 1 = First(c, g + 1)
       /\ ~rAllReqsSent =>
            /\ rReqCnt = First(c, g + 1) - (p + rOutstanding) - 2 /\ rReqCnt >= 0
            /\ rAddr = 4 * WordNo(c, p + rOutstanding + 1)

WritesQuiet ==
  /\ wState = "wIdle" /\ wDataQueue = <<>> /\ wAckPending = 0
  /\ out.aw = {} /\ out.w = {} /\ ~split

ReadState(id, q, g, p, m, d) ==
  /\ q \in 0 .. NumPieces(call)
  /\ reqQ = Slice(ReadRequestsOf(call, id), q, NumPieces(call) - q)
  /\ respQ = Slice(ReadResponsesOf(call, id), p, WordsIn(call) - p)
  /\ out.ar = {} \/ (q > 0 /\ out.ar = {BurstOf(call, q, id)})
  /\ q = g + One(out.ar # {})
  /\ Reading(call, id, g, p, m, d)
  /\ WritesQuiet
  /\ respPending = One(rState = "rBurst")
  /\ Len(got) = Upto(call, p)

IdleState ==
  /\ ReadsQuiet /\ WritesQuiet
  /\ reqQ = <<>> /\ respQ = <<>> /\ due = <<>> /\ answer = {} /\ respPending = 0

TypeInv ==
  /\ store \in [0 .. NumWords - 1 -> Word]
  /\ got \in Seq(ByteValues)
  /\ IsMaster(out)
  /\ due \in Seq(SUBSET Word) /\ Len(due) =< MaxDue
  /\ lastGrant \in {"read", "write"}

TbInv ==
  /\ TypeInv
  /\ call = NoCall => IdleState
  /\ call # NoCall => call \in Calls
  /\ call.op = "write" =>
       \E id \in [1 .. NumPieces(call) -> Ids] :
       \E i, s \in 0 .. WordsIn(call), a, r \in 0 .. NumPieces(call), n \in 0 .. QUEUE_DEPTH :
         WriteState(id, i, a, r, s, n)
  /\ call.op = "read" =>
       \E id \in [1 .. NumPieces(call) -> Ids] :
       \E q, g \in 0 .. NumPieces(call), p \in 0 .. WordsIn(call), m, d \in 0 .. QUEUE_DEPTH :
         ReadState(id, q, g, p, m, d)

------------------------------------------------------------------------------
\* Parts of lists.

LEMMA Slices ==
  ASSUME NEW list, NEW a \in Int, NEW n \in Nat
  PROVE  /\ Len(Slice(list, a, n)) = n
         /\ Slice(list, a, n) = <<>> <=> n = 0
         /\ \A j \in 1 .. n : Slice(list, a, n)[j] = list[a + j]
         /\ n > 0 => /\ Head(Slice(list, a, n)) = list[a + 1]
                     /\ Tail(Slice(list, a, n)) = Slice(list, a + 1, n - 1)
         /\ \A v : v = list[a + n + 1] => Append(Slice(list, a, n), v) = Slice(list, a, n + 1)
<1> DEFINE s == Slice(list, a, n)
           U == {list[a + j] : j \in Nat}
<1>1. s = [j \in 1 .. n |-> s[j]] /\ \A j \in 1 .. n : s[j] = list[a + j] /\ s[j] \in U
  BY DEF Slice
<1> HIDE DEF s, U
<1>2. s \in Seq(U) /\ Len(s) = n
  <2>1. \A j \in 1 .. n : s[j] \in U
    BY <1>1
  <2> QED BY <1>1, <2>1, ListIn, Zenon
<1>3. s = <<>> <=> n = 0
  BY <1>2
<1>4. ASSUME n > 0 PROVE Head(s) = list[a + 1] /\ Tail(s) = Slice(list, a + 1, n - 1)
  <2>1. s # <<>> /\ Head(s) = s[1] /\ 1 \in 1 .. n
    BY <1>2, <1>3, <1>4
  <2>2. Tail(s) = [j \in 1 .. n - 1 |-> s[j + 1]]
    <3>1. Len(Tail(s)) = n - 1 /\ Tail(s) \in Seq(U) /\ \A j \in 1 .. n - 1 : Tail(s)[j] = s[j + 1]
      BY <1>2, <2>1, HeadTailProperties
    <3> DEFINE t == Tail(s)
               z == n - 1
    <3>2. t \in Seq(U) /\ Len(t) = z
      BY <3>1
    <3> HIDE DEF t, z
    <3>3. t = [j \in 1 .. z |-> t[j]]
      BY <3>2
    <3> QED BY <3>1, <3>3 DEF t, z
  <2>3. \A j \in 1 .. n - 1 : s[j + 1] = list[a + 1 + j]
    <3> TAKE j \in 1 .. n - 1
    <3>1. j + 1 \in 1 .. n /\ a + (j + 1) = a + 1 + j
      BY <1>4
    <3> QED BY <1>1, <3>1
  <2> QED BY <1>1, <2>1, <2>2, <2>3 DEF Slice
<1>5. ASSUME NEW v, v = list[a + n + 1] PROVE Append(s, v) = Slice(list, a, n + 1)
  <2>1. s \in Seq(U \union {v}) /\ v \in U \union {v}
    BY <1>2
  <2> DEFINE t == Append(s, v)
             V == U \union {v}
  <2> HIDE DEF V
  <2>2. /\ t \in Seq(V) /\ Len(t) = n + 1 /\ t[n + 1] = v
        /\ \A j \in 1 .. n : t[j] = s[j]
    BY <1>2, <2>1, AppendProperties DEF V
  <2> HIDE DEF t
  <2>3. t = [j \in 1 .. n + 1 |-> t[j]]
    BY <2>2
  <2>4. \A j \in 1 .. n + 1 : t[j] = list[a + j]
    <3> TAKE j \in 1 .. n + 1
    <3>1. CASE j = n + 1
      <4>1. a + j = a + n + 1
        BY <3>1
      <4> QED BY <1>5, <2>2, <3>1, <4>1
    <3>2. CASE j # n + 1
      <4>1. j \in 1 .. n
        BY <3>2
      <4> QED BY <1>1, <2>2, <4>1
    <3> QED BY <3>1, <3>2
  <2> QED BY <2>3, <2>4 DEF Slice, t
<1>6. \A j \in 1 .. n : s[j] = list[a + j]
  BY <1>1
<1> QED BY <1>2, <1>3, <1>4, <1>5, <1>6 DEF s

\* A list is the part of it that is all of it.
LEMMA WholeSlice ==
  ASSUME NEW n \in Nat, NEW list, list = [j \in 1 .. n |-> list[j]]
  PROVE  list = Slice(list, 0, n - 0)
<1>1. n - 0 = n /\ \A j \in 1 .. n : 0 + j = j
  OBVIOUS
<1>2. Slice(list, 0, n - 0) = [j \in 1 .. n |-> list[j]]
  BY <1>1 DEF Slice
<1> QED BY <1>2

LEMMA EmptySlice == ASSUME NEW list, NEW a PROVE Slice(list, a, 0) = <<>>
BY DEF Slice

------------------------------------------------------------------------------
\* A burst is of whole words.

LEMMA BurstIs ==
  ASSUME NEW c, IsBlock(c), NEW k \in 1 .. NumPieces(c), NEW id
  PROVE  LET b == BurstOf(c, k, id)
             p == Cut(c)[k]
         IN /\ b = [addr |-> Aligned(p.addr), type |-> IF p.chunk = 1 THEN FIXED ELSE INCR,
                    len |-> IF p.chunk = 1 THEN 0 ELSE (p.chunk \div 4) - 1, id |-> id[k]]
            /\ b.addr = 4 * WordNo(c, First(c, k)) /\ b.addr \in Addrs /\ b.addr % 4 = 0
            /\ b.type \in {FIXED, INCR}
            /\ b.len \in {0, 1, 3, 7} /\ b.len = First(c, k + 1) - First(c, k) - 1
            /\ b.type = FIXED => b.len = 0
            /\ b.id = id[k]
<1> DEFINE b == BurstOf(c, k, id)
           p == Cut(c)[k]
           f == First(c, k)
           n == BeatsIn(p)
<1>1. /\ p = PieceAt(c, p.from) /\ p.from \in 0 .. Len(c.data) - 1 /\ IsCut(c, p.from)
      /\ f = WordAt(c, p.from) /\ f \in 1 .. WordsIn(c) /\ n \in {1, 2, 4, 8}
      /\ First(c, k + 1) = f + n /\ WordsIn(c) \in Nat
  BY Pieces, WordsOfBlock
<1>2. Aligned(p.addr) = 4 * WordNo(c, f)
  BY <1>1, PieceAddr
<1>3. 4 * WordNo(c, f) \in Addrs /\ (4 * WordNo(c, f)) % 4 = 0
  BY <1>1, PlaceOfWord
<1>4. n = IF p.chunk = 1 THEN 1 ELSE p.chunk \div 4
  BY DEF BeatsIn
<1> HIDE DEF n, f, p
<1>5. First(c, k + 1) - f - 1 = n - 1 /\ n - 1 \in {0, 1, 3, 7}
      /\ n - 1 = (IF p.chunk = 1 THEN 0 ELSE (p.chunk \div 4) - 1)
  BY <1>1, <1>4
<1>6. b = [addr |-> 4 * WordNo(c, f), type |-> IF p.chunk = 1 THEN FIXED ELSE INCR, len |-> n - 1, id |-> id[k]]
  BY <1>5 DEF BurstOf, p, f
<1> HIDE DEF b
<1>7. p.chunk = 1 => n - 1 = 0
  BY <1>4
<1>8. b.addr = 4 * WordNo(c, f) /\ b.len = n - 1 /\ b.id = id[k] /\ b.type = IF p.chunk = 1 THEN FIXED ELSE INCR
  BY <1>6
<1>9. FIXED # INCR
  BY DEF FIXED, INCR
<1> QED BY <1>2, <1>3, <1>5, <1>6, <1>7, <1>8, <1>9 DEF b, p, f

LEMMA ReadRequestIs ==
  ASSUME NEW c, IsBlock(c), NEW k \in 1 .. NumPieces(c), NEW id
  PROVE  ReadRequest32(Cut(c)[k], id[k]) = ReadRequestOf(c, k, id)
<1> DEFINE p == Cut(c)[k]
           b == [addr |-> Aligned(p.addr), type |-> IF p.chunk = 1 THEN FIXED ELSE INCR,
                 len |-> IF p.chunk = 1 THEN 0 ELSE (p.chunk \div 4) - 1, id |-> id[k]]
<1>1. BurstOf(c, k, id) = b
  BY BurstIs
<1>2. ReadRequest32(p, id[k]) = [Quiet EXCEPT !.ar = {b}]
  BY Zenon DEF ReadRequest32
<1> QED BY <1>1, <1>2 DEF ReadRequestOf

------------------------------------------------------------------------------
\* The invariant holds at first and when a call begins or ends.

LEMMA CutDomain ==
  ASSUME NEW c, IsBlock(c)
  PROVE  DOMAIN Cut(c) = 1 .. NumPieces(c)
<1>1. Chain(c, Cut(c), 0)
  BY CutIsChain
<1>2. Cut(c) = [x \in 1 .. NumPieces(c) |-> PieceAt(c, Cut(c)[x].from)]
  BY <1>1 DEF Chain, NumPieces
<1> QED BY <1>2

LEMMA FirstFunction ==
  ASSUME NEW c, IsBlock(c)
  PROVE  LET n == NumPieces(c)
             F == [k \in 1 .. n + 1 |-> First(c, k)]
         IN /\ n \in Nat /\ F[1] = 1 /\ F[n + 1] - 1 = WordsIn(c)
            /\ \A k \in 1 .. n + 1 : F[k] \in Nat \ {0}
            /\ \A k \in 1 .. n : F[k] = First(c, k) /\ F[k + 1] = F[k] + BeatsIn(Cut(c)[k])
<1> DEFINE n == NumPieces(c)
           F == [k \in 1 .. n + 1 |-> First(c, k)]
<1>1. /\ n \in Nat \ {0} /\ WordsIn(c) \in Nat \ {0} /\ First(c, 1) = 1 /\ First(c, n + 1) = WordsIn(c) + 1
      /\ \A k \in 1 .. n : /\ First(c, k) \in 1 .. WordsIn(c)
                           /\ First(c, k + 1) = First(c, k) + BeatsIn(Cut(c)[k])
  BY Pieces, WordsOfBlock
<1> HIDE DEF n
<1>2. F[1] = 1 /\ F[n + 1] = WordsIn(c) + 1
  BY <1>1
<1>3. \A k \in 1 .. n + 1 : F[k] \in Nat \ {0}
  <2> TAKE k \in 1 .. n + 1
  <2>1. k = n + 1 \/ k \in 1 .. n
    BY <1>1
  <2> QED BY <1>1, <2>1
<1>4. \A k \in 1 .. n : F[k] = First(c, k) /\ F[k + 1] = F[k] + BeatsIn(Cut(c)[k])
  <2> TAKE k \in 1 .. n
  <2>1. k \in 1 .. n + 1 /\ k + 1 \in 1 .. n + 1
    BY <1>1
  <2> QED BY <1>1, <2>1
<1>5. F[n + 1] - 1 = WordsIn(c)
  BY <1>1, <1>2
<1> QED BY <1>1, <1>2, <1>3, <1>4, <1>5 DEF n

LEMMA WriteRequestsAre ==
  ASSUME NEW c \in Calls, c.op = "write", NEW id
  PROVE  Concat([k \in DOMAIN Cut(c) |-> WriteRequests(c, Cut(c)[k], id[k])]) = WriteRequestsOf(c, id)
<1> DEFINE n == NumPieces(c)
           s == [k \in DOMAIN Cut(c) |-> WriteRequests(c, Cut(c)[k], id[k])]
           T == WriteRequestsOf(c, id)
           F == [k \in 1 .. n + 1 |-> First(c, k)]
           R == {WriteRequestOf(c, i, id) : i \in 1 .. WordsIn(c)}
<1>1. IsBlock(c) /\ DOMAIN Cut(c) = 1 .. n
  BY CallsAreBlocks, CutDomain
<1>2. /\ n \in Nat /\ F[1] = 1 /\ F[n + 1] - 1 = WordsIn(c)
      /\ \A k \in 1 .. n + 1 : F[k] \in Nat \ {0}
      /\ \A k \in 1 .. n : F[k] = First(c, k) /\ F[k + 1] = F[k] + BeatsIn(Cut(c)[k])
  BY <1>1, FirstFunction
<1>3. s = [k \in 1 .. n |-> s[k]] /\ T = [i \in 1 .. F[n + 1] - 1 |-> T[i]]
      /\ \A k \in 1 .. n : s[k] = WriteRequests(c, Cut(c)[k], id[k])
  <2>1. s = [k \in 1 .. n |-> s[k]] /\ \A k \in 1 .. n : s[k] = WriteRequests(c, Cut(c)[k], id[k])
    BY <1>1
  <2>2. T = [i \in 1 .. WordsIn(c) |-> T[i]]
    BY DEF WriteRequestsOf
  <2> HIDE DEF F, s, T
  <2> QED BY <1>2, <2>1, <2>2
<1>4. ASSUME NEW k \in 1 .. n
      PROVE  /\ s[k] \in Seq(R)
             /\ F[k + 1] = F[k] + Len(s[k])
             /\ \A x \in 1 .. Len(s[k]) : s[k][x] = T[F[k] + (x - 1)]
  <2>1. /\ s[k] \in Seq(R) /\ Len(s[k]) = BeatsIn(Cut(c)[k])
        /\ \A x \in 1 .. BeatsIn(Cut(c)[k]) : s[k][x] = WriteRequestOf(c, First(c, k) + (x - 1), id)
    BY <1>3, WriteRequestsOfPiece
  <2>2. \A x \in 1 .. BeatsIn(Cut(c)[k]) : First(c, k) + (x - 1) \in 1 .. WordsIn(c)
    BY <1>1, PlaceInPiece
  <2>3. \A i \in 1 .. WordsIn(c) : T[i] = WriteRequestOf(c, i, id)
    BY DEF WriteRequestsOf
  <2>4. F[k] = First(c, k) /\ F[k + 1] = F[k] + BeatsIn(Cut(c)[k])
    BY <1>2
  <2> HIDE DEF F, s, T, R
  <2> QED BY <2>1, <2>2, <2>3, <2>4
<1> HIDE DEF n, F, s, T, R
<1>5. \A k \in 1 .. n : /\ s[k] \in Seq(R)
                        /\ F[k + 1] = F[k] + Len(s[k])
                        /\ \A x \in 1 .. Len(s[k]) : s[k][x] = T[F[k] + (x - 1)]
  BY <1>4
<1>6. n \in Nat /\ F[1] = 1 /\ \A k \in 1 .. n + 1 : F[k] \in Nat \ {0}
  BY <1>2
<1>7. s = [k \in 1 .. n |-> s[k]] /\ T = [i \in 1 .. F[n + 1] - 1 |-> T[i]]
  BY <1>3
<1>8. Lies(n, R, s, F, T)
  BY <1>5, <1>6, <1>7, Zenon DEF Lies
<1>9. Concat(s) = T
  BY <1>8, ConcatIs, Zenon
<1> QED BY <1>9 DEF s, T

LEMMA ReadResponsesAre ==
  ASSUME NEW c \in Calls, c.op = "read", NEW id
  PROVE  Concat([k \in DOMAIN Cut(c) |-> ReadResponses(Cut(c)[k], id[k])]) = ReadResponsesOf(c, id)
<1> DEFINE n == NumPieces(c)
           s == [k \in DOMAIN Cut(c) |-> ReadResponses(Cut(c)[k], id[k])]
           T == ReadResponsesOf(c, id)
           F == [k \in 1 .. n + 1 |-> First(c, k)]
           R == {ResponseOf(c, i, id) : i \in 1 .. WordsIn(c)}
<1>1. IsBlock(c) /\ DOMAIN Cut(c) = 1 .. n
  BY CallsAreBlocks, CutDomain
<1>2. /\ n \in Nat /\ F[1] = 1 /\ F[n + 1] - 1 = WordsIn(c)
      /\ \A k \in 1 .. n + 1 : F[k] \in Nat \ {0}
      /\ \A k \in 1 .. n : F[k] = First(c, k) /\ F[k + 1] = F[k] + BeatsIn(Cut(c)[k])
  BY <1>1, FirstFunction
<1>3. s = [k \in 1 .. n |-> s[k]] /\ T = [i \in 1 .. F[n + 1] - 1 |-> T[i]]
      /\ \A k \in 1 .. n : s[k] = ReadResponses(Cut(c)[k], id[k])
  <2>1. s = [k \in 1 .. n |-> s[k]] /\ \A k \in 1 .. n : s[k] = ReadResponses(Cut(c)[k], id[k])
    BY <1>1
  <2>2. T = [i \in 1 .. WordsIn(c) |-> T[i]]
    BY DEF ReadResponsesOf
  <2> HIDE DEF F, s, T
  <2> QED BY <1>2, <2>1, <2>2
<1>4. ASSUME NEW k \in 1 .. n
      PROVE  /\ s[k] \in Seq(R)
             /\ F[k + 1] = F[k] + Len(s[k])
             /\ \A x \in 1 .. Len(s[k]) : s[k][x] = T[F[k] + (x - 1)]
  <2>1. /\ s[k] \in Seq(R) /\ Len(s[k]) = BeatsIn(Cut(c)[k])
        /\ \A x \in 1 .. BeatsIn(Cut(c)[k]) : s[k][x] = ResponseOf(c, First(c, k) + (x - 1), id)
    BY <1>3, ReadResponsesOfPiece
  <2>2. \A x \in 1 .. BeatsIn(Cut(c)[k]) : First(c, k) + (x - 1) \in 1 .. WordsIn(c)
    BY <1>1, PlaceInPiece
  <2>3. \A i \in 1 .. WordsIn(c) : T[i] = ResponseOf(c, i, id)
    BY DEF ReadResponsesOf
  <2>4. F[k] = First(c, k) /\ F[k + 1] = F[k] + BeatsIn(Cut(c)[k])
    BY <1>2
  <2> HIDE DEF F, s, T, R
  <2> QED BY <2>1, <2>2, <2>3, <2>4
<1> HIDE DEF n, F, s, T, R
<1>5. \A k \in 1 .. n : /\ s[k] \in Seq(R)
                        /\ F[k + 1] = F[k] + Len(s[k])
                        /\ \A x \in 1 .. Len(s[k]) : s[k][x] = T[F[k] + (x - 1)]
  BY <1>4
<1>6. n \in Nat /\ F[1] = 1 /\ \A k \in 1 .. n + 1 : F[k] \in Nat \ {0}
  BY <1>2
<1>7. s = [k \in 1 .. n |-> s[k]] /\ T = [i \in 1 .. F[n + 1] - 1 |-> T[i]]
  BY <1>3
<1>8. Lies(n, R, s, F, T)
  BY <1>5, <1>6, <1>7, Zenon DEF Lies
<1>9. Concat(s) = T
  BY <1>8, ConcatIs, Zenon
<1> QED BY <1>9 DEF s, T

------------------------------------------------------------------------------
\* The invariant holds at first and when a call begins or ends.

LEMMA NoCallOp == NoCall.op = "idle"
BY DEF NoCall

LEMMA InitInv == TbInit => TbInv
<1> SUFFICES ASSUME TbInit PROVE TbInv
  OBVIOUS
<1> USE DEF TbInit
<1>1. call = NoCall /\ call.op = "idle"
  BY NoCallOp DEF DriverInit
<1>2. TypeInv
  <2>1. got \in Seq(ByteValues) /\ due \in Seq(SUBSET Word) /\ Len(due) = 0
    BY DEF DriverInit
  <2>2. IsMaster(out)
    BY DEF DriverInit, Quiet, IsMaster
  <2> QED BY <2>1, <2>2, DueAssumption DEF TypeInv, PmemInit
<1>3. IdleState
  BY DEF DriverInit, PmemInit, Quiet, IdleState, ReadsQuiet, WritesQuiet
<1> HIDE DEF TbInit
<1> QED BY <1>1, <1>2, <1>3, Zenon DEF TbInv

LEMMA BeginWriteInv ==
  ASSUME TbInv, NEW c \in Calls, TestCalls(c), c.op = "write"
  PROVE  TbInv'
<1>1. call = NoCall /\ IdleState /\ TypeInv
  BY Zenon DEF TestCalls, Begin, TbInv
<1>2. IsBlock(c) /\ c # NoCall /\ DOMAIN Cut(c) = 1 .. NumPieces(c)
  BY CallsAreBlocks, CutDomain
<1>3. BeginWrite(c)
  <2>1. ~BeginRead(c)
    BY DEF BeginRead
  <2> QED BY <2>1, Zenon DEF TestCalls, Begin
<1>4. PICK id \in [1 .. NumPieces(c) -> Ids] :
        /\ reqQ' = Concat([k \in DOMAIN Cut(c) |-> WriteRequests(c, Cut(c)[k], id[k])])
        /\ respQ' = [k \in 1 .. NumPieces(c) |-> [id |-> id[k]]]
  BY <1>2, <1>3 DEF BeginWrite
<1>5. reqQ' = Slice(WriteRequestsOf(c, id), 0, WordsIn(c) - 0)
  <2>1. WordsIn(c) \in Nat
    BY <1>2, WordsOfBlock
  <2>2. WriteRequestsOf(c, id) = [i \in 1 .. WordsIn(c) |-> WriteRequestsOf(c, id)[i]]
    BY DEF WriteRequestsOf
  <2> QED BY <1>4, <2>1, <2>2, WriteRequestsAre, WholeSlice
<1>6. respQ' = Slice(WriteResponsesOf(c, id), 0, NumPieces(c) - 0)
  <2>1. NumPieces(c) \in Nat
    BY <1>2, Pieces
  <2>2. WriteResponsesOf(c, id) = [k \in 1 .. NumPieces(c) |-> WriteResponsesOf(c, id)[k]]
    BY DEF WriteResponsesOf
  <2> QED BY <1>4, <2>1, <2>2, WholeSlice DEF WriteResponsesOf
<1>7. /\ call' = c /\ got' = <<>> /\ split' = FALSE /\ out' = out /\ respPending' = respPending
      /\ done' = 0
      /\ UNCHANGED <<pmemVars, rId, wId, store, due, answer, rAsked, wAsked>>
  BY DEF TestCalls, Begin
<1>8. TypeInv'
  <2>1. got' \in Seq(ByteValues)
    BY <1>7
  <2> QED BY <1>1, <1>7, <2>1 DEF TypeInv, pmemVars
<1>9. /\ 0 \in 0 .. WordsIn(c) /\ 0 \in 0 .. NumPieces(c) /\ 0 \in 0 .. QUEUE_DEPTH
      /\ Upto(c, 0) = 0 /\ First(c, 0) = 0 /\ First(c, 1) = 1
  <2>1. WordsIn(c) \in Nat /\ NumPieces(c) \in Nat
    BY <1>2, WordsOfBlock, Pieces
  <2> QED BY <1>2, <2>1, WordsOfBlock, Pieces DEF QUEUE_DEPTH
<1>10. /\ out.ar = {} /\ out.aw = {} /\ out.w = {}
       /\ rState = "rIdle" /\ rDataQ = <<>> /\ rAckPending = 0 /\ rOutstanding = 0
       /\ wState = "wIdle" /\ wDataQueue = <<>> /\ wAckPending = 0
       /\ due = <<>> /\ answer = {} /\ respPending = 0
  BY <1>1 DEF IdleState, ReadsQuiet, WritesQuiet
<1>11. WriteState(id, 0, 0, 0, 0, 0)'
  <2>1. Driven(c, id, out', split', 0, 0)
    <3>1. One(split') = 0 /\ out'.w = {} /\ out'.aw = {} /\ split' = FALSE /\ First(c, 0 + 1) = 1
      BY <1>7, <1>9, <1>10 DEF One
    <3>2. 0 + One(split') = 0
      BY <3>1
    <3>3. First(c, 0) =< 0 + One(split') /\ 0 + One(split') < First(c, 0 + 1)
      BY <1>9, <3>1, <3>2
    <3>4. split' \in BOOLEAN /\ ~split'
      BY <3>1
    <3> QED BY <1>9, <3>1, <3>3, <3>4, Zenon DEF Driven
  <2>2. Writing(c, id, 0, 0, 0)'
    BY <1>7, <1>9, <1>10, EmptySlice DEF Writing, pmemVars, readVars, writeVars
  <2>3. ReadsQuiet'
    BY <1>7, <1>10 DEF ReadsQuiet, pmemVars, readVars, writeVars
  <2>4. due' = [j \in 1 .. Len(due') |-> {}] /\ Len(due') = 0 /\ answer' = {}
    BY <1>7, <1>10
  <2> QED BY <1>5, <1>6, <1>7, <1>9, <1>10, <2>1, <2>2, <2>3, <2>4
        DEF WriteState, One, pmemVars, readVars, writeVars
<1>12. /\ c.op # "read"
       /\ \E j \in [1 .. NumPieces(c) -> Ids] :
          \E i, s \in 0 .. WordsIn(c), a, r \in 0 .. NumPieces(c), n \in 0 .. QUEUE_DEPTH :
            WriteState(j, i, a, r, s, n)'
  BY <1>9, <1>11, Zenon
<1> QED BY <1>2, <1>7, <1>8, <1>12 DEF TbInv

LEMMA BeginReadInv ==
  ASSUME TbInv, NEW c \in Calls, TestCalls(c), c.op = "read"
  PROVE  TbInv'
<1>1. call = NoCall /\ IdleState /\ TypeInv
  BY Zenon DEF TestCalls, Begin, TbInv
<1>2. IsBlock(c) /\ c # NoCall /\ DOMAIN Cut(c) = 1 .. NumPieces(c)
  BY CallsAreBlocks, CutDomain
<1>3. BeginRead(c)
  <2>1. ~BeginWrite(c)
    BY DEF BeginWrite
  <2> QED BY <2>1, Zenon DEF TestCalls, Begin
<1>4. PICK id \in [1 .. NumPieces(c) -> Ids] :
        /\ reqQ' = [k \in 1 .. NumPieces(c) |-> ReadRequest32(Cut(c)[k], id[k])]
        /\ respQ' = Concat([k \in DOMAIN Cut(c) |-> ReadResponses(Cut(c)[k], id[k])])
  BY <1>2, <1>3 DEF BeginRead
<1>5. respQ' = Slice(ReadResponsesOf(c, id), 0, WordsIn(c) - 0)
  <2>1. WordsIn(c) \in Nat
    BY <1>2, WordsOfBlock
  <2>2. ReadResponsesOf(c, id) = [i \in 1 .. WordsIn(c) |-> ReadResponsesOf(c, id)[i]]
    BY DEF ReadResponsesOf
  <2> QED BY <1>4, <2>1, <2>2, ReadResponsesAre, WholeSlice
<1>6. reqQ' = Slice(ReadRequestsOf(c, id), 0, NumPieces(c) - 0)
  <2>1. NumPieces(c) \in Nat
    BY <1>2, Pieces
  <2>2. ReadRequestsOf(c, id) = [k \in 1 .. NumPieces(c) |-> ReadRequestsOf(c, id)[k]]
    BY DEF ReadRequestsOf
  <2>3. ReadRequestsOf(c, id) = [k \in 1 .. NumPieces(c) |-> ReadRequest32(Cut(c)[k], id[k])]
    BY <1>2, ReadRequestIs DEF ReadRequestsOf
  <2> QED BY <1>4, <2>1, <2>2, <2>3, WholeSlice
<1>7. /\ call' = c /\ got' = <<>> /\ split' = FALSE /\ out' = out /\ respPending' = respPending
      /\ UNCHANGED <<pmemVars, rId, wId, store, due, answer, rAsked, wAsked>>
  BY DEF TestCalls, Begin
<1>8. TypeInv'
  <2>1. got' \in Seq(ByteValues)
    BY <1>7
  <2> QED BY <1>1, <1>7, <2>1 DEF TypeInv, pmemVars
<1>9. /\ 0 \in 0 .. WordsIn(c) /\ 0 \in 0 .. NumPieces(c) /\ 0 \in 0 .. QUEUE_DEPTH
      /\ Upto(c, 0) = 0 /\ First(c, 0) = 0 /\ First(c, 1) = 1
  <2>1. WordsIn(c) \in Nat /\ NumPieces(c) \in Nat
    BY <1>2, WordsOfBlock, Pieces
  <2> QED BY <1>2, <2>1, WordsOfBlock, Pieces DEF QUEUE_DEPTH
<1>10. /\ out.ar = {} /\ out.aw = {} /\ out.w = {} /\ ~split
       /\ rState = "rIdle" /\ rDataQ = <<>> /\ rAckPending = 0 /\ rOutstanding = 0
       /\ wState = "wIdle" /\ wDataQueue = <<>> /\ wAckPending = 0
       /\ due = <<>> /\ answer = {} /\ respPending = 0
  BY <1>1 DEF IdleState, ReadsQuiet, WritesQuiet
<1>11. ReadState(id, 0, 0, 0, 0, 0)'
  <2>1. Reading(c, id, 0, 0, 0, 0)'
    BY <1>7, <1>9, <1>10, EmptySlice DEF Reading, One, pmemVars, readVars, writeVars
  <2>2. WritesQuiet'
    BY <1>7, <1>10 DEF WritesQuiet, pmemVars, readVars, writeVars
  <2>3. Len(got') = 0
    BY <1>7
  <2> QED BY <1>5, <1>6, <1>7, <1>9, <1>10, <2>1, <2>2, <2>3
        DEF ReadState, One, pmemVars, readVars, writeVars
<1>12. /\ c.op # "write"
       /\ \E j \in [1 .. NumPieces(c) -> Ids] :
          \E q, g \in 0 .. NumPieces(c), p \in 0 .. WordsIn(c), m, d \in 0 .. QUEUE_DEPTH :
            ReadState(j, q, g, p, m, d)'
  BY <1>9, <1>11, Zenon
<1> QED BY <1>2, <1>7, <1>8, <1>12 DEF TbInv

------------------------------------------------------------------------------
\* A call that has its answers has left nothing behind.

LEMMA WriteOver ==
  ASSUME call \in Calls, call.op = "write", NEW id, NEW i, NEW a, NEW r, NEW s, NEW n,
         WriteState(id, i, a, r, s, n), ~Looping
  PROVE  IdleState /\ s = WordsIn(call)
<1> DEFINE W == WordsIn(call)
           K == NumPieces(call)
<1>1. IsBlock(call)
  BY CallsAreBlocks
<1>2. W \in Nat /\ K \in Nat
  BY <1>1, WordsOfBlock, Pieces
<1>3. i \in 0 .. W /\ a \in 0 .. K /\ r \in 0 .. K /\ s \in 0 .. W /\ n \in 0 .. 4
  BY DEF WriteState, Driven, Writing, QUEUE_DEPTH
<1>4. reqQ = <<>> /\ respQ = <<>>
  BY DEF Looping
<1>5. i = W /\ r = K
  <2>1. W - i \in Nat /\ K - r \in Nat /\ i \in Int /\ r \in Int
    BY <1>2, <1>3
  <2>2. W - i = 0 /\ K - r = 0
    <3>1. Slice(WriteRequestsOf(call, id), i, W - i) = <<>> /\ Slice(WriteResponsesOf(call, id), r, K - r) = <<>>
      BY <1>4 DEF WriteState
    <3> HIDE DEF W, K
    <3> QED BY <2>1, <3>1, Slices
  <2> QED BY <1>2, <1>3, <2>2
<1>6. wState = "wIdle" /\ s = W
  <2>1. wState = "wIdle"
    BY <1>2, <1>5 DEF WriteState, Writing
  <2>2. First(call, K + 1) = W + 1
    BY <1>1, Pieces
  <2>3. s + 1 = First(call, K + 1)
    BY <1>5, <2>1 DEF WriteState, Writing
  <2> QED BY <1>2, <1>3, <2>1, <2>2, <2>3
<1>7. n = 0 /\ out.w = {} /\ out.aw = {}
  <2>1. i = s + n + One(out.w # {}) /\ a = r + One(wState # "wIdle") + One(out.aw # {})
    BY DEF WriteState
  <2> HIDE DEF W, K
  <2> QED BY <1>2, <1>3, <1>5, <1>6, <2>1 DEF One
<1>8. wDataQueue = <<>>
  BY <1>7, EmptySlice DEF WriteState, Writing
<1>9. ~split
  <2>1. split \in BOOLEAN /\ i + One(split) < First(call, a + 1)
    BY DEF WriteState, Driven
  <2>2. a + 1 \in 0 .. K + 1
    BY <1>2, <1>3
  <2>3. First(call, a + 1) \in 0 .. W + 1
    BY <1>1, <2>2, Ordered
  <2> HIDE DEF W, K
  <2> QED BY <1>2, <1>5, <2>1, <2>3 DEF One
<1>10. wAckPending = 0 /\ Len(due) + One(answer # {}) = 0 /\ due = [j \in 1 .. Len(due) |-> {}] /\ ReadsQuiet /\ respPending = 0
  BY <1>6 DEF WriteState, One
<1>11. due = <<>> /\ answer = {}
  <2>1. Len(due) \in Nat
    <3>1. due \in Seq({{}}) \/ Len(due) \notin Nat
      BY <1>10
    <3>2. Len(due) = 0 \/ Len(due) + 1 = 0
      BY <1>10 DEF One
    <3> QED BY <1>10, <3>1, <3>2
  <2>2. Len(due) = 0 /\ answer = {}
    BY <1>10, <2>1 DEF One
  <2>3. due = <<>>
    BY <1>10, <2>2
  <2> QED BY <2>2, <2>3
<1> QED BY <1>4, <1>6, <1>7, <1>8, <1>9, <1>10, <1>11 DEF IdleState, WritesQuiet

LEMMA ReadOver ==
  ASSUME call \in Calls, call.op = "read", NEW id, NEW q, NEW g, NEW p, NEW m, NEW d,
         ReadState(id, q, g, p, m, d), ~Looping
  PROVE  IdleState /\ p = WordsIn(call)
<1> DEFINE W == WordsIn(call)
           K == NumPieces(call)
<1>1. IsBlock(call)
  BY CallsAreBlocks
<1>2. W \in Nat \ {0} /\ K \in Nat \ {0}
  BY <1>1, WordsOfBlock, Pieces
<1>3. q \in 0 .. K /\ g \in 0 .. K /\ p \in 0 .. W /\ m \in 0 .. 4 /\ d \in 0 .. 4
  BY DEF ReadState, Reading, QUEUE_DEPTH
<1>4. reqQ = <<>> /\ respQ = <<>>
  BY DEF Looping
<1>5. q = K /\ p = W
  <2>1. K - q \in Nat /\ W - p \in Nat /\ q \in Int /\ p \in Int
    BY <1>2, <1>3
  <2>2. K - q = 0 /\ W - p = 0
    <3>1. Slice(ReadRequestsOf(call, id), q, K - q) = <<>> /\ Slice(ReadResponsesOf(call, id), p, W - p) = <<>>
      BY <1>4 DEF ReadState
    <3> HIDE DEF W, K
    <3> QED BY <2>1, <3>1, Slices
  <2> QED BY <1>2, <1>3, <2>2
<1>6. rState = "rIdle"
  <2> SUFFICES ASSUME rState = "rBurst" PROVE FALSE
    BY DEF ReadState, Reading
  <2>1. g + 1 \in 0 .. K + 1 /\ rRespCnt = First(call, g + 1) - p - 2 /\ rRespCnt >= 0
    BY <1>2, <1>3 DEF ReadState, Reading
  <2>2. First(call, g + 1) \in 0 .. W + 1
    BY <1>1, <2>1, Ordered
  <2> HIDE DEF W, K
  <2> QED BY <1>2, <1>5, <2>1, <2>2
<1>7. g = K /\ out.ar = {}
  <2>1. p + 1 = First(call, g + 1)
    BY <1>6 DEF ReadState, Reading
  <2>2. First(call, K + 1) = W + 1
    BY <1>1, Pieces
  <2>3. g = K
    <3>1. g + 1 \in 0 .. K + 1 /\ K + 1 \in 0 .. K + 1
      BY <1>2, <1>3
    <3>2. g + 1 < K + 1 => First(call, g + 1) < First(call, K + 1)
      BY <1>1, <3>1, Ordered
    <3> HIDE DEF W, K
    <3> QED BY <1>2, <1>3, <1>5, <2>1, <2>2, <3>2
  <2>4. q = g + One(out.ar # {})
    BY DEF ReadState
  <2> HIDE DEF W, K
  <2> QED BY <1>2, <1>3, <1>5, <2>3, <2>4 DEF One
<1>8. rAckPending = 0 /\ m = 0 /\ d = 0 /\ answer = {} /\ rOutstanding = 0
  <2>1. rOutstanding = 0 /\ rOutstanding = rAckPending + m /\ rAckPending = d + One(answer # {})
    BY <1>6 DEF ReadState, Reading
  <2> QED BY <1>3, <2>1 DEF One
<1>9. rDataQ = <<>> /\ due = <<>>
  BY <1>8, EmptySlice DEF ReadState, Reading
<1>10. WritesQuiet /\ respPending = 0
  BY <1>6 DEF ReadState, One
<1> QED BY <1>4, <1>5, <1>6, <1>7, <1>8, <1>9, <1>10 DEF IdleState, ReadsQuiet

\* Outside its loops the driver sees a quiet front end and a quiet memory.
LEMMA NotLooping ==
  ASSUME TbInv, call = NoCall \/ ~Looping
  PROVE  IdleState
<1>1. CASE call = NoCall
  BY <1>1, Zenon DEF TbInv
<1>2. CASE call # NoCall /\ ~Looping
  <2>1. call \in Calls
    BY <1>2, Zenon DEF TbInv
  <2>2. call.op \in {"write", "read"}
    BY <2>1, CallsAreBlocks
  <2>3. CASE call.op = "write"
    <3>1. PICK id, i, a, r, s, n : WriteState(id, i, a, r, s, n)
      BY <2>3, Zenon DEF TbInv
    <3> QED BY <1>2, <2>1, <2>3, <3>1, WriteOver
  <2>4. CASE call.op = "read"
    <3>1. PICK id, q, g, p, m, d : ReadState(id, q, g, p, m, d)
      BY <2>4, Zenon DEF TbInv
    <3> QED BY <1>2, <2>1, <2>4, <3>1, ReadOver
  <2> QED BY <2>2, <2>3, <2>4
<1> QED BY <1>1, <1>2

LEMMA ReturnInv == ASSUME TbInv, CallReturns PROVE TbInv'
<1>1. IdleState /\ TypeInv
  BY NotLooping DEF CallReturns, Return, TbInv
<1>2. /\ call' = NoCall /\ call'.op = "idle"
      /\ UNCHANGED <<got, reqQ, respQ, split, out, respPending, pmemVars, store, due, answer>>
  BY NoCallOp DEF CallReturns, Return
<1>3. IdleState'
  BY <1>1, <1>2 DEF IdleState, ReadsQuiet, WritesQuiet, pmemVars, readVars, writeVars
<1>4. TypeInv'
  BY <1>1, <1>2 DEF TypeInv, pmemVars
<1> QED BY <1>2, <1>3, <1>4 DEF TbInv

------------------------------------------------------------------------------
\* An edge at which nothing is under way changes nothing.

LEMMA IdleEdge ==
  ASSUME TypeInv, IdleState, NEW accept \in BOOLEAN, Edge(accept)
  PROVE  UNCHANGED tbVars
<1>1. /\ out.ar = {} /\ out.aw = {} /\ out.w = {} /\ ~split
      /\ rState = "rIdle" /\ rDataQ = <<>> /\ rAckPending = 0 /\ rOutstanding = 0
      /\ wState = "wIdle" /\ wDataQueue = <<>> /\ wAckPending = 0
      /\ due = <<>> /\ answer = {} /\ respPending = 0
  BY DEF IdleState, ReadsQuiet, WritesQuiet
<1>2. grantRead = FALSE /\ grantWrite = FALSE
  BY <1>1 DEF grantRead, ReadAsks, rReqRam, grantWrite, WriteAsks, wReqRam
<1>3. accept = FALSE
  <2>1. ~Pending
    BY <1>2 DEF Pending, PortReq, ramWstrb
  <2>2. accept => Pending
    BY DEF Edge, MemoryEdge
  <2> QED BY <2>1, <2>2
<1>4. ~RFire(out) /\ ~ArFire(out) /\ ~AwFire(out) /\ ~WFire(out) /\ ~BFire(out) /\ ~ackToRead(answer # {}) /\ ~ackToWrite(answer # {})
  BY <1>1 DEF RFire, RValid, ArFire, AwFire, WFire, WReady, BFire, BValid, ackToRead, ackToWrite
<1>5. UNCHANGED pmemVars
  <2> DEFINE axi == out
             ack == answer # {}
             data == IF answer # {} THEN CHOOSE v \in answer : TRUE ELSE EmptyWord
  <2>0. PmemStep(axi, accept, ack, data)
    BY DEF Edge
  <2>1. ReadFsm(axi, accept) /\ WriteFsm(axi, accept) /\ ReadQueue(axi, ack, data) /\ WriteQueue(axi, accept)
        /\ Counters(axi, accept, ack) /\ Arbiter(accept)
    BY <2>0, Zenon DEF PmemStep
  <2>2. UNCHANGED readVars
    BY <1>1, <2>1 DEF ReadFsm, ReadIdle, ReadStart, ReadBurst
  <2>3. UNCHANGED writeVars
    BY <1>1, <2>1 DEF WriteFsm, WriteIdle, WriteStart, WriteBurst, WriteResp
  <2>4. UNCHANGED <<rDataQ, wDataQueue>>
    BY <1>2, <1>4, <2>1 DEF ReadQueue, WriteQueue
  <2>5. UNCHANGED <<rAckPending, wAckPending, rOutstanding>>
    BY <1>1, <1>2, <1>3, <1>4, <2>1 DEF Counters, One
  <2>6. UNCHANGED lastGrant
    BY <1>3, <2>1 DEF Arbiter
  <2> QED BY <2>2, <2>3, <2>4, <2>5, <2>6 DEF pmemVars
<1>6. UNCHANGED driverVars
  <2>1. ~Looping
    BY DEF IdleState, Looping
  <2> QED BY <2>1 DEF Edge, DriverEdge, WriteLoop, ReadLoop, NoLoop
<1>7. UNCHANGED <<store, due, answer>>
  <2>1. MemoryEdge(FALSE)
    BY <1>3 DEF Edge
  <2> QED BY <1>1, <2>1 DEF MemoryEdge
<1>8. UNCHANGED <<rId, wId, done, rAsked, wAsked>>
  BY <1>3, <1>4 DEF Edge, IdRegisters, Progress
<1> QED BY <1>5, <1>6, <1>7, <1>8 DEF tbVars

------------------------------------------------------------------------------
\* An edge in a write.

WriteEdge(accept, id, i, a, r, s, n) ==
  /\ call \in Calls /\ call.op = "write" /\ TypeInv
  /\ accept \in BOOLEAN
  /\ WriteState(id, i, a, r, s, n)
  /\ Looping
  /\ Edge(accept)

LEMMA WriteNumbers ==
  ASSUME NEW accept, NEW id, NEW i, NEW a, NEW r, NEW s, NEW n,
         WriteEdge(accept, id, i, a, r, s, n)
  PROVE  /\ IsBlock(call) /\ WordsIn(call) \in Nat \ {0} /\ NumPieces(call) \in Nat \ {0}
         /\ i \in 0 .. WordsIn(call) /\ s \in 0 .. WordsIn(call)
         /\ a \in 0 .. NumPieces(call) /\ r \in 0 .. NumPieces(call) /\ n \in 0 .. 4
         /\ Len(wDataQueue) = n /\ (wDataQueue = <<>> <=> n = 0)
         /\ Len(due) \in 0 .. MaxDue /\ MaxDue \in 1 .. 14
<1>1. IsBlock(call) /\ WordsIn(call) \in Nat \ {0} /\ NumPieces(call) \in Nat \ {0}
  BY CallsAreBlocks, WordsOfBlock, Pieces DEF WriteEdge
<1>2. /\ i \in 0 .. WordsIn(call) /\ s \in 0 .. WordsIn(call)
      /\ a \in 0 .. NumPieces(call) /\ r \in 0 .. NumPieces(call) /\ n \in 0 .. 4
  BY DEF WriteEdge, WriteState, Driven, Writing, QUEUE_DEPTH
<1>3. wDataQueue = Slice(BeatsOf(call), s, n)
  BY DEF WriteEdge, WriteState, Writing
<1>4. s \in Int /\ n \in Nat
  BY <1>1, <1>2
<1>5. Len(wDataQueue) = n /\ (wDataQueue = <<>> <=> n = 0)
  BY <1>3, <1>4, Slices
<1>6. Len(due) \in 0 .. MaxDue
  BY DueAssumption DEF WriteEdge, TypeInv
<1> QED BY <1>1, <1>2, <1>5, <1>6, DueAssumption

LEMMA WriteSignals ==
  ASSUME NEW accept, NEW id, NEW i, NEW a, NEW r, NEW s, NEW n,
         WriteEdge(accept, id, i, a, r, s, n)
  PROVE  /\ ~grantRead /\ ~ArFire(out) /\ ~RFire(out) /\ ~ackToRead(answer # {})
         /\ grantWrite <=> wState = "wBurst" /\ ~wAllReqsSent /\ n > 0
         /\ accept => grantWrite
         /\ ackToWrite(answer # {}) <=> answer # {}
<1>1. rState = "rIdle" /\ rAckPending = 0 /\ out.ar = {}
  BY DEF WriteEdge, WriteState, ReadsQuiet
<1>2. ~ReadAsks
  BY <1>1 DEF ReadAsks, rReqRam
<1>3. ~grantRead /\ ~ArFire(out) /\ ~RFire(out) /\ ~ackToRead(answer # {})
  BY <1>1, <1>2 DEF grantRead, ArFire, RFire, RValid, ackToRead
<1>4. grantWrite <=> wState = "wBurst" /\ ~wAllReqsSent /\ n > 0
  <2>1. wDataQueue = <<>> <=> n = 0
    BY WriteNumbers
  <2>2. n \in 0 .. 4
    BY WriteNumbers
  <2> QED BY <1>1, <1>2, <2>1, <2>2 DEF grantWrite, WriteAsks, wReqRam
<1>5. accept => grantWrite
  <2>1. accept => Pending
    BY DEF WriteEdge, Edge, MemoryEdge
  <2> QED BY <1>3, <2>1 DEF Pending, PortReq, ramWstrb
<1>6. ackToWrite(answer # {}) <=> answer # {}
  <2>1. wAckPending = Len(due) + One(answer # {})
    BY DEF WriteEdge, WriteState
  <2>2. Len(due) \in Nat
    BY WriteNumbers
  <2> QED BY <2>1, <2>2 DEF ackToWrite, One
<1> QED BY <1>3, <1>4, <1>5, <1>6

\* The parts of an edge.
LEMMA EdgeParts ==
  ASSUME NEW accept, Edge(accept)
  PROVE  /\ ReadFsm(out, accept) /\ WriteFsm(out, accept) /\ WriteQueue(out, accept) /\ Counters(out, accept, answer # {})
         /\ ReadQueue(out, answer # {}, IF answer # {} THEN CHOOSE v \in answer : TRUE ELSE EmptyWord)
         /\ Arbiter(accept)
         /\ IdRegisters(out) /\ Progress(accept) /\ MemoryEdge(accept) /\ DriverEdge(Slave)
         /\ rAsked' = (IF ArFire(out) THEN out.ar ELSE rAsked)
         /\ wAsked' = (IF AwFire(out) THEN out.aw ELSE wAsked)
BY Zenon DEF Edge, PmemStep

LEMMA WriteLeavesReads ==
  ASSUME NEW accept, NEW id, NEW i, NEW a, NEW r, NEW s, NEW n,
         WriteEdge(accept, id, i, a, r, s, n)
  PROVE  rState' = "rIdle" /\ rDataQ' = <<>> /\ rAckPending' = 0 /\ rOutstanding' = 0
<1>1. rState = "rIdle" /\ rAckPending = 0 /\ out.ar = {} /\ rDataQ = <<>> /\ rOutstanding = 0
  BY DEF WriteEdge, WriteState, ReadsQuiet
<1>2. ~grantRead /\ ~ArFire(out) /\ ~RFire(out) /\ ~ackToRead(answer # {})
  BY WriteSignals
<1>3. ReadFsm(out, accept) /\ Counters(out, accept, answer # {})
      /\ ReadQueue(out, answer # {}, IF answer # {} THEN CHOOSE v \in answer : TRUE ELSE EmptyWord)
  BY EdgeParts DEF WriteEdge
<1>4. rState' = "rIdle"
  BY <1>1, <1>3 DEF ReadFsm, ReadIdle, ReadStart, ReadBurst, readVars
<1>5. rDataQ' = <<>>
  BY <1>1, <1>2, <1>3 DEF ReadQueue
<1>6. rAckPending' = 0 /\ rOutstanding' = 0
  BY <1>1, <1>2, <1>3 DEF Counters, One
<1> QED BY <1>4, <1>5, <1>6

\* The memory owes an answer for every word accepted.
LEMMA NothingRead ==
  ASSUME NEW list, list \in Seq(SUBSET Word), list = [j \in 1 .. Len(list) |-> {}]
  PROVE  /\ LET l == Append(list, {})
            IN l \in Seq(SUBSET Word) /\ Len(l) = Len(list) + 1 /\ l = [j \in 1 .. Len(l) |-> {}]
         /\ list # <<>> => /\ Head(list) = {} /\ Len(list) > 0
                           /\ LET l == Tail(list)
                              IN l \in Seq(SUBSET Word) /\ Len(l) = Len(list) - 1 /\ l = [j \in 1 .. Len(l) |-> {}]
<1> DEFINE n == Len(list)
           U == SUBSET Word
<1>1. n \in Nat /\ list \in Seq(U) /\ \A j \in 1 .. n : list[j] = {}
  OBVIOUS
<1>2. {} \in U
  OBVIOUS
<1> HIDE DEF U
<1>3. LET l == Append(list, {})
      IN l \in Seq(U) /\ Len(l) = n + 1 /\ l = [j \in 1 .. Len(l) |-> {}]
  <2> DEFINE l == Append(list, {})
  <2>1. l \in Seq(U) /\ Len(l) = n + 1 /\ l[n + 1] = {} /\ \A j \in 1 .. n : l[j] = list[j]
    BY <1>1, <1>2, AppendProperties
  <2> HIDE DEF l, n
  <2>2. \A j \in 1 .. Len(l) : l[j] = {}
    <3> TAKE j \in 1 .. Len(l)
    <3>1. j = n + 1 \/ j \in 1 .. n
      BY <1>1, <2>1
    <3> QED BY <1>1, <2>1, <3>1
  <2>3. l = [j \in 1 .. Len(l) |-> {}]
    BY <2>1, <2>2
  <2> QED BY <2>1, <2>3 DEF l
<1>4. ASSUME list # <<>>
      PROVE  /\ Head(list) = {} /\ n > 0
             /\ LET l == Tail(list)
                IN l \in Seq(U) /\ Len(l) = n - 1 /\ l = [j \in 1 .. Len(l) |-> {}]
  <2> DEFINE l == Tail(list)
  <2>1. l \in Seq(U) /\ Len(l) = n - 1 /\ \A j \in 1 .. n - 1 : l[j] = list[j + 1]
    BY <1>1, <1>4, HeadTailProperties
  <2>2. n > 0 /\ Head(list) = {}
    BY <1>1, <1>4
  <2> HIDE DEF l, n
  <2>3. \A j \in 1 .. Len(l) : l[j] = {}
    <3> TAKE j \in 1 .. Len(l)
    <3>1. j + 1 \in 1 .. n
      BY <1>1, <2>1
    <3> QED BY <1>1, <2>1, <3>1
  <2>4. l = [j \in 1 .. Len(l) |-> {}]
    BY <2>1, <2>3
  <2> QED BY <2>1, <2>2, <2>4 DEF l
<1> QED BY <1>3, <1>4 DEF U

LEMMA WriteOwed ==
  ASSUME NEW accept, NEW id, NEW i, NEW a, NEW r, NEW s, NEW n,
         WriteEdge(accept, id, i, a, r, s, n)
  PROVE  /\ due' \in Seq(SUBSET Word) /\ Len(due') =< MaxDue
         /\ due' = [j \in 1 .. Len(due') |-> {}] /\ answer' \in {{}, {EmptyWord}}
         /\ wAckPending' = Len(due') + One(answer' # {})
         /\ wAckPending = 0 /\ ~accept => wAckPending' = 0
<1> DEFINE owing == IF ~accept THEN due ELSE Append(due, IF PortReq.rd THEN {store[PortReq.addr]} ELSE {})
<1>1. due \in Seq(SUBSET Word) /\ due = [j \in 1 .. Len(due) |-> {}] /\ answer \in {{}, {EmptyWord}}
      /\ wAckPending = Len(due) + One(answer # {})
  BY DEF WriteEdge, WriteState, TypeInv
<1>2. accept \in BOOLEAN /\ Len(due) \in 0 .. MaxDue /\ MaxDue \in 1 .. 14
  BY WriteNumbers DEF WriteEdge
<1>3. PortReq.rd = FALSE
  <2>1. grantRead = FALSE
    BY WriteSignals DEF grantRead
  <2> QED BY <2>1 DEF PortReq
<1>4. /\ accept => Len(due) < MaxDue
      /\ \/ answer' = {} /\ due' = owing
         \/ /\ owing # <<>>
            /\ answer' = IF Head(owing) = {} THEN {EmptyWord} ELSE Head(owing)
            /\ due' = Tail(owing)
  <2>1. MemoryEdge(accept)
    BY EdgeParts DEF WriteEdge
  <2> QED BY <2>1, Zenon DEF MemoryEdge
<1>5. owing \in Seq(SUBSET Word) /\ Len(owing) = Len(due) + One(accept) /\ owing = [j \in 1 .. Len(owing) |-> {}]
  <2>1. CASE ~accept
    <3>1. owing = due
      BY <2>1
    <3>2. Len(due) + One(accept) = Len(due)
      BY <1>2, <2>1 DEF One
    <3> HIDE DEF owing
    <3> QED BY <1>1, <3>1, <3>2, Zenon
  <2>2. CASE accept
    <3>1. owing = Append(due, {})
      BY <1>3, <2>2
    <3> HIDE DEF owing
    <3>2. Append(due, {}) \in Seq(SUBSET Word) /\ Len(Append(due, {})) = Len(due) + 1
          /\ Append(due, {}) = [j \in 1 .. Len(Append(due, {})) |-> {}]
      BY <1>1, NothingRead
    <3> QED BY <2>2, <3>1, <3>2 DEF One
  <2> QED BY <1>2, <2>1, <2>2
<1> HIDE DEF owing
<1>6. /\ due' \in Seq(SUBSET Word) /\ due' = [j \in 1 .. Len(due') |-> {}] /\ answer' \in {{}, {EmptyWord}}
      /\ Len(owing) = Len(due') + One(answer' # {}) /\ Len(due') \in Nat
  <2>1. CASE answer' = {} /\ due' = owing
    <3>1. One(answer' # {}) = 0 /\ Len(owing) \in Nat
      BY <1>5, <2>1 DEF One
    <3> QED BY <1>5, <2>1, <3>1
  <2>2. CASE owing # <<>> /\ answer' = (IF Head(owing) = {} THEN {EmptyWord} ELSE Head(owing)) /\ due' = Tail(owing)
    <3> DEFINE l == Tail(owing)
    <3>1. Head(owing) = {} /\ Len(owing) > 0 /\ l \in Seq(SUBSET Word) /\ Len(l) = Len(owing) - 1
          /\ l = [j \in 1 .. Len(l) |-> {}]
      BY <1>5, <2>2, NothingRead
    <3>2. answer' = {EmptyWord} /\ due' = l /\ One(answer' # {}) = 1 /\ Len(owing) \in Nat
      BY <1>5, <2>2, <3>1 DEF One
    <3> HIDE DEF l
    <3> QED BY <3>1, <3>2
  <2> QED BY <1>4, <2>1, <2>2
<1>o. One(accept) \in {0, 1} /\ One(answer # {}) \in {0, 1} /\ One(answer' # {}) \in {0, 1} /\ (~accept => One(accept) = 0)
      /\ (accept => One(accept) = 1)
  BY DEF One
<1> DEFINE z == Len(owing)
           y == Len(due)
           x == Len(due')
<1>z. y \in 0 .. MaxDue /\ z = y + One(accept) /\ z = x + One(answer' # {}) /\ x \in Nat
      /\ wAckPending = y + One(answer # {}) /\ (accept => y < MaxDue)
  BY <1>1, <1>2, <1>4, <1>5, <1>6
<1> HIDE DEF x, y, z
<1>7. x =< MaxDue
  BY <1>2, <1>z, <1>o
<1>8. wAckPending' = z
  <2>1. wAckPending' = (wAckPending + One(grantWrite /\ accept) - One(ackToWrite(answer # {}))) % 16
    BY EdgeParts DEF WriteEdge, Counters
  <2>2. (grantWrite /\ accept) <=> accept
    BY WriteSignals
  <2>3. One(grantWrite /\ accept) = One(accept) /\ One(ackToWrite(answer # {})) = One(answer # {})
    BY <2>2, WriteSignals DEF One
  <2>4. wAckPending + One(grantWrite /\ accept) - One(ackToWrite(answer # {})) = z
    BY <1>2, <1>z, <1>o, <2>3
  <2>5. z \in 0 .. 15
    <3>1. y \in 0 .. 14
      BY <1>2, <1>z
    <3>2. z = y \/ z = y + 1
      BY <1>z, <1>o, <3>1
    <3> QED BY <3>1, <3>2
  <2>6. z % 16 = z
    BY <2>5
  <2> QED BY <2>1, <2>4, <2>6
<1>9. wAckPending = 0 /\ ~accept => z = 0
  BY <1>2, <1>z, <1>o
<1> QED BY <1>6, <1>7, <1>8, <1>9, <1>z DEF x

\* A word is accepted from the burst under way.
LEMMA WordAccepted ==
  ASSUME NEW accept, NEW id, NEW i, NEW a, NEW r, NEW s, NEW n,
         WriteEdge(accept, id, i, a, r, s, n)
  PROVE  /\ accept => /\ s + 1 \in 1 .. WordsIn(call) /\ n > 0 /\ wState = "wBurst" /\ ~wAllReqsSent
                      /\ Head(wDataQueue) = BeatOf(call, s + 1)
         /\ wState # "wIdle" => r + 1 \in 1 .. NumPieces(call)
<1> DEFINE W == WordsIn(call)
           K == NumPieces(call)
<1>1. /\ W \in Nat /\ K \in Nat /\ s \in 0 .. W /\ r \in 0 .. K /\ n \in 0 .. 4 /\ IsBlock(call)
  BY WriteNumbers
<1>2. Writing(call, id, r, s, n)
  BY DEF WriteEdge, WriteState
<1>3. ASSUME wState # "wIdle" PROVE r + 1 \in 1 .. K
  BY <1>1, <1>2, <1>3 DEF Writing
<1>4. ASSUME accept
      PROVE  /\ s + 1 \in 1 .. W /\ n > 0 /\ wState = "wBurst" /\ ~wAllReqsSent
             /\ Head(wDataQueue) = BeatOf(call, s + 1)
  <2>1. n > 0 /\ wState = "wBurst" /\ ~wAllReqsSent
    BY <1>4, WriteSignals
  <2>2. wReqCnt = First(call, r + 2) - s - 2 /\ wReqCnt >= 0 /\ r + 1 =< K
    BY <1>2, <2>1 DEF Writing
  <2>3. First(call, r + 2) \in 0 .. W + 1
    <3>1. r + 2 \in 0 .. K + 1
      BY <1>1, <2>2
    <3> QED BY <1>1, <3>1, Ordered
  <2>4. s + 1 \in 1 .. W
    <3> HIDE DEF W, K
    <3> QED BY <1>1, <2>2, <2>3
  <2>5. wDataQueue = Slice(BeatsOf(call), s, n)
    BY <1>2 DEF Writing
  <2>6. Head(wDataQueue) = BeatsOf(call)[s + 1]
    <3>1. s \in Int /\ n \in Nat
      BY <1>1
    <3> QED BY <2>1, <2>5, <3>1, Slices
  <2>7. BeatsOf(call)[s + 1] = BeatOf(call, s + 1)
    BY <2>4 DEF BeatsOf
  <2> QED BY <2>1, <2>4, <2>6, <2>7
<1> QED BY <1>3, <1>4

LEMMA WriteQueueNext ==
  ASSUME NEW accept, NEW id, NEW i, NEW a, NEW r, NEW s, NEW n,
         WriteEdge(accept, id, i, a, r, s, n)
  PROVE  /\ s + One(accept) \in 0 .. WordsIn(call)
         /\ n + One(WFire(out)) - One(accept) \in 0 .. 4
         /\ wDataQueue' = Slice(BeatsOf(call), s + One(accept), n + One(WFire(out)) - One(accept))
<1> DEFINE L == BeatsOf(call)
           W == WordsIn(call)
           kept == IF grantWrite /\ accept THEN Tail(wDataQueue) ELSE wDataQueue
           s2 == s + One(accept)
           k == n - One(accept)
<1>1. /\ W \in Nat /\ s \in 0 .. W /\ n \in 0 .. 4 /\ i \in 0 .. W
      /\ Len(wDataQueue) = n /\ accept \in BOOLEAN
  BY WriteNumbers DEF WriteEdge
<1>2. /\ wDataQueue = Slice(L, s, n) /\ i = s + n + One(out.w # {})
      /\ out.w = {} \/ (i > 0 /\ out.w = {BeatOf(call, i)})
  BY DEF WriteEdge, WriteState, Writing, Driven
<1>3. IF WFire(out) THEN \E beat \in out.w : wDataQueue' = Append(kept, beat)
                    ELSE wDataQueue' = kept
  <2>1. WriteQueue(out, accept)
    BY EdgeParts DEF WriteEdge
  <2> QED BY <2>1, Zenon DEF WriteQueue
<1>4. One(accept) = (IF accept THEN 1 ELSE 0) /\ (accept => s + 1 \in 1 .. W /\ n > 0)
  BY WordAccepted DEF One
<1>5. s2 \in 0 .. W /\ k \in Nat /\ s2 + k = s + n /\ k =< n
  <2> HIDE DEF W
  <2> QED BY <1>1, <1>4
<1>6. kept = Slice(L, s2, k)
  <2>1. CASE accept
    <3>1. kept = Tail(wDataQueue)
      BY <2>1, WriteSignals
    <3>2. s2 = s + 1 /\ k = n - 1 /\ n > 0 /\ s \in Int /\ n \in Nat
      BY <1>1, <1>4, <2>1
    <3>3. Tail(Slice(L, s, n)) = Slice(L, s + 1, n - 1)
      BY <3>2, Slices
    <3> QED BY <1>2, <3>1, <3>2, <3>3
  <2>2. CASE ~accept
    <3>1. kept = wDataQueue /\ s2 = s /\ k = n
      BY <1>1, <1>4, <2>2
    <3> QED BY <1>2, <3>1
  <2> QED BY <2>1, <2>2
<1> HIDE DEF kept
<1>7. CASE ~WFire(out)
  <2>1. One(WFire(out)) = 0
    BY <1>7 DEF One
  <2>2. n + One(WFire(out)) - One(accept) = k
    BY <1>1, <1>4, <2>1
  <2>3. k \in 0 .. 4
    BY <1>1, <1>5
  <2> HIDE DEF k, s2, W, L
  <2>4. wDataQueue' = Slice(L, s2, k)
    BY <1>3, <1>6, <1>7
  <2> QED BY <1>5, <2>2, <2>3, <2>4 DEF s2, W, L
<1>8. CASE WFire(out)
  <2>1. One(WFire(out)) = 1
    BY <1>8 DEF One
  <2>2. n < 4 /\ out.w # {}
    BY <1>1, <1>8 DEF WFire, WReady, QUEUE_DEPTH
  <2>3. i = s + n + 1 /\ out.w = {BeatOf(call, i)} /\ i \in 1 .. W
    BY <1>1, <1>2, <2>2 DEF One
  <2>4. n + One(WFire(out)) - One(accept) = k + 1 /\ k + 1 \in 0 .. 4
    BY <1>1, <1>4, <1>5, <2>1, <2>2
  <2>5. wDataQueue' = Append(kept, BeatOf(call, i))
    BY <1>3, <1>8, <2>3
  <2>6. BeatOf(call, i) = L[i] /\ i = s2 + k + 1
    <3>1. BeatOf(call, i) = L[i]
      BY <2>3 DEF BeatsOf
    <3>2. i = s2 + k + 1
      <4> HIDE DEF s2, k, W
      <4> QED BY <1>1, <1>5, <2>3
    <3> QED BY <3>1, <3>2
  <2> HIDE DEF k, s2, W, L
  <2>7. Append(Slice(L, s2, k), BeatOf(call, i)) = Slice(L, s2, k + 1)
    <3>1. s2 \in Int
      BY <1>1, <1>5
    <3>2. \A v : v = L[s2 + k + 1] => Append(Slice(L, s2, k), v) = Slice(L, s2, k + 1)
      BY <1>5, <3>1, Slices
    <3> QED BY <2>6, <3>2
  <2> QED BY <1>5, <1>6, <2>4, <2>5, <2>7 DEF s2, W, L
<1> QED BY <1>7, <1>8

\* A word behind the first of a burst is at the next address.
LEMMA WriteAddrNext ==
  ASSUME NEW c, IsBlock(c), NEW k \in 1 .. NumPieces(c), NEW id, NEW j \in Nat,
         First(c, k) =< j, j + 1 < First(c, k + 1)
  PROVE  NextAddr(4 * WordNo(c, j), BurstOf(c, k, id).type, BurstOf(c, k, id).len) = 4 * WordNo(c, j + 1)
<1> DEFINE b == BurstOf(c, k, id)
           W == WordsIn(c)
<1>1. /\ First(c, k) \in 1 .. W /\ First(c, k + 1) \in 0 .. W + 1 /\ W \in Nat
  <2>1. NumPieces(c) \in Nat /\ k + 1 \in 0 .. NumPieces(c) + 1
    BY Pieces
  <2> QED BY <2>1, Pieces, Ordered, WordsOfBlock
<1>2. b.type \in {FIXED, INCR} /\ (b.type = FIXED => b.len = 0) /\ b.len = First(c, k + 1) - First(c, k) - 1
  BY BurstIs
<1>3. j \in 1 .. W /\ b.len # 0
  <2> HIDE DEF b, W
  <2> QED BY <1>1, <1>2
<1>4. b.type = INCR
  BY <1>2, <1>3
<1>5. NextAddr(4 * WordNo(c, j), b.type, b.len) = AddrPlus4(4 * WordNo(c, j))
  <2> HIDE DEF b
  <2> QED BY <1>4 DEF NextAddr, FIXED, INCR, WRAP
<1>6. AddrPlus4(4 * WordNo(c, j)) = 4 * WordNo(c, j + 1)
  BY <1>3, PlaceOfWord
<1> QED BY <1>5, <1>6

LEMMA WriteLoops ==
  ASSUME NEW accept, NEW id, NEW i, NEW a, NEW r, NEW s, NEW n,
         WriteEdge(accept, id, i, a, r, s, n)
  PROVE  WriteLoop(Slave) /\ call' = call /\ got' = got
<1>1. DriverEdge(Slave) /\ call.op = "write" /\ Looping
  BY EdgeParts DEF WriteEdge
<1>2. WriteLoop(Slave)
  BY <1>1, Zenon DEF DriverEdge, ReadLoop, NoLoop
<1> QED BY <1>2 DEF WriteLoop

\* What Writing says of the state machine, after an edge.
WriteFsmNext(id, r, s) ==
  /\ wState' \in {"wIdle", "wBurst", "wResp"}
  /\ wState' = "wIdle" => s + 1 = First(call, r + 1)
  /\ wState' # "wIdle" =>
       /\ r + 1 =< NumPieces(call)
       /\ wId' = id[r + 1]
       /\ wAsked' = {BurstOf(call, r + 1, id)}
       /\ wBurst' = [type |-> BurstOf(call, r + 1, id).type, len |-> BurstOf(call, r + 1, id).len]
       /\ wAllReqsSent' \in BOOLEAN
       /\ wState' = "wResp" => wAllReqsSent'
       /\ wAllReqsSent' => s + 1 = First(call, r + 2)
       /\ ~wAllReqsSent' => /\ First(call, r + 1) =< s + 1
                            /\ wReqCnt' = First(call, r + 2) - s - 2 /\ wReqCnt' >= 0
                            /\ wAddr' = 4 * WordNo(call, s + 1)

LEMMA WriteStarts ==
  ASSUME NEW accept, NEW id, NEW i, NEW a, NEW r, NEW s, NEW n,
         WriteEdge(accept, id, i, a, r, s, n), wState = "wIdle"
  PROVE  /\ IF out.aw = {} THEN wState' = "wIdle" ELSE wState' = "wBurst"
         /\ WriteFsmNext(id, r, s) /\ ~accept /\ ~BFire(out) /\ (AwFire(out) <=> out.aw # {})
<1>1. /\ IsBlock(call) /\ NumPieces(call) \in Nat /\ r \in 0 .. NumPieces(call) /\ a \in 0 .. NumPieces(call)
      /\ s \in 0 .. WordsIn(call) /\ WordsIn(call) \in Nat
  BY WriteNumbers
<1>2. ~accept /\ ~BFire(out) /\ (AwFire(out) <=> out.aw # {})
  BY WordAccepted DEF BFire, BValid, AwFire
<1>3. WriteFsm(out, accept) /\ IdRegisters(out) /\ wAsked' = IF AwFire(out) THEN out.aw ELSE wAsked
  BY EdgeParts DEF WriteEdge
<1>4. s + 1 = First(call, r + 1)
  BY DEF WriteEdge, WriteState, Writing
<1>5. CASE out.aw = {}
  <2>1. wState' = "wIdle"
    BY <1>3, <1>5 DEF WriteFsm, WriteIdle, WriteStart, WriteBurst, WriteResp, writeVars
  <2> QED BY <1>2, <1>4, <1>5, <2>1 DEF WriteFsmNext
<1>6. CASE out.aw # {}
  <2> DEFINE b == BurstOf(call, a, id)
  <2>1. out.aw = {b} /\ a = r + 1
    <3>1. a = r + One(wState # "wIdle") + One(out.aw # {}) /\ (out.aw = {} \/ out.aw = {b})
      BY DEF WriteEdge, WriteState, Driven
    <3>2. One(wState # "wIdle") = 0 /\ One(out.aw # {}) = 1
      BY <1>6 DEF One
    <3> HIDE DEF b
    <3> QED BY <1>1, <1>6, <3>1, <3>2
  <2>2. /\ b.addr = 4 * WordNo(call, First(call, a)) /\ b.len = First(call, a + 1) - First(call, a) - 1 /\ b.id = id[a]
        /\ b.len \in {0, 1, 3, 7}
    <3>1. a \in 1 .. NumPieces(call)
      BY <1>1, <2>1
    <3> QED BY <1>1, <3>1, BurstIs
  <2> HIDE DEF b
  <2>3. /\ wState' = "wBurst" /\ wAddr' = b.addr /\ wBurst' = [type |-> b.type, len |-> b.len]
        /\ wReqCnt' = b.len /\ wAllReqsSent' = FALSE
    BY <1>3, <1>6, <2>1 DEF WriteFsm, WriteIdle, WriteStart, WriteBurst, WriteResp
  <2>4. wId' = b.id /\ wAsked' = {b}
    BY <1>2, <1>3, <1>6, <2>1 DEF IdRegisters
  <2>5. r + 1 =< NumPieces(call)
    BY <1>1, <2>1
  <2>6. a + 1 = r + 2 /\ r + 1 = a /\ First(call, r + 2) \in 0 .. WordsIn(call) + 1
    <3>1. a + 1 \in 0 .. NumPieces(call) + 1 /\ a + 1 = r + 2
      BY <1>1, <2>1
    <3> QED BY <1>1, <2>1, <3>1, Ordered
  <2>7. wReqCnt' = First(call, r + 2) - s - 2 /\ wReqCnt' >= 0
    BY <1>1, <1>4, <2>2, <2>3, <2>6
  <2>8. First(call, r + 1) =< s + 1 /\ wAddr' = 4 * WordNo(call, s + 1)
    <3>1. s + 1 =< s + 1
      BY <1>1
    <3> QED BY <1>4, <2>2, <2>3, <2>6, <3>1
  <2>9. WriteFsmNext(id, r, s)
    <3>1. wId' = id[r + 1] /\ wAsked' = {BurstOf(call, r + 1, id)}
          /\ wBurst' = [type |-> BurstOf(call, r + 1, id).type, len |-> BurstOf(call, r + 1, id).len]
      BY <2>2, <2>3, <2>4, <2>6 DEF b
    <3> QED BY <2>3, <2>5, <2>7, <2>8, <3>1 DEF WriteFsmNext
  <2> QED BY <1>2, <1>6, <2>3, <2>9
<1> QED BY <1>5, <1>6

LEMMA WriteGoesOn ==
  ASSUME NEW accept, NEW id, NEW i, NEW a, NEW r, NEW s, NEW n, NEW s2,
         WriteEdge(accept, id, i, a, r, s, n), wState = "wBurst", s2 = s + One(accept)
  PROVE  /\ wState' = IF wAllReqsSent /\ wAckPending = 0 THEN "wResp" ELSE "wBurst"
         /\ WriteFsmNext(id, r, s2) /\ ~BFire(out) /\ ~AwFire(out)
         /\ wState' = "wResp" => wAckPending = 0 /\ ~accept
<1> DEFINE b == BurstOf(call, r + 1, id)
           F(k) == First(call, k)
           W == WordsIn(call)
<1>1. /\ IsBlock(call) /\ NumPieces(call) \in Nat /\ r + 1 \in 1 .. NumPieces(call) /\ r \in 0 .. NumPieces(call)
      /\ s \in 0 .. W /\ W \in Nat /\ accept \in BOOLEAN
      /\ accept => s + 1 \in 1 .. W /\ ~wAllReqsSent
  BY WriteNumbers, WordAccepted DEF WriteEdge
<1>2. ~BFire(out) /\ ~AwFire(out)
  BY DEF BFire, BValid, AwFire
<1>3. /\ WriteRequest(accept)
      /\ wState' = (IF wAllReqsSent /\ wAckPending = 0 THEN "wResp" ELSE "wBurst")
      /\ wBurst' = wBurst
  <2>1. WriteFsm(out, accept)
    BY EdgeParts DEF WriteEdge
  <2> QED BY <2>1 DEF WriteFsm, WriteIdle, WriteStart, WriteBurst, WriteResp
<1>4. wId' = wId /\ wAsked' = wAsked
  <2>1. IdRegisters(out) /\ wAsked' = IF AwFire(out) THEN out.aw ELSE wAsked
    BY EdgeParts DEF WriteEdge
  <2> QED BY <1>2, <2>1 DEF IdRegisters
<1>5. /\ r + 1 =< NumPieces(call)
      /\ wId = id[r + 1] /\ wAsked = {b} /\ wBurst = [type |-> b.type, len |-> b.len]
      /\ wAllReqsSent \in BOOLEAN
      /\ wAllReqsSent => s + 1 = F(r + 2)
      /\ ~wAllReqsSent => /\ F(r + 1) =< s + 1
                          /\ wReqCnt = F(r + 2) - s - 2 /\ wReqCnt >= 0
                          /\ wAddr = 4 * WordNo(call, s + 1)
  BY DEF WriteEdge, WriteState, Writing
<1>6. F(r + 1) \in 0 .. W + 1 /\ F(r + 2) \in 0 .. W + 1
  <2>1. r + 1 \in 0 .. NumPieces(call) + 1 /\ r + 2 \in 0 .. NumPieces(call) + 1
    BY <1>1
  <2> QED BY <1>1, <2>1, Ordered
<1>7. (grantWrite /\ accept) <=> accept
  BY WriteSignals
<1>8. /\ wAllReqsSent' \in BOOLEAN
      /\ wState' = "wResp" => wAllReqsSent'
      /\ wAllReqsSent' => s2 + 1 = F(r + 2)
      /\ ~wAllReqsSent' => /\ F(r + 1) =< s2 + 1
                           /\ wReqCnt' = F(r + 2) - s2 - 2 /\ wReqCnt' >= 0
                           /\ wAddr' = 4 * WordNo(call, s2 + 1)
  <2>1. CASE ~accept
    <3>1. wAllReqsSent' = wAllReqsSent /\ wReqCnt' = wReqCnt /\ wAddr' = wAddr
      BY <1>3, <1>7, <2>1 DEF WriteRequest
    <3>2. s2 = s
      BY <1>1, <2>1 DEF One
    <3> HIDE DEF F, W
    <3> QED BY <1>3, <1>5, <3>1, <3>2
  <2>2. CASE accept /\ wReqCnt = 0
    <3>1. wAllReqsSent' = TRUE
      BY <1>3, <1>7, <2>2 DEF WriteRequest
    <3>2. s2 = s + 1 /\ wReqCnt = F(r + 2) - s - 2
      BY <1>1, <1>5, <2>2 DEF One
    <3> DEFINE x == F(r + 2)
    <3>3. x \in Int /\ s \in Int /\ 0 = x - s - 2
      BY <1>1, <1>6, <2>2, <3>2
    <3> HIDE DEF x
    <3>4. s2 + 1 = x
      BY <3>2, <3>3
    <3> QED BY <3>1, <3>4 DEF x
  <2>3. CASE accept /\ wReqCnt # 0
    <3>1. ~wAllReqsSent /\ s2 = s + 1 /\ wReqCnt = F(r + 2) - s - 2 /\ wReqCnt > 0 /\ F(r + 1) =< s + 1
          /\ wAddr = 4 * WordNo(call, s + 1)
      <4>1. ~wAllReqsSent /\ s2 = s + 1
        BY <1>1, <2>3 DEF One
      <4>2. wReqCnt = F(r + 2) - s - 2 /\ wReqCnt >= 0 /\ F(r + 1) =< s + 1 /\ wAddr = 4 * WordNo(call, s + 1)
        BY <1>5, <4>1
      <4> DEFINE x == F(r + 2)
                 y == wReqCnt
      <4>3. x \in Int /\ s \in Int /\ y = x - s - 2 /\ y >= 0 /\ y # 0
        BY <1>1, <1>6, <2>3, <4>2
      <4> HIDE DEF x, y
      <4>4. y > 0
        BY <4>3
      <4> QED BY <4>1, <4>2, <4>4 DEF y
    <3>2. wAllReqsSent' = wAllReqsSent /\ wReqCnt' = wReqCnt - 1 /\ wAddr' = NextAddr(wAddr, wBurst.type, wBurst.len)
      BY <1>3, <1>7, <2>3, <3>1 DEF WriteRequest
    <3>3. wBurst.type = b.type /\ wBurst.len = b.len
      BY <1>5
    <3>4. NextAddr(4 * WordNo(call, s + 1), b.type, b.len) = 4 * WordNo(call, (s + 1) + 1)
      <4> DEFINE k == r + 1
                 j == s + 1
      <4>1. (r + 1) + 1 = r + 2
        BY <1>1
      <4>2. k \in 1 .. NumPieces(call) /\ j \in Nat /\ First(call, k) =< j /\ j + 1 < First(call, k + 1)
        <5> HIDE DEF W
        <5> QED BY <1>1, <1>6, <3>1, <4>1
      <4> HIDE DEF k, j
      <4>3. NextAddr(4 * WordNo(call, j), BurstOf(call, k, id).type, BurstOf(call, k, id).len) = 4 * WordNo(call, j + 1)
        BY <1>1, <4>2, WriteAddrNext
      <4> QED BY <4>3 DEF k, j
    <3>5. wAddr' = 4 * WordNo(call, s2 + 1)
      <4> HIDE DEF b
      <4> QED BY <3>1, <3>2, <3>3, <3>4
    <3>6. F(r + 1) =< s2 + 1 /\ wReqCnt' = F(r + 2) - s2 - 2 /\ wReqCnt' >= 0
      <4> HIDE DEF F, W
      <4> QED BY <1>1, <1>6, <3>1, <3>2
    <3>7. wState' # "wResp" /\ wAllReqsSent' = FALSE
      BY <1>3, <1>5, <3>1, <3>2
    <3> HIDE DEF F, W
    <3> QED BY <3>5, <3>6, <3>7
  <2> QED BY <2>1, <2>2, <2>3
<1>9. wState' = "wResp" => wAckPending = 0 /\ ~accept
  BY <1>1, <1>3
<1>10. wState' \in {"wBurst", "wResp"}
  BY <1>3
<1> QED BY <1>2, <1>3, <1>4, <1>5, <1>8, <1>9, <1>10 DEF WriteFsmNext

LEMMA WriteAnswered ==
  ASSUME NEW accept, NEW id, NEW i, NEW a, NEW r, NEW s, NEW n, NEW r2,
         WriteEdge(accept, id, i, a, r, s, n), wState = "wResp", r2 = r + One(BFire(out))
  PROVE  /\ wState' = IF BFire(out) THEN "wIdle" ELSE "wResp"
         /\ WriteFsmNext(id, r2, s) /\ ~AwFire(out) /\ ~accept /\ r + 1 \in 1 .. NumPieces(call)
<1>1. /\ NumPieces(call) \in Nat /\ r + 1 \in 1 .. NumPieces(call) /\ r \in 0 .. NumPieces(call) /\ ~accept
  BY WriteNumbers, WordAccepted
<1>2. ~AwFire(out) /\ (BFire(out) <=> out.bready)
  BY DEF BFire, BValid, AwFire
<1>3. wState' = (IF out.bready THEN "wIdle" ELSE "wResp")
      /\ UNCHANGED <<wAddr, wBurst, wReqCnt, wAllReqsSent>>
  <2>1. WriteFsm(out, accept)
    BY EdgeParts DEF WriteEdge
  <2> QED BY <2>1 DEF WriteFsm, WriteIdle, WriteStart, WriteBurst, WriteResp
<1>4. wId' = wId /\ wAsked' = wAsked
  <2>1. IdRegisters(out) /\ wAsked' = IF AwFire(out) THEN out.aw ELSE wAsked
    BY EdgeParts DEF WriteEdge
  <2> QED BY <1>2, <2>1 DEF IdRegisters
<1>5. Writing(call, id, r, s, n)
  BY DEF WriteEdge, WriteState
<1>6. CASE BFire(out)
  <2>1. r2 = r + 1 /\ r2 + 1 = r + 2
    BY <1>1, <1>6 DEF One
  <2>2. s + 1 = First(call, r + 2)
    BY <1>5 DEF Writing
  <2> QED BY <1>1, <1>2, <1>3, <1>6, <2>1, <2>2 DEF WriteFsmNext
<1>7. CASE ~BFire(out)
  <2>1. r2 = r
    BY <1>1, <1>7 DEF One
  <2>2. wState' = "wResp"
    BY <1>2, <1>3, <1>7
  <2> QED BY <1>1, <1>2, <1>3, <1>4, <1>5, <1>7, <2>1, <2>2 DEF WriteFsmNext, Writing
<1> QED BY <1>6, <1>7

LEMMA UptoNext ==
  ASSUME NEW c, IsBlock(c), NEW s \in Nat, s + 1 \in 1 .. WordsIn(c)
  PROVE  Min({Len(c.data), Upto(c, s) + 4 - ((c.addr + Upto(c, s)) % 4)}) = Upto(c, s + 1)
<1> DEFINE W == WordsIn(c)
           z == Len(c.data)
           o == c.addr % 4
           q == WordOf(c.addr)
           u == Upto(c, s)
           m == u + 4 - ((c.addr + u) % 4)
<1>1. /\ W \in Nat /\ z \in Nat /\ o \in 0 .. 3 /\ q \in Nat /\ c.addr = 4 * q + o
      /\ 4 * W >= o + z
  <2>1. W \in Nat /\ 4 * W >= o + z
    BY WordsOfBlock
  <2>2. z \in Nat /\ c.addr \in Addrs
    BY AddrSpaceAssumption DEF IsBlock
  <2>3. o \in 0 .. 3 /\ q \in Nat /\ c.addr = 4 * q + o
    <3>1. q \in 0 .. NumWords - 1 /\ o \in 0 .. 3 /\ c.addr = 4 * q + o
      BY <2>2, Space
    <3> HIDE DEF q
    <3> QED BY <3>1
  <2> QED BY <2>1, <2>2, <2>3
<1>2. s \in 0 .. W /\ s # W
  BY <1>1
<1>3. u = (IF s = 0 THEN 0 ELSE 4 * s - o) /\ u \in 0 .. z
  <2>1. u \in 0 .. z
    BY <1>2, WordsOfBlock
  <2> QED BY <1>2, <2>1 DEF Upto
<1>4. Upto(c, s + 1) = (IF s + 1 = W THEN z ELSE 4 * (s + 1) - o) /\ Upto(c, s + 1) \in 0 .. z
  <2>1. s + 1 \in 0 .. W /\ s + 1 # 0
    BY <1>1
  <2> QED BY <2>1, WordsOfBlock DEF Upto
<1> HIDE DEF W, z, o, q, u
<1>5. m = 4 * (s + 1) - o
  <2>1. CASE s = 0
    <3>1. (c.addr + u) % 4 = o
      <4>1. c.addr + u = 4 * q + o
        BY <1>1, <1>3, <2>1
      <4>2. (4 * q + o) % 4 = o
        BY <1>1, Remainder
      <4> QED BY <4>1, <4>2
    <3> QED BY <1>1, <1>3, <2>1, <3>1
  <2>2. CASE s # 0
    <3>1. (c.addr + u) % 4 = 0
      <4>1. c.addr + u = 4 * (q + s) + 0 /\ q + s \in Int
        BY <1>1, <1>3, <2>2
      <4>2. (4 * (q + s) + 0) % 4 = 0
        BY <4>1, Remainder
      <4> QED BY <4>1, <4>2
    <3> QED BY <1>1, <1>3, <2>2, <3>1
  <2> QED BY <2>1, <2>2
<1> HIDE DEF m
<1>6. m \in Nat
  BY <1>1, <1>5
<1>7. Min({z, m}) = IF z =< m THEN z ELSE m
  BY <1>1, <1>6, MinOfTwo
<1>8. (IF z =< m THEN z ELSE m) = Upto(c, s + 1)
  BY <1>1, <1>4, <1>5
<1> QED BY <1>7, <1>8 DEF z, m, u

\* The front end after an edge in a write.
LEMMA WritingNext ==
  ASSUME NEW accept, NEW id, NEW i, NEW a, NEW r, NEW s, NEW n, NEW r2, NEW s2, NEW n2,
         WriteEdge(accept, id, i, a, r, s, n),
         r2 = r + One(BFire(out)), s2 = s + One(accept), n2 = n + One(WFire(out)) - One(accept)
  PROVE  /\ Writing(call, id, r2, s2, n2)'
         /\ One(wState' # "wIdle") = One(wState # "wIdle") + One(AwFire(out)) - One(BFire(out))
         /\ wState' # "wBurst" => wAckPending' = 0
         /\ done' = Upto(call, s2)
<1>1. /\ IsBlock(call) /\ WordsIn(call) \in Nat /\ NumPieces(call) \in Nat /\ s \in 0 .. WordsIn(call)
      /\ r \in 0 .. NumPieces(call) /\ n \in 0 .. 4 /\ accept \in BOOLEAN
  BY WriteNumbers DEF WriteEdge
<1>2. /\ s2 \in 0 .. WordsIn(call) /\ n2 \in 0 .. QUEUE_DEPTH
      /\ wDataQueue' = Slice(BeatsOf(call), s2, n2)
  BY WriteQueueNext DEF QUEUE_DEPTH
<1>3. wState \in {"wIdle", "wBurst", "wResp"} /\ (wState # "wBurst" => wAckPending = 0)
  BY DEF WriteEdge, WriteState, Writing
<1>4. wAckPending = 0 /\ ~accept => wAckPending' = 0
  BY WriteOwed
<1>5. /\ WriteFsmNext(id, r2, s2) /\ r2 \in 0 .. NumPieces(call)
      /\ One(wState' # "wIdle") = One(wState # "wIdle") + One(AwFire(out)) - One(BFire(out))
      /\ wState' # "wBurst" => wAckPending' = 0
  <2>1. CASE wState = "wIdle"
    <3>1. /\ IF out.aw = {} THEN wState' = "wIdle" ELSE wState' = "wBurst"
          /\ WriteFsmNext(id, r, s) /\ ~accept /\ ~BFire(out) /\ (AwFire(out) <=> out.aw # {})
      BY <2>1, WriteStarts
    <3>2. r2 = r /\ s2 = s
      BY <1>1, <3>1 DEF One
    <3>3. One(wState' # "wIdle") = One(AwFire(out)) /\ One(wState # "wIdle") = 0 /\ One(BFire(out)) = 0
          /\ One(AwFire(out)) \in {0, 1}
      BY <2>1, <3>1 DEF One
    <3> QED BY <1>1, <1>3, <1>4, <2>1, <3>1, <3>2, <3>3
  <2>2. CASE wState = "wBurst"
    <3>1. /\ wState' = IF wAllReqsSent /\ wAckPending = 0 THEN "wResp" ELSE "wBurst"
          /\ WriteFsmNext(id, r, s2) /\ ~BFire(out) /\ ~AwFire(out)
          /\ wState' = "wResp" => wAckPending = 0 /\ ~accept
      BY <2>2, WriteGoesOn
    <3>2. r2 = r
      BY <1>1, <3>1 DEF One
    <3>3. One(wState' # "wIdle") = 1 /\ One(wState # "wIdle") = 1 /\ One(BFire(out)) = 0 /\ One(AwFire(out)) = 0
      BY <2>2, <3>1 DEF One
    <3> QED BY <1>1, <1>4, <2>2, <3>1, <3>2, <3>3
  <2>3. CASE wState = "wResp"
    <3>1. /\ wState' = IF BFire(out) THEN "wIdle" ELSE "wResp"
          /\ WriteFsmNext(id, r2, s) /\ ~AwFire(out) /\ ~accept /\ r + 1 \in 1 .. NumPieces(call)
      BY <2>3, WriteAnswered
    <3>2. s2 = s
      BY <1>1, <3>1 DEF One
    <3>3. One(wState' # "wIdle") = 1 - One(BFire(out)) /\ One(wState # "wIdle") = 1 /\ One(AwFire(out)) = 0
          /\ One(BFire(out)) \in {0, 1}
      BY <2>3, <3>1 DEF One
    <3>4. r2 \in 0 .. NumPieces(call)
      BY <1>1, <3>1, <3>3
    <3> QED BY <1>3, <1>4, <2>3, <3>1, <3>2, <3>3, <3>4
  <2> QED BY <1>3, <2>1, <2>2, <2>3
<1>6. call' = call
  BY WriteLoops
<1>7. Writing(call, id, r2, s2, n2)'
  BY <1>2, <1>5, <1>6 DEF Writing, WriteFsmNext
<1>8. done' = Upto(call, s2)
  <2>1. Progress(accept) /\ done = Upto(call, s)
    BY EdgeParts DEF WriteEdge, WriteState
  <2>2. PortReq.rd = FALSE
    BY WriteSignals DEF PortReq
  <2>3. CASE ~accept
    <3>1. s2 = s /\ done' = done
      BY <1>1, <2>1, <2>3 DEF One, Progress
    <3> QED BY <2>1, <3>1
  <2>4. CASE accept
    <3>1. s2 = s + 1 /\ done' = Min({Len(call.data), done + 4 - ((call.addr + done) % 4)})
      BY <1>1, <2>1, <2>2, <2>4 DEF One, Progress
    <3>2. s \in Nat /\ s + 1 \in 1 .. WordsIn(call)
      <4>1. accept => s + 1 \in 1 .. WordsIn(call)
        BY WordAccepted
      <4> QED BY <1>1, <2>4, <4>1
    <3> QED BY <1>1, <2>1, <3>1, <3>2, UptoNext
  <2> QED BY <1>1, <2>3, <2>4
<1> QED BY <1>5, <1>7, <1>8

------------------------------------------------------------------------------
\* What the driver of a write puts out at an edge: nothing new, the data held
\* back, a whole request, or its address only.

Driving(c, id, l, o, sp, sp2, i, a, i2, a2) ==
  \/ /\ o.aw = l.aw /\ o.w = l.w /\ sp2 = sp
     /\ i2 = i /\ a2 = a
  \/ /\ sp /\ i + 1 \in 1 .. WordsIn(c)
     /\ o.aw = l.aw /\ o.w = {BeatOf(c, i + 1)} /\ sp2 = FALSE
     /\ i2 = i + 1 /\ a2 = a
  \/ /\ ~sp /\ i + 1 \in 1 .. WordsIn(c) /\ l.aw = {} /\ l.w = {}
     /\ o.aw = IF Starts(c, i + 1) THEN {BurstOf(c, a + 1, id)} ELSE {}
     /\ o.w = {BeatOf(c, i + 1)} /\ sp2 = FALSE
     /\ i2 = i + 1 /\ a2 = a + One(Starts(c, i + 1))
  \/ /\ ~sp /\ i + 1 \in 1 .. WordsIn(c) /\ l.aw = {} /\ l.w = {} /\ Starts(c, i + 1)
     /\ o.aw = {BurstOf(c, a + 1, id)} /\ o.w = {} /\ sp2 = TRUE
     /\ i2 = i /\ a2 = a + 1

\* The word that is next is in the burst whose address is out, or starts the
\* one behind it.
LEMMA NextWord ==
  ASSUME NEW c, IsBlock(c), NEW i \in Nat, i + 1 \in 1 .. WordsIn(c), NEW a \in 0 .. NumPieces(c),
         First(c, a) =< i, i < First(c, a + 1)
  PROVE  /\ Starts(c, i + 1) <=> First(c, a + 1) = i + 1
         /\ Starts(c, i + 1) => /\ PieceNo(c, i + 1) = a + 1 /\ a + 1 \in 1 .. NumPieces(c)
                                /\ i + 1 < First(c, a + 2)
<1> DEFINE k == PieceNo(c, i + 1)
           K == NumPieces(c)
           W == WordsIn(c)
           F(j) == First(c, j)
<1>1. K \in Nat \ {0} /\ W \in Nat /\ F(K + 1) = W + 1
  BY Pieces, WordsOfBlock
<1>2. k \in 1 .. K /\ F(k) =< i + 1 /\ i + 1 < F(k + 1)
  BY WordInPiece
<1>3. \A x, y \in 0 .. K + 1 : x < y => F(x) < F(y)
  BY Ordered
<1>4. \A x \in 0 .. K + 1 : F(x) \in 0 .. W + 1
  BY Ordered
<1>5. Starts(c, i + 1) <=> F(k) = i + 1
  BY DEF Starts
<1>6. ASSUME F(k) = i + 1 PROVE k = a + 1
  <2>0. a \in 0 .. K
    OBVIOUS
  <2> HIDE DEF k, F, K, W
  <2>1. a \in 0 .. K + 1 /\ k \in 0 .. K + 1 /\ a + 1 \in 0 .. K + 1
    BY <1>1, <1>2, <2>0
  <2>2. F(a) \in Int /\ F(k) \in Int /\ F(a + 1) \in Int
    BY <1>4, <2>1
  <2>3. F(a) < F(k) /\ F(k) =< F(a + 1)
    BY <1>6, <2>2 DEF F
  <2>4. ~(k < a) /\ k # a
    BY <1>3, <2>1, <2>2, <2>3
  <2>5. ~(a + 1 < k)
    BY <1>3, <2>1, <2>2, <2>3
  <2> QED BY <2>1, <2>4, <2>5
<1>7. ASSUME F(a + 1) = i + 1 PROVE k = a + 1
  <2>0. a \in 0 .. K
    OBVIOUS
  <2> HIDE DEF k, F, K, W
  <2>1. a \in 0 .. K + 1 /\ k \in 0 .. K + 1 /\ a + 1 \in 0 .. K + 1 /\ k + 1 \in 0 .. K + 1
    BY <1>1, <1>2, <2>0
  <2>2. F(k) \in Int /\ F(k + 1) \in Int /\ F(a + 1) \in Int
    BY <1>4, <2>1
  <2>3. F(k) =< F(a + 1) /\ F(a + 1) < F(k + 1)
    BY <1>2, <1>7, <2>2
  <2>4. ~(a + 1 < k)
    BY <1>3, <2>1, <2>2, <2>3
  <2>5. ~(k + 1 < a + 1) /\ k + 1 # a + 1
    BY <1>3, <2>1, <2>2, <2>3
  <2> QED BY <2>1, <2>4, <2>5
<1>8. F(k) = i + 1 <=> F(a + 1) = i + 1
  BY <1>6, <1>7
<1>9. ASSUME F(k) = i + 1 PROVE k = a + 1 /\ a + 1 \in 1 .. K /\ i + 1 < F(a + 2)
  <2>1. k = a + 1 /\ k + 1 = a + 2
    BY <1>1, <1>6, <1>9
  <2> QED BY <1>2, <2>1
<1> QED BY <1>5, <1>8, <1>9

LEMMA RequestIs ==
  ASSUME NEW c, NEW id, NEW i
  PROVE  LET q == WriteRequestOf(c, i, id)
         IN /\ q = [ar |-> {}, aw |-> IF Starts(c, i) THEN {BurstOf(c, PieceNo(c, i), id)} ELSE {},
                    w |-> {BeatOf(c, i)}, rready |-> FALSE, bready |-> Starts(c, i)]
            /\ IsMaster(q)
<1> DEFINE b == BurstOf(c, PieceNo(c, i), id)
           w == BeatOf(c, i)
           x == Starts(c, i)
           q == WriteRequestOf(c, i, id)
<1>1. q = [[[Quiet EXCEPT !.aw = IF x THEN {b} ELSE {}] EXCEPT !.w = {w}] EXCEPT !.bready = x]
  BY DEF WriteRequestOf, WriteRequest32
<1>2. x \in BOOLEAN
  BY DEF Starts
<1> HIDE DEF b, w, x
<1>3. q = [ar |-> {}, aw |-> IF x THEN {b} ELSE {}, w |-> {w}, rready |-> FALSE, bready |-> x]
  BY <1>1 DEF Quiet
<1> HIDE DEF q
<1>4. IsMaster(q)
  BY <1>2, <1>3 DEF IsMaster
<1> QED BY <1>3, <1>4 DEF q, x, b, w

LEMMA DrivenNext ==
  ASSUME NEW c, IsBlock(c), NEW id, NEW l, NEW o, NEW sp, NEW sp2, NEW i, NEW a, NEW i2, NEW a2,
         Driven(c, id, l, sp, i, a), Driving(c, id, l, o, sp, sp2, i, a, i2, a2)
  PROVE  /\ Driven(c, id, o, sp2, i2, a2)
         /\ i2 = i + One(o.w # {}) - One(l.w # {})
         /\ a2 = a + One(o.aw # {}) - One(l.aw # {})
<1> DEFINE F(k) == First(c, k)
           W == WordsIn(c)
           K == NumPieces(c)
<1>1. /\ i \in 0 .. W /\ a \in 0 .. K /\ sp \in BOOLEAN
      /\ l.w = {} \/ (i > 0 /\ l.w = {BeatOf(c, i)})
      /\ l.aw = {} \/ (a > 0 /\ l.aw = {BurstOf(c, a, id)} /\ F(a) = i + One(sp))
      /\ F(a) =< i + One(sp) /\ i + One(sp) < F(a + 1)
      /\ sp => F(a) = i + 1 /\ l.w = {}
  BY DEF Driven
<1>2. W \in Nat \ {0} /\ K \in Nat \ {0}
  BY WordsOfBlock, Pieces
<1>3. /\ sp2 = FALSE => One(sp2) = 0
      /\ sp2 = TRUE => One(sp2) = 1
      /\ sp = TRUE => One(sp) = 1
      /\ sp = FALSE => One(sp) = 0
      /\ Starts(c, i + 1) => One(Starts(c, i + 1)) = 1
      /\ ~Starts(c, i + 1) => One(Starts(c, i + 1)) = 0
  BY DEF One
<1>4. One(l.w # {}) \in {0, 1} /\ One(l.aw # {}) \in {0, 1} /\ One(o.w # {}) \in {0, 1} /\ One(o.aw # {}) \in {0, 1}
      /\ (l.w = {} => One(l.w # {}) = 0) /\ (l.aw = {} => One(l.aw # {}) = 0)
      /\ (o.w = {} => One(o.w # {}) = 0) /\ (o.w # {} => One(o.w # {}) = 1)
      /\ (o.aw = {} => One(o.aw # {}) = 0) /\ (o.aw # {} => One(o.aw # {}) = 1)
  BY DEF One
<1>5. CASE o.aw = l.aw /\ o.w = l.w /\ sp2 = sp /\ i2 = i /\ a2 = a
  <2>1. Driven(c, id, o, sp2, i2, a2)
    BY <1>5, Zenon DEF Driven
  <2>2. i2 = i + One(o.w # {}) - One(l.w # {}) /\ a2 = a + One(o.aw # {}) - One(l.aw # {})
    BY <1>1, <1>4, <1>5
  <2> QED BY <2>1, <2>2
<1>6. CASE /\ sp /\ i + 1 \in 1 .. W
           /\ o.aw = l.aw /\ o.w = {BeatOf(c, i + 1)} /\ sp2 = FALSE
           /\ i2 = i + 1 /\ a2 = a
  <2>1. F(a) = i2 /\ l.w = {} /\ i2 < F(a + 1) /\ i2 > 0 /\ i2 \in 0 .. W /\ F(a) =< i2 + One(sp2) /\ i2 + One(sp2) = i2
        /\ i2 + One(sp2) < F(a + 1)
    <3>1. sp = TRUE /\ One(sp) = 1
      BY <1>1, <1>3, <1>6
    <3>2. One(sp2) = 0 /\ i \in Int /\ W \in Int
      BY <1>1, <1>2, <1>3, <1>6
    <3>3. F(a) = i + 1 /\ i + 1 < F(a + 1) /\ i2 = i + 1 /\ l.w = {} /\ i + 1 \in 1 .. W
      BY <1>1, <1>6, <3>1
    <3>4. i2 + One(sp2) = i2 /\ i2 > 0 /\ i2 \in 0 .. W /\ i2 =< i2
      <4> HIDE DEF W
      <4> QED BY <3>2, <3>3
    <3> QED BY <3>3, <3>4
  <2>2. o.aw = {} \/ (a2 > 0 /\ o.aw = {BurstOf(c, a2, id)} /\ F(a2) = i2 + One(sp2))
    BY <1>1, <1>6, <2>1
  <2>3. o.w = {} \/ (i2 > 0 /\ o.w = {BeatOf(c, i2)})
    BY <1>6, <2>1
  <2>4. Driven(c, id, o, sp2, i2, a2)
    BY <1>1, <1>6, <2>1, <2>2, <2>3 DEF Driven
  <2>5. i2 = i + One(o.w # {}) - One(l.w # {}) /\ a2 = a + One(o.aw # {}) - One(l.aw # {})
    BY <1>1, <1>4, <1>6, <2>1
  <2> QED BY <2>4, <2>5
<1> DEFINE z == Starts(c, i + 1)
<1>7. ASSUME ~sp, i + 1 \in 1 .. W
      PROVE  /\ z \in BOOLEAN /\ F(a) =< i /\ i < F(a + 1) /\ i \in Nat /\ F(a) \in Int /\ F(a + 1) \in Int
             /\ z <=> F(a + 1) = i + 1
             /\ z => a + 1 \in 1 .. K /\ i + 1 < F(a + 2)
  <2>1. z \in BOOLEAN
    BY DEF Starts
  <2>2. sp = FALSE /\ i \in Nat /\ i + One(sp) = i /\ F(a) =< i /\ i < F(a + 1)
    <3>1. sp = FALSE /\ One(sp) = 0 /\ i \in Nat
      BY <1>1, <1>3, <1>7
    <3>2. i + One(sp) = i
      BY <3>1
    <3> QED BY <1>1, <3>1, <3>2
  <2>3. z <=> F(a + 1) = i + 1
    BY <1>1, <1>7, <2>2, NextWord
  <2>4. z => a + 1 \in 1 .. K /\ i + 1 < F(a + 2)
    BY <1>1, <1>7, <2>2, NextWord
  <2>5. F(a) \in Int /\ F(a + 1) \in Int
    <3>1. a \in 0 .. K + 1 /\ a + 1 \in 0 .. K + 1
      BY <1>1, <1>2
    <3>2. F(a) \in 0 .. W + 1 /\ F(a + 1) \in 0 .. W + 1
      BY <3>1, Ordered
    <3> QED BY <1>2, <3>2
  <2> QED BY <2>1, <2>2, <2>3, <2>4, <2>5
<1>8. CASE /\ ~sp /\ i + 1 \in 1 .. W /\ l.aw = {} /\ l.w = {}
           /\ o.aw = IF z THEN {BurstOf(c, a + 1, id)} ELSE {}
           /\ o.w = {BeatOf(c, i + 1)} /\ sp2 = FALSE
           /\ i2 = i + 1 /\ a2 = a + One(z)
  <2>0. /\ z \in BOOLEAN /\ F(a) =< i /\ i < F(a + 1) /\ i \in Nat /\ F(a) \in Int /\ F(a + 1) \in Int
        /\ z <=> F(a + 1) = i + 1
        /\ z => a + 1 \in 1 .. K /\ i + 1 < F(a + 2)
    BY <1>7, <1>8
  <2>1. i2 + One(sp2) = i2 /\ i2 \in 0 .. W /\ i2 > 0 /\ sp2 \in BOOLEAN /\ ~sp2
    <3>1. One(sp2) = 0 /\ sp2 = FALSE /\ i2 = i + 1 /\ i + 1 \in 1 .. W
      BY <1>3, <1>8
    <3>2. i \in Nat /\ W \in Nat
      BY <1>2, <2>0
    <3> HIDE DEF W, z
    <3>3. i2 + One(sp2) = i2 /\ i2 \in 0 .. W /\ i2 > 0
      BY <3>1, <3>2
    <3> QED BY <3>1, <3>3
  <2>2. CASE z
    <3>1. a2 = a + 1 /\ o.aw = {BurstOf(c, a2, id)} /\ a2 > 0 /\ a2 \in 0 .. K /\ a2 + 1 = a + 2
      BY <1>1, <1>2, <1>3, <1>8, <2>0, <2>2
    <3>2. F(a2) = i2 /\ i2 < F(a2 + 1)
      BY <1>8, <2>0, <2>2, <3>1
    <3> HIDE DEF z
    <3>3. Driven(c, id, o, sp2, i2, a2)
      <4>1. F(a2) =< i2 /\ i2 = i + 1 /\ o.w = {BeatOf(c, i2)}
        BY <1>8, <2>1, <3>2
      <4> QED BY <2>1, <3>1, <3>2, <4>1 DEF Driven
    <3>4. i2 = i + One(o.w # {}) - One(l.w # {}) /\ a2 = a + One(o.aw # {}) - One(l.aw # {})
      <4>1. One(o.w # {}) = 1 /\ One(l.w # {}) = 0 /\ One(o.aw # {}) = 1 /\ One(l.aw # {}) = 0
        BY <1>4, <1>8, <3>1
      <4> QED BY <1>1, <1>8, <3>1, <4>1
    <3> QED BY <3>3, <3>4
  <2>3. CASE ~z
    <3>1. a2 = a /\ o.aw = {}
      BY <1>1, <1>3, <1>8, <2>0, <2>3
    <3>2. F(a) =< i2 /\ i2 < F(a + 1)
      <4> HIDE DEF F, z
      <4> QED BY <1>8, <2>0, <2>3
    <3> HIDE DEF z
    <3>3. Driven(c, id, o, sp2, i2, a2)
      <4>1. i2 = i + 1 /\ o.w = {BeatOf(c, i2)}
        BY <1>8
      <4> QED BY <1>1, <2>1, <3>1, <3>2, <4>1 DEF Driven
    <3>4. i2 = i + One(o.w # {}) - One(l.w # {}) /\ a2 = a + One(o.aw # {}) - One(l.aw # {})
      <4>1. One(o.w # {}) = 1 /\ One(l.w # {}) = 0 /\ One(o.aw # {}) = 0 /\ One(l.aw # {}) = 0
        BY <1>4, <1>8, <3>1
      <4> QED BY <1>1, <1>8, <3>1, <4>1
    <3> QED BY <3>3, <3>4
  <2> QED BY <2>2, <2>3
<1>9. CASE /\ ~sp /\ i + 1 \in 1 .. W /\ l.aw = {} /\ l.w = {} /\ z
           /\ o.aw = {BurstOf(c, a + 1, id)} /\ o.w = {} /\ sp2 = TRUE
           /\ i2 = i /\ a2 = a + 1
  <2>0. /\ F(a) =< i /\ i < F(a + 1) /\ i \in Nat
        /\ F(a + 1) = i + 1 /\ a + 1 \in 1 .. K /\ i + 1 < F(a + 2)
    BY <1>7, <1>9
  <2>1. i2 + One(sp2) = i2 + 1 /\ sp2 \in BOOLEAN /\ a2 + 1 = a + 2 /\ a2 > 0 /\ a2 \in 0 .. K /\ i2 + 1 =< i2 + 1
    <3>1. One(sp2) = 1 /\ sp2 = TRUE /\ i2 = i /\ a2 = a + 1 /\ i \in Nat /\ a \in Nat /\ a + 1 \in 1 .. K
      BY <1>1, <1>2, <1>3, <1>9, <2>0
    <3> HIDE DEF K, z
    <3> QED BY <1>2, <3>1
  <2> HIDE DEF z
  <2>2. Driven(c, id, o, sp2, i2, a2)
    BY <1>1, <1>9, <2>0, <2>1 DEF Driven
  <2>3. i2 = i + One(o.w # {}) - One(l.w # {}) /\ a2 = a + One(o.aw # {}) - One(l.aw # {})
    <3>1. One(o.w # {}) = 0 /\ One(l.w # {}) = 0 /\ One(o.aw # {}) = 1 /\ One(l.aw # {}) = 0
      BY <1>4, <1>9
    <3> QED BY <1>1, <1>9, <3>1
  <2> QED BY <2>2, <2>3
<1> QED BY <1>5, <1>6, <1>8, <1>9, Zenon DEF Driving

LEMMA MasterFields ==
  ASSUME NEW o, IsMaster(o), NEW x, NEW y
  PROVE  /\ LET u == [o EXCEPT !.w = y]
            IN IsMaster(u) /\ u.aw = o.aw /\ u.w = y /\ u.ar = o.ar /\ u.rready = o.rready /\ u.bready = o.bready
         /\ LET u == [o EXCEPT !.aw = x]
            IN IsMaster(u) /\ u.aw = x /\ u.w = o.w /\ u.ar = o.ar /\ u.rready = o.rready /\ u.bready = o.bready
<1> DEFINE f == o.ar
           g == o.aw
           h == o.w
           k == o.rready
           m == o.bready
<1>1. o = [ar |-> f, aw |-> g, w |-> h, rready |-> k, bready |-> m] /\ k \in BOOLEAN /\ m \in BOOLEAN
  BY DEF IsMaster
<1> HIDE DEF f, g, h, k, m
<1>2. LET u == [o EXCEPT !.w = y]
      IN IsMaster(u) /\ u.aw = g /\ u.w = y /\ u.ar = f /\ u.rready = k /\ u.bready = m
  BY <1>1 DEF IsMaster
<1>3. LET u == [o EXCEPT !.aw = x]
      IN IsMaster(u) /\ u.aw = x /\ u.w = h /\ u.ar = f /\ u.rready = k /\ u.bready = m
  BY <1>1 DEF IsMaster
<1> QED BY <1>2, <1>3 DEF f, g, h, k, m

LEMMA MasterReady ==
  ASSUME NEW o, IsMaster(o), NEW b \in BOOLEAN, NEW u
  PROVE  /\ u = [o EXCEPT !.bready = b] =>
              IsMaster(u) /\ u.aw = o.aw /\ u.w = o.w /\ u.ar = o.ar /\ u.rready = o.rready /\ u.bready = b
         /\ u = [o EXCEPT !.rready = b] =>
              IsMaster(u) /\ u.aw = o.aw /\ u.w = o.w /\ u.ar = o.ar /\ u.rready = b /\ u.bready = o.bready
<1> DEFINE f == o.ar
           g == o.aw
           h == o.w
           k == o.rready
           m == o.bready
<1>1. o = [ar |-> f, aw |-> g, w |-> h, rready |-> k, bready |-> m] /\ k \in BOOLEAN /\ m \in BOOLEAN
  BY DEF IsMaster
<1> HIDE DEF f, g, h, k, m
<1>2. ASSUME u = [o EXCEPT !.bready = b]
      PROVE  IsMaster(u) /\ u.aw = g /\ u.w = h /\ u.ar = f /\ u.rready = k /\ u.bready = b
  BY <1>1, <1>2 DEF IsMaster
<1>3. ASSUME u = [o EXCEPT !.rready = b]
      PROVE  IsMaster(u) /\ u.aw = g /\ u.w = h /\ u.ar = f /\ u.rready = b /\ u.bready = m
  BY <1>1, <1>3 DEF IsMaster
<1> QED BY <1>2, <1>3 DEF f, g, h, k, m

LEMMA UntakenIs ==
  ASSUME IsMaster(out)
  PROVE  LET l == Untaken(Slave)
         IN /\ IsMaster(l)
            /\ l.aw = IF wState = "wIdle" THEN {} ELSE out.aw
            /\ l.w = IF WReady THEN {} ELSE out.w
            /\ l.ar = IF rState = "rIdle" THEN {} ELSE out.ar
            /\ l.rready = out.rready /\ l.bready = out.bready
<1> DEFINE x == IF wState = "wIdle" THEN {} ELSE out.aw
           y == IF WReady THEN {} ELSE out.w
           z == IF rState = "rIdle" THEN {} ELSE out.ar
<1> DEFINE u == Untaken(Slave)
           f == out.ar
           g == out.aw
           h == out.w
           k == out.rready
           m == out.bready
           v == [out EXCEPT !.aw = x]
           t == [v EXCEPT !.w = y]
<1>1. out = [ar |-> f, aw |-> g, w |-> h, rready |-> k, bready |-> m] /\ k \in BOOLEAN /\ m \in BOOLEAN
  BY DEF IsMaster
<1>2. u = [t EXCEPT !.ar = z]
  <2>1. Slave.awready = (wState = "wIdle") /\ Slave.wready = WReady /\ Slave.arready = (rState = "rIdle")
    BY DEF Slave
  <2>2. (IF Slave.awready THEN {} ELSE out.aw) = x /\ (IF Slave.wready THEN {} ELSE out.w) = y
        /\ (IF Slave.arready THEN {} ELSE out.ar) = z
    BY <2>1
  <2>3. u = [[[out EXCEPT !.aw = IF Slave.awready THEN {} ELSE @] EXCEPT !.w = IF Slave.wready THEN {} ELSE @]
               EXCEPT !.ar = IF Slave.arready THEN {} ELSE @]
    BY Zenon DEF Untaken
  <2> DEFINE v1 == [out EXCEPT !.aw = IF Slave.awready THEN {} ELSE @]
             t1 == [v1 EXCEPT !.w = IF Slave.wready THEN {} ELSE @]
  <2>4. v1 = v
    BY <1>1, <2>2
  <2> HIDE DEF x, y, z, f, g, h, k, m
  <2>5. v = [ar |-> f, aw |-> x, w |-> h, rready |-> k, bready |-> m]
    BY <1>1
  <2> HIDE DEF v, v1
  <2>6. v1.w = out.w /\ t1 = t
    BY <1>1, <2>2, <2>4, <2>5
  <2>7. t = [ar |-> f, aw |-> x, w |-> y, rready |-> k, bready |-> m] /\ out.ar = f
    BY <1>1, <2>5
  <2> HIDE DEF t, t1
  <2> QED BY <2>2, <2>3, <2>6, <2>7 DEF v1, t1
<1> HIDE DEF x, y, z, f, g, h, k, m
<1>3. v = [ar |-> f, aw |-> x, w |-> h, rready |-> k, bready |-> m]
  BY <1>1
<1> HIDE DEF v
<1>4. t = [ar |-> f, aw |-> x, w |-> y, rready |-> k, bready |-> m]
  BY <1>3
<1> HIDE DEF t, u
<1>5. u = [ar |-> z, aw |-> x, w |-> y, rready |-> k, bready |-> m]
  BY <1>2, <1>4
<1>6. IsMaster(u) /\ u.ar = z /\ u.aw = x /\ u.w = y /\ u.rready = k /\ u.bready = m
  BY <1>1, <1>5 DEF IsMaster
<1> QED BY <1>6 DEF x, y, z, k, m, u

LEMMA DriverWrites ==
  ASSUME NEW accept, NEW id, NEW i, NEW a, NEW r, NEW s, NEW n,
         WriteEdge(accept, id, i, a, r, s, n)
  PROVE  LET l == Untaken(Slave)
         IN /\ Driven(call, id, l, split, i, a)
            /\ \E i2 \in 0 .. WordsIn(call), a2 \in 0 .. NumPieces(call) :
                 /\ Driving(call, id, l, out', split, split', i, a, i2, a2)
                 /\ reqQ' = Slice(WriteRequestsOf(call, id), i2, WordsIn(call) - i2)
            /\ IsMaster(out') /\ out'.ar = {}
<1> DEFINE l == Untaken(Slave)
           W == WordsIn(call)
           K == NumPieces(call)
           R == WriteRequestsOf(call, id)
           q == WriteRequestOf(call, i + 1, id)
           k == PieceNo(call, i + 1)
           z == Starts(call, i + 1)
<1>1. /\ IsBlock(call) /\ W \in Nat \ {0} /\ K \in Nat \ {0} /\ i \in 0 .. W /\ a \in 0 .. K
  BY WriteNumbers
<1>2. IsMaster(out) /\ call.op = "write" /\ out.ar = {} /\ reqQ = Slice(R, i, W - i)
      /\ Driven(call, id, out, split, i, a)
  BY DEF WriteEdge, WriteState, TypeInv, ReadsQuiet
<1>3. /\ IsMaster(l) /\ l.ar = {} /\ (l.aw = {} \/ l.aw = out.aw) /\ (l.w = {} \/ l.w = out.w)
  BY <1>2, UntakenIs
<1> HIDE DEF l
<1>4. Driven(call, id, l, split, i, a)
  <2>1. /\ i \in 0 .. WordsIn(call) /\ a \in 0 .. NumPieces(call) /\ split \in BOOLEAN
        /\ out.w = {} \/ (i > 0 /\ out.w = {BeatOf(call, i)})
        /\ out.aw = {} \/ (a > 0 /\ out.aw = {BurstOf(call, a, id)} /\ First(call, a) = i + One(split))
        /\ First(call, a) =< i + One(split) /\ i + One(split) < First(call, a + 1)
        /\ split => First(call, a) = i + 1 /\ out.w = {}
    BY <1>2, Zenon DEF Driven
  <2>2. l.w = {} \/ (i > 0 /\ l.w = {BeatOf(call, i)})
    BY <1>3, <2>1
  <2>3. l.aw = {} \/ (a > 0 /\ l.aw = {BurstOf(call, a, id)} /\ First(call, a) = i + One(split))
    BY <1>3, <2>1
  <2>4. split => First(call, a) = i + 1 /\ l.w = {}
    BY <1>3, <2>1
  <2> QED BY <2>1, <2>2, <2>3, <2>4, Zenon DEF Driven
<1>5. PICK ready \in BOOLEAN :
        Hold(l, ready) \/ IssueData(l, ready) \/ IssueWhole(l, ready) \/ IssueAddress(l, ready)
  <2>1. WriteLoop(Slave)
    BY WriteLoops
  <2> QED BY <2>1, Zenon DEF WriteLoop, l
<1>6. ASSUME reqQ # <<>>
      PROVE  /\ i + 1 \in 1 .. W /\ Head(reqQ) = q
             /\ Tail(reqQ) = Slice(R, i + 1, W - (i + 1))
  <2>1. W - i \in Nat /\ i \in Int /\ W \in Int
    BY <1>1
  <2>2. W - i # 0
    <3> HIDE DEF W
    <3> QED BY <1>2, <1>6, <2>1, EmptySlice
  <2>3. W - i > 0 /\ (W - i) - 1 = W - (i + 1)
    <3> HIDE DEF W
    <3> QED BY <2>1, <2>2
  <2>4. i + 1 \in 1 .. W
    <3> HIDE DEF W
    <3> QED BY <1>1, <2>3
  <2>5. Head(reqQ) = R[i + 1] /\ Tail(reqQ) = Slice(R, i + 1, (W - i) - 1)
    <3> DEFINE m == W - i
    <3> HIDE DEF m, R
    <3>1. m \in Nat /\ m > 0 /\ reqQ = Slice(R, i, m)
      BY <1>2, <2>1, <2>3 DEF m
    <3>2. Head(Slice(R, i, m)) = R[i + 1] /\ Tail(Slice(R, i, m)) = Slice(R, i + 1, m - 1)
      BY <2>1, <3>1, Slices
    <3> QED BY <3>1, <3>2 DEF m
  <2>6. R[i + 1] = q
    BY <2>4 DEF WriteRequestsOf
  <2> QED BY <2>3, <2>4, <2>5, <2>6
<1>7. /\ q = [ar |-> {}, aw |-> IF z THEN {BurstOf(call, k, id)} ELSE {}, w |-> {BeatOf(call, i + 1)},
              rready |-> FALSE, bready |-> z]
      /\ IsMaster(q)
  BY RequestIs
<1>8. z \in BOOLEAN
  BY DEF Starts
<1>9. q.ar = {} /\ q.aw = (IF z THEN {BurstOf(call, k, id)} ELSE {}) /\ q.w = {BeatOf(call, i + 1)}
  <2> DEFINE x == IF z THEN {BurstOf(call, k, id)} ELSE {}
             y == {BeatOf(call, i + 1)}
  <2>1. q = [ar |-> {}, aw |-> x, w |-> y, rready |-> FALSE, bready |-> z]
    BY <1>7
  <2> HIDE DEF q, x, y, z
  <2>2. q.ar = {} /\ q.aw = x /\ q.w = y
    BY <2>1
  <2> QED BY <2>2 DEF x, y
<1> HIDE DEF q
<1>10. \A o : Ready(o, ready) = [o EXCEPT !.bready = ready]
  BY <1>2 DEF Ready
<1>11. \A o : IsMaster(o) => /\ IsMaster(Ready(o, ready)) /\ Ready(o, ready).aw = o.aw
                             /\ Ready(o, ready).w = o.w /\ Ready(o, ready).ar = o.ar
  <2> SUFFICES ASSUME NEW o, IsMaster(o)
               PROVE  /\ IsMaster(Ready(o, ready)) /\ Ready(o, ready).aw = o.aw
                      /\ Ready(o, ready).w = o.w /\ Ready(o, ready).ar = o.ar
    OBVIOUS
  <2> DEFINE u == Ready(o, ready)
  <2>1. u = [o EXCEPT !.bready = ready]
    BY <1>10
  <2> HIDE DEF u
  <2>2. IsMaster(u) /\ u.aw = o.aw /\ u.w = o.w /\ u.ar = o.ar
    BY <2>1, MasterReady, Zenon
  <2> QED BY <2>2 DEF u
<1>12. First(call, a) =< i + One(split) /\ i + One(split) < First(call, a + 1) /\ split \in BOOLEAN
       /\ (split => First(call, a) = i + 1)
  BY <1>2 DEF Driven
<1>13. ASSUME ~split, i + 1 \in 1 .. W
       PROVE  z => k = a + 1
  <2>1. One(split) = 0
    BY <1>12, <1>13 DEF One
  <2>2. i \in Nat /\ i + One(split) = i
    BY <1>1, <2>1
  <2>3. First(call, a) =< i /\ i < First(call, a + 1)
    BY <1>12, <2>2
  <2> QED BY <1>1, <1>13, <2>2, <2>3, NextWord
<1> DEFINE Goal == /\ \E i2 \in 0 .. W, a2 \in 0 .. K :
                        /\ Driving(call, id, l, out', split, split', i, a, i2, a2)
                        /\ reqQ' = Slice(R, i2, W - i2)
                   /\ IsMaster(out') /\ out'.ar = {}
<1>14. ASSUME NEW i2, NEW a2, Driving(call, id, l, out', split, split', i, a, i2, a2),
              reqQ' = Slice(R, i2, W - i2), IsMaster(out'), out'.ar = {}
       PROVE  Goal
  <2>1. Driven(call, id, out', split', i2, a2)
    BY <1>1, <1>4, <1>14, DrivenNext
  <2>2. i2 \in 0 .. W /\ a2 \in 0 .. K
    BY <2>1 DEF Driven
  <2> QED BY <1>14, <2>2, Zenon
<1> HIDE DEF Goal
<1>15. ASSUME Hold(l, ready) PROVE Goal
  <2>1. out' = Ready(l, ready) /\ reqQ' = reqQ /\ split' = split
    BY <1>15 DEF Hold
  <2>2. IsMaster(out') /\ out'.aw = l.aw /\ out'.w = l.w /\ out'.ar = {}
    BY <1>3, <1>11, <2>1
  <2>3. Driving(call, id, l, out', split, split', i, a, i, a)
    BY <2>1, <2>2 DEF Driving
  <2>4. reqQ' = Slice(R, i, W - i)
    BY <1>2, <2>1
  <2> QED BY <1>14, <2>2, <2>3, <2>4, Zenon
<1>16. ASSUME IssueData(l, ready) PROVE Goal
  <2>1. split /\ split' = FALSE /\ reqQ' = Tail(reqQ)
        /\ out' = Ready([Head(reqQ) EXCEPT !.aw = IF l.aw = {} THEN {} ELSE @], ready)
    BY <1>16 DEF IssueData
  <2>2. i + 1 \in First(call, a) .. First(call, a + 1) - 1 /\ a \in 1 .. K /\ First(call, a) = i + 1
    <3>1. One(split) = 1 /\ First(call, a) = i + 1 /\ i + One(split) < First(call, a + 1)
      BY <1>12, <2>1 DEF One
    <3>2. First(call, a) \in Int /\ First(call, a + 1) \in Int
      <4>1. a \in 0 .. K + 1 /\ a + 1 \in 0 .. K + 1
        BY <1>1
      <4>2. First(call, a) \in 0 .. W + 1 /\ First(call, a + 1) \in 0 .. W + 1
        BY <1>1, <4>1, Ordered
      <4> QED BY <1>1, <4>2
    <3>3. a # 0
      BY <1>1, <3>1, Pieces
    <3> QED BY <1>1, <3>1, <3>2, <3>3
  <2>3. i + 1 \in 1 .. W /\ k = a /\ z
    <3>1. i + 1 \in 1 .. W /\ k = a
      BY <1>1, <2>2, PieceIsOne
    <3> QED BY <2>2, <3>1 DEF Starts
  <2>4. reqQ # <<>>
    <3>1. W - i \in Nat /\ W - i # 0 /\ i \in Int
      BY <1>1, <2>3
    <3> HIDE DEF W, R
    <3> QED BY <1>2, <3>1, Slices
  <2>5. Head(reqQ) = q /\ reqQ' = Slice(R, i + 1, W - (i + 1))
    BY <1>6, <2>1, <2>4
  <2> DEFINE x == IF l.aw = {} THEN {} ELSE q.aw
  <2>6. out' = Ready([q EXCEPT !.aw = x], ready)
    BY <2>1, <2>5
  <2>7. x = l.aw
    <3>1. l.aw = {} \/ l.aw = {BurstOf(call, a, id)}
      BY <1>4 DEF Driven
    <3>2. q.aw = {BurstOf(call, a, id)}
      BY <1>9, <2>3
    <3> QED BY <3>1, <3>2
  <2> HIDE DEF x
  <2>8. IsMaster([q EXCEPT !.aw = x]) /\ [q EXCEPT !.aw = x].aw = x /\ [q EXCEPT !.aw = x].w = q.w
        /\ [q EXCEPT !.aw = x].ar = q.ar
    BY <1>7, MasterFields
  <2>9. IsMaster(out') /\ out'.aw = l.aw /\ out'.w = {BeatOf(call, i + 1)} /\ out'.ar = {}
    BY <1>9, <1>11, <2>6, <2>7, <2>8
  <2>10. Driving(call, id, l, out', split, split', i, a, i + 1, a)
    BY <2>1, <2>3, <2>9 DEF Driving
  <2> QED BY <1>14, <2>5, <2>9, <2>10, Zenon
<1>17. ASSUME IssueWhole(l, ready) PROVE Goal
  <2>1. ~split /\ l.aw = {} /\ l.w = {} /\ reqQ # <<>> /\ reqQ' = Tail(reqQ) /\ split' = split
        /\ out' = Ready(Head(reqQ), ready)
    BY <1>17 DEF IssueWhole, CanIssue
  <2>2. i + 1 \in 1 .. W /\ Head(reqQ) = q /\ reqQ' = Slice(R, i + 1, W - (i + 1))
    BY <1>6, <2>1
  <2>3. z => k = a + 1
    BY <1>13, <2>1, <2>2
  <2>4. IsMaster(out') /\ out'.aw = q.aw /\ out'.w = {BeatOf(call, i + 1)} /\ out'.ar = {}
    BY <1>7, <1>9, <1>11, <2>1, <2>2
  <2>5. out'.aw = IF z THEN {BurstOf(call, a + 1, id)} ELSE {}
    BY <1>9, <2>3, <2>4
  <2>6. split' = FALSE
    BY <1>12, <2>1
  <2>7. Driving(call, id, l, out', split, split', i, a, i + 1, a + One(z))
    BY <2>1, <2>2, <2>4, <2>5, <2>6 DEF Driving
  <2> QED BY <1>14, <2>2, <2>4, <2>7, Zenon
<1>18. ASSUME IssueAddress(l, ready) PROVE Goal
  <2>1. ~split /\ l.aw = {} /\ l.w = {} /\ reqQ # <<>> /\ reqQ' = reqQ /\ split' = TRUE /\ Head(reqQ).aw # {}
        /\ out' = Ready([Head(reqQ) EXCEPT !.w = {}], ready)
    BY <1>18 DEF IssueAddress, CanIssue
  <2>2. i + 1 \in 1 .. W /\ Head(reqQ) = q
    BY <1>6, <2>1
  <2>3. z /\ k = a + 1
    BY <1>9, <1>13, <2>1, <2>2
  <2>4. IsMaster([q EXCEPT !.w = {}]) /\ [q EXCEPT !.w = {}].aw = q.aw /\ [q EXCEPT !.w = {}].w = {}
        /\ [q EXCEPT !.w = {}].ar = q.ar
    BY <1>7, MasterFields
  <2>5. IsMaster(out') /\ out'.aw = {BurstOf(call, a + 1, id)} /\ out'.w = {} /\ out'.ar = {}
    <3>1. out' = Ready([q EXCEPT !.w = {}], ready) /\ q.aw = {BurstOf(call, a + 1, id)}
      BY <1>9, <2>1, <2>2, <2>3
    <3> QED BY <1>9, <1>11, <2>4, <3>1
  <2>6. Driving(call, id, l, out', split, split', i, a, i, a + 1)
    BY <2>1, <2>2, <2>3, <2>5 DEF Driving
  <2>7. reqQ' = Slice(R, i, W - i)
    BY <1>2, <2>1
  <2> QED BY <1>14, <2>5, <2>6, <2>7, Zenon
<1>19. Goal
  BY <1>5, <1>15, <1>16, <1>17, <1>18
<1> QED BY <1>4, <1>19 DEF l, Goal

\* A beat is a word, and its strobes are lanes.
LEMMA BeatIs ==
  ASSUME NEW c \in Calls, NEW i \in 1 .. WordsIn(c)
  PROVE  BeatOf(c, i).data \in Word /\ BeatOf(c, i).strb \subseteq Lanes
<1> DEFINE off == PlaceIn(c, i) % 4
           size == SizeIn(c, i)
           from == Upto(c, i - 1)
           z == Len(c.data)
<1>1. IsBlock(c) /\ c.data \in Seq(ByteValues)
  BY CallsAreBlocks
<1>2. /\ off \in 0 .. 3 /\ off + size =< 4 /\ size \in 1 .. 4
      /\ from \in 0 .. z - 1 /\ from + size \in 0 .. z /\ z \in Nat
  <2>1. off + size =< 4
    BY <1>1, PlaceOfWord
  <2>2. size \in 1 .. 4 /\ from \in 0 .. z - 1 /\ Upto(c, i) \in 0 .. z /\ WordsIn(c) \in Nat
    BY <1>1, WordsOfBlock
  <2>3. size = Upto(c, i) - from
    BY DEF SizeIn
  <2>4. PlaceIn(c, i) \in Addrs
    BY <1>1, PlaceOfWord
  <2>5. off \in 0 .. 3 /\ z \in Nat
    <3>1. off \in 0 .. 3
      BY <2>4, Space
    <3> QED BY <1>1, <3>1
  <2> DEFINE u == Upto(c, i)
  <2> HIDE DEF off, size, from, z, u
  <2>6. u \in 0 .. z /\ size = u - from
    BY <2>2, <2>3 DEF u
  <2>7. from + size = u
    BY <2>2, <2>5, <2>6
  <2> QED BY <2>1, <2>2, <2>5, <2>6, <2>7
<1>3. BeatOf(c, i).data = DataOf(c, from, off, size) /\ BeatOf(c, i).strb = StrbOf(c, off, size)
  BY DEF BeatOf
<1> HIDE DEF off, size, from
<1>4. DataOf(c, from, off, size) \in Word
  <2> SUFFICES ASSUME NEW l \in Lanes
               PROVE  (IF \E x \in 0 .. size - 1 : off + x = l THEN c.data[from + (l - off) + 1] ELSE 0) \in ByteValues
    BY DEF DataOf, Word
  <2>1. CASE \E x \in 0 .. size - 1 : off + x = l
    <3>1. PICK x \in 0 .. size - 1 : off + x = l
      BY <2>1
    <3>2. from + (l - off) + 1 \in 1 .. z
      BY <1>2, <3>1
    <3>3. c.data[from + (l - off) + 1] \in ByteValues
      BY <1>1, <3>2
    <3> QED BY <2>1, <3>3
  <2>2. CASE ~ \E x \in 0 .. size - 1 : off + x = l
    BY <2>2, ByteAssumption
  <2> QED BY <2>1, <2>2
<1>5. StrbOf(c, off, size) \subseteq Lanes
  BY <1>2 DEF StrbOf, Lanes
<1> QED BY <1>3, <1>4, <1>5

\* What the memory accepts in a write is the next word of the block.
LEMMA PortInWrite ==
  ASSUME NEW accept, NEW id, NEW i, NEW a, NEW r, NEW s, NEW n,
         WriteEdge(accept, id, i, a, r, s, n), accept
  PROVE  /\ s + 1 \in 1 .. WordsIn(call)
         /\ ~PortReq.rd /\ PortReq.wr = BeatOf(call, s + 1).strb
         /\ PortReq.addr = WordNo(call, s + 1) /\ PortReq.data = BeatOf(call, s + 1).data
<1>1. /\ s + 1 \in 1 .. WordsIn(call) /\ n > 0 /\ wState = "wBurst" /\ ~wAllReqsSent
      /\ Head(wDataQueue) = BeatOf(call, s + 1)
  BY WordAccepted
<1>2. ~grantRead /\ grantWrite
  BY WriteSignals
<1>3. wDataQueue # <<>> /\ IsBlock(call)
  <2>1. (wDataQueue = <<>> <=> n = 0) /\ n \in 0 .. 4 /\ IsBlock(call)
    BY WriteNumbers
  <2> QED BY <1>1, <2>1
<1>4. wAddr = 4 * WordNo(call, s + 1)
  BY <1>1 DEF WriteEdge, WriteState, Writing
<1>5. WordOf(4 * WordNo(call, s + 1)) = WordNo(call, s + 1)
  BY <1>1, <1>3, PlaceOfWord
<1>6. PortReq.rd = grantRead /\ PortReq.wr = ramWstrb /\ PortReq.addr = WordOf(ramAddr) /\ PortReq.data = ramData
  BY DEF PortReq
<1>7. ramAddr = wAddr /\ ramWstrb = Head(wDataQueue).strb /\ ramData = Head(wDataQueue).data
  BY <1>2, <1>3 DEF ramAddr, ramWstrb, ramData
<1> QED BY <1>1, <1>2, <1>4, <1>5, <1>6, <1>7

\* A word with the lanes of a beat that are strobed written over.
Overwrite(word, b) == [l \in Lanes |-> IF l \in b.strb THEN b.data[l] ELSE word[l]]

LEMMA WriteStore ==
  ASSUME NEW accept, NEW id, NEW i, NEW a, NEW r, NEW s, NEW n,
         WriteEdge(accept, id, i, a, r, s, n)
  PROVE  /\ ~accept => store' = store
         /\ accept => store' = [store EXCEPT ![WordNo(call, s + 1)] =
                                   Overwrite(store[WordNo(call, s + 1)], BeatOf(call, s + 1))]
         /\ store' \in [0 .. NumWords - 1 -> Word]
<1>1. MemoryEdge(accept) /\ store \in [0 .. NumWords - 1 -> Word]
  BY EdgeParts DEF WriteEdge, TypeInv
<1>2. store' = IF accept /\ ~PortReq.rd
               THEN [store EXCEPT ![PortReq.addr] =
                      [l \in Lanes |-> IF l \in PortReq.wr THEN PortReq.data[l] ELSE store[PortReq.addr][l]]]
               ELSE store
  BY <1>1, Zenon DEF MemoryEdge
<1>3. CASE ~accept
  BY <1>1, <1>2, <1>3
<1>4. CASE accept
  <2> DEFINE b == BeatOf(call, s + 1)
             w == WordNo(call, s + 1)
             f == Overwrite(store[w], b)
  <2>1. /\ s + 1 \in 1 .. WordsIn(call)
        /\ ~PortReq.rd /\ PortReq.wr = b.strb /\ PortReq.addr = w /\ PortReq.data = b.data
    BY <1>4, PortInWrite
  <2>2. store' = [store EXCEPT ![w] = f]
    BY <1>2, <1>4, <2>1 DEF Overwrite
  <2>3. w \in 0 .. NumWords - 1
    BY <2>1, WriteNumbers, PlaceOfWord
  <2>4. b.data \in Word
    BY <2>1, BeatIs DEF WriteEdge
  <2> HIDE DEF b, w
  <2>5. f \in Word
    BY <1>1, <2>3, <2>4 DEF Word, Overwrite
  <2> HIDE DEF f
  <2>6. store' \in [0 .. NumWords - 1 -> Word]
    BY <1>1, <2>2, <2>3, <2>5
  <2> QED BY <1>4, <2>2, <2>6 DEF f, w, b
<1> QED BY <1>3, <1>4

LEMMA WriteNext ==
  ASSUME NEW accept, NEW id, NEW i, NEW a, NEW r, NEW s, NEW n, NEW r2, NEW s2, NEW n2,
         WriteEdge(accept, id, i, a, r, s, n),
         r2 = r + One(BFire(out)), s2 = s + One(accept), n2 = n + One(WFire(out)) - One(accept)
  PROVE  /\ TypeInv'
         /\ r2 \in 0 .. NumPieces(call) /\ s2 \in 0 .. WordsIn(call) /\ n2 \in 0 .. QUEUE_DEPTH
         /\ \E i2 \in 0 .. WordsIn(call), a2 \in 0 .. NumPieces(call) :
              /\ Driving(call, id, Untaken(Slave), out', split, split', i, a, i2, a2)
              /\ WriteState(id, i2, a2, r2, s2, n2)'
<1> DEFINE l == Untaken(Slave)
           W == WordsIn(call)
           K == NumPieces(call)
<1>1. /\ IsBlock(call) /\ W \in Nat \ {0} /\ K \in Nat \ {0} /\ i \in 0 .. W /\ a \in 0 .. K
      /\ r \in 0 .. K /\ s \in 0 .. W /\ n \in 0 .. 4
  BY WriteNumbers
<1>2. PICK i2 \in 0 .. W, a2 \in 0 .. K :
        /\ Driving(call, id, l, out', split, split', i, a, i2, a2)
        /\ reqQ' = Slice(WriteRequestsOf(call, id), i2, W - i2)
  BY DriverWrites
<1>3. Driven(call, id, l, split, i, a) /\ IsMaster(out') /\ out'.ar = {}
  BY DriverWrites
<1>4. WriteLoop(Slave) /\ call' = call /\ got' = got
  BY WriteLoops
<1>5. /\ Writing(call, id, r2, s2, n2)'
      /\ One(wState' # "wIdle") = One(wState # "wIdle") + One(AwFire(out)) - One(BFire(out))
      /\ wState' # "wBurst" => wAckPending' = 0
      /\ done' = Upto(call, s2)
  BY WritingNext
<1>6. /\ Driven(call, id, out', split', i2, a2)
      /\ i2 = i + One(out'.w # {}) - One(l.w # {})
      /\ a2 = a + One(out'.aw # {}) - One(l.aw # {})
  BY <1>1, <1>2, <1>3, DrivenNext
<1>7. IsMaster(out) /\ i = s + n + One(out.w # {}) /\ a = r + One(wState # "wIdle") + One(out.aw # {})
      /\ respPending = One(wState # "wIdle")
      /\ respQ = Slice(WriteResponsesOf(call, id), r, K - r)
  BY DEF WriteEdge, WriteState, TypeInv
<1>8. (l.w = IF WReady THEN {} ELSE out.w) /\ (l.aw = IF wState = "wIdle" THEN {} ELSE out.aw)
  BY <1>7, UntakenIs
<1> HIDE DEF l
<1>9. One(l.w # {}) = One(out.w # {}) - One(WFire(out)) /\ One(l.aw # {}) = One(out.aw # {}) - One(AwFire(out))
  <2>1. CASE WReady
    BY <1>8, <2>1 DEF One, WFire, AwFire
  <2>2. CASE ~WReady
    BY <1>8, <2>2 DEF One, WFire, AwFire
  <2> QED BY <2>1, <2>2
<1>10. One(out.w # {}) \in {0, 1} /\ One(out.aw # {}) \in {0, 1} /\ One(WFire(out)) \in {0, 1} /\ One(AwFire(out)) \in {0, 1}
       /\ One(BFire(out)) \in {0, 1} /\ One(accept) \in {0, 1} /\ One(out'.w # {}) \in {0, 1} /\ One(out'.aw # {}) \in {0, 1}
       /\ One(wState # "wIdle") \in {0, 1} /\ One(wState' # "wIdle") \in {0, 1}
  BY DEF One
<1> DEFINE ow == One(out.w # {})
           oa == One(out.aw # {})
           fw == One(WFire(out))
           fa == One(AwFire(out))
           fb == One(BFire(out))
           ac == One(accept)
           nw == One(out'.w # {})
           na == One(out'.aw # {})
           ws == One(wState # "wIdle")
           wt == One(wState' # "wIdle")
<1>11. i2 = s2 + n2 + nw /\ a2 = r2 + wt + na
  <2>1. /\ s2 = s + ac /\ n2 = n + fw - ac /\ i = s + n + ow /\ i2 = i + nw - (ow - fw)
        /\ r2 = r + fb /\ a = r + ws + oa /\ a2 = a + na - (oa - fa) /\ wt = ws + fa - fb
    BY <1>5, <1>6, <1>7, <1>9
  <2>2. ow \in Int /\ oa \in Int /\ fw \in Int /\ fa \in Int /\ fb \in Int /\ ac \in Int /\ nw \in Int /\ na \in Int /\ ws \in Int
        /\ r \in Int /\ s \in Int /\ n \in Int
    BY <1>1, <1>10
  <2> HIDE DEF ow, oa, fw, fa, fb, ac, nw, na, ws, wt
  <2>3. i2 = s2 + n2 + nw
    BY <2>1, <2>2
  <2>4. a2 = r2 + wt + na
    BY <2>1, <2>2
  <2> QED BY <2>3, <2>4 DEF nw, wt, na
<1>12. respPending' = wt
  <2>1. respPending' = respPending + Count(out.aw # {} /\ Slave.awready) - Count(Slave.bvalid /\ out.bready)
    BY <1>4, Zenon DEF WriteLoop
  <2>2. Count(out.aw # {} /\ Slave.awready) = fa /\ Count(Slave.bvalid /\ out.bready) = fb
    BY DEF Count, One, Slave, AwFire, BFire
  <2> QED BY <1>5, <1>7, <2>1, <2>2
<1>13. respQ' = Slice(WriteResponsesOf(call, id), r2, K - r2)
  <2>1. respQ' = IF BFire(out) THEN Tail(respQ) ELSE respQ
    BY <1>4 DEF WriteLoop, Slave, BFire
  <2>2. CASE ~BFire(out)
    <3>1. r2 = r
      BY <1>1, <2>2 DEF One
    <3> QED BY <1>7, <2>1, <2>2, <3>1
  <2>3. CASE BFire(out)
    <3>1. r2 = r + 1
      BY <1>1, <2>3 DEF One
    <3>2. wState # "wIdle"
      BY <2>3 DEF BFire, BValid
    <3>3. r + 1 \in 1 .. K
      BY <3>2, WordAccepted
    <3> DEFINE m == K - r
    <3>4. m \in Nat /\ m > 0 /\ r \in Int /\ m - 1 = K - (r + 1)
      BY <1>1, <3>3
    <3>5. respQ = Slice(WriteResponsesOf(call, id), r, m)
      BY <1>7
    <3> HIDE DEF m
    <3>6. Tail(Slice(WriteResponsesOf(call, id), r, m)) = Slice(WriteResponsesOf(call, id), r + 1, m - 1)
      BY <3>4, Slices
    <3> QED BY <2>1, <2>3, <3>1, <3>4, <3>5, <3>6
  <2> QED BY <2>2, <2>3
<1>14. ReadsQuiet'
  BY <1>3, WriteLeavesReads DEF ReadsQuiet
<1>15. /\ due' \in Seq(SUBSET Word) /\ Len(due') =< MaxDue
       /\ due' = [j \in 1 .. Len(due') |-> {}] /\ answer' \in {{}, {EmptyWord}}
       /\ wAckPending' = Len(due') + One(answer' # {})
  BY WriteOwed
<1>16. TypeInv'
  <2>1. store' \in [0 .. NumWords - 1 -> Word]
    BY WriteStore
  <2>2. got' \in Seq(ByteValues)
    BY <1>4 DEF WriteEdge, TypeInv
  <2>3. lastGrant' \in {"read", "write"}
    <3>1. Arbiter(accept) /\ lastGrant \in {"read", "write"}
      BY EdgeParts DEF WriteEdge, TypeInv
    <3> QED BY <3>1 DEF Arbiter
  <2> QED BY <1>3, <1>15, <2>1, <2>2, <2>3 DEF TypeInv
<1>17. WriteState(id, i2, a2, r2, s2, n2)'
  BY <1>2, <1>4, <1>5, <1>6, <1>11, <1>12, <1>13, <1>14, <1>15, Zenon DEF WriteState
<1>18. r2 \in 0 .. K /\ s2 \in 0 .. W /\ n2 \in 0 .. QUEUE_DEPTH
  <2>1. call' = call /\ (r2 \in 0 .. NumPieces(call') /\ s2 \in 0 .. WordsIn(call') /\ n2 \in 0 .. QUEUE_DEPTH)
    BY <1>4, <1>5, Zenon DEF Writing
  <2> QED BY <2>1
<1> QED BY <1>2, <1>16, <1>17, <1>18 DEF l

------------------------------------------------------------------------------
\* An edge in a read.

ReadEdge(accept, id, q, g, p, m, d) ==
  /\ call \in Calls /\ call.op = "read" /\ TypeInv
  /\ accept \in BOOLEAN
  /\ ReadState(id, q, g, p, m, d)
  /\ Looping
  /\ Edge(accept)

LEMMA ReadNumbers ==
  ASSUME NEW accept, NEW id, NEW q, NEW g, NEW p, NEW m, NEW d,
         ReadEdge(accept, id, q, g, p, m, d)
  PROVE  /\ IsBlock(call) /\ WordsIn(call) \in Nat \ {0} /\ NumPieces(call) \in Nat \ {0}
         /\ q \in 0 .. NumPieces(call) /\ g \in 0 .. NumPieces(call) /\ p \in 0 .. WordsIn(call)
         /\ m \in 0 .. 4 /\ d \in 0 .. 4
         /\ Len(rDataQ) = m /\ (rDataQ = <<>> <=> m = 0)
         /\ Len(due) = d /\ d =< MaxDue /\ MaxDue \in 1 .. 14
         /\ rAckPending = d + One(answer # {}) /\ rOutstanding = rAckPending + m
         /\ rOutstanding \in 0 .. 4 /\ p + rOutstanding \in 0 .. WordsIn(call)
<1>1. IsBlock(call) /\ WordsIn(call) \in Nat \ {0} /\ NumPieces(call) \in Nat \ {0}
  BY CallsAreBlocks, WordsOfBlock, Pieces DEF ReadEdge
<1>2. Reading(call, id, g, p, m, d) /\ q \in 0 .. NumPieces(call)
  BY DEF ReadEdge, ReadState
<1>3. g \in 0 .. NumPieces(call) /\ p \in 0 .. WordsIn(call) /\ m \in 0 .. 4 /\ d \in 0 .. 4
  BY <1>2 DEF Reading, QUEUE_DEPTH
<1>4. rDataQ = Slice(WordsStored(call), p, m)
      /\ due = Slice(Singles(WordsStored(call)), p + m + One(answer # {}), d)
  BY <1>2 DEF Reading
<1>5. One(answer # {}) \in {0, 1} /\ p \in Int /\ p + m + One(answer # {}) \in Int /\ m \in Nat /\ d \in Nat
  BY <1>1, <1>3 DEF One
<1>6. Len(rDataQ) = m /\ (rDataQ = <<>> <=> m = 0)
  BY <1>4, <1>5, Slices
<1>7. Len(due) = d
  BY <1>4, <1>5, Slices
<1>8. Len(due) =< MaxDue /\ MaxDue \in 1 .. 14
  BY DueAssumption DEF ReadEdge, TypeInv
<1>9. rAckPending = d + One(answer # {}) /\ rOutstanding = rAckPending + m /\ rOutstanding =< 4
  BY <1>2 DEF Reading, QUEUE_DEPTH
<1>10. rOutstanding \in 0 .. 4
  <2> DEFINE x == One(answer # {})
  <2>1. rOutstanding = d + x + m /\ rOutstanding =< 4 /\ x \in {0, 1} /\ d \in 0 .. 4 /\ m \in 0 .. 4
    <3>1. x \in {0, 1}
      BY <1>5
    <3>2. rAckPending = d + x /\ rOutstanding = rAckPending + m
      BY <1>9
    <3> HIDE DEF x
    <3> QED BY <1>3, <1>9, <3>1, <3>2
  <2> HIDE DEF x
  <2> QED BY <2>1
<1>11. First(call, g + 1) \in 0 .. WordsIn(call) + 1
  <2>1. g + 1 \in 0 .. NumPieces(call) + 1
    BY <1>1, <1>3
  <2> QED BY <1>1, <2>1, Ordered
<1>12. p + rOutstanding \in 0 .. WordsIn(call)
  <2>1. CASE rState = "rIdle"
    <3>1. rOutstanding = 0
      BY <1>2, <2>1 DEF Reading
    <3> QED BY <1>3, <3>1
  <2>2. CASE rState # "rIdle"
    <3>1. /\ rAllReqsSent \in BOOLEAN
          /\ rAllReqsSent => p + rOutstanding + 1 = First(call, g + 1)
          /\ ~rAllReqsSent => rReqCnt = First(call, g + 1) - (p + rOutstanding) - 2 /\ rReqCnt >= 0
      BY <1>2, <2>2 DEF Reading
    <3> DEFINE f == First(call, g + 1)
               W == WordsIn(call)
               o == rOutstanding
    <3>2. f \in 0 .. W + 1 /\ W \in Nat /\ p \in 0 .. W /\ o \in 0 .. 4
          /\ (p + o + 1 = f \/ f - (p + o) - 2 >= 0)
      BY <1>1, <1>3, <1>10, <1>11, <3>1
    <3> HIDE DEF f, W, o
    <3>3. p + o \in 0 .. W
      BY <3>2
    <3> QED BY <3>3 DEF o, W
  <2> QED BY <2>1, <2>2
<1> QED BY <1>1, <1>2, <1>3, <1>6, <1>7, <1>8, <1>9, <1>10, <1>12

LEMMA ReadSignals ==
  ASSUME NEW accept, NEW id, NEW q, NEW g, NEW p, NEW m, NEW d,
         ReadEdge(accept, id, q, g, p, m, d)
  PROVE  /\ ~grantWrite /\ ~AwFire(out) /\ ~WFire(out) /\ ~BFire(out) /\ ~ackToWrite(answer # {})
         /\ grantRead <=> rState = "rBurst" /\ ~rAllReqsSent /\ rOutstanding < 4
         /\ accept => grantRead
         /\ ackToRead(answer # {}) <=> answer # {}
         /\ RFire(out) => m > 0 /\ rState = "rBurst"
<1>1. wState = "wIdle" /\ wAckPending = 0 /\ out.aw = {} /\ out.w = {}
  BY DEF ReadEdge, ReadState, WritesQuiet
<1>2. ~grantWrite /\ ~AwFire(out) /\ ~WFire(out) /\ ~BFire(out) /\ ~ackToWrite(answer # {})
  BY <1>1 DEF grantWrite, WriteAsks, wReqRam, AwFire, WFire, BFire, BValid, ackToWrite
<1>3. grantRead <=> rState = "rBurst" /\ ~rAllReqsSent /\ rOutstanding < 4
  BY <1>1, <1>2 DEF grantRead, ReadAsks, rReqRam, QUEUE_DEPTH
<1>4. accept => grantRead
  <2>1. accept => Pending
    BY DEF ReadEdge, Edge, MemoryEdge
  <2> QED BY <1>2, <2>1 DEF Pending, PortReq, ramWstrb
<1>5. ackToRead(answer # {}) <=> answer # {}
  <2>1. rAckPending = d + One(answer # {}) /\ d \in 0 .. 4
    BY ReadNumbers
  <2> QED BY <2>1 DEF ackToRead, One
<1>6. RFire(out) => m > 0 /\ rState = "rBurst"
  <2>1. (rDataQ = <<>> <=> m = 0) /\ m \in 0 .. 4
    BY ReadNumbers
  <2> QED BY <2>1 DEF RFire, RValid
<1> QED BY <1>2, <1>3, <1>4, <1>5, <1>6

LEMMA ReadLeavesWrites ==
  ASSUME NEW accept, NEW id, NEW q, NEW g, NEW p, NEW m, NEW d,
         ReadEdge(accept, id, q, g, p, m, d)
  PROVE  wState' = "wIdle" /\ wDataQueue' = <<>> /\ wAckPending' = 0
<1>1. wState = "wIdle" /\ wAckPending = 0 /\ out.aw = {} /\ out.w = {} /\ wDataQueue = <<>>
  BY DEF ReadEdge, ReadState, WritesQuiet
<1>2. ~grantWrite /\ ~AwFire(out) /\ ~WFire(out) /\ ~BFire(out) /\ ~ackToWrite(answer # {})
  BY ReadSignals
<1>3. WriteFsm(out, accept) /\ Counters(out, accept, answer # {}) /\ WriteQueue(out, accept)
  BY EdgeParts DEF ReadEdge
<1>4. wState' = "wIdle"
  BY <1>1, <1>3 DEF WriteFsm, WriteIdle, WriteStart, WriteBurst, WriteResp, writeVars
<1>5. wDataQueue' = <<>>
  BY <1>1, <1>2, <1>3 DEF WriteQueue
<1>6. wAckPending' = 0
  BY <1>1, <1>2, <1>3 DEF Counters, One
<1> QED BY <1>4, <1>5, <1>6

LEMMA ReadLoops ==
  ASSUME NEW accept, NEW id, NEW q, NEW g, NEW p, NEW m, NEW d,
         ReadEdge(accept, id, q, g, p, m, d)
  PROVE  ReadLoop(Slave) /\ call' = call /\ split' = split
<1>1. DriverEdge(Slave) /\ call.op = "read" /\ Looping
  BY EdgeParts DEF ReadEdge
<1>2. ReadLoop(Slave)
  BY <1>1, Zenon DEF DriverEdge, WriteLoop, NoLoop
<1> QED BY <1>2 DEF ReadLoop

\* The memory is read at the next word of the block.
LEMMA PortInRead ==
  ASSUME NEW accept, NEW id, NEW q, NEW g, NEW p, NEW m, NEW d,
         ReadEdge(accept, id, q, g, p, m, d), accept
  PROVE  LET u == p + rOutstanding + 1
         IN /\ PortReq.rd /\ PortReq.addr = WordNo(call, u)
            /\ u \in 1 .. WordsIn(call) /\ u < First(call, g + 1) /\ rOutstanding < 4
            /\ rState = "rBurst" /\ ~rAllReqsSent
<1>1. grantRead /\ rState = "rBurst" /\ ~rAllReqsSent /\ rOutstanding < 4
  BY ReadSignals
<1>2. /\ rReqCnt = First(call, g + 1) - (p + rOutstanding) - 2 /\ rReqCnt >= 0
      /\ rAddr = 4 * WordNo(call, p + rOutstanding + 1)
  BY <1>1 DEF ReadEdge, ReadState, Reading
<1>3. /\ First(call, g + 1) \in 0 .. WordsIn(call) + 1 /\ WordsIn(call) \in Nat /\ p + rOutstanding \in Nat
      /\ p \in Nat /\ rOutstanding \in Nat /\ IsBlock(call)
  <2>1. g + 1 \in 0 .. NumPieces(call) + 1 /\ IsBlock(call)
    <3>1. g \in 0 .. NumPieces(call) /\ NumPieces(call) \in Nat \ {0} /\ IsBlock(call)
      BY ReadNumbers
    <3> QED BY <3>1
  <2>2. p \in 0 .. WordsIn(call) /\ rOutstanding \in 0 .. 4 /\ WordsIn(call) \in Nat \ {0}
    BY ReadNumbers
  <2> QED BY <2>1, <2>2, Ordered
<1> DEFINE u == p + rOutstanding + 1
           f == First(call, g + 1)
           W == WordsIn(call)
<1>4. u \in 1 .. W /\ u < f
  <2>1. f - (p + rOutstanding) - 2 >= 0 /\ f \in 0 .. W + 1
    BY <1>2, <1>3
  <2> HIDE DEF f, W
  <2> QED BY <1>3, <2>1 DEF W
<1>5. WordOf(4 * WordNo(call, u)) = WordNo(call, u)
  BY <1>3, <1>4, PlaceOfWord
<1>6. PortReq.rd = grantRead /\ PortReq.addr = WordOf(ramAddr) /\ ramAddr = rAddr
  BY <1>1 DEF PortReq, ramAddr
<1>7. grantRead = TRUE
  BY <1>1 DEF grantRead
<1> QED BY <1>1, <1>2, <1>4, <1>5, <1>6, <1>7

LEMMA ReadStore ==
  ASSUME NEW accept, NEW id, NEW q, NEW g, NEW p, NEW m, NEW d,
         ReadEdge(accept, id, q, g, p, m, d)
  PROVE  store' = store /\ done' = done
<1>1. accept => PortReq.rd
  BY PortInRead
<1>2. MemoryEdge(accept) /\ Progress(accept)
  BY EdgeParts DEF ReadEdge
<1> QED BY <1>1, <1>2 DEF MemoryEdge, Progress

LEMMA ReadOwed ==
  ASSUME NEW accept, NEW id, NEW q, NEW g, NEW p, NEW m, NEW d,
         ReadEdge(accept, id, q, g, p, m, d)
  PROVE  LET L == WordsStored(call)
             v == p + m + One(answer # {})
         IN \E d2 \in Nat :
              /\ d2 + One(answer' # {}) = d + One(accept)
              /\ answer' = {} \/ answer' = {L[v + 1]}
              /\ due' = Slice(Singles(L), v + One(answer' # {}), d2)
              /\ d2 =< MaxDue
<1> DEFINE L == WordsStored(call)
           S == Singles(L)
           x == One(answer # {})
           v == p + m + x
           W == WordsIn(call)
           owing == IF ~accept THEN due ELSE Append(due, IF PortReq.rd THEN {store[PortReq.addr]} ELSE {})
           n == d + One(accept)
<1>1. /\ W \in Nat /\ p \in 0 .. W /\ m \in 0 .. 4 /\ d \in 0 .. 4 /\ x \in {0, 1} /\ accept \in BOOLEAN
      /\ rOutstanding = d + x + m /\ p + rOutstanding \in 0 .. W /\ d =< MaxDue /\ MaxDue \in Nat
  <2>1. x \in {0, 1} /\ accept \in BOOLEAN
    BY DEF One, ReadEdge
  <2>2. rAckPending = d + x /\ rOutstanding = rAckPending + m /\ d \in 0 .. 4 /\ m \in 0 .. 4
    BY ReadNumbers
  <2>3. W \in Nat \ {0} /\ p \in 0 .. W /\ p + rOutstanding \in 0 .. W /\ d =< MaxDue /\ MaxDue \in 1 .. 14
    BY ReadNumbers
  <2> HIDE DEF x, W
  <2> QED BY <2>1, <2>2, <2>3
<1>2. One(accept) = (IF accept THEN 1 ELSE 0) /\ n \in Nat /\ v \in Nat
  BY <1>1 DEF One
<1>3. due = Slice(S, v, d)
  BY DEF ReadEdge, ReadState, Reading
<1>4. \A k \in 1 .. W : L[k] = store[WordNo(call, k)] /\ S[k] = {L[k]}
  BY DEF WordsStored, Singles
<1>5. /\ accept => Len(due) < MaxDue
      /\ \/ answer' = {} /\ due' = owing
         \/ /\ owing # <<>>
            /\ answer' = IF Head(owing) = {} THEN {EmptyWord} ELSE Head(owing)
            /\ due' = Tail(owing)
  <2>1. MemoryEdge(accept)
    BY EdgeParts DEF ReadEdge
  <2> QED BY <2>1, Zenon DEF MemoryEdge
<1>6. owing = Slice(S, v, n) /\ v + n \in 0 .. W
  <2>1. CASE ~accept
    <3>1. n = d /\ v + n = p + rOutstanding /\ owing = due
      <4> HIDE DEF x, W
      <4> QED BY <1>1, <1>2, <2>1
    <3> HIDE DEF owing, W
    <3> QED BY <1>1, <1>3, <3>1
  <2>2. CASE accept
    <3> DEFINE u == p + rOutstanding + 1
    <3>1. PortReq.rd /\ PortReq.addr = WordNo(call, u) /\ u \in 1 .. W
      BY <2>2, PortInRead
    <3>2. n = d + 1 /\ u = v + d + 1 /\ v + n = u
      <4> HIDE DEF x, W
      <4> QED BY <1>1, <1>2, <2>2
    <3>3. owing = Append(due, {store[WordNo(call, u)]})
      BY <2>2, <3>1
    <3> HIDE DEF owing, u
    <3>4. {store[WordNo(call, u)]} = S[u]
      BY <1>4, <3>1
    <3> HIDE DEF L, S, v, n, W
    <3>5. Append(Slice(S, v, d), S[u]) = Slice(S, v, d + 1)
      <4>1. v \in Int /\ d \in Nat
        BY <1>1, <1>2
      <4>2. \A y : y = S[v + d + 1] => Append(Slice(S, v, d), y) = Slice(S, v, d + 1)
        BY <4>1, Slices
      <4> QED BY <3>2, <4>2
    <3> QED BY <1>1, <1>3, <3>1, <3>2, <3>3, <3>4, <3>5
  <2> QED BY <1>1, <2>1, <2>2
<1> HIDE DEF owing
<1>7. CASE answer' = {} /\ due' = owing
  <2>1. One(answer' # {}) = 0
    BY <1>7 DEF One
  <2>2. n + One(answer' # {}) = n /\ v + One(answer' # {}) = v
    <3> HIDE DEF n, v
    <3> QED BY <1>2, <2>1
  <2>3. n =< MaxDue
    <3>1. accept => d < MaxDue
      <4>1. Len(due) = d
        BY ReadNumbers
      <4> QED BY <1>5, <4>1
    <3> QED BY <1>1, <1>2, <3>1
  <2> HIDE DEF n, v, S, L
  <2>4. due' = Slice(S, v + One(answer' # {}), n)
    BY <1>6, <1>7, <2>2
  <2> QED BY <1>2, <1>7, <2>2, <2>3, <2>4, Zenon DEF n, v, S, L
<1>8. CASE /\ owing # <<>>
           /\ answer' = IF Head(owing) = {} THEN {EmptyWord} ELSE Head(owing)
           /\ due' = Tail(owing)
  <2>1. v \in Int /\ n \in Nat
    BY <1>2
  <2> HIDE DEF n, v, S, L, W
  <2>2. n # 0 /\ n > 0
    BY <1>6, <1>8, <2>1, EmptySlice
  <2>3. Head(owing) = S[v + 1] /\ Tail(owing) = Slice(S, v + 1, n - 1)
    <3>1. Head(Slice(S, v, n)) = S[v + 1] /\ Tail(Slice(S, v, n)) = Slice(S, v + 1, n - 1)
      BY <2>1, <2>2, Slices
    <3> QED BY <1>6, <3>1
  <2>4. v + 1 \in 1 .. W
    BY <1>1, <1>2, <1>6, <2>2
  <2>5. S[v + 1] = {L[v + 1]}
    BY <1>4, <2>4
  <2>6. answer' = {L[v + 1]} /\ One(answer' # {}) = 1
    BY <1>8, <2>3, <2>5 DEF One
  <2>7. n - 1 \in Nat /\ (n - 1) + One(answer' # {}) = n /\ due' = Slice(S, v + One(answer' # {}), n - 1)
    <3> DEFINE y == One(answer' # {})
    <3>1. y = 1
      BY <2>6
    <3>2. due' = Slice(S, v + 1, n - 1)
      BY <1>8, <2>3
    <3> HIDE DEF y
    <3>3. n - 1 \in Nat /\ (n - 1) + y = n /\ v + y = v + 1
      BY <2>1, <2>2, <3>1
    <3> QED BY <3>2, <3>3 DEF y
  <2>8. n - 1 =< MaxDue
    <3>1. n = d \/ n = d + 1
      BY <1>1, <1>2 DEF n
    <3> QED BY <1>1, <3>1
  <2> QED BY <2>6, <2>7, <2>8, Zenon DEF n, v, S, L
<1> QED BY <1>5, <1>7, <1>8

LEMMA ReadQueueNext ==
  ASSUME NEW accept, NEW id, NEW q, NEW g, NEW p, NEW m, NEW d, NEW p2, NEW m2,
         ReadEdge(accept, id, q, g, p, m, d),
         p2 = p + One(RFire(out)), m2 = m + One(answer # {}) - One(RFire(out))
  PROVE  p2 \in 0 .. WordsIn(call) /\ m2 \in 0 .. 4 /\ rDataQ' = Slice(WordsStored(call), p2, m2)
<1> DEFINE L == WordsStored(call)
           x == One(answer # {})
           y == One(RFire(out))
           kept == IF RFire(out) THEN Tail(rDataQ) ELSE rDataQ
           word == IF answer # {} THEN CHOOSE v \in answer : TRUE ELSE EmptyWord
<1>1. /\ answer # {} => x = 1
      /\ answer = {} => x = 0
      /\ RFire(out) => y = 1 /\ m > 0
      /\ ~RFire(out) => y = 0
  <2>1. RFire(out) => m > 0
    BY ReadSignals
  <2> QED BY <2>1 DEF One
<1>2. /\ WordsIn(call) \in Nat /\ p \in 0 .. WordsIn(call) /\ m \in 0 .. 4 /\ d \in 0 .. 4
      /\ rAckPending = d + x /\ rOutstanding = rAckPending + m
      /\ rOutstanding \in 0 .. 4 /\ p + rOutstanding \in 0 .. WordsIn(call)
      /\ Len(rDataQ) = m
  BY ReadNumbers
<1>3. rDataQ = Slice(L, p, m) /\ (answer = {} \/ answer = {L[p + m + 1]})
  BY DEF ReadEdge, ReadState, Reading
<1> DEFINE W == WordsIn(call)
<1>4. /\ p \in Nat /\ m \in Nat /\ p + y \in Int /\ m - y \in Nat
      /\ answer # {} => m < 4
      /\ p + y \in 0 .. W /\ m + x - y \in 0 .. 4
      /\ (p + y) + (m - y) + 1 = p + m + 1
      /\ answer = {} => m + x - y = m - y
      /\ answer # {} => m + x - y = (m - y) + 1
      /\ RFire(out) => p + y = p + 1 /\ m - y = m - 1
      /\ ~RFire(out) => p + y = p /\ m - y = m
  <2> DEFINE A == answer # {}
             R == RFire(out)
  <2>1. (A => x = 1) /\ (~A => x = 0) /\ (R => y = 1 /\ m > 0) /\ (~R => y = 0)
    BY <1>1
  <2>2. /\ W \in Nat /\ p \in 0 .. W /\ m \in 0 .. 4 /\ d \in 0 .. 4
        /\ d + x + m \in 0 .. 4 /\ p + (d + x + m) \in 0 .. W
    BY <1>2
  <2> HIDE DEF A, R, x, y, W
  <2>3. p \in Nat /\ m \in Nat /\ y \in {0, 1} /\ x \in {0, 1} /\ m >= y
    BY <2>1, <2>2
  <2>4. A => m < 4
    BY <2>1, <2>2
  <2>5. p + y \in 0 .. W
    BY <2>1, <2>2
  <2>6. m + x - y \in 0 .. 4
    BY <2>2, <2>3
  <2>7. (p + y) + (m - y) + 1 = p + m + 1 /\ m - y \in Nat /\ p + y \in Int
    BY <2>3
  <2> QED BY <2>1, <2>3, <2>4, <2>5, <2>6, <2>7 DEF A, R
<1>5. kept = Slice(L, p + y, m - y)
  <2>1. CASE RFire(out)
    <3>1. m > 0
      BY <1>1, <2>1
    <3> HIDE DEF L
    <3>2. Tail(Slice(L, p, m)) = Slice(L, p + 1, m - 1)
      BY <1>4, <3>1, Slices
    <3> QED BY <1>3, <1>4, <2>1, <3>2
  <2>2. CASE ~RFire(out)
    BY <1>3, <1>4, <2>2
  <2> QED BY <2>1, <2>2
<1>6. rDataQ' = IF answer # {} THEN Append(kept, word) ELSE kept
  <2>1. ReadQueue(out, answer # {}, word)
    BY EdgeParts DEF ReadEdge
  <2>2. ackToRead(answer # {}) <=> answer # {}
    BY ReadSignals
  <2>3. ackToRead(answer # {}) /\ Len(rDataQ) < QUEUE_DEPTH <=> answer # {}
    BY <1>2, <1>4, <2>2 DEF QUEUE_DEPTH
  <2> HIDE DEF word
  <2> QED BY <2>1, <2>3 DEF ReadQueue
<1>7. CASE answer = {}
  <2> HIDE DEF L, kept, x, y
  <2>1. rDataQ' = Slice(L, p + y, m + x - y)
    BY <1>4, <1>5, <1>6, <1>7
  <2> QED BY <1>4, <2>1 DEF x, y, L
<1>8. CASE answer # {}
  <2>1. word = L[p + m + 1]
    BY <1>3, <1>8
  <2> HIDE DEF L, kept, x, y, word
  <2>2. Append(Slice(L, p + y, m - y), word) = Slice(L, p + y, (m - y) + 1)
    <3>1. \A v : v = L[(p + y) + (m - y) + 1] => Append(Slice(L, p + y, m - y), v) = Slice(L, p + y, (m - y) + 1)
      BY <1>4, Slices
    <3> QED BY <1>4, <2>1, <3>1
  <2>3. rDataQ' = Slice(L, p + y, m + x - y)
    BY <1>4, <1>5, <1>6, <1>8, <2>2
  <2> QED BY <1>4, <2>3 DEF x, y, L
<1> QED BY <1>7, <1>8

\* What is asked for and not returned is what the memory owes and what is queued.
LEMMA ReadCountersNext ==
  ASSUME NEW accept, NEW id, NEW q, NEW g, NEW p, NEW m, NEW d, NEW p2, NEW m2, NEW d2 \in Nat,
         ReadEdge(accept, id, q, g, p, m, d),
         p2 = p + One(RFire(out)), m2 = m + One(answer # {}) - One(RFire(out)),
         d2 + One(answer' # {}) = d + One(accept)
  PROVE  /\ rAckPending' = d2 + One(answer' # {}) /\ rOutstanding' = rAckPending' + m2
         /\ rOutstanding' \in 0 .. 4 /\ d2 \in 0 .. 4
         /\ rOutstanding' = (rOutstanding + One(accept)) - One(RFire(out))
         /\ p2 + rOutstanding' = p + rOutstanding + One(accept)
<1> DEFINE x == One(answer # {})
           y == One(RFire(out))
           z == One(accept)
           v == One(answer' # {})
<1>1. /\ x \in {0, 1} /\ y \in {0, 1} /\ z \in {0, 1} /\ v \in {0, 1}
      /\ y = 1 => m > 0
      /\ z = 1 => rOutstanding < 4
  <2>1. RFire(out) => m > 0
    BY ReadSignals
  <2>2. accept => rOutstanding < 4
    BY PortInRead
  <2> QED BY <2>1, <2>2 DEF One
<1>2. /\ p \in Nat /\ m \in 0 .. 4 /\ d \in 0 .. 4
      /\ rAckPending = d + x /\ rOutstanding = rAckPending + m /\ rOutstanding \in 0 .. 4
  <2>1. WordsIn(call) \in Nat \ {0} /\ p \in 0 .. WordsIn(call)
    BY ReadNumbers
  <2>2. p \in Nat
    BY <2>1
  <2> QED BY <2>2, ReadNumbers
<1>3. /\ rAckPending' = (rAckPending + z - x) % 16
      /\ rOutstanding' = (rOutstanding + z - y) % 16
  <2>1. Counters(out, accept, answer # {})
    BY EdgeParts DEF ReadEdge
  <2>2. One(grantRead /\ accept) = z
    <3>1. accept => grantRead
      BY ReadSignals
    <3> QED BY <3>1 DEF One
  <2>3. One(ackToRead(answer # {})) = x
    <3>1. ackToRead(answer # {}) <=> answer # {}
      BY ReadSignals
    <3> QED BY <3>1 DEF One
  <2> HIDE DEF x, y, z
  <2> QED BY <2>1, <2>2, <2>3 DEF Counters, y
<1>4. m2 = m + x - y /\ p2 = p + y /\ d2 + v = d + z
  OBVIOUS
<1> HIDE DEF x, y, z, v
<1>5. rAckPending + z - x \in 0 .. 15 /\ rOutstanding + z - y \in 0 .. 4 /\ rAckPending + z - x = d + z
  BY <1>1, <1>2
<1>6. \A k \in 0 .. 15 : k % 16 = k
  OBVIOUS
<1>7. rAckPending' = d + z /\ rOutstanding' = rOutstanding + z - y
  BY <1>3, <1>5, <1>6
<1>8. rAckPending' = d2 + v
  BY <1>4, <1>7
<1>9. rOutstanding' = rAckPending' + m2 /\ rOutstanding' = (rOutstanding + z) - y
  BY <1>1, <1>2, <1>4, <1>7
<1>10. rOutstanding' \in 0 .. 4
  BY <1>5, <1>7
<1>11. d2 \in 0 .. 4
  <2>1. m2 \in Nat
    BY <1>1, <1>2, <1>4
  <2> QED BY <1>1, <1>8, <1>9, <1>10, <2>1
<1>12. p2 + rOutstanding' = p + rOutstanding + z
  BY <1>1, <1>2, <1>4, <1>7
<1> QED BY <1>8, <1>9, <1>10, <1>11, <1>12 DEF x, y, z, v

\* What Reading says of the state machine, after an edge.
ReadFsmNext(id, g, p) ==
  /\ rState' \in {"rIdle", "rBurst"}
  /\ rState' = "rIdle" => p + 1 = First(call, g + 1) /\ rOutstanding' = 0
  /\ rState' = "rBurst" =>
       /\ g > 0
       /\ rId' = id[g]
       /\ rAsked' = {BurstOf(call, g, id)}
       /\ rBurst' = [type |-> BurstOf(call, g, id).type, len |-> BurstOf(call, g, id).len]
       /\ First(call, g) =< p + 1
       /\ rRespCnt' = First(call, g + 1) - p - 2 /\ rRespCnt' >= 0
       /\ rAllReqsSent' \in BOOLEAN
       /\ rAllReqsSent' => p + rOutstanding' + 1 = First(call, g + 1)
       /\ ~rAllReqsSent' =>
            /\ rReqCnt' = First(call, g + 1) - (p + rOutstanding') - 2 /\ rReqCnt' >= 0
            /\ rAddr' = 4 * WordNo(call, p + rOutstanding' + 1)

LEMMA ReadStarts ==
  ASSUME NEW accept, NEW id, NEW q, NEW g, NEW p, NEW m, NEW d, NEW d2 \in Nat,
         ReadEdge(accept, id, q, g, p, m, d), rState = "rIdle",
         d2 + One(answer' # {}) = d + One(accept)
  PROVE  /\ IF out.ar = {} THEN rState' = "rIdle" ELSE rState' = "rBurst"
         /\ ReadFsmNext(id, q, p) /\ ~accept /\ ~RFire(out) /\ (ArFire(out) <=> out.ar # {})
<1>1. ~accept /\ ~RFire(out) /\ (ArFire(out) <=> out.ar # {})
  <2>1. accept => rState = "rBurst"
    BY ReadSignals
  <2> QED BY <2>1 DEF RFire, RValid, ArFire
<1>2. p + 1 = First(call, g + 1) /\ rOutstanding = 0
  BY DEF ReadEdge, ReadState, Reading
<1>3. /\ p \in Nat /\ g \in 0 .. NumPieces(call) /\ q \in 0 .. NumPieces(call) /\ NumPieces(call) \in Nat \ {0}
      /\ IsBlock(call)
  <2>1. WordsIn(call) \in Nat \ {0} /\ p \in 0 .. WordsIn(call)
    BY ReadNumbers
  <2>2. p \in Nat
    BY <2>1
  <2> QED BY <2>2, ReadNumbers
<1>4. rOutstanding' = 0
  <2>1. rOutstanding' = (rOutstanding + One(accept)) - One(RFire(out))
    BY ReadCountersNext
  <2>2. One(accept) = 0 /\ One(RFire(out)) = 0
    BY <1>1 DEF One
  <2> QED BY <1>2, <2>1, <2>2
<1>5. /\ q = g + One(out.ar # {})
      /\ out.ar # {} => out.ar = {BurstOf(call, q, id)} /\ q > 0
  <2>1. ReadState(id, q, g, p, m, d)
    BY DEF ReadEdge
  <2>2. out.ar = {} \/ (q > 0 /\ out.ar = {BurstOf(call, q, id)})
    BY <2>1 DEF ReadState
  <2>3. q = g + One(out.ar # {})
    BY <2>1 DEF ReadState
  <2> QED BY <2>2, <2>3
<1>6. /\ ReadFsm(out, accept) /\ IdRegisters(out)
      /\ rAsked' = (IF ArFire(out) THEN out.ar ELSE rAsked)
  BY EdgeParts DEF ReadEdge
<1>7. CASE out.ar = {}
  <2>1. rState' = "rIdle"
    BY <1>6, <1>7 DEF ReadFsm, ReadIdle, ReadStart, ReadBurst, readVars
  <2>2. q = g
    <3>1. One(out.ar # {}) = 0
      BY <1>7 DEF One
    <3> QED BY <1>3, <1>5, <3>1
  <2> QED BY <1>1, <1>2, <1>4, <1>7, <2>1, <2>2 DEF ReadFsmNext
<1>8. CASE out.ar # {}
  <2> DEFINE b == BurstOf(call, q, id)
  <2>1. out.ar = {b} /\ q = g + 1 /\ q > 0
    <3>1. One(out.ar # {}) = 1
      BY <1>8 DEF One
    <3> QED BY <1>5, <1>8, <3>1
  <2>2. ArFire(out)
    BY <1>1, <1>8
  <2>3. /\ rState' = "rBurst" /\ rAddr' = b.addr /\ rBurst' = [type |-> b.type, len |-> b.len]
        /\ rReqCnt' = b.len /\ rRespCnt' = b.len /\ rAllReqsSent' = FALSE
    <3> HIDE DEF b
    <3>1. ReadStart(out)
      BY <1>6, <1>8, Zenon DEF ReadFsm, ReadIdle, ReadBurst
    <3> QED BY <2>1, <3>1 DEF ReadStart
  <2>4. rAsked' = {b} /\ rId' = b.id
    <3> HIDE DEF b
    <3>1. (CHOOSE y \in out.ar : TRUE) = b
      BY <2>1
    <3> QED BY <1>6, <2>1, <2>2, <3>1 DEF IdRegisters
  <2>5. /\ b.addr = 4 * WordNo(call, First(call, q)) /\ b.id = id[q]
        /\ b.len \in {0, 1, 3, 7} /\ b.len = First(call, q + 1) - First(call, q) - 1
    <3>1. q \in 1 .. NumPieces(call)
      BY <1>3, <2>1
    <3> QED BY <1>3, <3>1, BurstIs
  <2>6. First(call, q) = p + 1 /\ First(call, q + 1) \in Nat
    <3>1. First(call, q) = p + 1
      BY <1>2, <2>1
    <3>2. First(call, q + 1) \in 0 .. WordsIn(call) + 1 /\ WordsIn(call) \in Nat \ {0}
      <4>1. q + 1 \in 0 .. NumPieces(call) + 1
        BY <1>3, <2>1
      <4> QED BY <1>3, <4>1, Ordered, ReadNumbers
    <3> QED BY <3>1, <3>2
  <2> HIDE DEF b
  <2>7. /\ b.len = First(call, q + 1) - p - 2 /\ b.len >= 0
        /\ b.len = First(call, q + 1) - (p + rOutstanding') - 2
        /\ p + rOutstanding' + 1 = p + 1
    BY <1>3, <1>4, <2>5, <2>6
  <2>8. First(call, q) =< p + 1
    BY <1>3, <2>6
  <2>9. b.addr = 4 * WordNo(call, p + rOutstanding' + 1)
    BY <2>5, <2>6, <2>7
  <2>10. rBurst' = [type |-> BurstOf(call, q, id).type, len |-> BurstOf(call, q, id).len]
    BY <2>3 DEF b
  <2>11. rAsked' = {BurstOf(call, q, id)}
    BY <2>4 DEF b
  <2> QED BY <1>1, <1>8, <2>1, <2>3, <2>4, <2>5, <2>7, <2>8, <2>9, <2>10, <2>11 DEF ReadFsmNext
<1> QED BY <1>7, <1>8

\* The burst of a read that is under way goes on: first its requests.
ReadRequestsNext(id, g, p) ==
  /\ rAllReqsSent' \in BOOLEAN
  /\ rAllReqsSent' => p + rOutstanding' + 1 = First(call, g + 1)
  /\ ~rAllReqsSent' =>
       /\ rReqCnt' = First(call, g + 1) - (p + rOutstanding') - 2 /\ rReqCnt' >= 0
       /\ rAddr' = 4 * WordNo(call, p + rOutstanding' + 1)

LEMMA InBurst ==
  ASSUME NEW accept, NEW id, NEW q, NEW g, NEW p, NEW m, NEW d,
         ReadEdge(accept, id, q, g, p, m, d), rState = "rBurst"
  PROVE  /\ IsBlock(call) /\ g \in 1 .. NumPieces(call) /\ NumPieces(call) \in Nat \ {0}
         /\ First(call, g) \in Nat /\ First(call, g + 1) \in Nat /\ First(call, g) =< p + 1
         /\ p \in Nat /\ rOutstanding \in 0 .. 4
         /\ rRespCnt = First(call, g + 1) - p - 2 /\ rRespCnt >= 0
         /\ rAllReqsSent \in BOOLEAN
         /\ rAllReqsSent => p + rOutstanding + 1 = First(call, g + 1)
         /\ ~rAllReqsSent =>
              /\ rReqCnt = First(call, g + 1) - (p + rOutstanding) - 2 /\ rReqCnt >= 0
              /\ rAddr = 4 * WordNo(call, p + rOutstanding + 1)
         /\ rId = id[g] /\ rAsked = {BurstOf(call, g, id)}
         /\ rBurst = [type |-> BurstOf(call, g, id).type, len |-> BurstOf(call, g, id).len]
<1>1. Reading(call, id, g, p, m, d)
  BY DEF ReadEdge, ReadState
<1>2. /\ IsBlock(call) /\ g \in 0 .. NumPieces(call) /\ NumPieces(call) \in Nat \ {0}
      /\ p \in 0 .. WordsIn(call) /\ WordsIn(call) \in Nat \ {0} /\ rOutstanding \in 0 .. 4
  BY ReadNumbers
<1>3. g > 0
  BY <1>1 DEF Reading
<1>4. g \in 1 .. NumPieces(call) /\ p \in Nat
  BY <1>2, <1>3
<1>5. First(call, g) \in Nat /\ First(call, g + 1) \in Nat
  <2>1. g \in 0 .. NumPieces(call) + 1 /\ g + 1 \in 0 .. NumPieces(call) + 1
    BY <1>2, <1>4
  <2>2. First(call, g) \in 0 .. WordsIn(call) + 1 /\ First(call, g + 1) \in 0 .. WordsIn(call) + 1
    BY <1>2, <2>1, Ordered
  <2> QED BY <1>2, <2>2
<1>6. /\ First(call, g) =< p + 1
      /\ rRespCnt = First(call, g + 1) - p - 2 /\ rRespCnt >= 0
      /\ rAllReqsSent \in BOOLEAN
      /\ rAllReqsSent => p + rOutstanding + 1 = First(call, g + 1)
      /\ ~rAllReqsSent =>
              /\ rReqCnt = First(call, g + 1) - (p + rOutstanding) - 2 /\ rReqCnt >= 0
              /\ rAddr = 4 * WordNo(call, p + rOutstanding + 1)
  BY <1>1 DEF Reading
<1>7. /\ rId = id[g] /\ rAsked = {BurstOf(call, g, id)}
      /\ rBurst = [type |-> BurstOf(call, g, id).type, len |-> BurstOf(call, g, id).len]
  BY <1>1 DEF Reading
<1> QED BY <1>2, <1>4, <1>5, <1>6, <1>7

LEMMA BurstRequests ==
  ASSUME NEW accept, NEW id, NEW q, NEW g, NEW p, NEW m, NEW d, NEW p2, NEW m2, NEW d2 \in Nat,
         ReadEdge(accept, id, q, g, p, m, d), rState = "rBurst",
         p2 = p + One(RFire(out)), m2 = m + One(answer # {}) - One(RFire(out)),
         d2 + One(answer' # {}) = d + One(accept)
  PROVE  ReadRequestsNext(id, g, p2)
<1> DEFINE f == First(call, g + 1)
           o == p + rOutstanding
           o2 == p2 + rOutstanding'
<1>1. /\ IsBlock(call) /\ g \in 1 .. NumPieces(call) /\ First(call, g) \in Nat /\ f \in Nat
      /\ First(call, g) =< p + 1 /\ p \in Nat /\ rOutstanding \in 0 .. 4
      /\ rAllReqsSent \in BOOLEAN
      /\ rAllReqsSent => o + 1 = f
      /\ ~rAllReqsSent =>
           /\ rReqCnt = f - o - 2 /\ rReqCnt >= 0
           /\ rAddr = 4 * WordNo(call, o + 1)
      /\ rBurst = [type |-> BurstOf(call, g, id).type, len |-> BurstOf(call, g, id).len]
  BY InBurst
<1>2. o2 = o + One(accept) /\ p2 + rOutstanding' = o2
  BY ReadCountersNext
<1>3. ReadRequest(accept)
  <2>1. ReadFsm(out, accept)
    BY EdgeParts DEF ReadEdge
  <2> QED BY <2>1 DEF ReadFsm, ReadIdle, ReadStart, ReadBurst
<1>4. accept => grantRead /\ ~rAllReqsSent
  <2>1. accept => grantRead
    BY ReadSignals
  <2>2. grantRead => ~rAllReqsSent
    BY ReadSignals
  <2> QED BY <2>1, <2>2
<1>5. o \in Nat /\ First(call, g) =< o + 1
  BY <1>1
<1>6. CASE ~accept
  <2>1. rAllReqsSent' = rAllReqsSent /\ rReqCnt' = rReqCnt /\ rAddr' = rAddr
    BY <1>3, <1>6, Zenon DEF ReadRequest
  <2>2. o2 = o
    <3>1. One(accept) = 0
      BY <1>6 DEF One
    <3> HIDE DEF o, o2
    <3> QED BY <1>2, <1>5, <3>1
  <2> HIDE DEF o, o2, f
  <2> QED BY <1>1, <2>1, <2>2 DEF ReadRequestsNext, f, o2
<1>7. CASE accept /\ rReqCnt = 0
  <2>1. rAllReqsSent' = TRUE
    BY <1>3, <1>4, <1>7 DEF ReadRequest
  <2>2. o2 + 1 = f
    <3>1. One(accept) = 1
      BY <1>7 DEF One
    <3>2. o2 = o + 1
      BY <1>2, <3>1
    <3>3. 0 = f - o - 2
      BY <1>1, <1>4, <1>7
    <3> HIDE DEF o, o2, f
    <3> QED BY <1>1, <1>5, <3>2, <3>3
  <2> HIDE DEF o, o2, f
  <2>3. p2 + rOutstanding' + 1 = f
    BY <2>2 DEF o2
  <2> QED BY <2>1, <2>3 DEF ReadRequestsNext, f
<1>8. CASE accept /\ rReqCnt > 0
  <2>1. /\ rReqCnt' = rReqCnt - 1 /\ rAllReqsSent' = rAllReqsSent
        /\ rAddr' = NextAddr(rAddr, rBurst.type, rBurst.len)
    <3>1. ~(rReqCnt = 0)
      BY <1>8
    <3> QED BY <1>3, <1>4, <1>8, <3>1, Zenon DEF ReadRequest
  <2>2. o2 = o + 1
    <3>1. One(accept) = 1
      BY <1>8 DEF One
    <3> QED BY <1>2, <3>1
  <2>3. (o + 1) + 1 < f /\ rReqCnt - 1 = f - (o + 1) - 2 /\ rReqCnt - 1 >= 0
    <3> HIDE DEF o, f
    <3> QED BY <1>1, <1>4, <1>5, <1>8
  <2>4. rAddr' = 4 * WordNo(call, (o + 1) + 1)
    <3>1. NextAddr(4 * WordNo(call, o + 1), BurstOf(call, g, id).type, BurstOf(call, g, id).len) = 4 * WordNo(call, (o + 1) + 1)
      <4>1. o + 1 \in Nat
        BY <1>5
      <4> HIDE DEF o
      <4> QED BY <1>1, <1>5, <2>3, <4>1, WriteAddrNext DEF f
    <3> HIDE DEF o
    <3> QED BY <1>1, <1>4, <1>8, <2>1, <3>1
  <2> HIDE DEF o, o2, f
  <2> QED BY <1>1, <1>4, <1>8, <2>1, <2>2, <2>3, <2>4 DEF ReadRequestsNext, f, o2
<1>9. accept => rReqCnt = 0 \/ rReqCnt > 0
  <2> HIDE DEF o, f
  <2> QED BY <1>1, <1>4, <1>5
<1>10. accept \in BOOLEAN
  BY DEF ReadEdge
<1> QED BY <1>6, <1>7, <1>8, <1>9, <1>10

LEMMA BurstReturns ==
  ASSUME NEW accept, NEW id, NEW q, NEW g, NEW p, NEW m, NEW d, NEW p2, NEW m2, NEW d2 \in Nat,
         ReadEdge(accept, id, q, g, p, m, d), rState = "rBurst",
         p2 = p + One(RFire(out)), m2 = m + One(answer # {}) - One(RFire(out)),
         d2 + One(answer' # {}) = d + One(accept)
  PROVE  /\ rState' = (IF RFire(out) /\ rRespCnt = 0 THEN "rIdle" ELSE "rBurst")
         /\ ReadFsmNext(id, g, p2) /\ ~ArFire(out) /\ (RLast <=> p + 2 = First(call, g + 1))
<1> DEFINE f == First(call, g + 1)
<1>1. /\ IsBlock(call) /\ g \in 1 .. NumPieces(call) /\ First(call, g) \in Nat /\ f \in Nat
      /\ First(call, g) =< p + 1 /\ p \in Nat /\ rOutstanding \in 0 .. 4
      /\ rRespCnt = f - p - 2 /\ rRespCnt >= 0
      /\ rAllReqsSent \in BOOLEAN
      /\ rAllReqsSent => p + rOutstanding + 1 = f
      /\ ~rAllReqsSent => rReqCnt = f - (p + rOutstanding) - 2 /\ rReqCnt >= 0
      /\ rId = id[g] /\ rAsked = {BurstOf(call, g, id)}
      /\ rBurst = [type |-> BurstOf(call, g, id).type, len |-> BurstOf(call, g, id).len]
  BY InBurst
<1>2. ReadRequestsNext(id, g, p2)
  BY BurstRequests
<1>3. ReadReturn(out) /\ UNCHANGED rBurst
  <2>1. ReadFsm(out, accept)
    BY EdgeParts DEF ReadEdge
  <2> QED BY <2>1 DEF ReadFsm, ReadIdle, ReadStart, ReadBurst
<1>4. rId' = rId /\ rAsked' = rAsked /\ ~ArFire(out)
  <2>1. IdRegisters(out) /\ rAsked' = (IF ArFire(out) THEN out.ar ELSE rAsked)
    BY EdgeParts DEF ReadEdge
  <2> QED BY <2>1 DEF IdRegisters, ArFire
<1>5. RLast <=> p + 2 = f
  <2> HIDE DEF f
  <2> QED BY <1>1 DEF RLast
<1>6. g > 0
  BY <1>1
<1>7. CASE ~RFire(out)
  <2>1. rState' = "rBurst" /\ rRespCnt' = rRespCnt
    BY <1>3, <1>7, Zenon DEF ReadReturn
  <2>2. p2 = p
    <3>1. One(RFire(out)) = 0
      BY <1>7 DEF One
    <3> QED BY <1>1, <3>1
  <2> HIDE DEF f
  <2>3. rRespCnt' = First(call, g + 1) - p2 - 2 /\ rRespCnt' >= 0 /\ First(call, g) =< p2 + 1
    BY <1>1, <2>1, <2>2 DEF f
  <2> QED BY <1>1, <1>2, <1>3, <1>4, <1>5, <1>6, <1>7, <2>1, <2>3 DEF ReadFsmNext, ReadRequestsNext, f
<1>8. CASE RFire(out) /\ rRespCnt = 0
  <2>0. ~(rRespCnt > 0)
    BY <1>8
  <2>1. rState' = "rIdle"
    BY <1>3, <1>8, <2>0, Zenon DEF ReadReturn
  <2>2. p2 = p + 1 /\ One(RFire(out)) = 1
    BY <1>8 DEF One
  <2>3. rOutstanding' = 0
    <3>1. rOutstanding' = (rOutstanding + One(accept)) - One(RFire(out))
      BY ReadCountersNext
    <3>2. rOutstanding >= 1
      <4>1. m > 0
        BY <1>8, ReadSignals
      <4>2. rAckPending = d + One(answer # {}) /\ rOutstanding = rAckPending + m /\ d \in 0 .. 4 /\ m \in 0 .. 4
        BY ReadNumbers
      <4>3. One(answer # {}) \in {0, 1}
        BY DEF One
      <4> QED BY <4>1, <4>2, <4>3
    <3>3. f = p + 2
      <4> HIDE DEF f
      <4> QED BY <1>1, <1>8
    <3>4. rAllReqsSent /\ rOutstanding = 1
      <4> HIDE DEF f
      <4> QED BY <1>1, <3>2, <3>3
    <3>5. One(accept) = 0
      <4>1. accept => ~rAllReqsSent
        BY PortInRead
      <4> QED BY <3>4, <4>1 DEF One
    <3> QED BY <2>2, <3>1, <3>4, <3>5
  <2>4. p2 + 1 = First(call, g + 1)
    <3> HIDE DEF f
    <3>1. p2 + 1 = f
      <4>1. 0 = f - p - 2
        BY <1>1, <1>8
      <4> QED BY <1>1, <2>2, <4>1
    <3> QED BY <3>1 DEF f
  <2> QED BY <1>4, <1>5, <1>8, <2>1, <2>3, <2>4 DEF ReadFsmNext
<1>9. CASE RFire(out) /\ rRespCnt > 0
  <2>0. ~(rRespCnt = 0)
    BY <1>9
  <2>1. rState' = "rBurst" /\ rRespCnt' = rRespCnt - 1
    BY <1>3, <1>9, <2>0, Zenon DEF ReadReturn
  <2>2. p2 = p + 1
    BY <1>9 DEF One
  <2> HIDE DEF f
  <2>3. rRespCnt' = f - p2 - 2 /\ rRespCnt' >= 0 /\ First(call, g) =< p2 + 1
    <3>1. f \in Nat /\ p \in Nat /\ rRespCnt = f - p - 2
      BY <1>1
    <3>2. rRespCnt \in Int /\ rRespCnt - 1 = f - p2 - 2
      BY <2>2, <3>1
    <3>3. rRespCnt - 1 >= 0
      BY <1>9, <3>2
    <3>4. First(call, g) =< p2 + 1
      BY <1>1, <2>2
    <3> QED BY <2>1, <3>2, <3>3, <3>4
  <2>4. rRespCnt' = First(call, g + 1) - p2 - 2
    BY <2>3 DEF f
  <2> QED BY <1>1, <1>2, <1>3, <1>4, <1>5, <1>6, <1>9, <2>0, <2>1, <2>3, <2>4 DEF ReadFsmNext, ReadRequestsNext, f
<1>10. rRespCnt = 0 \/ rRespCnt > 0
  <2> HIDE DEF f
  <2> QED BY <1>1
<1> QED BY <1>7, <1>8, <1>9, <1>10

\* The front end after an edge in a read.
LEMMA ReadingNext ==
  ASSUME NEW accept, NEW id, NEW q, NEW g, NEW p, NEW m, NEW d, NEW g2, NEW p2, NEW m2,
         ReadEdge(accept, id, q, g, p, m, d),
         g2 = g + One(ArFire(out)), p2 = p + One(RFire(out)), m2 = m + One(answer # {}) - One(RFire(out))
  PROVE  /\ \E d2 \in 0 .. QUEUE_DEPTH : Reading(call, id, g2, p2, m2, d2)' /\ Len(due') = d2
         /\ Len(due') =< MaxDue
         /\ g2 \in 0 .. NumPieces(call) /\ p2 \in 0 .. WordsIn(call) /\ m2 \in 0 .. 4
         /\ One(rState' = "rBurst") = One(rState = "rBurst") + One(ArFire(out)) - One(RFire(out) /\ RLast)
         /\ q = g2 + One(~(rState = "rIdle") /\ out.ar # {})
<1> DEFINE L == WordsStored(call)
           v == p + m + One(answer # {})
<1>1. PICK d2 \in Nat :
         /\ d2 + One(answer' # {}) = d + One(accept)
         /\ answer' = {} \/ answer' = {L[v + 1]}
         /\ due' = Slice(Singles(L), v + One(answer' # {}), d2)
         /\ d2 =< MaxDue
  BY ReadOwed
<1>2. /\ g \in 0 .. NumPieces(call) /\ NumPieces(call) \in Nat \ {0} /\ p \in Nat /\ m \in 0 .. 4
      /\ q \in 0 .. NumPieces(call)
  <2>1. WordsIn(call) \in Nat \ {0} /\ p \in 0 .. WordsIn(call)
    BY ReadNumbers
  <2>2. p \in Nat
    BY <2>1
  <2> QED BY <2>2, ReadNumbers
<1>3. p2 \in 0 .. WordsIn(call) /\ m2 \in 0 .. 4 /\ rDataQ' = Slice(L, p2, m2)
  BY ReadQueueNext
<1>4. /\ rAckPending' = d2 + One(answer' # {}) /\ rOutstanding' = rAckPending' + m2
      /\ rOutstanding' \in 0 .. 4 /\ d2 \in 0 .. 4
  BY <1>1, ReadCountersNext
<1>5. v = p2 + m2 /\ v \in Nat
  <2>1. One(RFire(out)) \in {0, 1} /\ One(answer # {}) \in {0, 1}
    BY DEF One
  <2> QED BY <1>2, <2>1
<1>6. call' = call /\ store' = store
  BY ReadLoops, ReadStore
<1>7. L' = L
  BY <1>6, Zenon DEF WordsStored
<1>8. Len(due') = d2
  <2>1. v + One(answer' # {}) \in Int
    BY <1>5 DEF One
  <2> HIDE DEF v, L
  <2> QED BY <1>1, <2>1, Slices
<1>9. rState \in {"rIdle", "rBurst"} /\ (out.ar = {} \/ q > 0) /\ q = g + One(out.ar # {})
  BY DEF ReadEdge, ReadState, Reading
<1>10. /\ ReadFsmNext(id, g2, p2) /\ g2 \in 0 .. NumPieces(call)
       /\ One(rState' = "rBurst") = One(rState = "rBurst") + One(ArFire(out)) - One(RFire(out) /\ RLast)
       /\ q = g2 + One(~(rState = "rIdle") /\ out.ar # {})
  <2>1. CASE rState = "rIdle"
    <3>1. /\ IF out.ar = {} THEN rState' = "rIdle" ELSE rState' = "rBurst"
          /\ ReadFsmNext(id, q, p) /\ ~RFire(out) /\ (ArFire(out) <=> out.ar # {})
      BY <1>1, <2>1, ReadStarts
    <3>2. One(ArFire(out)) = One(out.ar # {}) /\ One(RFire(out)) = 0 /\ One(RFire(out) /\ RLast) = 0
      BY <3>1 DEF One
    <3>3. g2 = q /\ p2 = p
      BY <1>2, <1>9, <3>2
    <3>4. One(rState' = "rBurst") = One(ArFire(out)) /\ One(rState = "rBurst") = 0
          /\ One(~(rState = "rIdle") /\ out.ar # {}) = 0 /\ One(ArFire(out)) \in {0, 1}
      BY <2>1, <3>1 DEF One
    <3> QED BY <1>2, <3>1, <3>2, <3>3, <3>4
  <2>2. CASE rState = "rBurst"
    <3>1. /\ rState' = (IF RFire(out) /\ rRespCnt = 0 THEN "rIdle" ELSE "rBurst")
          /\ ReadFsmNext(id, g, p2) /\ ~ArFire(out)
      BY <1>1, <2>2, BurstReturns
    <3>2. One(ArFire(out)) = 0
      BY <3>1 DEF One
    <3>3. g2 = g
      BY <1>2, <3>2
    <3>4. One(rState' = "rBurst") = 1 - One(RFire(out) /\ RLast) /\ One(rState = "rBurst") = 1
          /\ One(~(rState = "rIdle") /\ out.ar # {}) = One(out.ar # {}) /\ One(RFire(out) /\ RLast) \in {0, 1}
      BY <2>2, <3>1 DEF One, RLast
    <3> QED BY <1>2, <1>9, <3>1, <3>2, <3>3, <3>4
  <2> QED BY <1>9, <2>1, <2>2
<1>11. Reading(call, id, g2, p2, m2, d2)'
  <2>1. answer' = {} \/ answer' = {L[p2 + m2 + 1]}
    BY <1>1, <1>5
  <2>2. due' = Slice(Singles(L), p2 + m2 + One(answer' # {}), d2)
    BY <1>1, <1>5
  <2>3. WordsStored(call)' = L
    BY <1>7
  <2>4. m2 \in 0 .. QUEUE_DEPTH /\ d2 \in 0 .. QUEUE_DEPTH /\ rOutstanding' =< QUEUE_DEPTH
    BY <1>3, <1>4 DEF QUEUE_DEPTH
  <2> HIDE DEF L
  <2>5. /\ rDataQ' = Slice(WordsStored(call)', p2, m2)
        /\ answer' = {} \/ answer' = {WordsStored(call)'[p2 + m2 + 1]}
        /\ due' = Slice(Singles(WordsStored(call)'), p2 + m2 + One(answer' # {}), d2)
    BY <1>3, <2>1, <2>2, <2>3
  <2> QED BY <1>3, <1>4, <1>6, <1>10, <2>4, <2>5 DEF Reading, ReadFsmNext
<1>12. d2 \in 0 .. QUEUE_DEPTH
  BY <1>4 DEF QUEUE_DEPTH
<1>13. Len(due') =< MaxDue
  BY <1>1, <1>8
<1> QED BY <1>3, <1>8, <1>10, <1>11, <1>12, <1>13

\* What the driver of a read puts out at an edge: nothing new, or the next address.
LEMMA DriverReads ==
  ASSUME NEW accept, NEW id, NEW q, NEW g, NEW p, NEW m, NEW d, NEW g2,
         ReadEdge(accept, id, q, g, p, m, d), g2 = g + One(ArFire(out))
  PROVE  /\ \E q2 \in 0 .. NumPieces(call) :
              /\ reqQ' = Slice(ReadRequestsOf(call, id), q2, NumPieces(call) - q2)
              /\ out'.ar = {} \/ (q2 > 0 /\ out'.ar = {BurstOf(call, q2, id)})
              /\ q2 = g2 + One(out'.ar # {})
         /\ IsMaster(out') /\ out'.aw = {} /\ out'.w = {}
         /\ ~(rState = "rIdle") /\ out.ar # {} => out'.ar = out.ar
<1> DEFINE l == Untaken(Slave)
           K == NumPieces(call)
           R == ReadRequestsOf(call, id)
<1>1. g \in 0 .. K /\ K \in Nat \ {0} /\ q \in 0 .. K /\ IsBlock(call)
  BY ReadNumbers
<1>2. /\ IsMaster(out) /\ call.op = "read" /\ out.aw = {} /\ out.w = {} /\ reqQ = Slice(R, q, K - q)
      /\ out.ar = {} \/ (q > 0 /\ out.ar = {BurstOf(call, q, id)})
  BY DEF ReadEdge, ReadState, TypeInv, WritesQuiet
<1>3. IsMaster(l) /\ l.aw = {} /\ l.w = {} /\ (l.ar = IF rState = "rIdle" THEN {} ELSE out.ar)
  BY <1>2, UntakenIs
<1>4. q = g2 + One(~(rState = "rIdle") /\ out.ar # {})
  BY ReadingNext
<1>5. PICK ready \in BOOLEAN : Hold(l, ready) \/ IssueWhole(l, ready)
  <2>1. ReadLoop(Slave)
    BY ReadLoops
  <2> QED BY <2>1, Zenon DEF ReadLoop, l
<1> HIDE DEF l
<1>6. q = g2 + One(l.ar # {}) /\ (l.ar = {} \/ (q > 0 /\ l.ar = {BurstOf(call, q, id)}))
      /\ (~(rState = "rIdle") /\ out.ar # {} => l.ar = out.ar /\ l.ar # {})
  <2>1. CASE rState = "rIdle"
    BY <1>2, <1>3, <1>4, <2>1 DEF One
  <2>2. CASE ~(rState = "rIdle")
    BY <1>2, <1>3, <1>4, <2>2 DEF One
  <2> QED BY <2>1, <2>2
<1>7. \A o : IsMaster(o) => /\ IsMaster(Ready(o, ready)) /\ Ready(o, ready).aw = o.aw
                            /\ Ready(o, ready).w = o.w /\ Ready(o, ready).ar = o.ar
  <2> SUFFICES ASSUME NEW o, IsMaster(o)
               PROVE  /\ IsMaster(Ready(o, ready)) /\ Ready(o, ready).aw = o.aw
                      /\ Ready(o, ready).w = o.w /\ Ready(o, ready).ar = o.ar
    OBVIOUS
  <2> DEFINE u == Ready(o, ready)
  <2>1. u = [o EXCEPT !.rready = ready]
    BY <1>2 DEF Ready
  <2> HIDE DEF u
  <2>2. IsMaster(u) /\ u.aw = o.aw /\ u.w = o.w /\ u.ar = o.ar
    <3>1. ready \in BOOLEAN
      BY <1>2
    <3> QED BY <2>1, <3>1, MasterReady, SMT
  <2> QED BY <2>2 DEF u
<1>8. CASE Hold(l, ready)
  <2>1. out' = Ready(l, ready) /\ reqQ' = reqQ
    BY <1>8 DEF Hold
  <2>2. IsMaster(out') /\ out'.aw = {} /\ out'.w = {} /\ out'.ar = l.ar
    BY <1>3, <1>7, <2>1
  <2> HIDE DEF K, R
  <2>3. \E q2 \in 0 .. K :
              /\ reqQ' = Slice(R, q2, K - q2)
              /\ out'.ar = {} \/ (q2 > 0 /\ out'.ar = {BurstOf(call, q2, id)})
              /\ q2 = g2 + One(out'.ar # {})
    <3>1. q \in 0 .. K
      BY <1>1 DEF K
    <3> WITNESS q \in 0 .. K
    <3> QED BY <1>2, <1>6, <2>1, <2>2
  <2> QED BY <1>6, <2>2, <2>3 DEF K, R
<1>9. CASE IssueWhole(l, ready)
  <2>1. l.ar = {} /\ reqQ # <<>> /\ out' = Ready(Head(reqQ), ready) /\ reqQ' = Tail(reqQ)
    BY <1>9 DEF IssueWhole, CanIssue
  <2> DEFINE n == K - q
             o == ReadRequestOf(call, q + 1, id)
  <2>2. n \in Nat /\ q \in Int
    BY <1>1
  <2>3. reqQ = Slice(R, q, n)
    BY <1>2
  <2>4. n # 0 /\ n > 0
    <3> HIDE DEF n, R
    <3>1. n # 0
      BY <2>1, <2>3, EmptySlice
    <3> QED BY <2>2, <3>1
  <2>5. q + 1 \in 0 .. K /\ q + 1 \in 1 .. K /\ n - 1 = K - (q + 1) /\ q + 1 > 0
    BY <1>1, <2>4
  <2>6. Head(reqQ) = R[q + 1] /\ Tail(reqQ) = Slice(R, q + 1, n - 1)
    <3> HIDE DEF n, R
    <3>1. Head(Slice(R, q, n)) = R[q + 1] /\ Tail(Slice(R, q, n)) = Slice(R, q + 1, n - 1)
      BY <2>2, <2>4, Slices
    <3> QED BY <2>3, <3>1
  <2>7. R[q + 1] = o
    BY <2>5 DEF ReadRequestsOf
  <2>8. IsMaster(o) /\ o.ar = {BurstOf(call, q + 1, id)} /\ o.aw = {} /\ o.w = {}
    <3> DEFINE b == {BurstOf(call, q + 1, id)}
    <3>1. o = [Quiet EXCEPT !.ar = b]
      BY DEF ReadRequestOf
    <3> HIDE DEF b, o
    <3>2. o = [ar |-> b, aw |-> {}, w |-> {}, rready |-> FALSE, bready |-> FALSE]
      BY <3>1 DEF Quiet
    <3>3. IsMaster(o) /\ o.ar = b /\ o.aw = {} /\ o.w = {}
      BY <3>2 DEF IsMaster
    <3> QED BY <3>3 DEF b
  <2> HIDE DEF o
  <2>9. IsMaster(out') /\ out'.aw = {} /\ out'.w = {} /\ out'.ar = {BurstOf(call, q + 1, id)}
    BY <1>7, <2>1, <2>6, <2>7, <2>8
  <2>10. q + 1 = g2 + One(out'.ar # {})
    <3>1. One(l.ar # {}) = 0 /\ One(out'.ar # {}) = 1
      BY <2>1, <2>9 DEF One
    <3>2. g2 \in Int
      BY <1>1 DEF One
    <3> QED BY <1>6, <3>1, <3>2
  <2> HIDE DEF K, R
  <2>11. \E q2 \in 0 .. K :
              /\ reqQ' = Slice(R, q2, K - q2)
              /\ out'.ar = {} \/ (q2 > 0 /\ out'.ar = {BurstOf(call, q2, id)})
              /\ q2 = g2 + One(out'.ar # {})
    <3>1. q + 1 \in 0 .. K
      BY <2>5
    <3> WITNESS q + 1 \in 0 .. K
    <3> QED BY <2>1, <2>5, <2>6, <2>9, <2>10
  <2>12. ~(~(rState = "rIdle") /\ out.ar # {})
    BY <1>6, <2>1
  <2> QED BY <2>9, <2>11, <2>12 DEF K, R
<1> QED BY <1>5, <1>8, <1>9

\* The bytes of a word of the block, as they are stored.
BytesStored(c, i) ==
  [x \in 1 .. SizeIn(c, i) |-> store[WordNo(c, i)][(PlaceIn(c, i) % 4) + x - 1]]

LEMMA BytesStoredIs ==
  ASSUME TypeInv, NEW c, IsBlock(c), NEW i \in 1 .. WordsIn(c)
  PROVE  BytesStored(c, i) \in Seq(ByteValues) /\ Len(BytesStored(c, i)) = SizeIn(c, i) /\ SizeIn(c, i) \in 1 .. 4
<1> DEFINE n == SizeIn(c, i)
           o == PlaceIn(c, i) % 4
           w == store[WordNo(c, i)]
           b == [x \in 1 .. n |-> w[o + x - 1]]
<1>1. n \in 1 .. 4
  BY WordsOfBlock
<1>2. WordNo(c, i) \in 0 .. NumWords - 1 /\ o + n =< 4 /\ PlaceIn(c, i) \in Addrs
  BY PlaceOfWord
<1>3. o \in 0 .. 3
  BY <1>2, Space
<1>4. w \in Word
  BY <1>2 DEF TypeInv
<1>5. \A x \in 1 .. n : w[o + x - 1] \in ByteValues
  <2> SUFFICES ASSUME NEW x \in 1 .. n PROVE w[o + x - 1] \in ByteValues
    OBVIOUS
  <2> HIDE DEF n, o, w
  <2>1. o + x - 1 \in 0 .. 3
    BY <1>1, <1>2, <1>3
  <2> QED BY <1>4, <2>1 DEF Word, Lanes
<1>6. b = [x \in 1 .. n |-> b[x]] /\ \A x \in 1 .. n : b[x] \in ByteValues
  BY <1>5
<1> HIDE DEF b
<1>7. b \in Seq(ByteValues) /\ Len(b) = n
  <2>1. n \in Nat
    BY <1>1
  <2> HIDE DEF n
  <2> QED BY <1>6, <2>1, ListIn
<1> QED BY <1>1, <1>7 DEF b, BytesStored

\* A word is returned to the driver, the next one of the block.
LEMMA WordReturned ==
  ASSUME NEW accept, NEW id, NEW q, NEW g, NEW p, NEW m, NEW d,
         ReadEdge(accept, id, q, g, p, m, d), RFire(out)
  PROVE  /\ p + 1 \in 1 .. WordsIn(call)
         /\ respQ # <<>> /\ Head(respQ) = ResponseOf(call, p + 1, id)
         /\ Tail(respQ) = Slice(ReadResponsesOf(call, id), p + 1, WordsIn(call) - (p + 1))
         /\ Head(rDataQ) = store[WordNo(call, p + 1)]
         /\ rState = "rBurst"
<1> DEFINE L == WordsStored(call)
           R == ReadResponsesOf(call, id)
           W == WordsIn(call)
           n == W - p
<1>1. /\ W \in Nat \ {0} /\ p \in 0 .. W /\ m \in 0 .. 4 /\ d \in 0 .. 4
      /\ rAckPending = d + One(answer # {}) /\ rOutstanding = rAckPending + m
      /\ p + rOutstanding \in 0 .. W
  BY ReadNumbers
<1>2. m > 0 /\ rState = "rBurst"
  BY ReadSignals
<1>3. p + 1 \in 1 .. W
  <2>1. One(answer # {}) \in {0, 1}
    BY DEF One
  <2> HIDE DEF W
  <2> QED BY <1>1, <1>2, <2>1
<1>4. respQ = Slice(R, p, n) /\ rDataQ = Slice(L, p, m)
  BY DEF ReadEdge, ReadState, Reading
<1>5. n \in Nat /\ n > 0 /\ p \in Int /\ m \in Nat /\ n - 1 = W - (p + 1)
  BY <1>1, <1>3
<1>6. R[p + 1] = ResponseOf(call, p + 1, id) /\ L[p + 1] = store[WordNo(call, p + 1)]
  BY <1>3 DEF ReadResponsesOf, WordsStored
<1> HIDE DEF L, R, n
<1>7. Head(Slice(R, p, n)) = R[p + 1] /\ Tail(Slice(R, p, n)) = Slice(R, p + 1, n - 1) /\ Slice(R, p, n) # <<>>
  <2>1. Head(Slice(R, p, n)) = R[p + 1] /\ Tail(Slice(R, p, n)) = Slice(R, p + 1, n - 1)
    BY <1>5, Slices
  <2>2. Slice(R, p, n) = <<>> <=> n = 0
    BY <1>5, Slices
  <2>3. n # 0
    BY <1>5
  <2> QED BY <2>1, <2>2, <2>3
<1>8. Head(Slice(L, p, m)) = L[p + 1]
  BY <1>2, <1>5, Slices
<1> QED BY <1>2, <1>3, <1>4, <1>5, <1>6, <1>7, <1>8 DEF R

LEMMA DriverReceives ==
  ASSUME NEW accept, NEW id, NEW q, NEW g, NEW p, NEW m, NEW d, NEW p2,
         ReadEdge(accept, id, q, g, p, m, d), p2 = p + One(RFire(out))
  PROVE  /\ ~RFire(out) => got' = got
         /\ RFire(out) => got' = got \o BytesStored(call, p + 1)
         /\ respQ' = Slice(ReadResponsesOf(call, id), p2, WordsIn(call) - p2)
         /\ got' \in Seq(ByteValues) /\ Len(got') = Upto(call, p2)
<1>1. /\ IsBlock(call) /\ p \in 0 .. WordsIn(call) /\ WordsIn(call) \in Nat \ {0}
  BY ReadNumbers
<1>2. respQ = Slice(ReadResponsesOf(call, id), p, WordsIn(call) - p) /\ Len(got) = Upto(call, p)
      /\ got \in Seq(ByteValues)
  BY DEF ReadEdge, ReadState, TypeInv
<1>3. IF RFire(out) THEN got' = got \o BytesRead(Head(respQ), Head(rDataQ)) /\ respQ' = Tail(respQ)
                    ELSE got' = got /\ respQ' = respQ
  <2>1. ReadLoop(Slave)
    BY ReadLoops
  <2>2. (Slave.rvalid /\ out.rready <=> RFire(out)) /\ (RFire(out) => Slave.rdata = Head(rDataQ))
    BY DEF Slave, RFire
  <2> QED BY <2>1, <2>2 DEF ReadLoop
<1>4. CASE ~RFire(out)
  <2>1. p2 = p
    BY <1>1, <1>4 DEF One
  <2> QED BY <1>2, <1>3, <1>4, <2>1
<1>5. CASE RFire(out)
  <2>1. p2 = p + 1
    BY <1>1, <1>5 DEF One
  <2>2. p + 1 \in 1 .. WordsIn(call) /\ Head(respQ) = ResponseOf(call, p + 1, id)
        /\ Tail(respQ) = Slice(ReadResponsesOf(call, id), p + 1, WordsIn(call) - (p + 1))
        /\ Head(rDataQ) = store[WordNo(call, p + 1)]
    BY <1>5, WordReturned
  <2>3. BytesRead(ResponseOf(call, p + 1, id), store[WordNo(call, p + 1)]) = BytesStored(call, p + 1)
    BY DEF BytesRead, ResponseOf, BytesStored
  <2>4. got' = got \o BytesStored(call, p + 1)
    BY <1>3, <1>5, <2>2, <2>3
  <2>5. BytesStored(call, p + 1) \in Seq(ByteValues) /\ Len(BytesStored(call, p + 1)) = SizeIn(call, p + 1)
        /\ SizeIn(call, p + 1) \in 1 .. 4
    BY <1>1, <2>2, BytesStoredIs DEF ReadEdge
  <2>6. got' \in Seq(ByteValues) /\ Len(got') = Len(got) + SizeIn(call, p + 1)
    BY <1>2, <2>4, <2>5
  <2>7. Upto(call, p) + SizeIn(call, p + 1) = Upto(call, p + 1)
    <3>1. (p + 1) - 1 = p /\ p + 1 \in 0 .. WordsIn(call)
      BY <1>1, <2>2
    <3>2. SizeIn(call, p + 1) = Upto(call, p + 1) - Upto(call, p)
      BY <3>1 DEF SizeIn
    <3>3. Upto(call, p) \in 0 .. Len(call.data) /\ Upto(call, p + 1) \in 0 .. Len(call.data) /\ Len(call.data) \in Nat
      BY <1>1, <3>1, WordsOfBlock DEF IsBlock
    <3> QED BY <3>2, <3>3
  <2> QED BY <1>2, <1>3, <1>5, <2>1, <2>2, <2>4, <2>6, <2>7
<1> QED BY <1>4, <1>5

LEMMA ReadNext ==
  ASSUME NEW accept, NEW id, NEW q, NEW g, NEW p, NEW m, NEW d, NEW g2, NEW p2, NEW m2,
         ReadEdge(accept, id, q, g, p, m, d),
         g2 = g + One(ArFire(out)), p2 = p + One(RFire(out)), m2 = m + One(answer # {}) - One(RFire(out))
  PROVE  /\ TypeInv'
         /\ g2 \in 0 .. NumPieces(call) /\ p2 \in 0 .. WordsIn(call) /\ m2 \in 0 .. QUEUE_DEPTH
         /\ \E q2 \in 0 .. NumPieces(call), d2 \in 0 .. QUEUE_DEPTH : ReadState(id, q2, g2, p2, m2, d2)'
<1>1. ReadLoop(Slave) /\ call' = call /\ split' = split
  BY ReadLoops
<1>2. PICK d2 \in 0 .. QUEUE_DEPTH : Reading(call, id, g2, p2, m2, d2)' /\ Len(due') = d2
  BY ReadingNext
<1>3. /\ Len(due') =< MaxDue
      /\ g2 \in 0 .. NumPieces(call) /\ p2 \in 0 .. WordsIn(call) /\ m2 \in 0 .. 4
      /\ One(rState' = "rBurst") = One(rState = "rBurst") + One(ArFire(out)) - One(RFire(out) /\ RLast)
  BY ReadingNext
<1>4. PICK q2 \in 0 .. NumPieces(call) :
              /\ reqQ' = Slice(ReadRequestsOf(call, id), q2, NumPieces(call) - q2)
              /\ out'.ar = {} \/ (q2 > 0 /\ out'.ar = {BurstOf(call, q2, id)})
              /\ q2 = g2 + One(out'.ar # {})
  BY DriverReads
<1>5. IsMaster(out') /\ out'.aw = {} /\ out'.w = {}
  BY DriverReads
<1>6. /\ respQ' = Slice(ReadResponsesOf(call, id), p2, WordsIn(call) - p2)
      /\ got' \in Seq(ByteValues) /\ Len(got') = Upto(call, p2)
  BY DriverReceives
<1>7. respPending' = One(rState' = "rBurst")
  <2>1. respPending' = respPending + Count(out.ar # {} /\ Slave.arready) - Count(Slave.rvalid /\ out.rready /\ Slave.rlast)
    BY <1>1, Zenon DEF ReadLoop
  <2>2. Count(out.ar # {} /\ Slave.arready) = One(ArFire(out))
    BY DEF Count, One, Slave, ArFire
  <2>3. Count(Slave.rvalid /\ out.rready /\ Slave.rlast) = One(RFire(out) /\ RLast)
    BY DEF Count, One, Slave, RFire
  <2>4. respPending = One(rState = "rBurst")
    BY DEF ReadEdge, ReadState
  <2> QED BY <1>3, <2>1, <2>2, <2>3, <2>4
<1>8. WritesQuiet'
  <2>1. split = FALSE
    BY DEF ReadEdge, ReadState, WritesQuiet
  <2> QED BY <1>1, <1>5, <2>1, ReadLeavesWrites DEF WritesQuiet
<1>9. store' \in [0 .. NumWords - 1 -> Word]
  BY ReadStore DEF ReadEdge, TypeInv
<1>10. lastGrant' \in {"read", "write"}
  <2>1. Arbiter(accept) /\ lastGrant \in {"read", "write"}
    BY EdgeParts DEF ReadEdge, TypeInv
  <2> QED BY <2>1 DEF Arbiter
<1>11. due' \in Seq(SUBSET Word)
  <2> DEFINE w == PortReq.addr
             owing == IF ~accept THEN due ELSE Append(due, IF PortReq.rd THEN {store[PortReq.addr]} ELSE {})
  <2>1. due \in Seq(SUBSET Word) /\ store \in [0 .. NumWords - 1 -> Word] /\ IsBlock(call)
    BY ReadNumbers DEF ReadEdge, TypeInv
  <2>2. accept => PortReq.addr \in 0 .. NumWords - 1
    <3>1. ASSUME accept PROVE PortReq.addr \in 0 .. NumWords - 1
      <4>1. PortReq.addr = WordNo(call, p + rOutstanding + 1) /\ p + rOutstanding + 1 \in 1 .. WordsIn(call)
        BY <3>1, PortInRead
      <4> QED BY <2>1, <4>1, PlaceOfWord
    <3> QED BY <3>1
  <2>3. accept => store[PortReq.addr] \in Word
    BY <2>1, <2>2
  <2>4. owing \in Seq(SUBSET Word)
    BY <2>1, <2>3
  <2>5. \/ due' = owing
        \/ owing # <<>> /\ due' = Tail(owing)
    <3>1. MemoryEdge(accept)
      BY EdgeParts DEF ReadEdge
    <3> QED BY <3>1, Zenon DEF MemoryEdge
  <2> HIDE DEF owing
  <2>6. ASSUME owing # <<>> PROVE Tail(owing) \in Seq(SUBSET Word)
    BY ONLY <2>4, <2>6
  <2> QED BY <2>4, <2>5, <2>6, Zenon
<1>12. TypeInv'
  BY <1>3, <1>5, <1>6, <1>9, <1>10, <1>11 DEF TypeInv
<1>13. ReadState(id, q2, g2, p2, m2, d2)'
  BY <1>1, <1>2, <1>4, <1>6, <1>7, <1>8, Zenon DEF ReadState
<1> QED BY <1>2, <1>3, <1>4, <1>12, <1>13 DEF QUEUE_DEPTH

------------------------------------------------------------------------------
\* The invariant.

LEMMA StutterInv == ASSUME TbInv, UNCHANGED tbVars PROVE TbInv'
<1>1. /\ call' = call /\ got' = got /\ reqQ' = reqQ /\ respQ' = respQ /\ split' = split /\ out' = out
      /\ respPending' = respPending
      /\ rState' = rState /\ rAddr' = rAddr /\ rBurst' = rBurst /\ rReqCnt' = rReqCnt /\ rRespCnt' = rRespCnt
      /\ rAllReqsSent' = rAllReqsSent /\ rDataQ' = rDataQ
      /\ wState' = wState /\ wAddr' = wAddr /\ wBurst' = wBurst /\ wReqCnt' = wReqCnt
      /\ wAllReqsSent' = wAllReqsSent /\ wDataQueue' = wDataQueue
      /\ rAckPending' = rAckPending /\ wAckPending' = wAckPending /\ rOutstanding' = rOutstanding
      /\ lastGrant' = lastGrant
      /\ rId' = rId /\ wId' = wId /\ store' = store /\ due' = due /\ answer' = answer
      /\ done' = done /\ rAsked' = rAsked /\ wAsked' = wAsked
  BY DEF tbVars, driverVars, pmemVars, readVars, writeVars
<1>2. TypeInv'
  BY <1>1 DEF TbInv, TypeInv
<1>3. IdleState => IdleState'
  BY <1>1, Zenon DEF IdleState, ReadsQuiet, WritesQuiet
<1>4. \A id, i, a, r, s, n : WriteState(id, i, a, r, s, n) => WriteState(id, i, a, r, s, n)'
  <2> SUFFICES ASSUME NEW id, NEW i, NEW a, NEW r, NEW s, NEW n, WriteState(id, i, a, r, s, n)
               PROVE  WriteState(id, i, a, r, s, n)'
    OBVIOUS
  <2>1. Writing(call, id, r, s, n)'
    BY <1>1, Zenon DEF WriteState, Writing
  <2>2. ReadsQuiet'
    BY <1>1, Zenon DEF WriteState, ReadsQuiet
  <2> QED BY <1>1, <2>1, <2>2, Zenon DEF WriteState
<1>5. \A id, q, g, p, m, d : ReadState(id, q, g, p, m, d) => ReadState(id, q, g, p, m, d)'
  <2> SUFFICES ASSUME NEW id, NEW q, NEW g, NEW p, NEW m, NEW d, ReadState(id, q, g, p, m, d)
               PROVE  ReadState(id, q, g, p, m, d)'
    OBVIOUS
  <2>1. WordsStored(call)' = WordsStored(call)
    BY <1>1, Zenon DEF WordsStored
  <2>2. Reading(call, id, g, p, m, d)'
    BY <1>1, <2>1, Zenon DEF ReadState, Reading
  <2>3. WritesQuiet'
    BY <1>1, Zenon DEF ReadState, WritesQuiet
  <2> QED BY <1>1, <2>2, <2>3, Zenon DEF ReadState
<1>6. /\ call' = NoCall => IdleState'
      /\ call' # NoCall => call' \in Calls
  BY <1>1, <1>3 DEF TbInv
<1>7. call.op = "write" =>
       \E id \in [1 .. NumPieces(call) -> Ids] :
       \E i, s \in 0 .. WordsIn(call), a, r \in 0 .. NumPieces(call), n \in 0 .. QUEUE_DEPTH :
         WriteState(id, i, a, r, s, n)'
  <2> SUFFICES ASSUME call.op = "write"
               PROVE  \E id \in [1 .. NumPieces(call) -> Ids] :
                      \E i, s \in 0 .. WordsIn(call), a, r \in 0 .. NumPieces(call), n \in 0 .. QUEUE_DEPTH :
                        WriteState(id, i, a, r, s, n)'
    OBVIOUS
  <2>1. PICK id \in [1 .. NumPieces(call) -> Ids], i, s \in 0 .. WordsIn(call), a, r \in 0 .. NumPieces(call),
             n \in 0 .. QUEUE_DEPTH : WriteState(id, i, a, r, s, n)
    BY Zenon DEF TbInv
  <2>2. WriteState(id, i, a, r, s, n)'
    BY <1>4, <2>1, Zenon
  <2> QED BY <2>2, Zenon
<1>8. call.op = "read" =>
       \E id \in [1 .. NumPieces(call) -> Ids] :
       \E q, g \in 0 .. NumPieces(call), p \in 0 .. WordsIn(call), m, d \in 0 .. QUEUE_DEPTH :
         ReadState(id, q, g, p, m, d)'
  <2> SUFFICES ASSUME call.op = "read"
               PROVE  \E id \in [1 .. NumPieces(call) -> Ids] :
                      \E q, g \in 0 .. NumPieces(call), p \in 0 .. WordsIn(call), m, d \in 0 .. QUEUE_DEPTH :
                        ReadState(id, q, g, p, m, d)'
    OBVIOUS
  <2>1. PICK id \in [1 .. NumPieces(call) -> Ids], q, g \in 0 .. NumPieces(call), p \in 0 .. WordsIn(call),
             m, d \in 0 .. QUEUE_DEPTH : ReadState(id, q, g, p, m, d)
    BY Zenon DEF TbInv
  <2>2. ReadState(id, q, g, p, m, d)'
    BY <1>5, <2>1, Zenon
  <2> QED BY <2>2, Zenon
<1> QED BY <1>1, <1>2, <1>6, <1>7, <1>8 DEF TbInv

\* Every state at a clock edge is one of a write, one of a read, or idle.
LEMMA EdgeOf ==
  ASSUME TbInv, NEW accept \in BOOLEAN, Edge(accept)
  PROVE  \/ IdleState
         \/ \E id \in [1 .. NumPieces(call) -> Ids] :
            \E i, s \in 0 .. WordsIn(call), a, r \in 0 .. NumPieces(call), n \in 0 .. QUEUE_DEPTH :
              WriteEdge(accept, id, i, a, r, s, n)
         \/ \E id \in [1 .. NumPieces(call) -> Ids] :
            \E q, g \in 0 .. NumPieces(call), p \in 0 .. WordsIn(call), m, d \in 0 .. QUEUE_DEPTH :
              ReadEdge(accept, id, q, g, p, m, d)
<1>1. CASE call = NoCall \/ ~Looping
  BY <1>1, NotLooping
<1>2. CASE call # NoCall /\ Looping
  <2>1. call \in Calls /\ TypeInv
    BY <1>2 DEF TbInv
  <2>2. call.op = "write" \/ call.op = "read"
    BY <2>1, CallsAreBlocks
  <2>3. CASE call.op = "write"
    BY <1>2, <2>1, <2>3, Zenon DEF TbInv, WriteEdge
  <2>4. CASE call.op = "read"
    BY <1>2, <2>1, <2>4, Zenon DEF TbInv, ReadEdge
  <2> QED BY <2>2, <2>3, <2>4
<1> QED BY <1>1, <1>2

LEMMA WriteEdgeInv ==
  ASSUME NEW accept, NEW id \in [1 .. NumPieces(call) -> Ids], NEW i, NEW a, NEW r, NEW s, NEW n,
         WriteEdge(accept, id, i, a, r, s, n)
  PROVE  TbInv'
<1>0. PICK r2, s2, n2 : r2 = r + One(BFire(out)) /\ s2 = s + One(accept) /\ n2 = n + One(WFire(out)) - One(accept)
  OBVIOUS
<1>1. /\ TypeInv'
      /\ r2 \in 0 .. NumPieces(call) /\ s2 \in 0 .. WordsIn(call) /\ n2 \in 0 .. QUEUE_DEPTH
      /\ \E i2 \in 0 .. WordsIn(call), a2 \in 0 .. NumPieces(call) :
           /\ Driving(call, id, Untaken(Slave), out', split, split', i, a, i2, a2)
           /\ WriteState(id, i2, a2, r2, s2, n2)'
  BY <1>0, WriteNext
<1>2. PICK i2 \in 0 .. WordsIn(call), a2 \in 0 .. NumPieces(call) : WriteState(id, i2, a2, r2, s2, n2)'
  BY <1>1, Zenon
<1>3. call' = call /\ call \in Calls /\ call # NoCall /\ call.op = "write" /\ call.op # "read"
  BY WriteLoops, CallsAreBlocks DEF WriteEdge
<1>4. \E jd \in [1 .. NumPieces(call) -> Ids] :
      \E i3, s3 \in 0 .. WordsIn(call), a3, r3 \in 0 .. NumPieces(call), n3 \in 0 .. QUEUE_DEPTH :
        WriteState(jd, i3, a3, r3, s3, n3)'
  BY <1>1, <1>2, Zenon
<1> QED BY <1>1, <1>3, <1>4 DEF TbInv

LEMMA ReadEdgeInv ==
  ASSUME NEW accept, NEW id \in [1 .. NumPieces(call) -> Ids], NEW q, NEW g, NEW p, NEW m, NEW d,
         ReadEdge(accept, id, q, g, p, m, d)
  PROVE  TbInv'
<1>0. PICK g2, p2, m2 :
        g2 = g + One(ArFire(out)) /\ p2 = p + One(RFire(out)) /\ m2 = m + One(answer # {}) - One(RFire(out))
  OBVIOUS
<1>1. /\ TypeInv'
      /\ g2 \in 0 .. NumPieces(call) /\ p2 \in 0 .. WordsIn(call) /\ m2 \in 0 .. QUEUE_DEPTH
      /\ \E q2 \in 0 .. NumPieces(call), d2 \in 0 .. QUEUE_DEPTH : ReadState(id, q2, g2, p2, m2, d2)'
  BY <1>0, ReadNext
<1>2. call' = call /\ call \in Calls /\ call # NoCall /\ call.op = "read" /\ call.op # "write"
  BY ReadLoops, CallsAreBlocks DEF ReadEdge
<1>3. \E jd \in [1 .. NumPieces(call) -> Ids] :
      \E q3, g3 \in 0 .. NumPieces(call), p3 \in 0 .. WordsIn(call), m3, d3 \in 0 .. QUEUE_DEPTH :
        ReadState(jd, q3, g3, p3, m3, d3)'
  BY <1>1, Zenon
<1> QED BY <1>1, <1>2, <1>3 DEF TbInv

LEMMA ClockInv == ASSUME TbInv, NEW accept \in BOOLEAN, Edge(accept) PROVE TbInv'
<1>1. CASE IdleState
  BY <1>1, IdleEdge, StutterInv DEF TbInv
<1>2. CASE \E id \in [1 .. NumPieces(call) -> Ids] :
           \E i, s \in 0 .. WordsIn(call), a, r \in 0 .. NumPieces(call), n \in 0 .. QUEUE_DEPTH :
             WriteEdge(accept, id, i, a, r, s, n)
  BY <1>2, WriteEdgeInv, Zenon
<1>3. CASE \E id \in [1 .. NumPieces(call) -> Ids] :
           \E q, g \in 0 .. NumPieces(call), p \in 0 .. WordsIn(call), m, d \in 0 .. QUEUE_DEPTH :
             ReadEdge(accept, id, q, g, p, m, d)
  BY <1>3, ReadEdgeInv, Zenon
<1> QED BY <1>1, <1>2, <1>3, EdgeOf, Zenon

LEMMA StepInv == ASSUME TbInv, [TbNext]_tbVars PROVE TbInv'
<1>1. CASE Clock
  BY <1>1, ClockInv, Zenon DEF Clock
<1>2. CASE \E c \in Calls : TestCalls(c)
  <2> PICK c \in Calls : TestCalls(c)
    BY <1>2
  <2>1. c.op = "write" \/ c.op = "read"
    BY CallsAreBlocks
  <2> QED BY <2>1, BeginWriteInv, BeginReadInv
<1>3. CASE CallReturns
  BY <1>3, ReturnInv
<1>4. CASE UNCHANGED tbVars
  BY <1>4, StutterInv
<1> QED BY <1>1, <1>2, <1>3, <1>4, Zenon DEF TbNext

\* Whatever an edge, a call or a return does, the driver, the front end and the
\* memory stay at one word of the block each (TbInv), with what is on the channels
\* and in the queues lying between them.
THEOREM AlwaysTbInv == TbSpec => []TbInv
<1>1. TbInit => TbInv
  BY InitInv
<1>2. TbInv /\ [TbNext]_tbVars => TbInv'
  BY StepInv
<1> QED BY <1>1, <1>2, PTL DEF TbSpec

------------------------------------------------------------------------------
\* The driver's assertions.

LEMMA Expected == ASSUME TbInv PROVE ResponsesExpected
<1>1. ASSUME call.op = "write", Looping, Slave.bvalid, out.bready
      PROVE  respQ # <<>> /\ Slave.bid = Head(respQ).id /\ respPending > 0
  <2>1. call \in Calls
    BY <1>1, NoCallOp DEF TbInv
  <2>2. PICK id \in [1 .. NumPieces(call) -> Ids], i, s \in 0 .. WordsIn(call), a, r \in 0 .. NumPieces(call),
             n \in 0 .. QUEUE_DEPTH : WriteState(id, i, a, r, s, n)
    BY <1>1, Zenon DEF TbInv
  <2>3. wState = "wResp" /\ Slave.bid = wId
    BY <1>1 DEF Slave, BValid
  <2>4. r + 1 =< NumPieces(call) /\ wId = id[r + 1] /\ respPending = 1
        /\ respQ = Slice(WriteResponsesOf(call, id), r, NumPieces(call) - r)
    BY <2>2, <2>3 DEF WriteState, Writing, One
  <2> DEFINE R == WriteResponsesOf(call, id)
             m == NumPieces(call) - r
  <2>5. NumPieces(call) \in Nat \ {0} /\ r \in Int /\ m \in Nat /\ m > 0 /\ r + 1 \in 1 .. NumPieces(call)
    <3>1. NumPieces(call) \in Nat \ {0}
      BY <2>1, CallsAreBlocks, Pieces
    <3> QED BY <2>4, <3>1
  <2>6. R[r + 1].id = id[r + 1]
    BY <2>5 DEF WriteResponsesOf
  <2>7. respQ = Slice(R, r, m)
    BY <2>4
  <2> HIDE DEF R, m
  <2>8. Head(Slice(R, r, m)) = R[r + 1]
    BY <2>5, Slices
  <2>9. Slice(R, r, m) = <<>> <=> m = 0
    BY <2>5, Slices
  <2>10. m # 0
    BY <2>5
  <2> QED BY <2>3, <2>4, <2>6, <2>7, <2>8, <2>9, <2>10
<1>2. ASSUME call.op = "read", Looping, Slave.rvalid, out.rready
      PROVE  /\ respQ # <<>> /\ Slave.rid = Head(respQ).id /\ Slave.rlast = Head(respQ).last
             /\ Slave.rlast => respPending > 0
  <2>1. call \in Calls
    BY <1>2, NoCallOp DEF TbInv
  <2>2. PICK id \in [1 .. NumPieces(call) -> Ids], q, g \in 0 .. NumPieces(call), p \in 0 .. WordsIn(call),
             m, d \in 0 .. QUEUE_DEPTH : ReadState(id, q, g, p, m, d)
    BY <1>2, Zenon DEF TbInv
  <2>3. RFire(out) /\ rState = "rBurst" /\ Slave.rid = rId /\ Slave.rlast = RLast
    BY <1>2 DEF Slave, RFire, RValid
  <2>4. IsBlock(call) /\ WordsIn(call) \in Nat \ {0} /\ NumPieces(call) \in Nat \ {0}
    BY <2>1, CallsAreBlocks, WordsOfBlock, Pieces
  <2>5. /\ Reading(call, id, g, p, m, d)
        /\ respQ = Slice(ReadResponsesOf(call, id), p, WordsIn(call) - p)
        /\ respPending = 1
    BY <2>2, <2>3 DEF ReadState, One
  <2>6. /\ g > 0 /\ rId = id[g] /\ First(call, g) =< p + 1
        /\ rRespCnt = First(call, g + 1) - p - 2 /\ rRespCnt >= 0
    BY <2>3, <2>5 DEF Reading
  <2>7. g \in 1 .. NumPieces(call) /\ p \in Nat
    BY <2>4, <2>6
  <2>8. First(call, g) \in Nat /\ First(call, g + 1) \in Nat /\ First(call, g + 1) =< WordsIn(call) + 1
    <3>1. g \in 0 .. NumPieces(call) + 1 /\ g + 1 \in 0 .. NumPieces(call) + 1
      BY <2>4, <2>7
    <3>2. First(call, g) \in 0 .. WordsIn(call) + 1 /\ First(call, g + 1) \in 0 .. WordsIn(call) + 1
      BY <2>4, <3>1, Ordered
    <3> QED BY <2>4, <3>2
  <2>9. p + 1 \in First(call, g) .. First(call, g + 1) - 1
    BY <2>6, <2>7, <2>8
  <2>10. p + 1 \in 1 .. WordsIn(call) /\ PieceNo(call, p + 1) = g
    BY <2>4, <2>7, <2>9, PieceIsOne
  <2>11. ResponseOf(call, p + 1, id).id = id[g] /\ ResponseOf(call, p + 1, id).last = Ends(call, p + 1)
    BY <2>10 DEF ResponseOf
  <2>12. Ends(call, p + 1) <=> RLast
    <3>1. Ends(call, p + 1) <=> First(call, g + 1) = (p + 1) + 1
      BY <2>10 DEF Ends
    <3>2. RLast <=> rRespCnt = 0
      BY DEF RLast
    <3> QED BY <2>6, <2>7, <2>8, <3>1, <3>2
  <2>13. (Ends(call, p + 1)) = (RLast)
    BY <2>12 DEF Ends, RLast
  <2> DEFINE R == ReadResponsesOf(call, id)
             k == WordsIn(call) - p
  <2>14. k \in Nat /\ k > 0 /\ k # 0 /\ p \in Int
    BY <2>4, <2>7, <2>10
  <2>15. R[p + 1] = ResponseOf(call, p + 1, id)
    BY <2>10 DEF ReadResponsesOf
  <2>16. respQ = Slice(R, p, k)
    BY <2>5
  <2> HIDE DEF R, k
  <2>17. Head(Slice(R, p, k)) = R[p + 1]
    BY <2>14, Slices
  <2>18. Slice(R, p, k) = <<>> <=> k = 0
    BY <2>14, Slices
  <2>19. Head(respQ) = ResponseOf(call, p + 1, id) /\ respQ # <<>>
    BY <2>14, <2>15, <2>16, <2>17, <2>18
  <2>20. respPending > 0
    BY <2>5
  <2> QED BY <2>3, <2>6, <2>11, <2>13, <2>19, <2>20
<1> QED BY <1>1, <1>2 DEF ResponsesExpected, ResponseExpected

\* Every response of the front end is the one the driver asserts: there is one to
\* come, with the id and, of the last beat of a burst, the mark it waits for.
THEOREM ResponsesAreExpected == TbSpec => []ResponsesExpected
<1>1. TbInv => ResponsesExpected
  BY Expected
<1> QED BY <1>1, AlwaysTbInv, PTL

------------------------------------------------------------------------------
\* The port of the controller.

PortRequests == [rd : BOOLEAN, wr : SUBSET Lanes, addr : 0 .. NumWords - 1, data : Word]

LEMMA PortRequestIs ==
  ASSUME ramWstrb \subseteq Lanes, WordOf(ramAddr) \in 0 .. NumWords - 1, ramData \in Word
  PROVE  PortReq \in PortRequests
BY DEF PortReq, PortRequests, grantRead, ReadAsks, rReqRam

LEMMA AddressZero == WordOf(0) \in 0 .. NumWords - 1
BY Space DEF WordOf

LEMMA IdlePort == ASSUME IdleState PROVE PortReq \in PortRequests /\ ~Pending
<1>1. ~grantRead /\ ~grantWrite /\ wDataQueue = <<>>
  BY DEF IdleState, ReadsQuiet, WritesQuiet, grantRead, grantWrite, ReadAsks, WriteAsks, rReqRam, wReqRam
<1>2. ramWstrb = {} /\ ramAddr = 0 /\ ramData = IdleData
  BY <1>1 DEF ramWstrb, ramAddr, ramData
<1>3. PortReq \in PortRequests
  BY <1>2, AddressZero, IdleAssumption, PortRequestIs
<1>4. ~Pending
  BY <1>1, <1>2 DEF Pending, PortReq
<1> QED BY <1>3, <1>4

LEMMA WritePort ==
  ASSUME call \in Calls, call.op = "write", NEW id, NEW i, NEW a, NEW r, NEW s, NEW n,
         WriteState(id, i, a, r, s, n)
  PROVE  PortReq \in PortRequests /\ ~grantRead
<1>1. ~grantRead
  BY DEF WriteState, ReadsQuiet, grantRead, ReadAsks, rReqRam
<1>2. /\ IsBlock(call) /\ WordsIn(call) \in Nat \ {0}
  BY CallsAreBlocks, WordsOfBlock
<1>3. /\ s \in 0 .. WordsIn(call) /\ n \in 0 .. 4 /\ wDataQueue = Slice(BeatsOf(call), s, n)
  BY DEF WriteState, Writing, QUEUE_DEPTH
<1>4. n > 0 => s + 1 \in 1 .. WordsIn(call)
  <2>1. i \in 0 .. WordsIn(call) /\ i = s + n + One(out.w # {})
    BY DEF WriteState, Driven
  <2>2. One(out.w # {}) \in {0, 1}
    BY DEF One
  <2> QED BY <1>2, <1>3, <2>1, <2>2
<1>5. wDataQueue # <<>> => n > 0 /\ Head(wDataQueue) = BeatOf(call, s + 1)
  <2>1. n \in Nat /\ s \in Int
    BY <1>2, <1>3
  <2>2. wDataQueue = <<>> <=> n = 0
    BY <1>3, <2>1, Slices
  <2>3. n > 0 => Head(wDataQueue) = BeatsOf(call)[s + 1]
    BY <1>3, <2>1, Slices
  <2>4. n > 0 => BeatsOf(call)[s + 1] = BeatOf(call, s + 1)
    BY <1>4 DEF BeatsOf
  <2> QED BY <2>1, <2>2, <2>3, <2>4
<1>6. wDataQueue # <<>> => Head(wDataQueue).data \in Word /\ Head(wDataQueue).strb \subseteq Lanes
  BY <1>4, <1>5, BeatIs
<1>7. ramData \in Word
  BY <1>6, IdleAssumption DEF ramData
<1>8. grantWrite => wDataQueue # <<>> /\ wState = "wBurst" /\ ~wAllReqsSent
  BY DEF grantWrite, WriteAsks, wReqRam
<1>9. ramWstrb \subseteq Lanes
  BY <1>6, <1>8 DEF ramWstrb
<1>10. WordOf(ramAddr) \in 0 .. NumWords - 1
  <2>1. CASE grantWrite
    <3>1. wAddr = 4 * WordNo(call, s + 1)
      BY <1>8, <2>1 DEF WriteState, Writing
    <3>2. s + 1 \in 1 .. WordsIn(call)
      BY <1>4, <1>5, <1>8, <2>1
    <3>3. WordOf(4 * WordNo(call, s + 1)) \in 0 .. NumWords - 1
      BY <1>2, <3>2, PlaceOfWord
    <3> QED BY <1>1, <2>1, <3>1, <3>3 DEF ramAddr
  <2>2. CASE ~grantWrite
    BY <1>1, <2>2, AddressZero DEF ramAddr
  <2> QED BY <2>1, <2>2
<1> QED BY <1>1, <1>7, <1>9, <1>10, PortRequestIs

\* The next word to be requested in a read is a word of the block.
LEMMA ReadWord ==
  ASSUME call \in Calls, call.op = "read", NEW id, NEW q, NEW g, NEW p, NEW m, NEW d,
         ReadState(id, q, g, p, m, d), rState = "rBurst", ~rAllReqsSent
  PROVE  LET u == p + rOutstanding + 1
         IN u \in 1 .. WordsIn(call) /\ rAddr = 4 * WordNo(call, u)
<1>1. Reading(call, id, g, p, m, d)
  BY DEF ReadState
<1>2. IsBlock(call) /\ WordsIn(call) \in Nat \ {0} /\ NumPieces(call) \in Nat \ {0}
  BY CallsAreBlocks, WordsOfBlock, Pieces
<1>3. /\ g \in 0 .. NumPieces(call) /\ p \in 0 .. WordsIn(call) /\ m \in 0 .. 4 /\ d \in 0 .. 4
      /\ rAckPending = d + One(answer # {}) /\ rOutstanding = rAckPending + m
      /\ rReqCnt = First(call, g + 1) - (p + rOutstanding) - 2 /\ rReqCnt >= 0
      /\ rAddr = 4 * WordNo(call, p + rOutstanding + 1)
  BY <1>1 DEF Reading, QUEUE_DEPTH
<1>4. First(call, g + 1) \in 0 .. WordsIn(call) + 1
  <2>1. g + 1 \in 0 .. NumPieces(call) + 1
    BY <1>2, <1>3
  <2> QED BY <1>2, <2>1, Ordered
<1>5. rOutstanding \in Nat
  <2>1. One(answer # {}) \in {0, 1}
    BY DEF One
  <2> QED BY <1>3, <2>1
<1> DEFINE f == First(call, g + 1)
           W == WordsIn(call)
<1>6. f \in 0 .. W + 1 /\ W \in Nat /\ p \in Nat /\ f - (p + rOutstanding) - 2 >= 0
  BY <1>2, <1>3, <1>4
<1> HIDE DEF f, W
<1>7. p + rOutstanding + 1 \in 1 .. W
  BY <1>5, <1>6
<1> QED BY <1>3, <1>7 DEF W

LEMMA ReadPort ==
  ASSUME call \in Calls, call.op = "read", NEW id, NEW q, NEW g, NEW p, NEW m, NEW d,
         ReadState(id, q, g, p, m, d)
  PROVE  PortReq \in PortRequests /\ ~grantWrite /\ ramData = IdleData
<1>1. ~grantWrite /\ wDataQueue = <<>>
  BY DEF ReadState, WritesQuiet, grantWrite, WriteAsks, wReqRam
<1>2. ramWstrb = {} /\ ramData = IdleData
  BY <1>1 DEF ramWstrb, ramData
<1>3. WordOf(ramAddr) \in 0 .. NumWords - 1
  <2>1. CASE grantRead
    <3> DEFINE u == p + rOutstanding + 1
    <3>1. rState = "rBurst" /\ ~rAllReqsSent
      BY <2>1 DEF grantRead, ReadAsks, rReqRam
    <3>2. u \in 1 .. WordsIn(call) /\ rAddr = 4 * WordNo(call, u)
      BY <3>1, ReadWord
    <3> HIDE DEF u
    <3>3. WordOf(4 * WordNo(call, u)) \in 0 .. NumWords - 1
      BY <3>2, CallsAreBlocks, PlaceOfWord
    <3> QED BY <2>1, <3>2, <3>3 DEF ramAddr
  <2>2. CASE ~grantRead
    BY <1>1, <2>2, AddressZero DEF ramAddr
  <2> QED BY <2>1, <2>2
<1> QED BY <1>1, <1>2, <1>3, IdleAssumption, PortRequestIs

\* Whatever is under way, what is on the port is a request.
LEMMA PortInAny == ASSUME TbInv PROVE PortReq \in PortRequests
<1>1. CASE call = NoCall
  BY <1>1, IdlePort DEF TbInv
<1>2. CASE call # NoCall
  <2>1. call \in Calls /\ (call.op = "write" \/ call.op = "read")
    BY <1>2, CallsAreBlocks DEF TbInv
  <2>2. CASE call.op = "write"
    <3>1. PICK id \in [1 .. NumPieces(call) -> Ids], i, s \in 0 .. WordsIn(call), a, r \in 0 .. NumPieces(call),
               n \in 0 .. QUEUE_DEPTH : WriteState(id, i, a, r, s, n)
      BY <2>2, Zenon DEF TbInv
    <3> QED BY <2>1, <2>2, <3>1, WritePort
  <2>3. CASE call.op = "read"
    <3>1. PICK id \in [1 .. NumPieces(call) -> Ids], q, g \in 0 .. NumPieces(call), p \in 0 .. WordsIn(call),
               m, d \in 0 .. QUEUE_DEPTH : ReadState(id, q, g, p, m, d)
      BY <2>3, Zenon DEF TbInv
    <3> QED BY <2>1, <2>3, <3>1, ReadPort
  <2> QED BY <2>1, <2>2, <2>3
<1> QED BY <1>1, <1>2

\* A request that is not accepted is still there after the edge.
LEMMA WriteHeld ==
  ASSUME NEW accept, NEW id, NEW i, NEW a, NEW r, NEW s, NEW n,
         WriteEdge(accept, id, i, a, r, s, n), Pending, ~accept
  PROVE  PortReq' = PortReq
<1>1. ~grantRead /\ (grantWrite <=> wState = "wBurst" /\ ~wAllReqsSent /\ n > 0)
  BY WriteSignals
<1>2. grantWrite
  BY <1>1 DEF Pending, PortReq, ramWstrb
<1>3. /\ wState = "wBurst" /\ ~wAllReqsSent /\ wDataQueue # <<>>
  BY <1>2 DEF grantWrite, WriteAsks, wReqRam
<1>4. rState' = "rIdle" /\ rDataQ' = <<>> /\ rAckPending' = 0 /\ rOutstanding' = 0
  BY WriteLeavesReads
<1>5. wState' = "wBurst" /\ wAllReqsSent' = wAllReqsSent /\ wAddr' = wAddr
  <2>1. WriteFsm(out, accept)
    BY EdgeParts DEF WriteEdge
  <2> QED BY <1>3, <2>1 DEF WriteFsm, WriteIdle, WriteStart, WriteBurst, WriteResp, WriteRequest
<1>6. wDataQueue' # <<>> /\ Head(wDataQueue') = Head(wDataQueue)
  <2>1. WriteQueue(out, accept)
    BY EdgeParts DEF WriteEdge
  <2>2. \/ wDataQueue' = wDataQueue
        \/ \E beat \in out.w : wDataQueue' = Append(wDataQueue, beat)
    BY <2>1 DEF WriteQueue
  <2>3. wDataQueue = [j \in 1 .. n |-> BeatsOf(call)[s + j]] /\ n \in Nat /\ n > 0 /\ Len(wDataQueue) = n
    <3>1. wDataQueue = Slice(BeatsOf(call), s, n)
      BY DEF WriteEdge, WriteState, Writing
    <3>2. n \in 0 .. 4 /\ Len(wDataQueue) = n
      BY WriteNumbers
    <3>3. n > 0
      BY <1>1, <1>2
    <3> QED BY <3>1, <3>2, <3>3 DEF Slice
  <2>4. \A beat : Append(wDataQueue, beat) # <<>> /\ Head(Append(wDataQueue, beat)) = Head(wDataQueue)
    <3> SUFFICES ASSUME NEW beat PROVE Append(wDataQueue, beat) # <<>> /\ Head(Append(wDataQueue, beat)) = Head(wDataQueue)
      OBVIOUS
    <3> DEFINE U == {BeatsOf(call)[s + j] : j \in 1 .. n} \union {beat}
    <3>1. wDataQueue \in Seq(U)
      <4>1. wDataQueue = [j \in 1 .. n |-> wDataQueue[j]] /\ \A j \in 1 .. n : wDataQueue[j] \in U
        BY <2>3
      <4> HIDE DEF U
      <4> QED BY <2>3, <4>1, ListIn
    <3>2. beat \in U
      OBVIOUS
    <3> HIDE DEF U
    <3> QED BY <1>3, <2>3, <3>1, <3>2
  <2> QED BY <1>3, <2>2, <2>4
<1>7. grantWrite' = TRUE
  <2>1. ReadAsks' = FALSE
    BY <1>4 DEF ReadAsks, rReqRam
  <2>2. WriteAsks' = TRUE
    BY <1>3, <1>4, <1>5, <1>6 DEF WriteAsks, wReqRam
  <2> QED BY <2>1, <2>2 DEF grantWrite
<1>8. grantRead' = FALSE
  BY <1>4 DEF grantRead, ReadAsks, rReqRam
<1>9. ramWstrb' = ramWstrb /\ ramData' = ramData
  BY <1>2, <1>3, <1>6, <1>7 DEF ramWstrb, ramData
<1>10. ramAddr' = ramAddr
  BY <1>1, <1>2, <1>5, <1>7, <1>8 DEF ramAddr
<1>11. grantRead = FALSE
  BY <1>1 DEF grantRead
<1> QED BY <1>8, <1>9, <1>10, <1>11 DEF PortReq

LEMMA ReadHeld ==
  ASSUME NEW accept, NEW id, NEW q, NEW g, NEW p, NEW m, NEW d,
         ReadEdge(accept, id, q, g, p, m, d), Pending, ~accept
  PROVE  PortReq' = PortReq
<1>1. ~grantWrite /\ (grantRead <=> rState = "rBurst" /\ ~rAllReqsSent /\ rOutstanding < 4)
  BY ReadSignals
<1>2. grantRead
  BY <1>1 DEF Pending, PortReq, ramWstrb
<1>3. rState = "rBurst" /\ ~rAllReqsSent /\ rOutstanding < 4
  BY <1>1, <1>2
<1>4. wState' = "wIdle" /\ wDataQueue' = <<>> /\ wAckPending' = 0
  BY ReadLeavesWrites
<1>5. PICK d2 \in Nat : d2 + One(answer' # {}) = d + One(accept)
  BY ReadOwed
<1>6. rOutstanding' < 4
  <2>1. rOutstanding' = (rOutstanding + One(accept)) - One(RFire(out))
    BY <1>5, ReadCountersNext
  <2>2. One(accept) = 0 /\ One(RFire(out)) \in {0, 1} /\ rOutstanding \in 0 .. 4
    BY ReadNumbers DEF One
  <2> QED BY <1>3, <2>1, <2>2
<1>7. ReadRequest(accept) /\ ReadReturn(out)
  <2>1. ReadFsm(out, accept)
    BY EdgeParts DEF ReadEdge
  <2> QED BY <1>3, <2>1 DEF ReadFsm, ReadIdle, ReadStart, ReadBurst
<1>8. rAllReqsSent' = rAllReqsSent /\ rAddr' = rAddr
  BY <1>7, Zenon DEF ReadRequest
<1>9. rState' = "rBurst"
  <2>1. RFire(out) => m > 0
    BY ReadSignals
  <2>2. rRespCnt = 0 => ~RFire(out)
    <3> DEFINE f == First(call, g + 1)
    <3>1. f \in Nat /\ p \in Nat /\ rOutstanding \in 0 .. 4 /\ rRespCnt = f - p - 2
          /\ f - (p + rOutstanding) - 2 >= 0
      BY <1>3, InBurst
    <3>2. rOutstanding >= m
      <4>1. rAckPending = d + One(answer # {}) /\ rOutstanding = rAckPending + m /\ d \in 0 .. 4 /\ m \in 0 .. 4
        BY ReadNumbers
      <4>2. One(answer # {}) \in {0, 1}
        BY DEF One
      <4> QED BY <4>1, <4>2
    <3>3. m \in 0 .. 4
      BY ReadNumbers
    <3> HIDE DEF f
    <3>4. rRespCnt = 0 => m = 0
      BY <3>1, <3>2, <3>3
    <3> QED BY <2>1, <3>3, <3>4
  <2>3. rState' = "rIdle" => RFire(out) /\ rRespCnt = 0
    BY <1>3, <1>7 DEF ReadReturn
  <2>4. rState' = rState \/ rState' = "rIdle"
    BY <1>7, Zenon DEF ReadReturn
  <2> QED BY <1>3, <2>2, <2>3, <2>4
<1>10. grantWrite' = FALSE /\ grantRead' = TRUE
  <2>1. grantWrite' = FALSE
    BY <1>4 DEF grantWrite, WriteAsks, wReqRam
  <2>2. ReadAsks' = TRUE
    BY <1>3, <1>4, <1>6, <1>8, <1>9 DEF ReadAsks, rReqRam, QUEUE_DEPTH
  <2> QED BY <2>1, <2>2 DEF grantRead
<1>11. ramWstrb' = {} /\ ramWstrb = {} /\ ramData' = IdleData /\ ramData = IdleData
  <2>1. ramData = IdleData
    BY ReadPort DEF ReadEdge
  <2> QED BY <1>1, <1>4, <1>10, <2>1 DEF ramWstrb, ramData
<1>12. ramAddr' = ramAddr
  BY <1>2, <1>8, <1>10 DEF ramAddr
<1>13. grantRead = TRUE
  BY <1>2 DEF grantRead
<1> QED BY <1>10, <1>11, <1>12, <1>13 DEF PortReq

\* What the memory owes, as WordMemory has it: any word for a write.
AnswerOf(x) == IF x = {} THEN Word ELSE x
Owe(list) == [k \in DOMAIN list |-> AnswerOf(list[k])]

LEMMA OweAppend ==
  ASSUME NEW list \in Seq(SUBSET Word), NEW x \in SUBSET Word
  PROVE  Owe(Append(list, x)) = Append(Owe(list), AnswerOf(x))
<1>1. AnswerOf(x) \in SUBSET Word /\ \A k \in 1 .. Len(list) : AnswerOf(list[k]) \in SUBSET Word
  BY DEF AnswerOf
<1>2. Owe(list) \in Seq(SUBSET Word) /\ Len(Owe(list)) = Len(list)
  <2> DEFINE o == Owe(list)
             m == Len(list)
  <2>1. o = [k \in 1 .. m |-> o[k]] /\ m \in Nat /\ \A k \in 1 .. m : o[k] \in SUBSET Word
    BY <1>1 DEF Owe
  <2> HIDE DEF o, m
  <2>2. o \in Seq(SUBSET Word) /\ Len(o) = m
    BY <2>1, ListIn
  <2> QED BY <2>2 DEF o, m
<1>3. Append(list, x) \in Seq(SUBSET Word) /\ Len(Append(list, x)) = Len(list) + 1
  OBVIOUS
<1> DEFINE s == Owe(Append(list, x))
           t == Append(Owe(list), AnswerOf(x))
           m == Len(list)
<1>4. s = [k \in 1 .. m + 1 |-> s[k]] /\ \A k \in 1 .. m + 1 : s[k] = AnswerOf(Append(list, x)[k])
  BY <1>3 DEF Owe
<1>5. t = [k \in 1 .. m + 1 |-> t[k]] /\ \A k \in 1 .. m + 1 : t[k] = IF k = m + 1 THEN AnswerOf(x) ELSE Owe(list)[k]
  <2> DEFINE o == Owe(list)
             y == AnswerOf(x)
  <2>1. o \in Seq(SUBSET Word) /\ Len(o) = m /\ y \in SUBSET Word
    BY <1>1, <1>2
  <2> HIDE DEF o, y
  <2>2. /\ Len(Append(o, y)) = m + 1 /\ Append(o, y) = [k \in 1 .. m + 1 |-> Append(o, y)[k]]
        /\ \A k \in 1 .. m + 1 : Append(o, y)[k] = IF k = m + 1 THEN y ELSE o[k]
    <3> HIDE DEF m
    <3> DEFINE z == Append(o, y)
    <3>1. z \in Seq(SUBSET Word) /\ Len(z) = m + 1
      BY <2>1
    <3>3. \A k \in 1 .. m + 1 : z[k] = IF k = m + 1 THEN y ELSE o[k]
      BY <2>1
    <3> HIDE DEF z
    <3>2. z = [k \in 1 .. Len(z) |-> z[k]]
      BY <3>1
    <3>4. z = [k \in 1 .. m + 1 |-> z[k]]
      BY <3>1, <3>2
    <3> QED BY <3>1, <3>3, <3>4 DEF z
  <2> QED BY <2>2 DEF o, y
<1>6. \A k \in 1 .. m + 1 : Append(list, x)[k] = IF k = m + 1 THEN x ELSE list[k]
  OBVIOUS
<1>7. \A k \in 1 .. m : Owe(list)[k] = AnswerOf(list[k])
  BY DEF Owe
<1>8. m \in Nat
  OBVIOUS
<1>9. \A k \in 1 .. m + 1 : s[k] = t[k]
  <2> SUFFICES ASSUME NEW k \in 1 .. m + 1 PROVE s[k] = t[k]
    OBVIOUS
  <2> HIDE DEF s, t, m
  <2>1. CASE k = m + 1
    BY <1>4, <1>5, <1>6, <2>1
  <2>2. CASE k # m + 1
    <3>1. k \in 1 .. m
      BY <1>8, <2>2
    <3> QED BY <1>4, <1>5, <1>6, <1>7, <2>2, <3>1
  <2> QED BY <2>1, <2>2
<1> HIDE DEF s, t, m
<1>10. s = t
  BY <1>4, <1>5, <1>9
<1> QED BY <1>10 DEF s, t

LEMMA OweHead ==
  ASSUME NEW list \in Seq(SUBSET Word), list # <<>>
  PROVE  Owe(list) # <<>> /\ Head(Owe(list)) = AnswerOf(Head(list)) /\ Owe(Tail(list)) = Tail(Owe(list))
<1> DEFINE o == Owe(list)
           m == Len(list)
<1>1. m \in Nat /\ m > 0 /\ \A k \in 1 .. m : list[k] \in SUBSET Word
  OBVIOUS
<1>2. o = [k \in 1 .. m |-> AnswerOf(list[k])] /\ \A k \in 1 .. m : AnswerOf(list[k]) \in SUBSET Word
  BY <1>1 DEF Owe, AnswerOf
<1>3. o \in Seq(SUBSET Word) /\ Len(o) = m /\ \A k \in 1 .. m : o[k] = AnswerOf(list[k])
  <2>1. o = [k \in 1 .. m |-> o[k]] /\ \A k \in 1 .. m : o[k] \in SUBSET Word
    BY <1>2
  <2>2. \A k \in 1 .. m : o[k] = AnswerOf(list[k])
    BY <1>2
  <2> HIDE DEF o, m
  <2>3. o \in Seq(SUBSET Word) /\ Len(o) = m
    BY <1>1, <2>1, ListIn
  <2> QED BY <2>2, <2>3
<1>4. Tail(list) \in Seq(SUBSET Word) /\ Len(Tail(list)) = m - 1 /\ Head(list) = list[1]
      /\ \A k \in 1 .. m - 1 : Tail(list)[k] = list[k + 1]
  OBVIOUS
<1>5. Owe(Tail(list)) = [k \in 1 .. m - 1 |-> AnswerOf(list[k + 1])]
  BY <1>4 DEF Owe
<1> HIDE DEF o
<1>6. o # <<>> /\ Head(o) = o[1] /\ Len(Tail(o)) = m - 1 /\ Tail(o) \in Seq(SUBSET Word)
      /\ \A k \in 1 .. m - 1 : Tail(o)[k] = o[k + 1]
  <2> HIDE DEF m
  <2> QED BY <1>1, <1>3
<1>7. Tail(o) = [k \in 1 .. m - 1 |-> AnswerOf(list[k + 1])]
  <2>1. \A k \in 1 .. m - 1 : Tail(o)[k] = AnswerOf(list[k + 1])
    <3> SUFFICES ASSUME NEW k \in 1 .. m - 1 PROVE Tail(o)[k] = AnswerOf(list[k + 1])
      OBVIOUS
    <3>1. k + 1 \in 1 .. m
      BY <1>1
    <3> QED BY <1>3, <1>6, <3>1
  <2>2. Tail(o) = [k \in 1 .. m - 1 |-> Tail(o)[k]]
    <3> DEFINE t == Tail(o)
    <3>1. t \in Seq(SUBSET Word) /\ Len(t) = m - 1
      BY <1>6
    <3> HIDE DEF t, m
    <3>2. t = [k \in 1 .. Len(t) |-> t[k]]
      BY <3>1
    <3> QED BY <3>1, <3>2 DEF t
  <2> HIDE DEF m
  <2> QED BY <2>1, <2>2
<1>8. Head(o) = AnswerOf(Head(list))
  BY <1>1, <1>3, <1>4, <1>6
<1> QED BY <1>5, <1>6, <1>7, <1>8 DEF o

\* An edge at the memory is a step of it, if what is on the port is held.
LEMMA MemoryStep ==
  ASSUME NEW accept \in BOOLEAN, MemoryEdge(accept), TypeInv,
         PortReq \in PortRequests, PortReq' \in PortRequests,
         Pending /\ ~accept => PortReq' = PortReq,
         answer' = {} \/ \E w : answer' = {w}
  PROVE  Port!Next
<1> DEFINE owing == IF ~accept THEN due ELSE Append(due, IF PortReq.rd THEN {store[PortReq.addr]} ELSE {})
<1>1. /\ accept => Pending
      /\ store' = IF accept /\ ~PortReq.rd
                 THEN [store EXCEPT ![PortReq.addr] =
                        [l \in Lanes |-> IF l \in PortReq.wr THEN PortReq.data[l] ELSE @[l]]]
                 ELSE store
      /\ \/ answer' = {} /\ due' = owing
         \/ /\ owing # <<>>
            /\ answer' = IF Head(owing) = {} THEN {EmptyWord} ELSE Head(owing)
            /\ due' = Tail(owing)
  BY Zenon DEF MemoryEdge
<1>2. due \in Seq(SUBSET Word) /\ store \in [0 .. NumWords - 1 -> Word] /\ PortReq.addr \in 0 .. NumWords - 1
      /\ PortReq.rd \in BOOLEAN
  BY DEF TypeInv, PortRequests
<1>3. Port!Place = PortReq.addr
  <2>1. NumWords \in Nat \ {0}
    BY Space
  <2>2. PortReq.addr % NumWords = PortReq.addr
    <3> DEFINE x == PortReq.addr
               n == NumWords
    <3>1. x \in 0 .. n - 1 /\ n \in Nat \ {0}
      BY <1>2, <2>1
    <3> HIDE DEF x, n
    <3>2. x % n = x
      <4>1. n * 0 + x = x
        BY <3>1
      <4>2. (n * 0 + x) % n = x
        BY <3>1, Remainder
      <4> QED BY <4>1, <4>2
    <3> QED BY <3>2 DEF x, n
  <2> QED BY <2>2 DEF Port!Place
<1>4. (Port!Pending) = (Pending) /\ Port!Words = Word /\ Port!WordLanes = Lanes
  BY DEF Port!Pending, Pending, Port!Words, Port!WordLanes, Word, Lanes
<1> DEFINE x == IF PortReq.rd THEN {store[PortReq.addr]} ELSE {}
<1>5. x \in SUBSET Word /\ AnswerOf(x) = IF PortReq.rd THEN {store[PortReq.addr]} ELSE Word
  BY <1>2 DEF AnswerOf
<1>6. owing \in Seq(SUBSET Word) /\ Owe(owing) = IF ~accept THEN Owe(due) ELSE Append(Owe(due), AnswerOf(x))
  <2> HIDE DEF x
  <2>1. owing = IF ~accept THEN due ELSE Append(due, x)
    BY DEF x
  <2> HIDE DEF owing
  <2>2. CASE accept
    <3>1. Owe(Append(due, x)) = Append(Owe(due), AnswerOf(x))
      BY <1>2, <1>5, OweAppend
    <3>2. Append(due, x) \in Seq(SUBSET Word)
      BY <1>2, <1>5
    <3> QED BY <2>1, <2>2, <3>1, <3>2
  <2>3. CASE ~accept
    BY <1>2, <2>1, <2>3
  <2> QED BY <2>2, <2>3
<1>7. accept => Owe(owing) = Port!Owing
  <2>1. Port!Owing = Append(Owe(due), IF PortReq.rd THEN {store[PortReq.addr]} ELSE Word)
    BY <1>3, <1>4 DEF Port!Owing, Owe, AnswerOf
  <2> QED BY <1>5, <1>6, <2>1
<1> HIDE DEF owing, x
<1>8. Port!Reply(Owe(owing))
  <2>1. CASE answer' = {} /\ due' = owing
    BY <2>1 DEF Port!Reply, Owe, AnswerOf
  <2>2. CASE /\ owing # <<>>
             /\ answer' = IF Head(owing) = {} THEN {EmptyWord} ELSE Head(owing)
             /\ due' = Tail(owing)
    <3>1. Owe(owing) # <<>> /\ Head(Owe(owing)) = AnswerOf(Head(owing)) /\ Owe(due') = Tail(Owe(owing))
      BY <1>6, <2>2, OweHead
    <3>2. EmptyWord \in Word
      BY ByteAssumption DEF EmptyWord, Word
    <3>3. \E w \in AnswerOf(Head(owing)) : answer' = {w}
      <4>1. CASE Head(owing) = {}
        BY <2>2, <3>2, <4>1 DEF AnswerOf
      <4>2. CASE Head(owing) # {}
        <5>1. answer' = Head(owing) /\ answer' # {}
          BY <2>2, <4>2
        <5>2. PICK w : answer' = {w}
          BY <5>1
        <5> QED BY <5>1, <5>2 DEF AnswerOf
      <4> QED BY <4>1, <4>2
    <3>4. [k \in DOMAIN due |-> IF due[k] = {} THEN Word ELSE due[k]]' = Owe(due')
      BY DEF Owe, AnswerOf
    <3> QED BY <3>1, <3>3, <3>4 DEF Port!Reply
  <2> QED BY <1>1, <2>1, <2>2
<1>9. CASE accept
  <2>1. Port!Accept
    <3>1. store' = IF PortReq.rd THEN store
              ELSE [store EXCEPT ![Port!Place] = Port!WriteLanes(@, PortReq.data, PortReq.wr)]
      BY <1>1, <1>3, <1>4, <1>9 DEF Port!WriteLanes
    <3>2. Port!Pending
      BY <1>1, <1>4, <1>9
    <3> QED BY <3>1, <3>2 DEF Port!Accept, PortRequests
  <2>2. Port!Reply(Port!Owing)
    BY <1>7, <1>8, <1>9 DEF Port!Reply
  <2> QED BY <2>1, <2>2, Zenon DEF Port!Next
<1>10. CASE ~accept
  <2>1. Port!Hold
    BY <1>1, <1>4, <1>10 DEF Port!Hold, PortRequests
  <2>2. Owe(owing) = Owe(due)
    BY <1>6, <1>10
  <2>3. Port!Reply(Owe(due))
    BY <1>8, <2>2 DEF Port!Reply
  <2> QED BY <2>1, <2>3 DEF Port!Next, Owe, AnswerOf
<1> QED BY <1>9, <1>10

LEMMA PortUnchanged == UNCHANGED <<pmemVars, store, due, answer>> => UNCHANGED Port!vars
BY DEF pmemVars, readVars, writeVars, Port!vars, PortReq, grantRead, grantWrite, ramWstrb, ramAddr, ramData,
       ReadAsks, WriteAsks, rReqRam, wReqRam

LEMMA EdgeIsMemoryStep ==
  ASSUME TbInv, PortReq' \in PortRequests, NEW accept \in BOOLEAN, Edge(accept)
  PROVE  Port!Next \/ UNCHANGED Port!vars
<1>1. TypeInv /\ PortReq \in PortRequests /\ MemoryEdge(accept)
  BY PortInAny, EdgeParts DEF TbInv
<1>2. CASE IdleState
  <2>1. UNCHANGED tbVars
    BY <1>1, <1>2, IdleEdge
  <2> QED BY <2>1, PortUnchanged DEF tbVars
<1>3. CASE \E id \in [1 .. NumPieces(call) -> Ids] :
           \E i, s \in 0 .. WordsIn(call), a, r \in 0 .. NumPieces(call), n \in 0 .. QUEUE_DEPTH :
             WriteEdge(accept, id, i, a, r, s, n)
  <2>1. PICK id, i, s, a, r, n : WriteEdge(accept, id, i, a, r, s, n)
    BY <1>3, Zenon
  <2>2. Pending /\ ~accept => PortReq' = PortReq
    BY <2>1, WriteHeld
  <2>3. answer' = {} \/ answer' = {EmptyWord}
    BY <2>1, WriteOwed
  <2> QED BY <1>1, <2>2, <2>3, MemoryStep
<1>4. CASE \E id \in [1 .. NumPieces(call) -> Ids] :
           \E q, g \in 0 .. NumPieces(call), p \in 0 .. WordsIn(call), m, d \in 0 .. QUEUE_DEPTH :
             ReadEdge(accept, id, q, g, p, m, d)
  <2>1. PICK id, q, g, p, m, d : ReadEdge(accept, id, q, g, p, m, d)
    BY <1>4, Zenon
  <2>2. Pending /\ ~accept => PortReq' = PortReq
    BY <2>1, ReadHeld
  <2>3. answer' = {} \/ \E w : answer' = {w}
    BY <2>1, ReadOwed
  <2> QED BY <1>1, <2>2, <2>3, MemoryStep
<1> QED BY <1>2, <1>3, <1>4, EdgeOf, Zenon

LEMMA StepIsMemoryStep ==
  ASSUME TbInv, PortReq' \in PortRequests, [TbNext]_tbVars
  PROVE  [Port!Next]_(Port!vars)
<1>1. CASE Clock
  BY <1>1, EdgeIsMemoryStep DEF Clock
<1>2. CASE (\E c \in Calls : TestCalls(c)) \/ CallReturns \/ UNCHANGED tbVars
  <2>1. UNCHANGED <<pmemVars, store, due, answer>>
    BY <1>2 DEF TestCalls, CallReturns, tbVars
  <2> QED BY <2>1, PortUnchanged
<1> QED BY <1>1, <1>2 DEF TbNext

LEMMA InitIsMemoryInit == TbInit => Port!Init
<1> SUFFICES ASSUME TbInit PROVE Port!Init
  OBVIOUS
<1>1. PortReq \in PortRequests
  BY InitInv, PortInAny
<1>2. store \in [0 .. NumWords - 1 -> Word] /\ due = <<>> /\ answer = {}
  BY DEF TbInit
<1>3. Port!Words = Word
  BY DEF Port!Words, Port!WordLanes, Word, Lanes
<1>4. [k \in DOMAIN due |-> IF due[k] = {} THEN Word ELSE due[k]] = <<>>
  BY <1>2
<1> QED BY <1>1, <1>2, <1>3, <1>4 DEF Port!Init, PortRequests

\* Behind the front end the driver is a client that holds each request, a word
\* of the memory, until it is accepted, and is answered once for each in order.
THEOREM IsAlwaysPortClient == TbSpec => IsPortClient
<1>1. TbInit => Port!Init
  BY InitIsMemoryInit
<1>2. TbInv => PortReq \in PortRequests
  BY PortInAny
<1>3. TbInv /\ TbInv' /\ [TbNext]_tbVars => [Port!Next]_(Port!vars)
  <2> SUFFICES ASSUME TbInv, TbInv', [TbNext]_tbVars PROVE [Port!Next]_(Port!vars)
    OBVIOUS
  <2>1. TbInv' => (PortReq \in PortRequests)'
    BY <1>2, PTL
  <2> QED BY <2>1, StepIsMemoryStep DEF PortRequests
<1> QED BY <1>1, <1>3, AlwaysTbInv, PTL DEF TbSpec, IsPortClient, Port!Spec

------------------------------------------------------------------------------
\* The calls are those of a memory of bytes.

Memory == [a \in Addrs |-> store[a \div 4][a % 4]]

LEMMA MemoryBytes ==
  ASSUME store \in [0 .. NumWords - 1 -> Word]
  PROVE  Memory \in [0 .. AddrSpace - 1 -> ByteValues]
<1>1. ASSUME NEW a \in Addrs PROVE store[a \div 4][a % 4] \in ByteValues
  <2>1. a \div 4 \in 0 .. NumWords - 1 /\ a % 4 \in Lanes
    BY Space DEF WordOf, Lanes
  <2> QED BY <2>1 DEF Word
<1> QED BY <1>1 DEF Memory, Addrs

\* Where in the block the byte at an address is.
Offset(c, a) == (a + AddrSpace - c.addr) % AddrSpace

\* The bytes of a word of the block are at successive addresses of that word.
LEMMA BytesOfWord ==
  ASSUME NEW c, IsBlock(c), NEW i \in 1 .. WordsIn(c), NEW x \in 0 .. SizeIn(c, i) - 1
  PROVE  LET a == PlaceIn(c, i) + x
         IN /\ a \in Addrs /\ (c.addr + (Upto(c, i - 1) + x)) % AddrSpace = a
            /\ a \div 4 = WordNo(c, i) /\ a % 4 = (PlaceIn(c, i) % 4) + x
            /\ Offset(c, a) = Upto(c, i - 1) + x
<1> DEFINE f == Upto(c, i - 1)
           n == SizeIn(c, i)
           p == PlaceIn(c, i)
           w == WordNo(c, i)
           o == p % 4
           A == AddrSpace
           b == c.addr
           N == Len(c.data)
<1>1. n \in 1 .. 4 /\ f \in 0 .. N - 1 /\ Upto(c, i) \in 0 .. N /\ n = Upto(c, i) - f
  BY WordsOfBlock DEF SizeIn
<1>2. w \in 0 .. NumWords - 1 /\ p \in Addrs /\ WordOf(p) = w /\ o + n =< 4 /\ p = (b + f) % A
  BY PlaceOfWord DEF PlaceIn
<1>3. o \in 0 .. 3 /\ p = 4 * w + o
  BY <1>2, Space
<1>4. A \in Nat \ {0} /\ A = 4 * NumWords /\ NumWords \in Nat
  BY Space
<1>5. b \in 0 .. A - 1 /\ N \in 1 .. A
  BY DEF IsBlock, Addrs
<1>0. x \in 0 .. n - 1
  OBVIOUS
<1> HIDE DEF f, n, p, w, o, A, b, N
<1>6. o + x \in 0 .. 3 /\ p + x = 4 * w + (o + x) /\ p + x \in 0 .. A - 1
  <2>1. x \in Int /\ x >= 0 /\ x < n /\ n \in Int
    BY <1>0, <1>1
  <2>2. w \in Int /\ w >= 0 /\ w =< NumWords - 1 /\ o \in Int /\ o >= 0
    BY <1>2, <1>3, <1>4
  <2>3. o + x \in 0 .. 3
    BY <1>2, <2>1, <2>2
  <2>4. p + x = 4 * w + (o + x)
    BY <1>3, <2>1, <2>2
  <2>5. 4 * w + (o + x) \in 0 .. A - 1
    BY <1>4, <2>2, <2>3
  <2> QED BY <2>3, <2>4, <2>5
<1>7. (p + x) \div 4 = w /\ (p + x) % 4 = o + x
  <2>1. 4 \in Nat \ {0} /\ w \in Int /\ o + x \in 0 .. 4 - 1
    BY <1>2, <1>6
  <2>2. (4 * w + (o + x)) \div 4 = w /\ (4 * w + (o + x)) % 4 = o + x
    BY <2>1, Remainder
  <2> QED BY <1>6, <2>2
<1>8. p = IF b + f < A THEN b + f ELSE b + f - A
  <2>1. f \in 0 .. A
    BY <1>1, <1>4, <1>5
  <2> QED BY <1>2, <1>4, <1>5, <2>1, Around
<1>9. (b + (f + x)) % A = IF b + (f + x) < A THEN b + (f + x) ELSE b + (f + x) - A
  <2>1. f + x \in 0 .. A
    BY <1>0, <1>1, <1>4, <1>5
  <2> QED BY <1>4, <1>5, <2>1, Around
<1>10. (b + (f + x)) % A = p + x
  BY <1>1, <1>4, <1>5, <1>6, <1>8, <1>9
<1>11. (p + x + A - b) % A = f + x
  <2>1. ((p + x) + (A - b)) % A = IF (p + x) + (A - b) < A THEN (p + x) + (A - b) ELSE (p + x) + (A - b) - A
    <3>1. A - b \in 0 .. A
      BY <1>4, <1>5
    <3> QED BY <1>4, <1>6, <3>1, Around
  <2>2. p + x + A - b = (p + x) + (A - b)
    BY <1>4, <1>5, <1>6
  <2>3. f + x \in 0 .. A - 1
    BY <1>0, <1>1, <1>4, <1>5
  <2> QED BY <1>1, <1>4, <1>5, <1>6, <1>8, <2>1, <2>2, <2>3
<1> QED BY <1>6, <1>7, <1>10, <1>11 DEF f, n, p, w, o, A, b, N, Addrs, Offset

LEMMA PlacesOfWord ==
  ASSUME NEW c, IsBlock(c), NEW i \in 1 .. WordsIn(c), NEW a \in Addrs
  PROVE  LET f == Upto(c, i - 1)
             x == (a % 4) - (PlaceIn(c, i) % 4)
         IN /\ Offset(c, a) \in f .. f + SizeIn(c, i) - 1 <=> a \div 4 = WordNo(c, i) /\ x \in 0 .. SizeIn(c, i) - 1
            /\ Offset(c, a) \in f .. f + SizeIn(c, i) - 1 => Offset(c, a) = f + x
<1> DEFINE f == Upto(c, i - 1)
           n == SizeIn(c, i)
           p == PlaceIn(c, i)
           w == WordNo(c, i)
           o == p % 4
           A == AddrSpace
           b == c.addr
           N == Len(c.data)
           x == (a % 4) - o
<1>1. n \in 1 .. 4 /\ f \in 0 .. N - 1 /\ Upto(c, i) \in 0 .. N /\ n = Upto(c, i) - f
  BY WordsOfBlock DEF SizeIn
<1>2. A \in Nat \ {0} /\ b \in 0 .. A - 1 /\ N \in 1 .. A /\ a \in 0 .. A - 1
  BY Space DEF IsBlock, Addrs
<1>3. w \in 0 .. NumWords - 1 /\ p \in Addrs /\ WordOf(p) = w
  BY PlaceOfWord
<1>4. o \in 0 .. 3 /\ p = 4 * w + o /\ a % 4 \in 0 .. 3 /\ a = 4 * (a \div 4) + (a % 4) /\ w \in Nat /\ a \div 4 \in Nat
  BY <1>3, Space DEF WordOf
<1>5. \A y \in 0 .. n - 1 :
        /\ p + y \in Addrs /\ (b + (f + y)) % A = p + y
        /\ (p + y) \div 4 = w /\ (p + y) % 4 = o + y /\ Offset(c, p + y) = f + y
  BY BytesOfWord
<1>6. Offset(c, a) = IF a < b THEN a + A - b ELSE a - b
  <2>1. A - b \in 0 .. A
    BY <1>2
  <2>2. (a + (A - b)) % A = IF a + (A - b) < A THEN a + (A - b) ELSE a + (A - b) - A
    <3> HIDE DEF A, b
    <3> QED BY <1>2, <2>1, Around
  <2>3. a + (A - b) = a + A - b
    BY <1>2
  <2> HIDE DEF A, b
  <2> QED BY <1>2, <2>2, <2>3 DEF Offset, A, b
<1> DEFINE e == Offset(c, a)
<1> HIDE DEF f, n, p, w, o, A, b, N, e
<1>7. ASSUME e \in f .. f + n - 1
      PROVE  a \div 4 = w /\ x \in 0 .. n - 1 /\ e = f + x
  <2> DEFINE y == e - f
  <2>1. y \in 0 .. n - 1 /\ e = f + y
    BY <1>1, <1>7
  <2> HIDE DEF y
  <2>2. (b + (f + y)) % A = a
    <3>1. e \in 0 .. A
      BY <1>2, <1>6 DEF e
    <3>2. (b + e) % A = IF b + e < A THEN b + e ELSE b + e - A
      BY <1>2, <3>1, Around
    <3>3. (b + e) % A = a
      BY <1>2, <1>6, <3>2 DEF e
    <3> QED BY <2>1, <3>3
  <2>3. a = p + y
    BY <1>5, <2>1, <2>2
  <2>4. a \div 4 = w /\ a % 4 = o + y
    BY <1>5, <2>1, <2>3
  <2>5. x = y
    BY <1>4, <2>1, <2>4
  <2> QED BY <2>1, <2>4, <2>5
<1>8. ASSUME a \div 4 = w, x \in 0 .. n - 1
      PROVE  e \in f .. f + n - 1
  <2>1. a = p + x
    BY <1>4, <1>8
  <2>2. Offset(c, p + x) = f + x
    BY <1>5, <1>8
  <2>3. e = f + x
    BY <2>1, <2>2 DEF e
  <2> HIDE DEF x
  <2> QED BY <1>1, <1>8, <2>3
<1> QED BY <1>7, <1>8 DEF f, n, p, w, o, e

\* The strobes of a beat are the offsets of its bytes that are to be written.
LEMMA MaskOfWord ==
  ASSUME NEW c \in Calls, c.op = "write", NEW i \in 1 .. WordsIn(c), NEW x \in 0 .. SizeIn(c, i) - 1
  PROVE  x \in InitialMask(c) <=> Upto(c, i - 1) + x \in c.mask
<1>0. IsBlock(c)
  BY CallsAreBlocks
<1>1. /\ SizeIn(c, i) \in 1 .. 4 /\ Upto(c, i - 1) \in 0 .. Len(c.data) - 1 /\ Upto(c, i) \in 0 .. Len(c.data)
      /\ SizeIn(c, i) = Upto(c, i) - Upto(c, i - 1) /\ Len(c.data) \in Nat
  BY <1>0, WordsOfBlock DEF SizeIn, IsBlock
<1>2. CASE c.mask = 0 .. Len(c.data) - 1
  <2>1. InitialMask(c) = Lanes
    BY <1>2 DEF InitialMask
  <2>2. x \in Lanes /\ Upto(c, i - 1) + x \in 0 .. Len(c.data) - 1
    BY <1>1 DEF Lanes
  <2> QED BY <1>2, <2>1, <2>2
<1>3. CASE c.mask # 0 .. Len(c.data) - 1
  <2>1. Len(c.data) = 4 /\ c.addr % 4 = 0
    BY <1>3, CallsAssumption
  <2>2. WordsIn(c) = 1
    BY <2>1 DEF WordsIn
  <2>3. i = 1 /\ Upto(c, 0) = 0
    BY <1>0, <2>2, WordsOfBlock
  <2>4. InitialMask(c) = c.mask
    BY <1>3 DEF InitialMask
  <2> QED BY <2>3, <2>4
<1> QED BY <1>2, <1>3

\* A word that is accepted stores the bytes of the block in it, and nothing else.
LEMMA WordIsStored ==
  ASSUME NEW accept, NEW id, NEW i, NEW a, NEW r, NEW s, NEW n,
         WriteEdge(accept, id, i, a, r, s, n), accept
  PROVE  Promise!Store(Upto(call, s + 1)) /\ done = Upto(call, s)
         /\ Upto(call, s + 1) \in done + 1 .. Len(call.data)
<1> DEFINE w == WordNo(call, s + 1)
           off == PlaceIn(call, s + 1) % 4
           size == SizeIn(call, s + 1)
           f == Upto(call, s)
           t == Upto(call, s + 1)
           b == BeatOf(call, s + 1)
           e(x) == Offset(call, x)
<1>0. call \in Calls /\ call.op = "write" /\ IsBlock(call) /\ TypeInv
  BY CallsAreBlocks DEF WriteEdge
<1>1. s + 1 \in 1 .. WordsIn(call)
  BY PortInWrite
<1>2. s \in Nat /\ (s + 1) - 1 = s /\ WordsIn(call) \in Nat
  <2>1. WordsIn(call) \in Nat /\ s \in 0 .. WordsIn(call)
    BY WriteNumbers
  <2> QED BY <2>1
<1>3. size \in 1 .. 4 /\ f \in 0 .. Len(call.data) - 1 /\ t \in 0 .. Len(call.data) /\ size = t - f
      /\ Len(call.data) \in Nat
  <2>1. /\ size \in 1 .. 4 /\ Upto(call, (s + 1) - 1) \in 0 .. Len(call.data) - 1
        /\ t \in 0 .. Len(call.data)
    BY <1>0, <1>1, <1>2, WordsOfBlock
  <2>2. size = t - f
    BY <1>2 DEF SizeIn
  <2>3. Len(call.data) \in Nat
    BY <1>0 DEF IsBlock
  <2> QED BY <1>2, <2>1, <2>2, <2>3
<1>4. PICK r2, s2, n2 : r2 = r + One(BFire(out)) /\ s2 = s + One(accept) /\ n2 = n + One(WFire(out)) - One(accept)
  OBVIOUS
<1>5. done' = t
  <2>1. done' = Upto(call, s2)
    BY <1>4, WritingNext
  <2>2. s2 = s + 1
    BY <1>4 DEF One
  <2> QED BY <2>1, <2>2
<1>6. done = f
  BY DEF WriteEdge, WriteState
<1>7. /\ store \in [0 .. NumWords - 1 -> Word]
      /\ store' = [store EXCEPT ![w] = [l \in Lanes |-> IF l \in b.strb THEN b.data[l] ELSE store[w][l]]]
  <2>1. store \in [0 .. NumWords - 1 -> Word]
    BY <1>0 DEF TypeInv
  <2>2. accept => store' = [store EXCEPT ![WordNo(call, s + 1)] =
                             Overwrite(store[WordNo(call, s + 1)], BeatOf(call, s + 1))]
    BY WriteStore
  <2>3. store' = [store EXCEPT ![w] = Overwrite(store[w], b)]
    BY <2>2
  <2> QED BY <2>1, <2>3 DEF Overwrite
<1>8. /\ b.data = [l \in Lanes |-> IF \E x \in 0 .. size - 1 : off + x = l THEN call.data[f + (l - off) + 1] ELSE 0]
      /\ b.strb = {off + x : x \in (0 .. size - 1) \intersect InitialMask(call)}
  BY <1>2 DEF BeatOf, DataOf, StrbOf
<1>9. off \in 0 .. 3 /\ w \in 0 .. NumWords - 1
  <2>1. PlaceIn(call, s + 1) \in Addrs /\ w \in 0 .. NumWords - 1
    BY <1>0, <1>1, PlaceOfWord
  <2> QED BY <2>1, Space
<1>10. ASSUME NEW x \in Addrs
       PROVE  Memory'[x] = IF e(x) \in Promise!Written(t) THEN call.data[e(x) + 1] ELSE Memory[x]
  <2> DEFINE l == x % 4
             v == x \div 4
             y == l - off
  <2>1. Memory'[x] = store'[v][l] /\ Memory[x] = store[v][l]
    BY DEF Memory
  <2>2. l \in Lanes /\ l \in 0 .. 3 /\ v \in 0 .. NumWords - 1
    BY Space DEF Lanes, WordOf
  <2>3. e(x) \in Promise!Written(t) <=> e(x) \in f .. f + size - 1 /\ e(x) \in call.mask
    <3>1. done .. t - 1 = f .. f + size - 1
      <4> HIDE DEF f, t, size
      <4> QED BY <1>3, <1>6
    <3> QED BY <3>1 DEF Promise!Written
  <2>4. /\ e(x) \in f .. f + size - 1 <=> v = w /\ y \in 0 .. size - 1
        /\ e(x) \in f .. f + size - 1 => e(x) = f + y
    BY <1>0, <1>1, <1>2, PlacesOfWord
  <2>5. y \in 0 .. size - 1 => (y \in InitialMask(call) <=> f + y \in call.mask)
    BY <1>0, <1>1, <1>2, MaskOfWord
  <2>6. l \in b.strb <=> y \in 0 .. size - 1 /\ y \in InitialMask(call)
    <3> DEFINE M == InitialMask(call)
    <3> HIDE DEF b, off, size, M
    <3>1. \A k \in 0 .. size - 1 : off + k = l => k = y
      BY <1>3, <1>9, <2>2
    <3>2. off + y = l
      BY <1>9, <2>2
    <3>3. b.strb = {off + k : k \in (0 .. size - 1) \intersect M}
      BY <1>8 DEF M
    <3> HIDE DEF l, y
    <3> QED BY <3>1, <3>2, <3>3 DEF M
  <2>7. y \in 0 .. size - 1 => b.data[l] = call.data[f + y + 1]
    <3> HIDE DEF b, off, size
    <3> SUFFICES ASSUME y \in 0 .. size - 1
                 PROVE  b.data[l] = call.data[f + y + 1]
      OBVIOUS
    <3>1. off + y = l
      BY <1>9, <2>2
    <3>2. \E k \in 0 .. size - 1 : off + k = l
      BY <3>1
    <3> HIDE DEF l, y, f
    <3>3. l - off = y
      BY <2>2 DEF y
    <3> QED BY <1>8, <2>2, <3>2, <3>3
  <2>8. store'[v][l] = IF v = w /\ l \in b.strb THEN b.data[l] ELSE store[v][l]
    <3> HIDE DEF l, v, w, b
    <3> QED BY <1>7, <1>9, <2>2
  <2> HIDE DEF l, v, y, w, b, off, size, f, t, e
  <2> QED BY <2>1, <2>3, <2>4, <2>5, <2>6, <2>7, <2>8
<1>11. Memory' = [x \in DOMAIN Memory |->
         IF Promise!OffsetOf(x) \in Promise!Written(t) THEN call.data[Promise!OffsetOf(x) + 1] ELSE Memory[x]]
  <2>1. DOMAIN Memory = Addrs /\ Memory' = [x \in Addrs |-> Memory'[x]]
    BY DEF Memory
  <2> QED BY <1>10, <2>1 DEF Promise!OffsetOf, Offset
<1>12. call' = call /\ got' = got
  BY WriteLoops
<1>13. t \in done + 1 .. Len(call.data)
  <2> HIDE DEF t, f, size
  <2> QED BY <1>3, <1>6
<1> QED BY <1>0, <1>5, <1>6, <1>11, <1>12, <1>13 DEF Promise!Store, Memory

\* A word that is returned gives the driver the bytes of the block in it.
LEMMA WordIsFetched ==
  ASSUME NEW accept, NEW id, NEW q, NEW g, NEW p, NEW m, NEW d,
         ReadEdge(accept, id, q, g, p, m, d), RFire(out)
  PROVE  Promise!Fetch(SizeIn(call, p + 1)) /\ SizeIn(call, p + 1) \in 1 .. Len(call.data)
<1> DEFINE w == WordNo(call, p + 1)
           a == PlaceIn(call, p + 1)
           size == SizeIn(call, p + 1)
           f == Upto(call, p)
           t == Upto(call, p + 1)
           N == Len(call.data)
<1>1. call.op = "read" /\ IsBlock(call)
  BY CallsAreBlocks DEF ReadEdge
<1>2. p + 1 \in 1 .. WordsIn(call)
  BY WordReturned
<1>3. p \in Nat /\ (p + 1) - 1 = p
  <2>1. WordsIn(call) \in Nat /\ p \in 0 .. WordsIn(call)
    BY ReadNumbers
  <2> QED BY <2>1
<1>4. size \in 1 .. 4 /\ f \in 0 .. N - 1 /\ t \in 0 .. N /\ size = t - f /\ N \in Nat
  <2>1. size \in 1 .. 4 /\ Upto(call, (p + 1) - 1) \in 0 .. N - 1 /\ t \in 0 .. N
    BY <1>1, <1>2, <1>3, WordsOfBlock
  <2>2. size = t - f
    BY <1>3 DEF SizeIn
  <2>3. N \in Nat
    BY <1>1 DEF IsBlock
  <2> QED BY <1>3, <2>1, <2>2, <2>3
<1>5. Len(got) = f
  BY DEF ReadEdge, ReadState
<1>6. ASSUME NEW k \in 1 .. size
      PROVE  Memory[Promise!PlaceOf(Len(got) + k - 1)] = store[w][(a % 4) + k - 1]
  <2> DEFINE x == k - 1
  <2>1. x \in 0 .. size - 1 /\ f + k - 1 = f + x /\ k \in Int
    <3> HIDE DEF f, size
    <3> QED BY <1>4
  <2>2. /\ a + x \in Addrs /\ (call.addr + (f + x)) % AddrSpace = a + x
        /\ (a + x) \div 4 = w /\ (a + x) % 4 = (a % 4) + x
    <3> HIDE DEF x
    <3>1. x \in 0 .. SizeIn(call, p + 1) - 1
      BY <2>1
    <3> QED BY <1>1, <1>2, <1>3, <3>1, BytesOfWord
  <2>3. Memory[a + x] = store[w][(a % 4) + x]
    <3> HIDE DEF x
    <3> QED BY <2>2 DEF Memory
  <2>4. Promise!PlaceOf(Len(got) + k - 1) = a + x
    <3> HIDE DEF x, a, f
    <3> QED BY <1>5, <2>1, <2>2 DEF Promise!PlaceOf
  <2>5. (a % 4) + k - 1 = (a % 4) + x
    <3>1. a % 4 \in Int
      BY <1>1, <1>2, PlaceOfWord, Space
    <3> HIDE DEF a
    <3> QED BY <2>1, <3>1
  <2> QED BY <2>3, <2>4, <2>5
<1>7. BytesStored(call, p + 1) = [k \in 1 .. size |-> Memory[Promise!PlaceOf(Len(got) + k - 1)]]
  BY <1>6 DEF BytesStored
<1>8. got' = got \o BytesStored(call, p + 1)
  <2>1. PICK p2 : p2 = p + One(RFire(out))
    OBVIOUS
  <2>2. RFire(out) => got' = got \o BytesStored(call, p + 1)
    BY <2>1, DriverReceives
  <2> QED BY <2>2
<1>9. store' = store /\ done' = done /\ call' = call
  BY ReadStore, ReadLoops
<1>10. Len(got) + size =< N /\ size \in 1 .. N
  <2> HIDE DEF f, t, size, N
  <2> QED BY <1>4, <1>5
<1>11. Memory' = Memory
  BY <1>9 DEF Memory
<1> HIDE DEF size
<1> QED BY <1>1, <1>7, <1>8, <1>9, <1>10, <1>11 DEF Promise!Fetch, Memory, size

LEMMA EdgeIsDriverStep ==
  ASSUME TbInv, NEW accept \in BOOLEAN, Edge(accept)
  PROVE  Promise!Next \/ UNCHANGED <<Memory, call, done, got>>
<1>1. CASE IdleState
  <2>1. UNCHANGED tbVars
    BY <1>1, IdleEdge DEF TbInv
  <2> QED BY <2>1 DEF tbVars, driverVars, Memory
<1>2. CASE \E id \in [1 .. NumPieces(call) -> Ids] :
           \E i, s \in 0 .. WordsIn(call), a, r \in 0 .. NumPieces(call), n \in 0 .. QUEUE_DEPTH :
             WriteEdge(accept, id, i, a, r, s, n)
  <2>1. PICK id, i, s, a, r, n : WriteEdge(accept, id, i, a, r, s, n)
    BY <1>2, Zenon
  <2>2. CASE accept
    <3>1. Promise!Store(Upto(call, s + 1))
      BY <2>1, <2>2, WordIsStored
    <3>2. Upto(call, s + 1) \in done + 1 .. Len(call.data)
      BY <2>1, <2>2, WordIsStored
    <3>3. PICK t : t = Upto(call, s + 1)
      OBVIOUS
    <3>4. Promise!Store(t)
      BY <3>1, <3>3 DEF Promise!Store
    <3>5. t \in done + 1 .. Len(call.data)
      BY <3>2, <3>3
    <3> QED BY <3>4, <3>5 DEF Promise!Next
  <2>3. CASE ~accept
    <3>1. ~accept => store' = store
      BY <2>1, WriteStore
    <3>2. call' = call /\ got' = got
      BY <2>1, WriteLoops
    <3>3. done' = done
      BY <2>3, EdgeParts DEF Progress
    <3> QED BY <2>3, <3>1, <3>2, <3>3 DEF Memory
  <2> QED BY <2>2, <2>3
<1>3. CASE \E id \in [1 .. NumPieces(call) -> Ids] :
           \E q, g \in 0 .. NumPieces(call), p \in 0 .. WordsIn(call), m, d \in 0 .. QUEUE_DEPTH :
             ReadEdge(accept, id, q, g, p, m, d)
  <2>1. PICK id, q, g, p, m, d : ReadEdge(accept, id, q, g, p, m, d)
    BY <1>3, Zenon
  <2>2. CASE RFire(out)
    <3>1. Promise!Fetch(SizeIn(call, p + 1)) /\ SizeIn(call, p + 1) \in 1 .. Len(call.data)
      BY <2>1, <2>2, WordIsFetched
    <3> QED BY <3>1, Zenon DEF Promise!Next
  <2>3. CASE ~RFire(out)
    <3>1. store' = store /\ done' = done /\ call' = call
      BY <2>1, ReadStore, ReadLoops
    <3>2. PICK p2 : p2 = p + One(RFire(out))
      OBVIOUS
    <3>3. ~RFire(out) => got' = got
      BY <2>1, <3>2, DriverReceives
    <3> QED BY <2>3, <3>1, <3>3 DEF Memory
  <2> QED BY <2>2, <2>3
<1> QED BY <1>1, <1>2, <1>3, EdgeOf, Zenon

LEMMA StepIsDriverStep ==
  ASSUME TbInv, [TbNext]_tbVars
  PROVE  [Promise!Next]_<<Memory, call, done, got>>
<1>1. CASE Clock
  BY <1>1, EdgeIsDriverStep DEF Clock
<1>2. ASSUME NEW c \in Calls, TestCalls(c) PROVE Promise!Next
  <2>1. call = NoCall /\ call' = c /\ got' = <<>> /\ done' = 0 /\ store' = store
    BY <1>2 DEF TestCalls, Begin
  <2>2. Memory' = Memory
    BY <2>1 DEF Memory
  <2>3. Promise!Call(c)
    BY <2>1, <2>2 DEF Promise!Call, Promise!Idle, NoCall, Memory
  <2> QED BY <2>3 DEF Promise!Next
<1>3. ASSUME CallReturns PROVE Promise!Next
  <2>1. call # NoCall /\ ~Looping /\ call' = NoCall /\ got' = got /\ done' = done /\ store' = store
    BY <1>3 DEF CallReturns, Return, historyVars
  <2>2. call \in Calls /\ IsBlock(call) /\ call.op \in {"write", "read"}
    BY <2>1, CallsAreBlocks DEF TbInv
  <2>3. Upto(call, WordsIn(call)) = Len(call.data)
    BY <2>2, WordsOfBlock
  <2>4. \/ call.op = "write" /\ done = Len(call.data)
        \/ call.op = "read" /\ Len(got) = Len(call.data)
    <3>1. CASE call.op = "write"
      <4>1. PICK id, i, s, a, r, n : WriteState(id, i, a, r, s, n)
        BY <3>1, Zenon DEF TbInv
      <4>2. s = WordsIn(call)
        BY <2>1, <2>2, <3>1, <4>1, WriteOver
      <4> QED BY <2>3, <3>1, <4>1, <4>2 DEF WriteState
    <3>2. CASE call.op = "read"
      <4>1. PICK id, q, g, p, m, d : ReadState(id, q, g, p, m, d)
        BY <3>2, Zenon DEF TbInv
      <4>2. p = WordsIn(call)
        BY <2>1, <2>2, <3>2, <4>1, ReadOver
      <4> QED BY <2>3, <3>2, <4>1, <4>2 DEF ReadState
    <3> QED BY <2>2, <3>1, <3>2
  <2>5. Memory' = Memory
    BY <2>1 DEF Memory
  <2>6. Promise!Return
    BY <2>1, <2>4, <2>5 DEF Promise!Return, Promise!Idle, NoCall, Memory
  <2> QED BY <2>6 DEF Promise!Next
<1>4. CASE UNCHANGED tbVars
  BY <1>4 DEF tbVars, driverVars, Memory
<1> QED BY <1>1, <1>2, <1>3, <1>4 DEF TbNext

\* The calls of the AXI driver are calls on a memory of bytes: whatever bursts a
\* block is cut into, however its data run ahead of the addresses and whatever
\* the memory delays, a write stores the bytes of its block that are to be
\* written and no others, and a read returns the bytes stored.
THEOREM ImplementsBlockDriver == TbSpec => IsBlockDriver
<1>1. TbInit => Promise!Init
  BY MemoryBytes DEF TbInit, DriverInit, Promise!Init, Promise!Idle, NoCall, Memory
<1>2. TbInv /\ [TbNext]_tbVars => [Promise!Next]_<<Memory, call, done, got>>
  BY StepIsDriverStep
<1> QED
  BY <1>1, <1>2, AlwaysTbInv, PTL
  DEF IsBlockDriver, Promise!Spec, Promise!driverVars, TbSpec, Memory

------------------------------------------------------------------------------
\* The protocol of AXI.

\* The beats of the address last driven that queue q still holds.
OwedIn(q, sp) ==
  LET others == {k \in DOMAIN q : q[k].w = {} \/ (q[k].aw # {} /\ ~(sp /\ k = 1))}
  IN IF others = {} THEN Len(q) ELSE Min(others) - 1

\* A burst's beats are owed until they are driven.
LEMMA OwedInWrite ==
  ASSUME NEW c, IsBlock(c), NEW id, NEW i \in 0 .. WordsIn(c), NEW a \in 0 .. NumPieces(c), NEW sp \in BOOLEAN,
         First(c, a) =< i + One(sp), i + One(sp) < First(c, a + 1)
  PROVE  OwedIn(Slice(WriteRequestsOf(c, id), i, WordsIn(c) - i), sp) = First(c, a + 1) - 1 - i
<1> DEFINE n == WordsIn(c) - i
           W == WordsIn(c)
           P == NumPieces(c)
           q == Slice(WriteRequestsOf(c, id), i, n)
           S == {k \in DOMAIN q : q[k].w = {} \/ (q[k].aw # {} /\ ~(sp /\ k = 1))}
           F == First(c, a + 1)
<1>1. W \in Nat /\ n \in Nat /\ i \in Nat /\ P \in Nat \ {0} /\ a \in Nat /\ n = W - i
  BY WordsOfBlock, Pieces
<1>2. First(c, a) \in Int /\ F \in 1 .. W + 1
  <2>1. a \in 0 .. P + 1 /\ a + 1 \in 0 .. P + 1 /\ 0 \in 0 .. P + 1
    BY <1>1
  <2>2. First(c, a) \in 0 .. W + 1 /\ F \in 0 .. W + 1 /\ First(c, 0) < F
    BY <1>1, <2>1, Ordered
  <2>3. First(c, 0) = 0
    BY Pieces
  <2> QED BY <1>1, <2>2, <2>3
<1>3. One(sp) \in {0, 1} /\ (sp => One(sp) = 1) /\ (~sp => One(sp) = 0)
  BY DEF One
<1>4. /\ DOMAIN q = 1 .. n /\ Len(q) = n
      /\ \A k \in 1 .. n : q[k].w # {} /\ (q[k].aw # {} <=> Starts(c, i + k))
  <2>1. DOMAIN q = 1 .. n /\ Len(q) = n
    BY <1>1, Slices DEF Slice
  <2>2. ASSUME NEW k \in 1 .. n PROVE q[k].w # {} /\ (q[k].aw # {} <=> Starts(c, i + k))
    <3>1. i + k \in 1 .. W
      BY <1>1
    <3>2. q[k] = WriteRequestOf(c, i + k, id)
      BY <3>1 DEF Slice, WriteRequestsOf
    <3>3. /\ WriteRequestOf(c, i + k, id).w = {BeatOf(c, i + k)}
          /\ WriteRequestOf(c, i + k, id).aw =
               IF Starts(c, i + k) THEN {BurstOf(c, PieceNo(c, i + k), id)} ELSE {}
      BY DEF WriteRequestOf, WriteRequest32, Quiet
    <3> HIDE DEF q
    <3> QED BY <3>2, <3>3
  <2> HIDE DEF q
  <2> QED BY <2>1, <2>2
<1>5. S = {k \in 1 .. n : Starts(c, i + k) /\ ~(sp /\ k = 1)}
  <2> HIDE DEF q
  <2> QED BY <1>4
<1>6. OwedIn(q, sp) = IF S = {} THEN n ELSE Min(S) - 1
  BY <1>4 DEF OwedIn
<1> HIDE DEF n, W, P, q, S
<1>7. ASSUME NEW k \in S PROVE i + k >= F
  <2>1. k \in 1 .. n /\ Starts(c, i + k) /\ ~(sp /\ k = 1)
    BY <1>5
  <2>2. i + k \in 1 .. W
    BY <1>1, <2>1
  <2> DEFINE j == PieceNo(c, i + k)
  <2>3. j \in 1 .. P /\ First(c, j) = i + k
    BY <2>1, <2>2, WordInPiece DEF Starts, W, P
  <2> HIDE DEF j, F
  <2>4. CASE j =< a
    <3>1. First(c, j) =< First(c, a)
      <4>1. j \in 0 .. P + 1 /\ a \in 0 .. P + 1 /\ j \in Int /\ a \in Int
        BY <1>1, <2>3 DEF P
      <4>2. CASE j = a
        BY <1>2, <4>2
      <4>3. CASE j # a
        <5>1. j < a
          BY <2>4, <4>1, <4>3
        <5>2. First(c, j) < First(c, a)
          BY <4>1, <5>1, Ordered DEF P
        <5>3. First(c, j) \in Int
          BY <1>1, <2>2, <2>3
        <5> QED BY <1>2, <5>2, <5>3
      <4> QED BY <4>2, <4>3
    <3> QED BY <1>1, <1>2, <1>3, <2>1, <2>3, <3>1
  <2>5. CASE ~(j =< a)
    <3>1. j \in 0 .. P + 1 /\ a + 1 \in 0 .. P + 1 /\ a + 1 =< j /\ j \in Int
      BY <1>1, <2>3, <2>5 DEF P
    <3>2. CASE a + 1 = j
      BY <1>1, <1>2, <2>2, <2>3, <3>2 DEF F
    <3>3. CASE a + 1 # j
      <4>1. a + 1 < j
        BY <1>1, <3>1, <3>3
      <4>2. First(c, a + 1) < First(c, j)
        BY <3>1, <4>1, Ordered DEF P
      <4> QED BY <1>1, <1>2, <2>2, <2>3, <4>2 DEF F
    <3> QED BY <3>2, <3>3
  <2> QED BY <2>4, <2>5
<1>8. CASE a < P
  <2>1. a + 1 \in 1 .. P
    BY <1>1, <1>8
  <2>2. F \in First(c, a + 1) .. First(c, (a + 1) + 1) - 1
    <3>1. a + 1 \in 0 .. P + 1 /\ (a + 1) + 1 \in 0 .. P + 1 /\ a + 1 < (a + 1) + 1
      BY <1>1, <1>8
    <3>2. First(c, a + 1) < First(c, (a + 1) + 1) /\ First(c, (a + 1) + 1) \in 0 .. W + 1
      BY <3>1, Ordered DEF P, W
    <3> QED BY <1>1, <1>2, <3>2
  <2>3. F \in 1 .. W /\ PieceNo(c, F) = a + 1
    BY <2>1, <2>2, PieceIsOne DEF P, W
  <2>4. Starts(c, F)
    BY <2>3 DEF Starts
  <2> HIDE DEF F
  <2> DEFINE k == F - i
  <2>5. k \in 1 .. n /\ i + k = F /\ ~(sp /\ k = 1) /\ k \in Int
    BY <1>1, <1>2, <1>3, <2>3 DEF F
  <2>6. k \in S
    BY <1>5, <2>4, <2>5
  <2>7. S \in SUBSET Nat
    BY <1>5
  <2> HIDE DEF k
  <2>8. Min(S) \in S /\ Min(S) =< k
    BY <2>6, <2>7, MinOf
  <2>9. Min(S) \in Nat /\ i + Min(S) >= F
    BY <1>7, <2>7, <2>8
  <2>10. Min(S) = k
    BY <1>1, <1>2, <2>5, <2>8, <2>9
  <2> QED BY <1>1, <1>2, <1>6, <2>5, <2>6, <2>10 DEF q, n, W, F
<1>9. CASE ~(a < P)
  <2>1. a = P
    BY <1>1, <1>9 DEF P
  <2>2. F = W + 1
    BY <2>1, Pieces DEF P, W
  <2>3. S = {}
    <3> SUFFICES ASSUME NEW k \in S PROVE FALSE
      OBVIOUS
    <3>1. k \in 1 .. n /\ i + k >= F
      BY <1>5, <1>7
    <3> QED BY <1>1, <2>2, <3>1
  <2> QED BY <1>1, <1>6, <2>2, <2>3 DEF q, n, W, F
<1> QED BY <1>8, <1>9

LEMMA OwedInRead ==
  ASSUME NEW list, NEW a \in Int, NEW n \in Nat, NEW sp, \A k \in 1 .. n : list[a + k].w = {}
  PROVE  OwedIn(Slice(list, a, n), sp) = 0
<1> DEFINE q == Slice(list, a, n)
           S == {k \in DOMAIN q : q[k].w = {} \/ (q[k].aw # {} /\ ~(sp /\ k = 1))}
<1>1. DOMAIN q = 1 .. n /\ Len(q) = n /\ \A k \in 1 .. n : q[k].w = {}
  <2>1. Len(q) = n
    BY Slices
  <2>2. DOMAIN q = 1 .. n /\ \A k \in 1 .. n : q[k] = list[a + k]
    BY DEF Slice
  <2> HIDE DEF q
  <2> QED BY <2>1, <2>2
<1>2. S = 1 .. n
  <2> HIDE DEF q
  <2> QED BY <1>1
<1>3. OwedIn(q, sp) = IF S = {} THEN n ELSE Min(S) - 1
  BY <1>1 DEF OwedIn
<1> HIDE DEF q, S
<1>4. CASE n = 0
  BY <1>2, <1>3, <1>4 DEF q
<1>5. CASE n # 0
  <2>1. 1 \in S /\ S \in SUBSET Nat /\ S # {}
    BY <1>2, <1>5
  <2>2. Min(S) \in S /\ Min(S) =< 1
    BY <2>1, MinOf
  <2>3. Min(S) = 1
    BY <1>2, <2>2
  <2> QED BY <1>3, <2>1, <2>3 DEF q
<1> QED BY <1>4, <1>5

LEMMA OwedInQueue == BeatsOwed = OwedIn(reqQ, split)
BY DEF BeatsOwed, OwedIn

\* Nothing is owed when nothing is on the channels of a write and no address is
\* ahead of its data.
LEMMA QuietOwes == TbInv /\ WritesQuiet => BeatsOwed = 0
<1> SUFFICES ASSUME TbInv, WritesQuiet PROVE BeatsOwed = 0
  OBVIOUS
<1>1. CASE call = NoCall
  <2>1. reqQ = <<>>
    BY <1>1 DEF TbInv, IdleState
  <2>2. reqQ = Slice(<<>>, 0, 0)
    BY <2>1, EmptySlice
  <2> QED BY <2>2, OwedInRead, OwedInQueue
<1>2. CASE call # NoCall /\ call.op = "write"
  <2>1. call \in Calls /\ IsBlock(call)
    BY <1>2, CallsAreBlocks DEF TbInv
  <2>2. PICK id \in [1 .. NumPieces(call) -> Ids], i, s \in 0 .. WordsIn(call), a, r \in 0 .. NumPieces(call),
             n \in 0 .. QUEUE_DEPTH : WriteState(id, i, a, r, s, n)
    BY <1>2, Zenon DEF TbInv
  <2>3. /\ reqQ = Slice(WriteRequestsOf(call, id), i, WordsIn(call) - i)
        /\ Driven(call, id, out, split, i, a) /\ Writing(call, id, r, s, n)
        /\ i = s + n + One(out.w # {}) /\ a = r + One(wState # "wIdle") + One(out.aw # {})
    BY <2>2 DEF WriteState
  <2>4. i = s + n /\ a = r /\ s + 1 = First(call, r + 1)
    BY <2>3 DEF WritesQuiet, Writing, One
  <2>5. n = 0
    <3>1. wDataQueue = Slice(BeatsOf(call), s, n)
      BY <2>3 DEF Writing
    <3>2. n \in Nat /\ s \in Int
      <4>1. WordsIn(call) \in Nat
        BY <2>1, WordsOfBlock
      <4> QED BY <4>1 DEF QUEUE_DEPTH
    <3>3. wDataQueue = <<>> <=> n = 0
      BY <3>1, <3>2, Slices
    <3> QED BY <3>3 DEF WritesQuiet
  <2>6. BeatsOwed = First(call, a + 1) - 1 - i
    <3>1. First(call, a) =< i + One(split) /\ i + One(split) < First(call, a + 1) /\ split \in BOOLEAN
      BY <2>3 DEF Driven
    <3>2. OwedIn(Slice(WriteRequestsOf(call, id), i, WordsIn(call) - i), split) = First(call, a + 1) - 1 - i
      BY <2>1, <3>1, OwedInWrite
    <3> QED BY <2>3, <3>2, OwedInQueue
  <2>7. s \in Int
    BY <2>1, WordsOfBlock
  <2> QED BY <2>4, <2>5, <2>6, <2>7
<1>3. CASE call # NoCall /\ call.op = "read"
  <2>1. call \in Calls /\ IsBlock(call)
    BY <1>3, CallsAreBlocks DEF TbInv
  <2>2. PICK id \in [1 .. NumPieces(call) -> Ids], q, g \in 0 .. NumPieces(call), p \in 0 .. WordsIn(call),
             m, d \in 0 .. QUEUE_DEPTH : ReadState(id, q, g, p, m, d)
    BY <1>3, Zenon DEF TbInv
  <2> DEFINE R == ReadRequestsOf(call, id)
             n == NumPieces(call) - q
  <2>3. reqQ = Slice(R, q, n)
    BY <2>2 DEF ReadState
  <2>4. NumPieces(call) \in Nat /\ q \in Int /\ n \in Nat
    BY <2>1, Pieces
  <2>5. \A k \in 1 .. n : R[q + k].w = {}
    <3> SUFFICES ASSUME NEW k \in 1 .. n PROVE R[q + k].w = {}
      OBVIOUS
    <3>1. q + k \in 1 .. NumPieces(call)
      BY <2>4
    <3>2. R[q + k] = ReadRequestOf(call, q + k, id)
      BY <3>1 DEF ReadRequestsOf
    <3>3. ReadRequestOf(call, q + k, id).w = {}
      BY DEF ReadRequestOf, Quiet
    <3> QED BY <3>2, <3>3
  <2> HIDE DEF R, n
  <2> QED BY <2>3, <2>4, <2>5, OwedInRead, OwedInQueue
<1>4. call # NoCall => call.op \in {"write", "read"}
  BY CallsAreBlocks DEF TbInv
<1> QED BY <1>1, <1>2, <1>3, <1>4

DriverBeats == [data : {EmptyWord}, strb : SUBSET Lanes]

LEMMA BareIs ==
  /\ Bare({}) = {}
  /\ \A S : Bare(S) = {} <=> S = {}
  /\ \A b : Bare({b}) = {[addr |-> b.addr, type |-> b.type, len |-> b.len]}
BY DEF Bare

LEMMA LeanIs ==
  /\ Lean({}) = {}
  /\ \A S : Lean(S) = {} <=> S = {}
  /\ \A b : Lean({b}) = {[data |-> EmptyWord, strb |-> b.strb]}
BY DEF Lean

\* The bursts of the driver are of the lengths it uses and within a word's lanes.
LEMMA BurstIsDrivers ==
  ASSUME NEW c, IsBlock(c), NEW k \in 1 .. NumPieces(c), NEW id
  PROVE  Bare({BurstOf(c, k, id)}) \in Master!MaybeOne(DriverBursts)
<1> DEFINE b == BurstOf(c, k, id)
           x == [addr |-> b.addr, type |-> b.type, len |-> b.len]
<1>1. b.addr \in Addrs /\ b.addr % 4 = 0 /\ b.type \in {FIXED, INCR} /\ b.len \in {0, 1, 3, 7}
  BY BurstIs
<1>2. x \in DriverBursts
  <2> HIDE DEF b
  <2> QED BY <1>1 DEF DriverBursts
<1>3. Bare({b}) = {x}
  BY BareIs
<1> HIDE DEF b, x
<1> QED BY <1>2, <1>3 DEF Master!MaybeOne, b

LEMMA BeatIsDrivers ==
  ASSUME NEW c \in Calls, NEW i \in 1 .. WordsIn(c)
  PROVE  Lean({BeatOf(c, i)}) \in Master!MaybeOne(DriverBeats)
<1> DEFINE b == BeatOf(c, i)
           x == [data |-> EmptyWord, strb |-> b.strb]
<1>1. b.strb \subseteq Lanes
  BY BeatIs
<1>2. x \in DriverBeats
  <2> HIDE DEF b
  <2> QED BY <1>1 DEF DriverBeats
<1>3. Lean({b}) = {x}
  BY LeanIs
<1> HIDE DEF b, x
<1> QED BY <1>2, <1>3 DEF Master!MaybeOne, b

\* A step of a master on the write channels, from what is left on them and owed
\* to what is then on them and owed.
WriteChannels(aw, w, owed, aw2, w2, owed2) ==
  LET asks == aw = {} /\ w = {} /\ owed = 0
  IN /\ IF asks THEN aw2 \in Master!MaybeOne(DriverBursts) ELSE aw2 = aw
     /\ \E left \in {IF asks /\ aw2 # {} THEN (CHOOSE b \in aw2 : TRUE).len + 1 ELSE owed} :
          IF w = {} /\ left > 0
          THEN /\ w2 \in Master!MaybeOne(DriverBeats)
               /\ owed2 = IF w2 = {} THEN left ELSE left - 1
          ELSE w2 = w /\ owed2 = left

\* What the driver of a write puts out is such a step.
LEMMA DrivingIsStep ==
  ASSUME NEW c \in Calls, NEW id, NEW l, NEW o, NEW sp, NEW sp2, NEW i, NEW a, NEW i2, NEW a2,
         Driven(c, id, l, sp, i, a), Driving(c, id, l, o, sp, sp2, i, a, i2, a2)
  PROVE  WriteChannels(Bare(l.aw), Lean(l.w), First(c, a + 1) - 1 - i,
                       Bare(o.aw), Lean(o.w), First(c, a2 + 1) - 1 - i2)
<1> DEFINE owed == First(c, a + 1) - 1 - i
           owed2 == First(c, a2 + 1) - 1 - i2
           aw == Bare(l.aw)
           w == Lean(l.w)
           aw2 == Bare(o.aw)
           w2 == Lean(o.w)
           W == WordsIn(c)
           P == NumPieces(c)
<1>1. IsBlock(c) /\ W \in Nat \ {0} /\ P \in Nat \ {0}
  BY CallsAreBlocks, WordsOfBlock, Pieces
<1>2. /\ i \in 0 .. W /\ a \in 0 .. P /\ sp \in BOOLEAN
      /\ First(c, a) =< i + One(sp) /\ i + One(sp) < First(c, a + 1)
      /\ sp => First(c, a) = i + 1 /\ l.w = {}
  BY DEF Driven
<1>3. First(c, a) \in Int /\ First(c, a + 1) \in Int
  <2>1. a \in 0 .. P + 1 /\ a + 1 \in 0 .. P + 1
    BY <1>1, <1>2
  <2>2. First(c, a) \in 0 .. W + 1 /\ First(c, a + 1) \in 0 .. W + 1
    BY <1>1, <2>1, Ordered
  <2> QED BY <1>1, <2>2
<1>4. (sp => One(sp) = 1) /\ (~sp => One(sp) = 0)
  BY DEF One
<1>5. {} \in Master!MaybeOne(DriverBursts) /\ {} \in Master!MaybeOne(DriverBeats)
  BY DEF Master!MaybeOne
<1>6. owed \in Int /\ owed >= 0 /\ (sp => owed > 0)
  BY <1>1, <1>2, <1>3, <1>4
<1>7. i + 1 \in 1 .. W => Lean({BeatOf(c, i + 1)}) \in Master!MaybeOne(DriverBeats) /\ Lean({BeatOf(c, i + 1)}) # {}
  BY BeatIsDrivers, LeanIs
<1>8. ASSUME ~sp, i + 1 \in 1 .. W
      PROVE  /\ Starts(c, i + 1) <=> owed = 0
             /\ Starts(c, i + 1) =>
                  LET b == Bare({BurstOf(c, a + 1, id)})
                  IN /\ b \in Master!MaybeOne(DriverBursts) /\ b # {}
                     /\ (CHOOSE x \in b : TRUE).len + 1 = First(c, a + 2) - First(c, a + 1)
                     /\ First(c, a + 2) \in Int /\ First(c, a + 1) < First(c, a + 2)
                     /\ First(c, a + 1) = i + 1
  <2>1. i \in Nat /\ First(c, a) =< i /\ i < First(c, a + 1)
    BY <1>1, <1>2, <1>3, <1>4, <1>8
  <2>2. /\ Starts(c, i + 1) <=> First(c, a + 1) = i + 1
        /\ Starts(c, i + 1) => PieceNo(c, i + 1) = a + 1 /\ a + 1 \in 1 .. P /\ i + 1 < First(c, a + 2)
    BY <1>1, <1>2, <1>8, <2>1, NextWord
  <2>3. Starts(c, i + 1) <=> owed = 0
    BY <1>3, <2>1, <2>2
  <2>4. ASSUME Starts(c, i + 1)
        PROVE  LET b == Bare({BurstOf(c, a + 1, id)})
               IN /\ b \in Master!MaybeOne(DriverBursts) /\ b # {}
                  /\ (CHOOSE x \in b : TRUE).len + 1 = First(c, a + 2) - First(c, a + 1)
                  /\ First(c, a + 2) \in Int /\ First(c, a + 1) < First(c, a + 2)
                  /\ First(c, a + 1) = i + 1
    <3> DEFINE u == BurstOf(c, a + 1, id)
               x == [addr |-> u.addr, type |-> u.type, len |-> u.len]
    <3>1. Bare({u}) \in Master!MaybeOne(DriverBursts)
      BY <1>1, <2>2, <2>4, BurstIsDrivers
    <3>2. Bare({u}) = {x}
      BY BareIs
    <3>3. a + 1 \in 1 .. P /\ (a + 1) + 1 = a + 2
      BY <1>1, <1>2, <2>2, <2>4
    <3>4. u.len = First(c, (a + 1) + 1) - First(c, a + 1) - 1
      BY <1>1, <3>3, BurstIs
    <3>5. First(c, (a + 1) + 1) \in Int
      <4>1. (a + 1) + 1 \in 0 .. P + 1
        BY <1>1, <3>3
      <4>2. First(c, (a + 1) + 1) \in 0 .. W + 1
        BY <1>1, <4>1, Ordered
      <4> QED BY <1>1, <4>2
    <3>6. (CHOOSE y \in {x} : TRUE).len = u.len
      <4>1. (CHOOSE y \in {x} : TRUE) = x
        OBVIOUS
      <4> QED BY <4>1
    <3> HIDE DEF u, x
    <3>7. u.len + 1 = First(c, a + 2) - First(c, a + 1)
      BY <1>3, <3>3, <3>4, <3>5
    <3>8. Bare({u}) # {}
      BY BareIs
    <3> QED BY <2>2, <2>4, <3>1, <3>2, <3>3, <3>5, <3>6, <3>7, <3>8 DEF u
  <2> QED BY <2>3, <2>4
<1> HIDE DEF owed2
<1>9. CASE o.aw = l.aw /\ o.w = l.w /\ sp2 = sp /\ i2 = i /\ a2 = a
  <2>1. aw2 = aw /\ w2 = w /\ owed2 = owed
    BY <1>9 DEF owed2
  <2> HIDE DEF aw, w, aw2, w2, owed
  <2> QED BY <1>5, <1>6, <2>1 DEF WriteChannels, aw, w, aw2, w2, owed, owed2
<1>10. CASE /\ sp /\ i + 1 \in 1 .. W
            /\ o.aw = l.aw /\ o.w = {BeatOf(c, i + 1)} /\ sp2 = FALSE
            /\ i2 = i + 1 /\ a2 = a
  <2>1. aw2 = aw /\ w = {} /\ w2 \in Master!MaybeOne(DriverBeats) /\ w2 # {}
    BY <1>2, <1>7, <1>10, LeanIs
  <2>2. owed2 = owed - 1 /\ owed > 0
    BY <1>2, <1>3, <1>6, <1>10 DEF owed2
  <2> HIDE DEF aw, w, aw2, w2, owed
  <2> QED BY <1>6, <2>1, <2>2 DEF WriteChannels, aw, w, aw2, w2, owed, owed2
<1>11. CASE /\ ~sp /\ i + 1 \in 1 .. W /\ l.aw = {} /\ l.w = {}
            /\ o.aw = IF Starts(c, i + 1) THEN {BurstOf(c, a + 1, id)} ELSE {}
            /\ o.w = {BeatOf(c, i + 1)} /\ sp2 = FALSE
            /\ i2 = i + 1 /\ a2 = a + One(Starts(c, i + 1))
  <2>1. aw = {} /\ w = {} /\ w2 \in Master!MaybeOne(DriverBeats) /\ w2 # {}
    BY <1>7, <1>11, LeanIs, BareIs
  <2>2. CASE Starts(c, i + 1)
    <3>1. /\ owed = 0 /\ aw2 \in Master!MaybeOne(DriverBursts) /\ aw2 # {}
          /\ (CHOOSE x \in aw2 : TRUE).len + 1 = First(c, a + 2) - First(c, a + 1)
          /\ First(c, a + 2) \in Int /\ First(c, a + 1) < First(c, a + 2)
          /\ First(c, a + 1) = i + 1
      BY <1>8, <1>11, <2>2
    <3>2. owed2 = (First(c, a + 2) - First(c, a + 1)) - 1
      <4>1. a2 = a + 1 /\ (a + 1) + 1 = a + 2
        BY <1>2, <1>11, <2>2 DEF One
      <4> QED BY <1>2, <1>3, <1>11, <3>1, <4>1 DEF owed2
    <3>3. First(c, a + 2) - First(c, a + 1) > 0
      BY <1>3, <3>1
    <3> HIDE DEF aw, w, aw2, w2, owed
    <3> QED BY <2>1, <3>1, <3>2, <3>3 DEF WriteChannels, aw, w, aw2, w2, owed, owed2
  <2>3. CASE ~Starts(c, i + 1)
    <3>1. owed # 0 /\ aw2 = {}
      BY <1>8, <1>11, <2>3, BareIs
    <3>2. owed2 = owed - 1
      <4>1. a2 = a
        BY <1>2, <1>11, <2>3 DEF One
      <4> QED BY <1>2, <1>3, <1>11, <4>1 DEF owed2
    <3> HIDE DEF aw, w, aw2, w2, owed
    <3> QED BY <1>6, <2>1, <3>1, <3>2 DEF WriteChannels, aw, w, aw2, w2, owed, owed2
  <2> QED BY <2>2, <2>3
<1>12. CASE /\ ~sp /\ i + 1 \in 1 .. W /\ l.aw = {} /\ l.w = {} /\ Starts(c, i + 1)
            /\ o.aw = {BurstOf(c, a + 1, id)} /\ o.w = {} /\ sp2 = TRUE
            /\ i2 = i /\ a2 = a + 1
  <2>1. aw = {} /\ w = {} /\ w2 = {}
    BY <1>12, LeanIs, BareIs
  <2>2. /\ owed = 0 /\ aw2 \in Master!MaybeOne(DriverBursts) /\ aw2 # {}
        /\ (CHOOSE x \in aw2 : TRUE).len + 1 = First(c, a + 2) - First(c, a + 1)
        /\ First(c, a + 2) \in Int /\ First(c, a + 1) < First(c, a + 2)
        /\ First(c, a + 1) = i + 1
    BY <1>8, <1>12
  <2>3. owed2 = First(c, a + 2) - First(c, a + 1)
    <3>1. (a + 1) + 1 = a + 2
      BY <1>2
    <3> QED BY <1>2, <1>3, <1>12, <2>2, <3>1 DEF owed2
  <2>4. First(c, a + 2) - First(c, a + 1) > 0
    BY <1>3, <2>2
  <2> HIDE DEF aw, w, aw2, w2, owed
  <2> QED BY <1>5, <2>1, <2>2, <2>3, <2>4 DEF WriteChannels, aw, w, aw2, w2, owed, owed2
<1> QED BY <1>9, <1>10, <1>11, <1>12, Zenon DEF Driving

\* The steps of the master, in terms of what the driver has.
LEMMA ReadChannelStep ==
  ASSUME rAsked' = (IF ArFire(out) THEN out.ar ELSE rAsked),
         IF out.ar = {} \/ ArFire(out) THEN Bare(out'.ar) \in Master!MaybeOne(DriverBursts) ELSE out'.ar = out.ar
  PROVE  Master!MasterReads(Axi)
<1>1. Axi.ar = Bare(out.ar) /\ (Axi.ar)' = Bare(out'.ar)
  BY DEF Axi, Bare
<1>2. (Axi.ar = {} <=> out.ar = {}) /\ (Master!ArFire(Axi) <=> ArFire(out))
  BY <1>1, BareIs DEF Master!ArFire, ArFire
<1>3. Bare(rAsked)' = IF Master!ArFire(Axi) THEN Axi.ar ELSE Bare(rAsked)
  <2>1. Bare(rAsked)' = Bare(rAsked')
    BY DEF Bare
  <2> QED BY <1>1, <1>2, <2>1
<1>4. out'.ar = out.ar => Bare(out'.ar) = Bare(out.ar)
  BY DEF Bare
<1> QED BY <1>1, <1>2, <1>3, <1>4 DEF Master!MasterReads

LEMMA WriteChannelStep ==
  ASSUME wAsked' = (IF AwFire(out) THEN out.aw ELSE wAsked),
         WriteChannels(IF AwFire(out) THEN {} ELSE Bare(out.aw), IF WFire(out) THEN {} ELSE Lean(out.w), BeatsOwed,
                       Bare(out'.aw), Lean(out'.w), BeatsOwed')
  PROVE  Master!MasterWrites(Axi)
<1>1. /\ Axi.aw = Bare(out.aw) /\ (Axi.aw)' = Bare(out'.aw)
      /\ Axi.w = Lean(out.w) /\ (Axi.w)' = Lean(out'.w)
  BY DEF Axi, Bare, Lean
<1>2. (Master!AwFire(Axi) <=> AwFire(out)) /\ (Master!WFire(Axi) <=> WFire(out))
  <2>1. (Axi.aw = {} <=> out.aw = {}) /\ (Axi.w = {} <=> out.w = {})
    BY <1>1, BareIs, LeanIs
  <2>2. (Master!WReady) = (WReady)
    BY DEF Master!WReady, WReady, Master!QUEUE_DEPTH, QUEUE_DEPTH
  <2> QED BY <2>1, <2>2 DEF Master!AwFire, AwFire, Master!WFire, WFire
<1>3. Bare(wAsked)' = IF Master!AwFire(Axi) THEN Axi.aw ELSE Bare(wAsked)
  <2>1. Bare(wAsked)' = Bare(wAsked')
    BY DEF Bare
  <2> QED BY <1>1, <1>2, <2>1
<1> DEFINE aw  == IF AwFire(out) THEN {} ELSE Bare(out.aw)
           w   == IF WFire(out) THEN {} ELSE Lean(out.w)
<1>4. /\ aw = (IF Master!AwFire(Axi) THEN {} ELSE Axi.aw)
      /\ w = (IF Master!WFire(Axi) THEN {} ELSE Axi.w)
  BY <1>1, <1>2
<1>5. WriteChannels(aw, w, BeatsOwed, (Axi.aw)', (Axi.w)', BeatsOwed')
  BY <1>1
<1> HIDE DEF aw, w
<1> QED BY <1>3, <1>4, <1>5, Zenon DEF Master!MasterWrites, WriteChannels, DriverBeats

\* Nothing on the channels of a write and nothing owed, before and after.
LEMMA QuietChannels == WriteChannels({}, {}, 0, {}, {}, 0)
BY DEF WriteChannels, Master!MaybeOne

LEMMA QuietStep ==
  ASSUME TbInv, TbInv', WritesQuiet, WritesQuiet', wAsked' = wAsked
  PROVE  Master!MasterWrites(Axi)
<1>1. BeatsOwed = 0
  BY QuietOwes
<1>2. BeatsOwed' = 0
  <2>1. (TbInv /\ WritesQuiet => BeatsOwed = 0)'
    BY QuietOwes, PTL
  <2> QED BY <2>1
<1>3. out.aw = {} /\ out.w = {} /\ out'.aw = {} /\ out'.w = {}
  BY DEF WritesQuiet
<1>4. Bare(out.aw) = {} /\ Lean(out.w) = {} /\ Bare(out'.aw) = {} /\ Lean(out'.w) = {}
  BY <1>3, BareIs, LeanIs
<1>5. ~AwFire(out) /\ ~WFire(out)
  BY <1>3 DEF AwFire, WFire
<1>6. WriteChannels(IF AwFire(out) THEN {} ELSE Bare(out.aw), IF WFire(out) THEN {} ELSE Lean(out.w), BeatsOwed,
                    Bare(out'.aw), Lean(out'.w), BeatsOwed')
  BY <1>1, <1>2, <1>4, <1>5, QuietChannels
<1> QED BY <1>5, <1>6, WriteChannelStep

LEMMA NoReads ==
  ASSUME out.ar = {}, out'.ar = {}, rAsked' = (IF ArFire(out) THEN out.ar ELSE rAsked)
  PROVE  Master!MasterReads(Axi)
<1>1. Bare(out'.ar) \in Master!MaybeOne(DriverBursts)
  BY BareIs DEF Master!MaybeOne
<1> QED BY <1>1, ReadChannelStep

LEMMA WriteEdgeKeepsToAxi ==
  ASSUME TbInv, NEW accept, NEW id, NEW i, NEW a, NEW r, NEW s, NEW n,
         WriteEdge(accept, id, i, a, r, s, n)
  PROVE  Master!MasterReads(Axi) /\ Master!MasterWrites(Axi)
<1>1. /\ rAsked' = (IF ArFire(out) THEN out.ar ELSE rAsked)
      /\ wAsked' = (IF AwFire(out) THEN out.aw ELSE wAsked)
  BY EdgeParts DEF WriteEdge
<1>2. out.ar = {} /\ out'.ar = {}
  BY DriverWrites DEF WriteEdge, WriteState, ReadsQuiet
<1>3. call \in Calls /\ IsBlock(call) /\ IsMaster(out) /\ call' = call
  BY CallsAreBlocks, WriteLoops DEF WriteEdge, TypeInv
<1>4. PICK l : l = Untaken(Slave)
  OBVIOUS
<1>5. PICK i2 \in 0 .. WordsIn(call), a2 \in 0 .. NumPieces(call) :
        /\ Driving(call, id, l, out', split, split', i, a, i2, a2)
        /\ reqQ' = Slice(WriteRequestsOf(call, id), i2, WordsIn(call) - i2)
  BY <1>4, DriverWrites
<1>6. Driven(call, id, l, split, i, a)
  BY <1>4, DriverWrites
<1>7. Driven(call, id, out', split', i2, a2)
  BY <1>3, <1>5, <1>6, DrivenNext
<1>8. l.aw = (IF wState = "wIdle" THEN {} ELSE out.aw) /\ l.w = (IF WReady THEN {} ELSE out.w)
  BY <1>3, <1>4, UntakenIs
<1>9. BeatsOwed = First(call, a + 1) - 1 - i
  <2>1. reqQ = Slice(WriteRequestsOf(call, id), i, WordsIn(call) - i)
    BY DEF WriteEdge, WriteState
  <2>2. /\ i \in 0 .. WordsIn(call) /\ a \in 0 .. NumPieces(call) /\ split \in BOOLEAN
        /\ First(call, a) =< i + One(split) /\ i + One(split) < First(call, a + 1)
    BY <1>6 DEF Driven
  <2>3. OwedIn(Slice(WriteRequestsOf(call, id), i, WordsIn(call) - i), split) = First(call, a + 1) - 1 - i
    BY <1>3, <2>2, OwedInWrite
  <2> QED BY <2>1, <2>3, OwedInQueue
<1>10. BeatsOwed' = First(call, a2 + 1) - 1 - i2
  <2>1. /\ i2 \in 0 .. WordsIn(call) /\ a2 \in 0 .. NumPieces(call) /\ split' \in BOOLEAN
        /\ First(call, a2) =< i2 + One(split') /\ i2 + One(split') < First(call, a2 + 1)
    BY <1>7 DEF Driven
  <2>2. OwedIn(Slice(WriteRequestsOf(call, id), i2, WordsIn(call) - i2), split') = First(call, a2 + 1) - 1 - i2
    BY <1>3, <2>1, OwedInWrite
  <2>3. BeatsOwed' = OwedIn(reqQ', split')
    BY DEF BeatsOwed, OwedIn
  <2> QED BY <1>5, <2>2, <2>3
<1>11. WriteChannels(Bare(l.aw), Lean(l.w), BeatsOwed, Bare(out'.aw), Lean(out'.w), BeatsOwed')
  <2>1. WriteChannels(Bare(l.aw), Lean(l.w), First(call, a + 1) - 1 - i,
                      Bare(out'.aw), Lean(out'.w), First(call, a2 + 1) - 1 - i2)
    BY <1>3, <1>5, <1>6, DrivingIsStep
  <2> QED BY <1>9, <1>10, <2>1
<1>12. /\ Bare(l.aw) = (IF AwFire(out) THEN {} ELSE Bare(out.aw))
       /\ Lean(l.w) = (IF WFire(out) THEN {} ELSE Lean(out.w))
  BY <1>8, BareIs, LeanIs DEF AwFire, WFire
<1>13. Master!MasterWrites(Axi)
  <2>1. WriteChannels(IF AwFire(out) THEN {} ELSE Bare(out.aw), IF WFire(out) THEN {} ELSE Lean(out.w), BeatsOwed,
                      Bare(out'.aw), Lean(out'.w), BeatsOwed')
    BY <1>11, <1>12
  <2> QED BY <1>1, <2>1, WriteChannelStep
<1> QED BY <1>1, <1>2, <1>13, NoReads

LEMMA ReadEdgeKeepsToAxi ==
  ASSUME TbInv, TbInv', NEW accept, NEW id, NEW q, NEW g, NEW p, NEW m, NEW d,
         ReadEdge(accept, id, q, g, p, m, d)
  PROVE  Master!MasterReads(Axi) /\ Master!MasterWrites(Axi)
<1>1. /\ rAsked' = (IF ArFire(out) THEN out.ar ELSE rAsked)
      /\ wAsked' = (IF AwFire(out) THEN out.aw ELSE wAsked)
  BY EdgeParts DEF ReadEdge
<1>2. call \in Calls /\ IsBlock(call)
  BY CallsAreBlocks DEF ReadEdge
<1>3. WritesQuiet
  BY DEF ReadEdge, ReadState
<1>4. PICK g2 : g2 = g + One(ArFire(out))
  OBVIOUS
<1>5. /\ \E q2 \in 0 .. NumPieces(call) : out'.ar = {} \/ (q2 > 0 /\ out'.ar = {BurstOf(call, q2, id)})
      /\ out'.aw = {} /\ out'.w = {}
      /\ ~(rState = "rIdle") /\ out.ar # {} => out'.ar = out.ar
  BY <1>4, DriverReads
<1>6. WritesQuiet'
  <2>1. wState' = "wIdle" /\ wDataQueue' = <<>> /\ wAckPending' = 0
    BY ReadLeavesWrites
  <2>2. split' = split
    BY ReadLoops
  <2> QED BY <1>3, <1>5, <2>1, <2>2 DEF WritesQuiet
<1>7. Bare(out'.ar) \in Master!MaybeOne(DriverBursts)
  <2>1. PICK q2 \in 0 .. NumPieces(call) : out'.ar = {} \/ (q2 > 0 /\ out'.ar = {BurstOf(call, q2, id)})
    BY <1>5
  <2>2. CASE out'.ar = {}
    BY <2>2, BareIs DEF Master!MaybeOne
  <2>3. CASE q2 > 0 /\ out'.ar = {BurstOf(call, q2, id)}
    <3>1. NumPieces(call) \in Nat
      BY <1>2, Pieces
    <3>2. q2 \in 1 .. NumPieces(call)
      BY <2>3, <3>1
    <3>3. Bare({BurstOf(call, q2, id)}) \in Master!MaybeOne(DriverBursts)
      BY <1>2, <3>2, BurstIsDrivers
    <3> QED BY <2>3, <3>3
  <2> QED BY <2>1, <2>2, <2>3
<1>8. IF out.ar = {} \/ ArFire(out) THEN Bare(out'.ar) \in Master!MaybeOne(DriverBursts) ELSE out'.ar = out.ar
  BY <1>5, <1>7 DEF ArFire
<1>9. ~AwFire(out)
  BY <1>3 DEF WritesQuiet, AwFire
<1> QED BY <1>1, <1>3, <1>6, <1>8, <1>9, QuietStep, ReadChannelStep

LEMMA StepKeepsToAxi ==
  ASSUME TbInv, TbInv', [TbNext]_tbVars
  PROVE  [Master!MasterReads(Axi) /\ Master!MasterWrites(Axi)]_tbVars
<1>1. ASSUME NEW accept \in BOOLEAN, Edge(accept)
      PROVE  (Master!MasterReads(Axi) /\ Master!MasterWrites(Axi)) \/ UNCHANGED tbVars
  <2>1. CASE IdleState
    BY <1>1, <2>1, IdleEdge DEF TbInv
  <2>2. CASE \E id \in [1 .. NumPieces(call) -> Ids] :
             \E i, s \in 0 .. WordsIn(call), a, r \in 0 .. NumPieces(call), n \in 0 .. QUEUE_DEPTH :
               WriteEdge(accept, id, i, a, r, s, n)
    BY <2>2, WriteEdgeKeepsToAxi, Zenon
  <2>3. CASE \E id \in [1 .. NumPieces(call) -> Ids] :
             \E q, g \in 0 .. NumPieces(call), p \in 0 .. WordsIn(call), m, d \in 0 .. QUEUE_DEPTH :
               ReadEdge(accept, id, q, g, p, m, d)
    BY <2>3, ReadEdgeKeepsToAxi, Zenon
  <2> QED BY <1>1, <2>1, <2>2, <2>3, EdgeOf, Zenon
<1>2. ASSUME (\E c \in Calls : TestCalls(c)) \/ CallReturns
      PROVE  Master!MasterReads(Axi) /\ Master!MasterWrites(Axi)
  <2>1. /\ out' = out /\ ~split' /\ rAsked' = rAsked /\ wAsked' = wAsked
        /\ wState' = wState /\ wDataQueue' = wDataQueue /\ wAckPending' = wAckPending
    <3>1. CASE \E c \in Calls : TestCalls(c)
      BY <3>1 DEF TestCalls, Begin, pmemVars, writeVars
    <3>2. CASE CallReturns
      <4>1. ~split
        BY <3>2, NotLooping DEF CallReturns, Return, IdleState, WritesQuiet
      <4> QED BY <3>2, <4>1 DEF CallReturns, Return, pmemVars, writeVars, historyVars
    <3> QED BY <1>2, <3>1, <3>2
  <2>2. IdleState
    <3>1. call = NoCall \/ ~Looping
      BY <1>2 DEF TestCalls, Begin, CallReturns, Return
    <3> QED BY <3>1, NotLooping
  <2>3. WritesQuiet /\ WritesQuiet' /\ out.ar = {} /\ out'.ar = {} /\ ~ArFire(out)
    BY <2>1, <2>2 DEF IdleState, WritesQuiet, ReadsQuiet, ArFire
  <2> QED BY <2>1, <2>3, QuietStep, NoReads
<1>3. CASE UNCHANGED tbVars
  BY <1>3
<1> QED BY <1>1, <1>2, <1>3 DEF TbNext, Clock

\* On its channels the driver is the master of AxiMaster: it holds an address or
\* a beat until it is taken, and sends every beat of a burst before it asks for
\* the next, whether the address is ahead of its data or not.
THEOREM KeepsToAxi == TbSpec => IsAxiMaster
<1>1. TbInv /\ TbInv' /\ [TbNext]_tbVars => [Master!MasterReads(Axi) /\ Master!MasterWrites(Axi)]_tbVars
  BY StepKeepsToAxi
<1> QED BY <1>1, AlwaysTbInv, PTL DEF TbSpec, IsAxiMaster

==============================================================================
