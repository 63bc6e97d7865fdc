------------------------------- MODULE HarnessProofs -------------------------------
(***************************************************************************)
(* Proofs about the two parts of the test harness that know nothing of the  *)
(* design.  TbApb, for every address space, every set of calls and a slave  *)
(* that takes as long as it likes: the driver keeps the rules of APB, and   *)
(* its calls are those of a memory of bytes.  ScTestbench, for every        *)
(* driver, design and number of iterations and every order of the           *)
(* processes in a delta cycle: the test runs as often as it should, and     *)
(* the simulation is that of one clock.                                     *)
(***************************************************************************)
EXTENDS TbApb, ScTestbench, SequenceTheorems, TLAPS

\* Where the driver is in a call.  A masked word is one piece, so that its mask
\* is used at the start of the block only.
CallInv ==
  /\ call = NoCall => phase = "none"
  /\ call # NoCall =>
       /\ call \in Calls
       /\ at \in 0 .. Len(call.data)
       /\ phase = "none" <=> at = Len(call.data)
       /\ call.op = "write" => done = at
       /\ call.op = "read" => Len(got) = at
       /\ call.op = "write" /\ phase # "none" => at = 0 \/ call.mask = 0 .. Len(call.data) - 1

\* What is on the bus, and whether a transfer was left there before.
BusInv ==
  /\ phase \in {"none", "pause", "setup", "access"}
  /\ bus = CASE phase = "setup"  -> Setup(call, at)
             [] phase = "access" -> [Setup(call, at) EXCEPT !.penable = TRUE]
             [] OTHER            -> Quiet
  /\ phase \in {"none", "pause"} => ~(last.bus.psel /\ ~last.taken)

\* The inductive invariant.
ApbInv ==
  /\ store \in [0 .. NumWords - 1 -> Word]
  /\ got \in Seq(ByteValues)
  /\ CallInv
  /\ BusInv
  /\ ApbRules

------------------------------------------------------------------------------
\* Places of the bytes of a block.

LEMMA WrapAround ==
  ASSUME NEW n \in Nat \ {0}, NEW s \in 0 .. n - 1, NEW i \in 0 .. n - 1
  PROVE  /\ s % n = s
         /\ (s + i) % n = IF s + i < n THEN s + i ELSE s + i - n
         /\ (i + n - s) % n = IF i >= s THEN i - s ELSE i + n - s
<1>1. ASSUME NEW r \in 0 .. n - 1 PROVE r % n = r /\ (r + n) % n = r
  <2>1. r = n * 0 + r /\ r + n = n * 1 + r
    OBVIOUS
  <2> QED BY <2>1
<1>2. (s + i) % n = IF s + i < n THEN s + i ELSE s + i - n
  <2>1. CASE s + i < n
    <3>1. s + i \in 0 .. n - 1
      BY <2>1
    <3> QED BY <1>1, <2>1, <3>1
  <2>2. CASE s + i >= n
    <3>1. s + i - n \in 0 .. n - 1 /\ (s + i - n) + n = s + i /\ ~(s + i < n)
      BY <2>2
    <3>2. ((s + i - n) + n) % n = s + i - n
      BY <1>1, <3>1
    <3> QED BY <3>1, <3>2
  <2> QED BY <2>1, <2>2
<1>3. (i + n - s) % n = IF i >= s THEN i - s ELSE i + n - s
  <2>1. CASE i >= s
    <3>1. i - s \in 0 .. n - 1 /\ (i - s) + n = i + n - s
      BY <2>1
    <3>2. ((i - s) + n) % n = i - s
      BY <1>1, <3>1
    <3> QED BY <2>1, <3>1, <3>2
  <2>2. CASE i < s
    <3>1. i + n - s \in 0 .. n - 1 /\ ~(i >= s)
      BY <2>2
    <3> QED BY <1>1, <3>1
  <2> QED BY <2>1, <2>2
<1> QED BY <1>1, <1>2, <1>3

\* The bytes of a piece lie side by side in one word, and no other byte of the
\* memory has an offset of theirs.
LEMMA PlacesInWord ==
  ASSUME NEW c, c.addr \in Addrs, Len(c.data) \in 1 .. AddrSpace,
         NEW k \in 0 .. Len(c.data) - 1
  PROVE  LET p    == AddrAt(c, k)
             size == PieceSize(c, k)
         IN /\ p \in Addrs
            /\ size \in 1 .. Len(c.data) - k
            /\ p % 4 \in 0 .. 3 /\ (p % 4) + size <= 4
            /\ p + size <= AddrSpace
            /\ p \div 4 \in 0 .. NumWords - 1 /\ (p - (p % 4)) \div 4 = p \div 4
            /\ \A x \in 0 .. size - 1 : /\ AddrAt(c, k + x) = p + x
                                        /\ (p + x) \div 4 = p \div 4
                                        /\ (p + x) % 4 = (p % 4) + x
            /\ \A a \in Addrs : LET o == (a + AddrSpace - c.addr) % AddrSpace
                                IN /\ o \in k .. k + size - 1 => a = p + (o - k)
                                   /\ a - p \in 0 .. size - 1 => o = k + (a - p)
<1> DEFINE N    == AddrSpace
           s    == c.addr
           len  == Len(c.data)
           p    == AddrAt(c, k)
           off  == p % 4
           q    == p \div 4
           size == PieceSize(c, k)
           O(a) == (a + N - s) % N
<1>0. N \in Nat \ {0} /\ N % 4 = 0 /\ s \in 0 .. N - 1 /\ len \in 1 .. N /\ k \in 0 .. len - 1
  BY SpaceAssumption DEF Addrs
<1>1. \A i \in 0 .. len - 1 : AddrAt(c, i) = IF s + i < N THEN s + i ELSE s + i - N
  <2> TAKE i \in 0 .. len - 1
  <2>1. i \in 0 .. N - 1
    BY <1>0
  <2>2. (s + i) % N = IF s + i < N THEN s + i ELSE s + i - N
    BY <1>0, <2>1, WrapAround
  <2> QED BY <2>2 DEF AddrAt
<1>2. \A a \in 0 .. N - 1 : O(a) = IF a >= s THEN a - s ELSE a + N - s
  BY <1>0, WrapAround
<1>3. size = IF 4 - off > len - k THEN len - k ELSE 4 - off
  BY DEF PieceSize
<1>4. p = IF s + k < N THEN s + k ELSE s + k - N
  BY <1>1
<1> HIDE DEF s, len, p, size, O
<1>5. p \in 0 .. N - 1
  BY <1>0, <1>4
<1>6. off \in 0 .. 3 /\ q \in Nat /\ p = 4 * q + off
  BY <1>5
<1>7. N = 4 * (N \div 4) /\ N \div 4 \in Nat
  BY <1>0
<1> HIDE DEF off, q
<1>8. size \in 1 .. len - k /\ off + size <= 4
  BY <1>0, <1>3, <1>6
<1>9. p + size <= N /\ q \in 0 .. NumWords - 1 /\ (p - off) \div 4 = q
  <2>1. p + size <= N /\ q \in 0 .. NumWords - 1
    BY <1>0, <1>5, <1>6, <1>7, <1>8 DEF NumWords
  <2>2. p - off = 4 * q /\ (4 * q) \div 4 = q
    BY <1>6
  <2> QED BY <2>1, <2>2
<1>10. ASSUME NEW x \in 0 .. size - 1
       PROVE  /\ AddrAt(c, k + x) = p + x
              /\ (p + x) \div 4 = q
              /\ (p + x) % 4 = off + x
  <2>1. k + x \in 0 .. len - 1
    BY <1>0, <1>8
  <2>2. AddrAt(c, k + x) = p + x
    BY <1>0, <1>1, <1>4, <1>8, <1>9, <2>1
  <2>3. p + x = 4 * q + (off + x) /\ off + x \in 0 .. 3
    BY <1>5, <1>6, <1>8
  <2>4. (4 * q + (off + x)) \div 4 = q /\ (4 * q + (off + x)) % 4 = off + x
    BY <1>6, <2>3
  <2> QED BY <2>2, <2>3, <2>4
<1>11. ASSUME NEW a \in 0 .. N - 1
       PROVE  /\ O(a) \in k .. k + size - 1 => a = p + (O(a) - k)
              /\ a - p \in 0 .. size - 1 => O(a) = k + (a - p)
  <2>1. O(a) = IF a >= s THEN a - s ELSE a + N - s
    BY <1>2
  <2>2. O(a) \in k .. k + size - 1 => a = p + (O(a) - k)
    BY <1>0, <1>4, <1>8, <1>9, <2>1
  <2>3. a - p \in 0 .. size - 1 => O(a) = k + (a - p)
    BY <1>0, <1>4, <1>8, <1>9, <2>1
  <2> QED BY <2>2, <2>3
<1> QED BY <1>5, <1>6, <1>8, <1>9, <1>10, <1>11 DEF Addrs, s, len, p, off, q, size, O

------------------------------------------------------------------------------
\* The bus.

Access(c, k) == [Setup(c, k) EXCEPT !.penable = TRUE]

LEMMA BusFields ==
  ASSUME NEW c, NEW k
  PROVE  /\ ~Quiet.psel /\ ~Quiet.penable
         /\ Setup(c, k).psel /\ ~Setup(c, k).penable
         /\ Access(c, k).psel /\ Access(c, k).penable
         /\ Access(c, k).pwrite <=> c.op = "write"
         /\ Access(c, k).paddr = AddrAt(c, k) - (AddrAt(c, k) % 4)
         /\ c.op = "write" => /\ Access(c, k).pwdata = WordData(c, k)
                              /\ Access(c, k).pstrb = WordStrb(c, k)
         /\ [Access(c, k) EXCEPT !.penable = TRUE] = Access(c, k)
BY DEF Quiet, Setup, Access

\* A transfer is taken when the slave is ready for one that is enabled.
LEMMA TakenIsReady ==
  ASSUME BusInv, NEW pready \in BOOLEAN
  PROVE  /\ Taken(pready) <=> phase = "access" /\ pready
         /\ phase = "access" => bus = Access(call, at)
BY BusFields DEF BusInv, Taken, Access

LEMMA CallUnderWay ==
  ASSUME CallInv, phase # "none"
  PROVE  /\ call # NoCall /\ call \in Calls /\ call.op \in {"write", "read"}
         /\ call.addr \in Addrs /\ call.data \in Seq(ByteValues)
         /\ Len(call.data) \in 1 .. AddrSpace
         /\ at \in 0 .. Len(call.data) - 1
<1>1. call # NoCall /\ call \in Calls /\ at \in 0 .. Len(call.data) /\ at # Len(call.data)
  BY DEF CallInv
<1>2. /\ call.op \in {"write", "read"} /\ call.addr \in Addrs
      /\ call.data \in Seq(ByteValues) /\ Len(call.data) \in 1 .. AddrSpace
  BY <1>1, CallsAssumption DEF Addrs
<1> QED BY <1>1, <1>2

LEMMA PieceUnderWay ==
  ASSUME CallInv, phase # "none"
  PROVE  LET p    == AddrAt(call, at)
             size == PieceSize(call, at)
         IN /\ p \in Addrs
            /\ size \in 1 .. Len(call.data) - at
            /\ p % 4 \in 0 .. 3 /\ (p % 4) + size <= 4
            /\ p + size <= AddrSpace
            /\ p \div 4 \in 0 .. NumWords - 1 /\ (p - (p % 4)) \div 4 = p \div 4
            /\ \A x \in 0 .. size - 1 : /\ AddrAt(call, at + x) = p + x
                                        /\ (p + x) \div 4 = p \div 4
                                        /\ (p + x) % 4 = (p % 4) + x
            /\ \A a \in Addrs : LET o == (a + AddrSpace - call.addr) % AddrSpace
                                IN /\ o \in at .. at + size - 1 => a = p + (o - at)
                                   /\ a - p \in 0 .. size - 1 => o = at + (a - p)
<1>1. /\ call.addr \in Addrs /\ Len(call.data) \in 1 .. AddrSpace
      /\ at \in 0 .. Len(call.data) - 1
  BY CallUnderWay
<1> QED BY <1>1, PlacesInWord, Zenon

LEMMA WordDataType ==
  ASSUME CallInv, phase # "none"
  PROVE  WordData(call, at) \in Word
<1> DEFINE p == AddrAt(call, at)
           size == PieceSize(call, at)
<1>1. /\ call.data \in Seq(ByteValues) /\ Len(call.data) \in Nat /\ at \in Nat
      /\ size \in 1 .. Len(call.data) - at
  BY CallUnderWay, PieceUnderWay
<1> HIDE DEF size
<1>2. \A x \in 0 .. size - 1 : call.data[at + x + 1] \in ByteValues
  <2> TAKE x \in 0 .. size - 1
  <2>1. at + x + 1 \in 1 .. Len(call.data)
    BY <1>1
  <2> QED BY <1>1, <2>1, ElementOfSeq
<1>3. ASSUME NEW l \in Lanes
      PROVE  (LET x == l - (p % 4) IN IF x \in 0 .. size - 1 THEN call.data[at + x + 1] ELSE 0)
               \in ByteValues
  BY <1>2, ByteAssumption
<1> QED BY <1>3 DEF WordData, Word, size

------------------------------------------------------------------------------
\* The invariant.

LEMMA ApbStart == ApbInit => ApbInv
<1> SUFFICES ASSUME ApbInit PROVE ApbInv
  OBVIOUS
<1>1. got \in Seq(ByteValues)
  BY EmptySeq DEF ApbInit
<1>2. CallInv
  BY DEF ApbInit, CallInv
<1>3. BusInv /\ ApbRules
  BY BusFields DEF ApbInit, BusInv, ApbRules
<1> QED BY <1>1, <1>2, <1>3 DEF ApbInit, ApbInv

LEMMA BeginStep == ASSUME ApbInv, NEW c \in Calls, Begin(c) PROVE ApbInv'
<1>1. phase = "none" /\ bus = Quiet
  BY DEF Begin, ApbInv, CallInv, BusInv
<1>2. c.op \in {"write", "read"} /\ c.data \in Seq(ByteValues) /\ Len(c.data) \in 1 .. AddrSpace
  BY CallsAssumption
<1>3. c # NoCall
  BY <1>2 DEF NoCall
<1>4. got' \in Seq(ByteValues) /\ Len(got') = 0
  BY EmptySeq DEF Begin
<1>5. \/ phase' = "pause" /\ bus' = Quiet
      \/ phase' = "setup" /\ bus' = Setup(c, 0)
  BY DEF Begin, StartPiece, Pause, Select
<1>6. CallInv'
  BY <1>2, <1>3, <1>4, <1>5 DEF Begin, CallInv
<1>7. BusInv' /\ ApbRules'
  BY <1>1, <1>5, BusFields DEF Begin, ApbInv, BusInv, ApbRules
<1> QED BY <1>4, <1>6, <1>7 DEF Begin, ApbInv

LEMMA ReturnStep == ASSUME ApbInv, Return PROVE ApbInv'
BY DEF ApbInv, CallInv, BusInv, ApbRules, Return, Setup, Quiet, AddrAt, WordData, WordStrb,
       PieceSize, InitialMask

\* What a transfer that is taken leaves.
LEMMA DoneStep ==
  ASSUME ApbInv, NEW pready \in BOOLEAN, Edge(pready), Done(pready, store[WordAddr])
  PROVE  /\ phase = "access" /\ pready
         /\ at' = at + PieceSize(call, at)
         /\ at' \in 1 .. Len(call.data)
         /\ phase' = "none" <=> at' = Len(call.data)
         /\ call.op = "write" => done' = at'
         /\ call.op = "read" => Len(got') = at'
         /\ CallInv' /\ BusInv' /\ ApbRules'
         /\ got' \in Seq(ByteValues)
         /\ store' \in [0 .. NumWords - 1 -> Word]
<1> DEFINE p    == AddrAt(call, at)
           size == PieceSize(call, at)
<1>0. phase = "access" /\ pready /\ Taken(pready) /\ bus = Access(call, at)
  BY TakenIsReady DEF ApbInv, Done
<1>c. /\ call # NoCall /\ call \in Calls /\ call.op \in {"write", "read"}
      /\ Len(call.data) \in Nat /\ at \in 0 .. Len(call.data) - 1
  BY <1>0, CallUnderWay DEF ApbInv
<1>p. /\ size \in 1 .. Len(call.data) - at /\ size <= 4
      /\ p % 4 \in 0 .. 3 /\ (p % 4) + size <= 4
      /\ p \div 4 \in 0 .. NumWords - 1 /\ WordAddr = p \div 4
  <2>1. /\ size \in 1 .. Len(call.data) - at /\ p % 4 \in 0 .. 3 /\ (p % 4) + size <= 4
        /\ p \div 4 \in 0 .. NumWords - 1 /\ (p - (p % 4)) \div 4 = p \div 4
    BY <1>0, CallUnderWay, PieceUnderWay DEF ApbInv
  <2>2. bus.paddr = p - (p % 4)
    BY <1>0, BusFields
  <2> HIDE DEF p, size
  <2> QED BY <1>c, <2>1, <2>2 DEF WordAddr
<1>1. at' = at + size /\ at' \in 1 .. Len(call.data)
  BY <1>c, <1>p DEF Done
<1>2. \/ phase' = "pause" /\ bus' = Quiet /\ at' < Len(call.data)
      \/ phase' = "setup" /\ bus' = Setup(call, at') /\ at' < Len(call.data)
      \/ phase' = "none" /\ bus' = Quiet /\ at' = Len(call.data)
  BY DEF Done
<1>3. call.op = "write" => done' = at'
  BY <1>0, <1>1, <1>c, BusFields DEF Edge, ApbInv, CallInv
<1>4. got' \in Seq(ByteValues) /\ (call.op = "read" => Len(got') = at')
  <2>1. store[WordAddr] \in Word
    BY <1>p DEF ApbInv
  <2> HIDE DEF size
  <2>2. \A x \in 1 .. size : store[WordAddr][(p % 4) + x - 1] \in ByteValues
    BY <1>p, <2>1 DEF Word, Lanes
  <2>3. Bytes(store[WordAddr], at) \in Seq(ByteValues) /\ Len(Bytes(store[WordAddr], at)) = size
    BY <1>p, <2>2 DEF Bytes, size
  <2>4. got \in Seq(ByteValues) /\ (call.op = "read" => Len(got) = at)
    BY <1>c DEF ApbInv, CallInv
  <2> QED BY <1>1, <2>3, <2>4, ConcatProperties DEF Done
<1>5. store' \in [0 .. NumWords - 1 -> Word]
  <2>1. CASE call.op = "write"
    <3>1. bus.pwdata \in Word
      BY <1>0, <2>1, WordDataType, BusFields DEF ApbInv
    <3>2. [l \in Lanes |-> IF l \in bus.pstrb THEN bus.pwdata[l] ELSE store[WordAddr][l]] \in Word
      BY <1>p, <3>1 DEF Word, ApbInv
    <3> QED BY <3>2 DEF Edge, SlaveEdge, ApbInv
  <2>2. CASE call.op # "write"
    BY <1>0, <2>2, BusFields DEF Edge, SlaveEdge, ApbInv
  <2> QED BY <2>1, <2>2
<1>6. CallInv'
  <2>1. call.op = "write" => call.mask = 0 .. Len(call.data) - 1 \/ at' = Len(call.data)
    <3> SUFFICES ASSUME call.op = "write", call.mask # 0 .. Len(call.data) - 1
                 PROVE  at' = Len(call.data)
      OBVIOUS
    <3>1. at = 0
      BY <1>0, <1>c DEF ApbInv, CallInv
    <3>2. Len(call.data) = 4 /\ call.addr % 4 = 0 /\ call.addr \in 0 .. AddrSpace - 1
      BY <1>c, CallsAssumption
    <3>3. p = call.addr
      <4>1. call.addr + 0 = call.addr
        BY <3>2
      <4>2. call.addr % AddrSpace = call.addr
        BY <3>2, SpaceAssumption, WrapAround
      <4> QED BY <3>1, <4>1, <4>2 DEF AddrAt
    <3> QED BY <1>1, <3>1, <3>2, <3>3 DEF PieceSize
  <2> QED BY <1>1, <1>2, <1>3, <1>4, <1>c, <2>1 DEF CallInv, Edge
<1>7. BusInv' /\ ApbRules'
  <2>1. Setup(call, at)' = Setup(call, at') /\ last' = [bus |-> bus, taken |-> TRUE]
    BY <1>0 DEF Edge, Setup, Quiet, AddrAt, WordData, WordStrb, PieceSize, InitialMask
  <2> QED BY <1>2, <2>1, BusFields DEF BusInv, ApbRules
<1> QED BY <1>0, <1>1, <1>2, <1>3, <1>4, <1>5, <1>6, <1>7

LEMMA EdgeStep == ASSUME ApbInv, NEW pready \in BOOLEAN, Edge(pready) PROVE ApbInv'
<1>1. CASE Done(pready, store[WordAddr])
  BY <1>1, DoneStep DEF ApbInv
<1>2. CASE ~(phase = "access" /\ pready)
  <2>1. ~Taken(pready) /\ store' = store /\ done' = done /\ call' = call
    BY <1>2, TakenIsReady DEF ApbInv, Edge, SlaveEdge
  <2>2. at' = at /\ got' = got
    BY <1>2 DEF Edge, Paused, Enable, NotReady, Done, Between
  <2>3. last' = [bus |-> bus, taken |-> FALSE]
    BY <2>1 DEF Edge, Taken
  <2>4. \/ phase = "pause" /\ phase' = "pause" /\ bus' = Quiet
        \/ phase = "pause" /\ phase' = "setup" /\ bus' = Setup(call, at)
        \/ phase = "setup" /\ phase' = "access" /\ bus' = [bus EXCEPT !.penable = TRUE]
        \/ phase \in {"access", "none"} /\ phase' = phase /\ bus' = bus
    BY <1>2 DEF Edge, Paused, StartPiece, Pause, Select, Enable, NotReady, Done, Between
  <2>5. CallInv'
    BY <2>1, <2>2, <2>4 DEF ApbInv, CallInv
  <2>6. bus = CASE phase = "setup"  -> Setup(call, at)
                [] phase = "access" -> Access(call, at)
                [] OTHER            -> Quiet
    BY DEF ApbInv, BusInv, Access
  <2>7. BusInv' /\ ApbRules'
    <3>1. Access(call, at)' = Access(call, at) /\ Setup(call, at)' = Setup(call, at)
      BY <2>1, <2>2 DEF Access, Setup, Quiet, AddrAt, WordData, WordStrb, PieceSize, InitialMask
    <3> QED BY <2>3, <2>4, <2>6, <3>1, BusFields DEF BusInv, ApbRules, Access
  <2> QED BY <2>1, <2>2, <2>5, <2>7 DEF ApbInv
<1>3. phase = "access" /\ pready => Done(pready, store[WordAddr])
  BY DEF Edge, Paused, Enable, NotReady, Between
<1> QED BY <1>1, <1>2, <1>3

LEMMA ApbStep == ApbInv /\ [ApbNext]_apbVars => ApbInv'
<1>1. ASSUME ApbInv, UNCHANGED apbVars PROVE ApbInv'
  <2>1. Setup(call, at)' = Setup(call, at)
    BY <1>1 DEF apbVars, Setup, Quiet, AddrAt, WordData, WordStrb, PieceSize, InitialMask
  <2>2. CallInv' /\ BusInv' /\ ApbRules'
    BY <1>1, <2>1 DEF apbVars, ApbInv, CallInv, BusInv, ApbRules
  <2> QED BY <1>1, <2>2 DEF apbVars, ApbInv
<1> QED BY <1>1, BeginStep, ReturnStep, EdgeStep DEF ApbNext

LEMMA ApbInvariant == ApbSpec => []ApbInv
BY ApbStart, ApbStep, PTL DEF ApbSpec

\* The rules of APB hold from each edge to the next, however the transfers of a
\* block follow each other and however long the slave takes.
THEOREM ApbRulesKept == ApbSpec => []ApbRules
<1>1. ApbInv => ApbRules
  BY DEF ApbInv
<1> QED BY <1>1, ApbInvariant, PTL

------------------------------------------------------------------------------
\* The driver is the one of BlockDriver.

LEMMA MemoryBytes ==
  ASSUME store \in [0 .. NumWords - 1 -> Word]
  PROVE  Memory \in [0 .. AddrSpace - 1 -> ByteValues]
<1>1. ASSUME NEW a \in Addrs PROVE store[a \div 4][a % 4] \in ByteValues
  <2>1. a \div 4 \in 0 .. NumWords - 1 /\ a % 4 \in Lanes
    BY SpaceAssumption DEF Addrs, NumWords, Lanes
  <2> QED BY <2>1 DEF Word
<1> QED BY <1>1 DEF Memory, Addrs

\* The strobes of a piece are the offsets of its bytes that are to be written.
LEMMA MaskOfPiece ==
  ASSUME ApbInv, phase # "none", call.op = "write", NEW x \in 0 .. PieceSize(call, at) - 1
  PROVE  x \in InitialMask(call) <=> at + x \in call.mask
<1>1. /\ call \in Calls /\ call.op = "write" /\ Len(call.data) \in Nat
      /\ at \in 0 .. Len(call.data) - 1 /\ call.addr \in Addrs
  BY CallUnderWay DEF ApbInv
<1>2. PieceSize(call, at) \in 1 .. Len(call.data) - at /\ x \in Lanes
  <2>1. /\ PieceSize(call, at) \in 1 .. Len(call.data) - at
        /\ AddrAt(call, at) % 4 \in 0 .. 3
        /\ (AddrAt(call, at) % 4) + PieceSize(call, at) <= 4
    BY CallUnderWay, PieceUnderWay DEF ApbInv
  <2> QED BY <1>1, <2>1 DEF Lanes
<1>3. CASE call.mask = 0 .. Len(call.data) - 1
  BY <1>1, <1>2, <1>3 DEF InitialMask
<1>4. CASE call.mask # 0 .. Len(call.data) - 1
  <2>1. at = 0
    BY <1>1, <1>4 DEF ApbInv, CallInv
  <2> QED BY <1>4, <2>1 DEF InitialMask
<1> QED BY <1>3, <1>4

\* A write that is taken stores the bytes of its piece, and nothing else.
LEMMA WriteTaken ==
  ASSUME ApbInv, NEW pready \in BOOLEAN, Edge(pready), Done(pready, store[WordAddr]),
         call.op = "write"
  PROVE  Promise!Store(at')
<1> DEFINE p    == AddrAt(call, at)
           off  == p % 4
           q    == p \div 4
           size == PieceSize(call, at)
           o(a) == (a + AddrSpace - call.addr) % AddrSpace
<1>1. /\ phase = "access" /\ pready /\ at' = at + size /\ done' = at'
      /\ Taken(pready) /\ bus = Access(call, at) /\ call' = call
  BY DoneStep, TakenIsReady DEF ApbInv, Edge
<1>2. /\ at \in Nat /\ size \in Nat /\ done = at
      /\ off \in 0 .. 3 /\ q \in 0 .. NumWords - 1 /\ p \in Nat /\ p = 4 * q + off
      /\ WordAddr = q /\ off + size <= 4
  <2>1. /\ call # NoCall /\ at \in Nat /\ size \in Nat /\ off \in 0 .. 3
        /\ q \in 0 .. NumWords - 1 /\ (p - off) \div 4 = q
        /\ p \in Addrs /\ off + size <= 4
    BY <1>1, CallUnderWay, PieceUnderWay DEF ApbInv
  <2>2. bus.paddr = p - off /\ done = at
    BY <1>1, <2>1, BusFields DEF ApbInv, CallInv
  <2>3. p \in Nat /\ p = 4 * q + off
    BY <2>1, SpaceAssumption DEF Addrs
  <2> QED BY <2>1, <2>2, <2>3 DEF WordAddr
<1>3. ASSUME NEW a \in Addrs
      PROVE  /\ o(a) \in at .. at + size - 1 <=> a \div 4 = q /\ (a % 4) - off \in 0 .. size - 1
             /\ o(a) \in at .. at + size - 1 => o(a) = at + ((a % 4) - off)
  <2>1. /\ o(a) \in at .. at + size - 1 => a = p + (o(a) - at)
        /\ a - p \in 0 .. size - 1 => o(a) = at + (a - p)
        /\ \A x \in 0 .. size - 1 : (p + x) \div 4 = q /\ (p + x) % 4 = off + x
    BY <1>1, CallUnderWay, PieceUnderWay DEF ApbInv
  <2>2. a \in Nat /\ a = 4 * (a \div 4) + (a % 4) /\ a \div 4 \in Nat /\ a % 4 \in 0 .. 3
    BY SpaceAssumption DEF Addrs
  <2> HIDE DEF p, q, off, size, o
  <2>3. ASSUME o(a) \in at .. at + size - 1
        PROVE  a \div 4 = q /\ (a % 4) - off \in 0 .. size - 1 /\ o(a) = at + ((a % 4) - off)
    <3> DEFINE x == o(a) - at
    <3>1. x \in 0 .. size - 1 /\ a = p + x /\ o(a) = at + x
      BY <1>2, <2>1, <2>3
    <3> HIDE DEF x
    <3>2. a \div 4 = q /\ a % 4 = off + x
      BY <2>1, <3>1
    <3>3. (a % 4) - off = x
      BY <1>2, <3>1, <3>2
    <3> QED BY <3>1, <3>2, <3>3
  <2>4. ASSUME a \div 4 = q, (a % 4) - off \in 0 .. size - 1
        PROVE  o(a) \in at .. at + size - 1
    <3>1. a - p = (a % 4) - off
      BY <1>2, <2>2, <2>4
    <3> QED BY <1>2, <2>1, <2>4, <3>1
  <2> QED BY <2>3, <2>4
<1>4. /\ store' = [store EXCEPT ![q] = [l \in Lanes |-> IF l \in WordStrb(call, at)
                                                         THEN WordData(call, at)[l] ELSE @[l]]]
      /\ store \in [0 .. NumWords - 1 -> Word]
  <2>1. bus.pwrite /\ bus.pwdata = WordData(call, at) /\ bus.pstrb = WordStrb(call, at)
    BY <1>1, BusFields
  <2> QED BY <1>1, <1>2, <2>1 DEF Edge, SlaveEdge, ApbInv
<1>5. ASSUME NEW a \in Addrs
      PROVE  Memory'[a] = IF o(a) \in Promise!Written(at') THEN call.data[o(a) + 1] ELSE Memory[a]
  <2> DEFINE l == a % 4
             x == l - off
  <2>1. Memory'[a] = store'[a \div 4][l] /\ Memory[a] = store[a \div 4][l] /\ l \in Lanes
    BY SpaceAssumption DEF Memory, Addrs, Lanes
  <2>2. o(a) \in Promise!Written(at') <=> o(a) \in at .. at + size - 1 /\ o(a) \in call.mask
    <3>1. done .. at' - 1 = at .. at + size - 1
      BY <1>1, <1>2
    <3> QED BY <3>1 DEF Promise!Written
  <2>3. l \in WordStrb(call, at) <=> x \in 0 .. size - 1 /\ x \in InitialMask(call)
    BY <2>1 DEF WordStrb
  <2>4. x \in 0 .. size - 1 => WordData(call, at)[l] = call.data[at + x + 1]
    BY <2>1 DEF WordData
  <2>5. x \in 0 .. size - 1 => (x \in InitialMask(call) <=> at + x \in call.mask)
    BY <1>1, MaskOfPiece
  <2>6. /\ o(a) \in at .. at + size - 1 <=> a \div 4 = q /\ x \in 0 .. size - 1
        /\ o(a) \in at .. at + size - 1 => o(a) = at + x
    BY <1>3
  <2>7. store'[a \div 4][l] = IF a \div 4 = q /\ l \in WordStrb(call, at)
                              THEN WordData(call, at)[l] ELSE store[a \div 4][l]
    <3>1. a \div 4 \in 0 .. NumWords - 1
      BY SpaceAssumption DEF Addrs, NumWords
    <3> HIDE DEF l, q
    <3> QED BY <1>2, <1>4, <2>1, <3>1
  <2> HIDE DEF l, x, q, size, o
  <2> QED BY <2>1, <2>2, <2>3, <2>4, <2>5, <2>6, <2>7
<1>6. Memory' = [a \in DOMAIN Memory |->
        IF Promise!OffsetOf(a) \in Promise!Written(at')
        THEN call.data[Promise!OffsetOf(a) + 1] ELSE Memory[a]]
  <2>1. DOMAIN Memory = Addrs /\ Memory' = [a \in Addrs |-> Memory'[a]]
    BY DEF Memory
  <2> QED BY <1>5, <2>1 DEF Promise!OffsetOf
<1>7. got' = got
  BY DEF Done
<1> QED BY <1>1, <1>6, <1>7 DEF Promise!Store

\* A read that is taken returns the bytes of its piece.
LEMMA ReadTaken ==
  ASSUME ApbInv, NEW pready \in BOOLEAN, Edge(pready), Done(pready, store[WordAddr]),
         call.op = "read"
  PROVE  Promise!Fetch(PieceSize(call, at))
<1> DEFINE p    == AddrAt(call, at)
           off  == p % 4
           size == PieceSize(call, at)
<1>1. /\ phase = "access" /\ pready /\ at' = at + size /\ at' \in 1 .. Len(call.data)
      /\ Taken(pready) /\ bus = Access(call, at) /\ call' = call
  BY DoneStep, TakenIsReady DEF ApbInv, Edge
<1>2. /\ call # NoCall /\ at \in Nat /\ size \in Nat /\ off \in 0 .. 3 /\ p \in Addrs
      /\ WordAddr = p \div 4 /\ p + size <= AddrSpace /\ Len(got) = at
      /\ \A x \in 0 .. size - 1 : /\ AddrAt(call, at + x) = p + x
                                  /\ (p + x) \div 4 = p \div 4
                                  /\ (p + x) % 4 = off + x
  <2>1. /\ call # NoCall /\ at \in Nat /\ size \in Nat /\ off \in 0 .. 3 /\ p \in Addrs
        /\ (p - off) \div 4 = p \div 4 /\ p + size <= AddrSpace
        /\ \A x \in 0 .. size - 1 : /\ AddrAt(call, at + x) = p + x
                                    /\ (p + x) \div 4 = p \div 4
                                    /\ (p + x) % 4 = off + x
    BY <1>1, CallUnderWay, PieceUnderWay DEF ApbInv
  <2>2. bus.paddr = p - off /\ Len(got) = at
    BY <1>1, <2>1, BusFields DEF ApbInv, CallInv
  <2> QED BY <2>1, <2>2 DEF WordAddr
<1>3. ASSUME NEW k \in 1 .. size
      PROVE  Memory[Promise!PlaceOf(Len(got) + k - 1)] = store[WordAddr][off + k - 1]
  <2> HIDE DEF size
  <2>1. k - 1 \in 0 .. size - 1 /\ Len(got) + k - 1 = at + (k - 1)
    BY <1>2
  <2>2. Promise!PlaceOf(Len(got) + k - 1) = p + (k - 1)
    BY <1>2, <2>1 DEF Promise!PlaceOf, AddrAt
  <2>3. p + (k - 1) \in Addrs
    <3> HIDE DEF p
    <3> QED BY <1>2, <2>1, SpaceAssumption DEF Addrs
  <2>4. Memory[p + (k - 1)] = store[(p + (k - 1)) \div 4][(p + (k - 1)) % 4]
    BY <2>3 DEF Memory
  <2>5. off + k - 1 = off + (k - 1)
    BY <1>2, <2>1
  <2> QED BY <1>2, <2>1, <2>2, <2>4, <2>5
<1>4. Bytes(store[WordAddr], at) = [k \in 1 .. size |-> Memory[Promise!PlaceOf(Len(got) + k - 1)]]
  BY <1>3 DEF Bytes
<1>5. got' = got \o Bytes(store[WordAddr], at)
  BY DEF Done
<1>6. store' = store /\ done' = done
  BY <1>1, BusFields DEF Edge, SlaveEdge
<1> QED BY <1>1, <1>2, <1>4, <1>5, <1>6 DEF Promise!Fetch, Memory

LEMMA ApbStepIsDriverStep ==
  ASSUME ApbInv, [ApbNext]_apbVars
  PROVE  [Promise!Next]_<<Memory, call, done, got>>
<1>1. CASE UNCHANGED apbVars
  BY <1>1 DEF apbVars, Memory
<1>2. ASSUME NEW c \in Calls, Begin(c) PROVE Promise!Next
  BY <1>2 DEF Begin, Promise!Next, Promise!Call, Promise!Idle, NoCall, Memory
<1>3. ASSUME Return PROVE Promise!Next
  <2>1. call # NoCall /\ call \in Calls /\ at = Len(call.data) /\ call' = NoCall
    BY <1>3 DEF Return, ApbInv, CallInv
  <2>2. \/ call.op = "write" /\ done = Len(call.data)
        \/ call.op = "read" /\ Len(got) = Len(call.data)
    BY <2>1, CallsAssumption DEF ApbInv, CallInv
  <2> QED BY <1>3, <2>1, <2>2 DEF Return, Promise!Next, Promise!Return, Promise!Idle, NoCall, Memory
<1>4. ASSUME NEW pready \in BOOLEAN, Edge(pready)
      PROVE  Promise!Next \/ UNCHANGED <<Memory, call, done, got>>
  <2>1. CASE phase = "access" /\ pready
    <3>1. Done(pready, store[WordAddr])
      BY <1>4, <2>1 DEF Edge, Paused, Enable, NotReady, Between
    <3>2. /\ call.op \in {"write", "read"} /\ at \in Nat /\ Len(call.data) \in Nat
          /\ PieceSize(call, at) \in 1 .. Len(call.data)
      <4>1. /\ call.op \in {"write", "read"} /\ at \in Nat /\ Len(call.data) \in Nat
            /\ PieceSize(call, at) \in 1 .. Len(call.data) - at
        BY <2>1, CallUnderWay, PieceUnderWay DEF ApbInv
      <4> QED BY <4>1
    <3>3. CASE call.op = "write"
      <4>1. at' = at + PieceSize(call, at) /\ at' \in 1 .. Len(call.data) /\ done = at
        BY <1>4, <2>1, <3>1, <3>3, DoneStep, CallUnderWay DEF ApbInv, CallInv
      <4>2. at' \in done + 1 .. Len(call.data)
        BY <3>2, <4>1
      <4> QED BY <1>4, <3>1, <3>3, <4>2, WriteTaken DEF Promise!Next
    <3>4. CASE call.op = "read"
      BY <1>4, <3>1, <3>2, <3>4, ReadTaken DEF Promise!Next
    <3> QED BY <3>2, <3>3, <3>4
  <2>2. CASE ~(phase = "access" /\ pready)
    <3>1. store' = store /\ done' = done /\ call' = call
      BY <1>4, <2>2, TakenIsReady DEF ApbInv, Edge, SlaveEdge
    <3>2. got' = got
      BY <1>4, <2>2 DEF Edge, Paused, Enable, NotReady, Done, Between
    <3> QED BY <3>1, <3>2 DEF Memory
  <2> QED BY <2>1, <2>2
<1> QED BY <1>1, <1>2, <1>3, <1>4 DEF ApbNext

\* The calls of the APB driver are calls on a memory of bytes: however a block
\* lies in its words, each byte that is to be written reaches its place and no
\* other place changes, and each byte that is read is the one stored there.
THEOREM ApbImplementsBlockDriver == ApbSpec => IsBlockDriver
<1>1. ApbInit => Promise!Init
  BY MemoryBytes DEF ApbInit, Promise!Init, Promise!Idle, NoCall
<1> QED
  BY <1>1, ApbInvariant, ApbStepIsDriverStep, PTL
  DEF IsBlockDriver, Promise!Spec, Promise!driverVars, ApbSpec

------------------------------------------------------------------------------
\* The signals by name, and what they hold.
Names == {"clk", "rst", "bus_m", "bus_s", "m_clk_in", "m_rst_in", "m_in", "m_out", "m_iterations"}

IsRequest(v) == v = [f \in DOMAIN NoRequest |-> v[f]]
IsAnswer(v)  == v = [f \in DOMAIN NoAnswer |-> v[f]]

SignalsOK(s) ==
  /\ s = [x \in Names |-> s[x]]
  /\ s.clk \in BOOLEAN /\ s.rst \in BOOLEAN /\ s.m_clk_in \in BOOLEAN /\ s.m_rst_in \in BOOLEAN
  /\ IsRequest(s.bus_m) /\ IsRequest(s.m_in)
  /\ IsAnswer(s.bus_s) /\ IsAnswer(s.m_out)

Processes == CThreads \union {"wrapper", "rtl"}

TypeInv ==
  /\ SignalsOK(sig) /\ SignalsOK(next)
  /\ runnable \subseteq Processes
  /\ lastClk \in BOOLEAN
  /\ edges \in 0 .. 2
  /\ pc = [p \in CThreads |-> pc[p]]
  /\ pc["reset"] \in {"start", "wait", "end"}

------------------------------------------------------------------------------
\* What lies between the clock and the design.

\* A copy is behind what it copies only while the one who copies is to run.
CopiesInv ==
  /\ "wrapper" \notin runnable =>
       /\ next.m_clk_in = sig.clk /\ next.m_rst_in = sig.rst
       /\ next.m_in = sig.bus_m /\ next.bus_s = sig.m_out
  /\ "rtl" \notin runnable => lastClk = sig.m_clk_in /\ next.m_out = RtlOut(rtl)

\* An edge passes from signal to signal, and only one is on its way.
ClockInv ==
  /\ sig.clk # next.clk => next.m_clk_in = sig.clk
  /\ next.m_clk_in # sig.clk => sig.clk = next.clk /\ sig.m_clk_in = next.m_clk_in
  /\ sig.m_clk_in # next.m_clk_in => sig.clk = next.clk /\ next.m_clk_in = sig.clk /\ lastClk = sig.m_clk_in
  /\ lastClk # sig.m_clk_in => /\ sig.clk = next.clk /\ next.m_clk_in = sig.clk
                               /\ sig.m_clk_in = next.m_clk_in
  /\ next.m_clk_in # sig.clk => lastClk = sig.m_clk_in
  /\ sig.clk # next.clk => sig.m_clk_in = sig.clk /\ lastClk = sig.clk

\* The clocked threads run in the delta cycle after the one in which the clock
\* rises.
Sampling == next.clk /\ sig.clk /\ ~sig.m_clk_in

\* Until then and from there to the rise of the design's clock, the design and
\* what it shows are what they were.
RiseInv ==
  /\ next.clk /\ ~sig.m_clk_in =>
       /\ "rtl" \notin runnable
       /\ sig.m_rst_in = sig.rst /\ next.m_rst_in = sig.rst
       /\ sig.m_in = sig.bus_m /\ next.m_in = sig.bus_m
       /\ sig.m_out = RtlOut(rtl) /\ sig.bus_s = RtlOut(rtl)
  /\ next.clk /\ ~sig.clk =>
       /\ runnable = {}
       /\ next.rst = sig.rst /\ next.bus_m = sig.bus_m
  /\ runnable \intersect CThreads # {} => Sampling

------------------------------------------------------------------------------
\* The threads.

\* A thread that has not started is waiting for the first edge.
NotStarted(p) ==
  /\ edges = 0 /\ ~sig.m_clk_in /\ ~lastClk
  /\ next.clk /\ sig.clk => p \in runnable

\* This edge is behind a thread, or still before it.
Passed(p)  == next.clk /\ sig.clk /\ ~lastClk /\ p \notin runnable
Ahead(p)   == next.clk /\ sig.clk /\ ~lastClk => p \in runnable

ResetInv ==
  /\ pc["reset"] = "start" => NotStarted("reset") /\ ~next.rst
  /\ pc["reset"] = "wait" =>
       next.rst /\ ((edges = 0 /\ Passed("reset")) \/ (edges = 1 /\ Ahead("reset")))
  /\ pc["reset"] = "end" =>
       ~next.rst /\ ((edges = 1 /\ Passed("reset")) \/ edges = 2) /\ "reset" \notin runnable

\* What is left to do for the test.
Begun == ran \in Nat /\ edges = 2 /\ m_enabled = 0

TestInv ==
  LET tb  == pc["testbench"]
      seq == pc["sequencer"]
  IN /\ tb \in {"start", "wait"} =>
          /\ m_enabled = 0 /\ m_completed = 0 /\ ran = 0
          /\ seq \in {"start", "blocked"}
     /\ seq = "start" => NotStarted("sequencer") /\ tb \in {"start", "wait"}
     /\ seq = "blocked" => "sequencer" \notin runnable
     /\ tb = "start" => NotStarted("testbench")
     /\ tb = "wait" => (edges = 0 /\ Passed("testbench")) \/ (edges = 1 /\ Ahead("testbench"))
     /\ tb \in {"blocked", "end"} => "testbench" \notin runnable
     /\ tb \in {"start", "wait", "blocked", "woken", "end"}
     /\ tb = "blocked" =>
          \/ /\ seq = "woken" /\ m_enabled = 1 /\ m_completed = 0 /\ ran = 0
             /\ next.m_iterations = Iterations
             /\ "sequencer" \in runnable => sig.m_iterations = Iterations
             /\ (edges = 1 /\ Passed("sequencer")) \/ edges = 2
          \/ /\ seq = "loop" /\ m_completed = 0 /\ Begun
             /\ \/ left = -1 /\ Iterations = -1
                \/ left \in Nat \ {0} /\ ran + left = Iterations
     /\ tb \in {"woken", "end"} =>
          /\ seq = "blocked" /\ Begun
          /\ Iterations # -1 /\ ran = IF Iterations > 0 THEN Iterations ELSE 0
          /\ m_completed = IF tb = "woken" THEN 1 ELSE 0

\* What the driver has done at the edge under way is what it may do at one.
DriveInv ==
  UnderWay =>
    \/ next.bus_m = sig.m_in /\ seen = sawBefore
    \/ /\ edges = 2
       /\ seen \in {sawBefore, {RtlOut(rtl)}}
       /\ next.bus_m \in MasterValues \union {sig.m_in}

ScInv == TypeInv /\ CopiesInv /\ ClockInv /\ RiseInv /\ ResetInv /\ TestInv /\ DriveInv

------------------------------------------------------------------------------
\* What a step does to the signals.

\* Each register of the design shows a value on every wire.
Answers == \A s : IsAnswer(RtlOut(s))

LEMMA Wires ==
  /\ IsRequest(NoRequest) /\ IsAnswer(NoAnswer)
  /\ \A v \in MasterValues : IsRequest(v)
  /\ \A v, w : IsRequest(v) /\ IsRequest(w) /\ Same(v, w) => v = w
  /\ \A v, w : IsAnswer(v) /\ IsAnswer(w) /\ Same(v, w) => v = w
<1>1. IsRequest(NoRequest) /\ IsAnswer(NoAnswer)
  BY DEF IsRequest, IsAnswer, NoRequest, NoAnswer, AllZero
<1>2. \A v \in MasterValues : IsRequest(v)
  BY DriverAssumption DEF IsRequest
<1>3. ASSUME NEW v, NEW w, IsRequest(v), IsRequest(w), Same(v, w)
      PROVE  v = w
  BY <1>3 DEF IsRequest, Same
<1>4. ASSUME NEW v, NEW w, IsAnswer(v), IsAnswer(w), Same(v, w)
      PROVE  v = w
  BY <1>4 DEF IsAnswer, Same
<1> QED BY <1>1, <1>2, <1>3, <1>4

LEMMA ChangedMeans ==
  ASSUME TypeInv
  PROVE  /\ \A x \in Names : Changed(x) <=> next[x] # sig[x]
         /\ DOMAIN sig = Names /\ DOMAIN next = Names
<1>1. DOMAIN sig = Names /\ DOMAIN next = Names
  BY Zenon DEF TypeInv, SignalsOK
<1>2. ASSUME NEW x \in Names \ Buses
      PROVE  Changed(x) <=> next[x] # sig[x]
  BY <1>2 DEF Changed
<1>3. ASSUME NEW x \in Buses
      PROVE  Changed(x) <=> next[x] # sig[x]
  <2>1. x \in {"bus_m", "m_in"} => IsRequest(next[x]) /\ IsRequest(sig[x])
    BY DEF TypeInv, SignalsOK
  <2>2. x \in {"bus_s", "m_out"} => IsAnswer(next[x]) /\ IsAnswer(sig[x])
    BY DEF TypeInv, SignalsOK
  <2>3. Same(next[x], sig[x]) <=> next[x] = sig[x]
    <3>1. Same(next[x], sig[x]) => next[x] = sig[x]
      BY <2>1, <2>2, Wires DEF Buses
    <3>2. next[x] = sig[x] => Same(next[x], sig[x])
      BY Zenon DEF Same
    <3> QED BY <3>1, <3>2
  <2> QED BY <2>3 DEF Changed
<1> QED BY <1>1, <1>2, <1>3

LEMMA UpdateMoves ==
  ASSUME TypeInv, Update
  PROVE  /\ sig' = next /\ next' = next /\ runnable = {}
         /\ "wrapper" \in runnable' <=> \E x \in {"clk", "rst", "bus_m", "m_out"} : next[x] # sig[x]
         /\ "rtl" \in runnable' <=> \E x \in {"m_clk_in", "m_rst_in", "m_in"} : next[x] # sig[x]
         /\ \A p \in CThreads : p \in runnable' <=> next.clk # sig.clk /\ next.clk /\ p \in Clocked
         /\ runnable' \subseteq Processes
<1>1. sig' = [x \in Names |-> IF Changed(x) THEN next[x] ELSE sig[x]]
  BY ChangedMeans DEF Update
<1>2. sig' = [x \in Names |-> next[x]]
  BY <1>1, ChangedMeans
<1>3. next = [x \in Names |-> next[x]]
  BY Zenon DEF TypeInv, SignalsOK
<1>4. Changes = {x \in Names : next[x] # sig[x]}
  BY ChangedMeans DEF Changes
<1>5. runnable' = UNION {Wakes(x) : x \in Changes}
  BY DEF Update
<1>6. \A p : p \in runnable' <=> \E x \in Names : next[x] # sig[x] /\ p \in Wakes(x)
  BY <1>4, <1>5
<1>7. \A x \in Names : Wakes(x) \subseteq Processes
  BY DEF Names, Wakes, Processes, Clocked
<1>8. \A x \in Names : "wrapper" \in Wakes(x) <=> x \in {"clk", "rst", "bus_m", "m_out"}
  BY DEF Names, Wakes, Clocked, CThreads
<1>9. \A x \in Names : "rtl" \in Wakes(x) <=> x \in {"m_clk_in", "m_rst_in", "m_in"}
  BY DEF Names, Wakes, Clocked, CThreads
<1>10. \A x \in Names, p \in CThreads : p \in Wakes(x) <=> x = "clk" /\ next.clk /\ p \in Clocked
  BY DEF Names, Wakes, Clocked, CThreads
<1>11. "wrapper" \in runnable' <=> \E x \in {"clk", "rst", "bus_m", "m_out"} : next[x] # sig[x]
  BY <1>6, <1>8 DEF Names
<1>12. "rtl" \in runnable' <=> \E x \in {"m_clk_in", "m_rst_in", "m_in"} : next[x] # sig[x]
  BY <1>6, <1>9 DEF Names
<1>13. \A p \in CThreads : p \in runnable' <=> next.clk # sig.clk /\ next.clk /\ p \in Clocked
  BY <1>6, <1>10 DEF Names
<1>14. runnable' \subseteq Processes
  BY <1>6, <1>7
<1> QED BY <1>2, <1>3, <1>11, <1>12, <1>13, <1>14 DEF Update

\* Nothing is under way when the clock moves.
LEMMA AdvanceMoves ==
  ASSUME TypeInv, CopiesInv, Advance
  PROVE  /\ runnable = {} /\ sig = next
         /\ next'.clk = ~sig.clk /\ \A x \in Names \ {"clk"} : next'[x] = next[x]
         /\ SignalsOK(next')
         /\ sig.m_clk_in = sig.clk /\ sig.m_rst_in = sig.rst /\ sig.m_in = sig.bus_m
         /\ sig.bus_s = sig.m_out /\ sig.m_out = RtlOut(rtl) /\ lastClk = sig.clk
<1>1. runnable = {} /\ Changes = {}
  BY DEF Advance
<1>2. \A x \in Names : next[x] = sig[x]
  BY <1>1, ChangedMeans DEF Changes
<1>3. sig = [x \in Names |-> sig[x]] /\ next = [x \in Names |-> next[x]]
  BY Zenon DEF TypeInv, SignalsOK
<1>4. sig = next
  BY <1>2, <1>3
<1>5. next'.clk = ~sig.clk /\ \A x \in Names \ {"clk"} : next'[x] = next[x]
  BY <1>3 DEF Advance, Names
<1>6. next' = [x \in Names |-> next'[x]]
  <2>1. next' = [next EXCEPT !["clk"] = ~sig.clk]
    BY Zenon DEF Advance
  <2> QED BY <1>3, <2>1
<1>7. SignalsOK(next')
  BY <1>5, <1>6 DEF TypeInv, SignalsOK, Names
<1> QED BY <1>1, <1>4, <1>5, <1>7 DEF CopiesInv

LEMMA WrapperMoves ==
  ASSUME TypeInv, Wrapper
  PROVE  /\ next'.m_clk_in = sig.clk /\ next'.m_rst_in = sig.rst
         /\ next'.m_in = sig.bus_m /\ next'.bus_s = sig.m_out
         /\ \A x \in {"clk", "rst", "bus_m", "m_out", "m_iterations"} : next'[x] = next[x]
         /\ SignalsOK(next')
<1>1. next' = [next EXCEPT !.m_clk_in = sig.clk, !.m_rst_in = sig.rst,
                           !.m_in = sig.bus_m, !.bus_s = sig.m_out]
  BY DEF Wrapper, AsyncOutputs
<1>2. next = [x \in Names |-> next[x]]
  BY Zenon DEF TypeInv, SignalsOK
<1>3. /\ next'.m_clk_in = sig.clk /\ next'.m_rst_in = sig.rst
      /\ next'.m_in = sig.bus_m /\ next'.bus_s = sig.m_out
      /\ \A x \in {"clk", "rst", "bus_m", "m_out", "m_iterations"} : next'[x] = next[x]
  BY <1>1, <1>2 DEF Names
<1>4. next' = [x \in Names |-> next'[x]]
  BY <1>1, <1>2
<1>5. SignalsOK(next')
  BY <1>3, <1>4 DEF TypeInv, SignalsOK, Names
<1> QED BY <1>3, <1>5

LEMMA RtlMoves ==
  ASSUME TypeInv, Rtl, Answers
  PROVE  /\ next'.m_out = RtlOut(rtl')
         /\ \A x \in Names \ {"m_out"} : next'[x] = next[x]
         /\ SignalsOK(next')
<1>1. next' = [next EXCEPT !.m_out = RtlOut(rtl')]
  BY DEF Rtl
<1>2. next = [x \in Names |-> next[x]]
  BY Zenon DEF TypeInv, SignalsOK
<1>3. next'.m_out = RtlOut(rtl') /\ \A x \in Names \ {"m_out"} : next'[x] = next[x]
  BY <1>1, <1>2 DEF Names
<1>4. next' = [x \in Names |-> next'[x]]
  BY <1>1, <1>2
<1>5. SignalsOK(next')
  BY <1>3, <1>4 DEF TypeInv, SignalsOK, Names, Answers
<1> QED BY <1>3, <1>5

\* A thread writes one signal at most.
LEMMA WriteMoves ==
  ASSUME SignalsOK(next), NEW y \in Names, NEW v, next' = [next EXCEPT ![y] = v],
         y = "rst" => v \in BOOLEAN, y = "bus_m" => IsRequest(v), y \in {"rst", "bus_m", "m_iterations"}
  PROVE  /\ next'[y] = v /\ \A x \in Names \ {y} : next'[x] = next[x]
         /\ SignalsOK(next')
<1>2. next = [x \in Names |-> next[x]]
  BY Zenon DEF SignalsOK
<1>3. next'[y] = v /\ \A x \in Names \ {y} : next'[x] = next[x]
  BY <1>2
<1>4. next' = [x \in Names |-> next'[x]]
  BY <1>2
<1>5. SignalsOK(next')
  BY <1>3, <1>4 DEF SignalsOK, Names
<1> QED BY <1>3, <1>5

------------------------------------------------------------------------------
\* The steps of the kernel, the wrapper and the design.

LEMMA UpdateInv ==
  ASSUME ScInv, Update
  PROVE  ScInv'
<1>0. /\ TypeInv /\ CopiesInv /\ ClockInv /\ RiseInv /\ ResetInv /\ TestInv /\ DriveInv
      /\ sig' = next /\ next' = next /\ runnable = {}
      /\ UNCHANGED <<pc, m_enabled, m_completed, left, lastClk, rtl, seen, sawBefore, edges, ran>>
  BY UpdateMoves DEF ScInv, Update, historyVars
<1>1. /\ SignalsOK(sig) /\ SignalsOK(next) /\ lastClk \in BOOLEAN
      /\ next.m_clk_in = sig.clk /\ next.m_rst_in = sig.rst /\ next.m_in = sig.bus_m
      /\ next.bus_s = sig.m_out /\ lastClk = sig.m_clk_in /\ next.m_out = RtlOut(rtl)
  BY <1>0 DEF CopiesInv, TypeInv
<1>2. /\ sig.clk \in BOOLEAN /\ next.clk \in BOOLEAN /\ sig.m_clk_in \in BOOLEAN /\ next.m_clk_in \in BOOLEAN
  BY <1>1 DEF SignalsOK
<1>3. /\ "wrapper" \in runnable' <=> \E x \in {"clk", "rst", "bus_m", "m_out"} : next[x] # sig[x]
      /\ "rtl" \in runnable' <=> \E x \in {"m_clk_in", "m_rst_in", "m_in"} : next[x] # sig[x]
      /\ \A p \in CThreads : p \in runnable' <=> next.clk # sig.clk /\ next.clk /\ p \in Clocked
      /\ runnable' \subseteq Processes
  BY <1>0, UpdateMoves
<1>4. TypeInv'
  BY <1>0, <1>3 DEF TypeInv
<1>5. CopiesInv'
  BY <1>0, <1>1, <1>3 DEF CopiesInv
<1>6. ClockInv'
  BY <1>0, <1>1, <1>2 DEF ClockInv
\* The clock alone has changed, if it has risen.
<1>7. next.clk /\ ~next.m_clk_in =>
        /\ sig.clk = FALSE /\ sig.m_clk_in = FALSE
        /\ next.rst = sig.rst /\ next.bus_m = sig.bus_m
        /\ next.m_rst_in = sig.m_rst_in /\ next.m_in = sig.m_in /\ next.m_clk_in = sig.m_clk_in
        /\ next.m_out = RtlOut(rtl) /\ next.bus_s = RtlOut(rtl)
  BY <1>0, <1>1, <1>2 DEF RiseInv, ClockInv
<1>8. RiseInv'
  <2>1. (next.clk /\ ~sig.m_clk_in =>
          /\ "rtl" \notin runnable
          /\ sig.m_rst_in = sig.rst /\ next.m_rst_in = sig.rst
          /\ sig.m_in = sig.bus_m /\ next.m_in = sig.bus_m
          /\ sig.m_out = RtlOut(rtl) /\ sig.bus_s = RtlOut(rtl))'
    BY <1>0, <1>1, <1>3, <1>7
  <2>2. (next.clk /\ ~sig.clk =>
          runnable = {} /\ next.rst = sig.rst /\ next.bus_m = sig.bus_m)'
    BY <1>0
  <2>3. (runnable \intersect CThreads # {} => Sampling)'
    BY <1>0, <1>1, <1>2, <1>3 DEF Sampling
  <2> QED BY <2>1, <2>2, <2>3 DEF RiseInv
\* A thread is before this edge from the rise of its clock on.
<1>9. \A p \in CThreads : NotStarted(p) /\ p \in Clocked => NotStarted(p)'
  BY <1>0, <1>1, <1>2, <1>3 DEF NotStarted, ClockInv
<1>10. \A p \in CThreads : Ahead(p) /\ p \in Clocked => Ahead(p)'
  BY <1>0, <1>1, <1>2, <1>3 DEF Ahead
<1>11. \A p \in CThreads : Passed(p) => Passed(p)'
  BY <1>0, <1>1, <1>2, <1>3 DEF Passed
<1>12. \A p \in CThreads : p \notin Clocked => p \notin runnable'
  BY <1>3
<1>13. \A p \in CThreads : p \in Clocked <=> pc[p] \notin {"blocked", "end"}
  BY DEF Clocked
<1>14. ResetInv'
  BY <1>0, <1>9, <1>10, <1>11, <1>12, <1>13 DEF ResetInv, CThreads
<1>15. TestInv'
  BY <1>0, <1>9, <1>10, <1>11, <1>12, <1>13 DEF TestInv, CThreads, Begun
<1>16. DriveInv'
  BY <1>0, <1>1 DEF DriveInv, UnderWay, RiseInv
<1> QED BY <1>4, <1>5, <1>6, <1>8, <1>14, <1>15, <1>16 DEF ScInv

LEMMA AdvanceInv ==
  ASSUME ScInv, Advance
  PROVE  ScInv'
<1>0. /\ TypeInv /\ CopiesInv /\ ClockInv /\ RiseInv /\ ResetInv /\ TestInv /\ DriveInv
      /\ UNCHANGED <<sig, runnable, pc, m_enabled, m_completed, left, lastClk, rtl, seen, edges, ran>>
      /\ sawBefore' = seen
  BY DEF ScInv, Advance
<1>1. /\ runnable = {} /\ sig = next
      /\ next'.clk = ~sig.clk /\ \A x \in Names \ {"clk"} : next'[x] = next[x]
      /\ SignalsOK(next')
      /\ sig.m_clk_in = sig.clk /\ sig.m_rst_in = sig.rst /\ sig.m_in = sig.bus_m
      /\ sig.bus_s = sig.m_out /\ sig.m_out = RtlOut(rtl) /\ lastClk = sig.clk
  BY <1>0, AdvanceMoves
<1>2. /\ next'.rst = next.rst /\ next'.bus_m = next.bus_m /\ next'.bus_s = next.bus_s
      /\ next'.m_clk_in = next.m_clk_in /\ next'.m_rst_in = next.m_rst_in /\ next'.m_in = next.m_in
      /\ next'.m_out = next.m_out /\ next'.m_iterations = next.m_iterations
  BY <1>1 DEF Names
<1>3. sig.clk \in BOOLEAN
  BY <1>0 DEF TypeInv, SignalsOK
<1>4. TypeInv'
  BY <1>0, <1>1 DEF TypeInv
<1>5. CopiesInv'
  BY <1>0, <1>1, <1>2 DEF CopiesInv
<1>6. ClockInv'
  BY <1>0, <1>1, <1>2, <1>3 DEF ClockInv
<1>7. RiseInv'
  BY <1>0, <1>1, <1>2, <1>3 DEF RiseInv
<1>8. \A p \in CThreads : NotStarted(p) => NotStarted(p)'
  BY <1>0, <1>1, <1>3 DEF NotStarted
<1>9. \A p \in CThreads : Ahead(p)' /\ ~Passed(p)
  BY <1>0, <1>1, <1>3 DEF Ahead, Passed
<1>10. ResetInv'
  BY <1>0, <1>1, <1>2, <1>8, <1>9 DEF ResetInv, CThreads
<1>11. TestInv'
  BY <1>0, <1>1, <1>2, <1>8, <1>9 DEF TestInv, CThreads, Begun
<1>12. DriveInv'
  BY <1>0, <1>1, <1>2 DEF DriveInv, UnderWay
<1> QED BY <1>4, <1>5, <1>6, <1>7, <1>10, <1>11, <1>12 DEF ScInv

LEMMA WrapperInv ==
  ASSUME ScInv, Wrapper
  PROVE  ScInv'
<1>0. /\ TypeInv /\ CopiesInv /\ ClockInv /\ RiseInv /\ ResetInv /\ TestInv /\ DriveInv
      /\ UNCHANGED <<sig, pc, m_enabled, m_completed, left, lastClk, rtl, seen, sawBefore, edges, ran>>
      /\ "wrapper" \in runnable /\ runnable' = runnable \ {"wrapper"}
  BY DEF ScInv, Wrapper, historyVars
<1>1. /\ next'.m_clk_in = sig.clk /\ next'.m_rst_in = sig.rst
      /\ next'.m_in = sig.bus_m /\ next'.bus_s = sig.m_out
      /\ next'.clk = next.clk /\ next'.rst = next.rst /\ next'.bus_m = next.bus_m
      /\ next'.m_out = next.m_out /\ next'.m_iterations = next.m_iterations
      /\ SignalsOK(next')
  BY <1>0, WrapperMoves
<1>2. /\ sig.clk \in BOOLEAN /\ next.clk \in BOOLEAN /\ sig.m_clk_in \in BOOLEAN /\ next.m_clk_in \in BOOLEAN
      /\ lastClk \in BOOLEAN
  BY <1>0 DEF TypeInv, SignalsOK
<1>3. \A p \in CThreads : p \in runnable' <=> p \in runnable
  BY <1>0 DEF CThreads
<1>4. TypeInv'
  BY <1>0, <1>1 DEF TypeInv
<1>5. CopiesInv'
  BY <1>0, <1>1 DEF CopiesInv
<1>6. ClockInv'
  BY <1>0, <1>1, <1>2 DEF ClockInv
<1>7. RiseInv'
  BY <1>0, <1>1, <1>2 DEF RiseInv, Sampling
<1>8. \A p \in CThreads : /\ NotStarted(p) => NotStarted(p)'
                          /\ Ahead(p) => Ahead(p)'
                          /\ Passed(p) => Passed(p)'
  BY <1>0, <1>1, <1>3 DEF NotStarted, Ahead, Passed
<1>9. ResetInv'
  BY <1>0, <1>1, <1>3, <1>8 DEF ResetInv, CThreads
<1>10. TestInv'
  BY <1>0, <1>1, <1>3, <1>8 DEF TestInv, CThreads, Begun
<1>11. DriveInv'
  BY <1>0, <1>1 DEF DriveInv, UnderWay
<1> QED BY <1>4, <1>5, <1>6, <1>7, <1>9, <1>10, <1>11 DEF ScInv

\* The design's clock has risen: every thread has run at this edge.
LEMMA AtRise ==
  ASSUME TypeInv, ClockInv, RiseInv, sig.m_clk_in, ~lastClk
  PROVE  /\ sig.clk /\ next.clk /\ next.m_clk_in
         /\ \A p \in CThreads : p \notin runnable /\ ~NotStarted(p) /\ ~Ahead(p) /\ Passed(p)
<1>1. /\ sig.clk \in BOOLEAN /\ next.clk \in BOOLEAN /\ sig.m_clk_in \in BOOLEAN /\ next.m_clk_in \in BOOLEAN
      /\ lastClk \in BOOLEAN
  BY DEF TypeInv, SignalsOK
<1>2. sig.clk /\ next.clk /\ next.m_clk_in
  BY <1>1 DEF ClockInv
<1>3. \A p \in CThreads : p \notin runnable
  BY DEF RiseInv, Sampling
<1> QED BY <1>2, <1>3 DEF NotStarted, Ahead, Passed

LEMMA RtlInv ==
  ASSUME ScInv, Rtl, Answers
  PROVE  ScInv'
<1> DEFINE rises == sig.m_clk_in /\ ~lastClk
<1>0. /\ TypeInv /\ CopiesInv /\ ClockInv /\ RiseInv /\ ResetInv /\ TestInv /\ DriveInv
      /\ UNCHANGED <<sig, pc, m_enabled, m_completed, left, seen, sawBefore, ran>>
      /\ "rtl" \in runnable /\ runnable' = runnable \ {"rtl"}
      /\ lastClk' = sig.m_clk_in
      /\ edges' = IF rises /\ edges < 2 THEN edges + 1 ELSE edges
      /\ ~rises => rtl' = rtl
  BY DEF ScInv, Rtl
<1>1. /\ next'.m_clk_in = next.m_clk_in /\ next'.m_rst_in = next.m_rst_in
      /\ next'.m_in = next.m_in /\ next'.bus_s = next.bus_s
      /\ next'.clk = next.clk /\ next'.rst = next.rst /\ next'.bus_m = next.bus_m
      /\ next'.m_out = RtlOut(rtl') /\ next'.m_iterations = next.m_iterations
      /\ SignalsOK(next')
  BY <1>0, RtlMoves DEF Names
<1>2. /\ sig.clk \in BOOLEAN /\ next.clk \in BOOLEAN /\ sig.m_clk_in \in BOOLEAN /\ next.m_clk_in \in BOOLEAN
      /\ lastClk \in BOOLEAN /\ edges \in 0 .. 2
  BY <1>0 DEF TypeInv, SignalsOK
<1>3. \A p \in CThreads : p \in runnable' <=> p \in runnable
  BY <1>0 DEF CThreads
<1>4. TypeInv'
  BY <1>0, <1>1, <1>2 DEF TypeInv
<1>5. CopiesInv'
  BY <1>0, <1>1 DEF CopiesInv
<1>6. ClockInv'
  BY <1>0, <1>1, <1>2 DEF ClockInv
<1>7. next.clk => sig.m_clk_in
  BY <1>0 DEF RiseInv
<1>8. RiseInv'
  <2>1. next.clk => sig.clk
    BY <1>0, <1>2, <1>7 DEF ClockInv, RiseInv
  <2>2. (runnable \intersect CThreads # {} => Sampling)'
    BY <1>0, <1>1, <1>3 DEF RiseInv, Sampling
  <2> QED BY <1>0, <1>1, <1>7, <2>1, <2>2 DEF RiseInv
<1>9. CASE rises
  <2>1. \A p \in CThreads : p \notin runnable /\ ~NotStarted(p) /\ ~Ahead(p) /\ Passed(p)
    BY <1>0, <1>9, AtRise
  <2>2. lastClk' = TRUE /\ \A p \in CThreads : Ahead(p)'
    BY <1>0, <1>9, <1>2 DEF Ahead
  <2>3. (edges = 0 => edges' = 1) /\ (edges = 1 => edges' = 2) /\ (edges = 2 => edges' = 2)
    BY <1>0, <1>2, <1>9
  <2>4. ResetInv'
    BY <1>0, <1>1, <1>3, <2>1, <2>2, <2>3 DEF ResetInv, CThreads
  <2>5. TestInv'
    BY <1>0, <1>1, <1>3, <2>1, <2>2, <2>3 DEF TestInv, CThreads, Begun
  <2>6. DriveInv'
    BY <2>2 DEF DriveInv, UnderWay
  <2> QED BY <1>4, <1>5, <1>6, <1>8, <2>4, <2>5, <2>6 DEF ScInv
<1>10. CASE ~rises
  <2>1. edges' = edges /\ rtl' = rtl
    BY <1>0, <1>10
  <2>2. next.clk => lastClk' = TRUE /\ lastClk = TRUE
    BY <1>0, <1>2, <1>7, <1>10
  <2>3. lastClk' = TRUE \/ lastClk' = FALSE
    BY <1>0, <1>2
  <2>4. \A p \in CThreads : /\ NotStarted(p) => NotStarted(p)'
                            /\ Ahead(p) => Ahead(p)'
                            /\ Passed(p) => Passed(p)'
    BY <1>0, <1>1, <1>3, <2>1, <2>2 DEF NotStarted, Ahead, Passed
  <2>5. ResetInv'
    BY <1>0, <1>1, <1>3, <2>1, <2>4 DEF ResetInv, CThreads
  <2>6. TestInv'
    BY <1>0, <1>1, <1>3, <2>1, <2>4 DEF TestInv, CThreads, Begun
  <2>7. DriveInv'
    BY <1>0, <1>1, <2>1, <2>2 DEF DriveInv, UnderWay
  <2> QED BY <1>4, <1>5, <1>6, <1>8, <2>5, <2>6, <2>7 DEF ScInv
<1> QED BY <1>9, <1>10

------------------------------------------------------------------------------
\* The clocked threads.

\* What a thread finds: it runs in the delta cycle in which the clock has risen.
LEMMA AtSample ==
  ASSUME TypeInv, ClockInv, RiseInv, NEW p \in CThreads, p \in runnable
  PROVE  /\ next.clk /\ sig.clk /\ ~sig.m_clk_in /\ lastClk = FALSE
         /\ "rtl" \notin runnable
         /\ sig.m_in = sig.bus_m /\ sig.bus_s = RtlOut(rtl)
         /\ Ahead(p) /\ ~Passed(p)
<1>1. /\ sig.clk \in BOOLEAN /\ next.clk \in BOOLEAN /\ sig.m_clk_in \in BOOLEAN /\ next.m_clk_in \in BOOLEAN
      /\ lastClk \in BOOLEAN
  BY DEF TypeInv, SignalsOK
<1>2. Sampling
  BY DEF RiseInv
<1>3. lastClk = FALSE
  BY <1>1, <1>2 DEF ClockInv, Sampling
<1> QED BY <1>2, <1>3 DEF RiseInv, Sampling, Ahead, Passed

\* What a thread may write leaves the kernel's part as it is.
LEMMA ThreadInv ==
  ASSUME TypeInv, CopiesInv, ClockInv, RiseInv, NEW p \in CThreads, p \in runnable,
         runnable' = runnable \ {p},
         UNCHANGED <<sig, lastClk, rtl>>, SignalsOK(next'),
         \A x \in Names \ {"rst", "bus_m", "m_iterations"} : next'[x] = next[x]
  PROVE  CopiesInv' /\ ClockInv' /\ RiseInv'
<1>1. /\ next'.m_clk_in = next.m_clk_in /\ next'.m_rst_in = next.m_rst_in
      /\ next'.m_in = next.m_in /\ next'.bus_s = next.bus_s
      /\ next'.clk = next.clk /\ next'.m_out = next.m_out
  BY DEF Names
<1>2. next.clk /\ sig.clk /\ ~sig.m_clk_in
  BY AtSample
<1>3. ("wrapper" \in runnable' <=> "wrapper" \in runnable) /\ ("rtl" \in runnable' <=> "rtl" \in runnable)
  BY DEF CThreads
<1>4. CopiesInv'
  BY <1>1, <1>3 DEF CopiesInv
<1>5. ClockInv'
  BY <1>1 DEF ClockInv
<1>6. RiseInv'
  BY <1>1, <1>2, <1>3 DEF RiseInv, Sampling
<1> QED BY <1>4, <1>5, <1>6

\* The other threads stand where they stood.
LEMMA OthersInv ==
  ASSUME TypeInv, ClockInv, RiseInv, NEW p \in CThreads, p \in runnable,
         runnable' = runnable \ {p}, UNCHANGED <<sig, lastClk, edges>>, next'.clk = next.clk
  PROVE  /\ \A q \in CThreads \ {p} : /\ q \in runnable' <=> q \in runnable
                                      /\ NotStarted(q) => NotStarted(q)'
                                      /\ Ahead(q) => Ahead(q)'
                                      /\ Passed(q) => Passed(q)'
         /\ Passed(p)' /\ p \notin runnable'
<1>1. next.clk /\ sig.clk /\ lastClk = FALSE
  BY AtSample
<1> QED BY <1>1 DEF NotStarted, Ahead, Passed

LEMMA ResetGenInv ==
  ASSUME ScInv, ResetGen
  PROVE  ScInv'
<1> DEFINE v == (pc["reset"] = "start")
<1>0. /\ TypeInv /\ CopiesInv /\ ClockInv /\ RiseInv /\ ResetInv /\ TestInv /\ DriveInv
      /\ UNCHANGED <<sig, m_enabled, m_completed, left, lastClk, rtl, seen, sawBefore, edges, ran>>
      /\ "reset" \in runnable /\ runnable' = runnable \ {"reset"}
      /\ next' = [next EXCEPT !["rst"] = v]
      /\ pc' = [pc EXCEPT !["reset"] = IF pc["reset"] = "start" THEN "wait" ELSE "end"]
  BY DEF ScInv, ResetGen, historyVars
<1>1. /\ next'.rst = v /\ \A x \in Names \ {"rst"} : next'[x] = next[x]
      /\ SignalsOK(next')
  <2>1. SignalsOK(next) /\ "rst" \in Names /\ v \in BOOLEAN
    BY <1>0 DEF TypeInv, Names
  <2> HIDE DEF v
  <2> QED BY <1>0, <2>1, WriteMoves
<1>2. /\ next'.clk = next.clk /\ next'.bus_m = next.bus_m /\ next'.m_iterations = next.m_iterations
      /\ \A x \in Names \ {"rst", "bus_m", "m_iterations"} : next'[x] = next[x]
  BY <1>1 DEF Names
<1>3. "reset" \in CThreads
  BY DEF CThreads
<1>4. /\ pc'["reset"] = IF pc["reset"] = "start" THEN "wait" ELSE "end"
      /\ pc'["testbench"] = pc["testbench"] /\ pc'["sequencer"] = pc["sequencer"]
      /\ pc' = [p \in CThreads |-> pc'[p]]
  BY <1>0 DEF TypeInv, CThreads
<1>5. TypeInv'
  BY <1>0, <1>1, <1>4 DEF TypeInv
<1>6. CopiesInv' /\ ClockInv' /\ RiseInv'
  BY <1>0, <1>1, <1>2, <1>3, ThreadInv
<1>7. /\ \A q \in CThreads \ {"reset"} : /\ q \in runnable' <=> q \in runnable
                                         /\ NotStarted(q) => NotStarted(q)'
                                         /\ Ahead(q) => Ahead(q)'
                                         /\ Passed(q) => Passed(q)'
      /\ Passed("reset")' /\ "reset" \notin runnable'
  BY <1>0, <1>2, <1>3, OthersInv
<1>8. ~Passed("reset")
  BY <1>0, <1>3, AtSample
<1>9. ResetInv'
  <2>1. pc["reset"] = "start" => edges = 0
    BY <1>0 DEF ResetInv, NotStarted
  <2> QED BY <1>0, <1>1, <1>4, <1>7, <1>8, <2>1 DEF ResetInv, TypeInv
<1>10. TestInv'
  BY <1>0, <1>2, <1>4, <1>7 DEF TestInv, CThreads, Begun
<1>11. DriveInv'
  BY <1>0, <1>2 DEF DriveInv, UnderWay
<1> QED BY <1>5, <1>6, <1>9, <1>10, <1>11 DEF ScInv

LEMMA TestbenchInv ==
  ASSUME ScInv, Testbench
  PROVE  ScInv'
<1>0. /\ TypeInv /\ CopiesInv /\ ClockInv /\ RiseInv /\ ResetInv /\ TestInv /\ DriveInv
      /\ UNCHANGED <<sig, left, lastClk, rtl, seen, sawBefore, edges, ran>>
      /\ "testbench" \in runnable /\ runnable' = runnable \ {"testbench"}
      /\ Process
  BY DEF ScInv, Testbench, historyVars
<1>1. "testbench" \in CThreads /\ pc = [p \in CThreads |-> pc[p]] /\ SignalsOK(next)
  BY <1>0 DEF CThreads, TypeInv
<1>2. ~Passed("testbench") /\ Ahead("testbench")
  BY <1>0, <1>1, AtSample
<1>3. CASE pc["testbench"] = "start" /\ FirstWait
  <2>1. next' = next /\ UNCHANGED <<m_enabled, m_completed>>
    BY <1>3 DEF FirstWait
  <2>2. /\ pc'["testbench"] = "wait" /\ pc'["reset"] = pc["reset"] /\ pc'["sequencer"] = pc["sequencer"]
        /\ pc' = [p \in CThreads |-> pc'[p]]
    BY <1>1, <1>3 DEF FirstWait, CThreads
  <2>3. TypeInv'
    BY <1>0, <2>1, <2>2 DEF TypeInv
  <2>4. CopiesInv' /\ ClockInv' /\ RiseInv'
    BY <1>0, <1>1, <2>1, ThreadInv
  <2>5. /\ \A q \in CThreads \ {"testbench"} : /\ q \in runnable' <=> q \in runnable
                                               /\ NotStarted(q) => NotStarted(q)'
                                               /\ Ahead(q) => Ahead(q)'
                                               /\ Passed(q) => Passed(q)'
        /\ Passed("testbench")' /\ "testbench" \notin runnable'
    BY <1>0, <1>1, <2>1, OthersInv
  <2>6. ResetInv'
    BY <1>0, <2>1, <2>2, <2>5 DEF ResetInv, CThreads
  <2>7. edges = 0
    BY <1>0, <1>3 DEF TestInv, NotStarted
  <2>8. TestInv'
    BY <1>0, <1>3, <2>1, <2>2, <2>5, <2>7 DEF TestInv, CThreads, Begun
  <2>9. DriveInv'
    BY <1>0, <2>1 DEF DriveInv, UnderWay
  <2> QED BY <2>3, <2>4, <2>6, <2>8, <2>9 DEF ScInv
<1>4. CASE pc["testbench"] = "wait" /\ StartTest
  <2>0. /\ edges = 1 /\ m_enabled = 0 /\ m_completed = 0 /\ ran = 0
        /\ pc["sequencer"] = "blocked" /\ "sequencer" \notin runnable
    BY <1>0, <1>2, <1>4 DEF TestInv, NotStarted
  <2>1. /\ next' = [next EXCEPT !["m_iterations"] = Iterations]
        /\ m_enabled' = 1 /\ m_completed' = 0
    BY <1>4, <2>0 DEF StartTest
  <2>2. pc' = [pc EXCEPT !["sequencer"] = "woken", !["testbench"] = "blocked"]
    BY <1>4, <2>0 DEF StartTest, Posted
  <2>3. /\ pc'["testbench"] = "blocked" /\ pc'["reset"] = pc["reset"] /\ pc'["sequencer"] = "woken"
        /\ pc' = [p \in CThreads |-> pc'[p]]
    BY <1>1, <2>2 DEF CThreads
  <2>4. /\ next'.m_iterations = Iterations /\ \A x \in Names \ {"m_iterations"} : next'[x] = next[x]
        /\ SignalsOK(next')
    <3>1. "m_iterations" \in Names
      BY DEF Names
    <3> QED BY <1>1, <2>1, <3>1, WriteMoves
  <2>5. /\ next'.clk = next.clk /\ next'.bus_m = next.bus_m /\ next'.rst = next.rst
        /\ \A x \in Names \ {"rst", "bus_m", "m_iterations"} : next'[x] = next[x]
    BY <2>4 DEF Names
  <2>6. TypeInv'
    BY <1>0, <2>3, <2>4 DEF TypeInv
  <2>7. CopiesInv' /\ ClockInv' /\ RiseInv'
    BY <1>0, <1>1, <2>4, <2>5, ThreadInv
  <2>8. /\ \A q \in CThreads \ {"testbench"} : /\ q \in runnable' <=> q \in runnable
                                               /\ NotStarted(q) => NotStarted(q)'
                                               /\ Ahead(q) => Ahead(q)'
                                               /\ Passed(q) => Passed(q)'
        /\ Passed("testbench")' /\ "testbench" \notin runnable'
    BY <1>0, <1>1, <2>5, OthersInv
  <2>9. ResetInv'
    BY <1>0, <2>3, <2>5, <2>8 DEF ResetInv, CThreads
  <2>10. Passed("sequencer")'
    BY <1>0, <2>0, <2>5, <2>8 DEF Passed, CThreads
  <2>11. TestInv'
    BY <1>0, <2>0, <2>1, <2>3, <2>4, <2>8, <2>10 DEF TestInv, CThreads
  <2>12. DriveInv'
    BY <1>0, <2>5 DEF DriveInv, UnderWay
  <2> QED BY <2>6, <2>7, <2>9, <2>11, <2>12 DEF ScInv
<1>5. CASE pc["testbench"] = "woken" /\ m_completed > 0 /\ Stop
  <2>0. m_completed = 1
    BY <1>0, <1>5 DEF TestInv
  <2>1. next' = next /\ m_completed' = 0 /\ UNCHANGED m_enabled
    BY <1>5, <2>0 DEF Stop
  <2>2. /\ pc'["testbench"] = "end" /\ pc'["reset"] = pc["reset"] /\ pc'["sequencer"] = pc["sequencer"]
        /\ pc' = [p \in CThreads |-> pc'[p]]
    BY <1>1, <1>5 DEF Stop, CThreads
  <2>3. TypeInv'
    BY <1>0, <2>1, <2>2 DEF TypeInv
  <2>4. CopiesInv' /\ ClockInv' /\ RiseInv'
    BY <1>0, <1>1, <2>1, ThreadInv
  <2>5. /\ \A q \in CThreads \ {"testbench"} : /\ q \in runnable' <=> q \in runnable
                                               /\ NotStarted(q) => NotStarted(q)'
                                               /\ Ahead(q) => Ahead(q)'
                                               /\ Passed(q) => Passed(q)'
        /\ Passed("testbench")' /\ "testbench" \notin runnable'
    BY <1>0, <1>1, <2>1, OthersInv
  <2>6. ResetInv'
    BY <1>0, <2>1, <2>2, <2>5 DEF ResetInv, CThreads
  <2>7. TestInv'
    BY <1>0, <1>5, <2>1, <2>2, <2>5 DEF TestInv, CThreads, Begun
  <2>8. DriveInv'
    BY <1>0, <2>1 DEF DriveInv, UnderWay
  <2> QED BY <2>3, <2>4, <2>6, <2>7, <2>8 DEF ScInv
<1> QED BY <1>0, <1>3, <1>4, <1>5 DEF Process

------------------------------------------------------------------------------
\* The test goes on with n iterations to go, after so many.

\* How the loop of the test goes on, without its calls.
Looping(n, count) ==
  \/ /\ n = -1 \/ n >= 1
     /\ pc'["sequencer"] = "loop" /\ pc'["testbench"] = pc["testbench"]
     /\ left' = n /\ m_completed' = m_completed /\ ran' = count
     /\ next'.bus_m \in MasterValues
  \/ /\ ~(n = -1 \/ n >= 1)
     /\ pc'["sequencer"] = "blocked" /\ pc'["testbench"] = Posted("testbench")
     /\ m_completed' = m_completed + 1 /\ ran' = count
     /\ next'.bus_m \in MasterValues \union {next.bus_m}

LEMMA GoOnMoves ==
  ASSUME TypeInv, NEW n, GoOn(n)
  PROVE  /\ Looping(n, ran')
         /\ pc'["reset"] = pc["reset"] /\ pc' = [p \in CThreads |-> pc'[p]]
         /\ \A x \in Names \ {"bus_m"} : next'[x] = next[x]
         /\ SignalsOK(next')
<1>1. pc = [p \in CThreads |-> pc[p]] /\ SignalsOK(next) /\ "bus_m" \in Names
  BY DEF TypeInv, Names
<1>2. CASE n = -1 \/ n >= 1
  <2>1. /\ pc' = [pc EXCEPT !["sequencer"] = "loop"]
        /\ left' = n /\ m_completed' = m_completed
    BY <1>2 DEF GoOn
  <2>2. PICK v \in MasterValues : next' = [next EXCEPT !["bus_m"] = v]
    BY <1>2 DEF GoOn
  <2>3. /\ next'.bus_m = v /\ \A x \in Names \ {"bus_m"} : next'[x] = next[x]
        /\ SignalsOK(next')
    <3>1. IsRequest(v)
      BY Wires
    <3> QED BY <1>1, <2>2, <3>1, WriteMoves
  <2>4. /\ pc'["sequencer"] = "loop" /\ pc'["testbench"] = pc["testbench"] /\ pc'["reset"] = pc["reset"]
        /\ pc' = [p \in CThreads |-> pc'[p]]
    BY <1>1, <2>1 DEF CThreads
  <2> QED BY <1>2, <2>1, <2>3, <2>4 DEF Looping
<1>3. CASE ~(n = -1 \/ n >= 1)
  <2>1. /\ pc' = [pc EXCEPT !["sequencer"] = "blocked", !["testbench"] = Posted("testbench")]
        /\ m_completed' = m_completed + 1
    BY <1>3 DEF GoOn
  <2> DEFINE v == IF BUS_APB /\ pc["sequencer"] = "loop" THEN NoRequest ELSE next.bus_m
  <2>3. next' = [next EXCEPT !["bus_m"] = v]
    BY <1>3, Zenon DEF GoOn
  <2>4. v \in MasterValues \union {next.bus_m} /\ IsRequest(v)
    <3>1. IsRequest(NoRequest) /\ IsRequest(next.bus_m)
      BY <1>1, Wires DEF SignalsOK
    <3> QED BY <3>1, DriverAssumption
  <2> HIDE DEF v
  <2>5. /\ next'.bus_m = v /\ \A x \in Names \ {"bus_m"} : next'[x] = next[x]
        /\ SignalsOK(next')
    BY <1>1, <2>3, <2>4, WriteMoves
  <2>2. /\ pc'["sequencer"] = "blocked" /\ pc'["testbench"] = Posted("testbench") /\ pc'["reset"] = pc["reset"]
        /\ pc' = [p \in CThreads |-> pc'[p]]
    BY <1>1, <2>1 DEF CThreads
  <2> QED BY <1>3, <2>1, <2>2, <2>4, <2>5 DEF Looping
<1> QED BY <1>2, <1>3

\* The first call, or the end of a test without any.
Starts ==
  /\ pc["sequencer"] = "woken" /\ m_enabled = 1 /\ m_enabled' = 0
  /\ GoOn(sig.m_iterations) /\ UNCHANGED <<seen, ran>>

LEMMA SequencerCases ==
  ASSUME ScInv, Sequencer
  PROVE  \/ /\ pc["sequencer"] = "start" /\ m_enabled = 0
            /\ Block /\ UNCHANGED <<m_enabled, seen, ran>>
         \/ Starts
         \/ InCall
<1>1. TestInv
  BY DEF ScInv
<1>2. pc["sequencer"] = "start" => m_enabled = 0
  BY <1>1 DEF TestInv
<1>3. pc["sequencer"] = "woken" => m_enabled = 1
  BY <1>1 DEF TestInv
<1> QED BY <1>2, <1>3 DEF Sequencer, Enabled, Starts

\* With n iterations to go after so many, the test has yet to run what it was asked.
ToGo(n, count) ==
  /\ count \in Nat
  /\ \/ n = -1 /\ Iterations = -1
     \/ n \in Nat /\ count + n = Iterations
     \/ n \in Int /\ n < -1 /\ n = Iterations /\ count = 0

LEMMA LoopingInv ==
  ASSUME ScInv, "sequencer" \in runnable, runnable' = runnable \ {"sequencer"},
         UNCHANGED <<sig, lastClk, rtl, sawBefore, edges>>,
         edges = 2, pc["testbench"] = "blocked", m_completed = 0, m_enabled' = 0,
         pc["sequencer"] # "start",
         NEW n, GoOn(n), ToGo(n, ran'),
         seen' \in {sawBefore, {RtlOut(rtl)}}
  PROVE  ScInv'
<1>0. /\ TypeInv /\ CopiesInv /\ ClockInv /\ RiseInv /\ ResetInv /\ TestInv /\ DriveInv
      /\ "sequencer" \in CThreads
  BY DEF ScInv, CThreads
<1>1. /\ Looping(n, ran')
      /\ pc'["reset"] = pc["reset"] /\ pc' = [p \in CThreads |-> pc'[p]]
      /\ \A x \in Names \ {"bus_m"} : next'[x] = next[x]
      /\ SignalsOK(next')
  BY <1>0, GoOnMoves
<1>2. /\ next'.clk = next.clk /\ next'.rst = next.rst /\ next'.m_iterations = next.m_iterations
      /\ \A x \in Names \ {"rst", "bus_m", "m_iterations"} : next'[x] = next[x]
  BY <1>1 DEF Names
<1>3. TypeInv'
  BY <1>0, <1>1 DEF TypeInv
<1>4. CopiesInv' /\ ClockInv' /\ RiseInv'
  BY <1>0, <1>1, <1>2, ThreadInv
<1>5. /\ \A q \in CThreads \ {"sequencer"} : /\ q \in runnable' <=> q \in runnable
                                             /\ NotStarted(q) => NotStarted(q)'
                                             /\ Ahead(q) => Ahead(q)'
                                             /\ Passed(q) => Passed(q)'
      /\ Passed("sequencer")' /\ "sequencer" \notin runnable'
  BY <1>0, <1>2, OthersInv
<1>6. ResetInv'
  BY <1>0, <1>1, <1>2, <1>5 DEF ResetInv, CThreads
<1>7. "testbench" \notin runnable'
  BY <1>0, <1>5 DEF TestInv, CThreads
<1>8. TestInv'
  <2>1. CASE /\ n = -1 \/ n >= 1
             /\ pc'["sequencer"] = "loop" /\ pc'["testbench"] = pc["testbench"]
             /\ left' = n /\ m_completed' = m_completed
    <3>1. (left' = -1 /\ Iterations = -1) \/ (left' \in Nat \ {0} /\ ran' + left' = Iterations)
      BY <2>1, IterationsAssumption DEF ToGo
    <3>2. Begun'
      BY DEF Begun, ToGo
    <3> QED BY <1>7, <2>1, <3>1, <3>2 DEF TestInv
  <2>2. CASE /\ ~(n = -1 \/ n >= 1)
             /\ pc'["sequencer"] = "blocked" /\ pc'["testbench"] = Posted("testbench")
             /\ m_completed' = m_completed + 1
    <3>1. Iterations # -1 /\ ran' = IF Iterations > 0 THEN Iterations ELSE 0
      BY <2>2, IterationsAssumption DEF ToGo
    <3>2. Begun'
      BY DEF Begun, ToGo
    <3>3. pc'["testbench"] = "woken"
      BY <2>2 DEF Posted
    <3> QED BY <1>5, <2>2, <3>1, <3>2, <3>3 DEF TestInv
  <2> QED BY <1>1, <2>1, <2>2 DEF Looping
<1>9. DriveInv'
  <2>1. next'.bus_m \in MasterValues \/ next'.bus_m = next.bus_m
    BY <1>1 DEF Looping
  <2>2. next.bus_m \in MasterValues \union {sig.m_in}
    <3>1. UnderWay
      BY <1>0, AtSample DEF UnderWay
    <3> QED BY <1>0, <3>1 DEF DriveInv
  <2> QED BY <2>1, <2>2 DEF DriveInv
<1> QED BY <1>3, <1>4, <1>6, <1>8, <1>9 DEF ScInv

LEMMA SequencerInv ==
  ASSUME ScInv, Sequencer
  PROVE  ScInv'
<1>0. /\ TypeInv /\ CopiesInv /\ ClockInv /\ RiseInv /\ ResetInv /\ TestInv /\ DriveInv
      /\ UNCHANGED <<sig, lastClk, rtl, sawBefore, edges>>
      /\ "sequencer" \in runnable /\ runnable' = runnable \ {"sequencer"}
      /\ "sequencer" \in CThreads
  BY DEF ScInv, Sequencer, CThreads
<1>1. /\ next.clk /\ sig.clk /\ lastClk = FALSE
      /\ sig.m_in = sig.bus_m /\ sig.bus_s = RtlOut(rtl)
      /\ ~Passed("sequencer")
  BY <1>0, AtSample
<1>2. CASE /\ pc["sequencer"] = "start" /\ m_enabled = 0
           /\ Block /\ UNCHANGED <<m_enabled, seen, ran>>
  <2>1. next' = next /\ UNCHANGED <<m_enabled, m_completed, left, seen, ran>>
    BY <1>2 DEF Block
  <2>2. /\ pc'["sequencer"] = "blocked" /\ pc'["reset"] = pc["reset"] /\ pc'["testbench"] = pc["testbench"]
        /\ pc' = [p \in CThreads |-> pc'[p]]
    BY <1>0, <1>2 DEF Block, CThreads, TypeInv
  <2>3. TypeInv'
    BY <1>0, <2>1, <2>2 DEF TypeInv
  <2>4. SignalsOK(next)
    BY <1>0 DEF TypeInv
  <2>5. CopiesInv' /\ ClockInv' /\ RiseInv'
    BY <1>0, <2>1, <2>4, ThreadInv
  <2>6. /\ \A q \in CThreads \ {"sequencer"} : /\ q \in runnable' <=> q \in runnable
                                               /\ NotStarted(q) => NotStarted(q)'
                                               /\ Ahead(q) => Ahead(q)'
                                               /\ Passed(q) => Passed(q)'
        /\ Passed("sequencer")' /\ "sequencer" \notin runnable'
    BY <1>0, <2>1, OthersInv
  <2>7. ResetInv'
    BY <1>0, <2>1, <2>2, <2>6 DEF ResetInv, CThreads
  <2>8. TestInv'
    BY <1>0, <1>2, <2>1, <2>2, <2>6 DEF TestInv, CThreads
  <2>9. DriveInv'
    BY <1>0, <2>1 DEF DriveInv, UnderWay
  <2> QED BY <2>3, <2>5, <2>7, <2>8, <2>9 DEF ScInv
<1>3. CASE Starts
  <2>1. /\ pc["sequencer"] = "woken" /\ m_enabled' = 0 /\ GoOn(sig.m_iterations)
        /\ seen' = seen /\ ran' = ran
    BY <1>3 DEF Starts
  <2>2. /\ pc["testbench"] = "blocked" /\ m_completed = 0 /\ ran = 0 /\ edges = 2
        /\ sig.m_iterations = Iterations
    BY <1>0, <1>1, <2>1 DEF TestInv
  <2>3. ToGo(sig.m_iterations, ran')
    BY <2>1, <2>2, IterationsAssumption DEF ToGo
  <2>4. seen' \in {sawBefore, {RtlOut(rtl)}}
    BY <1>0, <1>1, <2>1 DEF DriveInv, UnderWay
  <2> QED BY <1>0, <2>1, <2>2, <2>3, <2>4, LoopingInv
<1>4. CASE InCall
  <2>1. pc["sequencer"] = "loop" /\ m_enabled' = m_enabled /\ seen' = {RtlOut(rtl)}
    BY <1>1, <1>4 DEF InCall
  <2>2. /\ pc["testbench"] = "blocked" /\ m_completed = 0 /\ Begun
        /\ (left = -1 /\ Iterations = -1) \/ (left \in Nat \ {0} /\ ran + left = Iterations)
    BY <1>0, <2>1 DEF TestInv
  <2>3. m_enabled' = 0 /\ edges = 2 /\ ran \in Nat
    BY <2>1, <2>2 DEF Begun
  <2>4. PICK n : GoOn(n) /\ (\/ n = left /\ ran' = ran
                             \/ n = (IF left = -1 THEN -1 ELSE left - 1) /\ ran' = ran + 1)
    BY <1>4 DEF InCall
  <2>5. ToGo(n, ran')
    BY <2>2, <2>3, <2>4 DEF ToGo
  <2> QED BY <1>0, <2>1, <2>2, <2>3, <2>4, <2>5, LoopingInv
<1> QED BY <1>2, <1>3, <1>4, SequencerCases

LEMMA ScInitInv == ScInit => ScInv
<1> SUFFICES ASSUME ScInit PROVE ScInv
  OBVIOUS
<1>0. /\ sig = Signals /\ next = Signals /\ runnable = {"wrapper", "rtl"}
      /\ pc = [p \in CThreads |-> "start"] /\ m_enabled = 0 /\ m_completed = 0 /\ lastClk = FALSE
      /\ seen = {} /\ sawBefore = {} /\ edges = 0 /\ ran = 0
  BY DEF ScInit
<1>1. /\ sig.clk = FALSE /\ sig.rst = FALSE /\ sig.m_clk_in = FALSE /\ sig.m_rst_in = FALSE
      /\ sig.bus_m = NoRequest /\ sig.m_in = NoRequest /\ sig.bus_s = NoAnswer /\ sig.m_out = NoAnswer
      /\ next.clk = FALSE /\ next.rst = FALSE /\ next.m_clk_in = FALSE /\ next.m_rst_in = FALSE
      /\ next.bus_m = NoRequest /\ next.m_in = NoRequest
  BY <1>0 DEF Signals
<1>2. SignalsOK(sig) /\ sig = next
  <2>1. sig = [x \in Names |-> sig[x]]
    BY <1>0 DEF Signals, Names
  <2>2. IsRequest(NoRequest) /\ IsAnswer(NoAnswer)
    BY Wires
  <2>3. SignalsOK(sig)
    BY <1>1, <2>1, <2>2 DEF SignalsOK
  <2> QED BY <1>0, <2>3
<1>3. /\ pc["reset"] = "start" /\ pc["testbench"] = "start" /\ pc["sequencer"] = "start"
      /\ pc = [p \in CThreads |-> pc[p]]
  BY <1>0 DEF CThreads
<1>4. TypeInv
  <2>1. SignalsOK(next) /\ runnable \subseteq Processes /\ edges \in 0 .. 2
    BY <1>0, <1>2 DEF Processes
  <2> QED BY <1>0, <1>2, <1>3, <2>1 DEF TypeInv
<1>5. CopiesInv /\ ClockInv
  BY <1>0, <1>1 DEF CopiesInv, ClockInv
<1>6. RiseInv
  BY <1>0, <1>1 DEF RiseInv, CThreads
<1>7. ResetInv
  BY <1>0, <1>1, <1>3 DEF ResetInv, NotStarted
<1>8. TestInv
  BY <1>0, <1>1, <1>3 DEF TestInv, NotStarted
<1>9. DriveInv
  BY <1>1 DEF DriveInv, UnderWay
<1> QED BY <1>4, <1>5, <1>6, <1>7, <1>8, <1>9 DEF ScInv

LEMMA ScStep == ASSUME ScInv, [ScNext]_scVars, Answers PROVE ScInv'
<1>1. CASE UNCHANGED scVars
  <2>1. UNCHANGED <<sig, next, runnable, pc, m_enabled, m_completed, left, lastClk, rtl,
                    seen, sawBefore, edges, ran>>
    BY <1>1 DEF scVars, historyVars
  <2>2. TypeInv' /\ CopiesInv' /\ ClockInv' /\ DriveInv'
    BY <2>1 DEF ScInv, TypeInv, CopiesInv, ClockInv, DriveInv, UnderWay
  <2>3. RiseInv'
    BY <2>1 DEF ScInv, RiseInv, Sampling
  <2>4. ResetInv' /\ TestInv'
    BY <2>1 DEF ScInv, ResetInv, TestInv, NotStarted, Passed, Ahead, Begun
  <2> QED BY <2>2, <2>3, <2>4 DEF ScInv
<1>2. CASE ScNext
  BY <1>2, UpdateInv, AdvanceInv, WrapperInv, RtlInv, ResetGenInv, TestbenchInv, SequencerInv, Zenon DEF ScNext
<1> QED BY <1>1, <1>2

\* The inductive invariant of the simulation: every copy of a signal is behind
\* only while who copies it is to run, one edge of the clock at a time is on its
\* way to the design, and every clocked thread runs before it gets there.
THEOREM AlwaysScInv == ASSUME Answers PROVE ScSpec => []ScInv
<1>1. ScInv /\ [ScNext]_scVars => ScInv'
  BY ScStep
<1> QED BY <1>1, ScInitInv, PTL DEF ScSpec

\* The testbench stops after exactly the iterations it was asked for, whatever
\* that int is: the sequencer reads m_iterations one edge after it is woken, when
\* the number start() wrote is there.
THEOREM AlwaysRunsAll == ASSUME Answers PROVE ScSpec => []RunsAll
<1>1. ScInv => RunsAll
  BY Zenon DEF ScInv, TestInv, RunsAll
<1> QED BY <1>1, AlwaysScInv, PTL

------------------------------------------------------------------------------
\* The driver and the design of SyncBus: what the edge under way is about.

BusReset == IF UnderWay THEN sig.m_rst_in ELSE next.rst
BusOut   == IF UnderWay THEN sig.m_in ELSE next.bus_m
BusSeen  == IF UnderWay THEN sawBefore ELSE seen

LEMMA SyncStart == ScInit => Sync!Init
<1> SUFFICES ASSUME ScInit PROVE Sync!Init
  OBVIOUS
<1>1. /\ next.clk = FALSE /\ next.rst = FALSE /\ next.bus_m = NoRequest
      /\ seen = {} /\ edges = 0 /\ rtl = Unknown
  BY DEF ScInit, Signals
<1> QED BY <1>1 DEF Sync!Init, UnderWay

\* A step in which the design's clock does not rise changes nothing of it.
LEMMA SilentStep ==
  ASSUME UNCHANGED <<edges, rtl, BusReset, BusOut, BusSeen>>
  PROVE  UNCHANGED Sync!syncVars
BY DEF Sync!syncVars, BusReset, BusOut, BusSeen

LEMMA SyncStep ==
  ASSUME ScInv, ScInv', [ScNext]_scVars, Answers
  PROVE  [Sync!Edge]_(Sync!syncVars)
<1>0. /\ TypeInv /\ CopiesInv /\ ClockInv /\ RiseInv /\ ResetInv /\ TestInv /\ DriveInv
      /\ sig.clk \in BOOLEAN /\ next.clk \in BOOLEAN /\ sig.m_clk_in \in BOOLEAN /\ next.m_clk_in \in BOOLEAN
      /\ lastClk \in BOOLEAN
  BY DEF ScInv, TypeInv, SignalsOK
<1>1. CASE Update
  <2>1. /\ sig' = next /\ next' = next /\ runnable = {}
        /\ UNCHANGED <<rtl, lastClk, edges, seen, sawBefore>>
    BY <1>0, <1>1, UpdateMoves DEF Update, historyVars
  <2>2. UnderWay => next.m_rst_in = sig.m_rst_in /\ next.m_in = sig.m_in
    <3>1. lastClk = sig.m_clk_in
      BY <1>0, <2>1 DEF CopiesInv
    <3> QED BY <1>0, <3>1 DEF UnderWay, RiseInv
  <2>3. UNCHANGED <<edges, rtl, BusReset, BusOut, BusSeen>>
    BY <2>1, <2>2 DEF BusReset, BusOut, BusSeen, UnderWay
  <2> QED BY <2>3, SilentStep
<1>2. CASE Advance
  <2>1. /\ UNCHANGED <<sig, rtl, lastClk, edges, seen>> /\ sawBefore' = seen
        /\ next'.rst = next.rst /\ next'.bus_m = next.bus_m /\ next'.clk = ~sig.clk
        /\ sig.m_rst_in = next.rst /\ sig.m_in = next.bus_m /\ lastClk = sig.clk /\ next.clk = sig.clk
    BY <1>0, <1>2, AdvanceMoves DEF Advance, Names
  <2>2. UNCHANGED <<edges, rtl, BusReset, BusOut, BusSeen>>
    BY <1>0, <2>1 DEF BusReset, BusOut, BusSeen, UnderWay
  <2> QED BY <2>2, SilentStep
<1>3. CASE Wrapper
  <2>1. /\ UNCHANGED <<sig, rtl, lastClk, edges, seen, sawBefore>>
        /\ next'.rst = next.rst /\ next'.bus_m = next.bus_m /\ next'.clk = next.clk
    BY <1>0, <1>3, WrapperMoves DEF Wrapper, historyVars
  <2>2. UNCHANGED <<edges, rtl, BusReset, BusOut, BusSeen>>
    BY <2>1 DEF BusReset, BusOut, BusSeen, UnderWay
  <2> QED BY <2>2, SilentStep
<1>4. CASE Rtl /\ ~(sig.m_clk_in /\ ~lastClk)
  <2>1. /\ UNCHANGED <<sig, rtl, edges, seen, sawBefore>> /\ lastClk' = sig.m_clk_in
        /\ next'.rst = next.rst /\ next'.bus_m = next.bus_m /\ next'.clk = next.clk
    BY <1>0, <1>4, RtlMoves DEF Rtl, Names
  <2>2. UnderWay' <=> UnderWay
    BY <1>0, <1>4, <2>1 DEF UnderWay, ClockInv
  <2>3. UNCHANGED <<edges, rtl, BusReset, BusOut, BusSeen>>
    BY <2>1, <2>2 DEF BusReset, BusOut, BusSeen
  <2> QED BY <2>3, SilentStep
<1>5. CASE Rtl /\ sig.m_clk_in /\ ~lastClk
  <2>1. /\ next'.rst = next.rst /\ next'.bus_m = next.bus_m /\ next'.clk = next.clk
        /\ lastClk' = TRUE /\ UNCHANGED <<sig, seen, sawBefore>>
        /\ rtl' = IF sig.m_rst_in THEN RtlReset ELSE RtlStep(rtl, sig.m_in)
        /\ edges' = IF edges < 2 THEN edges + 1 ELSE edges
    BY <1>0, <1>5, RtlMoves DEF Rtl, Names
  <2>2. /\ next.clk /\ \A p \in CThreads : p \notin runnable /\ ~NotStarted(p) /\ ~Ahead(p)
    BY <1>0, <1>5, AtRise
  <2>3. UnderWay /\ ~UnderWay'
    BY <1>5, <2>1, <2>2 DEF UnderWay
  <2>4. /\ BusReset = sig.m_rst_in /\ BusOut = sig.m_in /\ BusSeen = sawBefore
        /\ BusReset' = next.rst /\ BusOut' = next.bus_m /\ BusSeen' = seen
    BY <2>1, <2>3 DEF BusReset, BusOut, BusSeen
  <2>5. edges' = IF edges = 2 THEN 2 ELSE edges + 1
    BY <1>0, <2>1 DEF TypeInv
  <2>6. next.rst = (edges = 0)
    <3>1. next.rst \in BOOLEAN /\ pc["reset"] \in {"start", "wait", "end"}
      BY <1>0 DEF TypeInv, SignalsOK
    <3> QED BY <1>0, <2>2, <3>1 DEF ResetInv, CThreads
  <2>7. \/ next.bus_m = sig.m_in /\ seen = sawBefore
        \/ /\ edges = 2
           /\ seen \in {sawBefore, {RtlOut(rtl)}}
           /\ next.bus_m \in MasterValues \union {sig.m_in}
    BY <1>0, <2>3 DEF DriveInv
  <2>8. Sync!Drive
    BY <2>4, <2>7 DEF Sync!Drive, BusOut, BusSeen
  <2>9. Sync!Edge
    BY <2>1, <2>4, <2>5, <2>6, <2>8 DEF Sync!Edge, BusReset, BusOut
  <2> QED BY <2>9
\* A thread runs while the edge is under way.
<1>6. ASSUME NEW p \in CThreads, p \in runnable, UNCHANGED <<sig, rtl, lastClk, edges, sawBefore>>, next'.clk = next.clk
      PROVE  UNCHANGED <<edges, rtl, BusReset, BusOut, BusSeen>>
  <2>1. UnderWay
    BY <1>0, <1>6, AtSample DEF UnderWay
  <2> QED BY <1>6, <2>1 DEF BusReset, BusOut, BusSeen, UnderWay
<1>7. SignalsOK(next) /\ "reset" \in CThreads /\ "testbench" \in CThreads /\ "sequencer" \in CThreads
  BY <1>0 DEF TypeInv, CThreads
<1>8. next = [x \in Names |-> next[x]]
  BY <1>7, Zenon DEF SignalsOK
<1>9. CASE ResetGen
  <2>1. next'.clk = next.clk
    BY <1>8, <1>9 DEF ResetGen, Names
  <2> QED BY <1>6, <1>7, <1>9, <2>1, SilentStep DEF ResetGen, historyVars
<1>10. CASE Testbench
  <2>1. next'.clk = next.clk
    BY <1>8, <1>10 DEF Testbench, Process, FirstWait, StartTest, Stop, Names
  <2> QED BY <1>6, <1>7, <1>10, <2>1, SilentStep DEF Testbench, historyVars
<1>11. CASE Sequencer
  <2>1. ASSUME NEW n, GoOn(n) PROVE next'.clk = next.clk
    BY <1>0, <2>1, GoOnMoves DEF Names
  <2>2. next'.clk = next.clk
    BY <1>11, <2>1, SequencerCases DEF Block, Starts, InCall
  <2> QED BY <1>6, <1>7, <1>11, <2>2, SilentStep DEF Sequencer
<1>12. CASE UNCHANGED scVars
  <2>1. UNCHANGED <<edges, rtl, BusReset, BusOut, BusSeen>>
    BY <1>12 DEF scVars, historyVars, BusReset, BusOut, BusSeen, UnderWay
  <2> QED BY <2>1, SilentStep
<1> QED BY <1>1, <1>2, <1>3, <1>4, <1>5, <1>9, <1>10, <1>11, <1>12 DEF ScNext

\* Every order of the processes gives the simulation of a driver and a design on
\* one clock: neither sees at an edge what the other puts out at that edge, and
\* the design is in reset at its first edge and never again.
THEOREM AlwaysSynchronous == ASSUME Answers PROVE ScSpec => IsSynchronous
<1>1. ScInv /\ ScInv' /\ [ScNext]_scVars => [Sync!Edge]_(Sync!syncVars)
  BY SyncStep
<1> QED BY <1>1, SyncStart, AlwaysScInv, PTL DEF ScSpec, IsSynchronous, Sync!Spec

==============================================================================
