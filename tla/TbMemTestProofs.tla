---------------------------- MODULE TbMemTestProofs ----------------------------
(***************************************************************************)
(* Proofs about TbMemTest, for every set of regions, every length and any   *)
(* data: its assertions hold on a driver that keeps its promise.            *)
(***************************************************************************)
EXTENDS TbMemTest, SequenceTheorems, WellFoundedInduction, TLAPS

ByteArrays == UNION {[0 .. n - 1 -> ByteValues] : n \in Nat}

\* A region lies in the address space, and its array has its size.
Region ==
  {r \in [base : Nat, size : Nat, cells : ByteArrays] :
     /\ r.base + r.size < AddrSpace
     /\ r.size > 4 => r.base % 4 = 0
     /\ r.cells \in [0 .. r.size - 1 -> ByteValues]}

\* A block of n bytes at a lies in a region, and ends before its last byte.
Inside(a, n) ==
  \E i \in DOMAIN regions : a >= regions[i].base /\ a - regions[i].base + n < regions[i].size

\* What is under way, and how far.
CallInv ==
  /\ phase \in {"setup", "loop", "written", "read", "blockRead", "completed"}
  /\ phase \in {"setup", "loop", "completed"} => call = Idle
  /\ phase = "written" => call \in {Idle, WriteBlock(addr, buffer)}
  /\ phase \in {"read", "blockRead"} => call \in {Idle, ReadBlock(addr, length)}

\* The bytes of a block that is written come back, as soon as the driver has
\* stored them; those of a block that is read are the ones stored.
BlockInv ==
  /\ phase \in {"written", "read", "blockRead"} =>
       addr \in Nat /\ length \in Nat \ {0} /\ Inside(addr, length)
  /\ phase \in {"written", "read"} => buffer = ReadBytes(addr, length)
  /\ phase = "written" /\ call # Idle => done \in 0 .. length
  /\ phase \in {"read", "blockRead"} =>
       /\ Len(got) \in 0 .. length
       /\ \A k \in 1 .. Len(got) : got[k] = ReadByte(addr + k - 1)
       /\ call = Idle => Len(got) = length

\* Still to be stored.
OnItsWay(a) == phase = "written" /\ call # Idle /\ a - addr \in done .. length - 1

\* The memory under test holds what the reference memory holds.
MemoriesAgree ==
  /\ phase = "setup" => \A i \in DOMAIN regions : \A o \in DOMAIN regions[i].cells : regions[i].cells[o] = 0
  /\ phase = "setup" => \A a \in Addrs : memory[a] = 0
  /\ \A a \in Addrs : valid_addr(a) /\ ~OnItsWay(a) => memory[a] = ReadByte(a)

MemTestInv ==
  /\ regions \in Seq(Region)
  /\ memory \in [Addrs -> ByteValues]
  /\ got \in Seq(ByteValues)
  /\ CallInv
  /\ BlockInv
  /\ MemoriesAgree

------------------------------------------------------------------------------
\* The reference memory.

LEMMA MinIsElement == ASSUME NEW S \in SUBSET Nat, S # {} PROVE Min(S) \in S
<1>1. IsWellFoundedOn(OpToRel(<, Nat), Nat)
  BY NatLessThanWellFounded
<1> DEFINE R == OpToRel(<, Nat)
<1>2. \A x, y \in Nat : <<x, y>> \in R <=> x < y
  BY DEF OpToRel
<1> HIDE DEF R
<1>3. PICK x \in S : \A y \in S : ~(<<y, x>> \in R)
  BY <1>1, WFMin DEF R
<1>4. \A y \in S : x =< y
  <2> TAKE y \in S
  <2>1. ~(<<y, x>> \in R) /\ x \in Nat /\ y \in Nat
    BY <1>3
  <2>2. ~(y < x)
    BY <1>2, <2>1, Zenon
  <2> QED BY <2>1, <2>2
<1> QED BY <1>4 DEF Min

LEMMA RegionFacts ==
  ASSUME NEW rs \in Seq(Region)
  PROVE  /\ DOMAIN rs = 1 .. Len(rs) /\ Len(rs) \in Nat
         /\ \A i \in DOMAIN rs :
              /\ rs[i] \in Region /\ rs[i].base \in Nat /\ rs[i].size \in Nat
              /\ rs[i].base + rs[i].size < AddrSpace
              /\ rs[i].size > 4 => rs[i].base % 4 = 0
              /\ rs[i].cells \in [0 .. rs[i].size - 1 -> ByteValues]
<1>1. DOMAIN rs = 1 .. Len(rs) /\ Len(rs) \in Nat
  BY LenProperties
<1>2. \A i \in DOMAIN rs : rs[i] \in Region
  BY <1>1, ElementOfSeq
<1> QED BY <1>1, <1>2 DEF Region

LEMMA MatchIsInside ==
  ASSUME NEW r \in Region, NEW a \in Int
  PROVE  Match(r, a) <=> a - r.base \in 0 .. r.size - 1
<1>1. r.base \in Nat /\ r.size \in Nat /\ r.base + r.size < AddrSpace
  BY DEF Region
<1>2. (r.base + r.size) % AddrSpace = r.base + r.size
  <2> DEFINE e == r.base + r.size
  <2>1. e \in 0 .. AddrSpace - 1
    BY <1>1, DataAssumption
  <2> HIDE DEF e
  <2>2. e % AddrSpace = e
    BY <2>1, DataAssumption
  <2> QED BY <2>2 DEF e
<1> QED BY <1>1, <1>2 DEF Match

\* A byte that is held is read from the array of a region, the first that holds it.
LEMMA HeldBy ==
  ASSUME NEW rs \in Seq(Region), NEW a \in Int,
         NEW held, held = {i \in DOMAIN rs : Match(rs[i], a)}, held # {}
  PROVE  /\ Min(held) \in DOMAIN rs
         /\ a - rs[Min(held)].base \in DOMAIN rs[Min(held)].cells
<1> DEFINE i == Min(held)
<1>1. held \in SUBSET Nat
  BY RegionFacts
<1>2. i \in held
  BY <1>1, MinIsElement
<1>3. i \in DOMAIN rs /\ Match(rs[i], a)
  BY <1>2
<1> HIDE DEF i
<1>4. /\ rs[i] \in Region /\ rs[i].size \in Nat
      /\ rs[i].cells \in [0 .. rs[i].size - 1 -> ByteValues]
  BY <1>3, RegionFacts
<1>5. a - rs[i].base \in 0 .. rs[i].size - 1
  BY <1>3, <1>4, MatchIsInside
<1> QED BY <1>3, <1>4, <1>5 DEF i

LEMMA HeldByte ==
  ASSUME regions \in Seq(Region), NEW a \in Int, valid_addr(a)
  PROVE  LET i == Min(Holding(a))
         IN /\ i \in DOMAIN regions
            /\ a - regions[i].base \in DOMAIN regions[i].cells
            /\ ReadByte(a) = regions[i].cells[a - regions[i].base]
            /\ ReadByte(a) \in ByteValues
<1>1. /\ Min(Holding(a)) \in DOMAIN regions
      /\ a - regions[Min(Holding(a))].base \in DOMAIN regions[Min(Holding(a))].cells
  BY HeldBy DEF Holding, valid_addr
<1> DEFINE i == Min(Holding(a))
<1> HIDE DEF i
<1>2. regions[i].cells \in [0 .. regions[i].size - 1 -> ByteValues]
  BY <1>1, RegionFacts DEF i
<1> QED BY <1>1, <1>2 DEF ReadByte, i

\* Its bytes are held, and do not wrap around the address space.
LEMMA BlockIsHeld ==
  ASSUME regions \in Seq(Region), NEW a \in Nat, NEW n \in Nat, Inside(a, n)
  PROVE  /\ a + n < AddrSpace
         /\ \A k \in 0 .. n - 1 : valid_addr(a + k) /\ a + k \in Addrs
<1>1. PICK i \in DOMAIN regions :
        a >= regions[i].base /\ a - regions[i].base + n < regions[i].size
  BY DEF Inside
<1>2. /\ regions[i] \in Region /\ regions[i].base \in Nat /\ regions[i].size \in Nat
      /\ regions[i].base + regions[i].size < AddrSpace
  BY RegionFacts
<1>3. a + n < AddrSpace
  BY <1>1, <1>2, DataAssumption
<1>4. ASSUME NEW k \in 0 .. n - 1 PROVE valid_addr(a + k) /\ a + k \in Addrs
  <2> DEFINE b == regions[i].base
             m == regions[i].size
  <2>0. b \in Nat /\ m \in Nat /\ a >= b /\ a - b + n < m
    BY <1>1, <1>2
  <2> HIDE DEF b, m
  <2>1. a + k \in Int /\ (a + k) - b \in 0 .. m - 1
    BY <2>0
  <2>2. Match(regions[i], a + k)
    BY <1>2, <2>1, MatchIsInside DEF b, m
  <2>3. a + k \in Addrs
    BY <1>3, DataAssumption DEF Addrs
  <2> QED BY <2>2, <2>3 DEF valid_addr, Holding
<1> QED BY <1>3, <1>4

\* A drawn address leaves room for the block, also when it is aligned after the
\* room was taken off.
LEMMA DrawnIsInside ==
  ASSUME regions \in Seq(Region), NEW space \in Nat, NEW alignment \in {1, 4},
         alignment = 4 => space = 4,
         NEW a \in get_mem_address(space, alignment)
  PROVE  /\ a \in Nat
         /\ Inside(a, space)
<1>1. PICK i \in Fitting(space) : \E x \in 0 .. regions[i].size - space - 1 :
        a = (regions[i].base + x) - ((regions[i].base + x) % alignment)
  BY DEF get_mem_address
<1>2. i \in DOMAIN regions /\ space < regions[i].size
  BY DEF Fitting
<1>3. /\ regions[i].base \in Nat /\ regions[i].size \in Nat
      /\ regions[i].size > 4 => regions[i].base % 4 = 0
  BY <1>2, RegionFacts
<1>4. PICK x \in 0 .. regions[i].size - space - 1 :
        a = (regions[i].base + x) - ((regions[i].base + x) % alignment)
  BY <1>1
<1> DEFINE b == regions[i].base
<1>5. b \in Nat /\ x \in Nat /\ x < regions[i].size - space
  BY <1>2, <1>3, <1>4
<1>6. a \in Nat /\ a >= b /\ a <= b + x
  <2>1. CASE alignment = 1
    BY <1>4, <1>5, <2>1
  <2>2. CASE alignment = 4
    <3>1. b % 4 = 0
      BY <1>2, <1>3, <2>2
    <3> HIDE DEF b
    <3>2. (b + x) - ((b + x) % 4) \in Nat /\ (b + x) - ((b + x) % 4) <= b + x
      BY <1>5
    <3>3. (b + x) - ((b + x) % 4) >= b
      BY <1>5, <3>1
    <3> QED BY <1>4, <2>2, <3>2, <3>3 DEF b
  <2> QED BY <2>1, <2>2
<1>7. a - b + space < regions[i].size
  BY <1>2, <1>3, <1>5, <1>6
<1> QED BY <1>2, <1>6, <1>7 DEF Inside

\* Writing a block changes the bytes of the block, and these only, as they are
\* read; which region holds a byte does not change.
LEMMA BlockWritten ==
  ASSUME regions \in Seq(Region), NEW n \in Nat, NEW data \in [1 .. n -> ByteValues],
         NEW a \in Nat, WriteBytes(a, data)
  PROVE  /\ regions' \in Seq(Region)
         /\ DOMAIN regions' = DOMAIN regions
         /\ \A i \in DOMAIN regions : /\ regions'[i].base = regions[i].base
                                      /\ regions'[i].size = regions[i].size
         /\ \A b \in Int : valid_addr(b)' <=> valid_addr(b)
         /\ \A b \in Int : valid_addr(b) =>
              ReadByte(b)' = IF b - a \in 0 .. n - 1 THEN data[b - a + 1] ELSE ReadByte(b)
<1> DEFINE Cell(i, o) ==
             LET b == regions[i].base + o
             IN IF b - a \in 0 .. Len(data) - 1 /\ SlotWritten(b) = i
                THEN data[b - a + 1] ELSE regions[i].cells[o]
           Cells(i) == [o \in DOMAIN regions[i].cells |-> Cell(i, o)]
<1>1. Len(data) = n
  OBVIOUS
<1>2. regions' = [i \in DOMAIN regions |-> [regions[i] EXCEPT !.cells = Cells(i)]]
  BY DEF WriteBytes
<1>3. ASSUME NEW i \in DOMAIN regions
      PROVE  /\ regions'[i] \in Region
             /\ regions'[i].base = regions[i].base /\ regions'[i].size = regions[i].size
             /\ regions'[i].cells = Cells(i)
  <2>1. regions[i] \in Region /\ regions[i].cells \in [0 .. regions[i].size - 1 -> ByteValues]
        /\ regions[i].base \in Nat /\ regions[i].size \in Nat
    BY RegionFacts
  <2>2. regions[i] \in [base : Nat, size : Nat, cells : ByteArrays]
    BY <2>1 DEF Region
  <2>3. ASSUME NEW o \in DOMAIN regions[i].cells PROVE Cell(i, o) \in ByteValues
    <3> DEFINE b == regions[i].base + o
    <3>0. o \in 0 .. regions[i].size - 1
      BY <2>1, <2>3
    <3>1. b \in Nat /\ regions[i].cells[o] \in ByteValues
      BY <2>1, <3>0
    <3> HIDE DEF b
    <3>2. b - a \in 0 .. Len(data) - 1 => data[b - a + 1] \in ByteValues
      BY <1>1, <3>1
    <3>3. Cell(i, o) = IF b - a \in 0 .. Len(data) - 1 /\ SlotWritten(b) = i
                       THEN data[b - a + 1] ELSE regions[i].cells[o]
      BY DEF b
    <3> QED BY <3>1, <3>2, <3>3
  <2>4. Cells(i) \in [0 .. regions[i].size - 1 -> ByteValues]
    BY <2>1, <2>3
  <2> HIDE DEF Cells, Cell
  <2>5. Cells(i) \in ByteArrays
    BY <2>1, <2>4 DEF ByteArrays
  <2> QED BY <1>2, <2>1, <2>2, <2>4, <2>5 DEF Region
<1>4. DOMAIN regions' = DOMAIN regions
  BY <1>2
<1>5. regions' \in Seq(Region)
  <2>1. regions' \in [1 .. Len(regions) -> Region] /\ Len(regions) \in Nat
    BY <1>2, <1>3, <1>4, RegionFacts
  <2> QED BY <2>1
<1>6. ASSUME NEW b \in Int PROVE Holding(b)' = Holding(b)
  BY <1>3, <1>4 DEF Holding, Match
<1>7. ASSUME NEW b \in Int, valid_addr(b)
      PROVE  ReadByte(b)' = IF b - a \in 0 .. n - 1 THEN data[b - a + 1] ELSE ReadByte(b)
  <2> DEFINE i == Min(Holding(b))
             o == b - regions[i].base
  <2>1. /\ i \in DOMAIN regions /\ o \in DOMAIN regions[i].cells
        /\ ReadByte(b) = regions[i].cells[o] /\ regions[i].base \in Nat
    BY <1>7, HeldByte, RegionFacts
  <2>2. ReadByte(b)' = regions'[i].cells[b - regions'[i].base]
    BY <1>6 DEF ReadByte
  <2>3. regions'[i].cells = Cells(i) /\ regions'[i].base = regions[i].base
    BY <1>3, <2>1
  <2>4. ReadByte(b)' = Cell(i, o)
    BY <2>1, <2>2, <2>3
  <2>5. SlotWritten(b) = i /\ regions[i].base + o = b
    BY <2>1 DEF SlotWritten
  <2> QED BY <1>1, <2>1, <2>4, <2>5
<1> HIDE DEF Cells, Cell
<1> QED BY <1>3, <1>4, <1>5, <1>6, <1>7 DEF valid_addr

LEMMA SameRegions ==
  ASSUME regions' = regions
  PROVE  /\ \A b : (valid_addr(b)' <=> valid_addr(b)) /\ ReadByte(b)' = ReadByte(b)
         /\ \A b, n : ReadBytes(b, n)' = ReadBytes(b, n)
         /\ \A b, n : Inside(b, n)' = Inside(b, n)
BY DEF valid_addr, Holding, Match, ReadByte, ReadBytes, Inside

------------------------------------------------------------------------------
\* The invariant.

LEMMA MemTestStart == MemTestInit => MemTestInv
<1> SUFFICES ASSUME MemTestInit PROVE MemTestInv
  OBVIOUS
<1>1. regions = <<>> /\ regions \in Seq(Region) /\ got \in Seq(ByteValues) /\ DOMAIN regions = {}
  BY EmptySeq DEF MemTestInit
<1>2. memory \in [Addrs -> ByteValues]
  BY DataAssumption DEF MemTestInit
<1>3. CallInv /\ BlockInv
  BY DEF MemTestInit, CallInv, BlockInv
<1>4. MemoriesAgree
  BY <1>1 DEF MemTestInit, MemoriesAgree, valid_addr, Holding
<1> QED BY <1>1, <1>2, <1>3, <1>4 DEF MemTestInv

\* The driver does not begin what it has not ended: a call is not Idle.
LEMMA CallsAreNotIdle == \A a, n, d : ReadBlock(a, n) # Idle /\ WriteBlock(a, d) # Idle
<1>1. \A a, n, d : ReadBlock(a, n).op = "read" /\ WriteBlock(a, d).op = "write"
  BY DEF ReadBlock, WriteBlock
<1>2. Idle.op = "idle"
  BY DEF Idle, Driver!Idle
<1> QED BY <1>1, <1>2

LEMMA SetupStep == ASSUME MemTestInv, Setup PROVE MemTestInv'
<1>1. PICK r \in NewRegions : add_region(r.base, r.size, [o \in 0 .. r.size - 1 |-> 0])
  BY DEF Setup
<1>2. phase = "setup" /\ UNCHANGED <<memory, call, done, got, phase, addr, length, buffer>>
  BY DEF Setup
<1> DEFINE new == [base |-> r.base, size |-> r.size, cells |-> [o \in 0 .. r.size - 1 |-> 0]]
<1>3. /\ r.base \in Nat /\ r.size \in Nat /\ r.base + r.size < AddrSpace
      /\ r.size > 4 => r.base % 4 = 0
  BY RegionAssumption
<1>4. new \in Region
  <2>1. [o \in 0 .. r.size - 1 |-> 0] \in [0 .. r.size - 1 -> ByteValues]
    BY DataAssumption
  <2>2. [o \in 0 .. r.size - 1 |-> 0] \in ByteArrays
    BY <1>3, <2>1 DEF ByteArrays
  <2> QED BY <1>3, <2>1, <2>2 DEF Region
<1>5. \A o \in DOMAIN new.cells : new.cells[o] = 0
  OBVIOUS
<1>6. regions' \in {regions, Append(regions, new)}
  BY <1>1 DEF add_region
<1> HIDE DEF new
<1>7. regions \in Seq(Region) /\ Len(regions) \in Nat /\ DOMAIN regions = 1 .. Len(regions)
  BY LenProperties DEF MemTestInv
<1>8. regions' \in Seq(Region)
  BY <1>4, <1>6, <1>7, AppendProperties
<1>9. \A i \in DOMAIN regions' : \A o \in DOMAIN regions'[i].cells : regions'[i].cells[o] = 0
  <2> SUFFICES ASSUME NEW i \in DOMAIN regions'
               PROVE  \A o \in DOMAIN regions'[i].cells : regions'[i].cells[o] = 0
    OBVIOUS
  <2>1. \A k \in DOMAIN regions : \A o \in DOMAIN regions[k].cells : regions[k].cells[o] = 0
    BY <1>2 DEF MemTestInv, MemoriesAgree
  <2>2. CASE regions' = regions
    BY <2>1, <2>2
  <2>3. CASE regions' = Append(regions, new)
    <3>1. /\ DOMAIN regions' = 1 .. Len(regions) + 1
          /\ \A k \in 1 .. Len(regions) : regions'[k] = regions[k]
          /\ regions'[Len(regions) + 1] = new
      BY <1>4, <1>7, <2>3, AppendProperties
    <3>2. CASE i \in 1 .. Len(regions)
      BY <1>7, <2>1, <3>1, <3>2
    <3>3. CASE i = Len(regions) + 1
      BY <1>5, <3>1, <3>3
    <3> QED BY <1>7, <3>1, <3>2, <3>3
  <2> QED BY <1>6, <2>2, <2>3
<1>10. CallInv' /\ BlockInv'
  BY <1>2 DEF MemTestInv, CallInv, BlockInv
<1>11. MemoriesAgree'
  <2>1. ASSUME NEW a \in Addrs, valid_addr(a)' PROVE ReadByte(a)' = 0
    <3>1. LET i == Min(Holding(a))'
          IN /\ i \in DOMAIN regions' /\ a - regions'[i].base \in DOMAIN regions'[i].cells
             /\ ReadByte(a)' = regions'[i].cells[a - regions'[i].base]
      <4>1. a \in Int
        BY DataAssumption DEF Addrs
      <4> QED BY <1>8, <2>1, <4>1, HeldBy DEF Holding, valid_addr, ReadByte
    <3> QED BY <1>9, <3>1
  <2>2. \A a \in Addrs : memory'[a] = 0
    BY <1>2 DEF MemTestInv, MemoriesAgree
  <2> QED BY <1>9, <2>1, <2>2 DEF MemoriesAgree
<1> QED BY <1>2, <1>8, <1>10, <1>11 DEF MemTestInv

\* Steps of the test that leave the call alone.
LEMMA QuietStep == ASSUME MemTestInv, Start \/ Compared \/ Complete PROVE MemTestInv'
<1>1. /\ UNCHANGED <<regions, memory, call, done, got, addr, length, buffer>>
      /\ call = Idle
      /\ phase \in {"setup", "loop", "read", "blockRead"} /\ phase' \in {"loop", "completed"}
  BY DEF Start, Compared, Complete, MemTestInv, CallInv
<1>2. CallInv' /\ BlockInv'
  BY <1>1 DEF CallInv, BlockInv
<1>3. MemoriesAgree'
  BY <1>1, SameRegions DEF MemTestInv, MemoriesAgree, OnItsWay
<1> QED BY <1>1, <1>2, <1>3 DEF MemTestInv

\* A read begins.
LEMMA ReadBegins ==
  ASSUME MemTestInv, NEW a \in Nat, NEW n \in Nat \ {0}, Inside(a, n),
         regions' = regions, phase \in {"loop", "written"}, phase' \in {"read", "blockRead"},
         Driver!Call(ReadBlock(a, n)), addr' = a, length' = n,
         phase' = "read" => buffer' = ReadBytes(a, n)
  PROVE  MemTestInv'
<1>1. /\ call = Idle /\ call' = ReadBlock(a, n) /\ got' = <<>> /\ memory' = memory
      /\ call' # Idle
  BY CallsAreNotIdle DEF Driver!Call, Idle
<1>2. got' \in Seq(ByteValues) /\ Len(got') = 0
  BY <1>1, EmptySeq
<1>3. CallInv'
  BY <1>1 DEF CallInv
<1>4. BlockInv'
  BY <1>1, <1>2, SameRegions DEF BlockInv
<1>5. MemoriesAgree'
  BY <1>1, SameRegions DEF MemTestInv, MemoriesAgree, OnItsWay
<1> QED BY <1>1, <1>2, <1>3, <1>4, <1>5 DEF MemTestInv

\* A write begins: the reference memory is ahead of the memory under test.
LEMMA WriteBegins ==
  ASSUME MemTestInv, NEW a \in Nat, NEW n \in Nat \ {0}, Inside(a, n),
         NEW d \in [1 .. n -> ByteValues], WriteCase(a, d)
  PROVE  MemTestInv'
<1>1. /\ phase = "loop" /\ phase' = "written" /\ call = Idle /\ call' = WriteBlock(a, d)
      /\ got' = <<>> /\ done' = 0 /\ memory' = memory /\ call' # Idle
      /\ addr' = a /\ length' = n /\ buffer' = d /\ WriteBytes(a, d)
  BY CallsAreNotIdle DEF WriteCase, Turn, Driver!Call, Idle
<1>2. got' \in Seq(ByteValues) /\ Len(got') = 0
  BY <1>1, EmptySeq
<1>3. /\ regions' \in Seq(Region)
      /\ \A b \in Int : valid_addr(b)' <=> valid_addr(b)
      /\ \A b \in Int : valid_addr(b) =>
           ReadByte(b)' = IF b - a \in 0 .. n - 1 THEN d[b - a + 1] ELSE ReadByte(b)
      /\ Inside(a, n)'
  BY <1>1, BlockWritten DEF MemTestInv, Inside
<1>4. CallInv'
  BY <1>1 DEF CallInv
<1>5. ASSUME NEW k \in 1 .. n PROVE ReadByte(a + k - 1)' = d[k]
  <2>1. k - 1 \in 0 .. n - 1 /\ a + k - 1 = a + (k - 1) /\ a + k - 1 \in Int
        /\ (a + k - 1) - a = k - 1 /\ (k - 1) + 1 = k
    OBVIOUS
  <2>2. valid_addr(a + (k - 1))
    BY <2>1, BlockIsHeld DEF MemTestInv
  <2>3. ReadByte(a + k - 1)' = d[(a + k - 1) - a + 1]
    BY <1>3, <2>1, <2>2
  <2> QED BY <2>1, <2>3
<1>6. ReadBytes(a, n)' = d
  BY <1>5 DEF ReadBytes
<1>7. BlockInv'
  BY <1>1, <1>2, <1>3, <1>6 DEF BlockInv
<1>8. MemoriesAgree'
  <2>1. ASSUME NEW b \in Addrs, valid_addr(b)', ~OnItsWay(b)' PROVE memory'[b] = ReadByte(b)'
    <3>1. b \in Int /\ b - a \notin 0 .. n - 1
      BY <1>1, <2>1, DataAssumption DEF Addrs, OnItsWay
    <3>2. ReadByte(b)' = ReadByte(b) /\ valid_addr(b)
      BY <1>3, <2>1, <3>1
    <3> QED BY <1>1, <3>2 DEF MemTestInv, MemoriesAgree, OnItsWay
  <2> QED BY <1>1, <2>1 DEF MemoriesAgree
<1> QED BY <1>1, <1>2, <1>3, <1>4, <1>7, <1>8 DEF MemTestInv

LEMMA TestStep == ASSUME MemTestInv, TestCase \/ ReadBack PROVE MemTestInv'
<1>0. regions \in Seq(Region)
  BY DEF MemTestInv
<1>1. ASSUME NEW a \in get_mem_address(4, 4), ReadWord(a) PROVE MemTestInv'
  <2>1. a \in Nat /\ Inside(a, 4)
    BY <1>0, DrawnIsInside
  <2> QED BY <1>1, <2>1, ReadBegins DEF ReadWord, Turn
<1>2. ASSUME NEW a \in get_mem_address(4, 4), NEW d \in Data(4), WriteCase(a, d) PROVE MemTestInv'
  <2>1. a \in Nat /\ Inside(a, 4)
    BY <1>0, DrawnIsInside
  <2>2. d \in [1 .. 4 -> ByteValues]
    BY DataAssumption
  <2>3. 4 \in Nat \ {0}
    OBVIOUS
  <2> QED BY <1>2, <2>1, <2>2, <2>3, WriteBegins, Zenon
<1>3. ASSUME NEW n \in 1 .. MaxLength, NEW a \in get_mem_address(n, 1),
             ReadCase(a, n) \/ \E d \in Data(n) : WriteCase(a, d)
      PROVE  MemTestInv'
  <2>1. n \in Nat \ {0}
    BY DataAssumption
  <2>2. a \in Nat /\ Inside(a, n)
    BY <1>0, <2>1, DrawnIsInside
  <2>3. CASE ReadCase(a, n)
    BY <2>1, <2>2, <2>3, ReadBegins DEF ReadCase, Turn
  <2>4. CASE \E d \in Data(n) : WriteCase(a, d)
    <3>1. PICK d \in Data(n) : WriteCase(a, d)
      BY <2>4
    <3>2. d \in [1 .. n -> ByteValues]
      BY DataAssumption
    <3> QED BY <2>1, <2>2, <3>1, <3>2, WriteBegins
  <2> QED BY <1>3, <2>3, <2>4
<1>4. CASE ReadBack
  <2>1. /\ addr \in Nat /\ length \in Nat \ {0} /\ Inside(addr, length)
        /\ buffer = ReadBytes(addr, length)
    BY <1>4 DEF ReadBack, MemTestInv, BlockInv
  <2> QED BY <1>4, <2>1, ReadBegins DEF ReadBack
<1> QED BY <1>1, <1>2, <1>3, <1>4 DEF TestCase

------------------------------------------------------------------------------
\* The driver at work.

\* Offsets of a block that does not wrap around.
LEMMA Offsets ==
  ASSUME NEW n \in Nat \ {0}, NEW s \in 0 .. n - 1, NEW a \in 0 .. n - 1
  PROVE  /\ a % n = a
         /\ (a + n - s) % n = IF a >= s THEN a - s ELSE a + n - s
<1>1. ASSUME NEW r \in 0 .. n - 1 PROVE r % n = r /\ (r + n) % n = r
  <2>1. r = n * 0 + r /\ r + n = n * 1 + r
    OBVIOUS
  <2> QED BY <2>1
<1>2. CASE a >= s
  <2>1. a - s \in 0 .. n - 1 /\ (a - s) + n = a + n - s
    BY <1>2
  <2>2. ((a - s) + n) % n = a - s
    BY <1>1, <2>1
  <2> QED BY <1>1, <1>2, <2>1, <2>2
<1>3. CASE a < s
  <2>1. a + n - s \in 0 .. n - 1 /\ ~(a >= s)
    BY <1>3
  <2> QED BY <1>1, <2>1
<1> QED BY <1>2, <1>3

LEMMA StoreStep ==
  ASSUME MemTestInv, NEW upTo \in done + 1 .. Len(call.data), Driver!Store(upTo),
         UNCHANGED <<regions, phase, addr, length, buffer>>, call # Idle
  PROVE  MemTestInv'
<1>1. phase = "written" /\ call = WriteBlock(addr, buffer)
  <2>1. call.op = "write"
    BY DEF Driver!Store
  <2>2. \A a, n : ReadBlock(a, n).op = "read"
    BY DEF ReadBlock
  <2> QED BY <2>1, <2>2 DEF MemTestInv, CallInv
<1>2. /\ addr \in Nat /\ length \in Nat \ {0} /\ Inside(addr, length) /\ regions \in Seq(Region)
      /\ done \in 0 .. length /\ buffer = ReadBytes(addr, length)
  BY <1>1 DEF MemTestInv, BlockInv
<1>3. Len(buffer) = length /\ \A k \in 1 .. length : buffer[k] = ReadByte(addr + k - 1)
  BY <1>2 DEF ReadBytes
<1>4. /\ call.data = buffer /\ call.mask = 0 .. length - 1 /\ call.addr = addr
      /\ upTo \in done + 1 .. length
  BY <1>1, <1>3 DEF WriteBlock
<1>5. done' = upTo /\ call' = call /\ got' = got
  BY DEF Driver!Store
<1>6. /\ \A k \in 0 .. length - 1 : valid_addr(addr + k) /\ addr + k \in Addrs
      /\ addr + length < AddrSpace
  BY <1>2, BlockIsHeld
<1>7. ASSUME NEW a \in Addrs
      PROVE  memory'[a] = IF a - addr \in done .. upTo - 1 THEN ReadByte(a) ELSE memory[a]
  <2> DEFINE o == Driver!OffsetOf(a)
  <2>1. a \in 0 .. AddrSpace - 1 /\ addr \in 0 .. AddrSpace - 1
    BY <1>2, <1>6, DataAssumption DEF Addrs
  <2>2. o = IF a >= addr THEN a - addr ELSE a + AddrSpace - addr
    <3>1. o = (a + AddrSpace - addr) % AddrSpace
      BY <1>4 DEF Driver!OffsetOf
    <3> QED BY <2>1, <3>1, Offsets, DataAssumption
  <2>3. memory'[a] = IF o \in Driver!Written(upTo) THEN call.data[o + 1] ELSE memory[a]
    BY DEF Driver!Store, MemTestInv
  <2>4. o \in Driver!Written(upTo) <=> o \in done .. upTo - 1
    BY <1>2, <1>4 DEF Driver!Written
  <2> HIDE DEF o
  <2>5. o \in done .. upTo - 1 <=> a - addr \in done .. upTo - 1
    <3>1. done \in Nat /\ upTo \in Nat /\ upTo <= length /\ length \in Nat /\ a \in Nat /\ addr \in Nat
      BY <1>2, <1>4, <2>1
    <3>2. CASE a >= addr
      BY <2>2, <3>2
    <3>3. CASE ~(a >= addr)
      <4>1. o = a + AddrSpace - addr /\ o > length /\ a - addr < 0
        BY <1>6, <2>2, <3>1, <3>3, DataAssumption
      <4> QED BY <3>1, <4>1
    <3> QED BY <3>2, <3>3
  <2>6. ASSUME a - addr \in done .. upTo - 1 PROVE call.data[o + 1] = ReadByte(a)
    <3>1. o = a - addr /\ o + 1 \in 1 .. length /\ addr + (o + 1) - 1 = a
      BY <1>2, <1>4, <2>1, <2>2, <2>6
    <3> QED BY <1>3, <1>4, <3>1
  <2> QED BY <2>3, <2>4, <2>5, <2>6
<1>8. memory' \in [Addrs -> ByteValues]
  <2>1. \A a \in Addrs : memory'[a] \in ByteValues
    <3> TAKE a \in Addrs
    <3>1. a - addr \in done .. upTo - 1 => ReadByte(a) \in ByteValues
      <4>1. a \in Int /\ a = addr + (a - addr)
        BY <1>2, DataAssumption DEF Addrs
      <4>2. a - addr \in done .. upTo - 1 => a - addr \in 0 .. length - 1
        BY <1>2, <1>4
      <4>3. a - addr \in 0 .. length - 1 => valid_addr(addr + (a - addr))
        BY <1>6
      <4> QED BY <1>2, <4>1, <4>2, <4>3, HeldByte
    <3> QED BY <1>7, <3>1 DEF MemTestInv
  <2>2. memory' = [a \in Addrs |-> memory'[a]]
    BY DEF Driver!Store, MemTestInv
  <2> QED BY <2>1, <2>2
<1>9. CallInv'
  BY <1>1, <1>5 DEF CallInv
<1>10. BlockInv'
  <2>1. upTo \in 0 .. length
    BY <1>2, <1>4
  <2> QED BY <1>1, <1>2, <1>5, <2>1, SameRegions DEF BlockInv
<1>11. MemoriesAgree'
  <2>1. ASSUME NEW a \in Addrs, valid_addr(a), ~OnItsWay(a)' PROVE memory'[a] = ReadByte(a)
    <3>1. a - addr \notin upTo .. length - 1
      BY <1>1, <1>5, <2>1 DEF OnItsWay
    <3>2. CASE a - addr \in done .. upTo - 1
      BY <1>7, <3>2
    <3>3. CASE a - addr \notin done .. upTo - 1
      <4>1. a - addr \notin done .. length - 1
        BY <1>2, <1>4, <3>1, <3>3, DataAssumption DEF Addrs
      <4> QED BY <1>7, <2>1, <3>3, <4>1 DEF MemTestInv, MemoriesAgree, OnItsWay
    <3> QED BY <3>2, <3>3
  <2> QED BY <1>1, <2>1, SameRegions DEF MemoriesAgree
<1> QED BY <1>2, <1>5, <1>8, <1>9, <1>10, <1>11 DEF MemTestInv

LEMMA FetchStep ==
  ASSUME MemTestInv, NEW count \in 1 .. Len(call.data) - Len(got), Driver!Fetch(count),
         UNCHANGED <<regions, phase, addr, length, buffer>>, call # Idle
  PROVE  MemTestInv'
<1>1. phase \in {"read", "blockRead"} /\ call = ReadBlock(addr, length)
  <2>1. call.op = "read"
    BY DEF Driver!Fetch
  <2>2. \A a, d : WriteBlock(a, d).op = "write"
    BY DEF WriteBlock
  <2> QED BY <2>1, <2>2 DEF MemTestInv, CallInv
<1>2. /\ addr \in Nat /\ length \in Nat \ {0} /\ Inside(addr, length) /\ regions \in Seq(Region)
      /\ got \in Seq(ByteValues) /\ Len(got) \in 0 .. length
      /\ \A k \in 1 .. Len(got) : got[k] = ReadByte(addr + k - 1)
  BY <1>1 DEF MemTestInv, BlockInv
<1>3. call.addr = addr /\ Len(call.data) = length
  BY <1>1, <1>2 DEF ReadBlock
<1> DEFINE m == Len(got)
           more == [k \in 1 .. count |-> memory[Driver!PlaceOf(m + k - 1)]]
<1>4. m \in Nat /\ count \in Nat /\ m + count <= length
  BY <1>2, <1>3
<1>5. /\ \A k \in 0 .. length - 1 : valid_addr(addr + k) /\ addr + k \in Addrs
      /\ addr + length < AddrSpace
  BY <1>2, BlockIsHeld
<1>6. ASSUME NEW k \in 1 .. count
      PROVE  more[k] = ReadByte(addr + (m + k) - 1) /\ more[k] \in ByteValues
  <2> HIDE DEF m
  <2>1. m + k - 1 \in 0 .. length - 1 /\ addr + (m + k - 1) = addr + (m + k) - 1
    BY <1>2, <1>4
  <2> DEFINE a == addr + (m + k - 1)
  <2>2. a \in Addrs /\ valid_addr(a) /\ a \in 0 .. AddrSpace - 1
    BY <1>5, <2>1 DEF Addrs
  <2>3. Driver!PlaceOf(m + k - 1) = a % AddrSpace
    BY <1>3 DEF Driver!PlaceOf
  <2> HIDE DEF a
  <2>4. a % AddrSpace = a
    BY <2>2, Offsets, DataAssumption
  <2>5. more[k] = memory[a]
    BY <2>3, <2>4
  <2>6. memory[a] = ReadByte(a) /\ memory[a] \in ByteValues
    BY <1>1, <2>2 DEF MemTestInv, MemoriesAgree, OnItsWay
  <2> QED BY <2>1, <2>5, <2>6 DEF a
<1>7. more \in Seq(ByteValues) /\ Len(more) = count
  <2>1. more \in [1 .. count -> ByteValues]
    BY <1>6
  <2> HIDE DEF more
  <2> QED BY <1>4, <2>1
<1>8. got' = got \o more
  BY DEF Driver!Fetch
<1> HIDE DEF more
<1>9. /\ got' \in Seq(ByteValues) /\ Len(got') = m + count
      /\ \A k \in 1 .. m + count : got'[k] = IF k <= m THEN got[k] ELSE more[k - m]
  BY <1>2, <1>7, <1>8, ConcatProperties
<1>10. ASSUME NEW k \in 1 .. m + count PROVE got'[k] = ReadByte(addr + k - 1)
  <2> HIDE DEF m
  <2>1. CASE k <= m
    <3>1. k \in 1 .. m
      BY <1>4, <2>1
    <3> QED BY <1>2, <1>9, <2>1, <3>1 DEF m
  <2>2. CASE k > m
    <3>1. k - m \in 1 .. count /\ m + (k - m) = k /\ ~(k <= m)
      BY <1>4, <2>2
    <3> QED BY <1>6, <1>9, <3>1
  <2> QED BY <1>4, <2>1, <2>2
<1>11. call' = call /\ memory' = memory /\ done' = done
  BY DEF Driver!Fetch
<1>12. CallInv'
  BY <1>11 DEF MemTestInv, CallInv
<1>13. BlockInv'
  <2>1. m + count \in 0 .. length
    BY <1>4
  <2> HIDE DEF m
  <2> QED BY <1>1, <1>2, <1>9, <1>10, <1>11, <2>1, SameRegions DEF MemTestInv, BlockInv
<1>14. MemoriesAgree'
  BY <1>1, <1>11, SameRegions DEF MemTestInv, MemoriesAgree, OnItsWay
<1> QED BY <1>2, <1>9, <1>11, <1>12, <1>13, <1>14 DEF MemTestInv

LEMMA ReturnStep ==
  ASSUME MemTestInv, Driver!Return, UNCHANGED <<regions, phase, addr, length, buffer>>,
         call # Idle
  PROVE  MemTestInv'
<1>1. call' = Idle /\ UNCHANGED <<memory, done, got>>
  BY DEF Driver!Return, Idle
<1>2. \/ phase = "written" /\ call = WriteBlock(addr, buffer)
      \/ phase \in {"read", "blockRead"} /\ call = ReadBlock(addr, length)
  BY DEF MemTestInv, CallInv
<1>3. CallInv'
  BY <1>1 DEF MemTestInv, CallInv
<1>4. addr \in Nat /\ length \in Nat \ {0}
  BY <1>2 DEF MemTestInv, BlockInv
<1>5. CASE phase = "written"
  <2>1. buffer = ReadBytes(addr, length) /\ Len(buffer) = length
    BY <1>4, <1>5 DEF MemTestInv, BlockInv, ReadBytes
  <2>2. call.op = "write" /\ Len(call.data) = length
    BY <1>2, <1>5, <2>1 DEF WriteBlock
  <2>3. done = length
    BY <2>2 DEF Driver!Return
  <2>4. BlockInv'
    BY <1>1, <1>5, SameRegions DEF MemTestInv, BlockInv
  <2>5. \A a \in Addrs : ~OnItsWay(a)
    BY <1>4, <2>3 DEF OnItsWay
  <2>6. MemoriesAgree'
    BY <1>1, <1>5, <2>5, SameRegions DEF MemTestInv, MemoriesAgree
  <2> QED BY <1>1, <1>3, <2>4, <2>6 DEF MemTestInv
<1>6. CASE phase \in {"read", "blockRead"}
  <2>1. call.op = "read" /\ Len(call.data) = length
    BY <1>2, <1>4, <1>6 DEF ReadBlock
  <2>2. Len(got) = length
    BY <2>1 DEF Driver!Return
  <2>3. BlockInv'
    BY <1>1, <1>6, <2>2, SameRegions DEF MemTestInv, BlockInv
  <2>4. MemoriesAgree'
    BY <1>1, <1>6, SameRegions DEF MemTestInv, MemoriesAgree, OnItsWay
  <2> QED BY <1>1, <1>3, <2>3, <2>4 DEF MemTestInv
<1> QED BY <1>2, <1>5, <1>6

LEMMA MemTestStep == MemTestInv /\ [MemTestNext]_memTestVars => MemTestInv'
<1>1. ASSUME MemTestInv, DriverWorks PROVE MemTestInv'
  BY <1>1, StoreStep, FetchStep, ReturnStep DEF DriverWorks
<1>2. ASSUME MemTestInv, UNCHANGED memTestVars PROVE MemTestInv'
  <2>1. CallInv' /\ BlockInv' /\ MemoriesAgree'
    BY <1>2, SameRegions
    DEF memTestVars, MemTestInv, CallInv, BlockInv, MemoriesAgree, OnItsWay
  <2> QED BY <1>2, <2>1 DEF memTestVars, MemTestInv
<1> QED BY <1>1, <1>2, SetupStep, QuietStep, TestStep DEF MemTestNext

\* The assertions of the test hold whenever its driver keeps its promise: one
\* that fails tells of the design.
THEOREM TestAssertionsHold == MemTestSpec => []AssertsHold
<1>1. MemTestInv => AssertsHold
  <2> SUFFICES ASSUME MemTestInv PROVE AssertsHold
    OBVIOUS
  <2>1. phase \in {"written", "read", "blockRead"} => BlockInside
    BY DEF MemTestInv, BlockInv, Inside, BlockInside
  <2>2. ASSUME phase \in {"read", "blockRead"}, call = Idle PROVE got = ReadBytes(addr, length)
    <3>1. /\ got \in Seq(ByteValues) /\ length \in Nat
          /\ Len(got) = length
          /\ \A k \in 1 .. Len(got) : got[k] = ReadByte(addr + k - 1)
      BY <2>2 DEF MemTestInv, BlockInv
    <3>2. got = [k \in 1 .. length |-> got[k]]
      BY <3>1
    <3> QED BY <3>1, <3>2 DEF ReadBytes
  <2>3. phase = "read" => buffer = ReadBytes(addr, length)
    BY DEF MemTestInv, BlockInv
  <2> QED BY <2>1, <2>2, <2>3 DEF AssertsHold
<1> QED BY <1>1, MemTestStart, MemTestStep, PTL DEF MemTestSpec

================================================================================
