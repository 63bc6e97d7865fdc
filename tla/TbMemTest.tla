------------------------------ MODULE TbMemTest ------------------------------
(***************************************************************************)
(* The random test, tb_mem_test.cpp, on a driver that keeps the promise of  *)
(* BlockDriver: it writes words and blocks to its reference memory and, by  *)
(* the driver, to the memory under test, and compares what it reads.        *)
(***************************************************************************)
EXTENDS TbMemory

CONSTANTS
  MaxLength,     \* m_max_length
  Iterations,    \* what start() may be called with; -1 is for ever
  NewRegions,    \* the regions a testbench may add, [base, size]
  Data(_)        \* length -> what rand() may fill a buffer with

\* The testbench leaves room for a word in regions that start at one only.
ASSUME RegionAssumption == \A r \in NewRegions :
  /\ r.base \in Nat /\ r.size \in Nat /\ r.base + r.size < AddrSpace
  /\ r.size > 4 => r.base % 4 = 0
ASSUME DataAssumption ==
  /\ AddrSpace \in Nat \ {0} /\ MaxLength \in Nat
  /\ 0 \in ByteValues
  /\ \A n \in {4} \union 1 .. MaxLength : Data(n) \subseteq [1 .. n -> ByteValues]

VARIABLES
  memory, call, done, got,  \* of BlockDriver
  phase,        \* where process() is
  iterations,
  addr, length, \* of the test case under way
  buffer        \* what is expected, if not what the reference memory holds

memTestVars == <<regions, memory, call, done, got, phase, iterations, addr, length, buffer>>

Addrs == 0 .. AddrSpace - 1

WriteBlock(a, data) == [op |-> "write", addr |-> a, data |-> data, mask |-> 0 .. Len(data) - 1]
ReadBlock(a, n)     == [op |-> "read", addr |-> a, data |-> [k \in 1 .. n |-> 0], mask |-> {}]

\* The test itself decides what to call.
Driver == INSTANCE BlockDriver WITH NumBytes <- AddrSpace, Calls <- {}

Idle == Driver!Idle

------------------------------------------------------------------------------
\* The testbench adds its regions, which new leaves as they are and memset()
\* clears, and starts the test.

Setup ==
  /\ phase = "setup"
  /\ \E r \in NewRegions : add_region(r.base, r.size, [o \in 0 .. r.size - 1 |-> 0])
  /\ UNCHANGED <<memory, call, done, got, phase, iterations, addr, length, buffer>>

\* get_mem_address: regions too small are drawn again.
Fitting(space) == {i \in DOMAIN regions : space < regions[i].size}

get_mem_address(space, alignment) ==
  LET drawn == UNION {{regions[i].base + x : x \in 0 .. regions[i].size - space - 1}
                        : i \in Fitting(space)}
  IN {a - (a % alignment) : a \in drawn}

\* A testbench that leaves a region with room for every case, or the loop of
\* get_mem_address() has no end.
Start ==
  /\ phase = "setup"
  /\ \A n \in {4} \union 1 .. MaxLength : Fitting(n) # {}
  /\ phase' = "loop"
  /\ iterations' \in Iterations
  /\ UNCHANGED <<regions, memory, call, done, got, addr, length, buffer>>

------------------------------------------------------------------------------
\* One turn of the loop.

\* Mutant: the iterations are not counted.
TurnForever == phase = "loop" /\ (iterations = -1 \/ iterations >= 1) /\ UNCHANGED iterations

Turn ==
  /\ phase = "loop"
  /\ iterations = -1 \/ iterations >= 1
  /\ iterations' = IF iterations = -1 THEN -1 ELSE iterations - 1

\* Cases 0 and 3: a word or a block is written, and will be read back.
WriteCase(a, data) ==
  /\ Turn
  /\ WriteBytes(a, data)
  /\ Driver!Call(WriteBlock(a, data))
  /\ phase' = "written"
  /\ addr' = a /\ length' = Len(data) /\ buffer' = data

\* Case 1: what a word should be is read beforehand.
ReadWord(a) ==
  /\ Turn
  /\ Driver!Call(ReadBlock(a, 4))
  /\ phase' = "read"
  /\ addr' = a /\ length' = 4 /\ buffer' = ReadBytes(a, 4)
  /\ UNCHANGED regions

\* Case 2: a block is compared with the reference memory afterwards.
ReadCase(a, n) ==
  /\ Turn
  /\ Driver!Call(ReadBlock(a, n))
  /\ phase' = "blockRead"
  /\ addr' = a /\ length' = n
  /\ UNCHANGED <<regions, buffer>>

ReadBack ==
  /\ phase = "written" /\ call = Idle
  /\ Driver!Call(ReadBlock(addr, length))
  /\ phase' = "read"
  /\ UNCHANGED <<regions, iterations, addr, length, buffer>>

Compared ==
  /\ phase \in {"read", "blockRead"} /\ call = Idle
  /\ phase' = "loop"
  /\ UNCHANGED <<regions, memory, call, done, got, iterations, addr, length, buffer>>

\* m_completed.post(), at once for a number below -1
Complete ==
  /\ phase = "loop" /\ iterations # -1 /\ iterations < 1
  /\ phase' = "completed"
  /\ UNCHANGED <<regions, memory, call, done, got, iterations, addr, length, buffer>>

TestCase ==
  \/ \E a \in get_mem_address(4, 4) : ReadWord(a) \/ \E d \in Data(4) : WriteCase(a, d)
  \/ \E n \in 1 .. MaxLength :
       \E a \in get_mem_address(n, 1) : ReadCase(a, n) \/ \E d \in Data(n) : WriteCase(a, d)

\* The driver at work.
DriverWorks ==
  /\ call # Idle
  /\ \/ \E upTo \in done + 1 .. Len(call.data) : Driver!Store(upTo)
     \/ \E count \in 1 .. Len(call.data) - Len(got) : Driver!Fetch(count)
     \/ Driver!Return
  /\ UNCHANGED <<regions, phase, iterations, addr, length, buffer>>

\* The chip holds zeros, as the reference memory does after memset().
MemTestInit ==
  /\ regions = <<>>
  /\ memory = [a \in Addrs |-> 0]
  /\ call = Idle /\ done = 0 /\ got = <<>>
  /\ phase = "setup"
  /\ iterations = 0
  /\ addr = 0 /\ length = 0 /\ buffer = <<>>

MemTestNext ==
  \/ Setup
  \/ Start
  \/ TestCase
  \/ ReadBack
  \/ Compared
  \/ Complete
  \/ DriverWorks

MemTestSpec == MemTestInit /\ [][MemTestNext]_memTestVars

\* The test goes on, and the driver's calls return (CallsReturn).
FairMemTestSpec ==
  /\ MemTestSpec
  /\ WF_memTestVars(TestCase \/ ReadBack \/ Compared \/ Complete)
  /\ WF_memTestVars(DriverWorks)

------------------------------------------------------------------------------
\* Properties.

\* The assertion of get_mem_address(): a block lies in one region and ends before
\* its last byte.
BlockInside ==
  \E i \in DOMAIN regions : LET r == regions[i] IN
    addr >= r.base /\ addr - r.base + length < r.size

\* The assertions of the test hold: addresses leave room for the block, also when
\* they are aligned after the room was taken off; and with a driver that keeps
\* its promise what is read is what was written, also where one region lies
\* inside another, which add_region() lets pass.
AssertsHold ==
  /\ phase \in {"written", "read", "blockRead"} => BlockInside
  /\ phase = "read" /\ call = Idle => got = buffer
  /\ phase = "blockRead" /\ call = Idle => got = ReadBytes(addr, length)

\* A test of finitely many iterations completes.
Completes == (phase = "loop" /\ iterations # -1) ~> phase = "completed"

==============================================================================
