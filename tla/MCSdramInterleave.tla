--------------------------- MODULE MCSdramInterleave ---------------------------
(***************************************************************************)
(* SdramInterleave with two chips of two rows of one word in each of four   *)
(* banks.                                                                   *)
(***************************************************************************)
EXTENDS SdramInterleave

ByteAddr(row, bank, chip) == 4 * (2 * (row * NumBanks + bank) + chip)

\* More words than the queues have room for, across both chips, and a write that
\* closes the row of one of them.
ReadLong  == {[addr |-> ByteAddr(0, 0, 0), type |-> INCR, len |-> 5]}
WriteRow  == {[addr |-> ByteAddr(1, 0, 1), type |-> FIXED, len |-> 0]}

\* Two words, one of either chip, and a write to another row of the second: a
\* chip acknowledges while the other is at the head of the queue, words served
\* for nothing included.
ReadBoth  == {[addr |-> ByteAddr(0, 0, 0), type |-> INCR, len |-> 1]}
WriteOdd  == {[addr |-> ByteAddr(1, 0, 1), type |-> INCR, len |-> 0]}

\* Each word of the address space holds a value of its own; 0 is written.
MCBytes      == 0 .. 2 * NumWords
Marked(chip) == {[c \in Cells |-> [l \in Lanes |-> 2 * (c \div 2) + chip + 1]]}
MCContents0  == Marked(0)
MCContents1  == Marked(1)
OnlyWord     == [l \in ByteLanes |-> 0]
FullBeats    == {[data |-> OnlyWord, strb |-> ByteLanes]}
MCRequests   == PortRequests(0 .. NumWords - 1)

\* The data registers without a reset value are loaded over and over during the
\* power-up delay, so one value each is enough.
MCInit ==
  /\ hiDataQ0 = Zero /\ sampleQ0 = <<Zero, Zero, Zero>>
  /\ hiDataQ1 = Zero /\ sampleQ1 = <<Zero, Zero, Zero>>
  /\ InterInit

MCSpec     == MCInit /\ [][InterNext]_interVars
FairMCSpec == MCSpec /\ InterFairness
==============================================================================
