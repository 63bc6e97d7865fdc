----------------------------- MODULE MCSdramAxiTop -----------------------------
(***************************************************************************)
(* SdramAxiTop on a part of two rows of one word in each of four banks.     *)
(***************************************************************************)
EXTENDS SdramAxiTop

ByteAddr(row, bank) == 4 * (row * NumBanks + bank)

\* Two rows of bank 0 and of bank 1, crossed in opposite directions.
RowOne  == {[addr |-> ByteAddr(1, 0), type |-> INCR, len |-> 1]}
RowZero == {[addr |-> ByteAddr(0, 1), type |-> WRAP, len |-> 1]}

\* One beat each, in two rows of one bank.
ReadOne  == {[addr |-> ByteAddr(1, 0), type |-> INCR, len |-> 0]}
WriteOne == {[addr |-> ByteAddr(0, 0), type |-> INCR, len |-> 0]}

MCBytes    == {0}
OnlyWord   == [l \in ByteLanes |-> 0]
FullBeats  == {[data |-> OnlyWord, strb |-> ByteLanes]}
MaskedBeats == {[data |-> OnlyWord, strb |-> ByteLanes], [data |-> OnlyWord, strb |-> {}]}
MCContents == [Cells -> Half]

MCRequests == PortRequests(0 .. AddrSpace \div 4 - 1)
==============================================================================
