------------------------------- MODULE SdramIO -------------------------------
(***************************************************************************)
(* The vocabulary the controller (SdramCore) and the SDRAM chip (SdramMem)  *)
(* share: the parameters of SdramParams, the words and half-words that      *)
(* travel on the two data buses, and the pin bundle SDRAMIO.                *)
(*                                                                          *)
(* A 32-bit word is a function from its four byte lanes to bytes; a 16-bit  *)
(* half-word, what one SDRAM column holds, has two lanes.  Masks are sets   *)
(* of lanes: a write strobe is the set of lanes that are written, dqm the   *)
(* set of lanes that are masked.                                            *)
(***************************************************************************)
EXTENDS Integers

CONSTANTS
  NumRows,        \* 1 << rowW: rows of a bank
  RowWords,       \* 1 << (colW - 1): 32-bit words of a row
  CasLatency,     \* casLatency
  TrcdCycles,     \* trcdCycles: ACTIVE to READ or WRITE
  TrpCycles,      \* trpCycles: PRECHARGE to ACTIVE or REFRESH
  TrfcCycles,     \* trfcCycles: REFRESH to the next command
  StartDelay,     \* startDelay: cycles of the power-up delay
  RefreshCycles,  \* refreshCycles: the refresh tick has this period, plus one
  Byte,           \* the values of one byte lane
  Junk            \* what an undriven byte lane reads as

ASSUME GeometryAssumption ==
  /\ NumRows \in Nat \ {0}
  /\ RowWords \in Nat \ {0}

\* The delay register has DELAY_W = 4 bits, and a delay of 0 would wrap it.
ASSUME DelayAssumption ==
  /\ CasLatency \in 1 .. 15
  /\ TrcdCycles \in 1 .. 15
  /\ TrpCycles \in 1 .. 15
  /\ TrfcCycles \in 1 .. 15

ASSUME TimerAssumption ==
  /\ StartDelay \in Nat
  /\ RefreshCycles \in Nat \ {0}

ASSUME ByteAssumption == 0 \in Byte /\ Junk \in Byte

\* The address slicing of the core and WIDTH_BANK of the chip fix two bank bits.
NumBanks == 4
Banks    == 0 .. NumBanks - 1
Rows     == 0 .. NumRows - 1

\* A column is one half-word, so a row has two columns for each word.
NumCols == 2 * RowWords

Lanes     == 0 .. 1
ByteLanes == 0 .. 3
Half      == [Lanes -> Byte]
Word      == [ByteLanes -> Byte]

Zero     == [l \in Lanes |-> 0]
Floating == [l \in Lanes |-> Junk]

LowHalf(w)  == [l \in Lanes |-> w[l]]
HighHalf(w) == [l \in Lanes |-> w[l + 2]]

\* ~strb(1, 0) and ~strb(3, 2): the lanes of each half a strobe leaves masked.
LowMask(strb)  == {l \in Lanes : l \notin strb}
HighMask(strb) == {l \in Lanes : l + 2 \notin strb}

\* Lanes of old that the mask dqm covers survive a write of new.
MergeHalf(old, new, dqm) == [l \in Lanes |-> IF l \in dqm THEN old[l] ELSE new[l]]

\* The word address of a request names a column, a bank and a row
\* (ramAddrW(colW, 2), ramAddrW(colW + 2, colW + 1), ramAddrW(addrW, colW + 3)).
AddrCol(a)  == 2 * (a % RowWords)
AddrBank(a) == (a \div RowWords) % NumBanks
AddrRow(a)  == (a \div (RowWords * NumBanks)) % NumRows

\* The half-word cell at a row, bank and column: Cat(rowW, baW, colW).
CellAddr(row, bank, col) == (row * NumBanks + bank) * NumCols + col
NumCells == NumRows * NumBanks * NumCols
Cells    == 0 .. NumCells - 1

Commands == {"INHIBIT", "NOP", "ACTIVE", "READ", "WRITE", "TERMINATE",
             "PRECHARGE", "REFRESH", "LOAD_MODE"}

\* Mutant: burst length 4.
MODE_REG_LONG == 34

\* Burst length 2, sequential, CAS 2: the word the core loads in the mode register.
MODE_REG == 33

\* The registered pins the core drives.  Address line 10 (ALL_BANKS and
\* AUTO_PRECHARGE) is kept apart from the value on the other address lines.
Pins == [cmd : Commands, addr : Nat, a10 : BOOLEAN, bank : Banks, dqm : SUBSET Lanes]

==============================================================================
