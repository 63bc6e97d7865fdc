------------------------------- MODULE SdramMem -------------------------------
(***************************************************************************)
(* The SDRAM chip of SdramMem.scala, one step per clock edge: a step is     *)
(* the branch of switch(commandW) that the pins select.  p is the pin       *)
(* bundle, dq what the data pins carry in this cycle.                       *)
(*                                                                          *)
(* INHIBIT raises cs, which resets the chip; the controller puts it on the  *)
(* pins for the first cycle only, when every register has its reset value.  *)
(***************************************************************************)
EXTENDS SdramIO

VARIABLES
  writeBurstEnQ,     \* mode register: writes are bursts too
  burstLenQ,         \* mode register: log2 of the burst length
  memActiveRowQ,     \* activeRowQ: the row last activated in each bank
  memActiveEnQ,      \* activeEnRowQ: the set of banks with an active row
  burstReadCountQ,   \* columns of a read burst still to come
  burstWriteCountQ,  \* columns of a write burst still to come
  burstAddrQ,        \* the cell of the next column of a burst
  mem,               \* the storage: one half-word for each cell
  memRdata,          \* the half-word the storage puts out
  memOutEnQ          \* data_out_en: the chip drives the data pins

modeVars  == <<writeBurstEnQ, burstLenQ>>
bankVars  == <<memActiveRowQ, memActiveEnQ>>
burstVars == <<burstReadCountQ, burstWriteCountQ, burstAddrQ>>
memVars   == <<modeVars, bankVars, burstVars, mem, memRdata, memOutEnQ>>

PinCell(p)  == CellAddr(memActiveRowQ[p.bank], p.bank, p.addr % NumCols)
NextCell(c) == (c + 1) % NumCells

\* Mutant: one column too few.
BurstTailShort == CASE burstLenQ \in {0, 1} -> 0 [] burstLenQ = 2 -> 2 [] OTHER -> 6

\* (1 << burstLenQ) - 1 in the three bits of the counters.
BurstTail == CASE burstLenQ = 0 -> 0
               [] burstLenQ = 1 -> 1
               [] burstLenQ = 2 -> 3
               [] OTHER -> 7

\* The chip's assertions: what it relies on the controller for.
RefreshClosed(p) == p.cmd = "REFRESH" => memActiveEnQ = {}
ActivateClosed(p) ==
  p.cmd = "ACTIVE" /\ p.bank \in memActiveEnQ => memActiveRowQ[p.bank] = p.addr
AccessOpen(p) == p.cmd \in {"READ", "WRITE"} => p.bank \in memActiveEnQ

------------------------------------------------------------------------------
\* The storage has one port.  Without a read enable its output is undefined and
\* the chip does not drive the data pins in the next cycle.

NoRead == memRdata' = Floating /\ memOutEnQ' = FALSE

MemRead(cell) == memRdata' = mem[cell] /\ memOutEnQ' = TRUE

MemWrite(cell, dq, dqm) == mem' = [mem EXCEPT ![cell] = MergeHalf(@, dq, dqm)]

------------------------------------------------------------------------------
\* The commands.

LoadMode(p) ==
  /\ p.cmd = "LOAD_MODE"
  /\ writeBurstEnQ' = ((p.addr \div 512) % 2 = 0)
  /\ burstLenQ' = p.addr % 8
  /\ NoRead
  /\ UNCHANGED <<bankVars, burstVars, mem>>

\* A refresh changes nothing in this chip: it only asserts RefreshClosed.
RefreshRows(p) ==
  /\ p.cmd = "REFRESH"
  /\ NoRead
  /\ UNCHANGED <<modeVars, bankVars, burstVars, mem>>

ActivateRow(p) ==
  /\ p.cmd = "ACTIVE"
  /\ memActiveRowQ' = [memActiveRowQ EXCEPT ![p.bank] = p.addr]
  /\ memActiveEnQ' = memActiveEnQ \union {p.bank}
  /\ NoRead
  /\ UNCHANGED <<modeVars, burstVars, mem>>

ReadColumn(p) ==
  /\ p.cmd = "READ"
  /\ MemRead(PinCell(p))
  /\ burstReadCountQ' = BurstTail
  /\ burstAddrQ' = NextCell(PinCell(p))
  /\ UNCHANGED <<modeVars, bankVars, burstWriteCountQ, mem>>

WriteColumn(p, dq) ==
  /\ p.cmd = "WRITE"
  /\ MemWrite(PinCell(p), dq, p.dqm)
  /\ burstWriteCountQ' = IF writeBurstEnQ THEN BurstTail ELSE 0
  /\ burstAddrQ' = NextCell(PinCell(p))
  /\ NoRead
  /\ UNCHANGED <<modeVars, bankVars, burstReadCountQ>>

\* The next column of a burst.  Were a read and a write burst under way at
\* once, the one port would serve both at the same cell.
BurstColumn(p, dq) ==
  /\ p.cmd \in {"NOP", "INHIBIT"}
  /\ burstReadCountQ > 0 \/ burstWriteCountQ > 0
  /\ IF burstReadCountQ > 0
     THEN MemRead(burstAddrQ) /\ burstReadCountQ' = burstReadCountQ - 1
     ELSE NoRead /\ UNCHANGED burstReadCountQ
  /\ IF burstWriteCountQ > 0
     THEN MemWrite(burstAddrQ, dq, p.dqm) /\ burstWriteCountQ' = burstWriteCountQ - 1
     ELSE UNCHANGED <<burstWriteCountQ, mem>>
  /\ burstAddrQ' = NextCell(burstAddrQ)
  /\ UNCHANGED <<modeVars, bankVars>>

Quiet(p) ==
  /\ p.cmd \in {"NOP", "INHIBIT"}
  /\ burstReadCountQ = 0
  /\ burstWriteCountQ = 0
  /\ NoRead
  /\ UNCHANGED <<modeVars, bankVars, burstVars, mem>>

\* Mutant: a write burst goes on.
BurstTerminateRead(p) ==
  /\ p.cmd = "TERMINATE"
  /\ burstReadCountQ' = 0
  /\ NoRead
  /\ UNCHANGED <<modeVars, bankVars, burstWriteCountQ, burstAddrQ, mem>>

BurstTerminate(p) ==
  /\ p.cmd = "TERMINATE"
  /\ burstReadCountQ' = 0
  /\ burstWriteCountQ' = 0
  /\ NoRead
  /\ UNCHANGED <<modeVars, bankVars, burstAddrQ, mem>>

PrechargeRows(p) ==
  /\ p.cmd = "PRECHARGE"
  /\ memActiveEnQ' = IF p.a10 THEN {} ELSE memActiveEnQ \ {p.bank}
  /\ NoRead
  /\ UNCHANGED <<modeVars, memActiveRowQ, burstVars, mem>>

MemStep(p, dq) ==
  \/ LoadMode(p)
  \/ RefreshRows(p)
  \/ ActivateRow(p)
  \/ ReadColumn(p)
  \/ WriteColumn(p, dq)
  \/ BurstColumn(p, dq)
  \/ Quiet(p)
  \/ BurstTerminate(p)
  \/ PrechargeRows(p)

\* What the storage holds when power comes on is up to the part.  The output
\* enable has no reset value.
MemInit(powerUp) ==
  /\ writeBurstEnQ = FALSE
  /\ burstLenQ = 0
  /\ memActiveRowQ = [b \in Banks |-> 0]
  /\ memActiveEnQ = {}
  /\ burstReadCountQ = 0
  /\ burstWriteCountQ = 0
  /\ burstAddrQ = 0
  /\ mem \in powerUp
  /\ memRdata = Floating
  /\ memOutEnQ \in BOOLEAN

==============================================================================
