------------------------------ MODULE SdramChip ------------------------------
(***************************************************************************)
(* The controller and the SDRAM chip it drives, as SDRAMAxiSimTop wires     *)
(* them.  Both are clocked by the same edge: the chip acts on the pins the  *)
(* controller registered in the cycle before, and the half-words travel on  *)
(* the shared data pins.                                                    *)
(*                                                                          *)
(* The port is driven by a client that may present, change and withdraw a   *)
(* request in any cycle, as the interleaved and arbitrated port of          *)
(* SdramAxiPmem does: a read or a write, never both.                        *)
(***************************************************************************)
EXTENDS SdramCore, SdramMem

CONSTANTS
  Requests,  \* what the client may put on the port in a cycle
  Contents   \* what the storage may hold when power comes on

ASSUME ClientAssumption ==
  /\ Requests # {}
  /\ \A r \in Requests :
       /\ r \in [rd : BOOLEAN, wr : SUBSET ByteLanes, addr : Nat, data : Word]
       /\ r.rd => r.wr = {}
  /\ Contents \subseteq [Cells -> Half]

chipVars == <<coreVars, memVars>>

\* The data pins: TriStateInBuf drives them from either side.  Driven by both,
\* or by neither, they carry nothing useful.
DQ == CASE outEnQ /\ ~memOutEnQ -> dataOutQ
        [] memOutEnQ /\ ~outEnQ -> memRdata
        [] OTHER -> Floating

\* inportReadData as a word.
PortWord == [l \in ByteLanes |-> IF l < 2 THEN ReadHalves[1][l] ELSE ReadHalves[2][l - 2]]

Init == CoreInit /\ MemInit(Contents)

Cycle(in) == CoreStep(in, DQ) /\ MemStep(pins, DQ)

Next == \E in \in Requests : Cycle(in)

Spec == Init /\ [][Next]_chipVars

------------------------------------------------------------------------------
\* The words the controller and the chip hold between them.

\* The half-words of a write that have not reached the storage yet: both of
\* them while WRITE is on the pins, the upper one in the cycle after.
Cell0      == PinCell(pins)
LowLanding == [mem EXCEPT ![Cell0] = MergeHalf(@, dataOutQ, pins.dqm)]
Landing ==
  IF pins.cmd = "WRITE"
  THEN [LowLanding EXCEPT ![NextCell(Cell0)] = MergeHalf(@, hiDataQ, HighMask(reqWrStrbQ))]
  ELSE IF burstWriteCountQ > 0
  THEN [mem EXCEPT ![burstAddrQ] = MergeHalf(@, dataOutQ, pins.dqm)]
  ELSE mem

JoinHalves(lo, hi) == [l \in ByteLanes |-> IF l < 2 THEN lo[l] ELSE hi[l - 2]]

NumWords == NumCells \div 2
Store    == [w \in 0 .. NumWords - 1 |-> JoinHalves(Landing[2 * w], Landing[2 * w + 1])]

\* The word of the read that is i cycles past the read state.
ReadInFlight(i) ==
  CASE i = 1 -> JoinHalves(mem[Cell0], mem[NextCell(Cell0)])
    [] i = 2 -> JoinHalves(memRdata, mem[burstAddrQ])
    [] i = 3 -> JoinHalves(sampleQ[1], memRdata)
    [] OTHER -> JoinHalves(sampleQ[i - 2], sampleQ[i - 3])

------------------------------------------------------------------------------
\* Properties.

FsmTypeOK ==
  /\ stateQ \in States
  /\ targetStateQ \in {"idle", "read", "write0", "refresh"}
  /\ delayStateQ \in {"idle", "activate", "read", "write0", "refresh"}
  /\ delayQ \in 0 .. 15
  /\ initTimerQ \in -1 .. InitTime
  /\ stateQ = "init" => initTimerQ >= 0
  /\ reqAddrQ \in Nat
  /\ reqWrStrbQ \in SUBSET ByteLanes
  /\ rowOpenQ \in SUBSET Banks
  /\ activeRowQ \in [Banks -> Rows]
  /\ pins \in Pins
  /\ pins.cmd = "ACTIVE" => pins.addr \in Rows
  /\ ckeQ \in BOOLEAN
  /\ dataOutQ \in Half

PipeTypeOK ==
  /\ refreshCntQ \in 0 .. RefreshCycles
  /\ refreshQ \in BOOLEAN
  /\ outEnQ \in BOOLEAN
  /\ hiDataQ \in Half
  /\ readPipeQ \in [1 .. ReadDepth -> BOOLEAN]
  /\ sampleQ \in [1 .. 3 -> Half]
  /\ ackQ \in BOOLEAN

MemTypeOK ==
  /\ writeBurstEnQ \in BOOLEAN
  /\ burstLenQ \in 0 .. 7
  /\ memActiveRowQ \in [Banks -> Rows]
  /\ memActiveEnQ \in SUBSET Banks
  /\ burstReadCountQ \in 0 .. 7
  /\ burstWriteCountQ \in 0 .. 7
  /\ burstAddrQ \in Cells
  /\ mem \in [Cells -> Half]
  /\ memRdata \in Half
  /\ memOutEnQ \in BOOLEAN

\* Every register keeps the range the code declares for it, the row addresses
\* that travel over the pins included.
TypeOK == FsmTypeOK /\ PipeTypeOK /\ MemTypeOK

\* The assertions of SdramMem hold for every command the controller issues: no
\* bank has an active row at a REFRESH, a bank is closed or keeps its row at an
\* ACTIVE, and the bank is open at a READ or WRITE.
ChipAssertions == RefreshClosed(pins) /\ ActivateClosed(pins) /\ AccessOpen(pins)

\* A READ or WRITE reaches the row the latched request names: the chip picks
\* the row from its own register, so the two records of open rows must agree.
RightRow ==
  pins.cmd \in {"READ", "WRITE"} =>
    /\ pins.bank = reqBankW
    /\ memActiveRowQ[pins.bank] = reqRowW

\* The state the machine is in, or on its way to through the delay state.
Goal == IF stateQ = "delay" THEN delayStateQ ELSE stateQ

\* What the command on the pins does to the chip's record of active rows.
ClosedByPins    == IF pins.cmd # "PRECHARGE" THEN {} ELSE IF pins.a10 THEN Banks ELSE {pins.bank}
OpenedByPins    == IF pins.cmd # "ACTIVE" THEN {} ELSE {pins.bank}
OpenAfterPins   == (memActiveEnQ \ ClosedByPins) \union OpenedByPins
RowAfterPins(b) == IF b \in OpenedByPins THEN pins.addr ELSE memActiveRowQ[b]

\* The inductive invariant behind ChipAssertions and RightRow.  The record of
\* the controller is ahead of the chip's by the command on the pins, and the
\* machine heads for a state only when the rows are as that state needs them.
RowsAgree ==
  /\ OpenAfterPins = rowOpenQ
  /\ \A b \in rowOpenQ : RowAfterPins(b) = activeRowQ[b]
  /\ Goal \in {"read", "write0"} => reqBankW \in rowOpenQ /\ activeRowQ[reqBankW] = reqRowW
  /\ Goal = "activate" => reqBankW \notin rowOpenQ
  /\ Goal \in {"activate", "precharge"} => targetStateQ \in {"read", "write0", "refresh"}
  /\ Goal = "activate" => targetStateQ # "refresh"
  /\ Goal \in {"init", "refresh"} => rowOpenQ = {}
  /\ pins.cmd = "REFRESH" => memActiveEnQ = {}
  /\ pins.cmd = "ACTIVE" => pins.bank \notin memActiveEnQ
  /\ pins.cmd \in {"READ", "WRITE"} => pins.bank \in memActiveEnQ
  /\ RightRow

\* The two sides never drive the data pins in the same cycle.  (Their enables
\* have no reset value, so before the first clock edge anything goes.)
BusExclusive == pins.cmd # "INHIBIT" => ~(outEnQ /\ memOutEnQ)

\* While a column of a burst is outstanding the controller leaves the command
\* pins alone, the column is the second half of the word the burst began, and a
\* read and a write burst are never under way together.
BurstsUndisturbed ==
  /\ burstReadCountQ > 0 \/ burstWriteCountQ > 0 => pins.cmd = "NOP" /\ burstAddrQ % 2 = 1
  /\ burstReadCountQ = 0 \/ burstWriteCountQ = 0

\* The longest way from a refresh tick to the refresh state: the tick comes as
\* idle turns to a request whose bank has another row open, and the read is
\* served first; or the tick comes as the last refresh is served.
LongestRequest == 2 * TrpCycles + TrcdCycles + CasLatency + 6
ServeBound == IF LongestRequest > TrfcCycles THEN LongestRequest ELSE TrfcCycles + 1

\* However busy the client keeps the port, a refresh that falls due is issued
\* within ServeBound cycles: bursts and row changes do not push it back, and,
\* as the period is longer than that, no tick finds the last one still due and
\* is lost.
RefreshOnTime == refreshQ => refreshCntQ <= ServeBound

\* The cycles left to the refresh state once a refresh is due.
FromIdle == IF rowOpenQ = {} THEN 1 ELSE TrpCycles + 2
CyclesTo(goal) ==
  CASE goal = "refresh" -> 0
    [] goal = "idle" -> FromIdle
    [] goal = "precharge" -> IF targetStateQ = "refresh" THEN TrpCycles + 1 ELSE LongestRequest
    [] goal = "activate" -> TrpCycles + TrcdCycles + CasLatency + 5
    [] goal = "read" -> TrpCycles + CasLatency + 4
    [] goal = "read_wait" -> TrpCycles + CasLatency + 3
    [] goal = "write0" -> TrpCycles + 4
    [] goal = "write1" -> TrpCycles + 3
    [] OTHER -> 0
CyclesLeft == IF stateQ = "delay" THEN delayQ + CyclesTo(delayStateQ) ELSE CyclesTo(stateQ)

\* The inductive invariant behind RefreshOnTime: a refresh that is due comes a
\* cycle nearer in every cycle.
RefreshNears ==
  /\ stateQ = "delay" => delayQ >= 1
  /\ stateQ = "init" => ~refreshQ
  /\ CyclesLeft <= ServeBound
  /\ refreshQ => refreshCntQ + CyclesLeft <= ServeBound

\* No command is issued before the clock is enabled, and no column accessed
\* before the mode register holds the burst length the controller counts on.
PoweredUp ==
  /\ pins.cmd \notin {"INHIBIT", "NOP"} => ckeQ
  /\ pins.cmd \in {"READ", "WRITE"} => burstLenQ = 1 /\ writeBurstEnQ

==============================================================================
