------------------------------ MODULE SdramCore ------------------------------
(***************************************************************************)
(* The SDRAM controller of SdramCore.scala, one step per clock edge.  Every *)
(* register is a variable of the same name; the combinational outputs are   *)
(* operators.  A step is the branch of the state machine that stateQ        *)
(* selects, together with the refresh counter and the data pipeline, which  *)
(* are clocked in every state.                                              *)
(*                                                                          *)
(* in is the request on the port in this cycle: rd (inportRd), wr           *)
(* (inportWr, the set of strobed lanes), addr (inportAddr, as a word        *)
(* address) and data (inportWriteData).  dq is what the data pins carry.    *)
(***************************************************************************)
EXTENDS SdramIO

VARIABLES
  stateQ,        \* state of the machine
  targetStateQ,  \* where precharge and activate are heading
  delayStateQ,   \* where the delay state returns to
  delayQ,        \* cycles the delay state still waits
  initTimerQ,    \* the power-up countdown
  refreshCntQ,   \* the periodic refresh Counter
  refreshQ,      \* a refresh is due
  reqAddrQ,      \* latched request address
  reqWrStrbQ,    \* latched write strobe
  rowOpenQ,      \* the set of banks with an open row
  activeRowQ,    \* the row last opened in each bank
  pins,          \* commandQ, addrQ, bankQ and dqmQ
  ckeQ,          \* clock enable
  dataOutQ,      \* half-word driven on the data pins
  outEnQ,        \* the core drives the data pins
  hiDataQ,       \* RegNext of the upper half of inportWriteData
  readPipeQ,     \* the shift register behind rdDelayed
  sampleQ,       \* the last three half-words seen on the data pins
  ackQ           \* inportAck

fsmVars  == <<stateQ, targetStateQ, delayStateQ, delayQ, initTimerQ>>
reqVars  == <<reqAddrQ, reqWrStrbQ>>
rowVars  == <<rowOpenQ, activeRowQ>>
outVars  == <<pins, ckeQ, dataOutQ>>
pipeVars == <<refreshCntQ, refreshQ, outEnQ, hiDataQ, readPipeQ, sampleQ, ackQ>>
coreVars == <<fsmVars, reqVars, rowVars, outVars, pipeVars>>

States == {"init", "delay", "idle", "activate", "read", "read_wait",
           "write0", "write1", "precharge", "refresh"}

InitTime == StartDelay + 100
ReadDepth == CasLatency + 2

------------------------------------------------------------------------------
\* Combinational signals.

Requesting(in) == in.rd \/ in.wr # {}

\* inportAccept
Accept(in) == \/ stateQ = "read" /\ in.rd
              \/ stateQ = "write0" /\ in.wr # {}

\* Mutant: an open bank is taken for a hit, whichever row it has open.
RowHitAnyRow(in) == AddrBank(in.addr) \in rowOpenQ

\* rowHitW
RowHit(in) == /\ AddrBank(in.addr) \in rowOpenQ
              /\ AddrRow(in.addr) = activeRowQ[AddrBank(in.addr)]

\* The state that serves a request once its row is open.
ServeState(in) == IF in.rd THEN "read" ELSE "write0"

reqColW  == AddrCol(reqAddrQ)
reqBankW == AddrBank(reqAddrQ)
reqRowW  == AddrRow(reqAddrQ)

\* Mutant: the refresh counter counts one cycle too many.
RefreshTickLate == stateQ # "init" /\ refreshCntQ = RefreshCycles + 1

RefreshTick == stateQ # "init" /\ refreshCntQ = RefreshCycles

\* inportReadData, the half-words of a word in ascending order of address.
ReadHalves == <<sampleQ[3], sampleQ[2]>>

\* Mutant: a burst does not give way to a refresh.
BurstOnRegardless(in) == RowHit(in)

\* A burst goes on in place when no refresh is due and the next request hits
\* the open row.
BurstOn(in) == ~refreshQ /\ RowHit(in)

------------------------------------------------------------------------------
\* The state machine.

\* commandW and dqmW default to NOP and all lanes masked; addrQ and bankQ hold.
NopPins == [pins EXCEPT !.cmd = "NOP", !.dqm = Lanes]

\* Mutant: no delay.
GotoAtOnce(dest, cycles) ==
  /\ stateQ' = dest
  /\ UNCHANGED <<delayStateQ, delayQ>>

GotoDelay(dest, cycles) ==
  /\ stateQ' = "delay"
  /\ delayStateQ' = dest
  /\ delayQ' = cycles

LatchRequest(in) == reqAddrQ' = in.addr /\ reqWrStrbQ' = in.wr

\* Mutant: the mode register is never loaded.
InitPinsNoMode ==
  CASE initTimerQ = 40 -> [NopPins EXCEPT !.cmd = "PRECHARGE", !.addr = 0, !.a10 = TRUE]
    [] initTimerQ \in {20, 30} -> [NopPins EXCEPT !.cmd = "REFRESH"]
    [] OTHER -> NopPins

InitPins ==
  CASE initTimerQ = 40 -> [NopPins EXCEPT !.cmd = "PRECHARGE", !.addr = 0, !.a10 = TRUE]
    [] initTimerQ \in {20, 30} -> [NopPins EXCEPT !.cmd = "REFRESH"]
    [] initTimerQ = 10 -> [NopPins EXCEPT !.cmd = "LOAD_MODE", !.addr = MODE_REG, !.a10 = FALSE]
    [] OTHER -> NopPins

\* The countdown register goes on counting in the other states, where nothing
\* reads it.
PowerUp ==
  /\ stateQ = "init"
  /\ initTimerQ' = initTimerQ - 1
  /\ ckeQ' = (ckeQ \/ initTimerQ = 50)
  /\ pins' = InitPins
  /\ stateQ' = IF initTimerQ = 0 THEN "idle" ELSE "init"
  /\ UNCHANGED <<targetStateQ, delayStateQ, delayQ, reqVars, rowVars, dataOutQ>>

IdleRefresh ==
  /\ stateQ = "idle"
  /\ refreshQ
  /\ stateQ' = IF rowOpenQ # {} THEN "precharge" ELSE "refresh"
  /\ targetStateQ' = "refresh"
  /\ pins' = NopPins
  /\ UNCHANGED <<delayStateQ, delayQ, initTimerQ, reqVars, rowVars, ckeQ, dataOutQ>>

IdleHit(in) ==
  /\ stateQ = "idle"
  /\ ~refreshQ
  /\ Requesting(in)
  /\ RowHit(in)
  /\ LatchRequest(in)
  /\ stateQ' = ServeState(in)
  /\ pins' = NopPins
  /\ UNCHANGED <<targetStateQ, delayStateQ, delayQ, initTimerQ, rowVars, ckeQ, dataOutQ>>

\* The row is not open: close the bank's row first if it has another one.
IdleMiss(in) ==
  /\ stateQ = "idle"
  /\ ~refreshQ
  /\ Requesting(in)
  /\ ~RowHit(in)
  /\ LatchRequest(in)
  /\ stateQ' = IF AddrBank(in.addr) \in rowOpenQ THEN "precharge" ELSE "activate"
  /\ targetStateQ' = ServeState(in)
  /\ pins' = NopPins
  /\ UNCHANGED <<delayStateQ, delayQ, initTimerQ, rowVars, ckeQ, dataOutQ>>

IdleWait(in) ==
  /\ stateQ = "idle"
  /\ ~refreshQ
  /\ ~Requesting(in)
  /\ pins' = NopPins
  /\ UNCHANGED <<fsmVars, reqVars, rowVars, ckeQ, dataOutQ>>

Activate ==
  /\ stateQ = "activate"
  /\ GotoDelay(targetStateQ, TrcdCycles)
  /\ pins' = [NopPins EXCEPT !.cmd = "ACTIVE", !.addr = reqRowW, !.a10 = FALSE, !.bank = reqBankW]
  /\ activeRowQ' = [activeRowQ EXCEPT ![reqBankW] = reqRowW]
  /\ rowOpenQ' = rowOpenQ \union {reqBankW}
  /\ UNCHANGED <<targetStateQ, initTimerQ, reqVars, ckeQ, dataOutQ>>

Read ==
  /\ stateQ = "read"
  /\ stateQ' = "read_wait"
  /\ pins' = [cmd |-> "READ", addr |-> reqColW, a10 |-> FALSE, bank |-> reqBankW, dqm |-> {}]
  /\ UNCHANGED <<targetStateQ, delayStateQ, delayQ, initTimerQ, reqVars, rowVars, ckeQ, dataOutQ>>

\* Mutant: a request of either kind that hits goes on in place.
ReadWaitAnyBurst(in) ==
  /\ stateQ = "read_wait"
  /\ delayStateQ' = "idle"
  /\ delayQ' = CasLatency
  /\ pins' = NopPins
  /\ IF Requesting(in) /\ BurstOn(in)
     THEN stateQ' = ServeState(in) /\ LatchRequest(in)
     ELSE stateQ' = "delay" /\ UNCHANGED reqVars
  /\ UNCHANGED <<targetStateQ, initTimerQ, rowVars, ckeQ, dataOutQ>>

\* gotoDelay is the default assignment: a burst that goes on overrides stateQ
\* alone, and delayStateQ and delayQ are set in both cases.
ReadWait(in) ==
  /\ stateQ = "read_wait"
  /\ delayStateQ' = "idle"
  /\ delayQ' = CasLatency
  /\ pins' = NopPins
  /\ \/ /\ in.rd /\ BurstOn(in)
        /\ stateQ' = "read"
        /\ reqAddrQ' = in.addr
     \/ /\ ~(in.rd /\ BurstOn(in))
        /\ stateQ' = "delay"
        /\ UNCHANGED reqAddrQ
  /\ UNCHANGED <<targetStateQ, initTimerQ, reqWrStrbQ, rowVars, ckeQ, dataOutQ>>

Write0(in) ==
  /\ stateQ = "write0"
  /\ stateQ' = "write1"
  /\ pins' = [cmd |-> "WRITE", addr |-> reqColW, a10 |-> FALSE, bank |-> reqBankW,
              dqm |-> LowMask(reqWrStrbQ)]
  /\ dataOutQ' = LowHalf(in.data)
  /\ UNCHANGED <<targetStateQ, delayStateQ, delayQ, initTimerQ, reqVars, rowVars, ckeQ>>

\* Mutant: the upper half-word is taken from the port, not from the beat before.
Write1Unregistered(in) ==
  /\ stateQ = "write1"
  /\ pins' = [NopPins EXCEPT !.a10 = FALSE, !.dqm = HighMask(reqWrStrbQ)]
  /\ dataOutQ' = HighHalf(in.data)
  /\ IF in.wr # {} /\ BurstOn(in)
     THEN stateQ' = "write0" /\ LatchRequest(in)
     ELSE stateQ' = "idle" /\ UNCHANGED reqVars
  /\ UNCHANGED <<targetStateQ, delayStateQ, delayQ, initTimerQ, rowVars, ckeQ>>

Write1(in) ==
  /\ stateQ = "write1"
  /\ pins' = [NopPins EXCEPT !.a10 = FALSE, !.dqm = HighMask(reqWrStrbQ)]
  /\ dataOutQ' = hiDataQ
  /\ \/ /\ in.wr # {} /\ BurstOn(in)
        /\ stateQ' = "write0"
        /\ LatchRequest(in)
     \/ /\ ~(in.wr # {} /\ BurstOn(in))
        /\ stateQ' = "idle"
        /\ UNCHANGED reqVars
  /\ UNCHANGED <<targetStateQ, delayStateQ, delayQ, initTimerQ, rowVars, ckeQ>>

\* Mutant: the rows stay open in the controller's book.
PrechargeAllKeepsRows ==
  /\ stateQ = "precharge"
  /\ targetStateQ = "refresh"
  /\ GotoDelay("refresh", TrpCycles)
  /\ pins' = [NopPins EXCEPT !.cmd = "PRECHARGE", !.addr = 0, !.a10 = TRUE]
  /\ UNCHANGED <<targetStateQ, initTimerQ, reqVars, rowVars, ckeQ, dataOutQ>>

\* On the way to a refresh every bank is closed, otherwise the request's bank.
PrechargeAll ==
  /\ stateQ = "precharge"
  /\ targetStateQ = "refresh"
  /\ GotoDelay("refresh", TrpCycles)
  /\ pins' = [NopPins EXCEPT !.cmd = "PRECHARGE", !.addr = 0, !.a10 = TRUE]
  /\ rowOpenQ' = {}
  /\ UNCHANGED <<targetStateQ, initTimerQ, reqVars, activeRowQ, ckeQ, dataOutQ>>

PrechargeBank ==
  /\ stateQ = "precharge"
  /\ targetStateQ # "refresh"
  /\ GotoDelay("activate", TrpCycles)
  /\ pins' = [NopPins EXCEPT !.cmd = "PRECHARGE", !.addr = 0, !.a10 = FALSE, !.bank = reqBankW]
  /\ rowOpenQ' = rowOpenQ \ {reqBankW}
  /\ UNCHANGED <<targetStateQ, initTimerQ, reqVars, activeRowQ, ckeQ, dataOutQ>>

Refresh ==
  /\ stateQ = "refresh"
  /\ GotoDelay("idle", TrfcCycles)
  /\ pins' = [NopPins EXCEPT !.cmd = "REFRESH"]
  /\ UNCHANGED <<targetStateQ, initTimerQ, reqVars, rowVars, ckeQ, dataOutQ>>

Delay ==
  /\ stateQ = "delay"
  /\ delayQ' = (delayQ - 1) % 16
  /\ stateQ' = IF delayQ = 1 THEN delayStateQ ELSE "delay"
  /\ pins' = NopPins
  /\ UNCHANGED <<targetStateQ, delayStateQ, initTimerQ, reqVars, rowVars, ckeQ, dataOutQ>>

Fsm(in) ==
  \/ PowerUp
  \/ IdleRefresh
  \/ IdleHit(in)
  \/ IdleMiss(in)
  \/ IdleWait(in)
  \/ Activate
  \/ Read
  \/ ReadWait(in)
  \/ Write0(in)
  \/ Write1(in)
  \/ PrechargeAll
  \/ PrechargeBank
  \/ Refresh
  \/ Delay

------------------------------------------------------------------------------
\* Clocked in every state: the refresh counter and the data pipeline.

\* Mutant: serving a refresh does not clear it.
RefreshTimerStuck ==
  /\ refreshCntQ' = IF stateQ = "init" THEN refreshCntQ
                    ELSE IF RefreshTick THEN 0 ELSE refreshCntQ + 1
  /\ refreshQ' = (RefreshTick \/ refreshQ)

\* A tick in the very cycle of the refresh state leaves the next refresh due.
RefreshTimer ==
  /\ refreshCntQ' = IF stateQ = "init" THEN refreshCntQ
                    ELSE IF RefreshTick THEN 0 ELSE refreshCntQ + 1
  /\ refreshQ' = (RefreshTick \/ (refreshQ /\ stateQ # "refresh"))

DataPipeline(in, dq) ==
  /\ outEnQ' = (stateQ \in {"write0", "write1"})
  /\ hiDataQ' = HighHalf(in.data)
  /\ readPipeQ' = [i \in 1 .. ReadDepth |-> IF i = 1 THEN stateQ = "read" ELSE readPipeQ[i - 1]]
  /\ sampleQ' = <<dq, sampleQ[1], sampleQ[2]>>
  /\ ackQ' = (stateQ = "write1" \/ readPipeQ[ReadDepth])

CoreStep(in, dq) == Fsm(in) /\ RefreshTimer /\ DataPipeline(in, dq)

\* dqmQ, outEnQ, hiDataQ, ackQ and the last sample have no reset value; the
\* shift registers of the samples and of the reads have.
CoreInit ==
  /\ stateQ = "init"
  /\ targetStateQ = "idle"
  /\ delayStateQ = "idle"
  /\ delayQ = 0
  /\ initTimerQ = InitTime
  /\ refreshCntQ = 0
  /\ refreshQ = FALSE
  /\ reqAddrQ = 0
  /\ reqWrStrbQ = ByteLanes
  /\ rowOpenQ = {}
  /\ activeRowQ = [b \in Banks |-> 0]
  /\ \E dqm \in SUBSET Lanes :
       pins = [cmd |-> "INHIBIT", addr |-> 0, a10 |-> FALSE, bank |-> 0, dqm |-> dqm]
  /\ ckeQ = FALSE
  /\ dataOutQ = Zero
  /\ outEnQ \in BOOLEAN
  /\ hiDataQ \in Half
  /\ readPipeQ = [i \in 1 .. ReadDepth |-> FALSE]
  /\ sampleQ \in {<<Zero, Zero, h>> : h \in Half}
  /\ ackQ \in BOOLEAN

==============================================================================
