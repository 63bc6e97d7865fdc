--------------------------- MODULE SdramChipProofs ---------------------------
(***************************************************************************)
(* Proofs about SdramChip, for every geometry, timing and client: registers *)
(* keep their ranges, the two records of open rows agree, refreshes come in *)
(* time; the part is powered up before it is used, a burst is left alone,   *)
(* the two sides never drive the data pins together, and every half-word on *)
(* its way to or from the storage is the one that was asked for.            *)
(***************************************************************************)
EXTENDS SdramChip, TLAPS

------------------------------------------------------------------------------
\* Addresses and the cells they name.

\* A remainder is below the divisor, a quotient of naturals a natural.
LEMMA ModRange == ASSUME NEW a \in Int, NEW n \in Nat \ {0} PROVE a % n \in 0 .. n - 1
  OBVIOUS
LEMMA DivInt == ASSUME NEW a \in Nat, NEW n \in Nat \ {0} PROVE a \div n \in Nat
  OBVIOUS

\* A digit a of weight C and a digit c below C make a number below A * C.
LEMMA MixedRadix ==
  ASSUME NEW A \in Nat, NEW C \in Nat, NEW a \in 0 .. A - 1, NEW c \in 0 .. C - 1
  PROVE  a * C + c \in 0 .. A * C - 1
<1>1. (a + 1) * C <= A * C
  OBVIOUS
<1>2. a * C + C = (a + 1) * C
  OBVIOUS
<1>3. a * C \in Nat
  OBVIOUS
<1> QED BY <1>1, <1>2, <1>3

\* The fields the core slices from an address are in range.
LEMMA AddrRanges ==
  ASSUME NEW a \in Nat
  PROVE  /\ AddrCol(a) \in 0 .. NumCols - 1
         /\ AddrBank(a) \in Banks
         /\ AddrRow(a) \in Rows
<1>1. a % RowWords \in 0 .. RowWords - 1 /\ a \div RowWords \in Nat
  BY ModRange, DivInt, GeometryAssumption
<1> DEFINE q == a \div (RowWords * NumBanks)
<1>2. q \in Nat
  <2>1. RowWords * NumBanks \in Nat \ {0}
    BY GeometryAssumption DEF NumBanks
  <2> QED BY <2>1, DivInt
<1> HIDE DEF q
<1>3. q % NumRows \in 0 .. NumRows - 1
  BY <1>2, ModRange, GeometryAssumption
<1>4. AddrCol(a) \in 0 .. NumCols - 1
  BY <1>1, GeometryAssumption DEF AddrCol, NumCols
<1>5. AddrBank(a) \in Banks
  BY <1>1, GeometryAssumption DEF AddrBank, Banks, NumBanks
<1>6. AddrRow(a) \in Rows
  BY <1>3 DEF AddrRow, Rows, q
<1> QED BY <1>4, <1>5, <1>6

\* The row, bank and column of the chip name a cell of its storage.
LEMMA CellRange ==
  ASSUME NEW row \in Rows, NEW bank \in Banks, NEW col \in 0 .. NumCols - 1
  PROVE  CellAddr(row, bank, col) \in Cells
<1>1. NumCols \in Nat /\ NumRows \in Nat
  BY GeometryAssumption DEF NumCols
<1>2. row * NumBanks + bank \in 0 .. NumRows * NumBanks - 1
  BY <1>1, MixedRadix DEF Rows, Banks, NumBanks
<1>3. NumRows * NumBanks \in Nat
  BY <1>1 DEF NumBanks
<1> QED BY <1>1, <1>2, <1>3, MixedRadix DEF CellAddr, Cells, NumCells

\* The quotient and the remainder are the only ones.
LEMMA DivUnique ==
  ASSUME NEW n \in Nat \ {0}, NEW q \in Int, NEW r \in 0 .. n - 1
  PROVE  /\ (n * q + r) \div n = q
         /\ (n * q + r) % n = r
OBVIOUS

LEMMA DivSum ==
  ASSUME NEW n \in Nat \ {0}, NEW a \in Nat
  PROVE  a = n * (a \div n) + (a % n)
OBVIOUS

\* The column, bank and row of an address name the lower cell of its word.
LEMMA CellOfWord ==
  ASSUME NEW a \in Nat
  PROVE  /\ CellAddr(AddrRow(a), AddrBank(a), AddrCol(a) % NumCols)
              = 2 * (a % (NumRows * NumBanks * RowWords))
         /\ a % (NumRows * NumBanks * RowWords) \in 0 .. NumRows * NumBanks * RowWords - 1
         /\ NumCells = 2 * (NumRows * NumBanks * RowWords)
<1> DEFINE C == RowWords
           R == NumRows
           c == a % C
           q == a \div C
           b == q % 4
           p == q \div 4
           r == p % R
           m == p \div R
<1>1. C \in Nat \ {0} /\ R \in Nat \ {0}
  BY GeometryAssumption
<1>2. c \in 0 .. C - 1 /\ q \in Nat /\ a = C * q + c
  <2>1. c \in 0 .. C - 1
    BY <1>1, ModRange
  <2>2. q \in Nat
    BY <1>1, DivInt
  <2>3. a = C * q + c
    BY <1>1, DivSum
  <2> QED BY <2>1, <2>2, <2>3
<1>3. b \in 0 .. 3 /\ p \in Nat /\ q = 4 * p + b
  BY <1>2
<1> HIDE DEF c, q
<1>4. r \in 0 .. R - 1 /\ m \in Nat /\ p = R * m + r
  <2>1. r \in 0 .. R - 1
    <3>1. p \in Int
      BY <1>3
    <3> QED BY <1>1, <3>1, ModRange, Zenon
  <2>2. m \in Nat
    BY <1>1, <1>3, DivInt
  <2>3. p = R * m + r
    BY <1>1, <1>3, DivSum
  <2> QED BY <2>1, <2>2, <2>3
<1> HIDE DEF b, p
<1> HIDE DEF r, m
<1>5. AddrCol(a) % NumCols = 2 * c
  <2>1. 2 * c \in 0 .. 2 * C - 1
    BY <1>1, <1>2
  <2>2. AddrCol(a) = 2 * c
    BY DEF AddrCol, c
  <2> QED BY <1>1, <2>1, <2>2 DEF NumCols
<1>6. AddrBank(a) = b
  BY DEF AddrBank, NumBanks, b, q
<1>7. AddrRow(a) = r
  <2>1. C * b + c \in 0 .. C * 4 - 1
    <3>1. b * C + c \in 0 .. 4 * C - 1
      BY <1>1, <1>2, <1>3, MixedRadix
    <3> QED BY <1>1, <1>2, <1>3, <3>1
  <2>2. a = (C * 4) * p + (C * b + c)
    <3>1. C * (4 * p + b) = (C * 4) * p + C * b
      BY <1>1, <1>3
    <3> QED BY <1>1, <1>2, <1>3, <3>1
  <2>3. C * 4 \in Nat \ {0}
    BY <1>1
  <2>4. a \div (C * 4) = p
    BY <1>3, <2>1, <2>2, <2>3, DivUnique
  <2> QED BY <2>4 DEF AddrRow, NumBanks, r
<1>8. CellAddr(r, b, 2 * c) = 2 * ((r * 4 + b) * C + c)
  <2> DEFINE d == r * 4 + b
  <2>1. d \in Int
    BY <1>3, <1>4
  <2> HIDE DEF d
  <2>2. d * (2 * C) + 2 * c = 2 * (d * C + c)
    BY <1>1, <1>2, <2>1
  <2> QED BY <2>2 DEF d, CellAddr, NumBanks, NumCols
<1> DEFINE N == R * 4 * C
<1>9. N \in Nat \ {0} /\ NumCells = 2 * N
  BY <1>1 DEF NumCells, NumCols, NumBanks
<1>10. (r * 4 + b) * C + c \in 0 .. N - 1
  <2>1. r * 4 + b \in 0 .. R * 4 - 1
    BY <1>1, <1>3, <1>4
  <2> QED BY <1>1, <1>2, <2>1, MixedRadix
<1>11. a = N * m + ((r * 4 + b) * C + c)
  <2>1. a = C * (4 * (R * m + r) + b) + c
    BY <1>2, <1>3, <1>4
  <2>2. \A x, y \in Int : (R * 4 * C) * x + y * C = C * (4 * (R * x) + y)
    BY <1>1
  <2>3. (R * 4 * C) * m + (r * 4 + b) * C = C * (4 * (R * m) + (r * 4 + b))
    BY <1>3, <1>4, <2>2
  <2> DEFINE k == R * m
  <2>4. k \in Int
    BY <1>1, <1>4
  <2> HIDE DEF k
  <2>5. 4 * (k + r) + b = 4 * k + (r * 4 + b)
    BY <1>3, <1>4, <2>4
  <2>6. a = (R * 4 * C) * m + (r * 4 + b) * C + c
    BY <2>1, <2>3, <2>5 DEF k
  <2>7. \A x, y, z \in Int : x + y + z = x + (y + z)
    OBVIOUS
  <2> QED BY <1>1, <1>2, <1>3, <1>4, <2>6, <2>7
<1> HIDE DEF N
<1>12. a % N = (r * 4 + b) * C + c
  <2> DEFINE e == (r * 4 + b) * C + c
  <2> HIDE DEF e
  <2>1. (N * m + e) % N = e
    BY <1>4, <1>9, <1>10, DivUnique DEF e
  <2> QED BY <1>11, <2>1 DEF e
<1> QED BY <1>5, <1>6, <1>7, <1>8, <1>9, <1>10, <1>12 DEF N, NumBanks

------------------------------------------------------------------------------
\* Types.

LEMMA HalfTypes ==
  /\ Zero \in Half
  /\ Floating \in Half
  /\ \A w \in Word : LowHalf(w) \in Half /\ HighHalf(w) \in Half
  /\ \A s \in SUBSET ByteLanes : LowMask(s) \in SUBSET Lanes /\ HighMask(s) \in SUBSET Lanes
  /\ \A old \in Half, new \in Half, dqm \in SUBSET Lanes : MergeHalf(old, new, dqm) \in Half
<1>1. Zero \in Half /\ Floating \in Half
  BY ByteAssumption DEF Zero, Floating, Half
<1>2. \A w \in Word : LowHalf(w) \in Half /\ HighHalf(w) \in Half
  BY DEF Word, Half, ByteLanes, Lanes, LowHalf, HighHalf
<1>3. \A s \in SUBSET ByteLanes : LowMask(s) \in SUBSET Lanes /\ HighMask(s) \in SUBSET Lanes
  BY DEF LowMask, HighMask
<1>4. \A old \in Half, new \in Half, dqm \in SUBSET Lanes : MergeHalf(old, new, dqm) \in Half
  BY DEF MergeHalf, Half
<1> QED BY <1>1, <1>2, <1>3, <1>4

LEMMA DQType == TypeOK => DQ \in Half
BY HalfTypes DEF TypeOK, FsmTypeOK, PipeTypeOK, MemTypeOK, DQ

LEMMA NopPinsType ==
  ASSUME FsmTypeOK
  PROVE  NopPins \in Pins /\ NopPins.cmd = "NOP" /\ NopPins.bank = pins.bank
BY DEF FsmTypeOK, NopPins, Pins, Commands

LEMMA RequestType ==
  ASSUME NEW in \in Requests
  PROVE  /\ in.rd \in BOOLEAN /\ in.wr \in SUBSET ByteLanes
         /\ in.addr \in Nat /\ in.data \in Word
BY ClientAssumption

LEMMA InitType == Init => TypeOK
<1> SUFFICES ASSUME Init PROVE TypeOK
  OBVIOUS
<1>1. FsmTypeOK
  <2>1. pins \in Pins /\ pins.cmd # "ACTIVE"
    BY DEF Init, CoreInit, Pins, Commands, Banks, NumBanks
  <2>2. activeRowQ \in [Banks -> Rows]
    BY GeometryAssumption DEF Init, CoreInit, Rows
  <2>3. initTimerQ \in 0 .. InitTime
    BY TimerAssumption DEF Init, CoreInit, InitTime
  <2>4. InitTime \in Nat
    BY TimerAssumption DEF InitTime
  <2>5. ckeQ \in BOOLEAN
    BY DEF Init, CoreInit
  <2>6. /\ stateQ = "init" /\ targetStateQ = "idle" /\ delayStateQ = "idle"
        /\ delayQ = 0 /\ reqAddrQ = 0 /\ reqWrStrbQ = ByteLanes /\ rowOpenQ = {}
        /\ dataOutQ = Zero
    BY DEF Init, CoreInit
  <2> QED BY <2>1, <2>2, <2>3, <2>4, <2>5, <2>6, HalfTypes DEF FsmTypeOK, States
<1>2. PipeTypeOK
  <2>1. sampleQ \in [1 .. 3 -> Half]
    <3>1. PICK h \in Half : sampleQ = <<Zero, Zero, h>>
      BY DEF Init, CoreInit
    <3> QED BY <3>1, HalfTypes
  <2>2. readPipeQ \in [1 .. ReadDepth -> BOOLEAN]
    BY DEF Init, CoreInit
  <2>3. refreshCntQ \in 0 .. RefreshCycles
    BY TimerAssumption DEF Init, CoreInit
  <2>4. refreshQ \in BOOLEAN /\ outEnQ \in BOOLEAN /\ ackQ \in BOOLEAN /\ hiDataQ \in Half
    BY DEF Init, CoreInit
  <2> QED BY <2>1, <2>2, <2>3, <2>4 DEF PipeTypeOK
<1>3. MemTypeOK
  <2>2. mem \in [Cells -> Half]
    BY ClientAssumption DEF Init, MemInit
  <2>1. 0 \in Cells /\ 0 \in Rows
    BY GeometryAssumption, CellRange, MixedRadix DEF Cells, NumCells, NumCols, NumBanks, Rows
  <2>3. memActiveRowQ \in [Banks -> Rows]
    BY <2>1 DEF Init, MemInit
  <2>4. writeBurstEnQ \in BOOLEAN /\ memOutEnQ \in BOOLEAN
    BY DEF Init, MemInit
  <2>5. /\ burstLenQ = 0 /\ memActiveEnQ = {} /\ burstReadCountQ = 0 /\ burstWriteCountQ = 0
        /\ burstAddrQ = 0 /\ memRdata = Floating
    BY DEF Init, MemInit
  <2> QED BY <2>1, <2>2, <2>3, <2>4, <2>5, HalfTypes DEF MemTypeOK
<1> QED BY <1>1, <1>2, <1>3 DEF TypeOK

LEMMA FsmStepType ==
  ASSUME FsmTypeOK, PipeTypeOK, NEW in \in Requests, Fsm(in)
  PROVE  FsmTypeOK'
<1> USE DEF FsmTypeOK, fsmVars, reqVars, rowVars
<1>n. NopPins \in Pins /\ NopPins.cmd = "NOP"
  BY NopPinsType
<1>r. /\ in.rd \in BOOLEAN /\ in.wr \in SUBSET ByteLanes /\ in.addr \in Nat /\ in.data \in Word
  BY RequestType
<1>a. reqColW \in Nat /\ reqBankW \in Banks /\ reqRowW \in Rows
  BY AddrRanges, GeometryAssumption DEF reqColW, reqBankW, reqRowW, NumCols
<1>1. CASE PowerUp
  <2>1. InitPins \in Pins /\ InitPins.cmd # "ACTIVE"
    <3>1. \A c \in {"PRECHARGE", "REFRESH", "LOAD_MODE"}, a \in Nat, a10 \in BOOLEAN :
            [NopPins EXCEPT !.cmd = c, !.addr = a, !.a10 = a10] \in Pins
      BY <1>n DEF Pins, Commands
    <3>2. [NopPins EXCEPT !.cmd = "REFRESH"] \in Pins
      BY <1>n DEF Pins, Commands
    <3>3. MODE_REG \in Nat
      BY DEF MODE_REG
    <3>4. InitPins \in Pins
      BY <1>n, <3>1, <3>2, <3>3 DEF InitPins
    <3>5. InitPins.cmd # "ACTIVE"
      BY <1>n DEF InitPins, Pins
    <3> QED BY <3>4, <3>5
  <2>2. initTimerQ' \in -1 .. InitTime /\ (stateQ' = "init" => initTimerQ' >= 0)
    BY <1>1, TimerAssumption DEF PowerUp, InitTime
  <2> QED BY <1>1, <2>1, <2>2 DEF PowerUp, States
<1>2. CASE IdleRefresh
  BY <1>2, <1>n DEF IdleRefresh, States
<1>3. CASE IdleHit(in)
  BY <1>3, <1>n, <1>r DEF IdleHit, States, LatchRequest, ServeState
<1>4. CASE IdleMiss(in)
  BY <1>4, <1>n, <1>r DEF IdleMiss, States, LatchRequest, ServeState
<1>5. CASE IdleWait(in)
  BY <1>5, <1>n DEF IdleWait
<1>6. CASE Activate
  <2>1. pins' \in Pins /\ pins'.addr \in Rows
    <3>1. /\ pins'.cmd = "ACTIVE" /\ pins'.addr = reqRowW /\ pins'.bank = reqBankW
          /\ pins' = [NopPins EXCEPT !.cmd = "ACTIVE", !.addr = reqRowW, !.a10 = FALSE, !.bank = reqBankW]
      BY <1>6, <1>n DEF Activate, Pins
    <3>2. reqRowW \in Nat
      BY <1>a, GeometryAssumption DEF Rows
    <3> QED BY <3>1, <3>2, <1>n, <1>a DEF Pins, Commands
  <2> QED BY <1>6, <2>1, <1>a, DelayAssumption DEF Activate, GotoDelay, States
<1>7. CASE Read
  BY <1>7, <1>a DEF Read, States, Pins, Commands
<1>8. CASE ReadWait(in)
  BY <1>8, <1>n, <1>r, DelayAssumption DEF ReadWait, States
<1>9. CASE Write0(in)
  BY <1>9, <1>a, <1>r, HalfTypes DEF Write0, States, Pins, Commands
<1>10. CASE Write1(in)
  BY <1>10, <1>n, <1>r, HalfTypes DEF Write1, States, Pins, PipeTypeOK, LatchRequest
<1>11. CASE PrechargeAll
  <2>1. pins' \in Pins /\ pins'.cmd = "PRECHARGE"
    BY <1>11, <1>n DEF PrechargeAll, Pins, Commands
  <2> QED BY <1>11, <2>1, DelayAssumption DEF PrechargeAll, GotoDelay, States
<1>12. CASE PrechargeBank
  <2>1. pins' \in Pins /\ pins'.cmd = "PRECHARGE"
    BY <1>12, <1>n, <1>a DEF PrechargeBank, Pins, Commands
  <2> QED BY <1>12, <2>1, DelayAssumption DEF PrechargeBank, GotoDelay, States
<1>13. CASE Refresh
  BY <1>13, <1>n, DelayAssumption DEF Refresh, GotoDelay, States, Pins, Commands
<1>14. CASE Delay
  BY <1>14, <1>n DEF Delay, States
<1> QED
  BY <1>1, <1>2, <1>3, <1>4, <1>5, <1>6, <1>7, <1>8, <1>9, <1>10, <1>11, <1>12, <1>13, <1>14 DEF Fsm

LEMMA PipeStepType ==
  ASSUME TypeOK, NEW in \in Requests, RefreshTimer, DataPipeline(in, DQ)
  PROVE  PipeTypeOK'
<1>1. refreshCntQ' \in 0 .. RefreshCycles /\ refreshQ' \in BOOLEAN
  BY TimerAssumption DEF TypeOK, PipeTypeOK, RefreshTimer, RefreshTick
<1>2. outEnQ' \in BOOLEAN /\ hiDataQ' \in Half /\ ackQ' \in BOOLEAN
  BY RequestType, HalfTypes DEF DataPipeline
<1>3. readPipeQ' \in [1 .. ReadDepth -> BOOLEAN]
  <2>1. \A i \in 1 .. ReadDepth : i # 1 => i - 1 \in 1 .. ReadDepth
    BY DelayAssumption DEF ReadDepth
  <2>2. \A i \in 1 .. ReadDepth : (IF i = 1 THEN stateQ = "read" ELSE readPipeQ[i - 1]) \in BOOLEAN
    BY <2>1, Zenon DEF TypeOK, PipeTypeOK
  <2> QED BY <2>2, Zenon DEF DataPipeline
<1>4. sampleQ' \in [1 .. 3 -> Half]
  <2>1. DQ \in Half /\ sampleQ[1] \in Half /\ sampleQ[2] \in Half
    BY DQType DEF TypeOK, PipeTypeOK
  <2> QED BY <2>1 DEF DataPipeline
<1> QED BY <1>1, <1>2, <1>3, <1>4 DEF PipeTypeOK

LEMMA MemStepType ==
  ASSUME TypeOK, MemStep(pins, DQ)
  PROVE  MemTypeOK'
<1> USE DEF MemTypeOK, modeVars, bankVars, burstVars
<1>t. MemTypeOK /\ pins \in Pins /\ (pins.cmd = "ACTIVE" => pins.addr \in Rows)
  BY DEF TypeOK, FsmTypeOK
<1>d. DQ \in Half /\ Floating \in Half
  BY DQType, HalfTypes
<1>p. pins.bank \in Banks /\ pins.addr \in Nat /\ pins.dqm \in SUBSET Lanes
  BY <1>t DEF Pins
<1>c. PinCell(pins) \in Cells
  <2>1. NumCols \in Nat \ {0}
    BY GeometryAssumption DEF NumCols
  <2>2. pins.addr % NumCols \in 0 .. NumCols - 1
    <3>1. \A x \in Int : x % NumCols \in 0 .. NumCols - 1
      BY <2>1, ModRange
    <3> QED BY <3>1, <1>p
  <2> QED BY <1>t, <1>p, <2>2, CellRange DEF PinCell
<1>x. \A c \in Cells : NextCell(c) \in Cells
  <2>1. NumCells \in Nat \ {0}
    BY GeometryAssumption DEF NumCells, NumCols, NumBanks
  <2> QED BY <2>1, ModRange DEF NextCell, Cells
<1>b. BurstTail \in 0 .. 7
  BY <1>t DEF BurstTail
<1>w. \A c \in Cells : MergeHalf(mem[c], DQ, pins.dqm) \in Half
  BY <1>t, <1>d, <1>p, HalfTypes
<1>1. CASE LoadMode(pins)
  <2>1. burstLenQ' \in 0 .. 7
    BY <1>1, <1>p DEF LoadMode
  <2> QED BY <1>1, <1>t, <1>d, <2>1 DEF LoadMode, NoRead
<1>2. CASE RefreshRows(pins)
  BY <1>2, <1>t, <1>d DEF RefreshRows, NoRead
<1>3. CASE ActivateRow(pins)
  BY <1>3, <1>t, <1>d, <1>p DEF ActivateRow, NoRead
<1>4. CASE ReadColumn(pins)
  BY <1>4, <1>t, <1>c, <1>x, <1>b DEF ReadColumn, MemRead
<1>5. CASE WriteColumn(pins, DQ)
  <2>1. mem' \in [Cells -> Half]
    BY <1>5, <1>t, <1>c, <1>w DEF WriteColumn, MemWrite
  <2>2. memOutEnQ' \in BOOLEAN /\ memRdata' \in Half
    BY <1>5, <1>d DEF WriteColumn, NoRead
  <2>3. burstWriteCountQ' \in 0 .. 7 /\ burstAddrQ' \in Cells
    BY <1>5, <1>c, <1>x, <1>b DEF WriteColumn
  <2> QED BY <1>5, <1>t, <2>1, <2>2, <2>3 DEF WriteColumn
<1>6. CASE BurstColumn(pins, DQ)
  <2>1. mem' \in [Cells -> Half]
    BY <1>6, <1>t, <1>w DEF BurstColumn, MemWrite
  <2>2. memOutEnQ' \in BOOLEAN /\ memRdata' \in Half
    BY <1>6, <1>t, <1>d DEF BurstColumn, MemRead, NoRead
  <2>3. burstReadCountQ' \in 0 .. 7 /\ burstWriteCountQ' \in 0 .. 7 /\ burstAddrQ' \in Cells
    BY <1>6, <1>t, <1>x DEF BurstColumn
  <2> QED BY <1>6, <1>t, <2>1, <2>2, <2>3 DEF BurstColumn
<1>7. CASE Quiet(pins)
  BY <1>7, <1>t, <1>d DEF Quiet, NoRead
<1>8. CASE BurstTerminate(pins)
  <2>1. memOutEnQ' \in BOOLEAN /\ memRdata' \in Half
    BY <1>8, <1>d DEF BurstTerminate, NoRead
  <2> QED BY <1>8, <1>t, <2>1 DEF BurstTerminate
<1>9. CASE PrechargeRows(pins)
  BY <1>9, <1>t, <1>d, <1>p DEF PrechargeRows, NoRead
<1> QED BY <1>1, <1>2, <1>3, <1>4, <1>5, <1>6, <1>7, <1>8, <1>9 DEF MemStep

LEMMA StutterType == TypeOK /\ UNCHANGED chipVars => TypeOK'
BY DEF TypeOK, FsmTypeOK, PipeTypeOK, MemTypeOK, chipVars, coreVars, memVars, fsmVars,
       reqVars, rowVars, outVars, pipeVars, modeVars, bankVars, burstVars

LEMMA StepType == TypeOK /\ [Next]_chipVars => TypeOK'
<1>1. ASSUME TypeOK, NEW in \in Requests, Cycle(in) PROVE TypeOK'
  <2>1. FsmTypeOK /\ PipeTypeOK /\ Fsm(in) /\ RefreshTimer /\ DataPipeline(in, DQ) /\ MemStep(pins, DQ)
    BY <1>1 DEF TypeOK, Cycle, CoreStep
  <2> QED BY <1>1, <2>1, FsmStepType, PipeStepType, MemStepType DEF TypeOK
<1> QED BY <1>1, StutterType DEF Next

\* What the port answers is a word.
LEMMA PortWordType == TypeOK => PortWord \in Word /\ ackQ \in BOOLEAN
BY DEF TypeOK, PipeTypeOK, PortWord, ReadHalves, Half, Lanes, Word, ByteLanes

\* Every register of the controller and of the chip stays in the range the
\* code declares for it.
THEOREM TypeCorrect == Spec => []TypeOK
BY InitType, StepType, PTL DEF Spec

------------------------------------------------------------------------------
\* Rows: the controller's record and the chip's.

\* One clock edge moves the command on the pins into the chip's record.
LEMMA MemFollowsPins ==
  ASSUME TypeOK, MemStep(pins, DQ)
  PROVE  /\ memActiveEnQ' = OpenAfterPins
         /\ \A b \in Banks : memActiveRowQ'[b] = RowAfterPins(b)
<1> USE DEF OpenAfterPins, RowAfterPins, OpenedByPins, ClosedByPins, bankVars
<1>t. memActiveRowQ \in [Banks -> Rows] /\ memActiveEnQ \in SUBSET Banks /\ pins.bank \in Banks
  BY DEF TypeOK, MemTypeOK, FsmTypeOK, Pins
<1>1. CASE LoadMode(pins)
  BY <1>1 DEF LoadMode
<1>2. CASE RefreshRows(pins)
  BY <1>2 DEF RefreshRows
<1>3. CASE ActivateRow(pins)
  BY <1>3, <1>t DEF ActivateRow
<1>4. CASE ReadColumn(pins)
  BY <1>4 DEF ReadColumn
<1>5. CASE WriteColumn(pins, DQ)
  BY <1>5 DEF WriteColumn
<1>6. CASE BurstColumn(pins, DQ)
  BY <1>6 DEF BurstColumn
<1>7. CASE Quiet(pins)
  BY <1>7 DEF Quiet
<1>8. CASE BurstTerminate(pins)
  BY <1>8 DEF BurstTerminate
<1>9. CASE PrechargeRows(pins)
  BY <1>9, <1>t DEF PrechargeRows
<1> QED BY <1>1, <1>2, <1>3, <1>4, <1>5, <1>6, <1>7, <1>8, <1>9 DEF MemStep

\* What a step must show when it puts no row command on the pins and leaves
\* the controller's record alone.
LEMMA BooksKeep ==
  ASSUME TypeOK, RowsAgree, MemStep(pins, DQ), UNCHANGED rowVars,
         pins'.cmd \notin {"PRECHARGE", "ACTIVE"}
  PROVE  /\ OpenAfterPins' = rowOpenQ'
         /\ \A b \in rowOpenQ' : RowAfterPins(b)' = activeRowQ'[b]
         /\ memActiveEnQ' = rowOpenQ
         /\ \A b \in rowOpenQ : memActiveRowQ'[b] = activeRowQ[b]
<1>1. /\ memActiveEnQ' = rowOpenQ
      /\ \A b \in rowOpenQ : memActiveRowQ'[b] = activeRowQ[b]
  BY MemFollowsPins DEF RowsAgree, TypeOK, FsmTypeOK
<1>2. rowOpenQ' = rowOpenQ /\ activeRowQ' = activeRowQ
  BY DEF rowVars
<1>3. OpenedByPins' = {} /\ ClosedByPins' = {}
  BY DEF OpenedByPins, ClosedByPins
<1> QED BY <1>1, <1>2, <1>3 DEF OpenAfterPins, RowAfterPins

LEMMA RowsInit == Init => RowsAgree
BY DEF Init, CoreInit, MemInit, RowsAgree, OpenAfterPins, RowAfterPins, OpenedByPins, ClosedByPins,
       Goal, RightRow

LEMMA RowsStep ==
  ASSUME TypeOK, RowsAgree, NEW in \in Requests, Fsm(in), MemStep(pins, DQ)
  PROVE  RowsAgree'
<1> USE DEF Goal
<1>t. /\ memActiveEnQ' = rowOpenQ
      /\ \A b \in rowOpenQ : memActiveRowQ'[b] = activeRowQ[b]
  BY MemFollowsPins DEF RowsAgree, TypeOK, FsmTypeOK
<1>n. NopPins.cmd = "NOP"
  BY NopPinsType DEF TypeOK
<1>y. /\ rowOpenQ \in SUBSET Banks /\ activeRowQ \in [Banks -> Rows] /\ reqAddrQ \in Nat
      /\ reqBankW \in Banks /\ reqRowW \in Rows /\ pins \in Pins
  BY AddrRanges DEF TypeOK, FsmTypeOK, reqBankW, reqRowW
<1>1. CASE PowerUp
  <2>1. pins'.cmd \in {"NOP", "PRECHARGE", "REFRESH", "LOAD_MODE"}
    BY <1>1, <1>y DEF PowerUp, InitPins, NopPins, Pins
  <2>2. rowOpenQ = {} /\ memActiveEnQ' = {} /\ rowOpenQ' = {}
    BY <1>1, <1>t DEF PowerUp, RowsAgree, rowVars
  <2>3. OpenAfterPins' = {}
    BY <2>1, <2>2 DEF OpenAfterPins, OpenedByPins
  <2>4. stateQ' \in {"init", "idle"}
    BY <1>1 DEF PowerUp
  <2> QED BY <2>1, <2>2, <2>3, <2>4 DEF RowsAgree, RightRow
<1>2. CASE IdleRefresh
  <2>1. pins'.cmd = "NOP" /\ UNCHANGED rowVars
    BY <1>2, <1>n DEF IdleRefresh
  <2>2. /\ rowOpenQ' = rowOpenQ /\ targetStateQ' = "refresh"
        /\ stateQ' = IF rowOpenQ # {} THEN "precharge" ELSE "refresh"
    BY <1>2 DEF IdleRefresh, rowVars
  <2> QED BY <2>1, <2>2, BooksKeep DEF RowsAgree, RightRow
<1>3. CASE IdleHit(in)
  <2>1. pins'.cmd = "NOP" /\ UNCHANGED rowVars
    BY <1>3, <1>n DEF IdleHit
  <2>2. reqBankW' \in rowOpenQ' /\ activeRowQ'[reqBankW'] = reqRowW'
    BY <1>3 DEF IdleHit, RowHit, LatchRequest, rowVars, reqBankW, reqRowW
  <2>3. stateQ' \in {"read", "write0"}
    BY <1>3 DEF IdleHit, ServeState
  <2> QED BY <2>1, <2>2, <2>3, BooksKeep DEF RowsAgree, RightRow
<1>4. CASE IdleMiss(in)
  <2>1. pins'.cmd = "NOP" /\ UNCHANGED rowVars
    BY <1>4, <1>n DEF IdleMiss
  <2>2. /\ stateQ' \in {"precharge", "activate"} /\ targetStateQ' \in {"read", "write0"}
        /\ stateQ' = "activate" => reqBankW' \notin rowOpenQ'
    BY <1>4 DEF IdleMiss, LatchRequest, rowVars, reqBankW, ServeState
  <2> QED BY <2>1, <2>2, BooksKeep DEF RowsAgree, RightRow
<1>5. CASE IdleWait(in)
  <2>1. pins'.cmd = "NOP" /\ UNCHANGED rowVars /\ stateQ' = "idle"
    BY <1>5, <1>n DEF IdleWait, fsmVars
  <2> QED BY <2>1, BooksKeep DEF RowsAgree, RightRow
<1>6. CASE Activate
  <2>1. /\ pins'.cmd = "ACTIVE" /\ pins'.bank = reqBankW /\ pins'.addr = reqRowW
        /\ rowOpenQ' = rowOpenQ \union {reqBankW}
        /\ activeRowQ' = [activeRowQ EXCEPT ![reqBankW] = reqRowW]
        /\ stateQ' = "delay" /\ delayStateQ' = targetStateQ /\ targetStateQ' = targetStateQ
        /\ reqAddrQ' = reqAddrQ
    BY <1>6, <1>y DEF Activate, NopPins, Pins, GotoDelay, reqVars
  <2>2. stateQ = "activate" /\ reqBankW \notin rowOpenQ /\ targetStateQ \in {"read", "write0"}
    BY <1>6 DEF Activate, RowsAgree
  <2>3. reqBankW' = reqBankW /\ reqRowW' = reqRowW
    BY <2>1 DEF reqBankW, reqRowW
  <2>4. OpenedByPins' = {reqBankW} /\ ClosedByPins' = {}
    BY <2>1 DEF OpenedByPins, ClosedByPins
  <2>5. OpenAfterPins' = rowOpenQ'
    BY <1>t, <2>1, <2>4 DEF OpenAfterPins
  <2>6. \A b \in rowOpenQ' : RowAfterPins(b)' = activeRowQ'[b]
    BY <1>t, <1>y, <2>1, <2>4 DEF RowAfterPins
  <2>7. reqBankW' \in rowOpenQ' /\ activeRowQ'[reqBankW'] = reqRowW'
    BY <1>y, <2>1, <2>3
  <2> QED BY <1>t, <2>1, <2>2, <2>5, <2>6, <2>7 DEF RowsAgree, RightRow
<1>7. CASE Read
  <2>1. /\ pins'.cmd = "READ" /\ pins'.bank = reqBankW /\ UNCHANGED rowVars
        /\ stateQ' = "read_wait" /\ reqAddrQ' = reqAddrQ
    BY <1>7 DEF Read, reqVars
  <2>2. stateQ = "read" /\ reqBankW \in rowOpenQ /\ activeRowQ[reqBankW] = reqRowW
    BY <1>7 DEF Read, RowsAgree
  <2>3. reqBankW' = reqBankW /\ reqRowW' = reqRowW
    BY <2>1 DEF reqBankW, reqRowW
  <2> QED BY <1>t, <2>1, <2>2, <2>3, BooksKeep DEF RowsAgree, RightRow
<1>8. CASE ReadWait(in)
  <2>1. pins'.cmd = "NOP" /\ UNCHANGED rowVars
    BY <1>8, <1>n DEF ReadWait
  <2>2. \/ stateQ' = "read" /\ reqBankW' \in rowOpenQ' /\ activeRowQ'[reqBankW'] = reqRowW'
        \/ stateQ' = "delay" /\ delayStateQ' = "idle"
    BY <1>8 DEF ReadWait, BurstOn, RowHit, rowVars, reqBankW, reqRowW
  <2> QED BY <2>1, <2>2, BooksKeep DEF RowsAgree, RightRow
<1>9. CASE Write0(in)
  <2>1. /\ pins'.cmd = "WRITE" /\ pins'.bank = reqBankW /\ UNCHANGED rowVars
        /\ stateQ' = "write1" /\ reqAddrQ' = reqAddrQ
    BY <1>9 DEF Write0, reqVars
  <2>2. stateQ = "write0" /\ reqBankW \in rowOpenQ /\ activeRowQ[reqBankW] = reqRowW
    BY <1>9 DEF Write0, RowsAgree
  <2>3. reqBankW' = reqBankW /\ reqRowW' = reqRowW
    BY <2>1 DEF reqBankW, reqRowW
  <2> QED BY <1>t, <2>1, <2>2, <2>3, BooksKeep DEF RowsAgree, RightRow
<1>10. CASE Write1(in)
  <2>1. pins'.cmd = "NOP" /\ UNCHANGED rowVars
    BY <1>10, <1>n, <1>y DEF Write1, NopPins, Pins
  <2>2. \/ stateQ' = "write0" /\ reqBankW' \in rowOpenQ' /\ activeRowQ'[reqBankW'] = reqRowW'
        \/ stateQ' = "idle"
    BY <1>10 DEF Write1, BurstOn, RowHit, LatchRequest, rowVars, reqBankW, reqRowW
  <2> QED BY <2>1, <2>2, BooksKeep DEF RowsAgree, RightRow
<1>11. CASE PrechargeAll
  <2>1. /\ pins'.cmd = "PRECHARGE" /\ pins'.a10 = TRUE /\ rowOpenQ' = {}
        /\ stateQ' = "delay" /\ delayStateQ' = "refresh"
    BY <1>11, <1>y DEF PrechargeAll, NopPins, Pins, GotoDelay
  <2>2. OpenAfterPins' = {}
    BY <1>t, <1>y, <2>1 DEF OpenAfterPins, OpenedByPins, ClosedByPins
  <2> QED BY <2>1, <2>2 DEF RowsAgree, RightRow
<1>12. CASE PrechargeBank
  <2>1. /\ pins'.cmd = "PRECHARGE" /\ pins'.a10 = FALSE /\ pins'.bank = reqBankW
        /\ rowOpenQ' = rowOpenQ \ {reqBankW} /\ activeRowQ' = activeRowQ
        /\ stateQ' = "delay" /\ delayStateQ' = "activate" /\ targetStateQ' = targetStateQ
        /\ reqAddrQ' = reqAddrQ
    BY <1>12, <1>y DEF PrechargeBank, NopPins, Pins, GotoDelay, reqVars
  <2>2. targetStateQ \in {"read", "write0"}
    BY <1>12 DEF PrechargeBank, RowsAgree
  <2>3. reqBankW' = reqBankW
    BY <2>1 DEF reqBankW
  <2>4. OpenedByPins' = {} /\ ClosedByPins' = {reqBankW}
    BY <2>1 DEF OpenedByPins, ClosedByPins
  <2>5. OpenAfterPins' = rowOpenQ'
    BY <1>t, <2>1, <2>4 DEF OpenAfterPins
  <2>6. \A b \in rowOpenQ' : RowAfterPins(b)' = activeRowQ'[b]
    BY <1>t, <2>1, <2>4 DEF RowAfterPins
  <2> QED BY <2>1, <2>2, <2>3, <2>5, <2>6 DEF RowsAgree, RightRow
<1>13. CASE Refresh
  <2>1. /\ pins'.cmd = "REFRESH" /\ UNCHANGED rowVars
        /\ stateQ' = "delay" /\ delayStateQ' = "idle"
    BY <1>13, <1>y DEF Refresh, NopPins, Pins, GotoDelay
  <2>2. rowOpenQ = {}
    BY <1>13 DEF Refresh, RowsAgree
  <2> QED BY <1>t, <2>1, <2>2, BooksKeep DEF RowsAgree, RightRow
<1>14. CASE Delay
  <2>1. pins'.cmd = "NOP" /\ UNCHANGED rowVars
    BY <1>14, <1>n DEF Delay
  <2>2. /\ stateQ = "delay" /\ delayStateQ' = delayStateQ /\ targetStateQ' = targetStateQ
        /\ Goal' = Goal
    BY <1>14 DEF Delay, TypeOK, FsmTypeOK
  <2>3. reqBankW' = reqBankW /\ reqRowW' = reqRowW
    BY <1>14 DEF Delay, reqVars, reqBankW, reqRowW
  <2>4. rowOpenQ' = rowOpenQ /\ activeRowQ' = activeRowQ
    BY <2>1 DEF rowVars
  <2> HIDE DEF Goal
  <2> QED BY <2>1, <2>2, <2>3, <2>4, BooksKeep DEF RowsAgree, RightRow
<1> QED
  BY <1>1, <1>2, <1>3, <1>4, <1>5, <1>6, <1>7, <1>8, <1>9, <1>10, <1>11, <1>12, <1>13, <1>14 DEF Fsm

LEMMA StutterRows == RowsAgree /\ UNCHANGED chipVars => RowsAgree'
BY DEF RowsAgree, OpenAfterPins, RowAfterPins, OpenedByPins, ClosedByPins, Goal, RightRow,
       reqBankW, reqRowW, chipVars, coreVars, memVars, fsmVars, reqVars, rowVars, outVars, bankVars

\* The controller's record of open rows is the chip's, ahead of it by the
\* command on the pins, and its state machine acts on it accordingly.
THEOREM RowsAlwaysAgree == Spec => []RowsAgree
<1>1. TypeOK /\ RowsAgree /\ [Next]_chipVars => RowsAgree'
  <2>1. ASSUME TypeOK, RowsAgree, NEW in \in Requests, Cycle(in) PROVE RowsAgree'
    BY <2>1, RowsStep DEF Cycle, CoreStep
  <2> QED BY <2>1, StutterRows DEF Next
<1> QED BY <1>1, RowsInit, TypeCorrect, PTL DEF Spec

\* No command the controller issues trips an assertion of the chip.
THEOREM AssertionsHold == Spec => []ChipAssertions
<1>1. RowsAgree => ChipAssertions
  BY DEF RowsAgree, ChipAssertions, RefreshClosed, ActivateClosed, AccessOpen
<1> QED BY <1>1, RowsAlwaysAgree, PTL

\* Every READ and WRITE reaches the row its request names.
THEOREM AlwaysRightRow == Spec => []RightRow
<1>1. RowsAgree => RightRow
  BY DEF RowsAgree
<1> QED BY <1>1, RowsAlwaysAgree, PTL

------------------------------------------------------------------------------
\* Refreshes come on time.

\* The bound covers every way to the refresh state, and the delays are positive.
LEMMA Bounds ==
  /\ TrpCycles \in 1 .. 15 /\ TrcdCycles \in 1 .. 15 /\ CasLatency \in 1 .. 15
  /\ TrfcCycles \in 1 .. 15
  /\ LongestRequest = 2 * TrpCycles + TrcdCycles + CasLatency + 6
  /\ ServeBound \in Nat /\ LongestRequest <= ServeBound /\ TrfcCycles + 1 <= ServeBound
BY DelayAssumption DEF LongestRequest, ServeBound

LEMMA RefreshInit == Init => RefreshNears
BY Bounds DEF Init, CoreInit, RefreshNears, CyclesLeft, CyclesTo

\* A step that starts a new way to the refresh state, or goes on with one,
\* keeps the invariant when the way is no longer than the bound and, with a
\* refresh due, has become shorter by a cycle.
LEMMA NearerStep ==
  ASSUME TypeOK, RefreshNears, RefreshTimer,
         CyclesLeft' \in Int, CyclesLeft \in Int, CyclesLeft' <= ServeBound,
         refreshQ /\ stateQ # "refresh" => CyclesLeft' <= CyclesLeft - 1,
         stateQ' = "delay" => delayQ' >= 1,
         stateQ' = "init" => stateQ = "init"
  PROVE  RefreshNears'
<1>t. refreshCntQ \in 0 .. RefreshCycles /\ refreshQ \in BOOLEAN
  BY DEF TypeOK, PipeTypeOK
<1>1. stateQ' = "init" => ~refreshQ'
  BY DEF RefreshNears, RefreshTimer, RefreshTick
<1>2. ASSUME refreshQ' PROVE refreshCntQ' + CyclesLeft' <= ServeBound
  <2>1. CASE RefreshTick
    <3>1. refreshCntQ' = 0
      BY <2>1 DEF RefreshTimer, RefreshTick
    <3> HIDE DEF CyclesLeft
    <3> QED BY <3>1
  <2>2. CASE ~RefreshTick
    <3>1. refreshQ /\ stateQ # "refresh"
      BY <1>2, <2>2 DEF RefreshTimer
    <3>2. stateQ # "init"
      BY <3>1 DEF RefreshNears
    <3>3. refreshCntQ' = refreshCntQ + 1
      BY <2>2, <3>2 DEF RefreshTimer
    <3>4. CyclesLeft' <= CyclesLeft - 1 /\ refreshCntQ + CyclesLeft <= ServeBound
      BY <3>1 DEF RefreshNears
    <3>5. refreshCntQ \in Int /\ ServeBound \in Int
      BY <1>t, Bounds, TimerAssumption
    <3>6. \A c, l, m, s \in Int : m <= l - 1 /\ c + l <= s => c + 1 + m <= s
      OBVIOUS
    <3> QED BY <3>3, <3>4, <3>5, <3>6
  <2> QED BY <2>1, <2>2
<1> QED BY <1>1, <1>2 DEF RefreshNears

LEMMA RefreshStep ==
  ASSUME TypeOK, RowsAgree, RefreshNears, NEW in \in Requests, Fsm(in), RefreshTimer
  PROVE  RefreshNears'
<1> USE Bounds DEF CyclesLeft, CyclesTo, FromIdle
<1>t. /\ stateQ \in States /\ delayQ \in 0 .. 15 /\ refreshQ \in BOOLEAN
      /\ delayStateQ \in {"idle", "activate", "read", "write0", "refresh"}
  BY DEF TypeOK, FsmTypeOK, PipeTypeOK
<1>i. CyclesLeft \in Int
  <2>1. /\ TrpCycles \in Int /\ TrcdCycles \in Int /\ TrfcCycles \in Int /\ CasLatency \in Int
        /\ FromIdle \in Int /\ delayQ \in Int
    BY <1>t
  <2> HIDE DEF FromIdle
  <2>2. \A s : CyclesTo(s) \in Int
    BY <2>1
  <2> HIDE DEF CyclesTo
  <2> QED BY <2>1, <2>2
<1>s. ASSUME CyclesLeft' \in Int, CyclesLeft' <= ServeBound,
             refreshQ /\ stateQ # "refresh" => CyclesLeft' <= CyclesLeft - 1,
             stateQ' = "delay" => delayQ' >= 1,
             stateQ' = "init" => stateQ = "init"
      PROVE  RefreshNears'
  BY <1>s, <1>i, NearerStep
<1>1. CASE PowerUp
  BY <1>1, <1>s DEF PowerUp, RefreshNears, RowsAgree, Goal, rowVars
<1>2. CASE IdleRefresh
  BY <1>2, <1>s DEF IdleRefresh, rowVars
<1>3. CASE IdleHit(in)
  BY <1>3, <1>s DEF IdleHit, ServeState
<1>4. CASE IdleMiss(in)
  BY <1>4, <1>s DEF IdleMiss, ServeState
<1>5. CASE IdleWait(in)
  BY <1>5, <1>s DEF IdleWait, fsmVars, rowVars
<1>6. CASE Activate
  BY <1>6, <1>s, SMTT(30) DEF Activate, GotoDelay, RowsAgree, Goal
<1>7. CASE Read
  BY <1>7, <1>s DEF Read
<1>8. CASE ReadWait(in)
  BY <1>8, <1>s DEF ReadWait, BurstOn, rowVars
<1>9. CASE Write0(in)
  BY <1>9, <1>s DEF Write0
<1>10. CASE Write1(in)
  BY <1>10, <1>s DEF Write1, BurstOn, rowVars
<1>11. CASE PrechargeAll
  BY <1>11, <1>s DEF PrechargeAll, GotoDelay
<1>12. CASE PrechargeBank
  BY <1>12, <1>s DEF PrechargeBank, GotoDelay
<1>13. CASE Refresh
  BY <1>13, <1>s DEF Refresh, GotoDelay, rowVars, RowsAgree, Goal
<1>14. CASE Delay
  <2>1. delayQ >= 1
    BY <1>14 DEF Delay, RefreshNears
  <2>2. delayQ' = delayQ - 1
    BY <1>14, <1>t, <2>1 DEF Delay
  <2>3. CyclesTo(delayStateQ)' = CyclesTo(delayStateQ) /\ CyclesTo(delayStateQ) \in Int
    BY <1>14, <1>t DEF Delay, rowVars
  <2>4. /\ stateQ = "delay" /\ CyclesLeft = delayQ + CyclesTo(delayStateQ)
        /\ CyclesLeft <= ServeBound
    BY <1>14 DEF Delay, RefreshNears
  <2>5. CASE delayQ = 1
    <3>1. stateQ' = delayStateQ /\ delayStateQ \notin {"init", "delay"}
      BY <1>14, <1>t, <2>5 DEF Delay
    <3>2. CyclesLeft' = CyclesTo(delayStateQ)
      BY <1>14, <2>3, <3>1 DEF Delay
    <3> HIDE DEF CyclesLeft, CyclesTo, ServeBound
    <3>3. CyclesLeft' = CyclesLeft - 1
      BY <2>3, <2>4, <2>5, <3>2
    <3>4. CyclesLeft' \in Int /\ CyclesLeft' <= ServeBound
      BY <2>3, <2>4, <2>5, <3>2, <3>3, Bounds
    <3> QED BY <1>s, <3>1, <3>3, <3>4
  <2>6. CASE delayQ # 1
    <3>1. stateQ' = "delay" /\ delayQ' >= 1
      BY <1>14, <1>t, <2>1, <2>2, <2>6 DEF Delay
    <3>2. CyclesLeft' = delayQ' + CyclesTo(delayStateQ)
      BY <1>14, <2>3, <3>1 DEF Delay
    <3> HIDE DEF CyclesLeft, CyclesTo, ServeBound
    <3>3. CyclesLeft' = CyclesLeft - 1
      BY <1>t, <2>2, <2>3, <2>4, <3>2
    <3>4. CyclesLeft' \in Int /\ CyclesLeft' <= ServeBound
      BY <1>t, <2>2, <2>3, <2>4, <3>2, <3>3, Bounds
    <3> QED BY <1>s, <3>1, <3>3, <3>4
  <2> QED BY <2>5, <2>6
<1> QED
  BY <1>1, <1>2, <1>3, <1>4, <1>5, <1>6, <1>7, <1>8, <1>9, <1>10, <1>11, <1>12, <1>13, <1>14 DEF Fsm

LEMMA StutterRefresh == RefreshNears /\ UNCHANGED chipVars => RefreshNears'
BY DEF RefreshNears, CyclesLeft, CyclesTo, FromIdle, chipVars, coreVars, fsmVars, rowVars, pipeVars

LEMMA AlwaysNears == Spec => []RefreshNears
<1>1. TypeOK /\ RowsAgree /\ RefreshNears /\ [Next]_chipVars => RefreshNears'
  <2>1. ASSUME TypeOK, RowsAgree, RefreshNears, NEW in \in Requests, Cycle(in) PROVE RefreshNears'
    BY <2>1, RefreshStep DEF Cycle, CoreStep
  <2> QED BY <2>1, StutterRefresh DEF Next
<1> QED BY <1>1, RefreshInit, TypeCorrect, RowsAlwaysAgree, PTL DEF Spec

\* Whatever the client does, a refresh is issued within ServeBound cycles of
\* falling due.
THEOREM RefreshAlwaysOnTime == Spec => []RefreshOnTime
<1>1. TypeOK /\ RefreshNears => RefreshOnTime
  <2> SUFFICES ASSUME TypeOK, RefreshNears, refreshQ PROVE refreshCntQ <= ServeBound
    BY DEF RefreshOnTime
  <2>1. CyclesLeft \in Nat
    <3>1. LongestRequest \in Nat /\ FromIdle \in Nat
      BY Bounds DEF FromIdle
    <3>2. \A goal : CyclesTo(goal) \in Nat
      BY <3>1, Bounds DEF CyclesTo
    <3>3. delayQ \in Nat
      BY DEF TypeOK, FsmTypeOK, States
    <3> QED BY <3>2, <3>3 DEF CyclesLeft
  <2>2. refreshCntQ \in Nat
    BY TimerAssumption DEF TypeOK, PipeTypeOK
  <2> QED BY <2>1, <2>2, Bounds DEF RefreshNears
<1> QED BY <1>1, TypeCorrect, AlwaysNears, PTL

\* Hence no refresh is lost: with a period longer than the bound, a tick never
\* finds the refresh before it still due.
THEOREM NoRefreshLost ==
  ASSUME RefreshCycles > ServeBound
  PROVE  Spec => [](RefreshTick => ~refreshQ)
<1>1. RefreshOnTime => (RefreshTick => ~refreshQ)
  BY Bounds, TimerAssumption DEF RefreshOnTime, RefreshTick
<1> QED BY <1>1, RefreshAlwaysOnTime, PTL

------------------------------------------------------------------------------
\* The pins.

\* The inductive invariant.  The countdown tells how far the power-up sequence
\* has come; a READ or WRITE is on the pins in the one state after it was issued,
\* so the column it leaves to come meets a NOP.
PowerInv ==
  /\ stateQ # "init" \/ initTimerQ < 50 => ckeQ
  /\ stateQ # "init" \/ initTimerQ < 9 => burstLenQ = 1 /\ writeBurstEnQ
  /\ stateQ = "init" => /\ pins.cmd \in {"INHIBIT", "NOP", "PRECHARGE", "REFRESH", "LOAD_MODE"}
                        /\ pins.cmd \in {"PRECHARGE", "REFRESH", "LOAD_MODE"} => initTimerQ < 50
  /\ stateQ = "init" /\ initTimerQ = 9 => pins.cmd = "LOAD_MODE"
  /\ pins.cmd = "LOAD_MODE" => stateQ = "init" /\ initTimerQ = 9 /\ pins.addr = MODE_REG
  /\ pins.cmd # "TERMINATE"

BurstInv ==
  /\ pins.cmd = "READ" => stateQ = "read_wait"
  /\ pins.cmd = "WRITE" => stateQ = "write1"
  /\ pins.cmd \in {"READ", "WRITE"} => pins.addr % 2 = 0
  /\ burstReadCountQ \in 0 .. 1 /\ burstWriteCountQ \in 0 .. 1
  /\ burstReadCountQ > 0 => stateQ \in {"read", "delay"}
  /\ BurstsUndisturbed
  /\ BusExclusive

LEMMA PinsInit == Init => PowerInv /\ BurstInv
BY TimerAssumption
   DEF Init, CoreInit, MemInit, PowerInv, BurstInv, BurstsUndisturbed, BusExclusive, InitTime

\* What the state machine puts on the pins, and where it goes.
LEMMA PinsOfStep ==
  ASSUME TypeOK, NEW in \in Requests, Fsm(in)
  PROVE  /\ stateQ # "init" => /\ stateQ' # "init" /\ UNCHANGED ckeQ
                               /\ pins'.cmd \in {"NOP", "ACTIVE", "READ", "WRITE", "PRECHARGE", "REFRESH"}
         /\ pins'.cmd = "READ" => stateQ = "read" /\ stateQ' = "read_wait" /\ pins'.addr = reqColW
         /\ pins'.cmd = "WRITE" => stateQ = "write0" /\ stateQ' = "write1" /\ pins'.addr = reqColW
         /\ stateQ = "read_wait" => pins'.cmd = "NOP" /\ stateQ' \in {"read", "delay"}
         /\ stateQ = "write1" => pins'.cmd = "NOP"
<1>n. NopPins \in Pins /\ NopPins.cmd = "NOP"
  BY NopPinsType DEF TypeOK
<1>s. stateQ \in States /\ delayStateQ # "init"
  BY DEF TypeOK, FsmTypeOK
<1> USE DEF fsmVars, reqVars, rowVars, outVars, Pins, GotoDelay
<1>1. CASE PowerUp
  BY <1>1, <1>n DEF PowerUp, InitPins
<1>2. CASE IdleRefresh
  BY <1>2, <1>n DEF IdleRefresh
<1>3. CASE IdleHit(in)
  BY <1>3, <1>n DEF IdleHit, ServeState
<1>4. CASE IdleMiss(in)
  BY <1>4, <1>n DEF IdleMiss
<1>5. CASE IdleWait(in)
  BY <1>5, <1>n DEF IdleWait
<1>6. CASE Activate
  BY <1>6, <1>n DEF Activate
<1>7. CASE Read
  BY <1>7 DEF Read
<1>8. CASE ReadWait(in)
  BY <1>8, <1>n DEF ReadWait
<1>9. CASE Write0(in)
  BY <1>9 DEF Write0
<1>10. CASE Write1(in)
  BY <1>10, <1>n DEF Write1
<1>11. CASE PrechargeAll
  BY <1>11, <1>n DEF PrechargeAll
<1>12. CASE PrechargeBank
  BY <1>12, <1>n DEF PrechargeBank
<1>13. CASE Refresh
  BY <1>13, <1>n DEF Refresh
<1>14. CASE Delay
  BY <1>14, <1>n, <1>s DEF Delay
<1> QED
  BY <1>1, <1>2, <1>3, <1>4, <1>5, <1>6, <1>7, <1>8, <1>9, <1>10, <1>11, <1>12, <1>13, <1>14 DEF Fsm

\* What the chip does about its mode register and its bursts.
LEMMA ModeOfStep ==
  ASSUME TypeOK, MemStep(pins, DQ)
  PROVE  IF pins.cmd = "LOAD_MODE"
         THEN burstLenQ' = pins.addr % 8 /\ writeBurstEnQ' = ((pins.addr \div 512) % 2 = 0)
         ELSE UNCHANGED modeVars
BY DEF MemStep, LoadMode, RefreshRows, ActivateRow, ReadColumn, WriteColumn, BurstColumn, Quiet,
       BurstTerminate, PrechargeRows, modeVars

LEMMA PowerStep ==
  ASSUME TypeOK, PowerInv, NEW in \in Requests, Fsm(in), MemStep(pins, DQ)
  PROVE  PowerInv'
<1>m. pins.cmd = "LOAD_MODE" => burstLenQ' = 1 /\ writeBurstEnQ'
  <2>1. MODE_REG % 8 = 1 /\ (MODE_REG \div 512) % 2 = 0
    BY DEF MODE_REG
  <2> SUFFICES ASSUME pins.cmd = "LOAD_MODE" PROVE burstLenQ' = 1 /\ writeBurstEnQ'
    OBVIOUS
  <2>2. pins.addr = MODE_REG
    BY DEF PowerInv
  <2>3. burstLenQ' = pins.addr % 8 /\ writeBurstEnQ' = ((pins.addr \div 512) % 2 = 0)
    BY ModeOfStep
  <2> QED BY <2>1, <2>2, <2>3, Zenon
<1>u. pins.cmd # "LOAD_MODE" => burstLenQ' = burstLenQ /\ writeBurstEnQ' = writeBurstEnQ
  BY ModeOfStep DEF modeVars
<1>1. CASE stateQ = "init"
  <2>1. PowerUp
    BY <1>1 DEF Fsm, IdleRefresh, IdleHit, IdleMiss, IdleWait, Activate, Read, ReadWait, Write0,
                Write1, PrechargeAll, PrechargeBank, Refresh, Delay
  <2>2. /\ initTimerQ \in Nat /\ initTimerQ' = initTimerQ - 1
        /\ ckeQ \in BOOLEAN /\ ckeQ' = (ckeQ \/ initTimerQ = 50)
        /\ stateQ' = IF initTimerQ = 0 THEN "idle" ELSE "init"
    BY <1>1, <2>1, TimerAssumption DEF PowerUp, TypeOK, FsmTypeOK, InitTime
  <2>3. NopPins \in Pins /\ NopPins.cmd = "NOP"
    BY NopPinsType DEF TypeOK
  <2>4. /\ pins'.cmd \in {"NOP", "PRECHARGE", "REFRESH", "LOAD_MODE"}
        /\ pins'.cmd \in {"PRECHARGE", "REFRESH", "LOAD_MODE"} => initTimerQ \in {10, 20, 30, 40}
        /\ initTimerQ = 10 <=> pins'.cmd = "LOAD_MODE"
        /\ pins'.cmd = "LOAD_MODE" => pins'.addr = MODE_REG
    BY <2>1, <2>3 DEF PowerUp, InitPins, Pins
  <2>5. stateQ' # "init" \/ initTimerQ' < 50 => ckeQ'
    <3>1. stateQ' # "init" \/ initTimerQ' < 50 => initTimerQ = 50 \/ initTimerQ < 50
      BY <2>2
    <3>2. initTimerQ < 50 => ckeQ
      BY DEF PowerInv
    <3> QED BY <2>2, <3>1, <3>2, Zenon
  <2>6. stateQ' # "init" \/ initTimerQ' < 9 => burstLenQ' = 1 /\ writeBurstEnQ'
    <3>1. stateQ' # "init" \/ initTimerQ' < 9 => initTimerQ = 9 \/ initTimerQ < 9
      BY <2>2
    <3>2. /\ initTimerQ < 9 => burstLenQ = 1 /\ writeBurstEnQ
          /\ initTimerQ = 9 => pins.cmd = "LOAD_MODE"
      BY <1>1 DEF PowerInv
    <3> QED BY <1>m, <1>u, <3>1, <3>2, Zenon
  <2> QED BY <2>2, <2>4, <2>5, <2>6 DEF PowerInv
<1>2. CASE stateQ # "init"
  BY <1>2, <1>u, PinsOfStep DEF PowerInv
<1> QED BY <1>1, <1>2

LEMMA PoweredUpFollows == TypeOK /\ PowerInv /\ BurstInv => PoweredUp
BY DEF TypeOK, FsmTypeOK, Pins, Commands, PowerInv, BurstInv, PoweredUp

\* The cell after an even column is odd: the other half of the word.
LEMMA NextIsOdd ==
  ASSUME NEW row \in Rows, NEW bank \in Banks, NEW addr \in Nat, addr % 2 = 0
  PROVE  NextCell(CellAddr(row, bank, addr % NumCols)) % 2 = 1
<1>1. NumCols \in Nat \ {0} /\ NumCells \in Nat \ {0}
  BY GeometryAssumption DEF NumCols, NumCells, NumBanks
<1>2. PICK half \in Nat : addr = 2 * half
  <2>1. addr = 2 * (addr \div 2) /\ addr \div 2 \in Nat
    OBVIOUS
  <2> QED BY <2>1
<1>3. PICK col \in Int : addr % NumCols = 2 * col
  <2>1. addr = NumCols * (addr \div NumCols) + (addr % NumCols) /\ addr \div NumCols \in Int
    BY <1>1
  <2> DEFINE q == addr \div NumCols
             r == addr % NumCols
  <2>2. q \in Int /\ r \in Int /\ 2 * half = (2 * RowWords) * q + r /\ RowWords \in Int
    BY <1>1, <1>2, <2>1, GeometryAssumption DEF NumCols
  <2> HIDE DEF q, r
  <2>3. r = 2 * (half - RowWords * q) /\ half - RowWords * q \in Int
    BY <2>2
  <2> QED BY <2>3 DEF r
<1>4. CellAddr(row, bank, addr % NumCols) \in Cells
  <2>1. addr % NumCols \in 0 .. NumCols - 1
    BY <1>1, ModRange
  <2> QED BY <2>1, CellRange
<1>5. PICK k \in Int : CellAddr(row, bank, addr % NumCols) = 2 * k
  <2> DEFINE p == row * NumBanks + bank
  <2>1. p \in Int
    BY GeometryAssumption DEF Rows, Banks, NumBanks
  <2> HIDE DEF p
  <2>2. p * NumCols = 2 * (p * RowWords) /\ p * RowWords \in Int
    BY <2>1, GeometryAssumption DEF NumCols
  <2>3. CellAddr(row, bank, addr % NumCols) = 2 * (p * RowWords + col)
    BY <1>3, <2>2 DEF CellAddr, p
  <2> QED BY <2>2, <2>3
<1>6. PICK n \in Int : NumCells = 2 * n
  <2>1. NumCells = 2 * (NumRows * NumBanks * RowWords) /\ NumRows * NumBanks * RowWords \in Int
    BY GeometryAssumption DEF NumCells, NumCols, NumBanks
  <2> QED BY <2>1
<1> DEFINE c == CellAddr(row, bank, addr % NumCols)
<1>7. c \in 0 .. NumCells - 1 /\ c = 2 * k
  BY <1>4, <1>5 DEF Cells
<1> HIDE DEF c
<1>8. c + 1 \in 0 .. NumCells - 1
  BY <1>6, <1>7
<1>9. (c + 1) % NumCells = c + 1
  BY <1>1, <1>8
<1>10. (c + 1) % 2 = 1
  BY <1>7
<1> QED BY <1>9, <1>10 DEF NextCell, c

\* What a cycle makes of the burst of the chip: one begins, or the column left of
\* the last one is served and none is left.
LEMMA BurstOfStep ==
  ASSUME TypeOK, PowerInv, BurstInv, NEW in \in Requests, Fsm(in), MemStep(pins, DQ)
  PROVE  /\ pins.cmd \in {"READ", "WRITE"} =>
              /\ pins'.cmd = "NOP" /\ burstAddrQ' % 2 = 1
              /\ IF pins.cmd = "READ"
                 THEN burstReadCountQ' = 1 /\ burstWriteCountQ' = 0 /\ memOutEnQ'
                 ELSE burstReadCountQ' = 0 /\ burstWriteCountQ' = 1 /\ ~memOutEnQ'
         /\ pins.cmd \notin {"READ", "WRITE"} =>
              /\ burstReadCountQ' = 0 /\ burstWriteCountQ' = 0
              /\ memOutEnQ' => burstReadCountQ > 0
<1>t. /\ pins \in Pins /\ burstAddrQ \in Cells /\ memActiveRowQ \in [Banks -> Rows]
      /\ burstReadCountQ \in 0 .. 1 /\ burstWriteCountQ \in 0 .. 1
  BY DEF TypeOK, FsmTypeOK, MemTypeOK, BurstInv
<1>1. ASSUME pins.cmd \in {"READ", "WRITE"}
      PROVE  /\ pins'.cmd = "NOP" /\ burstAddrQ' % 2 = 1
             /\ IF pins.cmd = "READ"
                THEN burstReadCountQ' = 1 /\ burstWriteCountQ' = 0 /\ memOutEnQ'
                ELSE burstReadCountQ' = 0 /\ burstWriteCountQ' = 1 /\ ~memOutEnQ'
  <2>1. pins'.cmd = "NOP"
    BY <1>1, PinsOfStep DEF BurstInv
  <2>2. burstReadCountQ = 0 /\ burstWriteCountQ = 0
    BY <1>1, <1>t DEF BurstInv, BurstsUndisturbed
  <2>3. BurstTail = 1 /\ writeBurstEnQ
    BY <1>1, PoweredUpFollows DEF PoweredUp, BurstTail
  <2>4. NextCell(PinCell(pins)) % 2 = 1
    BY <1>1, <1>t, NextIsOdd DEF PinCell, BurstInv, Pins
  <2>5. CASE pins.cmd = "READ"
    <3>1. ReadColumn(pins)
      BY <2>5 DEF MemStep, LoadMode, RefreshRows, ActivateRow, WriteColumn, BurstColumn, Quiet,
                  BurstTerminate, PrechargeRows
    <3> QED BY <2>1, <2>2, <2>3, <2>4, <2>5, <3>1 DEF ReadColumn, MemRead
  <2>6. CASE pins.cmd = "WRITE"
    <3>1. WriteColumn(pins, DQ)
      BY <2>6 DEF MemStep, LoadMode, RefreshRows, ActivateRow, ReadColumn, BurstColumn, Quiet,
                  BurstTerminate, PrechargeRows
    <3> QED BY <2>1, <2>2, <2>3, <2>4, <2>6, <3>1 DEF WriteColumn, NoRead
  <2> QED BY <1>1, <2>5, <2>6
<1>2. ASSUME pins.cmd \notin {"READ", "WRITE"}
      PROVE  /\ burstReadCountQ' = 0 /\ burstWriteCountQ' = 0
             /\ memOutEnQ' => burstReadCountQ > 0
  <2>1. CASE burstReadCountQ > 0 \/ burstWriteCountQ > 0
    <3>1. pins.cmd = "NOP"
      BY <2>1 DEF BurstInv, BurstsUndisturbed
    <3>2. BurstColumn(pins, DQ)
      BY <1>t, <2>1, <3>1 DEF MemStep, LoadMode, RefreshRows, ActivateRow, ReadColumn, WriteColumn,
                              Quiet, BurstTerminate, PrechargeRows
    <3> QED BY <1>t, <3>2 DEF BurstColumn, MemRead, NoRead
  <2>2. CASE burstReadCountQ = 0 /\ burstWriteCountQ = 0
    BY <1>2, <2>2 DEF MemStep, LoadMode, RefreshRows, ActivateRow, ReadColumn, WriteColumn,
       BurstColumn, Quiet, BurstTerminate, PrechargeRows, NoRead, burstVars
  <2> QED BY <1>t, <2>1, <2>2
<1> QED BY <1>1, <1>2

LEMMA BurstStep ==
  ASSUME TypeOK, PowerInv, BurstInv, NEW in \in Requests, Fsm(in), DataPipeline(in, DQ),
         MemStep(pins, DQ)
  PROVE  BurstInv'
<1>p. /\ pins'.cmd = "READ" => stateQ' = "read_wait"
      /\ pins'.cmd = "WRITE" => stateQ' = "write1"
      /\ pins'.cmd \in {"READ", "WRITE"} => pins'.addr % 2 = 0
  <2>1. \A a \in Nat : AddrCol(a) % 2 = 0
    <3>1. \A a \in Nat : a % RowWords \in Int
      BY GeometryAssumption
    <3>2. \A x \in Int : (2 * x) % 2 = 0
      OBVIOUS
    <3> QED BY <3>1, <3>2 DEF AddrCol
  <2>2. reqColW % 2 = 0
    BY <2>1 DEF reqColW, TypeOK, FsmTypeOK
  <2> QED BY <2>2, PinsOfStep
<1>1. /\ pins.cmd \in {"READ", "WRITE"} =>
           /\ pins'.cmd = "NOP" /\ burstAddrQ' % 2 = 1
           /\ IF pins.cmd = "READ"
              THEN burstReadCountQ' = 1 /\ burstWriteCountQ' = 0 /\ memOutEnQ'
              ELSE burstReadCountQ' = 0 /\ burstWriteCountQ' = 1 /\ ~memOutEnQ'
      /\ pins.cmd \notin {"READ", "WRITE"} =>
           /\ burstReadCountQ' = 0 /\ burstWriteCountQ' = 0
           /\ memOutEnQ' => burstReadCountQ > 0
  BY BurstOfStep
<1>3. BurstsUndisturbed'
  BY <1>1 DEF BurstsUndisturbed
<1>4. burstReadCountQ' \in 0 .. 1 /\ burstWriteCountQ' \in 0 .. 1
  BY <1>1
<1>5. burstReadCountQ' > 0 => stateQ' \in {"read", "delay"}
  <2>1. burstReadCountQ' > 0 => pins.cmd = "READ"
    BY <1>1
  <2>2. pins.cmd = "READ" => stateQ = "read_wait"
    BY DEF BurstInv
  <2> QED BY <2>1, <2>2, PinsOfStep
<1>6. BusExclusive'
  <2>1. memOutEnQ' => stateQ \in {"read_wait", "read", "delay"}
    BY <1>1 DEF BurstInv
  <2>2. outEnQ' => stateQ \in {"write0", "write1"}
    BY DEF DataPipeline
  <2> QED BY <2>1, <2>2 DEF BusExclusive
<1> QED BY <1>p, <1>3, <1>4, <1>5, <1>6 DEF BurstInv

LEMMA StutterPins == PowerInv /\ BurstInv /\ UNCHANGED chipVars => PowerInv' /\ BurstInv'
BY DEF PowerInv, BurstInv, BurstsUndisturbed, BusExclusive, chipVars, coreVars, memVars, fsmVars,
       outVars, pipeVars, modeVars, burstVars

LEMMA PinsAlways == Spec => [](TypeOK /\ PowerInv /\ BurstInv)
<1>1. TypeOK /\ PowerInv /\ BurstInv /\ [Next]_chipVars => PowerInv' /\ BurstInv'
  <2>1. ASSUME TypeOK, PowerInv, BurstInv, NEW in \in Requests, Cycle(in)
        PROVE  PowerInv' /\ BurstInv'
    BY <2>1, PowerStep, BurstStep DEF Cycle, CoreStep
  <2> QED BY <2>1, StutterPins DEF Next
<1> QED BY <1>1, PinsInit, TypeCorrect, PTL DEF Spec

\* The clock is enabled before the first command, and the mode register holds the
\* burst length of the controller before the first READ or WRITE.
THEOREM AlwaysPoweredUp == Spec => []PoweredUp
BY PoweredUpFollows, PinsAlways, PTL

\* No command meets a burst whose second half is still to come.
THEOREM BurstsNeverDisturbed == Spec => []BurstsUndisturbed
<1>1. BurstInv => BurstsUndisturbed
  BY DEF BurstInv
<1> QED BY <1>1, PinsAlways, PTL

\* Controller and chip never drive the data pins in the same cycle.
THEOREM BusAlwaysExclusive == Spec => []BusExclusive
<1>1. BurstInv => BusExclusive
  BY DEF BurstInv
<1> QED BY <1>1, PinsAlways, PTL

------------------------------------------------------------------------------
\* What is served, and what is under way.

\* The state that is to serve the latched request, while the machine heads for it.
Heading == IF Goal \in {"precharge", "activate"} THEN targetStateQ ELSE Goal

\* The reads are out of the pipeline when a write begins: a read is followed by
\* the delay of the CAS latency, so only its acknowledgement may still be to come.
ReadsDrain ==
  /\ \A i \in 1 .. ReadDepth : readPipeQ[i] =>
       \/ stateQ \in {"read", "read_wait"}
       \/ stateQ = "delay" /\ delayStateQ = "idle" /\ i + delayQ >= ReadDepth
       \/ stateQ = "idle" /\ i = ReadDepth
  /\ stateQ = "delay" => delayQ >= 1
  /\ stateQ = "write1" => ~ackQ

\* Where each state leads.
LEMMA StateStep ==
  ASSUME TypeOK, NEW in \in Requests, Fsm(in)
  PROVE  /\ stateQ = "read" => stateQ' = "read_wait"
         /\ stateQ = "read_wait" => \/ stateQ' = "read"
                                    \/ stateQ' = "delay" /\ delayStateQ' = "idle" /\ delayQ' = CasLatency
         /\ stateQ = "write0" => stateQ' = "write1"
         /\ stateQ' = "write1" => stateQ = "write0"
         /\ stateQ = "delay" => /\ UNCHANGED delayStateQ /\ delayQ' = (delayQ - 1) % 16
                                /\ stateQ' = IF delayQ = 1 THEN delayStateQ ELSE "delay"
         /\ stateQ' = "delay" /\ stateQ # "delay" => delayQ' \in 1 .. 15
<1> USE DEF fsmVars, GotoDelay
<1>s. delayStateQ # "write1" /\ targetStateQ # "write1"
  BY DEF TypeOK, FsmTypeOK
<1>1. CASE PowerUp
  BY <1>1 DEF PowerUp
<1>2. CASE IdleRefresh
  BY <1>2 DEF IdleRefresh
<1>3. CASE IdleHit(in)
  BY <1>3 DEF IdleHit, ServeState
<1>4. CASE IdleMiss(in)
  BY <1>4 DEF IdleMiss
<1>5. CASE IdleWait(in)
  BY <1>5 DEF IdleWait
<1>6. CASE Activate
  BY <1>6, <1>s, DelayAssumption DEF Activate
<1>7. CASE Read
  BY <1>7 DEF Read
<1>8. CASE ReadWait(in)
  BY <1>8, DelayAssumption DEF ReadWait
<1>9. CASE Write0(in)
  BY <1>9 DEF Write0
<1>10. CASE Write1(in)
  BY <1>10 DEF Write1
<1>11. CASE PrechargeAll
  BY <1>11, DelayAssumption DEF PrechargeAll
<1>12. CASE PrechargeBank
  BY <1>12, DelayAssumption DEF PrechargeBank
<1>13. CASE Refresh
  BY <1>13, DelayAssumption DEF Refresh
<1>14. CASE Delay
  BY <1>14, <1>s DEF Delay
<1> QED
  BY <1>1, <1>2, <1>3, <1>4, <1>5, <1>6, <1>7, <1>8, <1>9, <1>10, <1>11, <1>12, <1>13, <1>14 DEF Fsm

\* The machine heads for a state that serves a request because it latched one,
\* and holds what it latched until it has served it.
LEMMA HeadingStep ==
  ASSUME TypeOK, NEW in \in Requests, Fsm(in)
  PROVE  /\ Heading' = "read" =>
              \/ Heading = "read" /\ stateQ # "read" /\ reqAddrQ' = reqAddrQ
              \/ stateQ \notin {"read", "write0"} /\ in.rd /\ reqAddrQ' = in.addr
         /\ Heading' = "write0" =>
              \/ Heading = "write0" /\ stateQ # "write0" /\ UNCHANGED reqVars
              \/ /\ stateQ \notin {"read", "write0"} /\ in.wr # {}
                 /\ reqAddrQ' = in.addr /\ reqWrStrbQ' = in.wr
<1> USE DEF Heading, Goal, fsmVars, reqVars, GotoDelay
<1>s. /\ delayStateQ \in {"idle", "activate", "read", "write0", "refresh"}
      /\ targetStateQ \in {"idle", "read", "write0", "refresh"}
  BY DEF TypeOK, FsmTypeOK
<1>1. CASE PowerUp
  BY <1>1 DEF PowerUp
<1>2. CASE IdleRefresh
  BY <1>2 DEF IdleRefresh
<1>3. CASE IdleHit(in)
  BY <1>3, RequestType DEF IdleHit, ServeState, LatchRequest, Requesting
<1>4. CASE IdleMiss(in)
  BY <1>4, RequestType DEF IdleMiss, ServeState, LatchRequest, Requesting
<1>5. CASE IdleWait(in)
  BY <1>5 DEF IdleWait
<1>6. CASE Activate
  BY <1>6, <1>s DEF Activate
<1>7. CASE Read
  BY <1>7 DEF Read
<1>8. CASE ReadWait(in)
  BY <1>8 DEF ReadWait
<1>9. CASE Write0(in)
  BY <1>9 DEF Write0
<1>10. CASE Write1(in)
  BY <1>10 DEF Write1, LatchRequest
<1>11. CASE PrechargeAll
  BY <1>11 DEF PrechargeAll
<1>12. CASE PrechargeBank
  BY <1>12 DEF PrechargeBank
<1>13. CASE Refresh
  BY <1>13 DEF Refresh
<1>14. CASE Delay
  BY <1>14, <1>s DEF Delay
<1> QED
  BY <1>1, <1>2, <1>3, <1>4, <1>5, <1>6, <1>7, <1>8, <1>9, <1>10, <1>11, <1>12, <1>13, <1>14 DEF Fsm

LEMMA DrainStart == Init => ReadsDrain
BY DEF Init, CoreInit, ReadsDrain

LEMMA DrainStep ==
  ASSUME TypeOK, ReadsDrain, NEW in \in Requests, Cycle(in)
  PROVE  ReadsDrain'
<1>t. /\ readPipeQ \in [1 .. ReadDepth -> BOOLEAN] /\ delayQ \in 0 .. 15
      /\ ReadDepth = CasLatency + 2 /\ CasLatency \in 1 .. 15 /\ delayStateQ # "delay"
  BY DelayAssumption DEF TypeOK, PipeTypeOK, FsmTypeOK, ReadDepth
<1>c. Fsm(in) /\ DataPipeline(in, DQ)
  BY DEF Cycle, CoreStep
<1>1. stateQ = "delay" => delayQ \in 1 .. 15 /\ delayQ' = delayQ - 1
  BY <1>c, <1>t, StateStep DEF ReadsDrain
<1>2. stateQ' = "delay" => delayQ' >= 1
  BY <1>c, <1>t, <1>1, StateStep
<1>3. stateQ = "write0" => ~readPipeQ[ReadDepth]
  BY <1>t DEF ReadsDrain
<1>4. stateQ' = "write1" => ~ackQ'
  BY <1>c, <1>3, StateStep DEF DataPipeline
<1>5. ASSUME NEW i \in 1 .. ReadDepth, readPipeQ'[i]
      PROVE  \/ stateQ' \in {"read", "read_wait"}
             \/ stateQ' = "delay" /\ delayStateQ' = "idle" /\ i + delayQ' >= ReadDepth
             \/ stateQ' = "idle" /\ i = ReadDepth
  <2>1. IF i = 1 THEN stateQ = "read" ELSE readPipeQ[i - 1]
    BY <1>5, <1>c DEF DataPipeline
  <2>2. CASE i = 1
    BY <1>c, <2>1, <2>2, StateStep
  <2>3. CASE i # 1
    <3>1. i - 1 \in 1 .. ReadDepth /\ readPipeQ[i - 1]
      BY <1>t, <2>1, <2>3
    <3>2. CASE stateQ = "read"
      BY <1>c, <3>2, StateStep
    <3>3. CASE stateQ = "read_wait"
      BY <1>c, <1>t, <2>3, <3>3, StateStep
    <3>4. CASE stateQ = "delay" /\ delayStateQ = "idle" /\ i - 1 + delayQ >= ReadDepth
      BY <1>c, <1>t, <1>1, <3>4, StateStep
    <3>5. CASE stateQ = "idle" /\ i - 1 = ReadDepth
      BY <1>t, <3>5
    <3> QED BY <3>1, <3>2, <3>3, <3>4, <3>5 DEF ReadsDrain
  <2> QED BY <2>2, <2>3
<1> QED BY <1>2, <1>4, <1>5 DEF ReadsDrain

LEMMA StutterDrain == ReadsDrain /\ UNCHANGED chipVars => ReadsDrain'
BY DEF ReadsDrain, chipVars, coreVars, fsmVars, pipeVars

\* A write that is served is acknowledged two cycles later.
LEMMA WriteCycle ==
  ASSUME NEW in \in Requests, Cycle(in)
  PROVE  /\ stateQ = "write0" => stateQ' = "write1"
         /\ stateQ = "write1" => ackQ'
<1>1. Fsm(in) /\ DataPipeline(in, DQ)
  BY DEF Cycle, CoreStep
<1>2. stateQ = "write0" => stateQ' = "write1"
  BY <1>1 DEF Fsm, PowerUp, IdleRefresh, IdleHit, IdleMiss, IdleWait, Activate, Read, ReadWait,
     Write0, Write1, PrechargeAll, PrechargeBank, Refresh, Delay
<1>3. stateQ = "write1" => ackQ'
  BY <1>1 DEF DataPipeline
<1> QED BY <1>2, <1>3

------------------------------------------------------------------------------
\* The half-words under way.

\* Where the half-words under way are: a read has its first half put out by the
\* chip in the cycle after READ and its second in the next, and a write has the
\* data pins to itself until its second half has landed.
InFlight ==
  /\ readPipeQ[1] <=> pins.cmd = "READ"
  /\ readPipeQ[2] => burstReadCountQ = 1
  /\ \A i \in 2 .. 3 : readPipeQ[i] => memOutEnQ /\ ~outEnQ
  /\ pins.cmd = "WRITE" => outEnQ
  /\ burstWriteCountQ > 0 => outEnQ /\ stateQ \in {"idle", "write0"}

\* What the chip does with its storage, and where the machine goes.
LEMMA ServedColumn ==
  ASSUME TypeOK, PowerInv, BurstInv, MemStep(pins, DQ)
  PROVE  /\ pins.cmd = "READ" => /\ memRdata' = mem[Cell0] /\ mem' = mem
                                 /\ burstAddrQ' = NextCell(Cell0) /\ burstWriteCountQ = 0
         /\ pins.cmd = "WRITE" => /\ mem' = [mem EXCEPT ![Cell0] = MergeHalf(@, DQ, pins.dqm)]
                                  /\ burstAddrQ' = NextCell(Cell0)
                                  /\ burstWriteCountQ' = 1
         /\ pins.cmd # "WRITE" =>
              /\ burstWriteCountQ' = 0
              /\ mem' = IF burstWriteCountQ > 0
                        THEN [mem EXCEPT ![burstAddrQ] = MergeHalf(@, DQ, pins.dqm)] ELSE mem
         /\ burstReadCountQ > 0 => memRdata' = mem[burstAddrQ] /\ memOutEnQ'
<1>t. /\ pins \in Pins /\ burstReadCountQ \in 0 .. 1 /\ burstWriteCountQ \in 0 .. 1
  BY DEF TypeOK, FsmTypeOK, BurstInv
<1>b. burstReadCountQ > 0 \/ burstWriteCountQ > 0 => pins.cmd = "NOP"
  BY DEF BurstInv, BurstsUndisturbed
<1>p. pins.cmd \in {"READ", "WRITE"} => BurstTail = 1 /\ writeBurstEnQ
  BY PoweredUpFollows DEF PoweredUp, BurstTail
<1>1. CASE pins.cmd = "READ"
  <2>1. ReadColumn(pins)
    BY <1>1 DEF MemStep, LoadMode, RefreshRows, ActivateRow, WriteColumn, BurstColumn, Quiet,
                BurstTerminate, PrechargeRows
  <2> QED BY <1>1, <1>b, <1>t, <2>1 DEF ReadColumn, MemRead, Cell0
<1>2. CASE pins.cmd = "WRITE"
  <2>1. WriteColumn(pins, DQ)
    BY <1>2 DEF MemStep, LoadMode, RefreshRows, ActivateRow, ReadColumn, BurstColumn, Quiet,
                BurstTerminate, PrechargeRows
  <2> QED BY <1>2, <1>b, <1>p, <1>t, <2>1 DEF WriteColumn, MemWrite, Cell0
<1>3. CASE burstReadCountQ > 0 \/ burstWriteCountQ > 0
  <2>1. BurstColumn(pins, DQ)
    BY <1>3, <1>b, <1>t DEF MemStep, LoadMode, RefreshRows, ActivateRow, ReadColumn, WriteColumn,
                            Quiet, BurstTerminate, PrechargeRows
  <2>2. pins.cmd = "NOP"
    BY <1>3, <1>b
  <2> QED BY <1>t, <2>1, <2>2 DEF BurstColumn, MemRead, MemWrite
<1>4. CASE pins.cmd \notin {"READ", "WRITE"} /\ burstReadCountQ = 0 /\ burstWriteCountQ = 0
  BY <1>4 DEF MemStep, LoadMode, RefreshRows, ActivateRow, ReadColumn, WriteColumn, BurstColumn,
     Quiet, BurstTerminate, PrechargeRows, burstVars
<1> QED BY <1>t, <1>1, <1>2, <1>3, <1>4

\* The states that serve, and the pins they leave.
LEMMA ServeStep ==
  ASSUME TypeOK, NEW in \in Requests, Fsm(in)
  PROVE  /\ stateQ = "read" => /\ pins'.cmd = "READ" /\ pins'.addr = reqColW /\ pins'.bank = reqBankW
                               /\ stateQ' = "read_wait" /\ UNCHANGED reqAddrQ
         /\ stateQ = "write0" => /\ pins'.cmd = "WRITE" /\ pins'.addr = reqColW
                                 /\ pins'.bank = reqBankW /\ pins'.dqm = LowMask(reqWrStrbQ)
                                 /\ dataOutQ' = LowHalf(in.data)
                                 /\ stateQ' = "write1" /\ UNCHANGED reqVars
         /\ stateQ = "write1" => /\ pins'.cmd = "NOP" /\ pins'.dqm = HighMask(reqWrStrbQ)
                                 /\ dataOutQ' = hiDataQ /\ stateQ' \in {"idle", "write0"}
<1>1. CASE stateQ = "read"
  <2>1. Read
    BY <1>1 DEF Fsm, PowerUp, IdleRefresh, IdleHit, IdleMiss, IdleWait, Activate, ReadWait, Write0,
                Write1, PrechargeAll, PrechargeBank, Refresh, Delay
  <2> QED BY <1>1, <2>1 DEF Read, reqVars
<1>2. CASE stateQ = "write0"
  <2>1. Write0(in)
    BY <1>2 DEF Fsm, PowerUp, IdleRefresh, IdleHit, IdleMiss, IdleWait, Activate, Read, ReadWait,
                Write1, PrechargeAll, PrechargeBank, Refresh, Delay
  <2> QED BY <1>2, <2>1 DEF Write0
<1>3. CASE stateQ = "write1"
  <2>1. Write1(in)
    BY <1>3 DEF Fsm, PowerUp, IdleRefresh, IdleHit, IdleMiss, IdleWait, Activate, Read, ReadWait,
                Write0, PrechargeAll, PrechargeBank, Refresh, Delay
  <2>2. pins'.cmd = "NOP" /\ pins'.dqm = HighMask(reqWrStrbQ)
    BY <2>1 DEF Write1, NopPins, TypeOK, FsmTypeOK, Pins
  <2> QED BY <1>3, <2>1, <2>2 DEF Write1
<1> QED BY <1>1, <1>2, <1>3

LEMMA InFlightStart == Init => InFlight
<1>1. ReadDepth \in 3 .. 17
  BY DelayAssumption DEF ReadDepth
<1> QED BY <1>1 DEF Init, CoreInit, MemInit, InFlight

LEMMA InFlightStep ==
  ASSUME TypeOK, PowerInv, BurstInv, ReadsDrain, InFlight, NEW in \in Requests, Cycle(in)
  PROVE  InFlight'
<1>c. Fsm(in) /\ DataPipeline(in, DQ) /\ MemStep(pins, DQ)
  BY DEF Cycle, CoreStep
<1>d. ReadDepth \in 3 .. 17 /\ readPipeQ \in [1 .. ReadDepth -> BOOLEAN]
  BY DelayAssumption DEF ReadDepth, TypeOK, PipeTypeOK
<1>p. /\ readPipeQ'[1] <=> stateQ = "read"
      /\ readPipeQ'[2] <=> readPipeQ[1]
      /\ readPipeQ'[3] <=> readPipeQ[2]
      /\ outEnQ' <=> stateQ \in {"write0", "write1"}
  <2>1. outEnQ' = (stateQ \in {"write0", "write1"})
    BY <1>c DEF DataPipeline
  <2>2. /\ readPipeQ'[1] = (stateQ = "read")
        /\ readPipeQ'[2] = readPipeQ[1]
        /\ readPipeQ'[3] = readPipeQ[2]
    BY <1>c, <1>d DEF DataPipeline
  <2> QED BY <2>1, <2>2
<1>1. readPipeQ'[1] <=> pins'.cmd = "READ"
  BY <1>c, <1>p, ServeStep, PinsOfStep
<1>2. readPipeQ'[2] => burstReadCountQ' = 1 /\ memOutEnQ' /\ ~outEnQ'
  <2>1. pins.cmd = "READ" => burstReadCountQ' = 1 /\ memOutEnQ'
    BY <1>c, BurstOfStep
  <2>2. pins.cmd = "READ" => stateQ = "read_wait"
    BY DEF BurstInv
  <2> QED BY <1>p, <2>1, <2>2 DEF InFlight
<1>3. readPipeQ'[3] => memOutEnQ' /\ ~outEnQ'
  <2>1. burstReadCountQ = 1 => memOutEnQ'
    BY <1>c, ServedColumn
  <2>2. burstReadCountQ = 1 => stateQ \in {"read", "delay"}
    BY DEF BurstInv
  <2> QED BY <1>p, <2>1, <2>2 DEF InFlight
<1>4. pins'.cmd = "WRITE" => outEnQ'
  BY <1>c, <1>p, PinsOfStep
<1>5. burstWriteCountQ' > 0 => outEnQ' /\ stateQ' \in {"idle", "write0"}
  <2>1. burstWriteCountQ' > 0 => pins.cmd = "WRITE"
    BY <1>c, ServedColumn
  <2>2. pins.cmd = "WRITE" => stateQ = "write1"
    BY DEF BurstInv
  <2> QED BY <1>c, <1>p, <2>1, <2>2, ServeStep
<1> QED BY <1>1, <1>2, <1>3, <1>4, <1>5 DEF InFlight

LEMMA InFlightStutter == InFlight /\ UNCHANGED chipVars => InFlight'
BY DEF InFlight, chipVars, coreVars, memVars, fsmVars, outVars, pipeVars, burstVars

------------------------------------------------------------------------------
\* The words of the storage, the half-words under way counted in.

LEMMA WordsOfCells ==
  /\ NumWords = NumRows * NumBanks * RowWords
  /\ NumWords \in Nat \ {0}
  /\ NumCells = 2 * NumWords
<1> DEFINE N == NumRows * NumBanks * RowWords
<1>1. N \in Nat \ {0}
  BY GeometryAssumption DEF NumBanks
<1>2. NumCells = 2 * N
  BY CellOfWord
<1> HIDE DEF N
<1>3. NumWords = N
  BY <1>1, <1>2 DEF NumWords
<1> QED BY <1>1, <1>2, <1>3 DEF N

LEMMA PinCellType == TypeOK => Cell0 \in Cells /\ NextCell(Cell0) \in Cells
<1> SUFFICES ASSUME TypeOK PROVE Cell0 \in Cells /\ NextCell(Cell0) \in Cells
  OBVIOUS
<1>1. pins.bank \in Banks /\ pins.addr \in Nat /\ memActiveRowQ[pins.bank] \in Rows
  BY DEF TypeOK, FsmTypeOK, MemTypeOK, Pins
<1>2. NumCols \in Nat \ {0}
  BY GeometryAssumption DEF NumCols
<1>3. pins.addr % NumCols \in 0 .. NumCols - 1
  <2>1. pins.addr \in Int
    BY <1>1
  <2> QED BY <1>2, <2>1, ModRange, Zenon
<1>4. Cell0 \in Cells
  BY <1>1, <1>3, CellRange DEF Cell0, PinCell
<1>5. NumCells \in Nat \ {0}
  BY WordsOfCells
<1> QED BY <1>4, <1>5, ModRange DEF NextCell, Cells

LEMMA LandingType == TypeOK => Landing \in [Cells -> Half]
<1> SUFFICES ASSUME TypeOK PROVE Landing \in [Cells -> Half]
  OBVIOUS
<1>1. /\ mem \in [Cells -> Half] /\ burstAddrQ \in Cells
      /\ dataOutQ \in Half /\ hiDataQ \in Half /\ pins.dqm \in SUBSET Lanes
      /\ HighMask(reqWrStrbQ) \in SUBSET Lanes
  BY HalfTypes DEF TypeOK, FsmTypeOK, PipeTypeOK, MemTypeOK, Pins
<1>2. \A old \in Half, new \in Half, dqm \in SUBSET Lanes : MergeHalf(old, new, dqm) \in Half
  BY HalfTypes
<1>3. Cell0 \in Cells /\ NextCell(Cell0) \in Cells
  BY PinCellType
<1>4. LowLanding \in [Cells -> Half]
  BY <1>1, <1>2, <1>3 DEF LowLanding
<1>5. [LowLanding EXCEPT ![NextCell(Cell0)] = MergeHalf(@, hiDataQ, HighMask(reqWrStrbQ))]
        \in [Cells -> Half]
  BY <1>1, <1>2, <1>3, <1>4
<1> QED BY <1>1, <1>2, <1>5 DEF Landing

LEMMA JoinType == \A lo, hi \in Half : JoinHalves(lo, hi) \in Word
BY DEF JoinHalves, Half, Word, Lanes, ByteLanes

LEMMA StoreType == TypeOK => Store \in [0 .. NumWords - 1 -> Word]
<1> SUFFICES ASSUME TypeOK, NEW w \in 0 .. NumWords - 1
             PROVE  JoinHalves(Landing[2 * w], Landing[2 * w + 1]) \in Word
  BY DEF Store
<1>1. 2 * w \in Cells /\ 2 * w + 1 \in Cells
  BY WordsOfCells DEF Cells
<1> QED BY <1>1, LandingType, JoinType

\* Who drives the data pins while half-words are under way.
LEMMA BusUnderWay ==
  ASSUME BurstInv, InFlight
  PROVE  /\ pins.cmd = "WRITE" \/ burstWriteCountQ > 0 => DQ = dataOutQ
         /\ readPipeQ[2] \/ readPipeQ[3] => DQ = memRdata
<1>1. pins.cmd = "WRITE" \/ burstWriteCountQ > 0 => outEnQ /\ ~memOutEnQ
  BY DEF BurstInv, BurstsUndisturbed, BusExclusive, InFlight
<1>2. readPipeQ[2] \/ readPipeQ[3] => memOutEnQ /\ ~outEnQ
  BY DEF InFlight
<1> QED BY <1>1, <1>2 DEF DQ

LEMMA LandsInStorage ==
  ASSUME TypeOK, PowerInv, BurstInv, InFlight, NEW in \in Requests, Cycle(in), pins.cmd # "WRITE"
  PROVE  mem' = Landing /\ burstWriteCountQ' = 0
<1>1. MemStep(pins, DQ)
  BY DEF Cycle
<1> QED BY <1>1, ServedColumn, BusUnderWay DEF Landing

\* A cycle that serves no write changes no word.
LEMMA LandingHolds ==
  ASSUME TypeOK, PowerInv, BurstInv, InFlight, NEW in \in Requests, Cycle(in), stateQ # "write0"
  PROVE  Landing' = Landing
<1>1. Fsm(in) /\ MemStep(pins, DQ)
  BY DEF Cycle, CoreStep
<1>2. pins'.cmd # "WRITE"
  BY <1>1, PinsOfStep
<1>3. CASE pins.cmd # "WRITE"
  BY <1>2, <1>3, LandsInStorage DEF Landing
<1>4. CASE pins.cmd = "WRITE"
  <2>1. stateQ = "write1"
    BY <1>4 DEF BurstInv
  <2>2. /\ pins'.dqm = HighMask(reqWrStrbQ) /\ dataOutQ' = hiDataQ
        /\ burstAddrQ' = NextCell(Cell0) /\ burstWriteCountQ' = 1
        /\ mem' = [mem EXCEPT ![Cell0] = MergeHalf(@, dataOutQ, pins.dqm)]
    BY <1>1, <1>4, <2>1, ServeStep, ServedColumn, BusUnderWay
  <2>3. Landing' = [mem' EXCEPT ![burstAddrQ'] = MergeHalf(@, dataOutQ', pins'.dqm)]
    BY <1>2, <2>2 DEF Landing
  <2>4. mem' = LowLanding
    BY <2>2 DEF LowLanding
  <2>5. Landing = [LowLanding EXCEPT ![NextCell(Cell0)] = MergeHalf(@, hiDataQ, HighMask(reqWrStrbQ))]
    BY <1>4 DEF Landing
  <2> QED BY <2>2, <2>3, <2>4, <2>5, Zenon
<1> QED BY <1>3, <1>4

\* The pins that serve a request point at the lower half of its word.
LEMMA ServedCell ==
  ASSUME TypeOK, RightRow', NEW in \in Requests, Fsm(in), stateQ \in {"read", "write0"}
  PROVE  /\ Cell0' = 2 * (reqAddrQ % NumWords)
         /\ NextCell(Cell0') = 2 * (reqAddrQ % NumWords) + 1
         /\ reqAddrQ % NumWords \in 0 .. NumWords - 1
<1>1. /\ pins'.cmd \in {"READ", "WRITE"} /\ pins'.addr = reqColW /\ pins'.bank = reqBankW
      /\ reqAddrQ' = reqAddrQ
  BY ServeStep DEF reqVars
<1>2. memActiveRowQ'[reqBankW] = reqRowW
  BY <1>1 DEF RightRow, reqRowW, reqBankW
<1>3. reqAddrQ \in Nat
  BY DEF TypeOK, FsmTypeOK
<1>4. Cell0' = 2 * (reqAddrQ % NumWords)
  <2>1. Cell0' = CellAddr(reqRowW, reqBankW, reqColW % NumCols)
    BY <1>1, <1>2 DEF Cell0, PinCell
  <2> QED BY <1>3, <2>1, CellOfWord, WordsOfCells DEF reqRowW, reqBankW, reqColW
<1>5. reqAddrQ % NumWords \in 0 .. NumWords - 1
  <2>1. reqAddrQ \in Int
    BY <1>3
  <2> QED BY <2>1, WordsOfCells, ModRange, Zenon
<1>6. \A n, w \in Nat : w < n => (2 * w + 1) % (2 * n) = 2 * w + 1
  OBVIOUS
<1>7. (2 * (reqAddrQ % NumWords) + 1) % NumCells = 2 * (reqAddrQ % NumWords) + 1
  BY <1>5, <1>6, WordsOfCells
<1> QED BY <1>4, <1>5, <1>7 DEF NextCell

\* A write that is served is on its way to the two cells of its word.
LEMMA LandingOfWrite ==
  ASSUME TypeOK, PowerInv, BurstInv, InFlight, RightRow', NEW in \in Requests, Cycle(in),
         stateQ = "write0"
  PROVE  LET w  == reqAddrQ % NumWords
             lo == MergeHalf(Landing[2 * w], LowHalf(in.data), LowMask(reqWrStrbQ))
             hi == MergeHalf(Landing[2 * w + 1], HighHalf(in.data), HighMask(reqWrStrbQ))
         IN  Landing' = [[Landing EXCEPT ![2 * w] = lo] EXCEPT ![2 * w + 1] = hi]
<1> DEFINE w  == reqAddrQ % NumWords
           lo == MergeHalf(Landing[2 * w], LowHalf(in.data), LowMask(reqWrStrbQ))
           hi == MergeHalf(Landing[2 * w + 1], HighHalf(in.data), HighMask(reqWrStrbQ))
<1> SUFFICES Landing' = [[Landing EXCEPT ![2 * w] = lo] EXCEPT ![2 * w + 1] = hi]
  OBVIOUS
<1>c. Fsm(in) /\ DataPipeline(in, DQ)
  BY DEF Cycle, CoreStep
<1>1. Cell0' = 2 * w /\ NextCell(Cell0') = 2 * w + 1 /\ w \in 0 .. NumWords - 1
  BY <1>c, ServedCell
<1>2. mem' = Landing
  <2>1. pins.cmd # "WRITE"
    BY DEF BurstInv
  <2> QED BY <2>1, LandsInStorage
<1>3. /\ pins'.cmd = "WRITE" /\ pins'.dqm = LowMask(reqWrStrbQ) /\ dataOutQ' = LowHalf(in.data)
      /\ reqWrStrbQ' = reqWrStrbQ /\ hiDataQ' = HighHalf(in.data)
  BY <1>c, ServeStep DEF reqVars, DataPipeline
<1> HIDE DEF w
<1>4. Landing' = [LowLanding' EXCEPT ![NextCell(Cell0')] = MergeHalf(@, hiDataQ', HighMask(reqWrStrbQ'))]
  BY <1>3 DEF Landing
<1>5. LowLanding' = [mem' EXCEPT ![Cell0'] = MergeHalf(@, dataOutQ', pins'.dqm)]
  BY DEF LowLanding
<1>6. LowLanding' = [Landing EXCEPT ![2 * w] = lo]
  BY <1>1, <1>2, <1>3, <1>5, Zenon
<1>7. 2 * w # 2 * w + 1 /\ 2 * w \in Cells /\ 2 * w + 1 \in Cells
  BY <1>1, WordsOfCells DEF Cells
<1>8. LowLanding'[2 * w + 1] = Landing[2 * w + 1]
  BY <1>6, <1>7, LandingType
<1> QED BY <1>1, <1>3, <1>4, <1>6, <1>8, Zenon

------------------------------------------------------------------------------
\* The words of the reads under way.

LEMMA InFlightType == TypeOK => \A i \in 1 .. 4 : ReadInFlight(i) \in Word
<1> SUFFICES ASSUME TypeOK
             PROVE  \A i \in 1 .. 4 : ReadInFlight(i) \in Word
  OBVIOUS
<1>1. /\ mem \in [Cells -> Half] /\ burstAddrQ \in Cells /\ memRdata \in Half
      /\ sampleQ[1] \in Half /\ sampleQ[2] \in Half
      /\ Cell0 \in Cells /\ NextCell(Cell0) \in Cells
  BY PinCellType DEF TypeOK, PipeTypeOK, MemTypeOK
<1>2. /\ JoinHalves(mem[Cell0], mem[NextCell(Cell0)]) \in Word
      /\ JoinHalves(memRdata, mem[burstAddrQ]) \in Word
      /\ JoinHalves(sampleQ[1], memRdata) \in Word
      /\ JoinHalves(sampleQ[2], sampleQ[1]) \in Word
  BY <1>1, JoinType
<1> QED BY <1>2 DEF ReadInFlight

\* A read that is served carries the word stored at its place ...
LEMMA ReadServed ==
  ASSUME TypeOK, PowerInv, BurstInv, InFlight, RightRow', NEW in \in Requests, Cycle(in),
         stateQ = "read"
  PROVE  ReadInFlight(1)' = Store[reqAddrQ % NumWords]
<1> DEFINE w == reqAddrQ % NumWords
<1>1. Cell0' = 2 * w /\ NextCell(Cell0') = 2 * w + 1 /\ w \in 0 .. NumWords - 1
  BY ServedCell DEF Cycle, CoreStep
<1>2. mem' = Landing
  <2>1. pins.cmd # "WRITE"
    BY DEF BurstInv
  <2> QED BY <2>1, LandsInStorage
<1>3. ReadInFlight(1)' = JoinHalves(mem'[Cell0'], mem'[NextCell(Cell0')])
  BY DEF ReadInFlight
<1> QED BY <1>1, <1>2, <1>3 DEF Store

\* ... and keeps it to the last stage.
LEMMA ReadsMoveOn ==
  ASSUME TypeOK, PowerInv, BurstInv, InFlight, NEW in \in Requests, Cycle(in)
  PROVE  /\ readPipeQ[1] => ReadInFlight(2)' = ReadInFlight(1)
         /\ readPipeQ[2] => ReadInFlight(3)' = ReadInFlight(2)
         /\ readPipeQ[3] => ReadInFlight(4)' = ReadInFlight(3)
         /\ JoinHalves(ReadHalves[1], ReadHalves[2])' = ReadInFlight(4)
<1>1. MemStep(pins, DQ) /\ sampleQ' = <<DQ, sampleQ[1], sampleQ[2]>>
  BY DEF Cycle, CoreStep, DataPipeline
<1>2. sampleQ'[1] = DQ /\ sampleQ'[2] = sampleQ[1] /\ sampleQ'[3] = sampleQ[2]
  BY <1>1
<1>3. readPipeQ[1] => ReadInFlight(2)' = ReadInFlight(1)
  <2>1. pins.cmd = "READ" => memRdata' = mem[Cell0] /\ mem' = mem /\ burstAddrQ' = NextCell(Cell0)
    BY <1>1, ServedColumn
  <2> QED BY <2>1 DEF InFlight, ReadInFlight
<1>4. readPipeQ[2] => ReadInFlight(3)' = ReadInFlight(2)
  <2>1. burstReadCountQ = 1 => memRdata' = mem[burstAddrQ]
    BY <1>1, ServedColumn
  <2> QED BY <1>2, <2>1, BusUnderWay DEF InFlight, ReadInFlight
<1>5. readPipeQ[3] => ReadInFlight(4)' = ReadInFlight(3)
  BY <1>2, BusUnderWay DEF ReadInFlight
<1>6. JoinHalves(ReadHalves[1], ReadHalves[2])' = ReadInFlight(4)
  BY <1>2 DEF ReadInFlight, ReadHalves
<1> QED BY <1>3, <1>4, <1>5, <1>6

------------------------------------------------------------------------------
\* Reads of one word, and words nobody writes.

\* The read i cycles past the read state; five cycles past it is acknowledged.
UnderWay(i) == IF i = 5 THEN ackQ ELSE readPipeQ[i]

\* A burst of reads goes on in place only from word to word of the client.  If it
\* stays at one word, whatever is under way is that word.
OneWord ==
  /\ \A i \in 1 .. 4 : readPipeQ[i] => ReadInFlight(i) = Store[reqAddrQ % NumWords]
  /\ \A i \in 1 .. 4 : ackQ /\ readPipeQ[i] => PortWord = Store[reqAddrQ % NumWords]

\* No half-word is on its way to a word.
Settled(word) == Landing[2 * word] = mem[2 * word] /\ Landing[2 * word + 1] = mem[2 * word + 1]

LEMMA PortWordUnderWay == PortWord = ReadInFlight(5)
BY DEF PortWord, ReadInFlight, ReadHalves, JoinHalves

LEMMA OneWordStart == CasLatency = 2 /\ Init => OneWord
BY DEF Init, CoreInit, OneWord, ReadDepth

LEMMA SettledStart == Init => \A word \in 0 .. NumWords - 1 : Settled(word)
BY DEF Init, CoreInit, MemInit, Settled, Landing

\* What is latched is kept while reads are under way, or given up for the next.
LEMMA LatchedKept ==
  ASSUME TypeOK, NEW in \in Requests, Fsm(in)
  PROVE  /\ stateQ \in {"read", "delay"} => reqAddrQ' = reqAddrQ
         /\ stateQ = "read_wait" => reqAddrQ' = reqAddrQ \/ (in.rd /\ reqAddrQ' = in.addr)
<1>1. stateQ = "read" => reqAddrQ' = reqAddrQ
  BY ServeStep
<1>2. stateQ = "delay" => reqAddrQ' = reqAddrQ
  BY DEF Fsm, PowerUp, IdleRefresh, IdleHit, IdleMiss, IdleWait, Activate, Read, ReadWait, Write0,
         Write1, PrechargeAll, PrechargeBank, Refresh, Delay, reqVars
<1>3. stateQ = "read_wait" => reqAddrQ' = reqAddrQ \/ (in.rd /\ reqAddrQ' = in.addr)
  <2>1. stateQ = "read_wait" => ReadWait(in)
    BY DEF Fsm, PowerUp, IdleRefresh, IdleHit, IdleMiss, IdleWait, Activate, Read, Write0, Write1,
           PrechargeAll, PrechargeBank, Refresh, Delay
  <2> QED BY <2>1 DEF ReadWait
<1> QED BY <1>1, <1>2, <1>3

LEMMA OneWordStep ==
  ASSUME CasLatency = 2, TypeOK, PowerInv, BurstInv, ReadsDrain, InFlight, OneWord, RightRow',
         NEW in \in Requests, Cycle(in),
         stateQ = "read_wait" /\ in.rd => in.addr % NumWords = reqAddrQ % NumWords
  PROVE  /\ OneWord'
         /\ \A i \in 1 .. 4 : UnderWay(i) => /\ UnderWay(i + 1)'
                                             /\ ReadInFlight(i + 1)' = ReadInFlight(i)
                                             /\ stateQ # "write0"
         /\ stateQ = "read" => UnderWay(1)' /\ ReadInFlight(1)' = Store[reqAddrQ % NumWords]
<1>c. Fsm(in) /\ DataPipeline(in, DQ)
  BY DEF Cycle, CoreStep
<1> DEFINE here == reqAddrQ % NumWords
<1>1. /\ readPipeQ'[1] <=> stateQ = "read"
      /\ readPipeQ'[2] <=> readPipeQ[1]
      /\ readPipeQ'[3] <=> readPipeQ[2]
      /\ readPipeQ'[4] <=> readPipeQ[3]
      /\ ackQ' <=> stateQ = "write1" \/ readPipeQ[4]
  <2>1. /\ readPipeQ'[1] = (stateQ = "read") /\ readPipeQ'[2] = readPipeQ[1]
        /\ readPipeQ'[3] = readPipeQ[2] /\ readPipeQ'[4] = readPipeQ[3]
        /\ ackQ' = (stateQ = "write1" \/ readPipeQ[4])
    BY <1>c DEF DataPipeline, ReadDepth
  <2> QED BY <2>1
<1>2. \A i \in 1 .. 4 : readPipeQ[i] =>
        \/ stateQ \in {"read", "read_wait"}
        \/ stateQ = "delay"
        \/ stateQ = "idle" /\ i = 4
  BY DEF ReadsDrain, ReadDepth
<1>3. stateQ # "write0" => Store' = Store
  BY LandingHolds DEF Store
<1>4. stateQ \in {"read", "read_wait", "delay"} => Store'[here'] = Store[here]
  <2>1. stateQ \in {"read", "read_wait", "delay"} => here' = here
    BY <1>c, LatchedKept
  <2> HIDE DEF here
  <2> QED BY <1>3, <2>1
<1>5. /\ readPipeQ[1] => ReadInFlight(2)' = ReadInFlight(1)
      /\ readPipeQ[2] => ReadInFlight(3)' = ReadInFlight(2)
      /\ readPipeQ[3] => ReadInFlight(4)' = ReadInFlight(3)
      /\ PortWord' = ReadInFlight(4)
      /\ ReadInFlight(5)' = ReadInFlight(4)
  <2>1. sampleQ'[3] = sampleQ[2] /\ sampleQ'[2] = sampleQ[1]
    BY <1>c DEF DataPipeline
  <2>2. PortWord' = JoinHalves(sampleQ'[3], sampleQ'[2])
    BY DEF PortWord, ReadHalves, JoinHalves
  <2>3. ReadInFlight(5)' = JoinHalves(sampleQ'[3], sampleQ'[2])
    BY DEF ReadInFlight
  <2>4. ReadInFlight(4) = JoinHalves(sampleQ[2], sampleQ[1])
    BY DEF ReadInFlight
  <2> QED BY <2>1, <2>2, <2>3, <2>4, ReadsMoveOn
<1>6. stateQ = "read" => ReadInFlight(1)' = Store[here]
  BY ReadServed
<1> HIDE DEF here
<1>7. \A i \in 1 .. 4 : readPipeQ'[i] => ReadInFlight(i)' = Store'[here']
  <2> SUFFICES ASSUME NEW i \in 1 .. 4, readPipeQ'[i] PROVE ReadInFlight(i)' = Store'[here']
    OBVIOUS
  <2>1. CASE i = 1
    BY <1>1, <1>4, <1>6, <2>1
  <2>2. CASE i = 2
    BY <1>1, <1>2, <1>4, <1>5, <2>2 DEF OneWord, here
  <2>3. CASE i = 3
    BY <1>1, <1>2, <1>4, <1>5, <2>3 DEF OneWord, here
  <2>4. CASE i = 4
    BY <1>1, <1>2, <1>4, <1>5, <2>4 DEF OneWord, here
  <2> QED BY <2>1, <2>2, <2>3, <2>4
<1>8. \A i \in 1 .. 4 : ackQ' /\ readPipeQ'[i] => PortWord' = Store'[here']
  <2> SUFFICES ASSUME NEW i \in 1 .. 4, ackQ', readPipeQ'[i] PROVE PortWord' = Store'[here']
    OBVIOUS
  <2>1. stateQ \in {"read", "read_wait", "delay"}
    BY <1>1, <1>2
  <2>2. readPipeQ[4]
    BY <1>1, <2>1
  <2>3. ReadInFlight(4) = Store[here]
    BY <2>2 DEF OneWord, here
  <2> QED BY <1>4, <1>5, <2>1, <2>3
<1>9. OneWord'
  BY <1>7, <1>8 DEF OneWord, here
<1>10. \A i \in 1 .. 4 : UnderWay(i) => /\ UnderWay(i + 1)'
                                        /\ ReadInFlight(i + 1)' = ReadInFlight(i)
                                        /\ stateQ # "write0"
  <2> SUFFICES ASSUME NEW i \in 1 .. 4, UnderWay(i)
               PROVE  /\ UnderWay(i + 1)'
                      /\ ReadInFlight(i + 1)' = ReadInFlight(i)
                      /\ stateQ # "write0"
    OBVIOUS
  <2>1. readPipeQ[i] /\ stateQ # "write0"
    BY <1>2 DEF UnderWay
  <2>2. CASE i = 1
    BY <1>1, <1>5, <2>1, <2>2 DEF UnderWay
  <2>3. CASE i = 2
    BY <1>1, <1>5, <2>1, <2>3 DEF UnderWay
  <2>4. CASE i = 3
    BY <1>1, <1>5, <2>1, <2>4 DEF UnderWay
  <2>5. CASE i = 4
    BY <1>1, <1>5, <2>1, <2>5 DEF UnderWay
  <2> QED BY <2>2, <2>3, <2>4, <2>5
<1>11. stateQ = "read" => UnderWay(1)'
  BY <1>1 DEF UnderWay
<1> QED BY <1>6, <1>9, <1>10, <1>11 DEF here

\* A cycle that does not serve a write of a word leaves it alone.
LEMMA WordKept ==
  ASSUME TypeOK, PowerInv, BurstInv, InFlight, RightRow', NEW in \in Requests, Cycle(in),
         NEW word \in 0 .. NumWords - 1,
         stateQ = "write0" => reqAddrQ % NumWords # word
  PROVE  /\ Landing'[2 * word] = Landing[2 * word]
         /\ Landing'[2 * word + 1] = Landing[2 * word + 1]
         /\ Settled(word) => Settled(word)'
<1>1. /\ 2 * word \in Cells /\ 2 * word + 1 \in Cells
      /\ \A v \in Nat : /\ 2 * word # 2 * v + 1 /\ 2 * word + 1 # 2 * v
                        /\ word # v => 2 * word # 2 * v /\ 2 * word + 1 # 2 * v + 1
  BY WordsOfCells DEF Cells
<1>2. Landing'[2 * word] = Landing[2 * word] /\ Landing'[2 * word + 1] = Landing[2 * word + 1]
  <2>1. CASE stateQ # "write0"
    BY <2>1, LandingHolds
  <2>2. CASE stateQ = "write0"
    <3> DEFINE w  == reqAddrQ % NumWords
               lo == MergeHalf(Landing[2 * w], LowHalf(in.data), LowMask(reqWrStrbQ))
               hi == MergeHalf(Landing[2 * w + 1], HighHalf(in.data), HighMask(reqWrStrbQ))
    <3>1. Landing' = [[Landing EXCEPT ![2 * w] = lo] EXCEPT ![2 * w + 1] = hi]
      BY <2>2, LandingOfWrite
    <3>2. w \in 0 .. NumWords - 1 /\ w # word
      BY <2>2, ServedCell DEF Cycle, CoreStep
    <3> HIDE DEF w, lo, hi
    <3>3. 2 * word # 2 * w /\ 2 * word # 2 * w + 1 /\ 2 * word + 1 # 2 * w /\ 2 * word + 1 # 2 * w + 1
      BY <1>1, <3>2
    <3> QED BY <1>1, <3>1, <3>3, LandingType
  <2> QED BY <2>1, <2>2
<1>3. ASSUME Settled(word) PROVE mem'[2 * word] = mem[2 * word] /\ mem'[2 * word + 1] = mem[2 * word + 1]
  <2>1. CASE pins.cmd # "WRITE"
    BY <1>3, <2>1, LandsInStorage DEF Settled
  <2>2. CASE pins.cmd = "WRITE"
    <3>1. mem' = LowLanding
      BY <2>2, ServedColumn, BusUnderWay DEF LowLanding, Cycle
    <3>2. Landing = [LowLanding EXCEPT ![NextCell(Cell0)] = MergeHalf(@, hiDataQ, HighMask(reqWrStrbQ))]
      BY <2>2 DEF Landing
    <3>3. Cell0 \in Cells /\ NextCell(Cell0) \in Cells /\ mem \in [Cells -> Half]
      BY PinCellType DEF TypeOK, MemTypeOK
    <3>4. Cell0 # NextCell(Cell0)
      <4>1. \A n \in Nat \ {0} : \A c \in 0 .. 2 * n - 1 : (c + 1) % (2 * n) # c
        OBVIOUS
      <4> QED BY <3>3, <4>1, WordsOfCells DEF Cells, NextCell
    <3> QED BY <1>1, <1>3, <3>1, <3>2, <3>3, <3>4 DEF Settled, LowLanding
  <2> QED BY <2>1, <2>2
<1> QED BY <1>2, <1>3 DEF Settled

\* What is settled is what is stored, and a read acknowledged is the one under way.
LEMMA WhatIsStored ==
  /\ \A word \in 0 .. NumWords - 1 :
       Settled(word) => JoinHalves(mem[2 * word], mem[2 * word + 1]) = Store[word]
  /\ OneWord /\ ackQ => \A i \in 1 .. 5 : UnderWay(i) => PortWord = ReadInFlight(i)
<1>1. \A word \in 0 .. NumWords - 1 :
        Settled(word) => JoinHalves(mem[2 * word], mem[2 * word + 1]) = Store[word]
  BY DEF Settled, Store
<1>2. ASSUME OneWord, ackQ, NEW i \in 1 .. 5, UnderWay(i) PROVE PortWord = ReadInFlight(i)
  <2>1. CASE i = 5
    BY <2>1, PortWordUnderWay
  <2>2. CASE i # 5
    <3>1. i \in 1 .. 4 /\ readPipeQ[i]
      BY <1>2, <2>2 DEF UnderWay
    <3> QED BY <1>2, <3>1 DEF OneWord
  <2> QED BY <2>1, <2>2
<1> QED BY <1>1, <1>2

\* One cycle of the reads under way and of the words that are stored.
LEMMA ReadCycle ==
  ASSUME CasLatency = 2, TypeOK, PowerInv, BurstInv, ReadsDrain, InFlight, OneWord, RightRow',
         NEW in \in Requests, Cycle(in),
         stateQ = "read_wait" /\ in.rd => in.addr % NumWords = reqAddrQ % NumWords
  PROVE  /\ InFlight' /\ OneWord'
         /\ \A i \in 1 .. 4 : UnderWay(i) => /\ UnderWay(i + 1)'
                                             /\ ReadInFlight(i + 1)' = ReadInFlight(i)
                                             /\ stateQ # "write0"
         /\ stateQ = "read" => UnderWay(1)' /\ ReadInFlight(1)' = Store[reqAddrQ % NumWords]
         /\ \A word \in 0 .. NumWords - 1 :
              (stateQ = "write0" => reqAddrQ % NumWords # word) =>
                Store'[word] = Store[word] /\ (Settled(word) => Settled(word)')
         /\ stateQ' = "read_wait" => stateQ = "read" /\ reqAddrQ' = reqAddrQ
<1>1. Fsm(in)
  BY DEF Cycle, CoreStep
<1>2. InFlight'
  BY InFlightStep
<1>3. ASSUME NEW word \in 0 .. NumWords - 1, stateQ = "write0" => reqAddrQ % NumWords # word
      PROVE  Store'[word] = Store[word] /\ (Settled(word) => Settled(word)')
  <2>1. /\ Landing'[2 * word] = Landing[2 * word]
        /\ Landing'[2 * word + 1] = Landing[2 * word + 1]
        /\ Settled(word) => Settled(word)'
    BY <1>3, WordKept
  <2> QED BY <2>1 DEF Store
<1>4. stateQ' = "read_wait" => stateQ = "read"
  BY <1>1 DEF Fsm, PowerUp, IdleRefresh, IdleHit, IdleMiss, IdleWait, Activate, Read, ReadWait,
     Write0, Write1, PrechargeAll, PrechargeBank, Refresh, Delay, GotoDelay, ServeState, fsmVars,
     TypeOK, FsmTypeOK
<1>5. stateQ = "read" => reqAddrQ' = reqAddrQ
  BY <1>1, LatchedKept
<1> QED BY <1>2, <1>3, <1>4, <1>5, OneWordStep

LEMMA StutterReads ==
  UNCHANGED chipVars =>
    /\ OneWord => OneWord'
    /\ Store' = Store
    /\ \A word \in 0 .. NumWords - 1 : Settled(word) => Settled(word)'
    /\ \A i \in 1 .. 5 : /\ UnderWay(i)' = UnderWay(i)
                         /\ ReadInFlight(i)' = ReadInFlight(i)
<1> SUFFICES ASSUME UNCHANGED chipVars
             PROVE  /\ OneWord => OneWord'
                    /\ Store' = Store
                    /\ \A word \in 0 .. NumWords - 1 : Settled(word) => Settled(word)'
                    /\ \A i \in 1 .. 5 : /\ UnderWay(i)' = UnderWay(i)
                                         /\ ReadInFlight(i)' = ReadInFlight(i)
  OBVIOUS
<1>1. /\ pins' = pins /\ mem' = mem /\ memActiveRowQ' = memActiveRowQ /\ memRdata' = memRdata
      /\ burstAddrQ' = burstAddrQ /\ burstWriteCountQ' = burstWriteCountQ
      /\ dataOutQ' = dataOutQ /\ hiDataQ' = hiDataQ /\ reqWrStrbQ' = reqWrStrbQ
      /\ reqAddrQ' = reqAddrQ /\ sampleQ' = sampleQ /\ readPipeQ' = readPipeQ /\ ackQ' = ackQ
  BY DEF chipVars, coreVars, fsmVars, memVars, pipeVars, outVars, bankVars, burstVars, reqVars
<1>2. Landing' = Landing
  BY <1>1 DEF Landing, LowLanding, Cell0, PinCell
<1>3. Store' = Store
  BY <1>2 DEF Store
<1>4. \A word \in 0 .. NumWords - 1 : Settled(word) => Settled(word)'
  BY <1>1, <1>2 DEF Settled
<1>5. ASSUME NEW i \in 1 .. 5
      PROVE  UnderWay(i)' = UnderWay(i) /\ ReadInFlight(i)' = ReadInFlight(i)
  BY <1>1 DEF UnderWay, ReadInFlight, Cell0, PinCell
<1>6. OneWord => OneWord'
  <2>1. PortWord' = PortWord
    BY <1>1 DEF PortWord, ReadHalves
  <2>2. \A i \in 1 .. 4 : ReadInFlight(i)' = ReadInFlight(i)
    BY <1>5
  <2> QED BY <1>1, <1>3, <2>1, <2>2 DEF OneWord
<1> QED BY <1>3, <1>4, <1>5, <1>6

==============================================================================
