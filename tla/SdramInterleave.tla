--------------------------- MODULE SdramInterleave ---------------------------
(***************************************************************************)
(* SdramInterleaveTop of SdramAxi.scala: the AXI front end in front of two  *)
(* controllers, each with its chip, as SDRAMAxiSimTop wires them.  Even     *)
(* words are in the one, odd words in the other.  A queue of the chips that *)
(* owe an acknowledgement brings the two streams of acknowledgements back   *)
(* into the order in which the requests were accepted.                      *)
(***************************************************************************)
EXTENDS AxiMaster, FiniteSets

CONSTANTS
  Requests,   \* what the front end may put on the port of a controller
  Contents0,  \* what the storage of each chip may hold when power comes on
  Contents1

\* The words of one chip.
NumWords == NumRows * NumBanks * RowWords

\* The clients of the controllers include the front end.
ASSUME FrontEndAssumption == PortRequests(0 .. NumWords - 1) \subseteq Requests

\* What SdramChip assumes of its clients and of the storage.
ASSUME ChipsAssumption ==
  /\ \A r \in Requests :
       /\ r \in [rd : BOOLEAN, wr : SUBSET ByteLanes, addr : Nat, data : Word]
       /\ r.rd => r.wr = {}
  /\ Contents0 \union Contents1 \subseteq [Cells -> Half]

VARIABLES
  stateQ0, targetStateQ0, delayStateQ0, delayQ0, initTimerQ0, refreshCntQ0,
  refreshQ0, reqAddrQ0, reqWrStrbQ0, rowOpenQ0, activeRowQ0, pins0, ckeQ0,
  dataOutQ0, outEnQ0, hiDataQ0, readPipeQ0, sampleQ0, ackQ0, writeBurstEnQ0,
  burstLenQ0, memActiveRowQ0, memActiveEnQ0, burstReadCountQ0,
  burstWriteCountQ0, burstAddrQ0, mem0, memRdata0, memOutEnQ0

VARIABLES
  stateQ1, targetStateQ1, delayStateQ1, delayQ1, initTimerQ1, refreshCntQ1,
  refreshQ1, reqAddrQ1, reqWrStrbQ1, rowOpenQ1, activeRowQ1, pins1, ckeQ1,
  dataOutQ1, outEnQ1, hiDataQ1, readPipeQ1, sampleQ1, ackQ1, writeBurstEnQ1,
  burstLenQ1, memActiveRowQ1, memActiveEnQ1, burstReadCountQ1,
  burstWriteCountQ1, burstAddrQ1, mem1, memRdata1, memOutEnQ1

VARIABLE pendingQ  \* the chips that owe an acknowledgement, oldest first

\* The two chips, with what is proved about either.
Chip0 == INSTANCE SdramChipProofs WITH
  Contents <- Contents0,
  stateQ <- stateQ0, targetStateQ <- targetStateQ0,
  delayStateQ <- delayStateQ0, delayQ <- delayQ0, initTimerQ <- initTimerQ0,
  refreshCntQ <- refreshCntQ0, refreshQ <- refreshQ0, reqAddrQ <- reqAddrQ0,
  reqWrStrbQ <- reqWrStrbQ0, rowOpenQ <- rowOpenQ0,
  activeRowQ <- activeRowQ0, pins <- pins0, ckeQ <- ckeQ0,
  dataOutQ <- dataOutQ0, outEnQ <- outEnQ0, hiDataQ <- hiDataQ0,
  readPipeQ <- readPipeQ0, sampleQ <- sampleQ0, ackQ <- ackQ0,
  writeBurstEnQ <- writeBurstEnQ0, burstLenQ <- burstLenQ0,
  memActiveRowQ <- memActiveRowQ0, memActiveEnQ <- memActiveEnQ0,
  burstReadCountQ <- burstReadCountQ0, burstWriteCountQ <- burstWriteCountQ0,
  burstAddrQ <- burstAddrQ0, mem <- mem0, memRdata <- memRdata0,
  memOutEnQ <- memOutEnQ0

Chip1 == INSTANCE SdramChipProofs WITH
  Contents <- Contents1,
  stateQ <- stateQ1, targetStateQ <- targetStateQ1,
  delayStateQ <- delayStateQ1, delayQ <- delayQ1, initTimerQ <- initTimerQ1,
  refreshCntQ <- refreshCntQ1, refreshQ <- refreshQ1, reqAddrQ <- reqAddrQ1,
  reqWrStrbQ <- reqWrStrbQ1, rowOpenQ <- rowOpenQ1,
  activeRowQ <- activeRowQ1, pins <- pins1, ckeQ <- ckeQ1,
  dataOutQ <- dataOutQ1, outEnQ <- outEnQ1, hiDataQ <- hiDataQ1,
  readPipeQ <- readPipeQ1, sampleQ <- sampleQ1, ackQ <- ackQ1,
  writeBurstEnQ <- writeBurstEnQ1, burstLenQ <- burstLenQ1,
  memActiveRowQ <- memActiveRowQ1, memActiveEnQ <- memActiveEnQ1,
  burstReadCountQ <- burstReadCountQ1, burstWriteCountQ <- burstWriteCountQ1,
  burstAddrQ <- burstAddrQ1, mem <- mem1, memRdata <- memRdata1,
  memOutEnQ <- memOutEnQ1

interVars == <<Chip0!chipVars, Chip1!chipVars, pendingQ, pmemVars, masterVars>>

PENDING_DEPTH == 4
Chips == 0 .. 1

------------------------------------------------------------------------------
\* Routing.

\* The lowest bit of the word address selects the chip, the others address it.
chipSel  == WordOf(ramAddr) % 2
coreAddr == (WordOf(ramAddr) \div 2) % NumWords

\* Only the controller that is selected sees a request.
CoreRequest(chip) ==
  [rd |-> grantRead /\ chipSel = chip, wr |-> IF chipSel = chip THEN ramWstrb ELSE {},
   addr |-> coreAddr, data |-> ramData]

accept == IF chipSel = 1 THEN Chip1!Accept(CoreRequest(1)) ELSE Chip0!Accept(CoreRequest(0))

reqActive == grantRead \/ ramWstrb # {}

\* Only the chip at the head of the queue is listened to.
Ack(chip) == IF chip = 1 THEN ackQ1 ELSE ackQ0
ackCore   == Head(pendingQ)

\* Mutant: an acknowledgement of either chip is passed on.
routedAckAny == pendingQ # <<>> /\ (Ack(0) \/ Ack(1))

routedAck == pendingQ # <<>> /\ Ack(ackCore)
readData  == IF pendingQ # <<>> /\ ackCore = 1 THEN Chip1!PortWord ELSE Chip0!PortWord

\* Mutant: a chip is put on the queue when it is asked.
PendingQueueEager ==
  LET kept == IF routedAck THEN Tail(pendingQ) ELSE pendingQ
  IN  pendingQ' = IF reqActive /\ Len(pendingQ) < PENDING_DEPTH
                  THEN Append(kept, chipSel) ELSE kept

\* Mutant: an acknowledgement of the other chip takes the head off, too.
PendingQueueAny ==
  LET kept == IF routedAckAny THEN Tail(pendingQ) ELSE pendingQ
  IN  pendingQ' = IF accept /\ reqActive /\ Len(pendingQ) < PENDING_DEPTH
                  THEN Append(kept, chipSel) ELSE kept

\* A chip is put on the queue without asking whether there is room.
PendingQueue ==
  LET kept == IF routedAck THEN Tail(pendingQ) ELSE pendingQ
  IN  pendingQ' = IF accept /\ reqActive /\ Len(pendingQ) < PENDING_DEPTH
                  THEN Append(kept, chipSel) ELSE kept

InterCycle(axi) ==
  /\ Chip0!Cycle(CoreRequest(0))
  /\ Chip1!Cycle(CoreRequest(1))
  /\ PmemStep(axi, accept, routedAck, readData)
  /\ PendingQueue
  /\ MasterReads(axi)
  /\ MasterWrites(axi)

InterInit ==
  /\ Chip0!Init
  /\ Chip1!Init
  /\ pendingQ = <<>>
  /\ PmemInit
  /\ MasterInit

InterNext == \E axi \in AxiInputs : InterCycle(axi)

InterSpec == InterInit /\ [][InterNext]_interVars

------------------------------------------------------------------------------
\* Properties.

\* Every request that is accepted has its chip in the queue until the front end
\* counts its acknowledgement, and the queue never has to drop one.
PendingAccounted ==
  /\ Len(pendingQ) = rAckPending + wAckPending
  /\ accept => Len(pendingQ) < PENDING_DEPTH

State(chip)    == IF chip = 1 THEN stateQ1 ELSE stateQ0
Latched(chip)  == IF chip = 1 THEN reqAddrQ1 ELSE reqAddrQ0
Strobed(chip)  == IF chip = 1 THEN reqWrStrbQ1 ELSE reqWrStrbQ0
PinsCmd(chip)  == IF chip = 1 THEN pins1.cmd ELSE pins0.cmd
Landing(chip)  == IF chip = 1 THEN burstWriteCountQ1 ELSE burstWriteCountQ0
Place(chip, a) == WordOf(a) % 2 = chip /\ Latched(chip) = (WordOf(a) \div 2) % NumWords
OwedBy(chip)   == Cardinality({i \in DOMAIN pendingQ : pendingQ[i] = chip})

\* A controller that latched a request serves it even when the arbiter has sent
\* the other side to the other chip by then.  What it serves is still the next
\* beat of the side it latched.
LatchedIsNextOnBoth ==
  \A chip \in Chips :
    /\ State(chip) = "read" => rState = "rBurst" /\ ~rAllReqsSent /\ Place(chip, rAddr)
    /\ State(chip) = "write0" => /\ wState = "wBurst" /\ ~wAllReqsSent /\ Place(chip, wAddr)
                                 /\ wDataQueue # <<>> /\ Strobed(chip) = Head(wDataQueue).strb

\* No acknowledgement of a read, served for nothing or not, is taken for one of
\* the writes that are owed: those a chip owes are all on their way.
WriteAcksMatch ==
  wAckPending > 0 =>
    \A chip \in Chips : OwedBy(chip) > 0 =>
      OwedBy(chip) = One(State(chip) = "write1") + One(Ack(chip))

\* A write is answered when its last half-word is in its chip, no sooner.
WrittenOnBothBeforeAnswered ==
  wState = "wResp" =>
    \A chip \in Chips : State(chip) # "write1" /\ PinsCmd(chip) # "WRITE" /\ Landing(chip) = 0

\* What the two storages hold at a word of the AXI address space.
StoredWord(word) ==
  LET cell  == 2 * ((word \div 2) % NumWords)
      Of(m) == [l \in ByteLanes |-> IF l < 2 THEN m[cell][l] ELSE m[cell + 1][l - 2]]
  IN  IF word % 2 = 1 THEN Of(mem1) ELSE Of(mem0)

\* The places of a burst's words: the memory comes again and again in the address space.
BurstWords(b) == {BeatWord(b.addr, b.type, b.len, k) % (2 * NumWords) : k \in 0 .. b.len}
ReadOnly      == {b \in ReadBursts : \A c \in WriteBursts : BurstWords(b) \intersect BurstWords(c) = {}}

\* The words of a read burst come back in the order of its beats, each from the
\* place of its beat, whichever chip is faster and whatever a controller serves
\* that the front end did not wait for.
WordsInOrder ==
  rState = "rBurst" =>
    \A b \in rAsked \intersect ReadOnly : \A i \in DOMAIN rDataQ :
      rDataQ[i] = StoredWord(BeatWord(b.addr, b.type, b.len, b.len - rRespCnt + i - 1))

\* The front end asks of each chip only what its controller was proved for.
AreSdramChips == Chip0!Spec /\ Chip1!Spec

\* A step in which a word of the read burst, or the write response, is taken.
ReadTaken  == RValid /\ <<rState, rRespCnt>>' # <<rState, rRespCnt>>
WriteTaken == BValid /\ wState' # wState

\* The fairness of FairTopSpec in SdramAxiTop: the clock ticks on, a master sends
\* the data it owes and is ready for answers again and again.  It is said of states and of
\* what a step changes, which is the same here (the clock always can tick, a
\* master always can send or take) and needs no ENABLED.
InterFairness ==
  /\ []<><<TRUE>>_interVars
  /\ []<>(wOwed = 0 \/ w # {})
  /\ []<>RValid => []<><<ReadTaken>>_interVars
  /\ []<>BValid => []<><<WriteTaken>>_interVars

FairInterSpec == InterSpec /\ InterFairness

\* Neither a chip that is refreshing nor the other side keeps a burst from being
\* carried out and answered in the end.
ReadsCompleteOnBoth  == rState = "rBurst" ~> rState = "rIdle"
WritesCompleteOnBoth == wState = "wBurst" ~> wState = "wIdle"

==============================================================================
